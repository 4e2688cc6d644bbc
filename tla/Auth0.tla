------------------------------- MODULE Auth0 ---------------------------------
(***************************************************************************)
(* What the identity service knows of the API's users. It is external: the *)
(* API asks it for a user's permissions (utilities/auth0_mgmt.go), and its *)
(* administrators change them at any time.                                 *)
(***************************************************************************)
EXTENDS Naturals

CONSTANTS
  Requests,    \* goroutines that serve requests of the API
  Users,       \* subjects of the access tokens
  ScopeNames   \* permissions

ASSUME Auth0Assumption == Users # {}

VARIABLE
  granted      \* the permissions of each user

GrantedOK == granted \in [Users -> SUBSET ScopeNames]

SetGrants(u, scopes) == granted' = [granted EXCEPT ![u] = scopes]

=============================================================================
