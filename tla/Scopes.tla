------------------------------- MODULE Scopes --------------------------------
(***************************************************************************)
(* What UserHasScopes (utilities/auth0_mgmt.go) promises the handlers that *)
(* call it: a yes means that the user had every scope asked for at some    *)
(* moment of the call. A no promises nothing, for a failed request is one. *)
(***************************************************************************)
EXTENDS Auth0

VARIABLE
  asks  \* the question each request has asked last

scopesVars == <<granted, asks>>

(***************************************************************************)
(* held: the user has had the scopes since the question was asked. It is   *)
(* history that the answers are made of.                                   *)
(***************************************************************************)
Question == [state : {"none", "asked", "yes", "no"}, user : Users,
             need : SUBSET ScopeNames, held : BOOLEAN]

NoQuestion == [state |-> "none", user |-> CHOOSE u \in Users : TRUE,
               need |-> {}, held |-> FALSE]

ScopesTypeOK == GrantedOK /\ asks \in [Requests -> Question]

ScopesInit ==
  /\ granted \in [Users -> SUBSET ScopeNames]
  /\ asks = [p \in Requests |-> NoQuestion]

HasAll(need, have) == \A scope \in need : scope \in have

Ask(p, u, need) ==
  /\ asks[p].state = "none"
  /\ asks' = [asks EXCEPT ![p] = [state |-> "asked", user |-> u, need |-> need,
                                  held |-> HasAll(need, granted[u])]]
  /\ UNCHANGED granted

Yes(p) ==
  /\ asks[p].state = "asked" /\ asks[p].held
  /\ asks' = [asks EXCEPT ![p].state = "yes"]
  /\ UNCHANGED granted

No(p) ==
  /\ asks[p].state = "asked"
  /\ asks' = [asks EXCEPT ![p].state = "no"]
  /\ UNCHANGED granted

\* The request has used the answer.
Forget(p) ==
  /\ asks[p].state \in {"yes", "no"}
  /\ asks' = [asks EXCEPT ![p] = NoQuestion]
  /\ UNCHANGED granted

ChangeGrants(u, scopes) ==
  /\ scopes # granted[u]
  /\ SetGrants(u, scopes)
  /\ asks' = [p \in Requests |->
                IF asks[p].state = "asked" /\ asks[p].user = u
                THEN [asks[p] EXCEPT !.held = @ \/ HasAll(asks[p].need, scopes)]
                ELSE asks[p]]

ScopesNext ==
  \/ \E p \in Requests : \/ \E u \in Users, need \in SUBSET ScopeNames : Ask(p, u, need)
                         \/ Yes(p) \/ No(p) \/ Forget(p)
  \/ \E u \in Users, scopes \in SUBSET ScopeNames : ChangeGrants(u, scopes)

ScopesSpec == ScopesInit /\ [][ScopesNext]_scopesVars

=============================================================================
