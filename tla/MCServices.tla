----------------------------- MODULE MCServices ------------------------------
(***************************************************************************)
(* MgmtToken, ApiStatus, Profiles and DrsSync for TLC. They share no       *)
(* variable but what Auth0 grants, so that each is explored on its own:    *)
(* part, chosen at the start, is the one whose steps are taken.            *)
(***************************************************************************)
EXTENDS MgmtToken, ApiStatus, Profiles, DrsSync, TLC

CONSTANTS a, A, b, g1, g2, s1, s2, m1

VARIABLE part

Parts == {"token", "status", "profiles", "impersonation", "drs", "drs_pair"}

LowerA == [u \in Users |-> IF u = A THEN a ELSE u]

ServiceSymmetry == Permutations(Requests)

mcVars == <<tokenVars, statusVars, profileVars, drsVars, part>>

MCInit ==
  /\ part \in Parts
  /\ TokenInit /\ StatusInit /\ ProfilesInit /\ DrsInit
  /\ granted = [u \in Users |-> {}]
  /\ catalogue = {s1}

\* All goroutines of S but one are in state none.
OneOf(S, local, none) == \E p \in S : \A q \in S \ {p} : local[q] = none

\* Two goroutines that ask for two scopes of one user.
TokenPart ==
  /\ TokenNext
  /\ \A u \in Users \ {a} : granted'[u] = granted[u]
  /\ \A p \in Requests : calls'[p] # NoCall => calls'[p].user = a
                                               /\ calls'[p].need = ScopeNames

\* Two goroutines, while the database and the site each change for the worse.
StatusPart ==
  /\ StatusNext
  /\ ~dbUp => ~dbUp'
  /\ site' # site => <<site, site'>> \in {<<"up", "unreachable">>,
                                         <<"unreachable", "maintenance">>}

\* Two goroutines that put or cache one profile, in their own name.
ProfilesPart ==
  /\ ProfilesNext
  /\ granted' = granted
  /\ \A p \in Requests : request'[p].acts = a /\ request'[p].wants = Nobody
                         /\ request'[p].kind # "force"

\* One goroutine that acts as somebody else, for whom permissions change.
ImpersonationPart ==
  /\ ProfilesNext
  /\ OneOf(Requests, request', NoRequest)
  /\ granted'[A] = granted[A] /\ granted'[b] \subseteq {"update:database"}
  /\ \A p \in Requests : request'[p] # NoRequest =>
       request'[p].kind # "cache" /\ request'[p].fields = {}

\* One refresh at a time with all faults, or two whose statements and documents do
\* not fail.
DrsPart     == DrsNext /\ OneOf(Refreshes, work', NoWork)
DrsPairPart ==
  /\ DrsNext
  /\ catalogue' = catalogue
  /\ \A p \in Refreshes : /\ work'[p].clean
                          /\ Running(p) /\ ~WorkAt(p, "answer") => work'[p] # NoWork

restOfToken == <<clock, issued, lapsed, token, expiration, calls>>
restOfProfiles == <<asks, rows, request>>

MCNext ==
  /\ UNCHANGED part
  /\ \/ part = "token" /\ TokenPart /\ UNCHANGED <<statusVars, restOfProfiles, drsVars>>
     \/ part = "status" /\ StatusPart
                        /\ UNCHANGED <<tokenVars, restOfProfiles, drsVars>>
     \/ part = "profiles" /\ ProfilesPart /\ UNCHANGED <<restOfToken, statusVars, drsVars>>
     \/ part = "impersonation" /\ ImpersonationPart
                               /\ UNCHANGED <<restOfToken, statusVars, drsVars>>
     \/ part = "drs" /\ DrsPart /\ UNCHANGED <<tokenVars, statusVars, restOfProfiles>>
     \/ part = "drs_pair" /\ DrsPairPart
                          /\ UNCHANGED <<tokenVars, statusVars, restOfProfiles>>

MCSpec == MCInit /\ [][MCNext]_mcVars

=============================================================================
