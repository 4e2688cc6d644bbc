------------------------------ MODULE MgmtToken ------------------------------
(***************************************************************************)
(* UserHasScopes of utilities/auth0_mgmt.go: the handlers' question for a  *)
(* user's scopes, which needs a management token of the API itself. The    *)
(* token and its expiration are two variables of the package that every    *)
(* request reads and writes without a lock.                                *)
(*                                                                         *)
(* refreshToken discards the result of expiration.Add, so the token counts *)
(* as expired one nanosecond after it was stored.                          *)
(***************************************************************************)
EXTENDS Auth0

CONSTANTS
  MaxClock,    \* bound: the clock stops there
  MaxTokens    \* bound: tokens that are issued

ASSUME TokenAssumption == MaxClock \in Nat /\ MaxTokens \in Nat

\* Tokens are numbered in the order of their issue. The empty string that the
\* variable starts with is 0. Refused is any other string that is no token: one that
\* was read or written while another goroutine wrote it, or came without a token.
Refused == MaxTokens + 1

Tokens == 0..Refused

VARIABLES
  clock,       \* nanoseconds
  issued,      \* tokens that were issued
  lapsed,      \* the tokens up to this one may have expired
  token,       \* the package's variable
  expiration,  \* the package's variable
  calls        \* the local variables of each call of UserHasScopes

tokenVars == <<granted, clock, issued, lapsed, token, expiration, calls>>

CallSteps == {"none", "validate", "refresh", "store", "expire", "send", "sent",
              "yes", "no"}

(***************************************************************************)
(* got: the token received.  sent: the token presented.  held: the user    *)
(* has had the scopes since the call began, which is history.              *)
(***************************************************************************)
Call == [pc : CallSteps, user : Users, need : SUBSET ScopeNames, held : BOOLEAN,
         got : Tokens, sent : Tokens]

NoCall == [pc |-> "none", user |-> CHOOSE u \in Users : TRUE, need |-> {},
           held |-> FALSE, got |-> 0, sent |-> 0]

TokenTypeOK ==
  /\ GrantedOK
  /\ clock \in Nat /\ expiration \in Nat
  /\ issued \in 0..MaxTokens /\ lapsed \in 0..MaxTokens
  /\ token \in Tokens
  /\ calls \in [Requests -> Call]

TokenInit ==
  /\ granted \in [Users -> SUBSET ScopeNames]
  /\ clock = 1 /\ issued = 0 /\ lapsed = 0
  /\ token = 0 /\ expiration = 0
  /\ calls = [p \in Requests |-> NoCall]

At(p, step) == calls[p].pc = step

Under(p) == calls[p].pc \notin {"none", "yes", "no"}

Goto(p, step) == calls' = [calls EXCEPT ![p].pc = step]

-----------------------------------------------------------------------------
(* The world outside.                                                      *)

(***************************************************************************)
(* Assumption: no period in which calls overlap without a pause lasts as   *)
(* long as a token. So a token can only expire when, since its issue, the  *)
(* clock has moved while no call was under way.                            *)
(***************************************************************************)
Tick ==
  /\ clock < MaxClock
  /\ clock' = clock + 1
  /\ lapsed' = IF \E p \in Requests : Under(p) THEN lapsed ELSE issued
  /\ UNCHANGED <<granted, issued, token, expiration, calls>>

GrantsChange(u, scopes) ==
  /\ scopes # granted[u]
  /\ SetGrants(u, scopes)
  /\ calls' = [p \in Requests |->
                 IF Under(p) /\ calls[p].user = u
                 THEN [calls[p] EXCEPT !.held = @ \/ calls[p].need \subseteq scopes]
                 ELSE calls[p]]
  /\ UNCHANGED <<clock, issued, lapsed, token, expiration>>

-----------------------------------------------------------------------------
(* The call.                                                               *)

Idle == <<granted, clock, issued, lapsed>>

StartCall(p, u, need) ==
  /\ At(p, "none")
  /\ calls' = [calls EXCEPT ![p] =
       [NoCall EXCEPT !.pc = "validate", !.user = u, !.need = need,
                      !.held = need \subseteq granted[u]]]
  /\ UNCHANGED <<Idle, token, expiration>>

\* Bug: the token is good as long as there is one.
ValidateAny(p) ==
  /\ At(p, "validate")
  /\ Goto(p, IF token = 0 THEN "refresh" ELSE "send")
  /\ UNCHANGED <<Idle, token, expiration>>

\* A time is compared by one word of memory, but for the zero time: a read during the
\* first store may find any time.
HalfExpiration == expiration = 0 /\ \E q \in Requests : At(q, "expire")

\* validateToken. The empty string splits into one part, so only the time counts.
ValidateToken(p) ==
  /\ At(p, "validate")
  /\ \/ Goto(p, IF clock > expiration THEN "refresh" ELSE "send")
     \/ HalfExpiration /\ Goto(p, "send")
  /\ UNCHANGED <<Idle, token, expiration>>

Receive(p, t) == calls' = [calls EXCEPT ![p].pc = "store", ![p].got = t]

\* Bug: the old token is used if there is no new one.
RefreshTokenAnyway(p) ==
  /\ At(p, "refresh")
  /\ \/ /\ issued < MaxTokens
        /\ issued' = issued + 1
        /\ Receive(p, issued + 1)
     \/ Receive(p, Refused) /\ UNCHANGED issued
     \/ Goto(p, "send") /\ UNCHANGED issued
  /\ UNCHANGED <<granted, clock, lapsed, token, expiration>>

\* refreshToken's request. Without a good answer the user has no scopes, but an
\* answer that is good and has no access_token decodes to an empty one.
RefreshToken(p) ==
  /\ At(p, "refresh")
  /\ \/ /\ issued < MaxTokens
        /\ issued' = issued + 1
        /\ Receive(p, issued + 1)
     \/ Receive(p, Refused) /\ UNCHANGED issued
     \/ Goto(p, "no") /\ UNCHANGED issued
  /\ UNCHANGED <<granted, clock, lapsed, token, expiration>>

\* Another goroutine writes the string at this moment.
Racing(p) == \E q \in Requests \ {p} : At(q, "store")

StoreToken(p) ==
  /\ At(p, "store")
  /\ \/ token' = calls[p].got
     \/ Racing(p) /\ token' = Refused
  /\ Goto(p, "expire")
  /\ UNCHANGED <<Idle, expiration>>

\* The lifetime is added to a copy.
StoreExpiration(p) ==
  /\ At(p, "expire")
  /\ expiration' = clock
  /\ Goto(p, "send")
  /\ UNCHANGED <<Idle, token>>

SendToken(p) ==
  /\ At(p, "send")
  /\ \E t \in {token} \cup (IF Racing(p) THEN {Refused} ELSE {}) :
       calls' = [calls EXCEPT ![p].pc = "sent", ![p].sent = t]
  /\ UNCHANGED <<Idle, token, expiration>>

\* Bug: one of the scopes is enough.
HasSome(need, have) == \E scope \in need : scope \in have

\* The loops of UserHasScopes.
HasScopes(need, have) == \A scope \in need : scope \in have

\* The answer tells the scopes. A request that fails, or is refused, as one without
\* a token is, leaves none.
Lookup(p) ==
  /\ At(p, "sent")
  /\ \/ /\ calls[p].sent \in 1..issued
        /\ Goto(p, IF HasScopes(calls[p].need, granted[calls[p].user]) THEN "yes"
                   ELSE "no")
     \/ Goto(p, "no")
  /\ UNCHANGED <<Idle, token, expiration>>

EndCall(p) ==
  /\ calls[p].pc \in {"yes", "no"}
  /\ calls' = [calls EXCEPT ![p] = NoCall]
  /\ UNCHANGED <<Idle, token, expiration>>

CallStep(p) ==
  \/ \E u \in Users, need \in SUBSET ScopeNames \ {{}} : StartCall(p, u, need)
  \/ ValidateToken(p) \/ RefreshToken(p) \/ StoreToken(p) \/ StoreExpiration(p)
  \/ SendToken(p) \/ Lookup(p) \/ EndCall(p)

TokenNext ==
  \/ Tick
  \/ \E u \in Users, scopes \in SUBSET ScopeNames : GrantsChange(u, scopes)
  \/ \E p \in Requests : CallStep(p)

TokenSpec == TokenInit /\ [][TokenNext]_tokenVars

-----------------------------------------------------------------------------

\* Although the lifetime is lost and the two variables are written one after the
\* other by many goroutines (refreshToken), no call presents a token that may have
\* expired, nor the empty string that the variable starts with.
TokenIsFresh == \A p \in Requests : At(p, "sent") => calls[p].sent > lapsed

\* A user who has the scopes now has had them since the call began.
HeldOK ==
  \A p \in Requests :
    Under(p) /\ calls[p].need \subseteq granted[calls[p].user] => calls[p].held

\* Why: a token from before the last pause is older than the clock, so every call
\* takes a new one, and stores it before it counts it as good.
TokenInv ==
  /\ TokenTypeOK /\ HeldOK
  /\ expiration <= clock /\ lapsed <= issued
  /\ token <= lapsed =>
       /\ expiration < clock
       /\ \A p \in Requests : calls[p].pc \notin {"expire", "send", "sent"}
  /\ \A p \in Requests : At(p, "store") => calls[p].got > lapsed
  /\ \A p \in Requests : At(p, "sent") => calls[p].sent > lapsed

(***************************************************************************)
(* The interleaved calls implement the abstract question of Scopes.        *)
(***************************************************************************)
AbstractAsks ==
  [p \in Requests |->
     [state |-> IF Under(p) THEN "asked" ELSE calls[p].pc,
      user |-> calls[p].user, need |-> calls[p].need, held |-> calls[p].held]]

Abstract == INSTANCE Scopes WITH asks <- AbstractAsks

\* UserHasScopes answers yes only if the user had all the scopes asked for at some
\* moment of the call.
AnswersAreTrue == Abstract!ScopesSpec

=============================================================================
