--------------------------- MODULE MgmtToken_proofs ---------------------------
(***************************************************************************)
(* Proofs for MgmtToken: its inductive invariant, that no call presents a  *)
(* token that may have expired, and that it implements Scopes.             *)
(***************************************************************************)
EXTENDS MgmtToken, TLAPS

LEMMA NoCallType == NoCall \in Call
<1>1. (CHOOSE u \in Users : TRUE) \in Users
  BY Auth0Assumption
<1> QED
  BY <1>1, TokenAssumption DEF NoCall, Call, CallSteps, Tokens, Refused

LEMMA TokenInitially == TokenInit => TokenInv
<1> SUFFICES ASSUME TokenInit PROVE TokenInv
  OBVIOUS
<1>1. TokenTypeOK
  BY NoCallType, TokenAssumption
     DEF TokenInit, TokenTypeOK, GrantedOK, Tokens, Refused
<1>2. \A p \in Requests : calls[p].pc = "none"
  BY DEF TokenInit, NoCall
<1> QED
  BY <1>1, <1>2 DEF TokenInit, TokenInv, HeldOK, At, Under

(***************************************************************************)
(* Each action keeps the type of every variable.                           *)
(***************************************************************************)
LEMMA TokenTypeKept == TokenTypeOK /\ [TokenNext]_tokenVars => TokenTypeOK'
<1> USE TokenAssumption
<1> SUFFICES ASSUME TokenTypeOK, [TokenNext]_tokenVars PROVE TokenTypeOK'
  OBVIOUS
<1>t. Refused \in Nat /\ Refused = MaxTokens + 1 /\ Tokens = 0..Refused /\ Refused \in Tokens
  BY DEF Refused, Tokens
<1>1. CASE Tick
  BY <1>1 DEF Tick, TokenTypeOK, GrantedOK
<1>2. ASSUME NEW u \in Users, NEW scopes \in SUBSET ScopeNames, GrantsChange(u, scopes)
      PROVE TokenTypeOK'
  <2>1. GrantedOK'
    BY <1>2 DEF GrantsChange, SetGrants, TokenTypeOK, GrantedOK
  <2>2. \A p \in Requests : calls'[p] \in Call
    BY <1>2 DEF GrantsChange, TokenTypeOK, Call
  <2> QED
    BY <1>2, <2>1, <2>2 DEF GrantsChange, TokenTypeOK
<1>3. ASSUME NEW p \in Requests, CallStep(p)
      PROVE TokenTypeOK'
  <2>c. calls[p] \in Call
    BY DEF TokenTypeOK
  <2>1. ASSUME NEW u \in Users, NEW need \in SUBSET ScopeNames, StartCall(p, u, need)
        PROVE TokenTypeOK'
    <3>1. [NoCall EXCEPT !.pc = "validate", !.user = u, !.need = need,
                         !.held = need \subseteq granted[u]] \in Call
      BY NoCallType DEF Call, CallSteps
    <3> QED
      BY <2>1, <3>1 DEF StartCall, Idle, TokenTypeOK, GrantedOK
  <2>g. \A step \in CallSteps : Goto(p, step) => calls' \in [Requests -> Call]
    BY DEF Goto, TokenTypeOK, Call
  <2>2. CASE ValidateToken(p)
    BY <2>2, <2>g DEF ValidateToken, Idle, TokenTypeOK, GrantedOK, CallSteps
  <2>3. CASE RefreshToken(p)
    <3>r. ASSUME NEW t \in Tokens, Receive(p, t)
          PROVE  calls' \in [Requests -> Call]
      <4>1. [calls[p] EXCEPT !.pc = "store", !.got = t] \in Call
        BY <2>c DEF Call, CallSteps
      <4>2. calls' = [calls EXCEPT ![p] = [calls[p] EXCEPT !.pc = "store", !.got = t]]
        BY <3>r, <2>c DEF Receive, TokenTypeOK, Call
      <4> QED
        BY <4>1, <4>2 DEF TokenTypeOK
    <3>1. CASE issued < MaxTokens /\ issued' = issued + 1 /\ Receive(p, issued + 1)
      <4>1. issued + 1 \in 0..MaxTokens /\ issued + 1 \in Tokens
        BY <3>1, <1>t DEF TokenTypeOK
      <4> QED
        BY <2>3, <3>1, <3>r, <4>1 DEF RefreshToken, TokenTypeOK, GrantedOK
    <3>3. CASE Receive(p, Refused) /\ UNCHANGED issued
      BY <2>3, <3>3, <3>r, <1>t DEF RefreshToken, TokenTypeOK, GrantedOK
    <3>2. CASE Goto(p, "no") /\ UNCHANGED issued
      BY <2>3, <3>2, <2>g DEF RefreshToken, TokenTypeOK, GrantedOK, CallSteps
    <3> QED
      BY <2>3, <3>1, <3>2, <3>3 DEF RefreshToken
  <2>4. CASE StoreToken(p)
    <3>1. calls' \in [Requests -> Call]
      BY <2>4, <2>g DEF StoreToken, CallSteps
    <3>2. token' \in Tokens
      BY <2>4, <2>c, <1>t DEF StoreToken, Call
    <3> QED
      BY <2>4, <3>1, <3>2 DEF StoreToken, Idle, TokenTypeOK, GrantedOK
  <2>5. CASE StoreExpiration(p)
    BY <2>5, <2>g DEF StoreExpiration, Idle, TokenTypeOK, GrantedOK, CallSteps
  <2>6. CASE SendToken(p)
    <3>1. PICK t \in Tokens :
            calls' = [calls EXCEPT ![p].pc = "sent", ![p].sent = t]
      <4>1. \A t \in {token} \cup (IF Racing(p) THEN {Refused} ELSE {}) : t \in Tokens
        BY <1>t DEF TokenTypeOK
      <4> QED
        BY <2>6, <4>1 DEF SendToken
    <3>2. calls' \in [Requests -> Call]
      BY <3>1 DEF TokenTypeOK, Call, CallSteps
    <3> QED
      BY <2>6, <3>2 DEF SendToken, Idle, TokenTypeOK, GrantedOK
  <2>7. CASE Lookup(p)
    BY <2>7, <2>g DEF Lookup, Idle, TokenTypeOK, GrantedOK, CallSteps
  <2>8. CASE EndCall(p)
    BY <2>8, NoCallType DEF EndCall, Idle, TokenTypeOK, GrantedOK
  <2> QED
    BY <1>3, <2>1, <2>2, <2>3, <2>4, <2>5, <2>6, <2>7, <2>8 DEF CallStep
<1>4. CASE UNCHANGED tokenVars
  BY <1>4 DEF tokenVars, TokenTypeOK, GrantedOK
<1> QED
  BY <1>1, <1>2, <1>3, <1>4 DEF TokenNext

LEMMA HeldStep == TokenTypeOK /\ HeldOK /\ [TokenNext]_tokenVars => HeldOK'
<1> SUFFICES ASSUME TokenTypeOK, HeldOK, [TokenNext]_tokenVars PROVE HeldOK'
  OBVIOUS
<1>c. calls \in [Requests -> Call]
  BY DEF TokenTypeOK
<1>1. CASE Tick
  BY <1>1 DEF Tick, HeldOK, Under
<1>2. ASSUME NEW u \in Users, NEW scopes \in SUBSET ScopeNames, GrantsChange(u, scopes)
      PROVE HeldOK'
  <2> SUFFICES ASSUME NEW p \in Requests, Under(p)',
                      (calls[p].need \subseteq granted[calls[p].user])'
               PROVE  calls'[p].held
    BY DEF HeldOK
  <2>1. calls[p] \in Call
    BY <1>c
  <2>2. Under(p) /\ calls'[p].user = calls[p].user /\ calls'[p].need = calls[p].need
    BY <1>2, <2>1 DEF GrantsChange, Under, Call
  <2>3. CASE calls[p].user = u
    <3>1. granted'[u] = scopes
      BY <1>2 DEF GrantsChange, SetGrants, TokenTypeOK, GrantedOK
    <3> QED
      BY <1>2, <2>1, <2>2, <2>3, <3>1 DEF GrantsChange, Call
  <2>4. CASE calls[p].user # u
    <3>1. granted'[calls[p].user] = granted[calls[p].user]
      BY <1>2, <2>1, <2>4 DEF GrantsChange, SetGrants, TokenTypeOK, GrantedOK, Call
    <3> QED
      BY <1>2, <2>1, <2>2, <2>4, <3>1 DEF GrantsChange, HeldOK
  <2> QED
    BY <2>3, <2>4
<1>3. ASSUME NEW p \in Requests, CallStep(p)
      PROVE HeldOK'
  <2>g. granted' = granted
    BY <1>3 DEF CallStep, StartCall, ValidateToken, RefreshToken, StoreToken,
                StoreExpiration, SendToken, Lookup, EndCall, Idle
  <2>1. ASSUME NEW u \in Users, NEW need \in SUBSET ScopeNames, StartCall(p, u, need)
        PROVE HeldOK'
    BY <2>1, <2>g, <1>c DEF StartCall, HeldOK, Under, NoCall
  <2>2. CASE EndCall(p)
    BY <2>2, <2>g, <1>c DEF EndCall, HeldOK, Under, NoCall
  <2>3. CASE \/ ValidateToken(p) \/ RefreshToken(p) \/ StoreToken(p)
             \/ StoreExpiration(p) \/ SendToken(p) \/ Lookup(p)
    <3>1. Under(p)
      BY <2>3 DEF ValidateToken, RefreshToken, StoreToken, StoreExpiration, SendToken,
                  Lookup, At, Under
    <3>2. /\ calls'[p].user = calls[p].user /\ calls'[p].need = calls[p].need
          /\ calls'[p].held = calls[p].held
          /\ \A q \in Requests \ {p} : calls'[q] = calls[q]
      BY <2>3, <1>c DEF ValidateToken, RefreshToken, StoreToken, StoreExpiration,
                        SendToken, Lookup, Goto, Receive, Call
    <3> QED
      BY <3>1, <3>2, <2>g DEF HeldOK, Under
  <2> QED
    BY <1>3, <2>1, <2>2, <2>3 DEF CallStep
<1>4. CASE UNCHANGED tokenVars
  BY <1>4 DEF tokenVars, HeldOK, Under
<1> QED
  BY <1>1, <1>2, <1>3, <1>4 DEF TokenNext

(***************************************************************************)
(* The inductive step. The token can lapse only at a moment without calls, *)
(* and from then on it is older than the clock.                            *)
(***************************************************************************)
LEMMA TokenStep == TokenInv /\ [TokenNext]_tokenVars => TokenInv'
<1> USE TokenAssumption
<1> SUFFICES ASSUME TokenInv, [TokenNext]_tokenVars PROVE TokenInv'
  OBVIOUS
<1>t. TokenTypeOK /\ TokenTypeOK' /\ HeldOK'
  BY TokenTypeKept, HeldStep DEF TokenInv
<1>n. /\ clock \in Nat /\ expiration \in Nat /\ issued \in Nat /\ lapsed \in Nat
      /\ issued <= MaxTokens /\ Refused = MaxTokens + 1 /\ token \in 0..Refused
      /\ token \in Nat
  BY <1>t DEF TokenTypeOK, Tokens, Refused
<1>c. calls \in [Requests -> Call]
  BY <1>t DEF TokenTypeOK
<1>1. CASE Tick
  <2>1. CASE \E p \in Requests : Under(p)
    BY <1>1, <2>1, <1>t, <1>n DEF Tick, TokenInv, At
  <2>2. CASE \A p \in Requests : ~Under(p)
    <3>1. \A p \in Requests : calls[p].pc \in {"none", "yes", "no"}
      BY <2>2 DEF Under
    <3>2. lapsed' = issued /\ clock' = clock + 1
          /\ UNCHANGED <<issued, token, expiration, calls>>
      BY <1>1, <2>2 DEF Tick
    <3> QED
      BY <3>1, <3>2, <1>t, <1>n DEF TokenInv, At
  <2> QED
    BY <2>1, <2>2
<1>2. ASSUME NEW u \in Users, NEW scopes \in SUBSET ScopeNames, GrantsChange(u, scopes)
      PROVE TokenInv'
  <2>1. \A p \in Requests : /\ calls'[p].pc = calls[p].pc /\ calls'[p].got = calls[p].got
                            /\ calls'[p].sent = calls[p].sent
    BY <1>2, <1>c DEF GrantsChange, Call
  <2> QED
    BY <1>2, <2>1, <1>t DEF GrantsChange, TokenInv, At
<1>3. ASSUME NEW p \in Requests, CallStep(p)
      PROVE TokenInv'
  <2>1. ASSUME NEW u \in Users, NEW need \in SUBSET ScopeNames, StartCall(p, u, need)
        PROVE TokenInv'
    BY <2>1, <1>t, <1>c DEF StartCall, Idle, TokenInv, At, NoCall
  <2>2. CASE ValidateToken(p)
    <3>1. \/ Goto(p, "refresh")
          \/ Goto(p, "send") /\ (~(clock > expiration) \/ HalfExpiration)
      BY <2>2 DEF ValidateToken
    <3>2. At(p, "validate") /\ UNCHANGED <<Idle, token, expiration>>
      BY <2>2 DEF ValidateToken
    <3>3. CASE Goto(p, "refresh")
      BY <3>2, <3>3, <1>t, <1>c DEF Idle, Goto, TokenInv, At
    <3>4. CASE Goto(p, "send") /\ (~(clock > expiration) \/ HalfExpiration)
      <4>1. ~(token <= lapsed)
        BY <3>4, <1>n DEF TokenInv, HalfExpiration, At
      <4> QED
        BY <3>2, <3>4, <4>1, <1>t, <1>c DEF Idle, Goto, TokenInv, At
    <3> QED
      BY <3>1, <3>3, <3>4
  <2>3. CASE RefreshToken(p)
    <3>1. CASE issued' = issued + 1 /\ Receive(p, issued + 1)
      BY <2>3, <3>1, <1>t, <1>n, <1>c DEF RefreshToken, Receive, TokenInv, At, Call
    <3>3. CASE Receive(p, Refused) /\ UNCHANGED issued
      BY <2>3, <3>3, <1>t, <1>n, <1>c DEF RefreshToken, Receive, TokenInv, At, Call
    <3>2. CASE Goto(p, "no") /\ UNCHANGED issued
      BY <2>3, <3>2, <1>t, <1>n, <1>c DEF RefreshToken, Goto, TokenInv, At
    <3> QED
      BY <2>3, <3>1, <3>2, <3>3 DEF RefreshToken
  <2>4. CASE StoreToken(p)
    <3>1. calls[p].got > lapsed /\ Refused > lapsed /\ calls[p].got \in Nat
      BY <2>4, <1>n, <1>c DEF StoreToken, TokenInv, Call, Tokens
    <3>2. token' > lapsed' /\ token' \in Nat
      BY <2>4, <3>1, <1>n DEF StoreToken, Idle
    <3> QED
      BY <2>4, <3>2, <1>t, <1>n, <1>c DEF StoreToken, Idle, Goto, TokenInv, At
  <2>5. CASE StoreExpiration(p)
    <3>1. ~(token <= lapsed)
      BY <2>5 DEF StoreExpiration, TokenInv, At
    <3> QED
      BY <2>5, <3>1, <1>t, <1>n, <1>c DEF StoreExpiration, Idle, Goto, TokenInv, At
  <2>6. CASE SendToken(p)
    <3>1. token > lapsed /\ Refused > lapsed
      BY <2>6, <1>n DEF SendToken, TokenInv, At
    <3>2. PICK t \in {token, Refused} :
            calls' = [calls EXCEPT ![p].pc = "sent", ![p].sent = t]
      BY <2>6 DEF SendToken
    <3> QED
      BY <2>6, <3>1, <3>2, <1>t, <1>n, <1>c DEF SendToken, Idle, TokenInv, At, Call
  <2>7. CASE Lookup(p)
    <3>1. PICK step \in {"yes", "no"} : calls' = [calls EXCEPT ![p].pc = step]
      BY <2>7 DEF Lookup, Goto
    <3>2. \A q \in Requests : calls'[q].pc = calls[q].pc \/ calls'[q].pc \in {"yes", "no"}
      BY <3>1, <1>c DEF Call
    <3>3. \A q \in Requests : calls'[q].got = calls[q].got /\ calls'[q].sent = calls[q].sent
      BY <3>1, <1>c DEF Call
    <3> QED
      BY <2>7, <3>2, <3>3, <1>t DEF Lookup, Idle, TokenInv, At
  <2>8. CASE EndCall(p)
    BY <2>8, <1>t, <1>c DEF EndCall, Idle, TokenInv, At, NoCall
  <2> QED
    BY <1>3, <2>1, <2>2, <2>3, <2>4, <2>5, <2>6, <2>7, <2>8 DEF CallStep
<1>4. CASE UNCHANGED tokenVars
  BY <1>4, <1>t DEF tokenVars, TokenInv, At
<1> QED
  BY <1>1, <1>2, <1>3, <1>4 DEF TokenNext

-----------------------------------------------------------------------------

\* The inductive invariant holds, for any number of requests, tokens and moments:
\* whatever the unlocked variables of the package go through (refreshToken).
THEOREM TokenInvariant == TokenSpec => []TokenInv
<1> QED
  BY TokenInitially, TokenStep, PTL DEF TokenSpec

\* No call of UserHasScopes presents a token that may have expired.
THEOREM TokensAreFresh == TokenSpec => []TokenIsFresh
<1>1. TokenInv => TokenIsFresh
  BY DEF TokenInv, TokenIsFresh
<1> QED
  BY TokenInvariant, <1>1, PTL

-----------------------------------------------------------------------------
(* Refinement: a call's steps are stutters of Scopes but the first, the    *)
(* answer and the end.                                                     *)

LEMMA AsksInitially == TokenInit => Abstract!ScopesInit
<1> SUFFICES ASSUME TokenInit PROVE Abstract!ScopesInit
  OBVIOUS
<1>1. \A p \in Requests : AbstractAsks[p] = Abstract!NoQuestion
  BY DEF TokenInit, AbstractAsks, Abstract!NoQuestion, NoCall, Under
<1>2. AbstractAsks = [p \in Requests |-> Abstract!NoQuestion]
  BY <1>1 DEF AbstractAsks
<1> QED
  BY <1>2 DEF TokenInit, Abstract!ScopesInit

\* A call that goes on under way without losing what it was asked is a stutter.
LEMMA AsksStutter ==
  ASSUME NEW p \in Requests, calls \in [Requests -> Call], Under(p),
         NEW call, calls' = [calls EXCEPT ![p] = call],
         call.pc \notin {"none", "yes", "no"}, call.user = calls[p].user,
         call.need = calls[p].need, call.held = calls[p].held
  PROVE  AbstractAsks' = AbstractAsks
  BY DEF AbstractAsks, Under

LEMMA AsksStep ==
  TokenInv /\ [TokenNext]_tokenVars => [Abstract!ScopesNext]_(Abstract!scopesVars)
<1> SUFFICES ASSUME TokenInv, [TokenNext]_tokenVars
             PROVE  Abstract!ScopesNext \/ UNCHANGED <<granted, AbstractAsks>>
  BY DEF Abstract!scopesVars
<1>c. calls \in [Requests -> Call]
  BY DEF TokenInv, TokenTypeOK
<1>1. CASE Tick
  BY <1>1 DEF Tick, AbstractAsks, Under
<1>2. ASSUME NEW u \in Users, NEW scopes \in SUBSET ScopeNames, GrantsChange(u, scopes)
      PROVE  Abstract!ScopesNext
  <2>1. \A p \in Requests :
          AbstractAsks'[p] =
            IF AbstractAsks[p].state = "asked" /\ AbstractAsks[p].user = u
            THEN [AbstractAsks[p] EXCEPT
                    !.held = @ \/ Abstract!HasAll(AbstractAsks[p].need, scopes)]
            ELSE AbstractAsks[p]
    <3> SUFFICES ASSUME NEW p \in Requests
                 PROVE AbstractAsks'[p] =
                         IF AbstractAsks[p].state = "asked" /\ AbstractAsks[p].user = u
                         THEN [AbstractAsks[p] EXCEPT
                                 !.held = @ \/ Abstract!HasAll(AbstractAsks[p].need, scopes)]
                         ELSE AbstractAsks[p]
      OBVIOUS
    <3>1. calls[p] \in Call
      BY <1>c
    <3>2. CASE Under(p) /\ calls[p].user = u
      BY <1>2, <3>1, <3>2 DEF GrantsChange, AbstractAsks, Under, Call, Abstract!HasAll
    <3>3. CASE ~(Under(p) /\ calls[p].user = u)
      BY <1>2, <3>1, <3>3 DEF GrantsChange, AbstractAsks, Under, Call, CallSteps
    <3> QED
      BY <3>2, <3>3
  <2>2. AbstractAsks' = [p \in Requests |->
          IF AbstractAsks[p].state = "asked" /\ AbstractAsks[p].user = u
          THEN [AbstractAsks[p] EXCEPT
                  !.held = @ \/ Abstract!HasAll(AbstractAsks[p].need, scopes)]
          ELSE AbstractAsks[p]]
    BY <2>1 DEF AbstractAsks
  <2>3. Abstract!ChangeGrants(u, scopes)
    BY <1>2, <2>2 DEF GrantsChange, SetGrants, Abstract!ChangeGrants, Abstract!SetGrants
  <2> QED
    BY <2>3 DEF Abstract!ScopesNext
<1>3. ASSUME NEW p \in Requests, CallStep(p)
      PROVE  Abstract!ScopesNext \/ UNCHANGED <<granted, AbstractAsks>>
  <2>c. calls[p] \in Call
    BY <1>c
  <2>g. ASSUME NEW step, step \notin {"none", "yes", "no"}, Under(p), Goto(p, step)
        PROVE  UNCHANGED AbstractAsks
    <3>1. calls' = [calls EXCEPT ![p] = [calls[p] EXCEPT !.pc = step]]
      BY <2>g, <1>c DEF Goto
    <3> DEFINE call == [calls[p] EXCEPT !.pc = step]
    <3>2. call.pc = step /\ call.user = calls[p].user
          /\ call.need = calls[p].need /\ call.held = calls[p].held
      BY <2>c DEF Call
    <3> HIDE DEF call
    <3> QED
      BY <3>1, <3>2, <2>g, <1>c, AsksStutter DEF call
  <2>n. ASSUME Under(p), Goto(p, "no")
        PROVE  AbstractAsks' = [AbstractAsks EXCEPT ![p].state = "no"]
               /\ AbstractAsks[p].state = "asked"
    BY <2>n, <1>c, <2>c DEF Goto, AbstractAsks, Under, Call
  <2>1. ASSUME NEW u \in Users, NEW need \in SUBSET ScopeNames, StartCall(p, u, need)
        PROVE  Abstract!ScopesNext
    <3>1. AbstractAsks' = [AbstractAsks EXCEPT ![p] =
            [state |-> "asked", user |-> u, need |-> need,
             held |-> need \subseteq granted[u]]]
      BY <2>1, <1>c DEF StartCall, AbstractAsks, Under, NoCall
    <3>2. (need \subseteq granted[u]) = Abstract!HasAll(need, granted[u])
      BY DEF Abstract!HasAll
    <3>3. AbstractAsks[p].state = "none"
      BY <2>1 DEF StartCall, AbstractAsks, Under, At
    <3>4. Abstract!Ask(p, u, need)
      BY <2>1, <3>1, <3>2, <3>3 DEF Abstract!Ask, StartCall, Idle
    <3> QED
      BY <3>4 DEF Abstract!ScopesNext
  <2>2. CASE ValidateToken(p)
    BY <2>2, <2>g DEF ValidateToken, Idle, At, Under
  <2>3. CASE RefreshToken(p)
    <3>1. ASSUME NEW t, Receive(p, t)
          PROVE  Abstract!ScopesNext \/ UNCHANGED <<granted, AbstractAsks>>
      <4>1. \A q \in Requests : AbstractAsks'[q] = AbstractAsks[q]
        BY <2>3, <3>1, <1>c DEF RefreshToken, Receive, AbstractAsks, Under, At, Call
      <4> QED
        BY <2>3, <4>1 DEF RefreshToken, AbstractAsks
    <3>2. CASE Goto(p, "no")
      <4>1. Abstract!No(p)
        BY <2>3, <3>2, <2>n DEF RefreshToken, Abstract!No, At, Under
      <4> QED
        BY <4>1 DEF Abstract!ScopesNext
    <3> QED
      BY <2>3, <3>1, <3>2 DEF RefreshToken
  <2>4. CASE StoreToken(p)
    BY <2>4, <2>g DEF StoreToken, Idle, At, Under
  <2>5. CASE StoreExpiration(p)
    BY <2>5, <2>g DEF StoreExpiration, Idle, At, Under
  <2>6. CASE SendToken(p)
    <3>1. PICK t : calls' = [calls EXCEPT ![p].pc = "sent", ![p].sent = t]
      BY <2>6 DEF SendToken
    <3>2. \A q \in Requests : AbstractAsks'[q] = AbstractAsks[q]
      BY <2>6, <3>1, <1>c DEF SendToken, AbstractAsks, Under, At, Call
    <3> QED
      BY <2>6, <3>2 DEF SendToken, Idle, AbstractAsks
  <2>7. CASE Lookup(p)
    <3>1. CASE Goto(p, "no")
      <4>1. Abstract!No(p)
        BY <2>7, <3>1, <2>n DEF Lookup, Abstract!No, At, Under, Idle
      <4> QED
        BY <4>1 DEF Abstract!ScopesNext
    <3>2. CASE Goto(p, "yes") /\ HasScopes(calls[p].need, granted[calls[p].user])
      <4>1. AbstractAsks[p].state = "asked" /\ AbstractAsks[p].held
        BY <2>7, <3>2 DEF Lookup, At, TokenInv, HeldOK, Under, HasScopes, AbstractAsks
      <4>2. AbstractAsks' = [AbstractAsks EXCEPT ![p].state = "yes"]
        BY <2>7, <3>2, <1>c, <2>c DEF Lookup, Goto, AbstractAsks, Under, Call, At
      <4>3. Abstract!Yes(p)
        BY <2>7, <4>1, <4>2 DEF Lookup, Idle, Abstract!Yes
      <4> QED
        BY <4>3 DEF Abstract!ScopesNext
    <3> QED
      BY <2>7, <3>1, <3>2 DEF Lookup
  <2>8. CASE EndCall(p)
    <3>1. AbstractAsks' = [AbstractAsks EXCEPT ![p] = Abstract!NoQuestion]
      BY <2>8, <1>c DEF EndCall, AbstractAsks, Under, NoCall, Abstract!NoQuestion
    <3>2. AbstractAsks[p].state \in {"yes", "no"}
      BY <2>8 DEF EndCall, AbstractAsks, Under
    <3>3. Abstract!Forget(p)
      BY <2>8, <3>1, <3>2 DEF EndCall, Idle, Abstract!Forget
    <3> QED
      BY <3>3 DEF Abstract!ScopesNext
  <2> QED
    BY <1>3, <2>1, <2>2, <2>3, <2>4, <2>5, <2>6, <2>7, <2>8 DEF CallStep
<1>4. CASE UNCHANGED tokenVars
  BY <1>4 DEF tokenVars, AbstractAsks, Under
<1> QED
  BY <1>1, <1>2, <1>3, <1>4 DEF TokenNext

\* The interleaved calls of UserHasScopes, with the token they share, implement the
\* atomic question of Scopes: a yes is never the answer to what was not so.
THEOREM ImplementsScopes == TokenSpec => AnswersAreTrue
<1> QED
  BY AsksInitially, AsksStep, TokenInvariant, PTL
     DEF TokenSpec, AnswersAreTrue, Abstract!ScopesSpec

=============================================================================
