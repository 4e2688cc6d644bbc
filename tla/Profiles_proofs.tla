--------------------------- MODULE Profiles_proofs ----------------------------
(***************************************************************************)
(* Proofs for Profiles: its inductive invariant, that nobody acts without  *)
(* being entitled, and what a put leaves in the table.                     *)
(***************************************************************************)
EXTENDS Profiles, TLAPS

LEMMA ProfileConstants ==
  /\ AnyUser \in Users /\ Blank \in [Fields -> Values] /\ NoProfile \in Profile
  /\ NoQuestion \in Question /\ NoRequest \in Request
<1>1. AnyUser \in Users /\ (CHOOSE u \in Users : TRUE) \in Users
  BY Auth0Assumption DEF AnyUser
<1>2. Blank \in [Fields -> Values]
  BY ProfilesAssumption DEF Blank
<1>3. NoProfile \in Profile
  BY <1>2 DEF NoProfile, Profile
<1>4. NoQuestion \in Question
  BY <1>1 DEF NoQuestion, Question
<1>5. NoRequest \in Request
  BY <1>1, <1>2, <1>3 DEF NoRequest, Request, RequestSteps
<1> QED
  BY <1>1, <1>2, <1>3, <1>4, <1>5

-----------------------------------------------------------------------------
(* Types.                                                                  *)

LEMMA RequestFields ==
  ASSUME NEW r \in Request
  PROVE  /\ \A step \in RequestSteps : [r EXCEPT !.pc = step] \in Request
         /\ [r EXCEPT !.overtaken = TRUE] \in Request
         /\ \A row \in Profile, step \in RequestSteps :
              [r EXCEPT !.row = row, !.pc = step] \in Request
         /\ \A u \in Users, step \in RequestSteps :
              [r EXCEPT !.acts = u, !.pc = step] \in Request
         /\ \A could \in SUBSET (Users \X ScopeNames) :
              [r EXCEPT !.could = could] \in Request
  BY DEF Request

LEMMA AskTypes ==
  ASSUME ScopesTypeOK, NEW p \in Requests, NEW u \in Users, NEW need \in SUBSET ScopeNames
  PROVE  Ask(p, u, need) \/ Yes(p) \/ No(p) \/ Forget(p) => ScopesTypeOK'
<1>1. [state |-> "asked", user |-> u, need |-> need, held |-> HasAll(need, granted[u])]
        \in Question
  BY DEF Question, HasAll
<1>2. CASE Ask(p, u, need)
  BY <1>1, <1>2 DEF Ask, ScopesTypeOK, GrantedOK
<1>3. CASE Yes(p) \/ No(p)
  BY <1>3 DEF Yes, No, ScopesTypeOK, GrantedOK, Question
<1>4. CASE Forget(p)
  BY <1>4, ProfileConstants DEF Forget, ScopesTypeOK, GrantedOK
<1> QED
  BY <1>2, <1>3, <1>4

LEMMA WriteTypes ==
  ASSUME ProfilesTypeOK, NEW p \in Requests, NEW u \in Users,
         NEW vals \in [Fields -> Values], Write(p, u, vals)
  PROVE  rows' \in [Users -> Profile] /\ request' \in [Requests -> Request]
<1>1. [known |-> TRUE, vals |-> vals] \in Profile
  BY DEF Profile
<1>2. \A q \in Requests : request'[q] \in Request
  <2> SUFFICES ASSUME NEW q \in Requests PROVE request'[q] \in Request
    OBVIOUS
  <2>1. request[q] \in Request /\ "answer" \in RequestSteps
    BY DEF ProfilesTypeOK, RequestSteps
  <2>2. request'[q] \in {request[q], [request[q] EXCEPT !.pc = "answer"],
                         [request[q] EXCEPT !.overtaken = TRUE]}
    BY DEF Write
  <2> QED
    BY <2>1, <2>2, RequestFields
<1>3. DOMAIN request' = Requests /\ request' = [q \in Requests |-> request'[q]]
  BY DEF Write
<1> QED
  BY <1>1, <1>2, <1>3 DEF Write, ProfilesTypeOK

LEMMA ProfilesTypeKept == ProfilesInv /\ [ProfilesNext]_profileVars => ProfilesTypeOK'
<1> USE ProfilesAssumption, ProfileConstants
<1> SUFFICES ASSUME ProfilesInv, [ProfilesNext]_profileVars PROVE ProfilesTypeOK'
  OBVIOUS
<1>t. /\ ScopesTypeOK /\ rows \in [Users -> Profile] /\ request \in [Requests -> Request]
      /\ granted \in [Users -> SUBSET ScopeNames]
      /\ ProfilesTypeOK
  BY DEF ProfilesInv, ProfilesTypeOK, ScopesTypeOK, GrantedOK
<1>u. ASSUME UNCHANGED <<granted, asks>> PROVE ScopesTypeOK'
  BY <1>u, <1>t DEF ScopesTypeOK, GrantedOK
<1>1. ASSUME NEW p \in Requests, RequestStep(p) PROVE ProfilesTypeOK'
  <2>c. request[p] \in Request
    BY <1>t
  <2>f. request[p].caller \in Users /\ request[p].acts \in Users
        /\ request[p].row \in Profile /\ request[p].body \in [Fields -> Values]
        /\ LowerSub[request[p].caller] \in Users /\ LowerSub[request[p].acts] \in Users
    BY <2>c DEF Request
  <2>g. \A step \in RequestSteps : Go(p, step) => request' \in [Requests -> Request]
    <3> SUFFICES ASSUME NEW step \in RequestSteps, Go(p, step)
                 PROVE  request' \in [Requests -> Request]
      OBVIOUS
    <3>1. [request[p] EXCEPT !.pc = step] \in Request
      BY <2>c, RequestFields
    <3>2. request' = [request EXCEPT ![p] = [request[p] EXCEPT !.pc = step]]
      BY <1>t DEF Go
    <3> QED
      BY <3>1, <3>2, <1>t
  <2>e. EndRequest(p) => request' \in [Requests -> Request]
    BY <1>t DEF EndRequest
  <2>n. Grants(granted) \in SUBSET (Users \X ScopeNames)
    BY DEF Grants
  <2>1. ASSUME NEW u \in Users, StartCache(p, u) PROVE ProfilesTypeOK'
    <3>1. [NoRequest EXCEPT !.pc = "read", !.acts = u, !.caller = u] \in Request
      BY DEF Request, RequestSteps
    <3> QED
      BY <2>1, <3>1, <1>t, <1>u DEF StartCache, Arrives, ProfilesTypeOK
  <2>2. ASSUME NEW u \in Users, NEW wants \in Users \cup {Nobody}, StartForce(p, u, wants)
        PROVE ProfilesTypeOK'
    <3>1. [NoRequest EXCEPT !.pc = "who", !.kind = "force", !.caller = u, !.wants = wants,
                            !.acts = u, !.could = Grants(granted)] \in Request
      BY <2>n DEF Request, RequestSteps
    <3> QED
      BY <2>2, <3>1, <1>t, <1>u DEF StartForce, Arrives, ProfilesTypeOK
  <2>3. ASSUME NEW u \in Users, NEW wants \in Users \cup {Nobody},
               NEW fields \in SUBSET Fields, NEW body \in [Fields -> Values],
               StartPut(p, u, wants, body, fields)
        PROVE ProfilesTypeOK'
    <3>1. [NoRequest EXCEPT !.pc = "who", !.kind = "put", !.caller = u, !.wants = wants,
                            !.acts = u, !.body = body, !.fields = fields,
                            !.could = Grants(granted)] \in Request
      BY <2>n DEF Request, RequestSteps
    <3> QED
      BY <2>3, <3>1, <1>t, <1>u DEF StartPut, Arrives, ProfilesTypeOK
  <2>4. CASE Who(p)
    <3>1. request' \in [Requests -> Request]
      BY <2>4, <2>g DEF Who, FirstStep, RequestSteps
    <3>2. ScopesTypeOK'
      BY <2>4, <2>f, <1>t, <1>u, AskTypes DEF Who
    <3> QED
      BY <2>4, <3>1, <3>2, <1>t DEF Who, ProfilesTypeOK
  <2>5. CASE ScopesAnswer(p)
    BY <2>5, <1>t, AskTypes DEF ScopesAnswer, ProfilesTypeOK
  <2>6. CASE Impersonate(p)
    <3> DEFINE who == IF asks[p].state = "yes" THEN request[p].wants ELSE request[p].caller
               first == FirstStep(request[p].kind)
    <3>1. who \in Users /\ first \in RequestSteps
      BY <2>6, <2>f DEF Impersonate, ProfilesInv, RightQuestion, RequestAt, FirstStep,
                        RequestSteps
    <3>2. request' = [request EXCEPT ![p] = [request[p] EXCEPT !.acts = who, !.pc = first]]
      BY <2>6, <1>t DEF Impersonate
    <3> HIDE DEF who, first
    <3>3. request' \in [Requests -> Request]
      BY <3>1, <3>2, <2>c, <1>t, RequestFields
    <3> QED
      BY <2>6, <3>3, <1>t, AskTypes DEF Impersonate, ProfilesTypeOK
  <2>7. CASE CheckScope(p)
    <3>1. request' \in [Requests -> Request]
      BY <2>7, <2>g DEF CheckScope, RequestSteps
    <3>2. ScopesTypeOK'
      BY <2>7, <2>f, <1>t, AskTypes DEF CheckScope
    <3> QED
      BY <2>7, <3>1, <3>2, <1>t DEF CheckScope, ProfilesTypeOK
  <2>8. CASE ScopeChecked(p)
    <3>1. request' \in [Requests -> Request]
      BY <2>8, <2>g, <2>e DEF ScopeChecked, RequestSteps
    <3> QED
      BY <2>8, <3>1, <1>t, AskTypes DEF ScopeChecked, ProfilesTypeOK
  <2>9. CASE ForceUpdate(p) \/ AnswerRequest(p)
    BY <2>9, <2>e, <1>t, <1>u DEF ForceUpdate, AnswerRequest, ProfilesTypeOK
  <2>10. CASE ReadProfile(p)
    <3> DEFINE next == IF request[p].kind = "put" THEN "save"
                       ELSE IF rows[request[p].acts].known THEN "answer" ELSE "insert"
    <3>1. next \in RequestSteps /\ rows[request[p].acts] \in Profile
      BY <2>f, <1>t DEF RequestSteps
    <3>2. \/ request' = [request EXCEPT ![p] =
                           [request[p] EXCEPT !.row = rows[request[p].acts], !.pc = next]]
          \/ EndRequest(p)
      BY <2>10, <1>t DEF ReadProfile, DbFails
    <3> HIDE DEF next
    <3>4. [request[p] EXCEPT !.row = rows[request[p].acts], !.pc = next] \in Request
      BY <3>1, <2>c, RequestFields
    <3>3. request' \in [Requests -> Request]
      BY <3>2, <3>4, <2>e, <1>t
    <3> QED
      BY <2>10, <3>3, <1>t, <1>u DEF ReadProfile, ProfilesTypeOK
  <2>11. CASE SaveProfile(p)
    <3>1. Merged(p) \in [Fields -> Values]
      BY <2>f DEF Merged, Profile
    <3>2. rows' \in [Users -> Profile] /\ request' \in [Requests -> Request]
      BY <2>11, <2>e, <2>f, <3>1, <1>t, WriteTypes DEF SaveProfile, DbFails
    <3> QED
      BY <2>11, <3>2, <1>t, <1>u DEF SaveProfile, ProfilesTypeOK
  <2>12. CASE InsertProfile(p)
    <3>1. rows' \in [Users -> Profile] /\ request' \in [Requests -> Request]
      BY <2>12, <2>e, <2>f, <1>t, WriteTypes DEF InsertProfile, DbFails
    <3> QED
      BY <2>12, <3>1, <1>t, <1>u DEF InsertProfile, ProfilesTypeOK
  <2> QED
    BY <1>1, <2>1, <2>2, <2>3, <2>4, <2>5, <2>6, <2>7, <2>8, <2>9, <2>10, <2>11, <2>12
       DEF RequestStep
<1>2. ASSUME NEW u \in Users, NEW scopes \in SUBSET ScopeNames, Administer(u, scopes)
      PROVE ProfilesTypeOK'
  <2>1. \A p \in Requests : asks'[p] \in Question
    BY <1>2, <1>t DEF Administer, ChangeGrants, ScopesTypeOK, Question, HasAll
  <2>2. granted' \in [Users -> SUBSET ScopeNames]
    BY <1>2, <1>t DEF Administer, ChangeGrants, SetGrants
  <2>3. ScopesTypeOK'
    BY <1>2, <2>1, <2>2 DEF Administer, ChangeGrants, ScopesTypeOK, GrantedOK
  <2>4. \A p \in Requests : request'[p] \in Request
    <3> SUFFICES ASSUME NEW p \in Requests PROVE request'[p] \in Request
      OBVIOUS
    <3>1. request[p] \in Request /\ request[p].could \in SUBSET (Users \X ScopeNames)
      BY <1>t DEF Request
    <3>2. request[p].could \cup Grants(granted') \in SUBSET (Users \X ScopeNames)
      BY <3>1 DEF Grants
    <3> DEFINE could == request[p].could \cup Grants(granted')
    <3>3. request'[p] = request[p] \/ request'[p] = [request[p] EXCEPT !.could = could]
      BY <1>2 DEF Administer
    <3> HIDE DEF could
    <3>4. [request[p] EXCEPT !.could = could] \in Request
      BY <3>1, <3>2, RequestFields DEF could
    <3> QED
      BY <3>1, <3>3, <3>4
  <2> QED
    BY <1>2, <1>t, <2>3, <2>4 DEF Administer, ProfilesTypeOK
<1>3. CASE UNCHANGED profileVars
  BY <1>3, <1>t, <1>u DEF profileVars, ProfilesTypeOK
<1> QED
  BY <1>1, <1>2, <1>3 DEF ProfilesNext

-----------------------------------------------------------------------------
(* What a step of one request leaves of the others.                        *)

LEMMA GoFields ==
  ASSUME request \in [Requests -> Request], NEW p \in Requests,
         NEW step \in RequestSteps, Go(p, step)
  PROVE  /\ request'[p].pc = step /\ request'[p].kind = request[p].kind
         /\ request'[p].caller = request[p].caller /\ request'[p].wants = request[p].wants
         /\ request'[p].acts = request[p].acts /\ request'[p].could = request[p].could
         /\ request'[p].row = request[p].row /\ request'[p].body = request[p].body
         /\ request'[p].fields = request[p].fields
         /\ request'[p].overtaken = request[p].overtaken
         /\ \A q \in Requests \ {p} : request'[q] = request[q]
<1>1. request'[p] = [request[p] EXCEPT !.pc = step] /\ request[p] \in Request
  BY DEF Go
<1>2. \A q \in Requests \ {p} : request'[q] = request[q]
  BY DEF Go
<1> QED
  BY <1>1, <1>2 DEF Request

LEMMA WriteFields ==
  ASSUME ProfilesTypeOK, NEW p \in Requests, NEW u \in Users, NEW vals, Write(p, u, vals)
  PROVE  /\ rows'[u].known /\ rows'[u].vals = vals
         /\ \A v \in Users \ {u} : rows'[v] = rows[v]
         /\ request'[p] = [request[p] EXCEPT !.pc = "answer"]
         /\ \A q \in Requests \ {p} :
              \/ /\ request[q].acts = u /\ request[q].pc \in {"save", "answer"}
                 /\ request'[q] = [request[q] EXCEPT !.overtaken = TRUE]
              \/ /\ request[q].acts # u \/ request[q].pc \notin {"save", "answer"}
                 /\ request'[q] = request[q]
<1>1. rows'[u] = [known |-> TRUE, vals |-> vals]
      /\ \A v \in Users \ {u} : rows'[v] = rows[v]
  BY DEF Write, ProfilesTypeOK
<1>2. request'[p] = [request[p] EXCEPT !.pc = "answer"]
  BY DEF Write
<1>3. \A q \in Requests \ {p} : request'[q] =
        IF request[q].acts = u /\ request[q].pc \in {"save", "answer"}
        THEN [request[q] EXCEPT !.overtaken = TRUE] ELSE request[q]
  BY DEF Write
<1> QED
  BY <1>1, <1>2, <1>3

\* Only asks[p] changes; the other requests are at most overtaken.
Bystander(q) ==
  /\ asks'[q] = asks[q]
  /\ \/ request'[q] = request[q] /\ \/ rows' = rows
                                    \/ rows'[request[q].acts] = rows[request[q].acts]
                                    \/ request[q].pc \notin {"save", "answer"}
     \/ request'[q] = [request[q] EXCEPT !.overtaken = TRUE]

LEMMA StepOfAnother ==
  ASSUME ProfilesTypeOK, NEW p \in Requests, RequestStep(p), NEW q \in Requests \ {p}
  PROVE  Bystander(q)
<1> USE DEF Bystander
<1>t. /\ asks \in [Requests -> Question] /\ request \in [Requests -> Request]
      /\ request[p].acts \in Users /\ request[q].acts \in Users
  BY DEF ProfilesTypeOK, ScopesTypeOK, Request
<1>a. \A u, need : Ask(p, u, need) \/ Yes(p) \/ No(p) \/ Forget(p) => asks'[q] = asks[q]
  BY <1>t DEF Ask, Yes, No, Forget
<1>g. \A step : Go(p, step) => request'[q] = request[q]
  BY <1>t DEF Go
<1>e. EndRequest(p) => request'[q] = request[q]
  BY <1>t DEF EndRequest
<1>w. ASSUME NEW vals, Write(p, request[p].acts, vals), asks' = asks
      PROVE  Bystander(q)
  <2>1. \A v \in Users \ {request[p].acts} : rows'[v] = rows[v]
    BY <1>w, <1>t, WriteFields
  <2>2. \/ request'[q] = [request[q] EXCEPT !.overtaken = TRUE]
        \/ /\ request[q].acts # request[p].acts \/ request[q].pc \notin {"save", "answer"}
           /\ request'[q] = request[q]
    BY <1>w DEF Write
  <2> QED
    BY <1>w, <1>t, <2>1, <2>2
<1>1. ASSUME NEW u \in Users, StartCache(p, u) PROVE Bystander(q)
  BY <1>1, <1>t DEF StartCache, Arrives
<1>2. ASSUME NEW u \in Users, NEW wants \in Users \cup {Nobody}, StartForce(p, u, wants)
      PROVE Bystander(q)
  BY <1>2, <1>t DEF StartForce, Arrives
<1>3. ASSUME NEW u \in Users, NEW wants \in Users \cup {Nobody},
             NEW fields \in SUBSET Fields, NEW body \in [Fields -> Values],
             StartPut(p, u, wants, body, fields)
      PROVE Bystander(q)
  BY <1>3, <1>t DEF StartPut, Arrives
<1>4. CASE Who(p)
  BY <1>4, <1>a, <1>g DEF Who
<1>5. CASE ScopesAnswer(p)
  BY <1>5, <1>a DEF ScopesAnswer
<1>6. CASE Impersonate(p)
  <2>1. request'[q] = request[q]
    BY <1>6, <1>t DEF Impersonate
  <2> QED
    BY <1>6, <2>1, <1>a DEF Impersonate
<1>7. CASE CheckScope(p)
  BY <1>7, <1>a, <1>g DEF CheckScope
<1>8. CASE ScopeChecked(p)
  BY <1>8, <1>a, <1>g, <1>e DEF ScopeChecked
<1>9. CASE ForceUpdate(p) \/ AnswerRequest(p)
  BY <1>9, <1>e DEF ForceUpdate, AnswerRequest
<1>10. CASE ReadProfile(p)
  BY <1>10, <1>e, <1>t DEF ReadProfile, DbFails
<1>11. CASE SaveProfile(p)
  BY <1>11, <1>e, <1>w DEF SaveProfile, DbFails
<1>12. CASE InsertProfile(p)
  BY <1>12, <1>e, <1>w DEF InsertProfile, DbFails
<1> QED
  BY <1>1, <1>2, <1>3, <1>4, <1>5, <1>6, <1>7, <1>8, <1>9, <1>10, <1>11, <1>12
     DEF RequestStep

LEMMA GrantsStay == ASSUME NEW p \in Requests, RequestStep(p) PROVE granted' = granted
<1>1. \A u, need : Ask(p, u, need) \/ Yes(p) \/ No(p) \/ Forget(p) => granted' = granted
  BY DEF Ask, Yes, No, Forget
<1>2. \A u, wants, fields, body :
        StartCache(p, u) \/ StartForce(p, u, wants) \/ StartPut(p, u, wants, body, fields)
          => granted' = granted
  BY DEF StartCache, StartForce, StartPut, Arrives
<1>3. CASE ForceUpdate(p) \/ ReadProfile(p) \/ SaveProfile(p) \/ InsertProfile(p)
           \/ AnswerRequest(p)
  BY <1>3 DEF ForceUpdate, ReadProfile, SaveProfile, InsertProfile, AnswerRequest
<1>4. CASE ScopesAnswer(p) \/ Who(p) \/ Impersonate(p) \/ CheckScope(p) \/ ScopeChecked(p)
  BY <1>1, <1>4 DEF Who, ScopesAnswer, Impersonate, CheckScope, ScopeChecked
<1> QED
  BY <1>2, <1>3, <1>4 DEF RequestStep

-----------------------------------------------------------------------------
(* The invariant.                                                          *)

Right(p) == RightQuestion(p) /\ Entitled(p) /\ RightRow(p)

LEMMA BystanderStaysRight ==
  ASSUME ProfilesInv, NEW q \in Requests, Bystander(q), granted' = granted
  PROVE  Right(q)'
<1>1. CASE request'[q] = request[q]
  <2>1. RightQuestion(q)' /\ Entitled(q)'
    BY <1>1 DEF Bystander, ProfilesInv, RightQuestion, Entitled, Grants
  <2>2. \/ rows'[request[q].acts] = rows[request[q].acts]
        \/ request[q].pc \notin {"save", "answer"} \/ request[q].overtaken
    BY <1>1 DEF Bystander, ProfilesInv, ProfilesTypeOK, Request
  <2>3. RightRow(q)'
    BY <1>1, <2>2 DEF ProfilesInv, RightRow
  <2> QED
    BY <2>1, <2>3 DEF Right
<1>2. CASE request'[q] = [request[q] EXCEPT !.overtaken = TRUE]
  <2>1. request[q] \in Request
    BY DEF ProfilesInv, ProfilesTypeOK
  <2>2. /\ request'[q].pc = request[q].pc /\ request'[q].kind = request[q].kind
        /\ request'[q].caller = request[q].caller /\ request'[q].wants = request[q].wants
        /\ request'[q].acts = request[q].acts /\ request'[q].could = request[q].could
        /\ request'[q].overtaken
    BY <1>2, <2>1 DEF Request
  <2>3. RightQuestion(q)'
    BY <2>2 DEF Bystander, ProfilesInv, RightQuestion
  <2>4. Entitled(q)'
    BY <2>2 DEF ProfilesInv, Entitled, Grants
  <2>5. RightRow(q)'
    BY <2>2 DEF ProfilesInv, RightRow
  <2> QED
    BY <2>3, <2>4, <2>5 DEF Right
<1> QED
  BY <1>1, <1>2 DEF Bystander

\* A request that has ended, or has not begun, has nothing to answer for.
LEMMA IdleIsRight ==
  ASSUME NEW p \in Requests, request[p] = NoRequest, asks[p].state = "none"
  PROVE  Right(p)
  BY DEF Right, RightQuestion, Entitled, RightRow, NoRequest

LEMMA OwnStepIsRight ==
  ASSUME ProfilesInv, NEW p \in Requests, RequestStep(p)
  PROVE  Right(p)'
<1> USE ProfilesAssumption, ProfileConstants
<1>t. /\ request \in [Requests -> Request] /\ asks \in [Requests -> Question]
      /\ granted \in [Users -> SUBSET ScopeNames] /\ request[p] \in Request
      /\ ProfilesTypeOK
  BY DEF ProfilesInv, ProfilesTypeOK, ScopesTypeOK, GrantedOK
<1>r. RightQuestion(p) /\ Entitled(p) /\ RightRow(p)
  BY DEF ProfilesInv
<1>g. granted' = granted /\ Grants(granted)' = Grants(granted)
  BY GrantsStay DEF Grants
<1>f. request[p].caller \in Users /\ request[p].acts \in Users
      /\ LowerSub[request[p].caller] \in Users /\ LowerSub[request[p].acts] \in Users
  BY <1>t DEF Request
<1>i. ASSUME EndRequest(p), asks'[p].state = "none" PROVE Right(p)'
  BY <1>i, <1>t, IdleIsRight DEF EndRequest, Right, RightQuestion, Entitled, RightRow,
                                 NoRequest
<1>a. ASSUME NEW u \in Users, NEW scope \in ScopeNames, Ask(p, u, {scope})
      PROVE  /\ asks'[p].user = u /\ asks'[p].need = {scope} /\ asks'[p].state = "asked"
             /\ asks'[p].held => <<u, scope>> \in Grants(granted)
  BY <1>a, <1>t DEF Ask, HasAll, Grants
<1>o. Forget(p) => asks'[p].state = "none"
  BY <1>t DEF Forget, NoQuestion
<1>1. ASSUME NEW u \in Users, StartCache(p, u) PROVE Right(p)'
  <2>1. /\ request'[p].pc = "read" /\ request'[p].kind = "cache"
        /\ request'[p].acts = request'[p].caller
    BY <1>1, <1>t DEF StartCache, Arrives, NoRequest
  <2>2. asks'[p].state = "none"
    BY <1>1, <1>r DEF StartCache, Arrives, RequestAt, RightQuestion
  <2> QED
    BY <2>1, <2>2 DEF Right, RightQuestion, Entitled, RightRow
<1>2. ASSUME NEW u \in Users, NEW wants \in Users \cup {Nobody},
             NEW fields \in SUBSET Fields, NEW body \in [Fields -> Values],
             StartForce(p, u, wants) \/ StartPut(p, u, wants, body, fields)
      PROVE Right(p)'
  <2>1. /\ request'[p].pc = "who" /\ request'[p].kind # "cache"
        /\ request'[p].acts = request'[p].caller
        /\ request'[p].could = Grants(granted)
    <3>1. CASE StartForce(p, u, wants)
      BY <3>1, <1>t DEF StartForce, NoRequest
    <3>2. CASE StartPut(p, u, wants, body, fields)
      <4>1. request'[p] = [NoRequest EXCEPT
              !.pc = "who", !.kind = "put", !.caller = u, !.wants = wants,
              !.acts = u, !.body = body, !.fields = fields, !.could = Grants(granted)]
        BY <3>2, <1>t DEF StartPut
      <4> QED
        BY <4>1 DEF NoRequest
    <3> QED
      BY <1>2, <3>1, <3>2
  <2>2. asks'[p].state = "none"
    BY <1>2, <1>r DEF StartForce, StartPut, Arrives, RequestAt, RightQuestion
  <2> QED
    BY <2>1, <2>2, <1>g DEF Right, RightQuestion, Entitled, RightRow
<1>4. CASE Who(p)
  <2>1. CASE Go(p, FirstStep(request[p].kind)) /\ UNCHANGED <<granted, asks>>
    <3>1. FirstStep(request[p].kind) \in {"read", "scope"}
      BY DEF FirstStep
    <3>2. FirstStep(request[p].kind) \in RequestSteps
      BY <3>1 DEF RequestSteps
    <3>3. /\ request'[p].pc \in {"read", "scope"} /\ request'[p].kind = request[p].kind
          /\ request'[p].caller = request[p].caller /\ request'[p].acts = request[p].acts
          /\ request'[p].could = request[p].could /\ request[p].pc = "who"
          /\ request[p].pc \notin {"asking", "checking"}
      BY <2>1, <3>1, <3>2, <1>4, <1>t, GoFields DEF Who, RequestAt
    <3>4. RightQuestion(p)'
      BY <2>1, <3>3, <1>r DEF RightQuestion
    <3>5. Entitled(p)' /\ RightRow(p)'
      BY <3>3, <1>r, <1>g DEF Entitled, RightRow
    <3> QED
      BY <3>4, <3>5 DEF Right
  <2>2. CASE /\ Ask(p, LowerSub[request[p].caller], {"impersonate"}) /\ Go(p, "asking")
             /\ request[p].wants # Nobody
    <3>1. request[p].wants \in Users
      BY <2>2, <1>t DEF Request
    <3>2. /\ asks'[p].user = LowerSub[request[p].caller] /\ asks'[p].need = {"impersonate"}
          /\ asks'[p].state = "asked"
          /\ asks'[p].held => <<LowerSub[request[p].caller], "impersonate">> \in Grants(granted)
      BY <2>2, <1>a, <1>f
    <3> QED
      BY <2>2, <3>1, <3>2, <1>4, <1>t, <1>r, <1>g, GoFields
         DEF Who, RequestAt, Right, RightQuestion, Entitled, RightRow, RequestSteps
  <2> QED
    BY <1>4, <2>1, <2>2 DEF Who
<1>5. CASE ScopesAnswer(p)
  <2>1. /\ asks'[p].user = asks[p].user /\ asks'[p].need = asks[p].need
        /\ asks'[p].held = asks[p].held /\ asks[p].state = "asked"
        /\ asks'[p].state = "yes" => asks'[p].held
    BY <1>5, <1>t DEF ScopesAnswer, Yes, No, Question
  <2> QED
    BY <1>5, <2>1, <1>r, <1>g DEF ScopesAnswer, Right, RightQuestion, Entitled, RightRow
<1>6. CASE Impersonate(p)
  <2> DEFINE who == IF asks[p].state = "yes" THEN request[p].wants ELSE request[p].caller
             first == FirstStep(request[p].kind)
  <2>1. first \in {"read", "scope"}
    BY DEF FirstStep
  <2>2. request'[p] = [request[p] EXCEPT !.acts = who, !.pc = first]
    BY <1>6, <1>t DEF Impersonate
  <2>3. /\ request'[p].pc = first /\ request'[p].acts = who
        /\ request'[p].kind = request[p].kind /\ request'[p].caller = request[p].caller
        /\ request'[p].could = request[p].could
    BY <2>2, <1>t DEF Request
  <2>4. who # request[p].caller
          => <<LowerSub[request[p].caller], "impersonate">> \in request[p].could
    BY <1>6, <1>r DEF Impersonate, RequestAt, RightQuestion
  <2>5. asks'[p].state = "none"
    BY <1>6, <1>o DEF Impersonate
  <2> HIDE DEF who, first
  <2> QED
    BY <1>6, <2>1, <2>3, <2>4, <2>5, <1>r, <1>g
       DEF Impersonate, RequestAt, Right, RightQuestion, Entitled, RightRow
<1>7. CASE CheckScope(p)
  <2>1. /\ asks'[p].user = LowerSub[request[p].acts] /\ asks'[p].need = {"update:database"}
        /\ asks'[p].state = "asked"
        /\ asks'[p].held => <<LowerSub[request[p].acts], "update:database">> \in Grants(granted)
    BY <1>7, <1>a, <1>f DEF CheckScope
  <2> QED
    BY <1>7, <2>1, <1>t, <1>r, <1>g, GoFields
       DEF CheckScope, RequestAt, Right, RightQuestion, Entitled, RightRow, RequestSteps
<1>8. CASE ScopeChecked(p)
  <2>1. asks'[p].state = "none"
    BY <1>8, <1>o DEF ScopeChecked
  <2>2. CASE asks[p].state = "yes"
    <3>1. <<LowerSub[request[p].acts], "update:database">> \in request[p].could
      BY <1>8, <2>2, <1>r DEF ScopeChecked, RequestAt, RightQuestion
    <3> QED
      BY <1>8, <2>1, <2>2, <3>1, <1>t, <1>r, <1>g, GoFields
         DEF ScopeChecked, RequestAt, Right, RightQuestion, Entitled, RightRow, RequestSteps
  <2> QED
    BY <1>8, <2>1, <2>2, <1>i DEF ScopeChecked
<1>9. CASE ForceUpdate(p) \/ AnswerRequest(p)
  BY <1>9, <1>r, <1>i DEF ForceUpdate, AnswerRequest, RequestAt, RightQuestion
<1>10. CASE ReadProfile(p)
  <2>1. asks'[p].state = "none"
    BY <1>10, <1>r DEF ReadProfile, RequestAt, RightQuestion
  <2>2. ASSUME NEW step \in {"save", "answer", "insert"},
               step = "save" <=> request[p].kind = "put",
               request' = [request EXCEPT ![p].row = rows[request[p].acts], ![p].pc = step]
        PROVE  Right(p)'
    <3>1. request'[p] = [request[p] EXCEPT !.row = rows[request[p].acts], !.pc = step]
      BY <2>2, <1>t
    <3>2. /\ request'[p].pc = step /\ request'[p].row = rows[request[p].acts]
          /\ request'[p].kind = request[p].kind /\ request'[p].caller = request[p].caller
          /\ request'[p].acts = request[p].acts /\ request'[p].could = request[p].could
      BY <3>1, <1>t DEF Request
    <3> QED
      BY <1>10, <2>1, <2>2, <3>2, <1>r, <1>g
         DEF ReadProfile, RequestAt, Right, RightQuestion, Entitled, RightRow
  <2> QED
    BY <1>10, <2>1, <2>2, <1>i DEF ReadProfile, DbFails
<1>w. ASSUME NEW vals, Write(p, request[p].acts, vals), asks' = asks,
             request[p].pc \in {"save", "insert"},
             request[p].kind = "put" => vals = Merged(p)
      PROVE  Right(p)'
  <2>1. /\ rows'[request[p].acts].vals = vals
        /\ request'[p] = [request[p] EXCEPT !.pc = "answer"]
    BY <1>w, <1>t, <1>f, WriteFields
  <2>2. /\ request'[p].pc = "answer" /\ request'[p].row = request[p].row
        /\ request'[p].kind = request[p].kind /\ request'[p].caller = request[p].caller
        /\ request'[p].acts = request[p].acts /\ request'[p].could = request[p].could
        /\ request'[p].body = request[p].body /\ request'[p].fields = request[p].fields
    BY <2>1, <1>t DEF Request
  <2>3. RightQuestion(p)' /\ Entitled(p)'
    BY <1>w, <2>2, <1>r, <1>g DEF RightQuestion, Entitled
  <2>4. RightRow(p)'
    BY <1>w, <2>1, <2>2 DEF RightRow, Merged
  <2> QED
    BY <2>3, <2>4 DEF Right
<1>n. asks[p].state = "none" \/ ~(RequestAt(p, "save") \/ RequestAt(p, "insert"))
  BY <1>r DEF RequestAt, RightQuestion
<1>11. CASE SaveProfile(p)
  BY <1>11, <1>w, <1>n, <1>i DEF SaveProfile, RequestAt, DbFails
<1>12. CASE InsertProfile(p)
  BY <1>12, <1>w, <1>n, <1>i, <1>r DEF InsertProfile, RequestAt, DbFails, RightRow
<1> QED
  BY <1>1, <1>2, <1>4, <1>5, <1>6, <1>7, <1>8, <1>9, <1>10, <1>11, <1>12
     DEF RequestStep

LEMMA AdministeredStaysRight ==
  ASSUME ProfilesInv, NEW u \in Users, NEW scopes \in SUBSET ScopeNames,
         Administer(u, scopes), NEW p \in Requests
  PROVE  Right(p)'
<1>t. /\ request \in [Requests -> Request] /\ asks \in [Requests -> Question]
      /\ granted \in [Users -> SUBSET ScopeNames] /\ request[p] \in Request
      /\ asks[p] \in Question
  BY DEF ProfilesInv, ProfilesTypeOK, ScopesTypeOK, GrantedOK
<1>r. RightQuestion(p) /\ Entitled(p) /\ RightRow(p)
  BY DEF ProfilesInv
<1>1. /\ request'[p].pc = request[p].pc /\ request'[p].kind = request[p].kind
      /\ request'[p].caller = request[p].caller /\ request'[p].wants = request[p].wants
      /\ request'[p].acts = request[p].acts /\ request'[p].row = request[p].row
      /\ request'[p].body = request[p].body /\ request'[p].fields = request[p].fields
      /\ request'[p].overtaken = request[p].overtaken
      /\ request[p].could \subseteq request'[p].could
      /\ request[p].kind # "cache" => Grants(granted)' \subseteq request'[p].could
  <2>1. CASE request[p].kind = "cache"
    BY <2>1, <1>t DEF Administer
  <2>2. CASE request[p].kind # "cache"
    <3>1. request'[p] = [request[p] EXCEPT !.could = request[p].could \cup Grants(granted')]
      BY <2>2, <1>t DEF Administer
    <3>2. Grants(granted)' = Grants(granted')
      BY DEF Grants
    <3> QED
      BY <3>1, <3>2, <1>t DEF Request
  <2> QED
    BY <2>1, <2>2
<1>2. /\ asks'[p].state = asks[p].state /\ asks'[p].user = asks[p].user
      /\ asks'[p].need = asks[p].need
      /\ asks[p].held => asks'[p].held
      /\ asks'[p].held /\ ~asks[p].held =>
           /\ asks[p].user = u /\ asks[p].state = "asked"
           /\ \A scope \in asks[p].need : scope \in scopes
  <2>1. CASE asks[p].state = "asked" /\ asks[p].user = u
    BY <2>1, <1>t DEF Administer, ChangeGrants, Question, HasAll
  <2>2. CASE ~(asks[p].state = "asked" /\ asks[p].user = u)
    BY <2>2, <1>t DEF Administer, ChangeGrants
  <2> QED
    BY <2>1, <2>2
<1>3. RightQuestion(p)'
  <2>1. ASSUME asks'[p].state # "none", asks'[p].held, NEW scope \in asks[p].need
        PROVE  <<asks[p].user, scope>> \in request'[p].could
    <3>1. CASE asks[p].held
      BY <3>1, <2>1, <1>1, <1>2, <1>r DEF RightQuestion
    <3>2. CASE ~asks[p].held
      <4>1. granted'[u] = scopes /\ scope \in scopes /\ asks[p].user = u
        BY <3>2, <2>1, <1>2, <1>t DEF Administer, ChangeGrants, SetGrants
      <4>2. <<u, scope>> \in Grants(granted)'
        BY <4>1 DEF Grants
      <4>3. request[p].kind # "cache"
        BY <2>1, <1>2, <1>r DEF RightQuestion, Entitled
      <4> QED
        BY <4>1, <4>2, <4>3, <1>1
    <3> QED
      BY <3>1, <3>2
  <2>2. asks'[p].state # "none" /\ asks'[p].held =>
          \A scope \in asks'[p].need : <<asks'[p].user, scope>> \in request'[p].could
    BY <2>1, <1>2
  <2>3. asks'[p].state = "yes" => asks'[p].held
    BY <1>2, <1>r DEF RightQuestion
  <2> QED
    BY <2>2, <2>3, <1>1, <1>2, <1>r DEF RightQuestion
<1>4. Entitled(p)'
  BY <1>1, <1>r DEF Entitled
<1>5. RightRow(p)'
  BY <1>1, <1>r DEF RightRow, Administer
<1> QED
  BY <1>3, <1>4, <1>5 DEF Right

LEMMA ProfilesInitially == ProfilesInit => ProfilesInv
<1> USE ProfileConstants
<1> SUFFICES ASSUME ProfilesInit PROVE ProfilesInv
  OBVIOUS
<1>1. ProfilesTypeOK
  BY DEF ProfilesInit, ScopesInit, ProfilesTypeOK, ScopesTypeOK, GrantedOK
<1>2. ASSUME NEW p \in Requests PROVE Right(p)
  <2>1. request[p] = NoRequest /\ asks[p].state = "none"
    BY DEF ProfilesInit, ScopesInit, NoQuestion
  <2> QED
    BY <2>1, IdleIsRight
<1> QED
  BY <1>1, <1>2 DEF ProfilesInv, Right

LEMMA ProfilesInvKept == ProfilesInv /\ [ProfilesNext]_profileVars => ProfilesInv'
<1> SUFFICES ASSUME ProfilesInv, [ProfilesNext]_profileVars PROVE ProfilesInv'
  OBVIOUS
<1>1. ProfilesTypeOK'
  BY ProfilesTypeKept
<1>2. \A q \in Requests : Right(q)'
  <2> SUFFICES ASSUME NEW q \in Requests PROVE Right(q)'
    OBVIOUS
  <2>1. ASSUME NEW p \in Requests, RequestStep(p) PROVE Right(q)'
    <3>1. CASE p = q
      BY <2>1, <3>1, OwnStepIsRight
    <3>2. CASE p # q
      BY <2>1, <3>2, StepOfAnother, GrantsStay, BystanderStaysRight DEF ProfilesInv
    <3> QED
      BY <3>1, <3>2
  <2>2. ASSUME NEW u \in Users, NEW scopes \in SUBSET ScopeNames, Administer(u, scopes)
        PROVE Right(q)'
    BY <2>2, AdministeredStaysRight
  <2>3. CASE UNCHANGED profileVars
    BY <2>3 DEF profileVars, ProfilesInv, Right, RightQuestion, Entitled, RightRow, Grants
  <2> QED
    BY <2>1, <2>2, <2>3 DEF ProfilesNext
<1> QED
  BY <1>1, <1>2 DEF ProfilesInv, Right

\* The invariant holds for any number of requests and users.
THEOREM ProfilesInvariant == ProfilesSpec => []ProfilesInv
  BY ProfilesInitially, ProfilesInvKept, PTL DEF ProfilesSpec

\* Nobody acts for another user, or forces an update, without having had the
\* permission at a moment of the request.
THEOREM OnlyEntitled == ProfilesSpec => []ActsAsEntitled
<1>1. ASSUME ProfilesInv, NEW p \in Requests
      PROVE  /\ request[p].acts # request[p].caller =>
                 <<LowerSub[request[p].caller], "impersonate">> \in request[p].could
             /\ request[p].pc = "update" =>
                 <<LowerSub[request[p].acts], "update:database">> \in request[p].could
  BY <1>1 DEF ProfilesInv, Entitled
<1>2. ProfilesInv => ActsAsEntitled
  BY <1>1, Zenon DEF ActsAsEntitled
<1> QED
  BY <1>2, ProfilesInvariant, PTL

\* A put that no other request overtakes leaves exactly what it was sent.
THEOREM LonePutsAreExact == ProfilesSpec => []LonePutIsExact
<1>1. ProfilesInv => LonePutIsExact
  BY DEF ProfilesInv, RightRow, LonePutIsExact
<1> QED
  BY <1>1, ProfilesInvariant, PTL

\* Only a put changes a profile that there is.
THEOREM OnlyPutsChangeProfiles == ProfilesSpec => CacheChangesNothing
<1> DEFINE Saved == \A u \in Users : rows[u].known /\ rows'[u] # rows[u] =>
                      \E p \in Requests : request[p].kind = "put" /\ request[p].acts = u
                                          /\ RequestAt(p, "save")
<1>1. ProfilesInv /\ [ProfilesNext]_profileVars => [Saved]_profileVars
  <2> SUFFICES ASSUME ProfilesInv, [ProfilesNext]_profileVars, NEW u \in Users,
                      rows[u].known, rows'[u] # rows[u]
               PROVE  \E p \in Requests : request[p].kind = "put" /\ request[p].acts = u
                                          /\ RequestAt(p, "save")
    OBVIOUS
  <2>1. PICK p \in Requests : RequestStep(p)
    BY DEF ProfilesNext, Administer, profileVars
  <2>2. SaveProfile(p) \/ InsertProfile(p)
    <3>1. \A v, wants, fields, body :
            ~StartCache(p, v) /\ ~StartForce(p, v, wants) /\ ~StartPut(p, v, wants, body, fields)
      BY DEF StartCache, StartForce, StartPut, Arrives
    <3>2. ~(Who(p) \/ ScopesAnswer(p) \/ Impersonate(p) \/ CheckScope(p) \/ ScopeChecked(p))
      BY DEF Who, ScopesAnswer, Impersonate, CheckScope, ScopeChecked
    <3>3. ~(ForceUpdate(p) \/ ReadProfile(p) \/ AnswerRequest(p))
      BY DEF ForceUpdate, ReadProfile, AnswerRequest
    <3> QED
      BY <2>1, <3>1, <3>2, <3>3 DEF RequestStep
  <2>3. PICK vals : Write(p, request[p].acts, vals)
    BY <2>2 DEF SaveProfile, InsertProfile
  <2>4. u = request[p].acts
    BY <2>3 DEF Write, ProfilesInv, ProfilesTypeOK
  <2>5. RequestAt(p, "save")
    BY <2>2, <2>4 DEF SaveProfile, InsertProfile
  <2>6. request[p].kind = "put"
    BY <2>5 DEF ProfilesInv, RightRow, RequestAt
  <2> QED
    BY <2>4, <2>5, <2>6
<1> QED
  BY <1>1, ProfilesInvariant, PTL DEF ProfilesSpec, CacheChangesNothing

=============================================================================
