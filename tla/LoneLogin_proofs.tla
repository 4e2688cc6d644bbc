------------------------- MODULE LoneLogin_proofs -------------------------
(***************************************************************************)
(* A login that nothing overlaps keeps its promise. The others are idle    *)
(* before and after each of its steps, so the step is its own, and no      *)
(* other can have touched the row it stored. LoneInv, with SessionInv, is  *)
(* inductive; the two promises follow from it one step at a time.          *)
(***************************************************************************)
EXTENDS LoneLogin, EaSession_proofs

\* Statements do not fail here: a Save that fails breaks the promise by itself.
StatementsWork == "db" \notin Faults

-----------------------------------------------------------------------------
(* Whose step it is.                                                       *)

LEMMA NextOfOne ==
  ASSUME [Next]_vars
  PROVE  \/ \E p \in Procs : Start(p) \/ Continue(p)
         \/ UNCHANGED <<db, loc>>
BY DEF Next, Expire, vars, db

LEMMA ContinueIsUnderWay ==
  ASSUME NEW p \in Procs, Continue(p)
  PROVE  ~At(p, "idle")
BY DEF Continue, At, LoginAccepted, LoginRefused, LoginSave, CookieUnchanged, DeferRead,
       DeferPanic, DeferSave, LogoutRead, LogoutSave, Fetch, ClientRead, ClientCheck,
       Use, UseUnanswered, FanOutPanic, NextItem, Clear, UpdCheck, UpdSub, UpdSave,
       LoopDone, SelectProfiles, NextProfile

\* The operation that a start gives the goroutine.
LEMMA StartIsUnderWay ==
  ASSUME SessionInv, NEW p \in Procs, Start(p)
  PROVE  /\ At(p, "idle") /\ loc'[p].pc # "idle"
         /\ loc'[p].op = "login" =>
              \E w \in WebUsers, n \in Names : StartLogin(p, w, n)
<1>1. loc \in [Procs -> Local]
  BY DEF SessionInv, TypeOK
<1>2. ASSUME NEW w \in WebUsers, NEW n \in Names, StartLogin(p, w, n)
      PROVE  At(p, "idle") /\ loc'[p].pc # "idle"
  BY <1>1, <1>2 DEF StartLogin, Become, At, Idle
<1>3. ASSUME NEW w \in WebUsers, NEW n \in Names, StartLogout(p, w, n)
      PROVE  At(p, "idle") /\ loc'[p].pc # "idle" /\ loc'[p].op # "login"
  BY <1>1, <1>3 DEF StartLogout, Become, At, Idle
<1>4. ASSUME NEW w \in WebUsers, NEW kind \in Kinds, StartRequest(p, w, kind)
      PROVE  At(p, "idle") /\ loc'[p].pc # "idle" /\ loc'[p].op # "login"
  <2>1. PICK todo : Become(p, [Idle EXCEPT !.pc = "next", !.op = kind, !.by = w,
                                           !.todo = todo])
    BY <1>4 DEF StartRequest
  <2>2. kind # "login" /\ At(p, "idle")
    BY <1>4 DEF StartRequest
  <2> QED BY <1>1, <2>1, <2>2 DEF Become, Idle
<1>5. ASSUME StartUpdates(p)
      PROVE  At(p, "idle") /\ loc'[p].pc # "idle" /\ loc'[p].op # "login"
  <2>1. PICK todo : Become(p, [Idle EXCEPT !.pc = "next", !.op = "updates", !.todo = todo])
    BY <1>5 DEF StartUpdates
  <2> QED BY <1>1, <1>5, <2>1 DEF StartUpdates, Become, Idle
<1> QED BY <1>2, <1>3, <1>4, <1>5 DEF Start

\* While the others are idle, and remain so, only r can take a step.
LEMMA AloneIsOwn ==
  ASSUME SessionInv, NEW r \in Procs, ~OthersUnderWay(r), ~OthersUnderWay(r)',
         NEW p \in Procs, Start(p) \/ Continue(p)
  PROVE  p = r
BY StartIsUnderWay, ContinueIsUnderWay DEF OthersUnderWay, At

-----------------------------------------------------------------------------
(* A goroutine under way does one operation.                               *)

\* No step of a request turns it into a login.
LEMMA ContinueKeepsOp ==
  ASSUME SessionInv, NEW p \in Procs, p # Job, Continue(p), loc[p].op # "login"
  PROVE  loc'[p].op # "login"
<1>1. loc \in [Procs -> Local]
  BY DEF SessionInv, TypeOK
<1>2. ASSUME Become(p, Idle) \/ Restart \/ Become(p, Rest(p)) \/ Leave(p)
      PROVE  loc'[p].op # "login"
  <2>1. Idle.op # "login" /\ Rest(p).op # "login"
    BY DEF Idle, Rest
  <2>2. loc'[p] \in {Idle, Rest(p)}
    BY <1>1, <1>2 DEF Become, Restart, Leave, Panic
  <2> QED BY <2>1, <2>2
<1>3. ASSUME NEW step, Goto(p, step) PROVE loc'[p].op # "login"
  BY <1>1, <1>3 DEF Goto, Become, Local
<1>4. CASE LoginAccepted(p)
  BY <1>1, <1>4 DEF LoginAccepted, Become, Local
<1>5. CASE DeferRead(p)
  BY <1>1, <1>2, <1>5 DEF DeferRead, Become, Local
<1>6. CASE LogoutRead(p)
  BY <1>1, <1>2, <1>6 DEF LogoutRead, Become, Local
<1>7. CASE Fetch(p)
  <2>1. \/ Become(p, Rest(p))
        \/ \E a, c : Become(p, [loc[p] EXCEPT !.pc = "client_read", !.name = a, !.model = c])
    BY <1>7 DEF Fetch
  <2> QED BY <1>1, <1>2, <2>1 DEF Become, Local
<1>8. CASE ClientRead(p)
  BY <1>1, <1>3, <1>8 DEF ClientRead, Become, Local
<1>9. CASE ClientCheck(p)
  BY <1>1, <1>9 DEF ClientCheck, Become, Local
<1>10. CASE Use(p)
  BY <1>1, <1>10 DEF Use, Become, Local
<1>11. CASE UseUnanswered(p)
  BY <1>1, <1>11 DEF UseUnanswered, Become, Local
<1>12. CASE NextItem(p)
  BY <1>1, <1>12 DEF NextItem, Become, Local
<1>13. CASE UpdCheck(p)
  BY <1>1, <1>13 DEF UpdCheck, Become, Local
<1>14. CASE UpdSub(p)
  BY <1>1, <1>14 DEF UpdSub, Become, Local
<1>15. CASE LoginSave(p) \/ Clear(p) \/ UpdSave(p) \/ LoopDone(p)
  BY <1>2, <1>3, <1>15 DEF LoginSave, Clear, UpdSave, LoopDone
<1>16. CASE LoginRefused(p) \/ CookieUnchanged(p) \/ DeferPanic(p) \/ DeferSave(p)
              \/ LogoutSave(p) \/ FanOutPanic(p)
  BY <1>2, <1>16
  DEF LoginRefused, CookieUnchanged, DeferPanic, DeferSave, LogoutSave, FanOutPanic, Panic
<1> QED BY <1>4, <1>5, <1>6, <1>7, <1>8, <1>9, <1>10, <1>11, <1>12,
           <1>13, <1>14, <1>15, <1>16 DEF Continue

-----------------------------------------------------------------------------
(* What each step of a login does to the request and to the table.         *)

\* A step of request r while it is logging in, with or without others under way.
LEMMA LoginSteps ==
  ASSUME SessionInv, NEW r \in Requests, Continue(r), loc[r].op = "login",
         LoginShape(loc[r]), loc'[r].op = "login"
  PROVE  /\ LoginShape(loc'[r])
         /\ StatementsWork /\ LoginStands(loc[r]) => LoginStands(loc[r])'
<1>1. r \in Procs /\ r # Job /\ loc[r] \in Local /\ loc \in [Procs -> Local]
  BY ConstantsAssumption DEF SessionInv, TypeOK, Procs
<1>2. ~Become(r, Idle)
  BY <1>1 DEF Become, Idle
<1>3. ~Leave(r)
  BY <1>1, <1>2 DEF Leave, LoginShape, Rest
<1>4. LoginAccepted(r) \/ LoginSave(r) \/ DeferRead(r)
  BY <1>1, <1>2, <1>3
  DEF Continue, LoginShape, At, LoginRefused, CookieUnchanged, DeferPanic, DeferSave, Panic,
      LogoutRead, LogoutSave, Fetch, ClientRead, ClientCheck, Use, UseUnanswered,
      FanOutPanic, NextItem, Clear, UpdCheck, UpdSub, UpdSave, LoopDone
<1>5. CASE LoginAccepted(r)
  <2>1. PICK c \in Cookies : Become(r, [loc[r] EXCEPT !.pc = "login_save", !.jar = c])
    BY <1>5 DEF LoginAccepted
  <2>2. /\ loc'[r].pc = "login_save" /\ loc'[r].jar = c
        /\ loc'[r].model = loc[r].model /\ loc'[r].todo = loc[r].todo
        /\ loc'[r].webs = loc[r].webs /\ loc'[r].panicked = loc[r].panicked
    BY <1>1, <2>1 DEF Become, Local
  <2> QED BY <2>2, ConstantsAssumption DEF LoginShape, LoginStands
<1>6. CASE LoginSave(r)
  <2>1. /\ StatementsWork =>
             Save(loc[r].name, [web |-> loc[r].by, cookie |-> None, timed |-> TRUE])
        /\ loc' = [loc EXCEPT ![r] = [loc[r] EXCEPT !.pc = "defer_read"]]
        /\ loc[r].pc = "login_save"
    BY <1>6 DEF LoginSave, SaveOrFail, StatementsWork, Goto, Become, At
  <2>2. /\ loc'[r].pc = "defer_read" /\ loc'[r].name = loc[r].name
        /\ loc'[r].by = loc[r].by /\ loc'[r].jar = loc[r].jar
        /\ loc'[r].model = loc[r].model /\ loc'[r].todo = loc[r].todo
        /\ loc'[r].webs = loc[r].webs /\ loc'[r].panicked = loc[r].panicked
    BY <1>1, <2>1 DEF Local
  <2>3. loc[r].name \in Names
    BY <1>1, <2>1, CarriesNow DEF Carries, Attached, Unattached, Local
  <2>4. StatementsWork => loc[r].name \in stored' /\ row'[loc[r].name].web = loc[r].by
    BY <2>1, <2>3 DEF Save, SessionInv, TypeOK
  <2> QED BY <2>1, <2>2, <2>4 DEF LoginShape, LoginStands
<1>7. CASE DeferRead(r)
  <2>1. /\ Become(r, [loc[r] EXCEPT !.pc = "defer_save", !.copy = row[Lower[loc[r].name]]])
        /\ loc[r].pc = "defer_read" /\ UNCHANGED db
    BY <1>3, <1>7 DEF DeferRead, At
  <2>2. /\ loc'[r].pc = "defer_save" /\ loc'[r].name = loc[r].name
        /\ loc'[r].copy = row[Lower[loc[r].name]]
        /\ loc'[r].by = loc[r].by /\ loc'[r].jar = loc[r].jar
        /\ loc'[r].model = loc[r].model /\ loc'[r].todo = loc[r].todo
        /\ loc'[r].webs = loc[r].webs /\ loc'[r].panicked = loc[r].panicked
    BY <1>1, <2>1 DEF Become, Local
  <2> QED BY <2>1, <2>2 DEF LoginShape, LoginStands, db
<1> QED BY <1>4, <1>5, <1>6, <1>7

LEMMA LoginStarts ==
  ASSUME SessionInv, NEW r \in Procs, NEW w \in WebUsers, NEW n \in Names,
         StartLogin(r, w, n)
  PROVE  LoginShape(loc'[r]) /\ LoginStands(loc[r])'
<1>1. loc'[r] = [Idle EXCEPT !.pc = "login_site", !.op = "login", !.by = w, !.name = n]
  BY DEF StartLogin, Become, SessionInv, TypeOK
<1>2. /\ loc'[r].pc = "login_site" /\ loc'[r].model = None /\ loc'[r].todo = {}
      /\ loc'[r].webs = {} /\ ~loc'[r].panicked
  BY <1>1 DEF Idle
<1> QED BY <1>2 DEF LoginShape, LoginStands

-----------------------------------------------------------------------------
(* LoneInv is inductive, beside SessionInv.                                *)

\* What is true of a request whose step it is not, or that another step ends.
LEMMA OthersStep ==
  ASSUME SessionInv, NEW r \in Requests, NEW p \in Procs, p # r,
         Start(p) \/ Continue(p)
  PROVE  loc'[r] \in {loc[r], Idle}
<1>1. r \in Procs /\ r # Job /\ loc \in [Procs -> Local]
  BY ConstantsAssumption DEF SessionInv, TypeOK, Procs
<1>2. LocStep(p)
  BY StartParts, LoginParts, DeferParts, LogoutParts, ClientParts, AnswerParts, LostParts,
     UpdateParts, LoopParts DEF Continue, Parts
<1> QED BY <1>1, <1>2 DEF LocStep, Restart, Become

LEMMA ShapeStep ==
  ASSUME SessionInv, [Next]_vars, NEW r \in Requests,
         loc[r].op = "login" => LoginShape(loc[r]), loc'[r].op = "login"
  PROVE  LoginShape(loc'[r])
<1>1. r \in Procs /\ r # Job
  BY ConstantsAssumption DEF Procs
<1>2. CASE UNCHANGED <<db, loc>>
  BY <1>2
<1>3. ASSUME NEW p \in Procs, p # r, Start(p) \/ Continue(p) PROVE LoginShape(loc'[r])
  <2>1. Idle.op # "login"
    BY DEF Idle
  <2> QED BY <1>3, <2>1, OthersStep
<1>4. CASE Start(r)
  BY <1>1, <1>4, StartIsUnderWay, LoginStarts
<1>5. CASE Continue(r)
  <2>1. loc[r].op = "login"
    BY <1>1, <1>5, ContinueKeepsOp
  <2> QED BY <1>5, <2>1, LoginSteps
<1> QED BY <1>2, <1>3, <1>4, <1>5, NextOfOne

\* In a step during which nothing was under way beside r, r did it if anybody did.
LEMMA StandsStep ==
  ASSUME SessionInv, StatementsWork, [Next]_vars, NEW r \in Requests,
         ~OthersUnderWay(r), ~OthersUnderWay(r)',
         loc[r].op = "login" => LoginShape(loc[r]),
         ~At(r, "idle") /\ loc[r].op = "login" => LoginStands(loc[r]),
         loc'[r].pc # "idle", loc'[r].op = "login"
  PROVE  LoginStands(loc[r])'
<1>1. r \in Procs /\ r # Job
  BY ConstantsAssumption DEF Procs
<1>2. CASE UNCHANGED <<db, loc>>
  BY <1>2 DEF LoginStands, At, db
<1>3. CASE Start(r)
  BY <1>1, <1>3, StartIsUnderWay, LoginStarts
<1>4. CASE Continue(r)
  BY <1>1, <1>4, ContinueKeepsOp, ContinueIsUnderWay, LoginSteps
<1> QED BY <1>1, <1>2, <1>3, <1>4, NextOfOne, AloneIsOwn

LEMMA LoneInit_LoneInv == LoneInit => LoneInv
<1> SUFFICES ASSUME LoneInit PROVE LoneInv
  OBVIOUS
<1>1. ASSUME NEW r \in Requests PROVE loc[r] = Idle
  BY DEF LoneInit, Init, Procs
<1> QED BY <1>1 DEF LoneInit, LoneInv, Idle, At

LEMMA LoneNext_LoneInv ==
  StatementsWork /\ SessionInv /\ LoneInv /\ [LoneNext]_loneVars => LoneInv'
<1> SUFFICES ASSUME StatementsWork, SessionInv, LoneInv, [LoneNext]_loneVars
             PROVE  LoneInv'
  OBVIOUS
<1>1. [Next]_vars
  BY DEF LoneNext, loneVars
<1>2. crowded' \in [Requests -> BOOLEAN]
  BY DEF LoneNext, loneVars, LoneInv
<1>3. ASSUME NEW r \in Requests, loc'[r].op = "login" PROVE LoginShape(loc'[r])
  BY <1>1, <1>3, ShapeStep DEF LoneInv
<1>4. ASSUME NEW r \in Requests, loc'[r].pc # "idle", ~crowded'[r]
      PROVE  /\ ~OthersUnderWay(r)'
             /\ loc'[r].op = "login" => LoginStands(loc[r])'
  <2>1. CASE LoneNext
    <3>1. ~crowded[r] /\ ~OthersUnderWay(r) /\ ~OthersUnderWay(r)'
      BY <1>4, <2>1 DEF LoneNext
    <3> QED BY <1>1, <1>4, <3>1, StandsStep DEF LoneInv
  <2>2. CASE UNCHANGED loneVars
    BY <1>4, <2>2 DEF loneVars, vars, LoneInv, LoginStands, OthersUnderWay, At
  <2> QED BY <2>1, <2>2
<1> QED BY <1>2, <1>3, <1>4 DEF LoneInv, At

-----------------------------------------------------------------------------
(* The end of a login.                                                     *)

LEMMA LoneEnd ==
  ASSUME StatementsWork, SessionInv, LoneInv, [LoneNext]_loneVars,
         NEW r \in Requests, LoginEnds(r), ~crowded[r]
  PROVE  /\ row'[loc[r].name].web = loc[r].by
         /\ Lower[loc[r].name] = loc[r].name => row'[loc[r].name].cookie = loc[r].jar
<1>1. r \in Procs /\ r # Job /\ loc[r] \in Local /\ loc \in [Procs -> Local]
  BY ConstantsAssumption DEF SessionInv, TypeOK, Procs
<1>2. /\ loc[r].op = "login" /\ loc[r].pc \in {"defer_read", "defer_save"}
      /\ loc' = [loc EXCEPT ![r] = Idle]
  BY DEF LoginEnds, Become
<1>3. LoginShape(loc[r]) /\ LoginStands(loc[r]) /\ ~OthersUnderWay(r)
  BY <1>2 DEF LoneInv, At
<1>4. ~OthersUnderWay(r)'
  BY <1>1, <1>2, <1>3 DEF OthersUnderWay, At
<1>5. Continue(r)
  <2>1. ~UNCHANGED loc
    BY <1>1, <1>2 DEF Idle
  <2>2. ~Start(r)
    BY <1>1, <1>2, StartIsUnderWay DEF At
  <2>3. [Next]_vars
    BY DEF LoneNext, loneVars
  <2> QED BY <1>1, <1>3, <1>4, <2>1, <2>2, <2>3, NextOfOne, AloneIsOwn
<1>6. /\ loc[r].name \in Names /\ loc[r].name \in stored
      /\ row[loc[r].name].web = loc[r].by /\ row[loc[r].name] \in Row
      /\ Lower[loc[r].name] \in Names /\ row[Lower[loc[r].name]] \in Row
      /\ loc[r].jar # None /\ loc[r].model = None
  <2>1. loc[r].name \in Names
    BY <1>1, <1>2, CarriesNow DEF Carries, Attached, Unattached, Local
  <2> QED BY <1>2, <1>3, <2>1, RowFits, NamesAssumption DEF LoginShape, LoginStands
<1>7. DeferRead(r) \/ DeferSave(r)
  BY <1>2, <1>5, <1>6
  DEF Continue, At, LoginAccepted, LoginRefused, LoginSave, CookieUnchanged, DeferPanic,
      LogoutRead, LogoutSave, Fetch, ClientRead, ClientCheck, Use, UseUnanswered,
      FanOutPanic, NextItem, Clear, UpdCheck, UpdSub, UpdSave, LoopDone, SelectProfiles,
      NextProfile
<1>8. CASE DeferRead(r)
  <2>1. ~Become(r, [loc[r] EXCEPT !.pc = "defer_save", !.copy = row[Lower[loc[r].name]]])
    <3> SUFFICES ASSUME Become(r, [loc[r] EXCEPT !.pc = "defer_save",
                                                 !.copy = row[Lower[loc[r].name]]])
                 PROVE  FALSE
      OBVIOUS
    <3>1. loc'[r].pc = "defer_save"
      BY <1>1 DEF Become, Local
    <3>2. loc'[r].pc = "idle"
      BY <1>1, <1>2 DEF Idle
    <3> QED BY <3>1, <3>2
  <2>2. Lower[loc[r].name] \notin stored /\ row' = row
    BY <1>8, <2>1 DEF DeferRead, StatementsWork, db
  <2> QED BY <1>6, <2>2
<1>9. CASE DeferSave(r)
  <2>1. loc[r].copy = row[Lower[loc[r].name]]
    BY <1>3, <1>9 DEF DeferSave, At, LoginStands
  <2>2. row' = [row EXCEPT ![Lower[loc[r].name]] =
                  [loc[r].copy EXCEPT !.cookie = loc[r].jar, !.timed = TRUE]]
    BY <1>9 DEF DeferSave, SaveOrFail, StatementsWork, Save
  <2>3. row'[Lower[loc[r].name]] =
          [row[Lower[loc[r].name]] EXCEPT !.cookie = loc[r].jar, !.timed = TRUE]
    BY <1>6, <2>1, <2>2 DEF SessionInv, TypeOK
  <2>4. CASE Lower[loc[r].name] = loc[r].name
    BY <1>6, <2>3, <2>4 DEF Row
  <2>5. CASE Lower[loc[r].name] # loc[r].name
    BY <1>6, <2>2, <2>5 DEF SessionInv, TypeOK
  <2> QED BY <2>4, <2>5
<1> QED BY <1>7, <1>8, <1>9

-----------------------------------------------------------------------------
(* The theorems.                                                           *)

LEMMA LoneIsSpec == LoneSpec => []SessionInv
<1>1. LoneInit => SessionInv
  BY InitInv DEF LoneInit
<1>2. SessionInv /\ [LoneNext]_loneVars => SessionInv'
  BY NextInv DEF LoneNext, loneVars
<1> QED BY <1>1, <1>2, PTL DEF LoneSpec

\* A request that nothing overlapped finds the table as it left it, for any number
\* of requests, accounts and cookies, whatever the site answers (LoginPost).
THEOREM LoneInvariant ==
  ASSUME StatementsWork
  PROVE  LoneSpec => []LoneInv
<1>1. SessionInv /\ LoneInv /\ [LoneNext]_loneVars => LoneInv'
  BY LoneNext_LoneInv
<1> QED BY <1>1, LoneIsSpec, LoneInit_LoneInv, PTL DEF LoneSpec

\* The comment of LoginPost keeps its word on the API user for every login that
\* runs alone: "its cookie updated and web user replaced".
THEOREM LoneLoginsReplaceWebUser ==
  ASSUME StatementsWork
  PROVE  LoneSpec => LoneLoginReplacesWebUser
<1>1. SessionInv /\ LoneInv /\ [LoneNext]_loneVars
        => [\A r \in Requests :
              LoginEnds(r) /\ ~crowded[r] => row'[loc[r].name].web = loc[r].by]_loneVars
  BY LoneEnd
<1> QED BY <1>1, LoneIsSpec, LoneInvariant, PTL DEF LoneSpec, LoneLoginReplacesWebUser

\* And on the cookie, when the name was typed in lower case (UpdateCookie).
THEOREM LoneLoginsUpdateCookie ==
  ASSUME StatementsWork
  PROVE  LoneSpec => LoneLoginUpdatesCookie
<1>1. SessionInv /\ LoneInv /\ [LoneNext]_loneVars
        => [\A r \in Requests :
              LoginEnds(r) /\ ~crowded[r] /\ Lower[loc[r].name] = loc[r].name
                => row'[loc[r].name].cookie = loc[r].jar]_loneVars
  BY LoneEnd
<1> QED BY <1>1, LoneIsSpec, LoneInvariant, PTL DEF LoneSpec, LoneLoginUpdatesCookie

=============================================================================
