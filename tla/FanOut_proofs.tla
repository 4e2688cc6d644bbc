---------------------------- MODULE FanOut_proofs ----------------------------
(***************************************************************************)
(* For any number of callers, pages and units of the limiter: the fan-out  *)
(* returns everything or an error, and implements Fetch.                   *)
(***************************************************************************)
EXTENDS FanOut, FiniteSetTheorems, FunctionTheorems, TLAPS

USE NilAssumption

LEMMA InitInv == Init => FanOutInv
<1> SUFFICES ASSUME Init PROVE FanOutInv
  OBVIOUS
<1>1. Off \in Worker
  BY DEF Off, Worker, WorkerSteps, Answers
<1>2. TypeOK
  <2>1. queue \in [Callers -> Seq(Workers)]
    BY DEF Init
  <2>2. worker \in [Callers -> [Items -> Worker]]
    BY <1>1 DEF Init
  <2>3. caller \in [Callers -> CallerSteps]
    BY DEF Init, CallerSteps
  <2> QED BY <2>1, <2>2, <2>3 DEF Init, TypeOK
<1>3. ASSUME NEW c \in Callers PROVE CallInv(c)
  <2>1. Fresh(c) /\ caller[c] = "check"
    BY DEF Init, Fresh
  <2> QED BY <2>1 DEF CallInv, Fresh
<1> QED BY <1>2, <1>3 DEF FanOutInv

\* What CallInv says of a caller.
CallState(c) == <<limiter[c], appending[c], errCount[c], list[c], wanted[c],
                  caller[c], worker[c]>>

\* A step of one caller leaves the others as they are.
LEMMA OtherCalls ==
  ASSUME FanOutInv, NEW c \in Callers, CallState(c)' = CallState(c), s # Nil => s' # Nil
  PROVE  CallInv(c)'
<1>1. CallInv(c)
  BY DEF FanOutInv
<1> QED BY <1>1 DEF CallState, CallInv, PageInv, Fresh, Failed

\* The steps before the goroutines exist, and the return.
LEMMA CallerKeeps ==
  ASSUME FanOutInv, NEW c \in Callers, CallerStep(c)
  PROVE  FanOutInv'
<1>1. TypeOK /\ CallInv(c)
  BY DEF FanOutInv
<1>2. \A d \in Callers \ {c} : CallState(d)' = CallState(d)
  BY <1>1 DEF CallerStep, CallState, TypeOK, CheckLimiter, CreateLimiter, TakeLimiter, Spawn,
     FirstPageFails, FirstPagePanics, Crash, Return, Advance, shared, sem, locals
<1>3. s # Nil => s' # Nil
  BY DEF CallerStep, CheckLimiter, CreateLimiter, TakeLimiter, Spawn, FirstPageFails,
     FirstPagePanics, Crash, Return, shared
<1>4. \A d \in Callers \ {c} : CallInv(d)'
  BY <1>2, <1>3, OtherCalls
<1>5. TypeOK' /\ CallInv(c)'
  <2>1. CASE CheckLimiter(c) \/ CreateLimiter(c) \/ TakeLimiter(c)
    <3>1. TypeOK'
      <4>1. caller' \in [Callers -> CallerSteps]
        BY <1>1, <2>1 DEF CheckLimiter, CreateLimiter, TakeLimiter, Advance, TypeOK, CallerSteps
      <4>2. /\ s' \in Callers \cup {Nil} /\ limiters' \subseteq Callers
            /\ limiter' \in [Callers -> Callers \cup {Nil}]
        BY <1>1, <2>1 DEF CheckLimiter, CreateLimiter, TakeLimiter, TypeOK, shared
      <4> QED BY <1>1, <2>1, <4>1, <4>2 DEF CheckLimiter, CreateLimiter, TakeLimiter, TypeOK,
                 sem, locals
    <3>2. /\ caller[c] \in {"check", "create", "take"}
          /\ caller'[c] \in {"create", "take", "ready"}
          /\ caller'[c] = "take" => s' # Nil
          /\ caller'[c] = "ready" => limiter'[c] # Nil
      BY <1>1, <2>1 DEF CheckLimiter, CreateLimiter, TakeLimiter, CallerAt, Advance, TypeOK,
         CallInv, shared
    <3>3. Fresh(c)'
      BY <1>1, <2>1, <3>2 DEF CheckLimiter, CreateLimiter, TakeLimiter, CallInv, Fresh, locals
    <3>4. CallInv(c)'
      BY <3>2, <3>3 DEF CallInv, Fresh
    <3> QED BY <3>1, <3>4
  <2>2. CASE Spawn(c)
    <3>1. PICK want \in SUBSET Items :
            /\ wanted' = [wanted EXCEPT ![c] = want]
            /\ worker' = [worker EXCEPT ![c] =
                  [i \in Items |-> IF i \in want THEN [Off EXCEPT !.pc = "cookies"] ELSE Off]]
      BY <2>2, ListsAssumption DEF Spawn
    <3>2. Off \in Worker /\ [Off EXCEPT !.pc = "cookies"] \in Worker
      BY DEF Off, Worker, WorkerSteps, Answers
    <3>3. TypeOK'
      BY <1>1, <2>2, <3>1, <3>2 DEF Spawn, CallerAt, Advance, TypeOK, CallerSteps, shared, sem
    <3>4. \A i \in Items \ want : worker'[c][i] = Off
      BY <1>1, <3>1 DEF TypeOK
    <3>5. \A i \in want : PageInv(c, i)'
      BY <1>1, <2>2, <3>1 DEF Spawn, CallerAt, TypeOK, CallInv, Fresh, PageInv, Off, shared, sem
    <3>6. wanted'[c] = want /\ caller'[c] = "wait"
      BY <1>1, <2>2, <3>1 DEF Spawn, Advance, TypeOK
    <3>7. CallInv(c)'
      BY <1>1, <2>2, <3>4, <3>5, <3>6 DEF Spawn, CallerAt, CallInv, Fresh, shared
    <3> QED BY <3>3, <3>7
  <2>3. CASE FirstPageFails(c) \/ Return(c)
    <3>1. TypeOK'
      BY <1>1, <2>3 DEF FirstPageFails, Return, CallerAt, Advance, TypeOK, CallerSteps,
         shared, sem, locals
    <3>2. CallInv(c)'
      BY <1>1, <2>3 DEF FirstPageFails, Return, CallerAt, Advance, TypeOK, CallInv, Fresh,
         PageInv, Failed, shared, sem, locals
    <3> QED BY <3>1, <3>2
  <2>4. CASE FirstPagePanics(c)
    <3>1. CallState(c)' = CallState(c) /\ s' = s
      BY <2>4 DEF FirstPagePanics, Crash, CallState, shared, locals
    <3>2. CallInv(c)'
      BY <3>1, OtherCalls
    <3>3. TypeOK'
      BY <1>1, <2>4 DEF FirstPagePanics, Crash, TypeOK, shared, sem, locals
    <3> QED BY <3>2, <3>3
  <2> QED BY <2>1, <2>2, <2>3, <2>4 DEF CallerStep
<1> QED BY <1>4, <1>5 DEF FanOutInv

\* A goroutine that has work to do belongs to a caller that waits for it.
LEMMA CallerWaits ==
  ASSUME FanOutInv, NEW c \in Callers, NEW i \in Items,
         worker[c][i].pc \notin {"off", "done"}
  PROVE  i \in wanted[c] /\ caller[c] = "wait" /\ PageInv(c, i)
<1>1. TypeOK /\ CallInv(c)
  BY DEF FanOutInv
<1>2. worker[c][i] # Off
  BY DEF Off
<1>3. i \in wanted[c]
  BY <1>1, <1>2 DEF CallInv
<1> QED BY <1>1, <1>3 DEF CallInv, Fresh, TypeOK, CallerSteps

\* It is enough to look at the page whose goroutine moves: what it does to the
\* shared variables, under the lock where there is one, suits all the others.
LEMMA PageStep ==
  ASSUME FanOutInv, NEW c \in Callers, NEW i \in Items, NEW w \in Worker,
         worker[c][i].pc \notin {"off", "done"},
         worker' = [worker EXCEPT ![c][i] = w],
         UNCHANGED <<s, limiter, caller, wanted>>,
         TypeOK',
         \A d \in Callers \ {c} : errCount'[d] = errCount[d] /\ list'[d] = list[d]
                                    /\ appending'[d] = appending[d],
         worker[c][i].answer = "bad" => w.answer = "bad",
         errCount'[c] = errCount[c] \/ (errCount'[c] > 0 /\ w.answer = "bad"),
         list'[c] = list[c] \/ (appending[c] = i /\ list'[c] = list[c] \cup {i}),
         \/ appending'[c] = appending[c]
         \/ appending[c] = Nil /\ appending'[c] = i
         \/ appending[c] = i /\ appending'[c] = Nil,
         PageInv(c, i)'
  PROVE  FanOutInv'
<1>1. TypeOK /\ CallInv(c)
  BY DEF FanOutInv
<1>2. i \in wanted[c] /\ caller[c] = "wait"
  BY CallerWaits
<1>3. worker'[c][i] = w /\ \A j \in Items \ {i} : worker'[c][j] = worker[c][j]
  BY <1>1 DEF TypeOK
<1>4. ASSUME NEW d \in Callers \ {c} PROVE CallInv(d)'
  <2>1. worker'[d] = worker[d]
    BY <1>1 DEF TypeOK
  <2> QED BY <2>1, OtherCalls DEF CallState
<1>5. ASSUME NEW j \in wanted[c] \ {i} PROVE PageInv(c, j)'
  <2>1. PageInv(c, j) /\ j \in Items /\ worker'[c][j] = worker[c][j]
    BY <1>1, <1>3 DEF CallInv, TypeOK
  <2>2. errCount[c] > 0 => errCount'[c] > 0
    OBVIOUS
  <2>3. (j \in list'[c] <=> j \in list[c]) /\ (appending'[c] = j <=> appending[c] = j)
    BY <2>1
  <2>4. worker[c][j].pc = "append" => list'[c] = list[c]
    BY <2>1 DEF PageInv
  <2> QED BY <2>1, <2>2, <2>3, <2>4 DEF PageInv
<1>6. errCount'[c] > 0 => Failed(c)'
  BY <1>1, <1>2, <1>3 DEF CallInv, Failed, TypeOK
<1>7. /\ list'[c] \subseteq wanted'[c] /\ appending'[c] \in wanted'[c] \cup {Nil}
      /\ \A j \in Items \ wanted'[c] : worker'[c][j] = Off
      /\ \A j \in wanted'[c] : PageInv(c, j)'
  BY <1>1, <1>2, <1>3, <1>5 DEF CallInv
<1>8. CallInv(c)'
  BY <1>1, <1>2, <1>6, <1>7 DEF CallInv
<1> QED BY <1>4, <1>8 DEF FanOutInv

LEMMA WorkerKeeps ==
  ASSUME FanOutInv, NEW c \in Callers, NEW i \in Items, WorkerStep(c, i)
  PROVE  FanOutInv'
<1>1. TypeOK
  BY DEF FanOutInv
<1>2. worker[c][i] \in Worker /\ worker[c][i].pc \notin {"off", "done"}
  BY <1>1 DEF TypeOK, WorkerStep, ReadCookies, Acquire, Granted, Reply, NoReply, SetCookies,
     CookiesSet, Parse, ParsePanics, ImageReply, NoImage, ReadCount, WriteCount, Lock,
     AppendResult, At
<1>3. i \in wanted[c] /\ caller[c] = "wait" /\ PageInv(c, i)
  BY <1>2, CallerWaits
<1>4. ASSUME NEW v \in Worker, worker' = [worker EXCEPT ![c][i] = v]
      PROVE  worker' \in [Callers -> [Items -> Worker]] /\ worker'[c][i] = v
  BY <1>1, <1>4 DEF TypeOK
<1>5. <<c, i>> \in Workers
  BY DEF Workers
<1>6. CASE Crash
  <2>1. TypeOK'
    BY <1>1, <1>6 DEF Crash, TypeOK, shared, sem, locals
  <2>2. \A d \in Callers : CallInv(d)'
    BY <1>6, OtherCalls DEF Crash, CallState, shared, locals
  <2> QED BY <2>1, <2>2 DEF FanOutInv
<1>7. CASE ReadCookies(c, i) /\ ~Crash
  <2>1. PICK w \in Worker : w = [worker[c][i] EXCEPT !.pc = "acquire"]
    BY <1>2 DEF Worker, WorkerSteps
  <2>2. worker' = [worker EXCEPT ![c][i] = w]
    BY <1>1, <1>7, <2>1 DEF ReadCookies, Goto, TypeOK
  <2>3. TypeOK'
    BY <1>1, <1>4, <1>7, <2>2 DEF ReadCookies, TypeOK, shared, sem, locals
  <2>4. PageInv(c, i)'
    BY <1>2, <1>3, <1>4, <1>7, <2>1, <2>2 DEF ReadCookies, At, PageInv, Worker, locals
  <2> QED BY <1>2, <1>7, <2>1, <2>2, <2>3, <2>4, PageStep DEF ReadCookies, shared, locals, Worker
<1>8. CASE Acquire(c, i)
  <2>1. PICK w \in Worker : w = [worker[c][i] EXCEPT !.pc = "queued"]
    BY <1>2 DEF Worker, WorkerSteps
  <2>2. worker' = [worker EXCEPT ![c][i] = w]
    BY <1>1, <1>8, <2>1 DEF Acquire, Goto, TypeOK
  <2>3. TypeOK'
    <3>1. limiter[c] \in Callers
      BY <1>1, <1>3 DEF FanOutInv, CallInv, TypeOK
    <3>2. queue' \in [Callers -> Seq(Workers)]
      BY <1>1, <1>5, <1>8, <3>1 DEF Acquire, TypeOK
    <3> QED BY <1>1, <1>4, <1>8, <2>2, <3>2 DEF Acquire, TypeOK, shared, locals
  <2>4. PageInv(c, i)'
    BY <1>2, <1>3, <1>4, <1>8, <2>1, <2>2 DEF Acquire, At, PageInv, Worker, locals
  <2> QED BY <1>2, <1>8, <2>1, <2>2, <2>3, <2>4, PageStep DEF Acquire, shared, locals, Worker
<1>9. CASE Granted(c, i)
  <2>1. PICK w \in Worker : w = [worker[c][i] EXCEPT !.pc = "sent"]
    BY <1>2 DEF Worker, WorkerSteps
  <2>2. worker' = [worker EXCEPT ![c][i] = w]
    BY <1>1, <1>9, <2>1 DEF Granted, Goto, TypeOK
  <2>3. TypeOK'
    <3>1. limiter[c] \in Callers
      BY <1>1, <1>3 DEF FanOutInv, CallInv, TypeOK
    <3>2. Tail(queue[limiter[c]]) \in Seq(Workers)
      BY <1>1, <1>9, <3>1 DEF Granted, TypeOK
    <3>3. queue' \in [Callers -> Seq(Workers)] /\ held' \in [Callers -> SUBSET Workers]
      BY <1>1, <1>5, <1>9, <3>1, <3>2 DEF Granted, TypeOK
    <3> QED BY <1>1, <1>4, <1>9, <2>2, <3>3 DEF Granted, TypeOK, shared, locals
  <2>4. PageInv(c, i)'
    BY <1>2, <1>3, <1>4, <1>9, <2>1, <2>2 DEF Granted, At, PageInv, Worker, locals
  <2> QED BY <1>2, <1>9, <2>1, <2>2, <2>3, <2>4, PageStep DEF Granted, shared, locals, Worker
<1>10. CASE Reply(c, i)
  <2>1. PICK a \in Answers \ {"none"}, next \in {"parse", "set_jar"} :
          worker' = [worker EXCEPT ![c][i].pc = next, ![c][i].answer = a]
    BY <1>10 DEF Reply
  <2>2. PICK w \in Worker : w = [worker[c][i] EXCEPT !.pc = next, !.answer = a]
    BY <1>2 DEF Worker, WorkerSteps
  <2>3. worker' = [worker EXCEPT ![c][i] = w]
    BY <1>1, <2>1, <2>2 DEF TypeOK
  <2>4. TypeOK'
    <3>1. held' \in [Callers -> SUBSET Workers]
      BY <1>1, <1>10 DEF Reply, TypeOK
    <3> QED BY <1>1, <1>4, <1>10, <2>3, <3>1 DEF Reply, TypeOK, shared, locals
  <2>5. worker[c][i].pc = "sent" /\ worker[c][i].answer = "none"
    BY <1>3, <1>10 DEF Reply, At, PageInv
  <2>6. PageInv(c, i)'
    <3>1. worker'[c][i] = w /\ w.pc = next /\ w.answer = a
      BY <1>2, <1>4, <2>2, <2>3 DEF Worker
    <3>2. i \notin list[c] /\ appending[c] # i
      BY <1>3, <2>5 DEF PageInv
    <3>3. i \notin list'[c] /\ appending'[c] # i
      BY <1>10, <3>2 DEF Reply, locals
    <3> QED BY <3>1, <3>3 DEF PageInv
  <2> QED BY <1>2, <1>10, <2>3, <2>4, <2>5, <2>6, PageStep DEF Reply, shared, locals
<1>11. CASE SetCookies(c, i) \/ CookiesSet(c, i)
  <2>1. PICK next \in {"jar_set", "parse"} : Goto(c, i, next)
    BY <1>11 DEF SetCookies, CookiesSet
  <2>2. PICK w \in Worker : w = [worker[c][i] EXCEPT !.pc = next]
    BY <1>2 DEF Worker, WorkerSteps
  <2>3. worker' = [worker EXCEPT ![c][i] = w]
    BY <1>1, <2>1, <2>2 DEF Goto, TypeOK
  <2>4. TypeOK'
    <3>1. writing' \in [Callers -> Items \cup {Nil}]
      BY <1>1, <1>11 DEF SetCookies, CookiesSet, TypeOK
    <3> QED BY <1>1, <1>4, <1>11, <2>3, <3>1 DEF SetCookies, CookiesSet, TypeOK, shared, sem,
               locals
  <2>5. PageInv(c, i)'
    BY <1>2, <1>3, <1>4, <1>11, <2>2, <2>3 DEF SetCookies, CookiesSet, At, PageInv, Worker, locals
  <2> QED BY <1>2, <1>11, <2>2, <2>3, <2>4, <2>5, PageStep DEF SetCookies, CookiesSet, shared,
             locals, Worker
<1>12. CASE Parse(c, i)
  <2>1. PICK next \in {"count", "image", "lock", "done"} :
          /\ Goto(c, i, next)
          /\ next = "count" => worker[c][i].answer = "bad"
          /\ next \in {"image", "lock"} => worker[c][i].answer = "data"
          /\ next = "done" => worker[c][i].answer = "empty"
    <3>1. worker[c][i].answer \in {"bad", "data", "empty"}
      BY <1>2, <1>3, <1>12 DEF Parse, At, PageInv, Worker, Answers
    <3> QED BY <1>12, <3>1 DEF Parse, Parsed
  <2>2. PICK w \in Worker : w = [worker[c][i] EXCEPT !.pc = next]
    BY <1>2 DEF Worker, WorkerSteps
  <2>3. worker' = [worker EXCEPT ![c][i] = w]
    BY <1>1, <2>1, <2>2 DEF Goto, TypeOK
  <2>4. TypeOK'
    BY <1>1, <1>4, <1>12, <2>3 DEF Parse, TypeOK, shared, sem, locals
  <2>5. PageInv(c, i)'
    BY <1>2, <1>3, <1>4, <1>12, <2>1, <2>2, <2>3 DEF Parse, At, PageInv, Worker, locals
  <2> QED BY <1>2, <1>12, <2>2, <2>3, <2>4, <2>5, PageStep DEF Parse, shared, locals, Worker
<1>13. CASE ReadCount(c, i)
  <2>1. PICK w \in Worker : w = [worker[c][i] EXCEPT !.pc = "counted", !.seen = errCount[c]]
    BY <1>1, <1>2 DEF Worker, WorkerSteps, TypeOK
  <2>2. worker' = [worker EXCEPT ![c][i] = w]
    BY <1>1, <1>13, <2>1 DEF ReadCount, TypeOK
  <2>3. TypeOK'
    BY <1>1, <1>4, <1>13, <2>2 DEF ReadCount, TypeOK, shared, sem, locals
  <2>4. PageInv(c, i)'
    <3>1. worker'[c][i] = w /\ w.pc = "counted" /\ w.answer = worker[c][i].answer
      BY <1>2, <1>4, <2>1, <2>2 DEF Worker
    <3>2. worker[c][i].answer = "bad" /\ i \notin list[c] /\ appending[c] # i
      BY <1>3, <1>13 DEF ReadCount, At, PageInv
    <3>3. i \notin list'[c] /\ appending'[c] # i
      BY <1>13, <3>2 DEF ReadCount, locals
    <3> QED BY <3>1, <3>2, <3>3 DEF PageInv
  <2> QED BY <1>2, <1>13, <2>1, <2>2, <2>3, <2>4, PageStep DEF ReadCount, shared, locals, Worker
<1>14. CASE WriteCount(c, i)
  <2>1. PICK w \in Worker : w = [worker[c][i] EXCEPT !.pc = "done"]
    BY <1>2 DEF Worker, WorkerSteps
  <2>2. worker' = [worker EXCEPT ![c][i] = w]
    BY <1>1, <1>14, <2>1 DEF WriteCount, Goto, TypeOK
  <2>3. worker[c][i].seen \in Nat /\ worker[c][i].answer = "bad"
    BY <1>2, <1>3, <1>14 DEF WriteCount, At, PageInv, Worker
  <2>4. /\ errCount' \in [Callers -> Nat] /\ errCount'[c] > 0
        /\ \A d \in Callers \ {c} : errCount'[d] = errCount[d]
    BY <1>1, <1>14, <2>3 DEF WriteCount, TypeOK
  <2>5. TypeOK'
    BY <1>1, <1>4, <1>14, <2>2, <2>4 DEF WriteCount, TypeOK, shared, sem
  <2>6. PageInv(c, i)'
    BY <1>2, <1>3, <1>4, <1>14, <2>1, <2>2, <2>3, <2>4 DEF WriteCount, At, PageInv, Worker
  <2> QED BY <1>2, <1>14, <2>1, <2>2, <2>3, <2>4, <2>5, <2>6, PageStep DEF WriteCount, shared,
             Worker
<1>15. CASE Lock(c, i)
  <2>1. PICK w \in Worker : w = [worker[c][i] EXCEPT !.pc = "append", !.copy = list[c]]
    BY <1>1, <1>2 DEF Worker, WorkerSteps, TypeOK
  <2>2. worker' = [worker EXCEPT ![c][i] = w]
    BY <1>1, <1>15, <2>1 DEF Lock, TypeOK
  <2>3. /\ appending' \in [Callers -> Items \cup {Nil}]
        /\ appending[c] = Nil /\ appending'[c] = i
        /\ \A d \in Callers \ {c} : appending'[d] = appending[d]
    BY <1>1, <1>15 DEF Lock, TypeOK
  <2>4. TypeOK'
    BY <1>1, <1>4, <1>15, <2>2, <2>3 DEF Lock, TypeOK, shared, sem, locals
  <2>5. PageInv(c, i)'
    <3>1. /\ worker'[c][i] = w /\ w.pc = "append" /\ w.answer = worker[c][i].answer
          /\ w.copy = list[c]
      BY <1>2, <1>4, <2>1, <2>2 DEF Worker
    <3>2. worker[c][i].answer = "data" /\ i \notin list[c]
      BY <1>3, <1>15 DEF Lock, At, PageInv
    <3>3. list'[c] = list[c]
      BY <1>15 DEF Lock, locals
    <3> QED BY <2>3, <3>1, <3>2, <3>3 DEF PageInv
  <2> QED BY <1>2, <1>15, <2>1, <2>2, <2>3, <2>4, <2>5, PageStep DEF Lock, shared, locals, Worker
<1>16. CASE AppendResult(c, i)
  <2>1. PICK w \in Worker : w = [worker[c][i] EXCEPT !.pc = "done"]
    BY <1>2 DEF Worker, WorkerSteps
  <2>2. worker' = [worker EXCEPT ![c][i] = w]
    BY <1>1, <1>16, <2>1 DEF AppendResult, Goto, TypeOK
  <2>3. /\ worker[c][i].copy = list[c] /\ appending[c] = i /\ worker[c][i].answer = "data"
        /\ list[c] \subseteq Items
    BY <1>1, <1>3, <1>16 DEF AppendResult, At, PageInv, TypeOK
  <2>4. /\ list' \in [Callers -> SUBSET Items] /\ list'[c] = list[c] \cup {i}
        /\ \A d \in Callers \ {c} : list'[d] = list[d]
        /\ appending' \in [Callers -> Items \cup {Nil}] /\ appending'[c] = Nil
        /\ \A d \in Callers \ {c} : appending'[d] = appending[d]
    BY <1>1, <1>16, <2>3 DEF AppendResult, TypeOK
  <2>5. TypeOK'
    BY <1>1, <1>4, <1>16, <2>2, <2>4 DEF AppendResult, TypeOK, shared, sem
  <2>6. PageInv(c, i)'
    <3>1. worker'[c][i] = w /\ w.pc = "done" /\ w.answer = "data"
      BY <1>2, <1>4, <2>1, <2>2, <2>3 DEF Worker
    <3>2. i \in list'[c] /\ appending'[c] # i
      BY <2>4
    <3> QED BY <3>1, <3>2 DEF PageInv
  <2> QED BY <1>2, <1>16, <2>1, <2>2, <2>3, <2>4, <2>5, <2>6, PageStep DEF AppendResult, shared,
             Worker
<1>17. CASE ImageReply(c, i)
  <2>1. PICK w \in Worker : w = [worker[c][i] EXCEPT !.pc = "lock"]
    BY <1>2 DEF Worker, WorkerSteps
  <2>2. worker' = [worker EXCEPT ![c][i] = w]
    BY <1>1, <1>17, <2>1 DEF ImageReply, Goto, TypeOK
  <2>3. TypeOK'
    BY <1>1, <1>4, <1>17, <2>2 DEF ImageReply, TypeOK, shared, sem, locals
  <2>4. PageInv(c, i)'
    BY <1>2, <1>3, <1>4, <1>17, <2>1, <2>2 DEF ImageReply, At, PageInv, Worker, locals
  <2> QED BY <1>2, <1>17, <2>1, <2>2, <2>3, <2>4, PageStep DEF ImageReply, shared, locals, Worker
<1> QED BY <1>6, <1>7, <1>8, <1>9, <1>10, <1>11, <1>12, <1>13, <1>14, <1>15, <1>16, <1>17
           DEF WorkerStep, ReadCookies, NoReply, ParsePanics, NoImage

\* What a return says about the pages is true of them (FanOut's ResultIsComplete).
LEMMA InvComplete == FanOutInv => ResultIsComplete
<1> SUFFICES ASSUME FanOutInv, NEW c \in Callers
             PROVE  /\ caller[c] = "ok" => ~Failed(c) /\ list[c] = Holding(c)
                    /\ caller[c] = "error" => Failed(c) \/ wanted[c] = {}
  BY DEF ResultIsComplete
<1>1. CallInv(c) /\ TypeOK
  BY DEF FanOutInv
<1>2. CASE caller[c] = "ok"
  <2>1. \A i \in wanted[c] : worker[c][i].answer # "bad"
    BY <1>1, <1>2 DEF CallInv, PageInv, TypeOK
  <2>2. list[c] = Holding(c)
    BY <1>1, <1>2 DEF CallInv, PageInv, Holding, TypeOK
  <2> QED BY <1>2, <2>1, <2>2 DEF Failed
<1>3. CASE caller[c] = "error"
  BY <1>1, <1>3 DEF CallInv
<1> QED BY <1>2, <1>3

\* The invariant of the fan-out, with its type invariant.
THEOREM FanOutInvariant == Spec => []FanOutInv
<1>1. FanOutInv /\ UNCHANGED vars => FanOutInv'
  <2> SUFFICES ASSUME FanOutInv, UNCHANGED vars PROVE FanOutInv'
    OBVIOUS
  <2>1. TypeOK'
    BY DEF FanOutInv, TypeOK, vars, shared, sem, locals
  <2>2. \A c \in Callers : CallInv(c)'
    BY OtherCalls DEF CallState, vars, shared, locals
  <2> QED BY <2>1, <2>2 DEF FanOutInv
<1>2. FanOutInv /\ Next => FanOutInv'
  BY CallerKeeps, WorkerKeeps DEF Next
<1> QED BY InitInv, <1>1, <1>2, PTL DEF Spec

\* A call that returns no error returns everything: for any number of pages and
\* any interleaving of their goroutines, the racy errCount++ included.
THEOREM ResultsAreComplete == Spec => []ResultIsComplete
BY FanOutInvariant, InvComplete, PTL

-----------------------------------------------------------------------------
(* The refinement of Fetch.                                                *)

\* The refinement mapping of F, by caller.
AnswerBar(c) == [i \in Items |-> worker[c][i].answer]
StatusBar(c) == CASE caller[c] = "wait"            -> "running"
                  [] caller[c] \in {"ok", "error"} -> caller[c]
                  [] OTHER                         -> "idle"
GotBar(c) == IF caller[c] \in {"ok", "error"} THEN list[c] ELSE {}
ResultBar(c) == [status |-> StatusBar(c), got |-> GotBar(c)]

LEMMA InitRefines == Init => F!Init
<1> SUFFICES ASSUME Init PROVE F!Init
  OBVIOUS
<1>1. \A c \in Callers : AnswerBar(c) = [i \in Items |-> "none"]
  BY DEF Init, AnswerBar, Off
<1>2. \A c \in Callers : ResultBar(c) = [status |-> "idle", got |-> {}]
  BY DEF Init, ResultBar, StatusBar, GotBar
<1> QED BY <1>1, <1>2 DEF Init, F!Init, AnswerBar, ResultBar, StatusBar, GotBar

\* A step that leaves the mapping of every caller alone stutters.
LEMMA Stutters ==
  ASSUME wanted' = wanted, \A c \in Callers : AnswerBar(c)' = AnswerBar(c),
         \A c \in Callers : ResultBar(c)' = ResultBar(c)
  PROVE  UNCHANGED F!vars
BY DEF F!vars, AnswerBar, ResultBar, StatusBar, GotBar

LEMMA CallerRefines ==
  ASSUME FanOutInv, NEW c \in Callers, CallerStep(c)
  PROVE  F!Next \/ UNCHANGED F!vars
<1>1. TypeOK /\ CallInv(c)
  BY DEF FanOutInv
<1>2. CASE CheckLimiter(c) \/ CreateLimiter(c) \/ TakeLimiter(c)
  <2>1. wanted' = wanted /\ worker' = worker /\ list' = list
    BY <1>2 DEF CheckLimiter, CreateLimiter, TakeLimiter, locals
  <2>2. /\ caller[c] \in {"check", "create", "take"}
        /\ caller'[c] \in {"create", "take", "ready"}
        /\ \A d \in Callers \ {c} : caller'[d] = caller[d]
    BY <1>1, <1>2 DEF CheckLimiter, CreateLimiter, TakeLimiter, CallerAt, Advance, TypeOK
  <2>3. \A d \in Callers : AnswerBar(d)' = AnswerBar(d) /\ ResultBar(d)' = ResultBar(d)
    BY <2>1, <2>2 DEF AnswerBar, ResultBar, StatusBar, GotBar
  <2> QED BY <2>1, <2>3, Stutters
<1>3. CASE Spawn(c)
  <2>1. PICK want \in SUBSET Items :
          /\ wanted' = [wanted EXCEPT ![c] = want]
          /\ worker' = [worker EXCEPT ![c] =
                [i \in Items |-> IF i \in want THEN [Off EXCEPT !.pc = "cookies"] ELSE Off]]
    BY <1>3, ListsAssumption DEF Spawn
  <2>2. /\ caller[c] = "ready" /\ caller'[c] = "wait"
        /\ \A d \in Callers \ {c} : caller'[d] = caller[d]
        /\ list' = list
    BY <1>1, <1>3 DEF Spawn, CallerAt, Advance, TypeOK
  <2>3. \A d \in Callers : AnswerBar(d)' = AnswerBar(d)
    BY <1>1, <2>1, <2>2 DEF AnswerBar, TypeOK, CallInv, Fresh, Off
  <2>4. ResultBar(c) = [status |-> "idle", got |-> {}]
    BY <2>2 DEF ResultBar, StatusBar, GotBar
  <2>5. ResultBar(c)' = [status |-> "running", got |-> {}]
    BY <2>2 DEF ResultBar, StatusBar, GotBar
  <2>6. \A d \in Callers \ {c} : ResultBar(d)' = ResultBar(d)
    BY <2>2 DEF ResultBar, StatusBar, GotBar
  <2>7. F!Ask(c)
    BY <2>1, <2>3, <2>4, <2>5, <2>6 DEF F!Ask, AnswerBar, ResultBar, StatusBar, GotBar
  <2> QED BY <2>7 DEF F!Next
<1>4. CASE FirstPageFails(c)
  <2>1. wanted' = wanted /\ worker' = worker /\ list' = list
    BY <1>4 DEF FirstPageFails, locals
  <2>2. /\ caller[c] = "ready" /\ caller'[c] = "error" /\ list[c] = {}
        /\ \A d \in Callers \ {c} : caller'[d] = caller[d]
    BY <1>1, <1>4 DEF FirstPageFails, CallerAt, Advance, TypeOK, CallInv, Fresh
  <2>3. \A d \in Callers : AnswerBar(d)' = AnswerBar(d)
    BY <2>1 DEF AnswerBar
  <2>4. ResultBar(c) = [status |-> "idle", got |-> {}]
    BY <2>2 DEF ResultBar, StatusBar, GotBar
  <2>5. ResultBar(c)' = [status |-> "error", got |-> {}]
    BY <2>1, <2>2 DEF ResultBar, StatusBar, GotBar
  <2>6. \A d \in Callers \ {c} : ResultBar(d)' = ResultBar(d)
    BY <2>1, <2>2 DEF ResultBar, StatusBar, GotBar
  <2>7. F!Refuse(c)
    BY <2>1, <2>3, <2>4, <2>5, <2>6 DEF F!Refuse, AnswerBar, ResultBar, StatusBar, GotBar
  <2> QED BY <2>7 DEF F!Next
<1>5. CASE Return(c)
  <2>1. wanted' = wanted /\ worker' = worker /\ list' = list /\ errCount' = errCount
    BY <1>5 DEF Return, locals
  <2>2. /\ caller[c] = "wait" /\ \A i \in wanted[c] : worker[c][i].pc = "done"
        /\ caller'[c] = IF errCount[c] # 0 THEN "error" ELSE "ok"
        /\ \A d \in Callers \ {c} : caller'[d] = caller[d]
    BY <1>1, <1>5 DEF Return, CallerAt, Advance, TypeOK
  <2>3. \A i \in wanted[c] : worker[c][i].answer # "none"
    BY <1>1, <2>2 DEF CallInv, PageInv
  <2>4. Failed(c) <=> errCount[c] # 0
    BY <1>1, <2>2 DEF CallInv, PageInv, Failed, TypeOK
  <2>5. list[c] = Holding(c)
    BY <1>1, <2>2 DEF CallInv, PageInv, Holding, TypeOK
  <2>6. \A d \in Callers : AnswerBar(d)' = AnswerBar(d)
    BY <2>1 DEF AnswerBar
  <2>7. ResultBar(c).status = "running"
    BY <2>2 DEF ResultBar, StatusBar
  <2>8. ResultBar(c)' = [status |-> IF Failed(c) THEN "error" ELSE "ok", got |-> Holding(c)]
    BY <2>1, <2>2, <2>4, <2>5 DEF ResultBar, StatusBar, GotBar
  <2>9. \A d \in Callers \ {c} : ResultBar(d)' = ResultBar(d)
    BY <2>1, <2>2 DEF ResultBar, StatusBar, GotBar
  <2>10. F!Failed(c) = Failed(c) /\ F!Holding(c) = Holding(c)
    BY <1>1 DEF F!Failed, F!Holding, Failed, Holding, TypeOK
  <2>11. [d \in Callers |-> ResultBar(d)]' =
           [[d \in Callers |-> ResultBar(d)] EXCEPT
              ![c] = [status |-> IF F!Failed(c) THEN "error" ELSE "ok", got |-> F!Holding(c)]]
    BY <2>8, <2>9, <2>10
  <2>12. [d \in Callers |-> AnswerBar(d)]' = [d \in Callers |-> AnswerBar(d)]
    BY <2>6
  <2>13. \A i \in wanted[c] : [d \in Callers |-> AnswerBar(d)][c][i] # "none"
    BY <1>1, <2>3 DEF AnswerBar, TypeOK
  <2>14. [d \in Callers |-> ResultBar(d)][c].status = "running"
    BY <2>7
  <2>15. F!Return(c)
    BY <2>1, <2>11, <2>12, <2>13, <2>14 DEF F!Return, AnswerBar, ResultBar, StatusBar, GotBar
  <2> QED BY <2>15 DEF F!Next
<1>6. CASE FirstPagePanics(c)
  <2>1. wanted' = wanted /\ worker' = worker /\ list' = list /\ caller' = caller
    BY <1>6 DEF FirstPagePanics, Crash, locals
  <2>2. \A d \in Callers : AnswerBar(d)' = AnswerBar(d) /\ ResultBar(d)' = ResultBar(d)
    BY <2>1 DEF AnswerBar, ResultBar, StatusBar, GotBar
  <2> QED BY <2>1, <2>2, Stutters
<1> QED BY <1>2, <1>3, <1>4, <1>5, <1>6 DEF CallerStep

\* A goroutine that takes no reply shows nothing of itself.
LEMMA QuietWorker ==
  ASSUME FanOutInv, NEW c \in Callers, NEW i \in Items,
         wanted' = wanted, caller' = caller,
         \A d \in Callers : caller[d] # "wait" => list'[d] = list[d],
         \A d \in Callers : AnswerBar(d)' = AnswerBar(d)
  PROVE  UNCHANGED F!vars
<1>1. \A d \in Callers : ResultBar(d)' = ResultBar(d)
  BY DEF ResultBar, StatusBar, GotBar
<1> QED BY <1>1, Stutters

LEMMA WorkerRefines ==
  ASSUME FanOutInv, NEW c \in Callers, NEW i \in Items, WorkerStep(c, i)
  PROVE  F!Next \/ UNCHANGED F!vars
<1>1. TypeOK /\ CallInv(c)
  BY DEF FanOutInv
<1>2. wanted' = wanted /\ caller' = caller
  BY DEF WorkerStep, ReadCookies, Acquire, Granted, Reply, NoReply, SetCookies, CookiesSet,
         Parse, ParsePanics, ImageReply, NoImage, ReadCount, WriteCount, Lock, AppendResult,
         Crash, locals
<1>3. CASE Reply(c, i)
  <2>1. PICK a \in Answers \ {"none"}, next \in WorkerSteps :
          worker' = [worker EXCEPT ![c][i].pc = next, ![c][i].answer = a]
    BY <1>3 DEF Reply, WorkerSteps
  <2>2. worker[c][i].pc = "sent" /\ list' = list
    BY <1>3 DEF Reply, At, locals
  <2>3. i \in wanted[c] /\ worker[c][i].answer = "none"
    BY <1>1, <2>2 DEF CallInv, PageInv, Off
  <2>4. caller[c] = "wait"
    BY <1>1, <2>2, <2>3 DEF CallInv, Fresh, Off
  <2>5. AnswerBar(c)' = [AnswerBar(c) EXCEPT ![i] = a]
    <3>1. worker[c] \in [Items -> Worker]
      BY <1>1 DEF TypeOK
    <3>2. worker'[c] = [worker[c] EXCEPT ![i].pc = next, ![i].answer = a]
      BY <1>1, <2>1 DEF TypeOK
    <3>3. worker'[c][i].answer = a
      BY <3>1, <3>2 DEF Worker
    <3>4. \A j \in Items \ {i} : worker'[c][j] = worker[c][j]
      BY <3>1, <3>2
    <3> QED BY <3>3, <3>4 DEF AnswerBar
  <2>6. \A d \in Callers \ {c} : AnswerBar(d)' = AnswerBar(d)
    BY <1>1, <2>1 DEF AnswerBar, TypeOK
  <2>7. \A d \in Callers : ResultBar(d)' = ResultBar(d)
    BY <1>2, <2>2 DEF ResultBar, StatusBar, GotBar
  <2>8. [d \in Callers |-> AnswerBar(d)]' =
          [[d \in Callers |-> AnswerBar(d)] EXCEPT ![c][i] = a]
    BY <2>5, <2>6
  <2>9. [d \in Callers |-> ResultBar(d)]' = [d \in Callers |-> ResultBar(d)]
    BY <2>7
  <2>10. [d \in Callers |-> AnswerBar(d)][c][i] = "none"
    BY <2>3 DEF AnswerBar
  <2>11. [d \in Callers |-> ResultBar(d)][c].status = "running"
    BY <2>4 DEF ResultBar, StatusBar
  <2>12. a \in F!Answers \ {"none"}
    BY DEF Answers, F!Answers
  <2>13. F!Learn(c, i)
    BY <1>2, <2>3, <2>8, <2>9, <2>10, <2>11, <2>12
       DEF F!Learn, AnswerBar, ResultBar, StatusBar, GotBar
  <2> QED BY <2>13 DEF F!Next
<1>4. CASE NoReply(c, i) \/ ParsePanics(c, i) \/ NoImage(c, i) \/ (ReadCookies(c, i) /\ Crash)
  <2>1. worker' = worker /\ list' = list
    BY <1>4 DEF NoReply, ParsePanics, NoImage, Crash, locals
  <2>2. \A d \in Callers : AnswerBar(d)' = AnswerBar(d)
    BY <2>1 DEF AnswerBar
  <2> QED BY <1>2, <2>1, <2>2, QuietWorker
<1>5. CASE \/ (ReadCookies(c, i) /\ ~Crash) \/ Acquire(c, i) \/ Granted(c, i)
           \/ SetCookies(c, i) \/ CookiesSet(c, i) \/ Parse(c, i) \/ ImageReply(c, i)
           \/ WriteCount(c, i)
  <2>1. PICK step : worker' = [worker EXCEPT ![c][i].pc = step]
    BY <1>5 DEF ReadCookies, Acquire, Granted, SetCookies, CookiesSet, Parse, ImageReply,
                WriteCount, Goto
  <2>2. list' = list
    BY <1>5 DEF ReadCookies, Acquire, Granted, SetCookies, CookiesSet, Parse, ImageReply,
                WriteCount, locals
  <2>3. \A d \in Callers : AnswerBar(d)' = AnswerBar(d)
    BY <1>1, <2>1 DEF AnswerBar, TypeOK, Worker
  <2> QED BY <1>2, <2>2, <2>3, QuietWorker
<1>6. CASE ReadCount(c, i) \/ Lock(c, i)
  <2>1. PICK step, n, l : \/ worker' = [worker EXCEPT ![c][i].pc = step, ![c][i].seen = n]
                         \/ worker' = [worker EXCEPT ![c][i].pc = step, ![c][i].copy = l]
    BY <1>6 DEF ReadCount, Lock
  <2>2. list' = list
    BY <1>6 DEF ReadCount, Lock, locals
  <2>3. \A d \in Callers : AnswerBar(d)' = AnswerBar(d)
    <3>1. worker[c] \in [Items -> Worker]
      BY <1>1 DEF TypeOK
    <3>2. \/ worker'[c] = [worker[c] EXCEPT ![i].pc = step, ![i].seen = n]
          \/ worker'[c] = [worker[c] EXCEPT ![i].pc = step, ![i].copy = l]
      BY <1>1, <2>1 DEF TypeOK
    <3>3. worker'[c][i].answer = worker[c][i].answer
      BY <3>1, <3>2 DEF Worker
    <3>4. \A j \in Items \ {i} : worker'[c][j] = worker[c][j]
      BY <3>1, <3>2
    <3>5. \A d \in Callers \ {c} : worker'[d] = worker[d]
      BY <1>1, <2>1 DEF TypeOK
    <3> QED BY <3>3, <3>4, <3>5 DEF AnswerBar
  <2> QED BY <1>2, <2>2, <2>3, QuietWorker
<1>7. CASE AppendResult(c, i)
  <2>1. worker' = [worker EXCEPT ![c][i].pc = "done"]
    BY <1>7 DEF AppendResult, Goto
  <2>2. \A d \in Callers \ {c} : list'[d] = list[d]
    BY <1>1, <1>7 DEF AppendResult, TypeOK
  <2>3. worker[c][i].pc = "append"
    BY <1>7 DEF AppendResult, At
  <2>4. caller[c] = "wait"
    BY <1>1, <2>3 DEF CallInv, PageInv, Fresh, Off
  <2>5. \A d \in Callers : AnswerBar(d)' = AnswerBar(d)
    BY <1>1, <2>1 DEF AnswerBar, TypeOK, Worker
  <2> QED BY <1>2, <2>2, <2>4, <2>5, QuietWorker
<1> QED BY <1>3, <1>4, <1>5, <1>6, <1>7 DEF WorkerStep

\* Every interleaving of the goroutines amounts to what Fetch says of the call:
\* it learns each page once and returns everything, or an error, at once.
THEOREM ImplementsFetch == Spec => FetchSpec
<1>1. FanOutInv /\ [Next]_vars => [F!Next]_(F!vars)
  <2>1. FanOutInv /\ Next => F!Next \/ UNCHANGED F!vars
    BY CallerRefines, WorkerRefines DEF Next
  <2>2. UNCHANGED vars => UNCHANGED F!vars
    BY DEF vars, locals, F!vars
  <2> QED BY <2>1, <2>2
<1> QED BY InitRefines, FanOutInvariant, <1>1, PTL DEF Spec, FetchSpec, F!Spec

-----------------------------------------------------------------------------
(* The limiters.                                                           *)

\* No goroutine sends a request or gets an answer.
SameRequests ==
  /\ UNCHANGED <<s, limiters, limiter, held>>
  /\ \A c \in Callers, i \in Items :
       worker'[c][i].pc = "sent" <=> worker[c][i].pc = "sent"

LEMMA SameRequestsKeep == ASSUME LimiterInv, SameRequests PROVE LimiterInv'
<1>1. \A l \in Callers :
        {w \in Workers : worker'[w[1]][w[2]].pc = "sent" /\ limiter'[w[1]] = l}
          = {w \in Workers : worker[w[1]][w[2]].pc = "sent" /\ limiter[w[1]] = l}
  BY DEF SameRequests, Workers
<1> QED BY <1>1 DEF SameRequests, LimiterInv

LEMMA CallerLimits ==
  ASSUME FanOutInv, LimiterInv, NEW c \in Callers, CallerStep(c)
  PROVE  LimiterInv'
<1>1. TypeOK /\ CallInv(c)
  BY DEF FanOutInv
<1>2. CASE \/ CheckLimiter(c) \/ FirstPageFails(c) \/ FirstPagePanics(c) \/ Return(c)
  <2>1. SameRequests
    BY <1>2 DEF CheckLimiter, FirstPageFails, FirstPagePanics, Return, Crash, shared, sem,
                SameRequests
  <2> QED BY <2>1, SameRequestsKeep
<1>3. CASE Spawn(c)
  <2>1. PICK want \in SUBSET Items :
          worker' = [worker EXCEPT ![c] =
            [i \in Items |-> IF i \in want THEN [Off EXCEPT !.pc = "cookies"] ELSE Off]]
    BY <1>3, ListsAssumption DEF Spawn
  <2>2. \A i \in Items : worker'[c][i].pc # "sent"
    BY <2>1, <1>1 DEF TypeOK, Off
  <2>3. \A i \in Items : worker[c][i].pc # "sent"
    BY <1>1, <1>3 DEF Spawn, CallerAt, CallInv, Fresh, Off
  <2>4. \A d \in Callers \ {c} : worker'[d] = worker[d]
    BY <2>1, <1>1 DEF TypeOK
  <2>5. SameRequests
    BY <1>3, <2>2, <2>3, <2>4 DEF Spawn, shared, sem, SameRequests
  <2> QED BY <2>5, SameRequestsKeep
<1>4. CASE CreateLimiter(c)
  <2>1. IsFiniteSet(limiters')
    BY <1>4, FS_AddElement DEF CreateLimiter, LimiterInv
  <2> QED BY <1>4, <2>1 DEF CreateLimiter, LimiterInv, sem
<1>5. CASE TakeLimiter(c)
  <2>1. \A i \in Items : worker[c][i].pc # "sent"
    BY <1>1, <1>5 DEF TakeLimiter, CallerAt, CallInv, Fresh, Off
  <2>2. \A d \in Callers \ {c} : limiter'[d] = limiter[d]
    BY <1>1, <1>5 DEF TakeLimiter, TypeOK
  <2>3. limiter'[c] = s
    BY <1>1, <1>5 DEF TakeLimiter, TypeOK
  <2>4. UNCHANGED <<s, limiters, held, worker>>
    BY <1>5 DEF TakeLimiter, sem
  <2>5. \A l \in Callers :
          {w \in Workers : worker'[w[1]][w[2]].pc = "sent" /\ limiter'[w[1]] = l}
            = {w \in Workers : worker[w[1]][w[2]].pc = "sent" /\ limiter[w[1]] = l}
    BY <2>1, <2>2, <2>4 DEF Workers
  <2> QED BY <2>2, <2>3, <2>4, <2>5 DEF LimiterInv
<1> QED BY <1>2, <1>3, <1>4, <1>5 DEF CallerStep

LEMMA WorkerLimits ==
  ASSUME FanOutInv, LimiterInv, NEW c \in Callers, NEW i \in Items, WorkerStep(c, i)
  PROVE  LimiterInv'
<1>1. TypeOK /\ worker[c][i] \in Worker /\ <<c, i>> \in Workers
  BY DEF FanOutInv, TypeOK, Workers
<1>2. CASE Crash
  BY <1>2, SameRequestsKeep DEF Crash, shared, sem, SameRequests
<1>3. ASSUME NEW w \in Worker, worker' = [worker EXCEPT ![c][i] = w]
      PROVE  /\ worker'[c][i] = w
             /\ \A d \in Callers, j \in Items : <<d, j>> # <<c, i>> => worker'[d][j] = worker[d][j]
  BY <1>1, <1>3 DEF TypeOK
<1>4. ASSUME NEW w \in Worker, worker' = [worker EXCEPT ![c][i] = w],
             w.pc # "sent", worker[c][i].pc # "sent",
             UNCHANGED <<s, limiters, limiter, held>>
      PROVE  LimiterInv'
  <2>1. \A d \in Callers, j \in Items :
          worker'[d][j].pc = "sent" <=> worker[d][j].pc = "sent"
    BY <1>3, <1>4
  <2>2. SameRequests
    BY <1>4, <2>1 DEF SameRequests
  <2> QED BY <2>2, SameRequestsKeep
<1>5. ASSUME NEW step \in WorkerSteps \ {"sent"}, Goto(c, i, step),
             worker[c][i].pc # "sent", UNCHANGED <<s, limiters, limiter, held>>
      PROVE  LimiterInv'
  <2>1. worker' = [worker EXCEPT ![c][i] = [worker[c][i] EXCEPT !.pc = step]]
    BY <1>1, <1>5 DEF Goto, TypeOK
  <2>2. /\ [worker[c][i] EXCEPT !.pc = step] \in Worker
        /\ [worker[c][i] EXCEPT !.pc = step].pc # "sent"
    BY <1>1, <1>5 DEF Worker
  <2> QED BY <1>4, <1>5, <2>1, <2>2
<1>6. CASE (ReadCookies(c, i) /\ ~Crash) \/ Acquire(c, i) \/ SetCookies(c, i)
           \/ CookiesSet(c, i) \/ ImageReply(c, i) \/ WriteCount(c, i) \/ AppendResult(c, i)
  <2>1. \E step \in {"acquire", "queued", "jar_set", "parse", "lock", "done"} : Goto(c, i, step)
    BY <1>6 DEF ReadCookies, Acquire, SetCookies, CookiesSet, ImageReply, WriteCount, AppendResult
  <2>2. worker[c][i].pc # "sent" /\ UNCHANGED <<s, limiters, limiter, held>>
    BY <1>6 DEF ReadCookies, Acquire, SetCookies, CookiesSet, ImageReply, WriteCount,
                AppendResult, At, shared, sem
  <2>3. {"acquire", "queued", "jar_set", "parse", "lock", "done"} \subseteq WorkerSteps \ {"sent"}
    BY DEF WorkerSteps
  <2> QED BY <1>5, <2>1, <2>2, <2>3
<1>7. CASE Parse(c, i)
  <2>1. worker[c][i].answer \in {"bad", "data", "empty"}
    BY <1>1, <1>7, CallerWaits DEF Parse, At, PageInv, Worker, Answers
  <2>2. \E step \in {"count", "image", "lock", "done"} : Goto(c, i, step)
    BY <1>7, <2>1 DEF Parse, Parsed
  <2>3. worker[c][i].pc # "sent" /\ UNCHANGED <<s, limiters, limiter, held>>
    BY <1>7 DEF Parse, At, shared, sem
  <2>4. {"count", "image", "lock", "done"} \subseteq WorkerSteps \ {"sent"}
    BY DEF WorkerSteps
  <2> QED BY <1>5, <2>2, <2>3, <2>4
<1>8. CASE ReadCount(c, i)
  <2>1. PICK w : w = [worker[c][i] EXCEPT !.pc = "counted", !.seen = errCount[c]]
    OBVIOUS
  <2>2. worker' = [worker EXCEPT ![c][i] = w]
    BY <1>1, <1>8, <2>1 DEF ReadCount, TypeOK
  <2>3. w \in Worker /\ w.pc # "sent"
    BY <1>1, <2>1 DEF Worker, WorkerSteps, TypeOK
  <2>4. worker[c][i].pc # "sent" /\ UNCHANGED <<s, limiters, limiter, held>>
    BY <1>8 DEF ReadCount, At, shared, sem
  <2> QED BY <1>4, <2>2, <2>3, <2>4
<1>9. CASE Lock(c, i)
  <2>1. PICK w : w = [worker[c][i] EXCEPT !.pc = "append", !.copy = list[c]]
    OBVIOUS
  <2>2. worker' = [worker EXCEPT ![c][i] = w]
    BY <1>1, <1>9, <2>1 DEF Lock, TypeOK
  <2>3. w \in Worker /\ w.pc # "sent"
    BY <1>1, <2>1 DEF Worker, WorkerSteps, TypeOK
  <2>4. worker[c][i].pc # "sent" /\ UNCHANGED <<s, limiters, limiter, held>>
    BY <1>9 DEF Lock, At, shared, sem
  <2> QED BY <1>4, <2>2, <2>3, <2>4
<1>10. CASE Granted(c, i)
  <2> DEFINE m == limiter[c]
             w == [worker[c][i] EXCEPT !.pc = "sent"]
  <2>1. worker' = [worker EXCEPT ![c][i] = w]
    BY <1>1, <1>10 DEF Granted, Goto, TypeOK
  <2>2. w \in Worker /\ w.pc = "sent"
    BY <1>1 DEF Worker, WorkerSteps
  <2>3. worker[c][i].pc = "queued" /\ UNCHANGED <<s, limiters, limiter>>
    BY <1>10 DEF Granted, At, shared
  <2>4. m \in Callers
    <3>1. caller[c] = "wait"
      BY <2>3, CallerWaits
    <3>2. limiter[c] # Nil
      BY <3>1 DEF FanOutInv, CallInv
    <3> QED BY <1>1, <3>2 DEF TypeOK
  <2>5. /\ held'[m] = held[m] \cup {<<c, i>>} /\ Cardinality(held[m]) < Limit
        /\ \A l \in Callers \ {m} : held'[l] = held[l]
    BY <1>1, <1>10, <2>4 DEF Granted, TypeOK
  <2>6. /\ worker'[c][i].pc = "sent"
        /\ \A d \in Callers, j \in Items : <<d, j>> # <<c, i>> => worker'[d][j] = worker[d][j]
    BY <1>3, <2>1, <2>2
  <2>7. IsFiniteSet(held'[m]) /\ Cardinality(held'[m]) <= Limit
    <3>1. IsFiniteSet(held[m]) /\ <<c, i>> \notin held[m]
      BY <2>3, <2>4 DEF LimiterInv
    <3>2. IsFiniteSet(held'[m]) /\ Cardinality(held'[m]) = Cardinality(held[m]) + 1
      <4>1. /\ IsFiniteSet(held[m] \cup {<<c, i>>})
            /\ Cardinality(held[m] \cup {<<c, i>>}) = Cardinality(held[m]) + 1
        BY <3>1, FS_AddElement
      <4> QED BY <2>5, <4>1
    <3>3. Cardinality(held[m]) \in Nat
      BY <3>1, FS_CardinalityType
    <3> QED BY <2>5, <3>2, <3>3, LimitAssumption
  <2>8. ASSUME NEW l \in Callers
        PROVE  held'[l] = {v \in Workers : worker'[v[1]][v[2]].pc = "sent" /\ limiter'[v[1]] = l}
    <3>1. held[l] = {v \in Workers : worker[v[1]][v[2]].pc = "sent" /\ limiter[v[1]] = l}
      BY DEF LimiterInv
    <3>2. \A v \in Workers \ {<<c, i>>} : worker'[v[1]][v[2]] = worker[v[1]][v[2]]
      BY <2>6 DEF Workers
    <3> HIDE DEF w
    <3>3. CASE l = m
      BY <1>1, <2>3, <2>5, <2>6, <3>1, <3>2, <3>3
    <3>4. CASE l # m
      BY <1>1, <2>3, <2>5, <2>6, <3>1, <3>2, <3>4
    <3> QED BY <3>3, <3>4
  <2> HIDE DEF m, w
  <2>9. \A l \in Callers : IsFiniteSet(held'[l]) /\ Cardinality(held'[l]) <= Limit
    BY <2>5, <2>7 DEF LimiterInv
  <2> QED BY <2>3, <2>8, <2>9 DEF LimiterInv
<1>11. CASE Reply(c, i)
  <2> DEFINE m == limiter[c]
  <2>1. PICK w : /\ w \in Worker /\ w.pc # "sent"
                 /\ worker' = [worker EXCEPT ![c][i] = w]
    <3>1. PICK a \in Answers \ {"none"}, next \in {"parse", "set_jar"} :
            worker' = [worker EXCEPT ![c][i].pc = next, ![c][i].answer = a]
      BY <1>11 DEF Reply
    <3>2. worker' = [worker EXCEPT ![c][i] = [worker[c][i] EXCEPT !.pc = next, !.answer = a]]
      BY <1>1, <3>1 DEF TypeOK
    <3>3. /\ [worker[c][i] EXCEPT !.pc = next, !.answer = a] \in Worker
          /\ [worker[c][i] EXCEPT !.pc = next, !.answer = a].pc # "sent"
      BY <1>1, <3>1 DEF Worker, WorkerSteps
    <3> QED BY <3>2, <3>3
  <2>3. worker[c][i].pc = "sent" /\ UNCHANGED <<s, limiters, limiter>>
    BY <1>11 DEF Reply, At, shared
  <2>4. m \in Callers
    <3>1. caller[c] = "wait"
      BY <2>3, CallerWaits
    <3>2. limiter[c] # Nil
      BY <3>1 DEF FanOutInv, CallInv
    <3> QED BY <1>1, <3>2 DEF TypeOK
  <2>5. /\ held'[m] = held[m] \ {<<c, i>>}
        /\ \A l \in Callers \ {m} : held'[l] = held[l]
    BY <1>1, <1>11, <2>4 DEF Reply, TypeOK
  <2>6. /\ worker'[c][i].pc # "sent"
        /\ \A d \in Callers, j \in Items : <<d, j>> # <<c, i>> => worker'[d][j] = worker[d][j]
    BY <1>3, <2>1
  <2>7. IsFiniteSet(held'[m]) /\ Cardinality(held'[m]) <= Limit
    <3>1. IsFiniteSet(held[m]) /\ Cardinality(held[m]) <= Limit
      BY <2>4 DEF LimiterInv
    <3>2. held'[m] \in SUBSET held[m]
      BY <2>5
    <3>3. IsFiniteSet(held'[m]) /\ Cardinality(held'[m]) <= Cardinality(held[m])
      BY <3>1, <3>2, FS_Subset
    <3>4. Cardinality(held[m]) \in Nat /\ Cardinality(held'[m]) \in Nat
      BY <3>1, <3>3, FS_CardinalityType
    <3> QED BY <3>1, <3>3, <3>4, LimitAssumption
  <2>8. ASSUME NEW l \in Callers
        PROVE  held'[l] = {v \in Workers : worker'[v[1]][v[2]].pc = "sent" /\ limiter'[v[1]] = l}
    <3>1. held[l] = {v \in Workers : worker[v[1]][v[2]].pc = "sent" /\ limiter[v[1]] = l}
      BY DEF LimiterInv
    <3>2. \A v \in Workers \ {<<c, i>>} : worker'[v[1]][v[2]] = worker[v[1]][v[2]]
      BY <2>6 DEF Workers
    <3>3. CASE l = m
      BY <1>1, <2>3, <2>5, <2>6, <3>1, <3>2, <3>3
    <3>4. CASE l # m
      BY <1>1, <2>3, <2>5, <2>6, <3>1, <3>2, <3>4
    <3> QED BY <3>3, <3>4
  <2> HIDE DEF m
  <2>9. \A l \in Callers : IsFiniteSet(held'[l]) /\ Cardinality(held'[l]) <= Limit
    BY <2>5, <2>7 DEF LimiterInv
  <2> QED BY <2>3, <2>8, <2>9 DEF LimiterInv
<1> QED BY <1>2, <1>6, <1>7, <1>8, <1>9, <1>10, <1>11 DEF WorkerStep, ReadCookies, NoReply,
           ParsePanics, NoImage

\* Pairs of a limiter and one of its units are enough for the clients' requests.
LEMMA UnitsSuffice ==
  ASSUME FanOutInv, LimiterInv
  PROVE  LimiterBound
<1> DEFINE sent == {w \in Workers : worker[w[1]][w[2]].pc = "sent"}
           units == limiters \X (1..Limit)
           m(w) == limiter[w[1]]
<1>1. IsFiniteSet(units) /\ Cardinality(units) = Cardinality(limiters) * Limit
  <2>1. IsFiniteSet(1..Limit) /\ Cardinality(1..Limit) = Limit
    BY LimitAssumption, FS_Interval
  <2> QED BY <2>1, FS_Product DEF LimiterInv
<1>2. ASSUME NEW w \in sent
      PROVE  m(w) \in limiters /\ m(w) \in Callers /\ w \in held[m(w)]
  <2>1. w[1] \in Callers /\ w[2] \in Items
    BY DEF Workers
  <2>2. worker[w[1]][w[2]].pc = "sent"
    OBVIOUS
  <2>3. caller[w[1]] = "wait"
    BY <2>1, <2>2, CallerWaits
  <2>4. limiter[w[1]] # Nil
    BY <2>1, <2>3 DEF FanOutInv, CallInv
  <2>5. m(w) \in limiters /\ m(w) \in Callers
    BY <2>1, <2>4 DEF LimiterInv, FanOutInv, TypeOK
  <2> QED BY <2>2, <2>5 DEF LimiterInv
<1> DEFINE number(l) == CHOOSE f \in Injection(held[l], 1..Limit) : TRUE
<1>3. ASSUME NEW l \in Callers PROVE number(l) \in Injection(held[l], 1..Limit)
  <2>1. IsFiniteSet(held[l]) /\ Cardinality(held[l]) <= Limit
    BY DEF LimiterInv
  <2>2. PICK g \in Bijection(1..Cardinality(held[l]), held[l]) : Cardinality(held[l]) \in Nat
    BY <2>1, FS_CardinalityType DEF ExistsBijection
  <2>3. PICK h : h \in Bijection(held[l], 1..Cardinality(held[l]))
    <3>1. Inverse(g, 1..Cardinality(held[l]), held[l])
            \in Bijection(held[l], 1..Cardinality(held[l]))
      BY <2>2, Fun_BijInverse
    <3> QED BY <3>1
  <2>4. 1..Cardinality(held[l]) \subseteq 1..Limit
    BY <2>1, <2>2, LimitAssumption
  <2>5. h \in Injection(held[l], 1..Limit)
    BY <2>3, <2>4 DEF Bijection, Injection
  <2> QED BY <2>5
<1> DEFINE unit == [w \in sent |-> <<m(w), number(m(w))[w]>>]
<1>4. unit \in Injection(sent, units)
  <2>1. ASSUME NEW w \in sent PROVE unit[w] \in units
    <3>1. number(m(w))[w] \in 1..Limit
      BY <1>2, <1>3 DEF Injection
    <3> QED BY <3>1, <1>2
  <2>2. ASSUME NEW v \in sent, NEW w \in sent, unit[v] = unit[w] PROVE v = w
    <3>a. unit[v] = <<m(v), number(m(v))[v]>> /\ unit[w] = <<m(w), number(m(w))[w]>>
      OBVIOUS
    <3> HIDE DEF unit, number, m
    <3>1. m(v) = m(w) /\ number(m(w))[v] = number(m(w))[w]
      BY <3>a, <2>2
    <3>2. v \in held[m(w)] /\ w \in held[m(w)] /\ number(m(w)) \in Injection(held[m(w)], 1..Limit)
      BY <3>1, <1>2, <1>3
    <3> QED BY <3>1, <3>2 DEF Injection, IsInjective
  <2> QED BY <2>1, <2>2 DEF Injection, IsInjective
<1>5. Cardinality(sent) <= Cardinality(units)
  BY <1>1, <1>4, FS_Injection
<1>6. Cardinality(limiters) \in Nat
  BY FS_CardinalityType DEF LimiterInv
<1> HIDE DEF units
<1>7. Cardinality(sent) <= Limit * Cardinality(limiters)
  BY <1>1, <1>5, <1>6, LimitAssumption
<1> QED BY <1>7 DEF LimiterBound

\* The requests that wait in the transports of clients never exceed one Limit for
\* each limiter that exists, for any number of clients and pages (FanOut's
\* LimiterBound). The requests for pictures do not go through a limiter.
THEOREM LimitersBound == Spec => []LimiterBound
<1>1. Init => LimiterInv
  <2> SUFFICES ASSUME Init PROVE LimiterInv
    OBVIOUS
  <2>1. \A l \in Callers :
          held[l] = {w \in Workers : worker[w[1]][w[2]].pc = "sent" /\ limiter[w[1]] = l}
    BY DEF Init, Off, Workers
  <2>2. IsFiniteSet({}) /\ Cardinality({}) = 0
    BY FS_EmptySet
  <2>3. ASSUME NEW l \in Callers PROVE IsFiniteSet(held[l]) /\ Cardinality(held[l]) <= Limit
    <3>1. held[l] = {}
      BY DEF Init
    <3>2. Cardinality(held[l]) = 0 /\ IsFiniteSet(held[l])
      BY <2>2, <3>1
    <3> QED BY <3>2, LimitAssumption
  <2>4. /\ IsFiniteSet(limiters) /\ s \in limiters \cup {Nil}
        /\ \A c \in Callers : limiter[c] \in limiters \cup {Nil}
    BY <2>2 DEF Init
  <2> QED BY <2>1, <2>3, <2>4 DEF LimiterInv
<1>2. FanOutInv /\ LimiterInv /\ [Next]_vars => LimiterInv'
  <2>1. FanOutInv /\ LimiterInv /\ Next => LimiterInv'
    BY CallerLimits, WorkerLimits DEF Next
  <2>2. LimiterInv /\ UNCHANGED vars => LimiterInv'
    BY DEF vars, shared, sem, LimiterInv
  <2> QED BY <2>1, <2>2
<1>3. FanOutInv /\ LimiterInv => LimiterBound
  BY UnitsSuffice
<1> QED BY <1>1, <1>2, <1>3, FanOutInvariant, PTL DEF Spec

=============================================================================
