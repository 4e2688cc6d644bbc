------------------------------- MODULE FanOut --------------------------------
(***************************************************************************)
(* The fan-out of the four ...ForClient functions of eagate/ddr (one       *)
(* goroutine for each page, joined by a WaitGroup), and what its goroutines *)
(* share: the limiter of eagate/util/ea_client.go, the cookie jar of       *)
(* eagate/util/ea_jar.go, the error count and the list of results.         *)
(*                                                                         *)
(* One action is one access to a shared variable, so that the unsynchronised *)
(* ones (the global s, errCount, the jar's map) interleave as they may.    *)
(***************************************************************************)
EXTENDS Naturals, Sequences, FiniteSets

CONSTANTS
  Callers,  \* goroutines that make a client and run one function with it
  Items,    \* pages: offsets, song ids or charts
  Lists,    \* the lists of pages each caller may come to load
  Limit,    \* the weight of a limiter, 1024 in the code
  Nil,      \* the nil pointer
  Faults    \* what may go wrong, a subset of FaultKinds

\* net: a request gets no answer.  cookie: an answer sets a cookie.  page: a
\* page of another layout.
FaultKinds == {"net", "cookie", "page"}

ASSUME ListsAssumption == Lists \in [Callers -> SUBSET SUBSET Items]
ASSUME LimitAssumption == Limit \in Nat \ {0}
ASSUME NilAssumption == Nil \notin Callers \cup Items
ASSUME FaultsAssumption == Faults \subseteq FaultKinds

VARIABLES
  s,          \* the global limiter: the caller that created it, or Nil
  limiters,   \* limiters that exist, named like s
  limiter,    \* the limiter in each caller's transport
  queue,      \* goroutines waiting in Acquire, per limiter, oldest first
  held,       \* goroutines that hold a unit of it
  writing,    \* the page whose goroutine is inside SetCookies of the jar
  appending,  \* the page whose goroutine holds mtx
  errCount, list, wanted,  \* local variables of the function
  caller,     \* where each caller is
  worker,     \* the goroutine of each page: its step, and its local variables
  crashed     \* the process died of an unrecovered panic or a fatal error

vars == <<s, limiters, limiter, queue, held, writing, appending, errCount, list,
          wanted, caller, worker, crashed>>
shared == <<s, limiters, limiter>>
sem    == <<queue, held>>
locals == <<errCount, list, wanted>>

Workers == Callers \X Items

Answers == {"none", "data", "empty", "bad"}

CallerSteps == {"check", "create", "take", "ready", "wait", "ok", "error"}

WorkerSteps == {"off", "cookies", "acquire", "queued", "sent", "set_jar", "jar_set",
                "parse", "image", "count", "counted", "lock", "append", "done"}

\* seen, copy: errCount and the list as this goroutine last read them.
Worker == [pc : WorkerSteps, answer : Answers, seen : Nat, copy : SUBSET Items]

Off == [pc |-> "off", answer |-> "none", seen |-> 0, copy |-> {}]

Init ==
  /\ s = Nil /\ limiters = {}
  /\ limiter = [c \in Callers |-> Nil]
  /\ queue = [c \in Callers |-> <<>>]
  /\ held = [c \in Callers |-> {}]
  /\ writing = [c \in Callers |-> Nil]
  /\ appending = [c \in Callers |-> Nil]
  /\ errCount = [c \in Callers |-> 0]
  /\ list = [c \in Callers |-> {}]
  /\ wanted = [c \in Callers |-> {}]
  /\ caller = [c \in Callers |-> "check"]
  /\ worker = [c \in Callers |-> [i \in Items |-> Off]]
  /\ crashed = FALSE

CallerAt(c, step) == ~crashed /\ caller[c] = step

Advance(c, step) == caller' = [caller EXCEPT ![c] = step]

At(c, i, step) == ~crashed /\ worker[c][i].pc = step

Goto(c, i, step) == worker' = [worker EXCEPT ![c][i].pc = step]

Crash ==
  /\ crashed' = TRUE
  /\ UNCHANGED <<shared, sem, writing, appending, locals, caller, worker>>

-----------------------------------------------------------------------------
(* GenerateClient: s is created on first use, with no lock.                *)

CheckLimiter(c) ==
  /\ CallerAt(c, "check")
  /\ Advance(c, IF s = Nil THEN "create" ELSE "take")
  /\ UNCHANGED <<shared, sem, writing, appending, locals, worker, crashed>>

CreateLimiter(c) ==
  /\ CallerAt(c, "create")
  /\ s' = c
  /\ limiters' = limiters \cup {c}
  /\ Advance(c, "take")
  /\ UNCHANGED <<limiter, sem, writing, appending, locals, worker, crashed>>

\* Bug: a limiter for each client.
TakeOwnLimiter(c) ==
  /\ CallerAt(c, "take")
  /\ limiter' = [limiter EXCEPT ![c] = c]
  /\ Advance(c, "ready")
  /\ UNCHANGED <<s, limiters, sem, writing, appending, locals, worker, crashed>>

TakeLimiter(c) ==
  /\ CallerAt(c, "take")
  /\ limiter' = [limiter EXCEPT ![c] = s]
  /\ Advance(c, "ready")
  /\ UNCHANGED <<s, limiters, sem, writing, appending, locals, worker, crashed>>

-----------------------------------------------------------------------------
(* The function itself.                                                    *)

\* A goroutine for each page: of the list it was given, or as many pages as
\* SongIdsForClient counted on the first one.
Spawn(c) ==
  /\ CallerAt(c, "ready")
  /\ \E want \in Lists[c] :
       /\ wanted' = [wanted EXCEPT ![c] = want]
       /\ worker' = [worker EXCEPT ![c] =
                       [i \in Items |-> IF i \in want THEN [Off EXCEPT !.pc = "cookies"]
                                                      ELSE Off]]
  /\ Advance(c, "wait")
  /\ UNCHANGED <<shared, sem, writing, appending, errCount, list, crashed>>

\* SongIdsForClient could not read that first page, or got no answer to it in a
\* request, whose panic net/http recovers.
FirstPageFails(c) ==
  /\ CallerAt(c, "ready")
  /\ Advance(c, "error")
  /\ UNCHANGED <<shared, sem, writing, appending, locals, worker, crashed>>

\* In the hourly job nothing recovers that panic.
FirstPagePanics(c) == CallerAt(c, "ready") /\ "net" \in Faults /\ Crash

\* wg.Wait is over.
Return(c) ==
  /\ CallerAt(c, "wait")
  /\ \A i \in wanted[c] : worker[c][i].pc = "done"
  /\ Advance(c, IF errCount[c] # 0 THEN "error" ELSE "ok")
  /\ UNCHANGED <<shared, sem, writing, appending, locals, worker, crashed>>

-----------------------------------------------------------------------------
(* The goroutine of one page. First http.Client.Get with the client's jar  *)
(* and transport.                                                          *)

\* EaJar.Cookies takes no lock: a read of the map during a write is fatal when
\* the runtime notices it.
ReadCookies(c, i) ==
  /\ At(c, i, "cookies")
  /\ \/ /\ Goto(c, i, "acquire")
        /\ UNCHANGED <<shared, sem, writing, appending, locals, caller, crashed>>
     \/ writing[c] # Nil /\ Crash

Acquire(c, i) ==
  /\ At(c, i, "acquire")
  /\ queue' = [queue EXCEPT ![limiter[c]] = Append(@, <<c, i>>)]
  /\ Goto(c, i, "queued")
  /\ UNCHANGED <<shared, held, writing, appending, locals, caller, crashed>>

\* A Weighted semaphore serves its waiters in order.
Granted(c, i) ==
  /\ At(c, i, "queued")
  /\ LET l == limiter[c] IN
       /\ queue[l] # <<>> /\ Head(queue[l]) = <<c, i>>
       /\ Cardinality(held[l]) < Limit
       /\ queue' = [queue EXCEPT ![l] = Tail(@)]
       /\ held' = [held EXCEPT ![l] = @ \cup {<<c, i>>}]
  /\ Goto(c, i, "sent")
  /\ UNCHANGED <<shared, writing, appending, locals, caller, crashed>>

\* Bug: Release is not deferred and a cookie returns early.
ReplyHolding(c, i) ==
  /\ At(c, i, "sent")
  /\ \E a \in Answers \ {"none"}, next \in {"parse"} \cup
                                  (IF "cookie" \in Faults THEN {"set_jar"} ELSE {}) :
       /\ worker' = [worker EXCEPT ![c][i].pc = next, ![c][i].answer = a]
       /\ held' = IF next = "parse" THEN [held EXCEPT ![limiter[c]] = @ \ {<<c, i>>}]
                                    ELSE held
  /\ UNCHANGED <<shared, queue, writing, appending, locals, caller, crashed>>

\* The answer decides here what the page will turn out to be. The unit is given
\* back with the header: the body is read after it, and one that breaks off is
\* parsed for what it holds, as data or empty.
Reply(c, i) ==
  /\ At(c, i, "sent")
  /\ \E a \in Answers \ {"none"}, next \in {"parse"} \cup
                                  (IF "cookie" \in Faults THEN {"set_jar"} ELSE {}) :
       worker' = [worker EXCEPT ![c][i].pc = next, ![c][i].answer = a]
  /\ held' = [held EXCEPT ![limiter[c]] = @ \ {<<c, i>>}]
  /\ UNCHANGED <<shared, queue, writing, appending, locals, caller, crashed>>

\* GetPageContentAsGoQuery reads the status of a response that is nil.
NoReply(c, i) == At(c, i, "sent") /\ "net" \in Faults /\ Crash

\* SetCookies, between Lock and Unlock.
SetCookies(c, i) ==
  /\ At(c, i, "set_jar") /\ writing[c] = Nil
  /\ writing' = [writing EXCEPT ![c] = i]
  /\ Goto(c, i, "jar_set")
  /\ UNCHANGED <<shared, sem, appending, locals, caller, crashed>>

CookiesSet(c, i) ==
  /\ At(c, i, "jar_set")
  /\ writing' = [writing EXCEPT ![c] = Nil]
  /\ Goto(c, i, "parse")
  /\ UNCHANGED <<shared, sem, appending, locals, caller, crashed>>

-----------------------------------------------------------------------------
(* Then the document: an error is counted, data is appended.               *)

\* Bug: an error is logged and not counted.
ParsedUncounted(answer) ==
  CASE answer = "bad"   -> {"done"}
    [] answer = "data"  -> {"image", "lock"}
    [] answer = "empty" -> {"done"}

\* Of a song's page SongDataForClient wants the picture as well, if it shows one.
Parsed(answer) ==
  CASE answer = "bad"   -> {"count"}
    [] answer = "data"  -> {"image", "lock"}
    [] answer = "empty" -> {"done"}

Parse(c, i) ==
  /\ At(c, i, "parse")
  /\ \E step \in Parsed(worker[c][i].answer) : Goto(c, i, step)
  /\ UNCHANGED <<shared, sem, writing, appending, locals, caller, crashed>>

\* songDataFromDocument takes the second half of a cell that need not have one.
ParsePanics(c, i) ==
  At(c, i, "parse") /\ worker[c][i].answer = "data" /\ "page" \in Faults /\ Crash

\* The picture comes through http.Get, whose client has no jar and whose
\* transport has no limiter; whatever answer there is will do.
ImageReply(c, i) ==
  /\ At(c, i, "image")
  /\ Goto(c, i, "lock")
  /\ UNCHANGED <<shared, sem, writing, appending, locals, caller, crashed>>

\* Without an answer the deferred Close is of a response that is nil.
NoImage(c, i) == At(c, i, "image") /\ "net" \in Faults /\ Crash

\* errCount++ without a lock: a read, and a write of what was read plus one.
ReadCount(c, i) ==
  /\ At(c, i, "count")
  /\ worker' = [worker EXCEPT ![c][i].pc = "counted", ![c][i].seen = errCount[c]]
  /\ UNCHANGED <<shared, sem, writing, appending, locals, caller, crashed>>

\* Bug: the increment is lost.
WriteCountRead(c, i) ==
  /\ At(c, i, "counted")
  /\ errCount' = [errCount EXCEPT ![c] = worker[c][i].seen]
  /\ Goto(c, i, "done")
  /\ UNCHANGED <<shared, sem, writing, appending, list, wanted, caller, crashed>>

WriteCount(c, i) ==
  /\ At(c, i, "counted")
  /\ errCount' = [errCount EXCEPT ![c] = worker[c][i].seen + 1]
  /\ Goto(c, i, "done")
  /\ UNCHANGED <<shared, sem, writing, appending, list, wanted, caller, crashed>>

\* Bug: append without mtx.
LockNothing(c, i) ==
  /\ At(c, i, "lock")
  /\ worker' = [worker EXCEPT ![c][i].pc = "append", ![c][i].copy = list[c]]
  /\ UNCHANGED <<shared, sem, writing, appending, locals, caller, crashed>>

\* mtx.Lock, and append's read of the slice.
Lock(c, i) ==
  /\ At(c, i, "lock") /\ appending[c] = Nil
  /\ appending' = [appending EXCEPT ![c] = i]
  /\ worker' = [worker EXCEPT ![c][i].pc = "append", ![c][i].copy = list[c]]
  /\ UNCHANGED <<shared, sem, writing, locals, caller, crashed>>

\* The assignment of what append returned, mtx.Unlock and wg.Done.
AppendResult(c, i) ==
  /\ At(c, i, "append")
  /\ list' = [list EXCEPT ![c] = worker[c][i].copy \cup {i}]
  /\ appending' = [appending EXCEPT ![c] = Nil]
  /\ Goto(c, i, "done")
  /\ UNCHANGED <<shared, sem, writing, errCount, wanted, caller, crashed>>

-----------------------------------------------------------------------------

CallerStep(c) ==
  \/ CheckLimiter(c) \/ CreateLimiter(c) \/ TakeLimiter(c)
  \/ Spawn(c) \/ FirstPageFails(c) \/ FirstPagePanics(c) \/ Return(c)

WorkerStep(c, i) ==
  \/ ReadCookies(c, i) \/ Acquire(c, i) \/ Granted(c, i)
  \/ Reply(c, i) \/ NoReply(c, i) \/ SetCookies(c, i) \/ CookiesSet(c, i)
  \/ Parse(c, i) \/ ParsePanics(c, i) \/ ImageReply(c, i) \/ NoImage(c, i)
  \/ ReadCount(c, i) \/ WriteCount(c, i)
  \/ Lock(c, i) \/ AppendResult(c, i)

Next == \E c \in Callers : CallerStep(c) \/ \E i \in Items : WorkerStep(c, i)

Spec == Init /\ [][Next]_vars

\* Goroutines are scheduled, and the site answers or drops every request, those
\* for pictures too: neither http.Client has a timeout of its own.
FairSpec ==
  /\ Spec
  /\ \A c \in Callers :
       /\ WF_vars(CallerStep(c))
       /\ \A i \in Items : WF_vars(WorkerStep(c, i))

-----------------------------------------------------------------------------
(* What the fan-out promises, whatever the goroutines interleave.          *)

TypeOK ==
  /\ s \in Callers \cup {Nil}
  /\ limiters \subseteq Callers
  /\ limiter \in [Callers -> Callers \cup {Nil}]
  /\ queue \in [Callers -> Seq(Workers)]
  /\ held \in [Callers -> SUBSET Workers]
  /\ writing \in [Callers -> Items \cup {Nil}]
  /\ appending \in [Callers -> Items \cup {Nil}]
  /\ errCount \in [Callers -> Nat]
  /\ list \in [Callers -> SUBSET Items]
  /\ wanted \in [Callers -> SUBSET Items]
  /\ caller \in [Callers -> CallerSteps]
  /\ worker \in [Callers -> [Items -> Worker]]
  /\ crashed \in BOOLEAN

Holding(c) == {i \in wanted[c] : worker[c][i].answer = "data"}

Failed(c) == \E i \in wanted[c] : worker[c][i].answer = "bad"

\* A call that returns no error has what was parsed of every page that had any,
\* and one that returns an error had one: neither a lost errCount++ nor a lost
\* append can turn a partial list of pages into a complete one (ddr_songs.go,
\* ddr_users.go). An error with no page at all comes from the first page. Of
\* what a page may itself leave out, see DdrSync's Shown.
ResultIsComplete ==
  \A c \in Callers :
    /\ caller[c] = "ok" => ~Failed(c) /\ list[c] = Holding(c)
    /\ caller[c] = "error" => Failed(c) \/ wanted[c] = {}

\* The requests that wait for an answer in the transports of clients never exceed
\* one Limit for each client that found no limiter: a client that found one
\* shares it, and no unit is given twice, although GenerateClient tests and sets
\* s without a lock. Requests for pictures ("image") go by no transport of a
\* client, and nothing bounds them.
LimiterBound ==
  Cardinality({w \in Workers : worker[w[1]][w[2]].pc = "sent"})
    <= Limit * Cardinality(limiters)

\* Every call returns unless the process dies: no unit of the limiter, lock or
\* WaitGroup count is left behind on any path of the goroutines.
Answered == \A c \in Callers : <>(crashed \/ caller[c] \in {"ok", "error"})

F == INSTANCE Fetch WITH
       answer <- [c \in Callers |-> [i \in Items |-> worker[c][i].answer]],
       result <- [c \in Callers |->
                    [status |-> CASE caller[c] = "wait"            -> "running"
                                  [] caller[c] \in {"ok", "error"} -> caller[c]
                                  [] OTHER                         -> "idle",
                     got |-> IF caller[c] \in {"ok", "error"} THEN list[c] ELSE {}]]

\* The functions do what Fetch says: the interleaved counting, appending and
\* waiting amounts to one atomic return of everything or of an error.
FetchSpec == F!Spec

-----------------------------------------------------------------------------
(* Why it does.                                                            *)

\* Before it spawns its goroutines, a caller has none and has found nothing.
Fresh(c) ==
  /\ wanted[c] = {} /\ list[c] = {} /\ errCount[c] = 0
  /\ appending[c] = Nil
  /\ worker[c] = [i \in Items |-> Off]

\* What the goroutine of a page has done so far, and what that left behind.
PageInv(c, i) ==
  LET w == worker[c][i] IN
  /\ w.pc # "off"
  /\ w.answer = "none" <=> w.pc \in {"cookies", "acquire", "queued", "sent"}
  /\ w.pc \in {"count", "counted"} => w.answer = "bad"
  /\ w.pc \in {"image", "lock", "append"} => w.answer = "data"
  /\ w.pc = "done" /\ w.answer = "bad" => errCount[c] > 0
  /\ i \in list[c] <=> w.pc = "done" /\ w.answer = "data"
  /\ w.pc = "append" <=> appending[c] = i
  /\ w.pc = "append" => w.copy = list[c]

CallInv(c) ==
  /\ caller[c] = "take" => s # Nil
  /\ caller[c] \notin {"check", "create", "take"} => limiter[c] # Nil
  /\ caller[c] \notin {"wait", "ok", "error"} => Fresh(c)
  /\ list[c] \subseteq wanted[c]
  /\ appending[c] \in wanted[c] \cup {Nil}
  /\ errCount[c] > 0 => Failed(c)
  /\ \A i \in Items \ wanted[c] : worker[c][i] = Off
  /\ \A i \in wanted[c] : PageInv(c, i)
  /\ caller[c] \in {"ok", "error"} => \A i \in wanted[c] : worker[c][i].pc = "done"
  /\ caller[c] = "ok" => errCount[c] = 0
  /\ caller[c] = "error" => errCount[c] > 0 \/ wanted[c] = {}

FanOutInv == TypeOK /\ \A c \in Callers : CallInv(c)

\* Whoever has sent a client's request and has no answer holds a unit of its limiter.
LimiterInv ==
  /\ IsFiniteSet(limiters) /\ s \in limiters \cup {Nil}
  /\ \A c \in Callers : limiter[c] \in limiters \cup {Nil}
  /\ \A l \in Callers :
       /\ held[l] = {w \in Workers : worker[w[1]][w[2]].pc = "sent" /\ limiter[w[1]] = l}
       /\ IsFiniteSet(held[l]) /\ Cardinality(held[l]) <= Limit

=============================================================================
