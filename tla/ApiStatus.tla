------------------------------ MODULE ApiStatus ------------------------------
(***************************************************************************)
(* Status of common/gate.go: the state of the database and of the site,    *)
(* kept in three variables of the package that every request reads and     *)
(* writes without a lock, and renewed at most every Period.                *)
(***************************************************************************)
EXTENDS Naturals

CONSTANTS
  Readers,    \* goroutines that serve GET /status
  Period,     \* seconds for which the state counts as known
  CheckTime,  \* assumption: seconds that the two checks of a request may take
  MaxNow      \* bound: the clock stops there

ASSUME StatusAssumption == Period \in Nat /\ CheckTime \in Nat /\ MaxNow \in Nat

SiteStates == {"up", "maintenance", "unreachable"}

VARIABLES
  now,         \* seconds
  site,        \* the state of the site
  dbUp,        \* the database answers
  nextUpdate, cachedDb, cachedGate,  \* the package's variables
  dbAt,        \* when the value of cachedDb was true; history
  gateSeen,    \* what the last request to the site found; history
  reader       \* the local variables of each goroutine

statusVars == <<now, site, dbUp, nextUpdate, cachedDb, cachedGate, dbAt, gateSeen,
                reader>>

ReaderSteps == {"none", "check", "renew", "ping", "pinged", "page", "loaded", "answer"}

(***************************************************************************)
(* result: what the check under way found.  checked, renewed: when the     *)
(* goroutine compared and set nextUpdate.  seenAt: when its ping was       *)
(* answered. The times are history.                                        *)
(***************************************************************************)
Reader == [pc : ReaderSteps, result : BOOLEAN, checked : Nat, renewed : Nat, seenAt : Nat]

NoReader == [pc |-> "none", result |-> FALSE, checked |-> 0, renewed |-> 0, seenAt |-> 0]

StatusTypeOK ==
  /\ now \in Nat /\ nextUpdate \in Nat /\ dbAt \in Nat
  /\ site \in SiteStates /\ gateSeen \in SiteStates
  /\ dbUp \in BOOLEAN /\ cachedDb \in BOOLEAN /\ cachedGate \in BOOLEAN
  /\ reader \in [Readers -> Reader]

StatusInit ==
  /\ now = 1 /\ site = "up" /\ dbUp = TRUE
  /\ nextUpdate = 0 /\ cachedDb = FALSE /\ cachedGate = FALSE
  /\ dbAt = 0 /\ gateSeen = "maintenance"
  /\ reader = [p \in Readers |-> NoReader]

ReaderAt(p, step) == reader[p].pc = step

Move(p, step) == reader' = [reader EXCEPT ![p].pc = step]

cache == <<nextUpdate, cachedDb, cachedGate, dbAt, gateSeen>>
world == <<now, site, dbUp>>

-----------------------------------------------------------------------------
(* The world outside.                                                      *)

\* The goroutines between setting nextUpdate and storing the database's state.
Pinging == {p \in Readers : reader[p].pc \in {"ping", "pinged"}}

\* Nothing in the code bounds the time of a check, so CheckTime is an assumption.
Second ==
  /\ now < MaxNow
  /\ \A p \in Pinging : now < reader[p].renewed + CheckTime
  /\ now' = now + 1
  /\ UNCHANGED <<site, dbUp, cache, reader>>

SiteTurns(s) ==
  /\ s # site
  /\ site' = s
  /\ UNCHANGED <<now, dbUp, cache, reader>>

DbTurns ==
  /\ dbUp' = ~dbUp
  /\ UNCHANGED <<now, site, cache, reader>>

-----------------------------------------------------------------------------
(* The handler.                                                            *)

StartStatus(p) ==
  /\ ReaderAt(p, "none")
  /\ Move(p, "check")
  /\ UNCHANGED <<world, cache>>

\* Bug: the state counts as known for longer whenever somebody asks for it.
CheckStatusSliding(p) ==
  /\ ReaderAt(p, "check")
  /\ reader' = [reader EXCEPT ![p].checked = now,
                              ![p].pc = IF nextUpdate < now THEN "renew" ELSE "answer"]
  /\ nextUpdate' = IF nextUpdate < now THEN nextUpdate ELSE now + Period
  /\ UNCHANGED <<world, cachedDb, cachedGate, dbAt, gateSeen>>

\* A time is compared by one word of memory, but for the zero time: a read during the
\* first store may find any time.
HalfNextUpdate == nextUpdate = 0 /\ \E q \in Readers : ReaderAt(q, "renew")

CheckStatus(p) ==
  /\ ReaderAt(p, "check")
  /\ \E step \in {"renew", "answer"} :
       /\ (step = "renew" <=> nextUpdate < now) \/ HalfNextUpdate
       /\ reader' = [reader EXCEPT ![p].checked = now, ![p].pc = step]
  /\ UNCHANGED <<world, cache>>

\* Bug: the period is added to the time of the update before.
SetNextUpdateBySteps(p) ==
  /\ ReaderAt(p, "renew")
  /\ nextUpdate' = nextUpdate + Period
  /\ reader' = [reader EXCEPT ![p].pc = "ping", ![p].renewed = now]
  /\ UNCHANGED <<world, cachedDb, cachedGate, dbAt, gateSeen>>

\* Before the checks: whoever asks now gets the values that are there.
SetNextUpdate(p) ==
  /\ ReaderAt(p, "renew")
  /\ nextUpdate' = now + Period
  /\ reader' = [reader EXCEPT ![p].pc = "ping", ![p].renewed = now]
  /\ UNCHANGED <<world, cachedDb, cachedGate, dbAt, gateSeen>>

Ping(p) ==
  /\ ReaderAt(p, "ping")
  /\ reader' = [reader EXCEPT ![p].pc = "pinged", ![p].result = dbUp, ![p].seenAt = now]
  /\ UNCHANGED <<world, cache>>

StoreDb(p) ==
  /\ ReaderAt(p, "pinged")
  /\ cachedDb' = reader[p].result /\ dbAt' = reader[p].seenAt
  /\ Move(p, "page")
  /\ UNCHANGED <<world, nextUpdate, cachedGate, gateSeen>>

\* IsMaintenanceMode. Without an answer GetPageContentAsGoQuery dereferences nil:
\* net/http recovers the panic and the request is over.
LoadGate(p) ==
  /\ ReaderAt(p, "page")
  /\ gateSeen' = site
  /\ \/ /\ site # "unreachable"
        /\ reader' = [reader EXCEPT ![p].pc = "loaded", ![p].result = site = "up"]
     \/ site = "unreachable" /\ reader' = [reader EXCEPT ![p] = NoReader]
  /\ UNCHANGED <<world, nextUpdate, cachedDb, cachedGate, dbAt>>

StoreGate(p) ==
  /\ ReaderAt(p, "loaded")
  /\ cachedGate' = reader[p].result
  /\ Move(p, "answer")
  /\ UNCHANGED <<world, nextUpdate, cachedDb, dbAt, gateSeen>>

AnswerStatus(p) ==
  /\ ReaderAt(p, "answer")
  /\ reader' = [reader EXCEPT ![p] = NoReader]
  /\ UNCHANGED <<world, cache>>

StatusStep(p) ==
  \/ StartStatus(p) \/ CheckStatus(p) \/ SetNextUpdate(p)
  \/ Ping(p) \/ StoreDb(p) \/ LoadGate(p) \/ StoreGate(p) \/ AnswerStatus(p)

StatusNext ==
  \/ Second \/ DbTurns
  \/ \E s \in SiteStates : SiteTurns(s)
  \/ \E p \in Readers : StatusStep(p)

StatusSpec == StatusInit /\ [][StatusNext]_statusVars

-----------------------------------------------------------------------------

\* However many requests renew the state at the same time, and store what they
\* found in whatever order, an answer tells of a database that was in this state at
\* most a period and a check ago, unless a check is under way just now or the first
\* one begins.
StatusIsRecent ==
  \A p \in Readers :
    ReaderAt(p, "answer") =>
      \/ dbAt + CheckTime + Period >= reader[p].checked
      \/ Pinging # {} \/ HalfNextUpdate

\* Why: the last request to set nextUpdate is still checking, or what the variable
\* holds was found at most a check before it did.
StatusInv ==
  /\ StatusTypeOK
  /\ nextUpdate <= now + Period
  /\ nextUpdate # 0 =>
       \/ dbAt + CheckTime + Period >= nextUpdate
       \/ \E p \in Pinging : reader[p].renewed + Period = nextUpdate
  /\ \A p \in Readers :
       /\ reader[p].checked <= now
       /\ p \in Pinging => /\ reader[p].renewed <= now
                           /\ now <= reader[p].renewed + CheckTime
       /\ ReaderAt(p, "pinged") => reader[p].seenAt >= reader[p].renewed
       /\ reader[p].pc \in {"ping", "pinged", "page", "loaded"} =>
            nextUpdate >= reader[p].checked
       /\ ReaderAt(p, "answer") => nextUpdate >= reader[p].checked \/ HalfNextUpdate

\* "This will return false if either a connection cannot be formed with eagate or
\* maintenance mode is active" (common/gate.go): no answer says that the site is
\* well when the last request to it had no answer.
UnreachableIsBad ==
  \A p \in Readers :
    ReaderAt(p, "answer") /\ gateSeen = "unreachable" => ~cachedGate

=============================================================================
