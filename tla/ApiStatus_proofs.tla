--------------------------- MODULE ApiStatus_proofs ---------------------------
(***************************************************************************)
(* Proofs for ApiStatus: its inductive invariant, and how old an answer    *)
(* may be.                                                                 *)
(***************************************************************************)
EXTENDS ApiStatus, TLAPS

LEMMA StatusInitially == StatusInit => StatusInv
<1> SUFFICES ASSUME StatusInit PROVE StatusInv
  OBVIOUS
<1>1. NoReader \in Reader
  BY DEF NoReader, Reader, ReaderSteps
<1>2. StatusTypeOK
  BY <1>1 DEF StatusInit, StatusTypeOK, SiteStates
<1>3. \A p \in Readers : reader[p] = NoReader
  BY DEF StatusInit
<1> QED
  BY <1>2, <1>3, StatusAssumption DEF StatusInit, StatusInv, NoReader, Pinging, ReaderAt

(***************************************************************************)
(* Each action keeps the type of every variable.                           *)
(***************************************************************************)
LEMMA StatusTypeKept == StatusTypeOK /\ [StatusNext]_statusVars => StatusTypeOK'
<1> USE StatusAssumption
<1> SUFFICES ASSUME StatusTypeOK, [StatusNext]_statusVars PROVE StatusTypeOK'
  OBVIOUS
<1>1. CASE Second
  BY <1>1 DEF Second, cache, StatusTypeOK
<1>2. CASE DbTurns
  BY <1>2 DEF DbTurns, cache, StatusTypeOK
<1>3. ASSUME NEW s \in SiteStates, SiteTurns(s) PROVE StatusTypeOK'
  BY <1>3 DEF SiteTurns, cache, StatusTypeOK
<1>4. ASSUME NEW p \in Readers, StatusStep(p) PROVE StatusTypeOK'
  <2>c. reader[p] \in Reader
    BY DEF StatusTypeOK
  <2>g. \A step \in ReaderSteps : Move(p, step) => reader' \in [Readers -> Reader]
    BY DEF Move, StatusTypeOK, Reader
  <2>n. NoReader \in Reader
    BY DEF NoReader, Reader, ReaderSteps
  <2>1. CASE StartStatus(p)
    BY <2>1, <2>g DEF StartStatus, world, cache, StatusTypeOK, ReaderSteps
  <2>2. CASE CheckStatus(p)
    <3>1. PICK step \in {"renew", "answer"} :
            reader' = [reader EXCEPT ![p].checked = now, ![p].pc = step]
      BY <2>2 DEF CheckStatus
    <3>2. [reader[p] EXCEPT !.checked = now, !.pc = step] \in Reader
      BY <2>c DEF StatusTypeOK, Reader, ReaderSteps
    <3>3. reader' = [reader EXCEPT ![p] = [reader[p] EXCEPT !.checked = now, !.pc = step]]
      BY <3>1 DEF StatusTypeOK
    <3> QED
      BY <2>2, <3>2, <3>3 DEF CheckStatus, world, cache, StatusTypeOK
  <2>3. CASE SetNextUpdate(p)
    <3>1. [reader[p] EXCEPT !.pc = "ping", !.renewed = now] \in Reader
      BY <2>c DEF StatusTypeOK, Reader, ReaderSteps
    <3>2. reader' = [reader EXCEPT ![p] = [reader[p] EXCEPT !.pc = "ping", !.renewed = now]]
      BY <2>3 DEF SetNextUpdate, StatusTypeOK
    <3> QED
      BY <2>3, <3>1, <3>2 DEF SetNextUpdate, world, StatusTypeOK
  <2>4. CASE Ping(p)
    <3>1. [reader[p] EXCEPT !.pc = "pinged", !.result = dbUp, !.seenAt = now] \in Reader
      BY <2>c DEF StatusTypeOK, Reader, ReaderSteps
    <3>2. reader' = [reader EXCEPT ![p] = [reader[p] EXCEPT !.pc = "pinged",
                                                            !.result = dbUp, !.seenAt = now]]
      BY <2>4 DEF Ping, StatusTypeOK
    <3> QED
      BY <2>4, <3>1, <3>2 DEF Ping, world, cache, StatusTypeOK
  <2>5. CASE StoreDb(p)
    BY <2>5, <2>c, <2>g DEF StoreDb, world, StatusTypeOK, Reader, ReaderSteps
  <2>6. CASE LoadGate(p)
    <3>1. reader' \in [Readers -> Reader]
      BY <2>6, <2>n DEF LoadGate, StatusTypeOK, Reader, ReaderSteps
    <3> QED
      BY <2>6, <3>1 DEF LoadGate, world, StatusTypeOK
  <2>7. CASE StoreGate(p)
    BY <2>7, <2>c, <2>g DEF StoreGate, world, StatusTypeOK, Reader, ReaderSteps
  <2>8. CASE AnswerStatus(p)
    BY <2>8, <2>n DEF AnswerStatus, world, cache, StatusTypeOK
  <2> QED
    BY <1>4, <2>1, <2>2, <2>3, <2>4, <2>5, <2>6, <2>7, <2>8 DEF StatusStep
<1>5. CASE UNCHANGED statusVars
  BY <1>5 DEF statusVars, StatusTypeOK
<1> QED
  BY <1>1, <1>2, <1>3, <1>4, <1>5 DEF StatusNext

-----------------------------------------------------------------------------
(* The inductive step, one conjunct of the invariant at a time.            *)

\* The value stored is as recent as the last update, or that is still under way.
Covered == nextUpdate # 0 =>
             \/ dbAt + CheckTime + Period >= nextUpdate
             \/ \E p \in Pinging : reader[p].renewed + Period = nextUpdate

\* What each goroutine remembers of the clock.
Timely(p) ==
  /\ reader[p].checked <= now
  /\ p \in Pinging => /\ reader[p].renewed <= now
                      /\ now <= reader[p].renewed + CheckTime
  /\ ReaderAt(p, "pinged") => reader[p].seenAt >= reader[p].renewed
  /\ reader[p].pc \in {"ping", "pinged", "page", "loaded"} =>
       nextUpdate >= reader[p].checked
  /\ ReaderAt(p, "answer") => nextUpdate >= reader[p].checked \/ HalfNextUpdate

LEMMA StatusInvParts ==
  StatusInv <=> /\ StatusTypeOK /\ nextUpdate <= now + Period /\ Covered
                /\ \A p \in Readers : Timely(p)
  BY DEF StatusInv, Covered, Timely

\* A goroutine that the step of another leaves alone stays timely, if the clock and
\* nextUpdate do not go back.
LEMMA TimelyKept ==
  ASSUME NEW p \in Readers, StatusTypeOK, StatusTypeOK', Timely(p),
         reader'[p] = reader[p], now' = now, nextUpdate' >= nextUpdate,
         HalfNextUpdate => HalfNextUpdate' \/ nextUpdate' >= now
  PROVE  Timely(p)'
<1>1. /\ now \in Nat /\ nextUpdate \in Nat /\ nextUpdate' \in Nat
      /\ reader[p].checked \in Nat
  BY DEF StatusTypeOK, Reader
<1>2. p \in Pinging' <=> p \in Pinging
  BY DEF Pinging
<1> QED
  BY <1>1, <1>2 DEF Timely, ReaderAt

LEMMA StatusStepKept == StatusInv /\ [StatusNext]_statusVars => StatusInv'
<1> USE StatusAssumption
<1> SUFFICES ASSUME StatusInv, [StatusNext]_statusVars PROVE StatusInv'
  OBVIOUS
<1>t. StatusTypeOK /\ StatusTypeOK'
  BY StatusTypeKept, StatusInvParts
<1>i. nextUpdate <= now + Period /\ Covered /\ \A p \in Readers : Timely(p)
  BY StatusInvParts
<1>n. /\ now \in Nat /\ nextUpdate \in Nat /\ dbAt \in Nat
      /\ reader \in [Readers -> Reader]
  BY <1>t DEF StatusTypeOK
<1>r. \A p \in Readers : reader[p].renewed \in Nat /\ reader[p].seenAt \in Nat
                         /\ reader[p].checked \in Nat
  BY <1>n DEF Reader
<1>g. SUFFICES (nextUpdate <= now + Period)' /\ Covered' /\ \A p \in Readers : Timely(p)'
  BY <1>t DEF StatusInv, Covered, Timely
<1>1. CASE Second
  <2>1. Pinging' = Pinging
    BY <1>1 DEF Second, Pinging
  <2>2. \A p \in Readers : Timely(p)'
    BY <1>1, <1>i, <1>n, <1>r, <2>1 DEF Second, cache, Timely, ReaderAt, HalfNextUpdate
  <2> QED
    BY <1>1, <1>i, <1>n, <2>1, <2>2 DEF Second, cache, Covered
<1>2. CASE DbTurns
  BY <1>2, <1>i, <1>t, <1>n, TimelyKept DEF DbTurns, cache, Covered, Pinging,
                                            HalfNextUpdate, ReaderAt
<1>3. ASSUME NEW s \in SiteStates, SiteTurns(s)
      PROVE (nextUpdate <= now + Period)' /\ Covered' /\ \A p \in Readers : Timely(p)'
  BY <1>3, <1>i, <1>t, <1>n, TimelyKept DEF SiteTurns, cache, Covered, Pinging,
                                            HalfNextUpdate, ReaderAt
<1>4. ASSUME NEW p \in Readers, StatusStep(p)
      PROVE (nextUpdate <= now + Period)' /\ Covered' /\ \A q \in Readers : Timely(q)'
  <2>c. reader[p] \in Reader
    BY <1>n
  <2>o. \A q \in Readers \ {p} : reader'[q] = reader[q]
    BY <1>4, <1>n DEF StatusStep, StartStatus, CheckStatus, SetNextUpdate, Ping, StoreDb,
                      LoadGate, StoreGate, AnswerStatus, Move
  <2>w. now' = now
    BY <1>4 DEF StatusStep, StartStatus, CheckStatus, SetNextUpdate, Ping, StoreDb,
                LoadGate, StoreGate, AnswerStatus, world
  <2>m. nextUpdate' >= nextUpdate /\ nextUpdate' <= now' + Period
    BY <1>4, <1>i, <1>n DEF StatusStep, StartStatus, CheckStatus, SetNextUpdate, Ping,
                StoreDb, LoadGate, StoreGate, AnswerStatus, world, cache
  \* The goroutine about to store the first time is still there, or has stored it.
  <2>h. HalfNextUpdate => HalfNextUpdate' \/ nextUpdate' >= now
    <3> SUFFICES ASSUME nextUpdate = 0, NEW q \in Readers, ReaderAt(q, "renew")
                 PROVE  HalfNextUpdate' \/ nextUpdate' >= now
      BY DEF HalfNextUpdate
    <3>1. CASE SetNextUpdate(p)
      BY <3>1, <1>n DEF SetNextUpdate
    <3>2. CASE ~SetNextUpdate(p)
      <4>1. nextUpdate' = 0
        BY <1>4, <3>2 DEF StatusStep, StartStatus, CheckStatus, Ping, StoreDb,
                          LoadGate, StoreGate, AnswerStatus, cache
      <4>2. q # p
        BY <1>4, <3>2 DEF StatusStep, StartStatus, CheckStatus, Ping, StoreDb,
                          LoadGate, StoreGate, AnswerStatus, ReaderAt
      <4> QED
        BY <4>1, <4>2, <2>o DEF HalfNextUpdate, ReaderAt
    <3> QED
      BY <3>1, <3>2
  <2>q. \A q \in Readers \ {p} : Timely(q)'
    BY <2>o, <2>w, <2>m, <2>h, <1>t, <1>i, TimelyKept
  \* A step that is not about the database leaves Covered as it is.
  <2>k. ASSUME nextUpdate' = nextUpdate, dbAt' = dbAt, p \notin Pinging
        PROVE  Covered'
    BY <2>k, <2>o, <1>i DEF Covered, Pinging
  <2>1. CASE StartStatus(p)
    <3>1. Covered'
      BY <2>1, <2>k DEF StartStatus, cache, Pinging, ReaderAt
    <3>2. Timely(p)'
      BY <2>1, <2>w, <1>i, <1>n DEF StartStatus, Move, cache, Timely, Pinging, ReaderAt, Reader
    <3> QED
      BY <2>m, <2>q, <3>1, <3>2
  <2>2. CASE CheckStatus(p)
    <3>1. Covered'
      BY <2>2, <2>k DEF CheckStatus, cache, Pinging, ReaderAt
    <3>2. PICK step \in {"renew", "answer"} :
            /\ (step = "renew" <=> nextUpdate < now) \/ HalfNextUpdate
            /\ reader' = [reader EXCEPT ![p].checked = now, ![p].pc = step]
      BY <2>2 DEF CheckStatus
    <3>3. reader'[p].pc = step /\ reader'[p].checked = now /\ nextUpdate' = nextUpdate
      BY <2>2, <3>2, <1>n DEF CheckStatus, cache, Reader
    <3>4. step = "renew" \/ nextUpdate' >= now \/ HalfNextUpdate'
      BY <2>h, <3>2, <3>3, <1>n
    <3>5. Timely(p)'
      BY <2>w, <3>3, <3>4, <1>n DEF Timely, Pinging, ReaderAt
    <3> QED
      BY <2>m, <2>q, <3>1, <3>5
  <2>3. CASE SetNextUpdate(p)
    <3>1. reader'[p].pc = "ping" /\ reader'[p].renewed = now /\ nextUpdate' = now + Period
          /\ reader'[p].checked = reader[p].checked
      BY <2>3, <1>n DEF SetNextUpdate, Reader
    <3>2. Covered'
      BY <3>1 DEF Covered, Pinging
    <3>3. reader[p].checked <= now
      BY <1>i DEF Timely
    <3>4. Timely(p)'
      BY <2>w, <3>1, <3>3, <1>n, <1>r DEF Timely, Pinging, ReaderAt
    <3> QED
      BY <2>m, <2>q, <3>2, <3>4
  <2>4. CASE Ping(p)
    <3>1. /\ reader'[p].pc = "pinged" /\ reader'[p].renewed = reader[p].renewed
          /\ reader'[p].seenAt = now /\ reader'[p].checked = reader[p].checked
          /\ reader[p].pc = "ping"
      BY <2>4, <1>n DEF Ping, Reader, ReaderAt
    <3>2. nextUpdate' = nextUpdate /\ dbAt' = dbAt
      BY <2>4 DEF Ping, cache
    <3>3. Covered'
      BY <3>1, <3>2, <2>o, <1>i DEF Covered, Pinging
    <3>4. Timely(p)'
      BY <3>1, <3>2, <2>w, <1>i, <1>n, <1>r DEF Timely, Pinging, ReaderAt
    <3> QED
      BY <2>m, <2>q, <3>3, <3>4
  <2>5. CASE StoreDb(p)
    <3>1. /\ reader'[p].pc = "page" /\ reader'[p].checked = reader[p].checked
          /\ reader[p].pc = "pinged" /\ dbAt' = reader[p].seenAt
          /\ nextUpdate' = nextUpdate
      BY <2>5, <1>n DEF StoreDb, Move, Reader, ReaderAt
    <3>2. /\ reader[p].seenAt >= reader[p].renewed
          /\ now <= reader[p].renewed + CheckTime
      BY <3>1, <1>i DEF Timely, Pinging, ReaderAt
    \* Whoever stores found it at most a check ago: after the last update at least.
    <3>3. dbAt' + CheckTime + Period >= nextUpdate'
      BY <3>1, <3>2, <1>i, <1>n, <1>r
    <3>4. Timely(p)'
      BY <3>1, <2>w, <1>i, <1>n, <1>r DEF Timely, Pinging, ReaderAt
    <3> QED
      BY <2>m, <2>q, <3>3, <3>4 DEF Covered
  <2>6. CASE LoadGate(p)
    <3>1. Covered'
      BY <2>6, <2>k DEF LoadGate, Pinging, ReaderAt
    <3>2. CASE reader' = [reader EXCEPT ![p].pc = "loaded", ![p].result = site = "up"]
      <4>1. reader'[p].pc = "loaded" /\ reader'[p].checked = reader[p].checked
        BY <3>2, <1>n DEF Reader
      <4>2. Timely(p)'
        BY <2>6, <4>1, <2>w, <1>i DEF LoadGate, Timely, Pinging, ReaderAt
      <4> QED
        BY <2>m, <2>q, <3>1, <4>2
    <3>3. CASE reader' = [reader EXCEPT ![p] = NoReader]
      <4>1. Timely(p)'
        BY <3>3, <2>w, <1>n DEF Timely, NoReader, Pinging, ReaderAt
      <4> QED
        BY <2>m, <2>q, <3>1, <4>1
    <3> QED
      BY <2>6, <3>2, <3>3 DEF LoadGate
  <2>7. CASE StoreGate(p)
    <3>1. Covered'
      BY <2>7, <2>k DEF StoreGate, Pinging, ReaderAt
    <3>2. reader'[p].pc = "answer" /\ reader'[p].checked = reader[p].checked
      BY <2>7, <1>n DEF StoreGate, Move, Reader
    <3>3. Timely(p)'
      BY <2>7, <3>2, <2>w, <1>i DEF StoreGate, Timely, Pinging, ReaderAt
    <3> QED
      BY <2>m, <2>q, <3>1, <3>3
  <2>8. CASE AnswerStatus(p)
    <3>1. Covered'
      BY <2>8, <2>k DEF AnswerStatus, cache, Pinging, ReaderAt
    <3>2. Timely(p)'
      BY <2>8, <2>w, <1>n DEF AnswerStatus, Timely, NoReader, Pinging, ReaderAt
    <3> QED
      BY <2>m, <2>q, <3>1, <3>2
  <2> QED
    BY <1>4, <2>1, <2>2, <2>3, <2>4, <2>5, <2>6, <2>7, <2>8 DEF StatusStep
<1>5. CASE UNCHANGED statusVars
  BY <1>5, <1>i, <1>t, <1>n, TimelyKept DEF statusVars, Covered, Pinging,
                                            HalfNextUpdate, ReaderAt
<1> QED
  BY <1>1, <1>2, <1>3, <1>4, <1>5 DEF StatusNext

-----------------------------------------------------------------------------

\* The inductive invariant of the status cache, for any number of requests and any
\* period, with its variables written in whatever order (Status).
THEOREM StatusInvariant == StatusSpec => []StatusInv
<1> QED
  BY StatusInitially, StatusStepKept, PTL DEF StatusSpec

\* No answer tells of a database older than a period and a check, unless a check is
\* under way.
THEOREM AnswersAreRecent == StatusSpec => []StatusIsRecent
<1>1. StatusInv => StatusIsRecent
  <2> SUFFICES ASSUME StatusInv, NEW p \in Readers, ReaderAt(p, "answer"), Pinging = {},
                      ~HalfNextUpdate
               PROVE  dbAt + CheckTime + Period >= reader[p].checked
    BY DEF StatusIsRecent
  <2>1. /\ dbAt \in Nat /\ nextUpdate \in Nat /\ reader[p].checked \in Nat
    BY DEF StatusInv, StatusTypeOK, Reader
  <2>2. Covered /\ nextUpdate >= reader[p].checked
    BY StatusInvParts DEF Timely, ReaderAt
  <2> QED
    BY <2>1, <2>2, StatusAssumption DEF Covered
<1> QED
  BY StatusInvariant, <1>1, PTL

=============================================================================
