--------------------------- MODULE DrsSync_proofs -----------------------------
(***************************************************************************)
(* Proofs for DrsSync: its inductive invariant, and what a refresh leaves  *)
(* in the tables.                                                          *)
(***************************************************************************)
EXTENDS DrsSync, WellFoundedInduction, TLAPS

-----------------------------------------------------------------------------
(* Choices.                                                                *)

LEMMA NewestIsLast ==
  ASSUME NEW plays \in SUBSET Plays, plays # {}
  PROVE  Newest(plays) \in plays /\ \A j \in plays : j <= Newest(plays)
<1> DEFINE S == {n \in Nat : n <= MaxPlays /\ MaxPlays - n \in plays}
<1>1. \A i \in plays : i \in Nat /\ i <= MaxPlays /\ MaxPlays - i \in S
  BY DrsAssumption DEF Plays
<1>2. S \in SUBSET Nat /\ S # {}
  BY <1>1
<1> HIDE DEF S
<1>3. PICK n \in S : \A m \in S : n <= m
  <2> DEFINE Less == {pair \in Nat \X Nat : pair[1] < pair[2]}
  <2>1. IsWellFoundedOn(Less, Nat)
    BY NatLessThanWellFounded DEF OpToRel
  <2>2. PICK n \in S : \A m \in S : <<m, n>> \notin Less
    BY <1>2, <2>1, WFMin
  <2>3. \A m \in S : ~(m < n)
    BY <1>2, <2>2
  <2> QED
    BY <1>2, <2>3
<1>4. n \in Nat /\ n <= MaxPlays /\ MaxPlays - n \in plays
  BY <1>3 DEF S
<1>5. \A j \in plays : j <= MaxPlays - n
  <2> SUFFICES ASSUME NEW j \in plays PROVE j <= MaxPlays - n
    OBVIOUS
  <2>1. n <= MaxPlays - j
    BY <1>1, <1>3
  <2> QED
    BY <1>1, <1>4, <2>1, DrsAssumption
<1>6. \E i \in plays : \A j \in plays : j <= i
  BY <1>4, <1>5
<1> QED
  BY <1>6 DEF Newest

LEMMA BestIsPast ==
  ASSUME DrsTypeOK, NEW c \in Charts
  PROVE  /\ Best[c] \in 0..MaxPlays
         /\ Best[c] # 0 => Best[c] \in Plays /\ LastOf(c, Best[c])
<1>1. CASE \E i \in Plays : LastOf(c, i)
  <2>1. Best[c] = CHOOSE i \in Plays : LastOf(c, i)
    BY <1>1 DEF Best
  <2>2. Best[c] \in Plays /\ LastOf(c, Best[c])
    BY <1>1, <2>1
  <2> QED
    BY <2>2, DrsAssumption DEF Plays
<1>2. CASE ~\E i \in Plays : LastOf(c, i)
  <2>1. Best[c] = 0
    BY <1>2 DEF Best
  <2> QED
    BY <2>1, DrsAssumption
<1> QED
  BY <1>1, <1>2

LEMMA StoredFacts ==
  ASSUME NEW rows, NEW storable, NEW stored \in Stored(rows, storable)
  PROVE  stored \subseteq rows /\ stored \subseteq storable
<1>1. CASE rows \subseteq storable
  BY <1>1 DEF Stored
<1>2. CASE ~(rows \subseteq storable)
  BY <1>2 DEF Stored
<1> QED
  BY <1>1, <1>2

-----------------------------------------------------------------------------
(* Types.                                                                  *)

PCs == Documents \cup Statements \cup {"none", "answer"}

LEMMA DrsConstants ==
  /\ NoPlays \in [Charts -> 0..MaxPlays] /\ NoWork \in Work
  /\ (CHOOSE c \in Charts : TRUE) \in Charts
<1>1. NoPlays \in [Charts -> 0..MaxPlays]
  BY DrsAssumption DEF NoPlays
<1>2. NoWork \in Work
  BY <1>1, DrsAssumption DEF NoWork, Work
<1> QED
  BY <1>1, <1>2, DrsAssumption

\* Step changes pc and clean only.
LEMMA StepFields ==
  ASSUME work \in [Refreshes -> Work], NEW p \in Refreshes, NEW next \in PCs,
         NEW rows, NEW storable, NEW stored, Step(p, next, rows, storable, stored)
  PROVE  /\ work' \in [Refreshes -> Work]
         /\ work'[p].pc = next /\ work'[p].count = work[p].count
         /\ work'[p].seen = work[p].seen /\ work'[p].best = work[p].best
         /\ work'[p].fresh = work[p].fresh /\ work'[p].recent = work[p].recent
         /\ work'[p].crowded = work[p].crowded
         /\ work'[p].clean => work[p].clean
         /\ work'[p].clean /\ rows \subseteq storable => stored = rows
         /\ \A q \in Refreshes \ {p} : work'[q] = work[q]
<1> DEFINE kept == work[p].clean /\ (rows \subseteq storable => stored = rows)
<1>1. work[p] \in Work /\ kept \in BOOLEAN
  OBVIOUS
<1>2. work' = [work EXCEPT ![p] = [work[p] EXCEPT !.pc = next, !.clean = kept]]
  BY DEF Step, Put
<1> HIDE DEF kept
<1>3. [work[p] EXCEPT !.pc = next, !.clean = kept] \in Work
  BY <1>1 DEF Work, PCs
<1>4. work'[p] = [work[p] EXCEPT !.pc = next, !.clean = kept]
  BY <1>2
<1>5. work'[p].clean = kept
  BY <1>1, <1>4 DEF Work
<1>6. /\ work'[p].pc = next /\ work'[p].count = work[p].count
      /\ work'[p].seen = work[p].seen /\ work'[p].best = work[p].best
      /\ work'[p].fresh = work[p].fresh /\ work'[p].recent = work[p].recent
      /\ work'[p].crowded = work[p].crowded
  BY <1>1, <1>4 DEF Work
<1>7. work' \in [Refreshes -> Work] /\ \A q \in Refreshes \ {p} : work'[q] = work[q]
  BY <1>2, <1>3
<1> QED
  BY <1>5, <1>6, <1>7 DEF kept

\* A document or the query puts a record in the goroutine's place.
LEMMA PutTypes ==
  ASSUME work \in [Refreshes -> Work], NEW p \in Refreshes, NEW w \in Work, Put(p, w)
  PROVE  /\ work' \in [Refreshes -> Work] /\ work'[p] = w
         /\ \A q \in Refreshes \ {p} : work'[q] = work[q]
  BY DEF Put

LEMMA StartTypes ==
  ASSUME work \in [Refreshes -> Work], NEW p \in Refreshes, StartRefresh(p)
  PROVE  /\ work' \in [Refreshes -> Work]
         /\ work'[p].pc = "login" /\ work'[p].count = 0 /\ work'[p].recent = {}
         /\ work'[p].best = NoPlays
         /\ \/ work'[p].crowded \/ \A q \in Refreshes \ {p} : ~Running(q)
         /\ \A q \in Refreshes \ {p} :
              /\ work'[q].pc = work[q].pc /\ work'[q].count = work[q].count
              /\ work'[q].seen = work[q].seen /\ work'[q].best = work[q].best
              /\ work'[q].fresh = work[q].fresh /\ work'[q].recent = work[q].recent
              /\ work'[q].clean = work[q].clean
              /\ Running(q) => work'[q].crowded
<1> DEFINE others == \E r \in Refreshes \ {p} : Running(r)
           crowded(q) == work[q].crowded \/ Running(q)
<1>1. work' = [q \in Refreshes |->
                 IF q = p THEN [NoWork EXCEPT !.pc = "login", !.crowded = others]
                 ELSE [work[q] EXCEPT !.crowded = crowded(q)]]
  BY Zenon DEF StartRefresh
<1>2. others \in BOOLEAN /\ \A q \in Refreshes : crowded(q) \in BOOLEAN /\ work[q] \in Work
  OBVIOUS
<1>3. others \/ \A q \in Refreshes \ {p} : ~Running(q)
  OBVIOUS
<1>4. \A q \in Refreshes : Running(q) => crowded(q)
  OBVIOUS
<1> HIDE DEF others, crowded
<1>5. work'[p] = [NoWork EXCEPT !.pc = "login", !.crowded = others]
  BY <1>1
<1>6. work'[p].crowded = others
  BY <1>5, <1>2 DEF NoWork
<1>7. /\ work'[p].pc = "login" /\ work'[p].count = 0 /\ work'[p].recent = {}
      /\ work'[p].best = NoPlays
  BY <1>5, <1>2 DEF NoWork
<1>8. work'[p] \in Work
  BY <1>5, <1>2, DrsConstants DEF Work, Documents
<1>9. ASSUME NEW q \in Refreshes \ {p}
      PROVE  /\ work'[q].pc = work[q].pc /\ work'[q].count = work[q].count
             /\ work'[q].seen = work[q].seen /\ work'[q].best = work[q].best
             /\ work'[q].fresh = work[q].fresh /\ work'[q].recent = work[q].recent
             /\ work'[q].clean = work[q].clean
             /\ Running(q) => work'[q].crowded
             /\ work'[q] \in Work
  <2>1. work'[q] = [work[q] EXCEPT !.crowded = crowded(q)]
    BY <1>1
  <2>2. work[q] \in Work /\ crowded(q) \in BOOLEAN
    BY <1>2
  <2>3. work'[q].crowded = crowded(q)
    BY <2>1, <2>2 DEF Work
  <2>4. work'[q] \in Work
    BY <2>1, <2>2 DEF Work
  <2>5. /\ work'[q].pc = work[q].pc /\ work'[q].count = work[q].count
        /\ work'[q].seen = work[q].seen /\ work'[q].best = work[q].best
        /\ work'[q].fresh = work[q].fresh /\ work'[q].recent = work[q].recent
        /\ work'[q].clean = work[q].clean
    BY <2>1, <2>2 DEF Work
  <2> QED
    BY <2>3, <2>4, <2>5, <1>4, Zenon
<1> QED
  BY <1>1, <1>3, <1>6, <1>7, <1>8, <1>9

LEMMA DrsTypeKept == DrsInv /\ [DrsNext]_drsVars => DrsTypeOK'
<1> SUFFICES ASSUME DrsInv, [DrsNext]_drsVars PROVE DrsTypeOK'
  OBVIOUS
<1>t. /\ DrsTypeOK /\ work \in [Refreshes -> Work] /\ MaxPlays \in Nat
      /\ \A p \in Refreshes : work[p] \in Work
  BY DrsAssumption DEF DrsInv, DrsTypeOK
<1>k. {"dancer", "music", "history", "details", "snapshot", "songs", "diffs", "known_stats",
       "stats", "scores", "answer"} \subseteq PCs
  BY DEF PCs, Documents, Statements
<1>w. ASSUME work' \in [Refreshes -> Work], UNCHANGED <<gameSite, drsTables>>
      PROVE  DrsTypeOK'
  BY <1>w, <1>t DEF DrsTypeOK, gameSite, drsTables
<1>1. ASSUME NEW s \in Songs, Release(s) PROVE DrsTypeOK'
  BY <1>1, <1>t DEF Release, DrsTypeOK, drsTables
<1>2. ASSUME NEW c \in Charts, PlayChart(c) PROVE DrsTypeOK'
  BY <1>2, <1>t DEF PlayChart, DrsTypeOK, drsTables, Plays
<1>3. ASSUME NEW p \in Refreshes, Refresh(p) PROVE DrsTypeOK'
  <2>n. ASSUME NEW w \in Work, Put(p, w) PROVE work' \in [Refreshes -> Work]
    BY <2>n, <1>t, PutTypes
  <2>r. work[p] \in Work
    BY <1>t
  <2>1. CASE StartRefresh(p)
    <3>1. UNCHANGED <<gameSite, drsTables>>
      BY <2>1, Zenon DEF StartRefresh
    <3> QED
      BY <2>1, <3>1, <1>w, <1>t, StartTypes
  <2>2. CASE CheckLogin(p)
    <3>1. [work[p] EXCEPT !.pc = "dancer"] \in Work
      BY <2>r, <1>k DEF Work, PCs
    <3> QED
      BY <2>2, <3>1, <2>n, <1>w, DrsConstants DEF CheckLogin, DocumentFails
  <2>3. CASE LoadDancerInfo(p)
    <3>1. \A n \in {played, 0} : [work[p] EXCEPT !.pc = "music", !.count = n] \in Work
      <4>1. played \in 0..MaxPlays /\ 0 \in 0..MaxPlays
        BY <1>t DEF DrsTypeOK
      <4> QED
        BY <2>r, <1>k, <4>1 DEF Work, PCs
    <3> QED
      BY <2>3, <3>1, <2>n, <1>w, DrsConstants DEF LoadDancerInfo, DocumentFails
  <2>4. CASE LoadMusicData(p)
    <3>1. Best \in [Charts -> 0..MaxPlays]
      <4>1. \A c \in Charts : Best[c] \in 0..MaxPlays
        BY <1>t, BestIsPast
      <4> QED
        BY <4>1 DEF Best
    <3>2. [work[p] EXCEPT !.pc = "history", !.seen = catalogue, !.best = Best] \in Work
      BY <3>1, <2>r, <1>k, <1>t DEF Work, PCs, DrsTypeOK
    <3> QED
      BY <2>4, <3>2, <2>n, <1>w, DrsConstants DEF LoadMusicData, DocumentFails
  <2>5. CASE LoadPlayHist(p)
    <3>1. InHistory \in SUBSET Plays
      BY DEF InHistory
    <3>2. [work[p] EXCEPT !.pc = "details", !.recent = InHistory] \in Work
      BY <3>1, <2>r, <1>k DEF Work, PCs
    <3> QED
      BY <2>5, <3>2, <2>n, <1>w, DrsConstants DEF LoadPlayHist, DocumentFails
  <2>6. CASE DropKnownStats(p)
    <3>1. ASSUME NEW fresh \in SUBSET Charts,
                 Put(p, [work[p] EXCEPT !.pc = "stats", !.fresh = fresh])
          PROVE  work' \in [Refreshes -> Work]
      <4>1. [work[p] EXCEPT !.pc = "stats", !.fresh = fresh] \in Work
        BY <2>r, <1>k DEF Work, PCs
      <4> QED
        BY <3>1, <4>1, <2>n
    <3>2. PICK fresh \in SUBSET Charts :
            Put(p, [work[p] EXCEPT !.pc = "stats", !.fresh = fresh])
      <4> DEFINE read == {c \in Charts : work[p].best[c] # 0}
                 new  == {c \in read : work[p].best[c] # statTable[c]}
      <4>1. read \in SUBSET Charts /\ new \in SUBSET Charts
        OBVIOUS
      <4>2. \/ Put(p, [work[p] EXCEPT !.pc = "stats", !.fresh = new])
            \/ Put(p, [work[p] EXCEPT !.pc = "stats", !.fresh = read])
        BY <2>6, Zenon DEF DropKnownStats
      <4> HIDE DEF read, new
      <4> QED
        BY <4>1, <4>2, Zenon
    <3>3. UNCHANGED <<gameSite, drsTables>>
      BY <2>6, Zenon DEF DropKnownStats
    <3> QED
      BY <3>1, <3>2, <3>3, <1>w, Zenon
  <2>7. CASE Answer(p)
    BY <2>7, <2>n, <1>w, DrsConstants DEF Answer
  <2>s. ASSUME NEW next \in PCs, NEW rows, NEW storable, NEW stored,
               Step(p, next, rows, storable, stored)
        PROVE  work' \in [Refreshes -> Work]
    BY <2>s, <1>t, StepFields
  <2>8. CASE AddPlayerDetails(p)
    <3>1. player' \in BOOLEAN
      BY <2>8 DEF AddPlayerDetails
    <3> QED
      BY <2>8, <3>1, <2>s, <1>k, <1>t DEF AddPlayerDetails, DrsTypeOK, gameSite
  <2>9. CASE AddPlayerProfileSnapshot(p)
    <3>1. \A n \in Plays : snapshots'[n] \in 0..MaxPlays
      <4> SUFFICES ASSUME NEW n \in Plays PROVE snapshots'[n] \in 0..MaxPlays
        OBVIOUS
      <4>1. snapshots'[n] = snapshots[n] \/ snapshots'[n] = Newest(work[p].recent)
        BY <2>9 DEF AddPlayerProfileSnapshot
      <4>2. PICK k \in work[p].recent : TRUE
        BY <2>9, <1>t DEF AddPlayerProfileSnapshot, WorkAt, DrsInv, ReadIsPast, Writing,
                          Statements
      <4>3. work[p].recent \in SUBSET Plays
        BY <1>t DEF Work
      <4>4. Newest(work[p].recent) \in Plays
        BY <4>2, <4>3, NewestIsLast
      <4> QED
        BY <4>1, <4>4, <1>t DEF DrsTypeOK, Plays
    <3>2. snapshots' \in [Plays -> 0..MaxPlays]
      BY <2>9, <3>1 DEF AddPlayerProfileSnapshot
    <3> QED
      BY <2>9, <3>2, <2>s, <1>k, <1>t DEF AddPlayerProfileSnapshot, DrsTypeOK, gameSite
  <2>10. CASE AddSongRows(p)
    <3>1. songTable' \subseteq Songs
      BY <2>10, <1>t, StoredFacts DEF AddSongRows, DrsTypeOK
    <3> QED
      BY <2>10, <3>1, <2>s, <1>k, <1>t DEF AddSongRows, DrsTypeOK, gameSite
  <2>11. CASE AddDifficultyRows(p)
    <3>1. work[p].seen \X Modes \subseteq Charts
      BY <1>t DEF Work, Charts
    <3>2. diffTable' \subseteq Charts
      BY <2>11, <3>1, <1>t, StoredFacts DEF AddDifficultyRows, DrsTypeOK
    <3> QED
      BY <2>11, <3>2, <2>s, <1>k, <1>t DEF AddDifficultyRows, DrsTypeOK, gameSite
  <2>12. CASE AddPlayerSongStats(p)
    <3>1. statTable' \in [Charts -> 0..MaxPlays]
      BY <2>12, <1>t DEF AddPlayerSongStats, DrsTypeOK, Work
    <3> QED
      BY <2>12, <3>1, <2>s, <1>k, <1>t DEF AddPlayerSongStats, DrsTypeOK, gameSite
  <2>13. CASE AddPlayerScores(p)
    <3>1. PICK stored \in Stored({chartOf[i] : i \in work[p].recent}, StorableCharts) :
            scoreTable' = [c \in Charts |->
              IF c \in stored /\ scoreTable[c] = 0
              THEN Newest(PlaysOf(work[p].recent, c)) ELSE scoreTable[c]]
      BY <2>13 DEF AddPlayerScores
    <3>2. \A c \in Charts : scoreTable'[c] \in 0..MaxPlays
      <4> SUFFICES ASSUME NEW c \in Charts, c \in stored
                   PROVE  Newest(PlaysOf(work[p].recent, c)) \in 0..MaxPlays
        BY <3>1, <1>t DEF DrsTypeOK
      <4>1. c \in {chartOf[i] : i \in work[p].recent}
        BY StoredFacts
      <4>2. PlaysOf(work[p].recent, c) \in SUBSET Plays /\ PlaysOf(work[p].recent, c) # {}
        BY <4>1, <1>t DEF PlaysOf, Work
      <4> QED
        BY <4>2, NewestIsLast, <1>t DEF Plays
    <3>3. scoreTable' \in [Charts -> 0..MaxPlays]
      BY <3>1, <3>2
    <3> QED
      BY <2>13, <3>3, <2>s, <1>k, <1>t DEF AddPlayerScores, DrsTypeOK, gameSite
  <2> QED
    BY <1>3, <2>1, <2>2, <2>3, <2>4, <2>5, <2>6, <2>7, <2>8, <2>9, <2>10, <2>11, <2>12,
       <2>13 DEF Refresh
<1>4. CASE UNCHANGED drsVars
  BY <1>4, <1>t DEF drsVars, gameSite, drsTables, DrsTypeOK
<1> QED
  BY <1>1, <1>2, <1>3, <1>4 DEF DrsNext

-----------------------------------------------------------------------------
(* What was read stays of the past, and what was stored stays there.       *)

Grows ==
  /\ played <= played'
  /\ \A i \in Plays : i <= played => chartOf'[i] = chartOf[i]
  /\ player => player'
  /\ songTable \subseteq songTable' /\ diffTable \subseteq diffTable'
  /\ \A n \in Plays : snapshots[n] # 0 => snapshots'[n] # 0
  /\ \A c \in Charts : scoreTable[c] # 0 => scoreTable'[c] # 0

LEMMA TablesGrow == DrsInv /\ [DrsNext]_drsVars => Grows
<1> SUFFICES ASSUME DrsInv, [DrsNext]_drsVars PROVE Grows
  OBVIOUS
<1>t. DrsTypeOK /\ played \in Nat /\ \A p \in Refreshes : work[p] \in Work
  BY DrsAssumption DEF DrsInv, DrsTypeOK
<1>u. UNCHANGED <<gameSite, drsTables>> => Grows
  BY <1>t DEF Grows, gameSite, drsTables
<1>1. ASSUME NEW s \in Songs, Release(s) PROVE Grows
  BY <1>1, <1>t DEF Release, Grows, drsTables
<1>2. ASSUME NEW c \in Charts, PlayChart(c) PROVE Grows
  BY <1>2, <1>t, DrsAssumption DEF PlayChart, Grows, drsTables, DrsTypeOK, Plays
<1>3. ASSUME NEW p \in Refreshes, Refresh(p) PROVE Grows
  <2>1. CASE \/ StartRefresh(p) \/ CheckLogin(p) \/ LoadDancerInfo(p) \/ LoadMusicData(p)
             \/ LoadPlayHist(p) \/ DropKnownStats(p) \/ Answer(p)
    <3>1. UNCHANGED <<gameSite, drsTables>>
      BY <2>1, Zenon DEF StartRefresh, CheckLogin, LoadDancerInfo, LoadMusicData,
                         LoadPlayHist, DropKnownStats, Answer
    <3> QED
      BY <3>1, <1>u
  <2>2. CASE AddPlayerDetails(p)
    <3>1. player => player'
      BY <2>2 DEF AddPlayerDetails
    <3>2. UNCHANGED <<gameSite, snapshots, songTable, diffTable, statTable, scoreTable>>
      BY <2>2, Zenon DEF AddPlayerDetails
    <3> QED
      BY <3>1, <3>2, <1>t DEF Grows, gameSite
  <2>3. CASE AddPlayerProfileSnapshot(p)
    <3>1. Newest(work[p].recent) \in Plays
      <4>1. PICK k \in work[p].recent : TRUE
        BY <2>3 DEF AddPlayerProfileSnapshot, WorkAt, DrsInv, ReadIsPast, Writing, Statements
      <4>2. work[p].recent \in SUBSET Plays
        BY <1>t DEF Work
      <4> QED
        BY <4>1, <4>2, NewestIsLast
    <3>2. Newest(work[p].recent) # 0
      BY <3>1, DrsAssumption DEF Plays
    <3> QED
      BY <2>3, <3>2, <1>t DEF AddPlayerProfileSnapshot, Grows, gameSite
  <2>4. CASE AddSongRows(p)
    BY <2>4, <1>t DEF AddSongRows, Grows, gameSite
  <2>5. CASE AddDifficultyRows(p)
    BY <2>5, <1>t DEF AddDifficultyRows, Grows, gameSite
  <2>6. CASE AddPlayerSongStats(p)
    BY <2>6, <1>t DEF AddPlayerSongStats, Grows, gameSite
  <2>7. CASE AddPlayerScores(p)
    <3>1. \A c \in Charts : scoreTable[c] # 0 => scoreTable'[c] = scoreTable[c]
      BY <2>7 DEF AddPlayerScores
    <3> QED
      BY <2>7, <3>1, <1>t DEF AddPlayerScores, Grows, gameSite
  <2> QED
    BY <1>3, <2>1, <2>2, <2>3, <2>4, <2>5, <2>6, <2>7 DEF Refresh
<1>4. CASE UNCHANGED drsVars
  BY <1>4, <1>u DEF drsVars
<1> QED
  BY <1>1, <1>2, <1>3, <1>4 DEF DrsNext

PastOK(q) == ReadIsPast(work[q]) /\ (work[q].clean => StoredIsThere(work[q]))

\* A step to another function, which has stored what that one promises.
LEMMA PastStep ==
  ASSUME DrsInv, DrsTypeOK', Grows, NEW q \in Refreshes,
         work'[q].count = work[q].count, work'[q].seen = work[q].seen,
         work'[q].best = work[q].best, work'[q].recent = work[q].recent,
         work'[q].pc \in Writing => work[q].pc \in Writing,
         work'[q].pc = "stats" => \A c \in work'[q].fresh : work'[q].best[c] # 0,
         work'[q].clean =>
           /\ work[q].clean
           /\ work'[q].pc \in PastDetails => work[q].pc \in PastDetails \/ player'
           /\ work'[q].pc \in PastSnapshot =>
                \/ work[q].pc \in PastSnapshot
                \/ work[q].count # 0 => snapshots'[work[q].count] # 0
           /\ work'[q].pc \in PastSongs =>
                work[q].pc \in PastSongs \/ work[q].seen \subseteq songTable'
           /\ work'[q].pc \in PastDiffs =>
                work[q].pc \in PastDiffs \/ work[q].seen \X Modes \subseteq diffTable'
           /\ work'[q].pc = "answer" =>
                \/ work[q].pc = "answer"
                \/ HistoryIsCovered(work[q]) =>
                     \A i \in work[q].recent : scoreTable'[chartOf[i]] # 0
  PROVE  PastOK(q)'
<1>t. /\ work[q] \in Work /\ played \in Nat /\ played' \in Nat /\ work[q].count \in Nat
      /\ work[q].recent \subseteq Plays /\ \A i \in Plays : i \in Nat
      /\ work[q].count # 0 => work[q].count \in Plays
      /\ \A i \in Plays : chartOf[i] \in Charts
  <2>1. work[q] \in Work /\ played \in 0..MaxPlays /\ played' \in 0..MaxPlays
        /\ chartOf \in [Plays -> Charts]
    BY DEF DrsInv, DrsTypeOK
  <2>2. work[q].count \in 0..MaxPlays /\ work[q].recent \subseteq Plays
    BY <2>1 DEF Work
  <2> QED
    BY <2>1, <2>2, DrsAssumption DEF Plays
<1>r. ReadIsPast(work[q]) /\ (work[q].clean => StoredIsThere(work[q]))
  BY DEF DrsInv
<1>1. ReadIsPast(work[q])'
  <2>1. work'[q].count <= played'
    BY <1>t, <1>r DEF Grows, ReadIsPast
  <2>2. \A i \in work'[q].recent : i <= played'
    <3> SUFFICES ASSUME NEW i \in work[q].recent PROVE i <= played'
      OBVIOUS
    <3>1. i \in Nat /\ i <= played /\ played <= played'
      BY <1>t, <1>r DEF Grows, ReadIsPast
    <3> QED
      BY <3>1, <1>t
  <2>3. \A c \in Charts : work'[q].best[c] # 0 => c[1] \in work'[q].seen
    BY <1>r DEF ReadIsPast
  <2> QED
    BY <2>1, <2>2, <2>3, <1>r DEF ReadIsPast
<1>2. \A i \in work[q].recent : chartOf'[i] = chartOf[i]
  BY <1>t, <1>r DEF Grows, ReadIsPast
<1>3. HistoryIsCovered(work[q])' => HistoryIsCovered(work[q])
  BY <1>2 DEF HistoryIsCovered
<1>4. ASSUME work'[q].clean PROVE StoredIsThere(work[q])'
  <2>r. StoredIsThere(work[q])
    BY <1>4, <1>r
  <2>1. work'[q].pc \in PastDetails => player'
    BY <1>4, <2>r DEF Grows, StoredIsThere
  <2>2. work'[q].pc \in PastSnapshot /\ work'[q].count # 0 => snapshots'[work'[q].count] # 0
    BY <1>4, <2>r, <1>t DEF Grows, StoredIsThere
  <2>3. work'[q].pc \in PastSongs => work'[q].seen \subseteq songTable'
    BY <1>4, <2>r DEF Grows, StoredIsThere
  <2>4. work'[q].pc \in PastDiffs => work'[q].seen \X Modes \subseteq diffTable'
    BY <1>4, <2>r DEF Grows, StoredIsThere
  <2>5. ASSUME work'[q].pc = "answer", HistoryIsCovered(work[q])', NEW i \in work'[q].recent
        PROVE  scoreTable'[chartOf'[i]] # 0
    <3>1. i \in work[q].recent /\ chartOf'[i] = chartOf[i] /\ chartOf[i] \in Charts
      BY <2>5, <1>2, <1>t
    <3>2. CASE work[q].pc = "answer"
      BY <3>1, <3>2, <2>5, <2>r, <1>3 DEF Grows, StoredIsThere
    <3>3. CASE work[q].pc # "answer"
      BY <3>1, <3>3, <2>5, <1>4, <1>3
    <3> QED
      BY <3>2, <3>3
  <2> QED
    BY <2>1, <2>2, <2>3, <2>4, <2>5 DEF StoredIsThere
<1> QED
  BY <1>1, <1>4 DEF PastOK

\* A step of another goroutine.
LEMMA PastStays ==
  ASSUME DrsInv, DrsTypeOK', Grows, NEW q \in Refreshes,
         work'[q].pc = work[q].pc, work'[q].count = work[q].count,
         work'[q].seen = work[q].seen, work'[q].best = work[q].best,
         work'[q].fresh = work[q].fresh, work'[q].recent = work[q].recent,
         work'[q].clean = work[q].clean
  PROVE  PastOK(q)'
<1>1. work[q].pc = "stats" => \A c \in work[q].fresh : work[q].best[c] # 0
  BY DEF DrsInv, ReadIsPast
<1> QED
  BY <1>1, PastStep

\* A goroutine that does nothing, or still reads documents.
LEMMA ReadingIsPast ==
  ASSUME DrsTypeOK', NEW p \in Refreshes, work'[p].pc \in Documents \cup {"none"},
         work'[p].count <= played', \A i \in work'[p].recent : i <= played',
         \A c \in Charts : work'[p].best[c] # 0 => c[1] \in work'[p].seen
  PROVE  PastOK(p)'
<1>1. ReadIsPast(work[p])'
  BY DEF ReadIsPast, Writing, Statements, Documents
<1>2. StoredIsThere(work[p])'
  BY DEF StoredIsThere, PastDiffs, PastSongs, PastSnapshot, PastDetails, Writing,
         Statements, Documents
<1> QED
  BY <1>1, <1>2 DEF PastOK

LEMMA NoWorkIsPast ==
  ASSUME DrsTypeOK', NEW p \in Refreshes, work'[p] = NoWork
  PROVE  PastOK(p)' /\ ~Running(p)'
<1>1. played' \in Nat /\ 0 <= played'
  BY DrsAssumption DEF DrsTypeOK
<1>2. /\ work'[p].pc = "none" /\ work'[p].count = 0 /\ work'[p].recent = {}
      /\ \A c \in Charts : work'[p].best[c] = 0
  BY DEF NoWork, NoPlays
<1> QED
  BY <1>1, <1>2, ReadingIsPast DEF Running, WorkAt

-----------------------------------------------------------------------------
(* The steps of a refresh.                                                 *)

LEMMA DocumentsArePast ==
  ASSUME DrsInv, DrsTypeOK', Grows, NEW p \in Refreshes,
         \/ CheckLogin(p) \/ LoadDancerInfo(p) \/ LoadMusicData(p) \/ LoadPlayHist(p)
  PROVE  /\ PastOK(p)' /\ work'[p].pc \notin {"stats", "scores", "answer"}
         /\ work'[p].crowded = work[p].crowded \/ ~Running(p)'
<1>t. /\ DrsTypeOK /\ work \in [Refreshes -> Work] /\ work[p] \in Work /\ played \in Nat
      /\ played' = played /\ MaxPlays \in Nat
  BY DrsAssumption DEF DrsInv, DrsTypeOK, CheckLogin, LoadDancerInfo, LoadMusicData,
                       LoadPlayHist, gameSite
<1>r. ReadIsPast(work[p])
  BY DEF DrsInv
<1>n. ASSUME Put(p, NoWork)
      PROVE  /\ PastOK(p)' /\ work'[p].pc \notin {"stats", "scores", "answer"}
             /\ ~Running(p)'
  <2>1. work'[p] = NoWork
    BY <1>n, <1>t DEF Put
  <2>2. work'[p].pc = "none"
    BY <2>1 DEF NoWork
  <2> QED
    BY <2>1, <2>2, NoWorkIsPast
<1>1. CASE WorkAt(p, "login") /\ Put(p, [work[p] EXCEPT !.pc = "dancer"])
  <2>1. /\ work'[p].pc = "dancer" /\ work'[p].count = work[p].count
        /\ work'[p].recent = work[p].recent /\ work'[p].best = work[p].best
        /\ work'[p].seen = work[p].seen /\ work'[p].crowded = work[p].crowded
    BY <1>1, <1>t DEF Put, Work
  <2> QED
    BY <2>1, <1>r, <1>t, ReadingIsPast DEF ReadIsPast, Documents
<1>2. ASSUME NEW n \in {played, 0}, WorkAt(p, "dancer"),
             Put(p, [work[p] EXCEPT !.pc = "music", !.count = n])
      PROVE  PastOK(p)' /\ work'[p].pc = "music" /\ work'[p].crowded = work[p].crowded
  <2>1. /\ work'[p].pc = "music" /\ work'[p].count \in {played, 0}
        /\ work'[p].recent = work[p].recent /\ work'[p].best = work[p].best
        /\ work'[p].seen = work[p].seen /\ work'[p].crowded = work[p].crowded
    BY <1>2, <1>t DEF Put, Work
  <2> QED
    BY <2>1, <1>r, <1>t, ReadingIsPast DEF ReadIsPast, Documents
<1>3. CASE /\ WorkAt(p, "music")
           /\ Put(p, [work[p] EXCEPT !.pc = "history", !.seen = catalogue, !.best = Best])
  <2>1. /\ work'[p].pc = "history" /\ work'[p].count = work[p].count
        /\ work'[p].recent = work[p].recent /\ work'[p].best = Best
        /\ work'[p].seen = catalogue /\ work'[p].crowded = work[p].crowded
    BY <1>3, <1>t DEF Put, Work
  <2>2. ASSUME NEW c \in Charts, Best[c] # 0 PROVE c[1] \in catalogue
    <3>1. Best[c] \in Plays /\ Best[c] <= played /\ chartOf[Best[c]] = c
      BY <2>2, <1>t, BestIsPast DEF LastOf
    <3> QED
      BY <3>1 DEF DrsInv
  <2> QED
    BY <2>1, <2>2, <1>r, <1>t, ReadingIsPast DEF ReadIsPast, Documents
<1>4. CASE /\ WorkAt(p, "history") /\ InHistory # {}
           /\ Put(p, [work[p] EXCEPT !.pc = "details", !.recent = InHistory])
  <2>1. /\ work'[p].pc = "details" /\ work'[p].count = work[p].count
        /\ work'[p].recent = InHistory /\ work'[p].best = work[p].best
        /\ work'[p].seen = work[p].seen /\ work'[p].crowded = work[p].crowded
    BY <1>4, <1>t DEF Put, Work
  <2>2. played \in InHistory /\ \A i \in InHistory : i <= played
    <3>1. PICK k \in Plays : k <= played
      BY <1>4 DEF InHistory
    <3>2. played \in Plays
      BY <3>1, <1>t DEF Plays, DrsTypeOK
    <3> QED
      BY <3>2, <1>t, DrsAssumption DEF InHistory
  <2>3. ReadIsPast(work[p])'
    BY <2>1, <2>2, <1>r, <1>t DEF ReadIsPast
  <2>4. StoredIsThere(work[p])'
    BY <2>1 DEF StoredIsThere, PastDiffs, PastSongs, PastSnapshot, PastDetails, Writing,
                Statements
  <2> QED
    BY <2>1, <2>3, <2>4 DEF PastOK
<1> QED
  BY <1>1, <1>2, <1>3, <1>4, <1>n DEF CheckLogin, LoadDancerInfo, LoadMusicData,
     LoadPlayHist, DocumentFails

\* The rows that the foreign keys of the player's tables allow.
LEMMA SeenIsStorable ==
  ASSUME DrsInv, NEW p \in Refreshes, work[p].clean, work[p].pc \in PastSongs
  PROVE  \A c \in Charts : c[1] \in work[p].seen => c \in StorableCharts
<1>1. player /\ work[p].seen \subseteq songTable
  BY DEF DrsInv, StoredIsThere, PastSongs, PastSnapshot, PastDetails
<1> QED
  BY <1>1 DEF StorableCharts, Charts

LEMMA StatementsArePast ==
  ASSUME DrsInv, DrsTypeOK', Grows, NEW p \in Refreshes,
         \/ AddPlayerDetails(p) \/ AddPlayerProfileSnapshot(p) \/ AddSongRows(p)
         \/ AddDifficultyRows(p) \/ AddPlayerSongStats(p) \/ AddPlayerScores(p)
  PROVE  PastOK(p)' /\ work'[p].crowded = work[p].crowded /\ Running(p)
<1> USE DEF Writing, Statements, PastDetails, PastSnapshot, PastSongs, PastDiffs
<1>t. /\ DrsTypeOK /\ work \in [Refreshes -> Work] /\ work[p] \in Work
  BY DEF DrsInv, DrsTypeOK
<1>k. {"details", "snapshot", "songs", "diffs", "known_stats",
       "stats", "scores", "answer"} \subseteq PCs
  BY DEF PCs
<1>r. work[p].clean => StoredIsThere(work[p])
  BY DEF DrsInv
<1>1. CASE AddPlayerDetails(p)
  <2>1. PICK stored \in Stored({TRUE}, {TRUE}) :
          /\ player' = (player \/ TRUE \in stored)
          /\ Step(p, "snapshot", {TRUE}, {TRUE}, stored)
    BY <1>1 DEF AddPlayerDetails
  <2>2. work[p].pc = "details"
    BY <1>1 DEF AddPlayerDetails, WorkAt
  <2>3. work'[p].clean => work[p].clean /\ player'
    <3> DEFINE row == {TRUE}
    <3>a. Step(p, "snapshot", row, row, stored)
      BY <2>1
    <3> HIDE DEF row
    <3>b. work'[p].clean => work[p].clean /\ stored = row
      BY <3>a, <1>t, <1>k, StepFields
    <3>1. work'[p].clean => work[p].clean /\ stored = {TRUE}
      BY <3>b DEF row
    <3>2. stored = {TRUE} => player'
      BY <2>1, Zenon
    <3> QED
      BY <3>1, <3>2
  <2> QED
    BY <2>1, <2>2, <2>3, <1>t, <1>k, StepFields, PastStep DEF Running, WorkAt
<1>2. CASE AddPlayerProfileSnapshot(p)
  <2> DEFINE rows == {work[p].count} \cap Plays
             storable == IF player THEN Plays ELSE {}
  <2>1. PICK stored \in Stored(rows, storable) :
          /\ snapshots' = [n \in Plays |-> IF n \in stored THEN Newest(work[p].recent)
                                                            ELSE snapshots[n]]
          /\ Step(p, "songs", rows, storable, stored)
    BY <1>2 DEF AddPlayerProfileSnapshot
  <2>2. work[p].pc = "snapshot"
    BY <1>2 DEF AddPlayerProfileSnapshot, WorkAt
  <2>3. ASSUME work'[p].clean, work[p].count # 0 PROVE snapshots'[work[p].count] # 0
    <3>1. work[p].clean /\ player
      BY <2>1, <2>2, <2>3, <1>r, <1>t, <1>k, StepFields DEF StoredIsThere
    <3>2. work[p].count \in Plays
      BY <2>3, <1>t, DrsAssumption DEF Work, Plays
    <3>3. work[p].count \in stored
      BY <2>1, <2>3, <3>1, <3>2, <1>t, <1>k, StepFields
    <3>4. Newest(work[p].recent) \in Plays
      <4>1. PICK i \in work[p].recent : TRUE
        BY <2>2 DEF DrsInv, ReadIsPast
      <4>2. work[p].recent \in SUBSET Plays
        BY <1>t DEF Work
      <4> QED
        BY <4>1, <4>2, NewestIsLast
    <3> QED
      BY <2>1, <3>2, <3>3, <3>4, DrsAssumption DEF Plays
  <2> HIDE DEF rows, storable
  <2> QED
    BY <2>1, <2>2, <2>3, <1>t, <1>k, StepFields, PastStep DEF Running, WorkAt
<1>3. CASE AddSongRows(p)
  <2>1. PICK stored \in Stored(work[p].seen, Songs) :
          /\ songTable' = songTable \cup stored
          /\ Step(p, "diffs", work[p].seen, Songs, stored)
    BY <1>3 DEF AddSongRows
  <2>2. work[p].pc = "songs" /\ work[p].seen \subseteq Songs
    BY <1>3, <1>t DEF AddSongRows, WorkAt, Work
  <2>3. work'[p].clean => work[p].clean /\ work[p].seen \subseteq songTable'
    BY <2>1, <2>2, <1>t, <1>k, StepFields
  <2> QED
    BY <2>1, <2>2, <2>3, <1>t, <1>k, StepFields, PastStep DEF Running, WorkAt
<1>4. CASE AddDifficultyRows(p)
  <2> DEFINE rows == work[p].seen \X Modes
             storable == songTable \X Modes
  <2>1. PICK stored \in Stored(rows, storable) :
          /\ diffTable' = diffTable \cup stored
          /\ Step(p, "known_stats", rows, storable, stored)
    BY <1>4 DEF AddDifficultyRows
  <2>2. work[p].pc = "diffs"
    BY <1>4 DEF AddDifficultyRows, WorkAt
  <2>3. ASSUME work'[p].clean PROVE work[p].clean /\ rows \subseteq diffTable'
    <3>1. work[p].clean
      BY <2>1, <2>3, <1>t, <1>k, StepFields
    <3>2. rows \subseteq storable
      BY <3>1, <2>2, <1>r DEF StoredIsThere
    <3> QED
      BY <2>1, <2>3, <3>1, <3>2, <1>t, <1>k, StepFields
  <2>4. work[p].seen \X Modes = rows
    OBVIOUS
  <2> HIDE DEF rows, storable
  <2> QED
    BY <2>1, <2>2, <2>3, <2>4, <1>t, <1>k, StepFields, PastStep DEF Running, WorkAt
<1>5. CASE AddPlayerSongStats(p)
  <2>1. PICK stored : Step(p, "scores", work[p].fresh, StorableCharts, stored)
    BY <1>5 DEF AddPlayerSongStats
  <2>2. work[p].pc = "stats"
    BY <1>5 DEF AddPlayerSongStats, WorkAt
  <2> QED
    BY <2>1, <2>2, <1>t, <1>k, StepFields, PastStep DEF Running, WorkAt
<1>6. CASE AddPlayerScores(p)
  <2> DEFINE rows == {chartOf[i] : i \in work[p].recent}
  <2>1. PICK stored \in Stored(rows, StorableCharts) :
          /\ scoreTable' = [c \in Charts |->
                              IF c \in stored /\ scoreTable[c] = 0
                              THEN Newest(PlaysOf(work[p].recent, c)) ELSE scoreTable[c]]
          /\ Step(p, "answer", rows, StorableCharts, stored)
    BY <1>6 DEF AddPlayerScores
  <2>2. work[p].pc = "scores"
    BY <1>6 DEF AddPlayerScores, WorkAt
  <2>3. ASSUME work'[p].clean, HistoryIsCovered(work[p]), NEW i \in work[p].recent
        PROVE  scoreTable'[chartOf[i]] # 0
    <3>1. work[p].clean
      BY <2>1, <2>3, <1>t, <1>k, StepFields
    <3>2. work[p].recent \in SUBSET Plays /\ \A j \in work[p].recent : chartOf[j] \in Charts
      BY <1>t DEF Work, DrsTypeOK
    <3>3. rows \subseteq StorableCharts
      BY <2>2, <2>3, <3>1, <3>2, SeenIsStorable DEF HistoryIsCovered
    <3>4. chartOf[i] \in stored /\ chartOf[i] \in Charts
      BY <2>1, <2>3, <3>2, <3>3, <1>t, <1>k, StepFields
    <3>5. /\ PlaysOf(work[p].recent, chartOf[i]) \in SUBSET Plays
          /\ PlaysOf(work[p].recent, chartOf[i]) # {}
      BY <3>2 DEF PlaysOf
    <3>6. Newest(PlaysOf(work[p].recent, chartOf[i])) # 0
      BY <3>5, NewestIsLast, DrsAssumption DEF Plays
    <3> QED
      BY <2>1, <3>4, <3>6
  <2>4. work'[p].clean => work[p].clean
    BY <2>1, <1>t, <1>k, StepFields
  <2> HIDE DEF rows
  <2> QED
    BY <2>1, <2>2, <2>3, <2>4, <1>t, <1>k, StepFields, PastStep DEF Running, WorkAt
<1> QED
  BY <1>1, <1>2, <1>3, <1>4, <1>5, <1>6

\* A refresh without company: what it read of the statistics is stored.
LEMMA LoneStatsAreOwn ==
  ASSUME DrsInv, DrsTypeOK', NEW p \in Refreshes, StatsAreOwn(work[p]), Running(p),
         \/ AddPlayerDetails(p) \/ AddPlayerProfileSnapshot(p) \/ AddSongRows(p)
         \/ AddDifficultyRows(p) \/ DropKnownStats(p) \/ AddPlayerSongStats(p)
         \/ AddPlayerScores(p)
  PROVE  StatsAreOwn(work[p])'
<1>t. /\ DrsTypeOK /\ work \in [Refreshes -> Work] /\ work[p] \in Work
  BY DEF DrsInv, DrsTypeOK
<1>k. {"details", "snapshot", "songs", "diffs", "known_stats",
       "stats", "scores", "answer"} \subseteq PCs
  BY DEF PCs, Statements
<1>1. CASE \/ AddPlayerDetails(p) \/ AddPlayerProfileSnapshot(p) \/ AddSongRows(p)
           \/ AddDifficultyRows(p)
  <2>1. PICK next \in {"snapshot", "songs", "diffs", "known_stats"} :
          \E rows, storable, stored : Step(p, next, rows, storable, stored)
    BY <1>1 DEF AddPlayerDetails, AddPlayerProfileSnapshot, AddSongRows, AddDifficultyRows
  <2>2. work'[p].pc = next
    BY <2>1, <1>t, <1>k, StepFields
  <2> QED
    BY <2>1, <2>2 DEF StatsAreOwn
<1>2. CASE DropKnownStats(p)
  <2> DEFINE read == {c \in Charts : work[p].best[c] # 0}
             new  == {c \in read : work[p].best[c] # statTable[c]}
  <2>1. PICK fresh \in {read, new} : Put(p, [work[p] EXCEPT !.pc = "stats", !.fresh = fresh])
    BY <1>2, Zenon DEF DropKnownStats
  <2>2. statTable' = statTable
    BY <1>2, Zenon DEF DropKnownStats, drsTables
  <2>3. /\ work'[p].pc = "stats" /\ work'[p].fresh = fresh /\ work'[p].best = work[p].best
    BY <2>1, <1>t DEF Put, Work
  <2>4. \A c \in Charts : work[p].best[c] # 0 /\ c \notin fresh => statTable[c] = work[p].best[c]
    BY <2>1
  <2> HIDE DEF read, new
  <2> QED
    BY <2>2, <2>3, <2>4 DEF StatsAreOwn
<1>3. CASE AddPlayerSongStats(p)
  <2>1. PICK stored \in Stored(work[p].fresh, StorableCharts) :
          /\ statTable' = [c \in Charts |-> IF c \in stored THEN work[p].best[c]
                                                            ELSE statTable[c]]
          /\ Step(p, "scores", work[p].fresh, StorableCharts, stored)
    BY <1>3 DEF AddPlayerSongStats
  <2>2. work[p].pc = "stats"
    BY <1>3 DEF AddPlayerSongStats, WorkAt
  <2>3. /\ work'[p].pc = "scores" /\ work'[p].best = work[p].best
        /\ work'[p].clean => work[p].clean
        /\ work'[p].clean /\ work[p].fresh \subseteq StorableCharts => stored = work[p].fresh
    BY <2>1, <1>t, <1>k, StepFields
  <2>4. ASSUME work'[p].clean, NEW c \in Charts, work[p].best[c] # 0
        PROVE  statTable'[c] = work[p].best[c]
    <3>1. \A d \in work[p].fresh : d \in Charts /\ d[1] \in work[p].seen
      BY <2>2, <1>t DEF DrsInv, ReadIsPast, Work
    <3>2. work[p].fresh \subseteq StorableCharts
      BY <2>2, <2>3, <2>4, <3>1, SeenIsStorable
         DEF PastSongs, PastSnapshot, PastDetails, Writing, Statements
    <3>3. c \in stored \/ statTable[c] = work[p].best[c]
      BY <2>2, <2>3, <2>4, <3>2 DEF StatsAreOwn
    <3> QED
      BY <2>1, <3>3
  <2> QED
    BY <2>3, <2>4 DEF StatsAreOwn, StatsAreStored
<1>4. CASE AddPlayerScores(p)
  <2>1. PICK rows, stored : Step(p, "answer", rows, StorableCharts, stored)
    BY <1>4 DEF AddPlayerScores
  <2>2. work[p].pc = "scores" /\ statTable' = statTable
    BY <1>4 DEF AddPlayerScores, WorkAt
  <2>3. /\ work'[p].pc = "answer" /\ work'[p].best = work[p].best
        /\ work'[p].clean => work[p].clean
    BY <2>1, <1>t, <1>k, StepFields
  <2> QED
    BY <2>2, <2>3 DEF StatsAreOwn, StatsAreStored
<1> QED
  BY <1>1, <1>2, <1>3, <1>4

LEMMA QueryIsPast ==
  ASSUME DrsInv, DrsTypeOK', Grows, NEW p \in Refreshes, DropKnownStats(p)
  PROVE  PastOK(p)' /\ work'[p].crowded = work[p].crowded /\ Running(p)
<1> DEFINE read == {c \in Charts : work[p].best[c] # 0}
           new  == {c \in read : work[p].best[c] # statTable[c]}
<1>1. PICK fresh \in {read, new} : Put(p, [work[p] EXCEPT !.pc = "stats", !.fresh = fresh])
  BY Zenon DEF DropKnownStats
<1>2. work[p].pc = "known_stats" /\ work \in [Refreshes -> Work] /\ work[p] \in Work
  BY DEF DropKnownStats, WorkAt, DrsInv, DrsTypeOK
<1>3. \A c \in fresh : work[p].best[c] # 0
  BY <1>1
<1> HIDE DEF read, new
<1>4. /\ work'[p].pc = "stats" /\ work'[p].count = work[p].count
      /\ work'[p].seen = work[p].seen /\ work'[p].best = work[p].best
      /\ work'[p].fresh = fresh /\ work'[p].recent = work[p].recent
      /\ work'[p].clean = work[p].clean /\ work'[p].crowded = work[p].crowded
  BY <1>1, <1>2 DEF Put, Work
<1>5. PastOK(p)'
  BY <1>2, <1>3, <1>4, PastStep
     DEF Writing, Statements, PastDetails, PastSnapshot, PastSongs, PastDiffs
<1> QED
  BY <1>2, <1>4, <1>5 DEF Running, WorkAt

-----------------------------------------------------------------------------
(* The invariant.                                                          *)

AloneOK(p) ==
  Running(p) /\ ~work[p].crowded =>
    /\ \A q \in Refreshes \ {p} : ~Running(q)
    /\ StatsAreOwn(work[p])

LEMMA GoroutinesStayRight ==
  ASSUME DrsInv, [DrsNext]_drsVars, NEW q \in Refreshes
  PROVE  PastOK(q)' /\ AloneOK(q)'
<1>t. /\ DrsTypeOK /\ DrsTypeOK' /\ Grows /\ work \in [Refreshes -> Work]
      /\ AloneOK(q)
  BY DrsTypeKept, TablesGrow DEF DrsInv, DrsTypeOK, AloneOK
<1>1. CASE UNCHANGED work /\ UNCHANGED statTable
  <2>1. PastOK(q)'
    BY <1>1, <1>t, PastStays
  <2>2. AloneOK(q)'
    BY <1>1, <1>t DEF AloneOK, Running, WorkAt, StatsAreOwn, StatsAreStored
  <2> QED
    BY <2>1, <2>2
<1>2. ASSUME NEW p \in Refreshes, StartRefresh(p) PROVE PastOK(q)' /\ AloneOK(q)'
  <2>1. CASE q = p
    <3>1. played' \in Nat /\ 0 <= played'
      BY <1>t, DrsAssumption DEF DrsTypeOK
    <3>2. PastOK(q)'
      BY <1>2, <2>1, <3>1, <1>t, StartTypes, ReadingIsPast DEF Documents, NoPlays
    <3>3. AloneOK(q)'
      BY <1>2, <2>1, <1>t, StartTypes DEF AloneOK, Running, WorkAt, StatsAreOwn
    <3> QED
      BY <3>2, <3>3
  <2>2. CASE q # p
    <3>1. PastOK(q)'
      BY <1>2, <2>2, <1>t, StartTypes, PastStays
    <3>2. Running(q)' => work'[q].crowded
      BY <1>2, <2>2, <1>t, StartTypes DEF Running, WorkAt
    <3> QED
      BY <3>1, <3>2 DEF AloneOK
  <2> QED
    BY <2>1, <2>2
<1>3. ASSUME NEW p \in Refreshes, Running(p), \A r \in Refreshes \ {p} : work'[r] = work[r],
             PastOK(p)', ~Running(p)' \/ work'[p].crowded = work[p].crowded,
             StatsAreOwn(work[p]) => ~Running(p)' \/ StatsAreOwn(work[p])'
      PROVE  PastOK(q)' /\ AloneOK(q)'
  <2>1. CASE q = p
    BY <1>3, <2>1, <1>t DEF AloneOK, Running, WorkAt
  <2>2. CASE q # p
    <3>1. PastOK(q)'
      BY <1>3, <2>2, <1>t, PastStays
    <3>2. Running(q) => work[q].crowded
      BY <1>3, <2>2, <1>t DEF AloneOK
    <3>3. Running(q)' => work'[q].crowded
      BY <3>2, <1>3, <2>2 DEF Running, WorkAt
    <3> QED
      BY <3>1, <3>3 DEF AloneOK
  <2> QED
    BY <2>1, <2>2
<1>4. ASSUME NEW p \in Refreshes,
             \/ CheckLogin(p) \/ LoadDancerInfo(p) \/ LoadMusicData(p) \/ LoadPlayHist(p)
      PROVE  PastOK(q)' /\ AloneOK(q)'
  <2>1. Running(p) /\ \A r \in Refreshes \ {p} : work'[r] = work[r]
    BY <1>4, <1>t DEF CheckLogin, LoadDancerInfo, LoadMusicData, LoadPlayHist,
                      DocumentFails, Put, Running, WorkAt
  <2>2. /\ PastOK(p)' /\ work'[p].pc \notin {"stats", "scores", "answer"}
        /\ work'[p].crowded = work[p].crowded \/ ~Running(p)'
    BY <1>4, <1>t, DocumentsArePast
  <2>3. StatsAreOwn(work[p])'
    BY <2>2 DEF StatsAreOwn
  <2> QED
    BY <2>1, <2>2, <2>3, <1>3
<1>5. ASSUME NEW p \in Refreshes,
             \/ AddPlayerDetails(p) \/ AddPlayerProfileSnapshot(p) \/ AddSongRows(p)
             \/ AddDifficultyRows(p) \/ AddPlayerSongStats(p) \/ AddPlayerScores(p)
      PROVE  PastOK(q)' /\ AloneOK(q)'
  <2>1. \A r \in Refreshes \ {p} : work'[r] = work[r]
    <3>1. \A next, rows, storable, stored : Step(p, next, rows, storable, stored) =>
            \A r \in Refreshes \ {p} : work'[r] = work[r]
      BY <1>t DEF Step, Put
    <3> QED
      BY <1>5, <3>1, Zenon DEF AddPlayerDetails, AddPlayerProfileSnapshot, AddSongRows,
                               AddDifficultyRows, AddPlayerSongStats, AddPlayerScores
  <2>2. PastOK(p)' /\ work'[p].crowded = work[p].crowded /\ Running(p)
    BY <1>5, <1>t, StatementsArePast
  <2>3. StatsAreOwn(work[p]) => StatsAreOwn(work[p])'
    BY <1>5, <2>2, <1>t, LoneStatsAreOwn
  <2> QED
    BY <2>1, <2>2, <2>3, <1>3
<1>6. ASSUME NEW p \in Refreshes, DropKnownStats(p) PROVE PastOK(q)' /\ AloneOK(q)'
  <2>1. \A r \in Refreshes \ {p} : work'[r] = work[r]
    BY <1>6, <1>t DEF DropKnownStats, Put
  <2>2. PastOK(p)' /\ work'[p].crowded = work[p].crowded /\ Running(p)
    BY <1>6, <1>t, QueryIsPast
  <2>3. StatsAreOwn(work[p]) => StatsAreOwn(work[p])'
    BY <1>6, <2>2, <1>t, LoneStatsAreOwn
  <2> QED
    BY <2>1, <2>2, <2>3, <1>3
<1>7. ASSUME NEW p \in Refreshes, Answer(p) PROVE PastOK(q)' /\ AloneOK(q)'
  <2>1. /\ Running(p) /\ \A r \in Refreshes \ {p} : work'[r] = work[r]
        /\ work'[p] = NoWork
    BY <1>7, <1>t DEF Answer, Put, Running, WorkAt
  <2>2. PastOK(p)' /\ ~Running(p)'
    BY <2>1, <1>t, NoWorkIsPast
  <2> QED
    BY <2>1, <2>2, <1>3
<1>8. (\E s \in Songs : Release(s)) \/ (\E c \in Charts : PlayChart(c)) \/ UNCHANGED drsVars
        => UNCHANGED work /\ UNCHANGED statTable
  BY DEF Release, PlayChart, drsVars, drsTables
<1> QED
  BY <1>1, <1>2, <1>4, <1>5, <1>6, <1>7, <1>8 DEF DrsNext, Refresh

LEMMA SnapshotsStayRight ==
  DrsInv /\ [DrsNext]_drsVars => SnapshotNotOlder'
<1> SUFFICES ASSUME DrsInv, [DrsNext]_drsVars, NEW n \in Plays, snapshots'[n] # 0
             PROVE  snapshots'[n] >= n
  BY DEF SnapshotNotOlder
<1>1. CASE snapshots' = snapshots
  BY <1>1 DEF DrsInv, SnapshotNotOlder
<1>2. ASSUME NEW p \in Refreshes, AddPlayerProfileSnapshot(p) PROVE snapshots'[n] >= n
  <2> DEFINE rows == {work[p].count} \cap Plays
             storable == IF player THEN Plays ELSE {}
  <2>1. PICK stored \in Stored(rows, storable) :
          snapshots' = [k \in Plays |-> IF k \in stored THEN Newest(work[p].recent)
                                                       ELSE snapshots[k]]
    BY <1>2 DEF AddPlayerProfileSnapshot
  <2>2. CASE n \notin stored
    BY <2>1, <2>2 DEF DrsInv, SnapshotNotOlder
  <2>3. CASE n \in stored
    <3>1. n = work[p].count
      BY <2>3, StoredFacts
    <3>2. PICK i \in work[p].recent : i >= work[p].count
      BY <1>2 DEF AddPlayerProfileSnapshot, WorkAt, DrsInv, ReadIsPast, Writing, Statements
    <3>3. work[p].recent \in SUBSET Plays
      BY DEF DrsInv, DrsTypeOK, Work
    <3>4. Newest(work[p].recent) \in Plays /\ i <= Newest(work[p].recent)
      BY <3>2, <3>3, NewestIsLast
    <3>5. snapshots'[n] = Newest(work[p].recent)
      BY <2>1, <2>3
    <3>6. i \in Nat /\ n \in Nat /\ Newest(work[p].recent) \in Nat
      BY <3>2, <3>3, <3>4, DrsAssumption DEF Plays
    <3> QED
      BY <3>1, <3>2, <3>4, <3>5, <3>6
  <2> QED
    BY <2>2, <2>3
<1>3. ASSUME NEW p \in Refreshes, Refresh(p), ~AddPlayerProfileSnapshot(p)
      PROVE  snapshots' = snapshots
  <2>1. CASE \/ StartRefresh(p) \/ CheckLogin(p) \/ LoadDancerInfo(p) \/ LoadMusicData(p)
             \/ LoadPlayHist(p) \/ DropKnownStats(p) \/ Answer(p)
    BY <2>1, Zenon DEF StartRefresh, CheckLogin, LoadDancerInfo, LoadMusicData,
                       LoadPlayHist, DropKnownStats, Answer, drsTables
  <2>2. CASE \/ AddPlayerDetails(p) \/ AddSongRows(p) \/ AddDifficultyRows(p)
             \/ AddPlayerSongStats(p) \/ AddPlayerScores(p)
    BY <2>2, Zenon DEF AddPlayerDetails, AddSongRows, AddDifficultyRows,
                       AddPlayerSongStats, AddPlayerScores
  <2> QED
    BY <1>3, <2>1, <2>2 DEF Refresh
<1>4. (\E s \in Songs : Release(s)) \/ (\E c \in Charts : PlayChart(c)) \/ UNCHANGED drsVars
        => snapshots' = snapshots
  BY DEF Release, PlayChart, drsVars, drsTables
<1> QED
  BY <1>1, <1>2, <1>3, <1>4 DEF DrsNext

LEMMA PlaysStayReleased ==
  ASSUME DrsInv, [DrsNext]_drsVars, NEW i \in Plays, i <= played'
  PROVE  chartOf'[i][1] \in catalogue'
<1>t. played \in Nat /\ i \in Nat /\ chartOf \in [Plays -> Charts]
  BY DrsAssumption DEF DrsInv, DrsTypeOK, Plays
<1>1. CASE UNCHANGED gameSite
  BY <1>1 DEF gameSite, DrsInv
<1>2. ASSUME NEW s \in Songs, Release(s) PROVE chartOf'[i][1] \in catalogue'
  BY <1>2 DEF Release, DrsInv
<1>3. ASSUME NEW c \in Charts, PlayChart(c) PROVE chartOf'[i][1] \in catalogue'
  <2>1. CASE i <= played
    BY <1>3, <2>1, <1>t DEF PlayChart, DrsInv
  <2>2. CASE i = played + 1
    BY <1>3, <2>2, <1>t DEF PlayChart
  <2> QED
    BY <1>3, <2>1, <2>2, <1>t DEF PlayChart
<1>4. (\E p \in Refreshes : Refresh(p)) \/ UNCHANGED drsVars => UNCHANGED gameSite
  <2>1. ASSUME NEW p \in Refreshes, Refresh(p) PROVE UNCHANGED gameSite
    BY <2>1, Zenon DEF Refresh, StartRefresh, CheckLogin, LoadDancerInfo, LoadMusicData,
         LoadPlayHist, DropKnownStats, Answer, AddPlayerDetails, AddPlayerProfileSnapshot,
         AddSongRows, AddDifficultyRows, AddPlayerSongStats, AddPlayerScores, gameSite
  <2> QED
    BY <2>1 DEF drsVars
<1> QED
  BY <1>1, <1>2, <1>3, <1>4 DEF DrsNext

LEMMA DrsInitially == DrsInit => DrsInv
<1> SUFFICES ASSUME DrsInit PROVE DrsInv
  OBVIOUS
<1>1. DrsTypeOK
  <2>1. 0 \in 0..MaxPlays /\ \A i \in Plays : 0 \in 0..MaxPlays
    BY DrsAssumption
  <2>2. chartOf \in [Plays -> Charts] /\ snapshots \in [Plays -> 0..MaxPlays]
    BY <2>1, DrsConstants DEF DrsInit
  <2> QED
    BY <2>1, <2>2, DrsConstants DEF DrsInit, DrsTypeOK
<1>2. SnapshotNotOlder /\ \A i \in Plays : i <= played => chartOf[i][1] \in catalogue
  BY DrsAssumption DEF DrsInit, SnapshotNotOlder, Plays
<1>3. ASSUME NEW p \in Refreshes
      PROVE  ReadIsPast(work[p]) /\ StoredIsThere(work[p]) /\ ~Running(p)
  <2>1. /\ work[p].pc = "none" /\ work[p].count = 0 /\ work[p].recent = {}
        /\ \A c \in Charts : work[p].best[c] = 0
    BY DEF DrsInit, NoWork, NoPlays
  <2>2. ReadIsPast(work[p])
    BY <2>1 DEF DrsInit, ReadIsPast, Writing, Statements
  <2>3. StoredIsThere(work[p])
    BY <2>1 DEF StoredIsThere, PastDiffs, PastSongs, PastSnapshot, PastDetails, Writing,
                Statements
  <2> QED
    BY <2>1, <2>2, <2>3 DEF Running, WorkAt
<1> QED
  BY <1>1, <1>2, <1>3 DEF DrsInv

LEMMA DrsInvKept == DrsInv /\ [DrsNext]_drsVars => DrsInv'
<1> SUFFICES ASSUME DrsInv, [DrsNext]_drsVars PROVE DrsInv'
  OBVIOUS
<1>1. DrsTypeOK' /\ SnapshotNotOlder'
  BY DrsTypeKept, SnapshotsStayRight
<1>2. \A i \in Plays : i <= played' => chartOf'[i][1] \in catalogue'
  BY PlaysStayReleased
<1>3. \A q \in Refreshes : PastOK(q)' /\ AloneOK(q)'
  BY GoroutinesStayRight
<1> QED
  BY <1>1, <1>2, <1>3 DEF DrsInv, PastOK, AloneOK

\* The invariant holds for any number of refreshes, songs and plays.
THEOREM DrsInvariant == DrsSpec => []DrsInv
  BY DrsInitially, DrsInvKept, PTL DEF DrsSpec

\* No snapshot tells of an earlier play than its playcount.
THEOREM SnapshotsAreNotOlder == DrsSpec => []SnapshotNotOlder
<1>1. DrsInv => SnapshotNotOlder
  BY DEF DrsInv
<1> QED
  BY <1>1, DrsInvariant, PTL

\* The order of the functions is right for the foreign keys.
THEOREM RefreshesStoreCharts == DrsSpec => []RefreshStoresCharts
<1>1. DrsInv => RefreshStoresCharts
  <2> SUFFICES ASSUME DrsInv, NEW p \in Refreshes, work[p].pc = "answer", work[p].clean
               PROVE  StoredIsThere(work[p]) /\ "answer" \in PastDiffs
    BY DEF RefreshStoresCharts, WorkAt, StoredIsThere, PastDiffs, PastSongs, PastSnapshot,
           PastDetails
  <2> QED
    BY DEF DrsInv, PastDiffs, PastSongs, PastSnapshot, PastDetails, Writing
<1> QED
  BY <1>1, DrsInvariant, PTL

\* A refresh that no other one overlaps stores the statistics it read.
THEOREM LoneRefreshesStoreStats == DrsSpec => []LoneRefreshStoresStats
<1>1. DrsInv => LoneRefreshStoresStats
  BY DEF DrsInv, LoneRefreshStoresStats, Running, WorkAt, StatsAreOwn
<1> QED
  BY <1>1, DrsInvariant, PTL

=============================================================================
