------------------------------- MODULE DrsSync -------------------------------
(***************************************************************************)
(* How the DRS tables (db/drs_db/sql.go) follow what the site shows of one *)
(* player: ProfilePatch of drs/router_drs.go for one account, which is     *)
(* refreshDrsUser of drs/drs_implementation.go.                            *)
(*                                                                         *)
(* A refresh reads three documents, one after the other, and then runs the *)
(* statements of six functions, whose errors it prints and drops. One      *)
(* action is one document or the statements of one function.               *)
(***************************************************************************)
EXTENDS Naturals

CONSTANTS
  Refreshes,  \* goroutines that serve PATCH /drs/profile for the player
  Songs,      \* songs that the game has or will have
  Modes,      \* the modes and difficulties of a song
  Window,     \* plays in the play history document
  MaxPlays,   \* bound: plays the player makes
  DrsFaults   \* what may go wrong: "site", a document gives an error; "page", it is
              \* JSON of another kind, which leaves zeros; "db", a statement fails

Charts == Songs \X Modes

ASSUME DrsAssumption ==
  /\ Window \in Nat \ {0} /\ MaxPlays \in Nat
  /\ Charts # {}
  /\ DrsFaults \subseteq {"site", "page", "db"}

Plays == 1..MaxPlays

VARIABLES
  catalogue,  \* the site: the songs released so far
  played,     \* the site: the number of plays
  chartOf,    \* the site: the chart of each play
  player,     \* drsPlayerDetails has the player
  snapshots,  \* drsPlayerProfileSnapshots: per playcount the last play, or 0
  songTable,  \* drsSongs
  diffTable,  \* drsDifficulties
  statTable,  \* drsPlayerSongStats: the last play each chart's row tells of, or 0
  scoreTable, \* drsPlayerScores: the play in each chart's row, or 0
  work        \* the local variables of each goroutine

gameSite  == <<catalogue, played, chartOf>>
drsTables == <<player, snapshots, songTable, diffTable, statTable, scoreTable>>
drsVars   == <<gameSite, drsTables, work>>

Documents == {"login", "dancer", "music", "history"}

Statements == {"details", "snapshot", "songs", "diffs", "known_stats", "stats",
               "scores"}

(***************************************************************************)
(* count: the playcount read.  seen: the songs of the music data, best:    *)
(* its statistics by their last play, fresh: those to be written.          *)
(* recent: the plays in the history.  clean: no statement failed by        *)
(* itself.  crowded: another refresh ran at the same time. The last two    *)
(* are history.                                                            *)
(***************************************************************************)
Work == [pc : Documents \cup Statements \cup {"none", "answer"}, count : 0..MaxPlays,
         seen : SUBSET Songs, best : [Charts -> 0..MaxPlays],
         fresh : SUBSET Charts, recent : SUBSET Plays,
         clean : BOOLEAN, crowded : BOOLEAN]

NoPlays == [c \in Charts |-> 0]

NoWork == [pc |-> "none", count |-> 0, seen |-> {}, best |-> NoPlays,
           fresh |-> {}, recent |-> {}, clean |-> TRUE, crowded |-> FALSE]

DrsTypeOK ==
  /\ catalogue \subseteq Songs
  /\ played \in 0..MaxPlays
  /\ chartOf \in [Plays -> Charts]
  /\ player \in BOOLEAN
  /\ snapshots \in [Plays -> 0..MaxPlays]
  /\ songTable \subseteq Songs
  /\ diffTable \subseteq Charts
  /\ statTable \in [Charts -> 0..MaxPlays]
  /\ scoreTable \in [Charts -> 0..MaxPlays]
  /\ work \in [Refreshes -> Work]

DrsInit ==
  /\ catalogue \in SUBSET Songs
  /\ played = 0
  /\ chartOf = [i \in Plays |-> CHOOSE c \in Charts : TRUE]
  /\ player = FALSE
  /\ snapshots = [n \in Plays |-> 0]
  /\ songTable = {} /\ diffTable = {}
  /\ statTable = NoPlays /\ scoreTable = NoPlays
  /\ work = [p \in Refreshes |-> NoWork]

-----------------------------------------------------------------------------
(* The site.                                                               *)

Release(s) ==
  /\ s \notin catalogue
  /\ catalogue' = catalogue \cup {s}
  /\ UNCHANGED <<played, chartOf, drsTables, work>>

PlayChart(c) ==
  /\ played < MaxPlays /\ c[1] \in catalogue
  /\ played' = played + 1
  /\ chartOf' = [chartOf EXCEPT ![played + 1] = c]
  /\ UNCHANGED <<catalogue, drsTables, work>>

\* Play i is the last of chart c so far.
LastOf(c, i) == i <= played /\ chartOf[i] = c /\ \A j \in (i + 1)..played : chartOf[j] # c

\* What the music data tells of each chart: the last play, 0 without one.
Best == [c \in Charts |-> IF \E i \in Plays : LastOf(c, i)
                          THEN CHOOSE i \in Plays : LastOf(c, i) ELSE 0]

InHistory == {i \in Plays : i <= played /\ i + Window > played}

-----------------------------------------------------------------------------
(* The documents. Without one the refresh ends with an error. No status is *)
(* looked at, so JSON that has nothing of a document decodes to zeros.     *)

WorkAt(p, step) == work[p].pc = step

Put(p, w) == work' = [work EXCEPT ![p] = w]

Running(p) == ~WorkAt(p, "none")

DocumentFails(p) == "site" \in DrsFaults /\ Put(p, NoWork)

StartRefresh(p) ==
  /\ ~Running(p)
  /\ work' = [q \in Refreshes |->
       IF q = p
       THEN [NoWork EXCEPT !.pc = "login",
                           !.crowded = \E r \in Refreshes \ {p} : Running(r)]
       ELSE [work[q] EXCEPT !.crowded = @ \/ Running(q)]]
  /\ UNCHANGED <<gameSite, drsTables>>

\* LoginState.
CheckLogin(p) ==
  /\ WorkAt(p, "login")
  /\ Put(p, [work[p] EXCEPT !.pc = "dancer"]) \/ DocumentFails(p)
  /\ UNCHANGED <<gameSite, drsTables>>

IsOtherJson == "page" \in DrsFaults

\* A playcount of 0, read or left so, is not stored.
LoadDancerInfo(p) ==
  /\ WorkAt(p, "dancer")
  /\ \/ Put(p, [work[p] EXCEPT !.pc = "music", !.count = played])
     \/ IsOtherJson /\ Put(p, [work[p] EXCEPT !.pc = "music", !.count = 0])
     \/ DocumentFails(p)
  /\ UNCHANGED <<gameSite, drsTables>>

\* The player's code is read here. Left at 0, all rows to follow are nobody's, and
\* there are no songs: for the tables of this player the refresh is over.
LoadMusicData(p) ==
  /\ WorkAt(p, "music")
  /\ \/ Put(p, [work[p] EXCEPT !.pc = "history", !.seen = catalogue, !.best = Best])
     \/ IsOtherJson /\ Put(p, NoWork)
     \/ DocumentFails(p)
  /\ UNCHANGED <<gameSite, drsTables>>

\* Transform panics on an empty history, and net/http recovers it.
LoadPlayHist(p) ==
  /\ WorkAt(p, "history")
  /\ \/ /\ InHistory # {}
        /\ Put(p, [work[p] EXCEPT !.pc = "details", !.recent = InHistory])
     \/ (InHistory = {} \/ IsOtherJson) /\ Put(p, NoWork)
     \/ DocumentFails(p)
  /\ UNCHANGED <<gameSite, drsTables>>

-----------------------------------------------------------------------------
(* The statements. Whatever becomes of them, the refresh goes on.          *)

(***************************************************************************)
(* The rows that the statements of one function leave stored, of rows of   *)
(* which the foreign keys allow those in storable. The rows go into        *)
(* several statements: one with a refused row stores nothing, the others   *)
(* may succeed.                                                            *)
(***************************************************************************)
Stored(rows, storable) ==
  IF rows \subseteq storable
  THEN {rows} \cup (IF "db" \in DrsFaults THEN SUBSET rows ELSE {})
  ELSE SUBSET (rows \cap storable)

\* On to the next function. clean remembers whether rows that could have been
\* stored were not.
Step(p, next, rows, storable, stored) ==
  Put(p, [work[p] EXCEPT !.pc = next,
            !.clean = @ /\ (rows \subseteq storable => stored = rows)])

\* Bug: UPDATE, which does nothing for a player without a row.
UpdatePlayerDetails(p) ==
  /\ WorkAt(p, "details")
  /\ \E stored \in Stored({TRUE}, {TRUE}) : Step(p, "snapshot", {TRUE}, {TRUE}, stored)
  /\ UNCHANGED <<gameSite, drsTables>>

\* gorm's Save: the row is updated, or inserted if there is none.
AddPlayerDetails(p) ==
  /\ WorkAt(p, "details")
  /\ \E stored \in Stored({TRUE}, {TRUE}) :
       /\ player' = (player \/ TRUE \in stored)
       /\ Step(p, "snapshot", {TRUE}, {TRUE}, stored)
  /\ UNCHANGED <<gameSite, snapshots, songTable, diffTable, statTable, scoreTable>>

\* Bug: the last play of the history instead of the first.
Oldest(plays) == CHOOSE i \in plays : \A j \in plays : j >= i

Newest(plays) == CHOOSE i \in plays : \A j \in plays : j <= i

\* The row of the playcount in the first document gets the time of the newest
\* play in the third; gorm's Save overwrites the row that is there.
AddPlayerProfileSnapshot(p) ==
  /\ WorkAt(p, "snapshot")
  /\ LET rows == {work[p].count} \cap Plays
         storable == IF player THEN Plays ELSE {} IN
     \E stored \in Stored(rows, storable) :
       /\ snapshots' = [n \in Plays |-> IF n \in stored THEN Newest(work[p].recent)
                                                        ELSE snapshots[n]]
       /\ Step(p, "songs", rows, storable, stored)
  /\ UNCHANGED <<gameSite, player, songTable, diffTable, statTable, scoreTable>>

\* ON CONFLICT DO NOTHING, as in AddDifficulties.
AddSongRows(p) ==
  /\ WorkAt(p, "songs")
  /\ \E stored \in Stored(work[p].seen, Songs) :
       /\ songTable' = songTable \cup stored
       /\ Step(p, "diffs", work[p].seen, Songs, stored)
  /\ UNCHANGED <<gameSite, player, snapshots, diffTable, statTable, scoreTable>>

AddDifficultyRows(p) ==
  /\ WorkAt(p, "diffs")
  /\ LET rows == work[p].seen \X Modes
         storable == songTable \X Modes IN
     \E stored \in Stored(rows, storable) :
       /\ diffTable' = diffTable \cup stored
       /\ Step(p, "known_stats", rows, storable, stored)
  /\ UNCHANGED <<gameSite, player, snapshots, songTable, statTable, scoreTable>>

\* Bug: a chart's row is enough, whatever it says.
DropKnownCharts(p) ==
  /\ WorkAt(p, "known_stats")
  /\ LET read == {c \in Charts : work[p].best[c] # 0} IN
     \/ Put(p, [work[p] EXCEPT !.pc = "stats",
                  !.fresh = {c \in read : statTable[c] = 0}])
     \/ "db" \in DrsFaults /\ Put(p, [work[p] EXCEPT !.pc = "stats", !.fresh = read])
  /\ UNCHANGED <<gameSite, drsTables>>

\* AddPlayerSongStats first drops the statistics that the table has already; a
\* query that fails finds none.
DropKnownStats(p) ==
  /\ WorkAt(p, "known_stats")
  /\ LET read == {c \in Charts : work[p].best[c] # 0} IN
     \/ Put(p, [work[p] EXCEPT !.pc = "stats",
                  !.fresh = {c \in read : work[p].best[c] # statTable[c]}])
     \/ "db" \in DrsFaults /\ Put(p, [work[p] EXCEPT !.pc = "stats", !.fresh = read])
  /\ UNCHANGED <<gameSite, drsTables>>

\* The player's rows that may be stored: those of charts whose song is.
StorableCharts == IF player THEN songTable \X Modes ELSE {}

\* Bug: ON CONFLICT DO NOTHING, as for the other tables.
AddNewSongStats(p) ==
  /\ WorkAt(p, "stats")
  /\ \E stored \in Stored(work[p].fresh, StorableCharts) :
       /\ statTable' = [c \in Charts |-> IF c \in stored /\ statTable[c] = 0
                                         THEN work[p].best[c] ELSE statTable[c]]
       /\ Step(p, "scores", work[p].fresh, StorableCharts, stored)
  /\ UNCHANGED <<gameSite, player, snapshots, songTable, diffTable, scoreTable>>

\* ON CONFLICT DO UPDATE, with whatever the music data said when it was read.
AddPlayerSongStats(p) ==
  /\ WorkAt(p, "stats")
  /\ \E stored \in Stored(work[p].fresh, StorableCharts) :
       /\ statTable' = [c \in Charts |-> IF c \in stored THEN work[p].best[c]
                                                         ELSE statTable[c]]
       /\ Step(p, "scores", work[p].fresh, StorableCharts, stored)
  /\ UNCHANGED <<gameSite, player, snapshots, songTable, diffTable, scoreTable>>

PlaysOf(plays, c) == {i \in plays : chartOf[i] = c}

\* The key of drsPlayerScores has no time in it, and ON CONFLICT DO NOTHING keeps
\* the row that is there. The history starts with the newest play.
AddPlayerScores(p) ==
  /\ WorkAt(p, "scores")
  /\ LET rows == {chartOf[i] : i \in work[p].recent} IN
     \E stored \in Stored(rows, StorableCharts) :
       /\ scoreTable' = [c \in Charts |->
                           IF c \in stored /\ scoreTable[c] = 0
                           THEN Newest(PlaysOf(work[p].recent, c)) ELSE scoreTable[c]]
       /\ Step(p, "answer", rows, StorableCharts, stored)
  /\ UNCHANGED <<gameSite, player, snapshots, songTable, diffTable, statTable>>

\* ProfilePatch answers that all is well.
Answer(p) ==
  /\ WorkAt(p, "answer")
  /\ Put(p, NoWork)
  /\ UNCHANGED <<gameSite, drsTables>>

-----------------------------------------------------------------------------

Refresh(p) ==
  \/ StartRefresh(p) \/ CheckLogin(p)
  \/ LoadDancerInfo(p) \/ LoadMusicData(p) \/ LoadPlayHist(p)
  \/ AddPlayerDetails(p) \/ AddPlayerProfileSnapshot(p)
  \/ AddSongRows(p) \/ AddDifficultyRows(p)
  \/ DropKnownStats(p) \/ AddPlayerSongStats(p) \/ AddPlayerScores(p)
  \/ Answer(p)

DrsNext ==
  \/ \E s \in Songs : Release(s)
  \/ \E c \in Charts : PlayChart(c)
  \/ \E p \in Refreshes : Refresh(p)

DrsSpec == DrsInit /\ [][DrsNext]_drsVars

-----------------------------------------------------------------------------
(* What the tables promise.                                                *)

\* A snapshot never tells of an earlier play than the playcount it is stored
\* under, although the two are read in different requests and refreshes overwrite
\* each other's rows (refreshDrsUser reads the playcount first).
SnapshotNotOlder == \A n \in Plays : snapshots[n] # 0 => snapshots[n] >= n

\* The history shows no play of a song that is newer than the music data.
HistoryIsCovered(w) == \A i \in w.recent : chartOf[i][1] \in w.seen

\* When a refresh ends without an error, and no statement failed by itself, the
\* order of its functions has kept the foreign keys from refusing anything: its
\* songs and their charts have rows, its playcount has a snapshot, and so has every
\* chart of the history, unless its song came out between two of the documents.
RefreshStoresCharts ==
  \A p \in Refreshes :
    WorkAt(p, "answer") /\ work[p].clean =>
      /\ player
      /\ work[p].count # 0 => snapshots[work[p].count] # 0
      /\ work[p].seen \subseteq songTable
      /\ work[p].seen \X Modes \subseteq diffTable
      /\ HistoryIsCovered(work[p]) =>
           \A i \in work[p].recent : scoreTable[chartOf[i]] # 0

StatsAreStored(w) == \A c \in Charts : w.best[c] # 0 => statTable[c] = w.best[c]

\* A refresh that no other one overlaps leaves the statistics it read, although it
\* drops those that seem to be stored already (AddPlayerSongStats). Of two that
\* overlap the one that read first may write last.
LoneRefreshStoresStats ==
  \A p \in Refreshes :
    WorkAt(p, "answer") /\ work[p].clean /\ ~work[p].crowded => StatsAreStored(work[p])

(***************************************************************************)
(* Why these three hold. What a goroutine has read is of the past. What it *)
(* has stored without a failed statement is there, since no row is ever    *)
(* deleted; only the statistics are overwritten, by another refresh.       *)
(***************************************************************************)
Writing      == Statements \cup {"answer"}
PastDetails  == Writing \ {"details"}
PastSnapshot == PastDetails \ {"snapshot"}
PastSongs    == PastSnapshot \ {"songs"}
PastDiffs    == PastSongs \ {"diffs"}

\* Of the documents.
ReadIsPast(w) ==
  /\ w.count <= played /\ \A i \in w.recent : i <= played
  /\ w.pc \in Writing => \E i \in w.recent : i >= w.count
  /\ \A c \in Charts : w.best[c] # 0 => c[1] \in w.seen
  /\ w.pc = "stats" => \A c \in w.fresh : w.best[c] # 0

\* Of the tables but the statistics.
StoredIsThere(w) ==
  /\ w.pc \in PastDetails => player
  /\ w.pc \in PastSnapshot /\ w.count # 0 => snapshots[w.count] # 0
  /\ w.pc \in PastSongs => w.seen \subseteq songTable
  /\ w.pc \in PastDiffs => w.seen \X Modes \subseteq diffTable
  /\ w.pc = "answer" /\ HistoryIsCovered(w) =>
       \A i \in w.recent : scoreTable[chartOf[i]] # 0

\* Of the statistics, for a refresh that runs alone.
StatsAreOwn(w) ==
  /\ w.pc = "stats" =>
       \A c \in Charts : w.best[c] # 0 /\ c \notin w.fresh => statTable[c] = w.best[c]
  /\ w.pc \in {"scores", "answer"} /\ w.clean => StatsAreStored(w)

DrsInv ==
  /\ DrsTypeOK
  /\ SnapshotNotOlder
  /\ \A i \in Plays : i <= played => chartOf[i][1] \in catalogue
  /\ \A p \in Refreshes :
       /\ ReadIsPast(work[p])
       /\ work[p].clean => StoredIsThere(work[p])
       /\ Running(p) /\ ~work[p].crowded =>
            /\ \A q \in Refreshes \ {p} : ~Running(q)
            /\ StatsAreOwn(work[p])

\* "DrsUpdateUser will load all data provided by the Dance Rush API"
\* (drs/router_drs.go): every play of the history is stored when the refresh ends.
RefreshStoresPlays ==
  \A p \in Refreshes :
    WorkAt(p, "answer") /\ HistoryIsCovered(work[p]) =>
      \A i \in work[p].recent : scoreTable[chartOf[i]] = i

=============================================================================
