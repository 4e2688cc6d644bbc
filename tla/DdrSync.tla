------------------------------- MODULE DdrSync -------------------------------
(***************************************************************************)
(* How the tables of db/ddr_db/sql.go follow what the site shows of songs  *)
(* and of one player: UpdatePlayerProfile and refreshDdrUser of            *)
(* ddr/ddr_implementation.go, SongsPatch and SongsReloadPatch of           *)
(* ddr/router_ddr.go.                                                      *)
(*                                                                         *)
(* Each is a chain of site reads and database statements with no           *)
(* transaction around it. One action is one such step; Order holds the     *)
(* chains. A fan-out over pages that do not change (songs, charts) is one  *)
(* step, as Fetch allows; one over statistics is a step for each page. A   *)
(* page may also come only in part: what is left out of the recent scores  *)
(* is kept in missed, so that the promises can name it.                    *)
(***************************************************************************)
EXTENDS Naturals, Sequences

CONSTANTS
  Procs,     \* goroutines that run one of the operations
  Songs,     \* songs of the site
  Charts,    \* their charts: a song, a mode and a difficulty
  SongOf,    \* the song of each chart
  Rated,     \* charts whose page shows a level: the others have level -1
  Window,    \* plays on the recent scores page, 50 on the site
  MaxPlays,  \* bound: plays the player makes
  MayRun,    \* what each goroutine may start, a subset of Ops
  Faults     \* what may go wrong, a subset of FaultKinds

Ops == {"update", "refresh", "patch", "reload"}

\* site: a page cannot be read.  page: the site shows some other page, or only a
\* part of the page comes (the error of ReadAll is overwritten) or is parsed (a
\* row is skipped); what is missing the parsers take for data that is not there,
\* unless it is a value they need.  workout: the player has workouts.  db: a
\* statement fails.  crash: the process dies, of a panic in the goroutine of a
\* song's page too, and is started again.
FaultKinds == {"site", "page", "workout", "db", "crash"}

ASSUME SyncAssumption ==
  /\ SongOf \in [Charts -> Songs] /\ Rated \subseteq Charts
  /\ Window \in Nat \ {0} /\ MaxPlays \in Nat
  /\ MayRun \in [Procs -> SUBSET Ops]
  /\ Faults \subseteq FaultKinds

VARIABLES
  plays,   \* the site: the charts the player has played, oldest first
  known,   \* ddrPlayerDetails has the player
  marker,  \* the latest ddrPlaycount row, 0 when there is none
  songs,   \* ddrSongs: each song absent, named, or blank (a row without a name)
  diffs,   \* ddrSongDifficulties: charts with a row
  scores,  \* ddrScores: the plays stored, by their place in plays
  stats,   \* ddrSongStatistics: the last play each chart's row tells of, or 0
  owed,    \* history: a playcount a refresh stored ahead of its scores, or 0
  missed,  \* history: plays under an update's playcount that its page left out
  loc      \* the local variables of each goroutine

tables == <<known, marker, songs, diffs, scores, stats, owed, missed>>
vars == <<plays, tables, loc>>

-----------------------------------------------------------------------------
(* The order of the steps. "ok" ends an operation.                         *)

Steps == {"info", "known", "latest", "details", "recent", "workout", "songs",
          "song_data", "add_songs", "song_charts", "add_charts", "scores",
          "stats", "known_stats", "add_stats", "add_workout", "marker", "list",
          "relist", "all_charts", "add_all_charts", "valid"}

Results == {"none", "ok", "unchanged"}

\* Bug: the playcount is stored as soon as it is known, as a refresh does.
UpdateOrderMarkerFirst ==
  [info |-> "known", known |-> "latest", latest |-> "details", details |-> "marker",
   marker |-> "recent", recent |-> "workout", workout |-> "songs",
   songs |-> "song_data", song_data |-> "add_songs", add_songs |-> "song_charts",
   song_charts |-> "add_charts", add_charts |-> "scores", scores |-> "stats",
   stats |-> "known_stats", known_stats |-> "add_stats", add_stats |-> "ok"]

UpdateOrder ==
  [info |-> "known", known |-> "latest", latest |-> "details", details |-> "recent",
   recent |-> "workout", workout |-> "songs", songs |-> "song_data",
   song_data |-> "add_songs", add_songs |-> "song_charts",
   song_charts |-> "add_charts", add_charts |-> "scores", scores |-> "stats",
   stats |-> "known_stats", known_stats |-> "add_stats", add_stats |-> "marker",
   marker |-> "ok"]

\* Bug: the playcount is stored ahead of the player's row.
RefreshOrderMarkerFirst ==
  [info |-> "marker", marker |-> "details", details |-> "list", list |-> "songs",
   songs |-> "song_data", song_data |-> "add_songs", add_songs |-> "song_charts",
   song_charts |-> "add_charts", add_charts |-> "relist", relist |-> "all_charts",
   all_charts |-> "add_all_charts", add_all_charts |-> "valid", valid |-> "stats",
   stats |-> "known_stats", known_stats |-> "add_stats", add_stats |-> "recent",
   recent |-> "scores", scores |-> "workout", workout |-> "add_workout",
   add_workout |-> "ok"]

RefreshOrder ==
  [info |-> "details", details |-> "marker", marker |-> "list", list |-> "songs",
   songs |-> "song_data", song_data |-> "add_songs", add_songs |-> "song_charts",
   song_charts |-> "add_charts", add_charts |-> "relist", relist |-> "all_charts",
   all_charts |-> "add_all_charts", add_all_charts |-> "valid", valid |-> "stats",
   stats |-> "known_stats", known_stats |-> "add_stats", add_stats |-> "recent",
   recent |-> "scores", scores |-> "workout", workout |-> "add_workout",
   add_workout |-> "ok"]

PatchOrder ==
  [list |-> "songs", songs |-> "song_data", song_data |-> "add_songs",
   add_songs |-> "song_charts", song_charts |-> "add_charts", add_charts |-> "ok"]

ReloadOrder ==
  [relist |-> "song_data", song_data |-> "add_songs", add_songs |-> "song_charts",
   song_charts |-> "add_charts", add_charts |-> "ok"]

Order == [update |-> UpdateOrder, refresh |-> RefreshOrder,
          patch |-> PatchOrder, reload |-> ReloadOrder]

First == [update |-> "info", refresh |-> "info", patch |-> "list", reload |-> "relist"]

(***************************************************************************)
(* count: the playcount read.  ids: songs to load, named: those whose page *)
(* showed a name.  charts: charts read, or left to load.  recents: plays   *)
(* found on the recent scores page, unseen: those it should have had too.  *)
(* loaded: statistics read.                                                *)
(***************************************************************************)
Local == [pc : Steps \cup Results, op : Ops \cup {"none"}, count : Nat,
          ids : SUBSET Songs, named : SUBSET Songs, charts : SUBSET Charts,
          recents : SUBSET Nat, unseen : SUBSET Nat, loaded : [Charts -> Nat]]

Fresh == [pc |-> "none", op |-> "none", count |-> 0, ids |-> {}, named |-> {},
          charts |-> {}, recents |-> {}, unseen |-> {},
          loaded |-> [c \in Charts |-> 0]]

Init ==
  /\ plays = <<>>
  /\ known = FALSE /\ marker = 0
  /\ songs = [s \in Songs |-> "absent"]
  /\ diffs = {} /\ scores = {}
  /\ stats = [c \in Charts |-> 0]
  /\ owed = 0 /\ missed = {}
  /\ loc = [p \in Procs |-> Fresh]

At(p, steps) == loc[p].pc \in steps

Become(p, local) == loc' = [loc EXCEPT ![p] = local]

\* Over, with an error or as one of the operations that promise nothing.
Fail(p) == Become(p, Fresh)

\* Over without an error: the caller of an update may take it that what it
\* counted, and its page showed, is stored.
End(p, result) ==
  IF loc[p].op # "update" THEN Fail(p)
  ELSE Become(p, [Fresh EXCEPT !.pc = result, !.op = loc[p].op,
                               !.count = loc[p].count, !.unseen = loc[p].unseen])

\* The process dies with its goroutines, and systemd starts it again.
Restart == loc' = [p \in Procs |-> Fresh]

After(p, step) == Order[loc[p].op][step]

\* On with what follows this step, with the variables of local.
Proceed(p, local) ==
  IF After(p, loc[p].pc) = "ok" THEN End(p, "ok")
                                ELSE Become(p, [local EXCEPT !.pc = After(p, loc[p].pc)])

\* A site read that fails ends the operation, LoginState's before it included, and
\* so does a page without a value its parser needs.
PageFails(p) == Faults \cap {"site", "page"} # {} /\ Fail(p)

StatementFails(p) == "db" \in Faults /\ Fail(p)

-----------------------------------------------------------------------------
(* What the site shows.                                                    *)

Recent == {i \in 1..Len(plays) : i + Window > Len(plays)}

\* Play i has a row, if the site still shows it and the playcount covers it.
Covers(count, stored) == \A i \in Recent : i <= count => i \in stored

ChartsOf(ids) == {c \in Charts : SongOf[c] \in ids}

IsLast(c, i) == plays[i] = c /\ \A j \in (i + 1)..Len(plays) : plays[j] # c

\* What the site tells of the last play of c: the NO PLAY page is 0.
LastPlay(c) ==
  IF \E i \in 1..Len(plays) : IsLast(c, i)
  THEN CHOOSE i \in 1..Len(plays) : IsLast(c, i)
  ELSE 0

\* Of what pages should show, what was found on them.
Shown(whole) == IF "page" \in Faults THEN SUBSET whole ELSE {whole}

Play(c) ==
  /\ Len(plays) < MaxPlays
  /\ plays' = Append(plays, c)
  /\ UNCHANGED <<tables, loc>>

-----------------------------------------------------------------------------
(* The player.                                                             *)

Start(p, op) ==
  /\ At(p, Results) /\ op \in MayRun[p]
  /\ Become(p, [Fresh EXCEPT !.pc = First[op], !.op = op])
  /\ UNCHANGED <<plays, tables>>

\* A player who has never played has no such page.
PlayerInformation(p) ==
  /\ At(p, {"info"})
  /\ \/ plays # <<>> /\ Proceed(p, [loc[p] EXCEPT !.count = Len(plays)])
     \/ plays = <<>> /\ Fail(p)
     \/ PageFails(p)
  /\ UNCHANGED <<plays, tables>>

\* gorm's First reports a row that is not there as an error, so the branch that
\* would refresh an unknown player is never taken.
RetrievePlayer(p) ==
  /\ At(p, {"known"})
  /\ \/ known /\ Proceed(p, loc[p])
     \/ ~known /\ Fail(p)
     \/ StatementFails(p)
  /\ UNCHANGED <<plays, tables>>

RetrievePlaycount(p) ==
  /\ At(p, {"latest"})
  /\ \/ marker = 0 /\ Fail(p)
     \/ marker = loc[p].count /\ End(p, "unchanged")
     \/ marker \notin {0, loc[p].count} /\ Proceed(p, loc[p])
     \/ StatementFails(p)
  /\ UNCHANGED <<plays, tables>>

AddPlayerDetails(p) ==
  /\ At(p, {"details"})
  /\ \/ known' = TRUE /\ Proceed(p, loc[p])
     \/ UNCHANGED known /\ StatementFails(p)
  /\ UNCHANGED <<plays, marker, songs, diffs, scores, stats, owed, missed>>

Larger(m, n) == IF m < n THEN n ELSE m

\* A row for each playcount. A refresh stores its row before anything else, and
\* has no more use for it; an update last, whatever its page left out.
AddPlaycounts(p) ==
  /\ At(p, {"marker"})
  /\ \/ /\ marker' = Larger(marker, loc[p].count)
        /\ \/ /\ loc[p].op = "refresh"
              /\ owed' = Larger(owed, loc[p].count)
              /\ Proceed(p, [loc[p] EXCEPT !.count = 0])
              /\ UNCHANGED missed
           \/ /\ loc[p].op = "update"
              /\ missed' = missed \cup (loc[p].unseen \ scores)
              /\ Proceed(p, loc[p])
              /\ UNCHANGED owed
     \/ UNCHANGED <<marker, owed, missed>> /\ StatementFails(p)
  /\ UNCHANGED <<plays, known, songs, diffs, scores, stats>>

-----------------------------------------------------------------------------
(* Songs and charts.                                                       *)

\* SongIdsForClient, for the songs that are new or for all of them.
SongIds(p) ==
  /\ At(p, {"list", "relist"})
  /\ \/ \E ids \in Shown(Songs) : Proceed(p, [loc[p] EXCEPT !.ids = ids])
     \/ PageFails(p)
  /\ UNCHANGED <<plays, tables>>

\* Only songs without a row are loaded, and when there are none only SongsPatch
\* goes through the motions.
NewSongs(p) ==
  /\ At(p, {"songs"})
  /\ \/ LET new == {s \in loc[p].ids : songs[s] = "absent"} IN
        IF new = {} /\ loc[p].op # "patch"
        THEN Become(p, [loc[p] EXCEPT !.ids = {}, !.pc = After(p, "add_charts")])
        ELSE Proceed(p, [loc[p] EXCEPT !.ids = new])
     \/ StatementFails(p)
  /\ UNCHANGED <<plays, tables>>

SongData(p) ==
  /\ At(p, {"song_data"})
  /\ \/ \E named \in Shown(loc[p].ids) : Proceed(p, [loc[p] EXCEPT !.named = named])
     \/ PageFails(p)
  /\ UNCHANGED <<plays, tables>>

\* Bug: on a conflict the row is overwritten.
AddSongsOver(p) ==
  /\ At(p, {"add_songs"})
  /\ songs' = [s \in Songs |-> IF s \in loc[p].ids
                               THEN IF s \in loc[p].named THEN "named" ELSE "blank"
                               ELSE songs[s]]
  /\ Proceed(p, [loc[p] EXCEPT !.named = {}])
  /\ UNCHANGED <<plays, known, marker, diffs, scores, stats, owed, missed>>

\* ON CONFLICT DO NOTHING; a statement of up to 100 rows may fail, and AddSongs
\* returns nil all the same.
AddSongs(p) ==
  /\ At(p, {"add_songs"})
  /\ \E stored \in IF "db" \in Faults THEN SUBSET loc[p].ids ELSE {loc[p].ids} :
       songs' = [s \in Songs |->
                   IF s \in stored /\ songs[s] = "absent"
                   THEN IF s \in loc[p].named THEN "named" ELSE "blank"
                   ELSE songs[s]]
  /\ Proceed(p, [loc[p] EXCEPT !.named = {}])
  /\ UNCHANGED <<plays, known, marker, diffs, scores, stats, owed, missed>>

SongDifficulties(p) ==
  /\ At(p, {"song_charts", "all_charts"})
  /\ \/ \E charts \in Shown(ChartsOf(loc[p].ids)) :
          Proceed(p, [loc[p] EXCEPT !.ids = {}, !.charts = charts])
     \/ PageFails(p)
  /\ UNCHANGED <<plays, tables>>

\* A statement with a chart whose song has no row is refused by the foreign key;
\* of several statements some may fail.
AddDifficulties(p) ==
  /\ At(p, {"add_charts", "add_all_charts"})
  /\ LET storable == {c \in loc[p].charts : songs[SongOf[c]] # "absent"} IN
     \/ /\ storable = loc[p].charts
        /\ diffs' = diffs \cup storable
        /\ Proceed(p, [loc[p] EXCEPT !.charts = {}])
     \/ /\ storable # loc[p].charts \/ "db" \in Faults
        /\ \E stored \in SUBSET storable : diffs' = diffs \cup stored
        /\ Fail(p)
  /\ UNCHANGED <<plays, known, marker, songs, scores, stats, owed, missed>>

RetrieveValidDifficulties(p) ==
  /\ At(p, {"valid"})
  /\ \/ Proceed(p, [loc[p] EXCEPT !.charts = diffs \cap Rated])
     \/ StatementFails(p)
  /\ UNCHANGED <<plays, tables>>

-----------------------------------------------------------------------------
(* Scores, statistics and workouts.                                        *)

\* Plays that an update counted and has not found on its page of scores, though it
\* did find others: a page with none is no excuse. A refresh has stored its
\* playcount by then, and what it misses it keeps owing.
LeftOut(p, recents) ==
  IF loc[p].op = "update" /\ recents # {}
  THEN {i \in Recent \ recents : i <= loc[p].count}
  ELSE {}

FoundScores(p, recents) ==
  Proceed(p, [loc[p] EXCEPT !.recents = recents, !.unseen = LeftOut(p, recents),
                !.ids = IF loc[p].op = "update" THEN {SongOf[plays[i]] : i \in recents}
                                                ELSE {}])

\* Bug: a page without scores is not looked into.
RecentScoresAnyway(p) ==
  /\ At(p, {"recent"})
  /\ (\E recents \in Shown(Recent) : FoundScores(p, recents)) \/ PageFails(p)
  /\ UNCHANGED <<plays, tables>>

\* An update goes on with whatever part of the recent scores came, if any did; a
\* refresh even without.
RecentScores(p) ==
  /\ At(p, {"recent"})
  /\ \/ \E recents \in Shown(Recent) :
          IF recents = {} /\ loc[p].op = "update" THEN Fail(p)
                                                 ELSE FoundScores(p, recents)
     \/ PageFails(p)
  /\ UNCHANGED <<plays, tables>>

\* workoutDataFromDocument panics on the first row of data, so data never gets
\* further than here. net/http recovers a request; nothing recovers the job.
WorkoutData(p) ==
  /\ At(p, {"workout"})
  /\ \/ Proceed(p, loc[p])
     \/ PageFails(p)
     \/ "workout" \in Faults /\ (Fail(p) \/ Restart)
  /\ UNCHANGED <<plays, tables>>

\* The statement for no data at all.
AddWorkoutData(p) ==
  /\ At(p, {"add_workout"})
  /\ Proceed(p, loc[p]) \/ StatementFails(p)
  /\ UNCHANGED <<plays, tables>>

\* Bug: the error of the statement is dropped, as AddSongs drops its own.
AddScoresAnyway(p) ==
  /\ At(p, {"scores"})
  /\ \/ scores' = scores \cup loc[p].recents
     \/ "db" \in Faults /\ UNCHANGED scores
  /\ Proceed(p, [loc[p] EXCEPT !.recents = {},
                   !.charts = IF loc[p].op = "update"
                              THEN {plays[i] : i \in loc[p].recents} ELSE {}])
  /\ UNCHANGED <<plays, known, marker, songs, diffs, stats, owed, missed>>

\* One statement, which the foreign keys refuse as a whole. An update then loads
\* the statistics of the charts in it.
AddScores(p) ==
  /\ At(p, {"scores"})
  /\ \/ /\ \A i \in loc[p].recents : known /\ plays[i] \in diffs
        /\ scores' = scores \cup loc[p].recents
        /\ owed' = IF Covers(owed, scores') THEN 0 ELSE owed
        /\ missed' = missed \ scores'
        /\ Proceed(p, [loc[p] EXCEPT !.recents = {},
                         !.charts = IF loc[p].op = "update"
                                    THEN {plays[i] : i \in loc[p].recents} ELSE {}])
     \/ /\ \/ "db" \in Faults
           \/ \E i \in loc[p].recents : ~known \/ plays[i] \notin diffs
        /\ UNCHANGED <<scores, owed, missed>>
        /\ Fail(p)
  /\ UNCHANGED <<plays, known, marker, songs, diffs, stats>>

\* One page of SongStatisticsForClient. A page that asks to choose a difficulty
\* counts as one of a chart that was not played.
SongStatistics(p) ==
  /\ At(p, {"stats"})
  /\ \/ \E c \in loc[p].charts :
       \E last \in {LastPlay(c)} \cup (IF "page" \in Faults THEN {0} ELSE {}) :
          Become(p, [loc[p] EXCEPT !.charts = @ \ {c}, !.loaded[c] = last])
     \/ loc[p].charts = {} /\ Proceed(p, loc[p])
     \/ loc[p].charts # {} /\ PageFails(p)
  /\ UNCHANGED <<plays, tables>>

\* AddSongStatistics drops those the table has already, if it can read it.
DropKnownStatistics(p) ==
  /\ At(p, {"known_stats"})
  /\ LET loaded == loc[p].loaded
         new == [c \in Charts |-> IF loaded[c] = stats[c] THEN 0 ELSE loaded[c]] IN
     \/ Proceed(p, [loc[p] EXCEPT !.loaded = new])
     \/ "db" \in Faults /\ Proceed(p, loc[p])
  /\ UNCHANGED <<plays, tables>>

\* The rest overwrite what the rows have by now, and an error is not reported; the
\* foreign keys give no reason for one (ForeignKeysHold).
AddSongStatistics(p) ==
  /\ At(p, {"add_stats"})
  /\ LET read == {c \in Charts : loc[p].loaded[c] # 0} IN
     \E stored \in IF "db" \in Faults THEN SUBSET read ELSE {read} :
       stats' = [c \in Charts |-> IF c \in stored THEN loc[p].loaded[c] ELSE stats[c]]
  /\ Proceed(p, [loc[p] EXCEPT !.loaded = Fresh.loaded])
  /\ UNCHANGED <<plays, known, marker, songs, diffs, scores, owed, missed>>

-----------------------------------------------------------------------------

Crash ==
  /\ "crash" \in Faults
  /\ Restart
  /\ UNCHANGED <<plays, tables>>

Continue(p) ==
  \/ PlayerInformation(p) \/ RetrievePlayer(p) \/ RetrievePlaycount(p)
  \/ AddPlayerDetails(p) \/ AddPlaycounts(p)
  \/ SongIds(p) \/ NewSongs(p) \/ SongData(p) \/ AddSongs(p)
  \/ SongDifficulties(p) \/ AddDifficulties(p) \/ RetrieveValidDifficulties(p)
  \/ RecentScores(p) \/ WorkoutData(p) \/ AddWorkoutData(p) \/ AddScores(p)
  \/ SongStatistics(p) \/ DropKnownStatistics(p) \/ AddSongStatistics(p)

Next ==
  \/ \E c \in Charts : Play(c)
  \/ \E p \in Procs : Continue(p) \/ \E op \in Ops : Start(p, op)
  \/ Crash

Spec == Init /\ [][Next]_vars

-----------------------------------------------------------------------------
(* What the tables promise.                                                *)

TypeOK ==
  /\ plays \in Seq(Charts)
  /\ known \in BOOLEAN
  /\ marker \in 0..Len(plays)
  /\ songs \in [Songs -> {"absent", "named", "blank"}]
  /\ diffs \subseteq Charts
  /\ scores \subseteq 1..Len(plays)
  /\ stats \in [Charts -> Nat]
  /\ owed \in Nat /\ missed \subseteq 1..Len(plays)
  /\ loc \in [Procs -> Local]

\* The playcount row decides whether an update does anything, so it must not run
\* ahead of the scores: every play it covers that the site still shows is stored,
\* except those a refresh has marked and not stored, and those missing from the
\* part of the page that an update read before it marked them. No interleaving of
\* updates, plays, failures and crashes adds to the exceptions, and while pages
\* come whole there are none of the second kind.
ScoresFollowMarker ==
  /\ \A i \in Recent : i <= marker => i \in scores \cup missed \/ i <= owed
  /\ missed # {} => "page" \in Faults

\* An update that ran to its end without an error has stored every play it
\* counted that the site still shows and its page did not leave out, whatever
\* ran beside it; so all of them, while pages come whole.
UpdateStoresPage ==
  \A p \in Procs :
    loc[p].op = "update" /\ At(p, {"ok"})
      => /\ Covers(loc[p].count, scores \cup loc[p].unseen)
         /\ loc[p].unseen # {} => "page" \in Faults

\* A song's row is written once: a page read wrongly later does not spoil a name
\* that was read well, whatever ids a goroutine thought were new.
NamesAreKept == [][\A s \in Songs : songs[s] = "named" => songs'[s] = "named"]_vars

\* The scores and the playcount follow ScoreKeeping: no chain raises the playcount
\* over plays it has not stored, but for a refresh, which then owes them until it
\* has, and an update over the plays its page left out; and nothing takes back a
\* score or a playcount.
Keeping == INSTANCE ScoreKeeping WITH played <- Len(plays),
                                      PartialPages <- "page" \in Faults

KeepingSpec == Keeping!Spec

\* The foreign keys among these tables hold (createDdrConstraints, without the
\* keys of ddrPlayerDetails to eaGateUser and of the workouts, whose rows are not
\* here). Of the statistics and the playcounts it is the order of the steps that
\* ensures it, and of statistics that a goroutine is about to store too: a refused
\* statement would go unnoticed, because AddSongStatistics reports no error.
ForeignKeysHold ==
  /\ \A c \in diffs : songs[SongOf[c]] # "absent"
  /\ \A i \in scores : known /\ plays[i] \in diffs
  /\ \A c \in Charts : stats[c] # 0 => known /\ c \in diffs
  /\ marker # 0 => known
  /\ \A p \in Procs, c \in Charts :
       At(p, {"add_stats"}) /\ loc[p].loaded[c] # 0 => known /\ c \in diffs

-----------------------------------------------------------------------------
(* Why it does.                                                            *)

\* Between the recent scores page and AddScores, and after it.
HasRecents(l) ==
  l.op = "update" /\ l.pc \in {"workout", "songs", "song_data", "add_songs",
                               "song_charts", "add_charts", "scores"}

HasStored(l) ==
  l.op = "update" /\ l.pc \in {"stats", "known_stats", "add_stats", "marker", "ok"}

Carries(l) ==
  /\ l.count <= Len(plays)
  /\ l.recents \subseteq 1..Len(plays) /\ l.unseen \subseteq 1..l.count
  /\ l.unseen # {} => l.op = "update" /\ "page" \in Faults
  /\ l.pc \in Steps => l.op \in Ops /\ l.pc \in DOMAIN Order[l.op]
  /\ HasRecents(l) => Covers(l.count, l.recents \cup l.unseen)
  /\ HasStored(l) => Covers(l.count, scores \cup l.unseen)

SyncInv == TypeOK /\ ScoresFollowMarker /\ \A p \in Procs : Carries(loc[p])

\* Past the step that found or stored the player.
HasPlayer(l) ==
  \/ l.op = "update"  /\ l.pc \in Steps \ {"info", "known"}
  \/ l.op = "refresh" /\ l.pc \in Steps \ {"info", "details"}

HasKeys(l) ==
  /\ HasPlayer(l) => known
  /\ l.pc \in {"stats", "known_stats", "add_stats"} => l.op \in {"update", "refresh"}
  /\ l.pc = "stats" => l.charts \subseteq diffs
  /\ \A c \in Charts : l.loaded[c] # 0 => c \in diffs

KeyInv == ForeignKeysHold /\ \A p \in Procs : HasKeys(loc[p])

-----------------------------------------------------------------------------
(* What the comment of UpdatePlayerProfile promises.                       *)

\* An update that returned no error has added the recent scores: "This includes
\* updating the player information, the playcount, adding the recent scores".
UpdateAddsScores ==
  \A p \in Procs :
    loc[p].op = "update" /\ At(p, {"ok", "unchanged"}) => Covers(loc[p].count, scores)

\* And one that ran to its end has, whatever came of its page.
UpdateStoresScores ==
  \A p \in Procs :
    loc[p].op = "update" /\ At(p, {"ok"}) => Covers(loc[p].count, scores)

\* And it has updated the statistics of the charts in them.
UpdateAddsStatistics ==
  \A p \in Procs :
    loc[p].op = "update" /\ At(p, {"ok"})
      => \A i \in Recent : i <= loc[p].count => stats[plays[i]] >= i

=============================================================================
