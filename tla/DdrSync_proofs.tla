--------------------------- MODULE DdrSync_proofs ---------------------------
(***************************************************************************)
(* SyncInv is inductive. Plays only move the recent scores page on, and    *)
(* scores are never removed, so what a goroutine knows to be stored stays  *)
(* stored (lemma CarriesStays); each step of a chain is shown to hand on   *)
(* what the next one relies on (lemma Proceeds).                           *)
(***************************************************************************)
EXTENDS DdrSync, TLAPS

\* The site and the scores table forget nothing.
Grows ==
  /\ \/ plays' = plays
     \/ \E c \in Charts : plays' = Append(plays, c)
  /\ scores \subseteq scores'

Loading == {"workout", "songs", "song_data", "add_songs", "song_charts",
            "add_charts", "scores"}

Storing == {"stats", "known_stats", "add_stats", "marker", "ok"}

-----------------------------------------------------------------------------
(* The chains.                                                             *)

LEMMA UpdateChain ==
  ASSUME NEW s \in DOMAIN UpdateOrder
  PROVE  /\ UpdateOrder[s] \in (DOMAIN UpdateOrder) \cup {"ok"}
         /\ s \in Steps /\ UpdateOrder[s] \in Steps \cup {"ok"}
         /\ UpdateOrder[s] \in Loading => s \in {"recent"} \cup (Loading \ {"scores"})
         /\ UpdateOrder[s] \in Storing => s \in {"scores"} \cup Storing
BY DEF UpdateOrder, Loading, Storing, Steps

LEMMA OtherChains ==
  /\ \A s \in DOMAIN RefreshOrder :
       RefreshOrder[s] \in ((DOMAIN RefreshOrder) \cap Steps) \cup {"ok"}
  /\ \A s \in DOMAIN PatchOrder :
       PatchOrder[s] \in ((DOMAIN PatchOrder) \cap Steps) \cup {"ok"}
  /\ \A s \in DOMAIN ReloadOrder :
       ReloadOrder[s] \in ((DOMAIN ReloadOrder) \cap Steps) \cup {"ok"}
<1>1. \A s \in DOMAIN RefreshOrder :
       RefreshOrder[s] \in ((DOMAIN RefreshOrder) \cap Steps) \cup {"ok"}
  BY DEF RefreshOrder, Steps
<1>2. \A s \in DOMAIN PatchOrder :
       PatchOrder[s] \in ((DOMAIN PatchOrder) \cap Steps) \cup {"ok"}
  BY DEF PatchOrder, Steps
<1>3. \A s \in DOMAIN ReloadOrder :
       ReloadOrder[s] \in ((DOMAIN ReloadOrder) \cap Steps) \cup {"ok"}
  BY DEF ReloadOrder, Steps
<1> QED BY <1>1, <1>2, <1>3

LEMMA Orders ==
  /\ Order["update"] = UpdateOrder /\ Order["refresh"] = RefreshOrder
  /\ Order["patch"] = PatchOrder /\ Order["reload"] = ReloadOrder
BY DEF Order

LEMMA Chains ==
  ASSUME NEW op \in Ops, NEW s \in DOMAIN Order[op]
  PROVE  Order[op][s] \in ((DOMAIN Order[op]) \cap Steps) \cup {"ok"}
<1>1. CASE op = "update" BY <1>1, UpdateChain, Orders
<1>2. CASE op = "refresh" BY <1>2, OtherChains, Orders
<1>3. CASE op = "patch" BY <1>3, OtherChains, Orders
<1>4. CASE op = "reload" BY <1>4, OtherChains, Orders
<1> QED BY <1>1, <1>2, <1>3, <1>4 DEF Ops

-----------------------------------------------------------------------------
(* What one goroutine carries, while the others move.                      *)

LEMMA RecentMoves ==
  ASSUME plays \in Seq(Charts), Grows
  PROVE  /\ plays' \in Seq(Charts) /\ Len(plays) \in Nat
         /\ 1..Len(plays) \subseteq 1..Len(plays') /\ Len(plays) <= Len(plays')
         /\ \A i \in Recent' : i <= Len(plays) => i \in Recent
BY SyncAssumption DEF Grows, Recent

LEMMA CoversStays ==
  ASSUME plays \in Seq(Charts), Grows, NEW count \in Nat, count <= Len(plays),
         NEW stored, NEW more, stored \subseteq more, Covers(count, stored)
  PROVE  Covers(count, more)'
<1>1. \A i \in Recent' : i <= count => i \in Recent
  BY RecentMoves DEF Recent
<1> QED BY <1>1 DEF Covers

LEMMA CarriesStays ==
  ASSUME plays \in Seq(Charts), Grows, NEW l \in Local, Carries(l)
  PROVE  Carries(l)'
<1>1. l.count \in Nat /\ l.count <= Len(plays) /\ l.recents \subseteq 1..Len(plays)
  BY DEF Carries, Local
<1>2. l.count <= Len(plays') /\ l.recents \subseteq 1..Len(plays')
  BY <1>1, RecentMoves
<1>3. HasRecents(l) => Covers(l.count, l.recents \cup l.unseen)'
  BY <1>1, CoversStays DEF Carries
<1>4. HasStored(l) => Covers(l.count, scores \cup l.unseen)'
  <2>1. scores \cup l.unseen \subseteq scores' \cup l.unseen
    BY DEF Grows
  <2> QED BY <1>1, <2>1, CoversStays DEF Carries
<1> QED BY <1>2, <1>3, <1>4 DEF Carries, HasRecents, HasStored

LEMMA FreshCarries == TypeOK => Fresh \in Local /\ Carries(Fresh)
BY DEF TypeOK, Fresh, Local, Carries, HasRecents, HasStored, Steps, Results

\* One goroutine has new local variables, or all of them are gone.
LocStep(p) == Restart \/ \E l \in Local : Become(p, l) /\ Carries(l)'

LEMMA Preservation ==
  ASSUME SyncInv, NEW p \in Procs, Grows, LocStep(p) \/ UNCHANGED loc
  PROVE  loc' \in [Procs -> Local] /\ \A q \in Procs : Carries(loc[q])'
<1>1. plays \in Seq(Charts) /\ loc \in [Procs -> Local]
  BY DEF SyncInv, TypeOK
<1>2. Fresh \in Local /\ Carries(Fresh)'
  BY <1>1, FreshCarries, CarriesStays DEF SyncInv
<1>3. loc' \in [Procs -> Local]
  BY <1>1, <1>2 DEF LocStep, Restart, Become
<1>4. ASSUME NEW q \in Procs PROVE Carries(loc[q])'
  <2>1. CASE loc'[q] = Fresh
    BY <1>2, <2>1
  <2>2. CASE loc'[q] = loc[q]
    <3>1. PICK l \in Local : l = loc[q]
      BY <1>1
    <3>2. Carries(l)'
      BY <1>1, <3>1, CarriesStays DEF SyncInv
    <3> QED BY <2>2, <3>1, <3>2
  <2>3. CASE loc'[q] # Fresh /\ loc'[q] # loc[q]
    <3>1. PICK l \in Local : loc' = [loc EXCEPT ![p] = l] /\ Carries(l)'
      BY <1>1, <2>3 DEF LocStep, Restart, Become
    <3>2. loc'[q] = l
      BY <1>1, <2>3, <3>1
    <3> QED BY <3>1, <3>2
  <2> QED BY <2>1, <2>2, <2>3
<1> QED BY <1>3, <1>4

-----------------------------------------------------------------------------
(* What a step hands on.                                                   *)

LEMMA StepNow ==
  ASSUME SyncInv, NEW p \in Procs, loc[p].pc \in Steps
  PROVE  /\ plays \in Seq(Charts) /\ Len(plays) \in Nat
         /\ loc[p] \in Local /\ loc \in [Procs -> Local] /\ Carries(loc[p])
         /\ loc[p].op \in Ops /\ loc[p].pc \in DOMAIN Order[loc[p].op]
         /\ After(p, loc[p].pc) \in Steps \cup {"ok"}
<1>1. plays \in Seq(Charts) /\ loc[p] \in Local /\ Carries(loc[p])
      /\ loc \in [Procs -> Local]
  BY DEF SyncInv, TypeOK
<1>2. loc[p].op \in Ops /\ loc[p].pc \in DOMAIN Order[loc[p].op]
  BY <1>1 DEF Carries
<1>3. After(p, loc[p].pc) \in Steps \cup {"ok"}
  BY <1>2, Chains DEF After
<1>4. Len(plays) \in Nat
  BY <1>1
<1> QED BY <1>1, <1>2, <1>3, <1>4

LEMMA Becomes ==
  ASSUME SyncInv, NEW p \in Procs, Grows,
         NEW l \in Local, Become(p, l), Carries(l)
  PROVE  LocStep(p)
BY CarriesStays DEF LocStep, SyncInv, TypeOK

LEMMA FailMoves ==
  ASSUME SyncInv, NEW p \in Procs, Grows, Fail(p)
  PROVE  LocStep(p)
BY FreshCarries, Becomes DEF Fail, SyncInv

LEMMA EndMoves ==
  ASSUME SyncInv, NEW p \in Procs, Grows, loc[p].pc \in Steps, End(p, "unchanged")
  PROVE  LocStep(p)
<1> DEFINE l == [Fresh EXCEPT !.pc = "unchanged", !.op = loc[p].op,
                              !.count = loc[p].count, !.unseen = loc[p].unseen]
<1>1. loc[p] \in Local /\ Carries(loc[p]) /\ Len(plays) \in Nat
  BY StepNow
<1>2. CASE loc[p].op # "update"
  BY <1>2, FailMoves DEF End
<1>3. CASE loc[p].op = "update"
  <2>1. /\ l \in Local /\ l.pc = "unchanged" /\ l.op = loc[p].op
        /\ l.count = loc[p].count /\ l.recents = {} /\ l.unseen = loc[p].unseen
    BY <1>1 DEF Fresh, Local, Results
  <2>2. Carries(l)
    BY <1>1, <2>1 DEF Carries, HasRecents, HasStored, Steps
  <2>3. Become(p, l)
    BY <1>3 DEF End
  <2> QED BY <2>1, <2>2, <2>3, Becomes
<1> QED BY <1>2, <1>3

\* Every play the count covers, but for those left out, is stored after this step.
CoversNext(count, left) == \A i \in Recent' : i <= count => i \in scores' \cup left

\* What must hold of local, with which p goes on.
HandsOn(p, local) ==
  /\ local.op = loc[p].op
  /\ local.count <= Len(plays) /\ local.recents \subseteq 1..Len(plays)
  /\ local.unseen \subseteq 1..local.count
  /\ local.unseen # {} => loc[p].op = "update" /\ "page" \in Faults
  /\ loc[p].pc \in {"recent"} \cup (Loading \ {"scores"}) /\ loc[p].op = "update"
       => Covers(local.count, local.recents \cup local.unseen)
  /\ loc[p].pc \in {"scores"} \cup Storing /\ loc[p].op = "update"
       => CoversNext(local.count, local.unseen)
  /\ After(p, loc[p].pc) = "ok"
       => local.count = loc[p].count /\ local.unseen = loc[p].unseen

LEMMA Proceeds ==
  ASSUME SyncInv, NEW p \in Procs, Grows, loc[p].pc \in Steps,
         NEW local \in Local, HandsOn(p, local), Proceed(p, local)
  PROVE  LocStep(p)
<1> DEFINE next == After(p, loc[p].pc)
<1> DEFINE ended == [Fresh EXCEPT !.pc = "ok", !.op = loc[p].op,
                                  !.count = loc[p].count, !.unseen = loc[p].unseen]
<1>0. PICK l : l = IF next = "ok" THEN ended ELSE [local EXCEPT !.pc = next]
  OBVIOUS
<1>1. /\ plays \in Seq(Charts) /\ Len(plays) \in Nat /\ Len(plays') \in Nat
      /\ loc[p] \in Local
      /\ loc[p].op \in Ops /\ loc[p].pc \in DOMAIN Order[loc[p].op]
      /\ next \in Steps \cup {"ok"}
      /\ Len(plays) <= Len(plays') /\ 1..Len(plays) \subseteq 1..Len(plays')
  BY StepNow, RecentMoves
<1>2. l \in Local
  BY <1>0, <1>1 DEF Local, Fresh, Results
<1>3. Become(p, l) \/ Fail(p)
  BY <1>0 DEF Proceed, End
<1>4. /\ l.op = loc[p].op /\ l.pc = next /\ l.count = local.count
      /\ l.recents = (IF next = "ok" THEN {} ELSE local.recents)
      /\ l.unseen = local.unseen
  BY <1>0, <1>1 DEF HandsOn, Local, Fresh
<1>5. loc[p].op = "update"
        => /\ next \in Loading => loc[p].pc \in {"recent"} \cup (Loading \ {"scores"})
           /\ next \in Storing => loc[p].pc \in {"scores"} \cup Storing
  BY <1>1, UpdateChain, Orders DEF After
<1>6. next \in Steps => next \in DOMAIN Order[l.op]
  <2>1. next \in ((DOMAIN Order[loc[p].op]) \cap Steps) \cup {"ok"}
    BY <1>1, Chains DEF After
  <2> QED BY <1>4, <2>1 DEF Steps
<1>7. local.count \in Nat
  BY DEF Local
<1>8. HasRecents(l) => Covers(l.count, l.recents \cup l.unseen)'
  <2>1. ASSUME HasRecents(l) PROVE Covers(local.count, local.recents \cup local.unseen)
    BY <2>1, <1>4, <1>5 DEF HasRecents, HandsOn, Loading
  <2>2. HasRecents(l) => next # "ok"
    BY <1>4 DEF HasRecents
  <2> QED BY <1>1, <1>4, <1>7, <2>1, <2>2, CoversStays DEF HandsOn
<1>9. HasStored(l) => Covers(l.count, scores \cup l.unseen)'
  BY <1>4, <1>5 DEF HasStored, HandsOn, Storing, CoversNext, Covers
<1>10. Carries(l)'
  <2>1. l.count <= Len(plays') /\ l.recents \subseteq 1..Len(plays')
    BY <1>1, <1>4, <1>7 DEF HandsOn
  <2>2. l.pc \in Steps => l.op \in Ops /\ l.pc \in DOMAIN Order[l.op]
    BY <1>1, <1>4, <1>6
  <2>3. l.unseen \subseteq 1..l.count /\ (l.unseen # {} => l.op = "update" /\ "page" \in Faults)
    BY <1>4 DEF HandsOn
  <2> QED BY <1>1, <1>4, <1>8, <1>9, <2>1, <2>2, <2>3 DEF Carries, HasRecents, HasStored
<1> QED BY <1>2, <1>3, <1>10, FailMoves DEF LocStep

\* The step changes nothing that is handed on.
LEMMA ProceedsAlone ==
  ASSUME SyncInv, NEW p \in Procs, Grows, loc[p].pc \in Steps \ {"recent", "scores"},
         NEW local \in Local, Proceed(p, local), local.op = loc[p].op,
         local.count = loc[p].count, local.recents = loc[p].recents,
         local.unseen = loc[p].unseen
  PROVE  LocStep(p)
<1>1. plays \in Seq(Charts) /\ loc[p] \in Local /\ Carries(loc[p])
  BY StepNow
<1>2. loc[p].count \in Nat
  BY <1>1 DEF Local
<1>3. PICK l : l = loc[p]
  OBVIOUS
<1>4. HasStored(loc[p]) => Covers(l.count, scores \cup l.unseen)'
  <2>1. scores \cup l.unseen \subseteq scores' \cup l.unseen
    BY DEF Grows
  <2> QED BY <1>1, <1>2, <1>3, <2>1, CoversStays DEF Carries
<1>5. HasStored(loc[p]) => CoversNext(loc[p].count, loc[p].unseen)
  BY <1>3, <1>4 DEF Covers, CoversNext
<1>6. /\ loc[p].pc \in {"recent"} \cup (Loading \ {"scores"}) /\ loc[p].op = "update"
           => HasRecents(loc[p])
      /\ loc[p].pc \in {"scores"} \cup Storing /\ loc[p].op = "update"
           => HasStored(loc[p])
  BY DEF HasRecents, HasStored, Loading, Storing
<1>7. HandsOn(p, local)
  BY <1>1, <1>5, <1>6 DEF HandsOn, Carries
<1> QED BY <1>7, Proceeds

-----------------------------------------------------------------------------
(* The steps, one by one: what they do to the variables of the goroutine.   *)

LEMMA Quiet ==
  ASSUME UNCHANGED <<plays, scores>>
  PROVE  Grows
BY DEF Grows

LEMMA Fails ==
  ASSUME SyncInv, NEW p \in Procs, Grows, loc[p].pc \in Steps,
         PageFails(p) \/ StatementFails(p)
  PROVE  LocStep(p)
BY FailMoves DEF PageFails, StatementFails

LEMMA PlayerInformationMoves ==
  ASSUME SyncInv, NEW p \in Procs, PlayerInformation(p)
  PROVE  LocStep(p)
<1> DEFINE read == [loc[p] EXCEPT !.count = Len(plays)]
<1>1. loc[p].pc = "info" /\ "info" \in Steps /\ Grows
  BY Quiet DEF PlayerInformation, At, Steps, tables
<1>2. /\ Len(plays) \in Nat /\ loc[p] \in Local /\ loc[p].op \in Ops
      /\ "info" \in DOMAIN Order[loc[p].op] /\ Carries(loc[p])
  BY <1>1, StepNow
<1>3. After(p, "info") # "ok"
  BY <1>2 DEF After, Order, UpdateOrder, RefreshOrder, PatchOrder, ReloadOrder, Ops
<1>4. /\ read \in Local /\ read.op = loc[p].op /\ read.count = Len(plays)
      /\ read.recents = loc[p].recents /\ read.unseen = loc[p].unseen
      /\ loc[p].count \in Nat
  BY <1>2 DEF Local
<1>5. HandsOn(p, read)
  BY <1>1, <1>2, <1>3, <1>4 DEF HandsOn, Carries, Loading, Storing
<1>6. CASE Proceed(p, read)
  BY <1>1, <1>4, <1>5, <1>6, Proceeds
<1>7. CASE Fail(p) \/ PageFails(p)
  BY <1>1, <1>7, FailMoves, Fails
<1> QED BY <1>6, <1>7 DEF PlayerInformation

LEMMA RetrievePlayerMoves ==
  ASSUME SyncInv, NEW p \in Procs, RetrievePlayer(p)
  PROVE  LocStep(p)
<1>1. loc[p].pc \in Steps \ {"recent", "scores"} /\ Grows
  BY Quiet DEF RetrievePlayer, At, Steps, tables
<1>2. CASE Proceed(p, loc[p])
  BY <1>1, <1>2, StepNow, ProceedsAlone
<1>3. CASE Fail(p) \/ StatementFails(p)
  BY <1>1, <1>3, FailMoves, Fails
<1> QED BY <1>2, <1>3 DEF RetrievePlayer

LEMMA RetrievePlaycountMoves ==
  ASSUME SyncInv, NEW p \in Procs, RetrievePlaycount(p)
  PROVE  LocStep(p)
<1>1. loc[p].pc \in Steps \ {"recent", "scores"} /\ Grows
  BY Quiet DEF RetrievePlaycount, At, Steps, tables
<1>2. CASE Proceed(p, loc[p])
  BY <1>1, <1>2, StepNow, ProceedsAlone
<1>3. CASE Fail(p) \/ End(p, "unchanged") \/ StatementFails(p)
  BY <1>1, <1>3, FailMoves, EndMoves, Fails
<1> QED BY <1>2, <1>3 DEF RetrievePlaycount

LEMMA AddPlayerDetailsMoves ==
  ASSUME SyncInv, NEW p \in Procs, AddPlayerDetails(p)
  PROVE  LocStep(p)
<1>1. loc[p].pc \in Steps \ {"recent", "scores"} /\ Grows
  BY Quiet DEF AddPlayerDetails, At, Steps
<1>2. CASE Proceed(p, loc[p])
  BY <1>1, <1>2, StepNow, ProceedsAlone
<1>3. CASE StatementFails(p)
  BY <1>1, <1>3, Fails
<1> QED BY <1>2, <1>3 DEF AddPlayerDetails

LEMMA AddPlaycountsMoves ==
  ASSUME SyncInv, NEW p \in Procs, AddPlaycounts(p)
  PROVE  LocStep(p)
<1>1. /\ loc[p].pc = "marker" /\ loc[p].pc \in Steps \ {"recent", "scores"}
      /\ Grows
  BY Quiet DEF AddPlaycounts, At, Steps
<1>2. loc[p] \in Local /\ Carries(loc[p])
  BY <1>1, StepNow
<1>3. CASE loc[p].op = "refresh" /\ Proceed(p, [loc[p] EXCEPT !.count = 0])
  <2> DEFINE l == [loc[p] EXCEPT !.count = 0]
  <2>1. /\ l \in Local /\ l.op = "refresh" /\ l.count = 0
        /\ l.recents = loc[p].recents /\ l.unseen = loc[p].unseen
    BY <1>2, <1>3 DEF Local
  <2>2. l.unseen = {} /\ l.recents \subseteq 1..Len(plays) /\ Len(plays) \in Nat
    BY <1>1, <1>2, <1>3, <2>1, StepNow DEF Carries
  <2>3. After(p, "marker") # "ok"
    BY <1>3, Orders DEF After, RefreshOrder
  <2>4. HandsOn(p, l)
    BY <1>1, <1>3, <2>1, <2>2, <2>3 DEF HandsOn
  <2> QED BY <1>1, <1>3, <2>1, <2>4, Proceeds
<1>4. CASE Proceed(p, loc[p])
  BY <1>1, <1>2, <1>4, ProceedsAlone
<1>5. CASE StatementFails(p)
  BY <1>1, <1>5, Fails
<1> QED BY <1>3, <1>4, <1>5 DEF AddPlaycounts

LEMMA SongIdsMoves ==
  ASSUME SyncInv, NEW p \in Procs, SongIds(p)
  PROVE  LocStep(p)
<1>1. loc[p].pc \in Steps \ {"recent", "scores"} /\ Grows
  BY Quiet DEF SongIds, At, Steps, tables
<1>2. ASSUME NEW ids \in SUBSET Songs, Proceed(p, [loc[p] EXCEPT !.ids = ids])
      PROVE  LocStep(p)
  <2>1. [loc[p] EXCEPT !.ids = ids] \in Local
    BY <1>1, StepNow DEF Local
  <2> QED BY <1>1, <1>2, <2>1, StepNow, ProceedsAlone DEF Local
<1>3. CASE PageFails(p)
  BY <1>1, <1>3, Fails
<1> QED BY <1>2, <1>3 DEF SongIds, Shown

LEMMA NewSongsMoves ==
  ASSUME SyncInv, NEW p \in Procs, NewSongs(p)
  PROVE  LocStep(p)
<1> DEFINE new == {s \in loc[p].ids : songs[s] = "absent"}
           skip == [loc[p] EXCEPT !.ids = {}, !.pc = After(p, "add_charts")]
           go == [loc[p] EXCEPT !.ids = new]
<1>1. loc[p].pc = "songs" /\ loc[p].pc \in Steps \ {"recent", "scores"} /\ Grows
  BY Quiet DEF NewSongs, At, Steps, tables
<1>2. /\ loc[p] \in Local /\ Carries(loc[p]) /\ loc[p].op \in Ops
      /\ "songs" \in DOMAIN Order[loc[p].op]
  BY <1>1, StepNow
<1>3. CASE loc[p].op # "patch" /\ Become(p, skip)
  <2>1. \/ loc[p].op = "update" /\ After(p, "add_charts") = "scores"
        \/ loc[p].op = "refresh" /\ After(p, "add_charts") = "relist"
    BY <1>2, <1>3, Orders DEF After, Ops, UpdateOrder, RefreshOrder, ReloadOrder
  <2>2. skip \in Local
    BY <1>2, <2>1 DEF Local, Steps
  <2>3. /\ skip.op = loc[p].op /\ skip.pc = After(p, "add_charts")
        /\ skip.count = loc[p].count /\ skip.recents = loc[p].recents
        /\ skip.unseen = loc[p].unseen
    BY <1>2 DEF Local
  <2>4. skip.op \in Ops /\ skip.pc \in DOMAIN Order[skip.op]
    BY <1>2, <2>1, <2>3, Orders DEF UpdateOrder, RefreshOrder
  <2>5. HasRecents(skip) => HasRecents(loc[p])
    BY <1>1, <2>3 DEF HasRecents
  <2>6. ~HasStored(skip)
    BY <2>1, <2>3 DEF HasStored
  <2>7. Carries(skip)
    BY <1>2, <2>1, <2>3, <2>4, <2>5, <2>6 DEF Carries
  <2> QED BY <1>1, <1>3, <2>2, <2>7, Becomes
<1>4. CASE Proceed(p, go)
  <2>1. go \in Local /\ go.op = loc[p].op /\ go.count = loc[p].count
        /\ go.recents = loc[p].recents /\ go.unseen = loc[p].unseen
    BY <1>2 DEF Local
  <2> QED BY <1>1, <1>4, <2>1, ProceedsAlone
<1>5. CASE StatementFails(p)
  BY <1>1, <1>5, Fails
<1> QED BY <1>3, <1>4, <1>5 DEF NewSongs

LEMMA SongDataMoves ==
  ASSUME SyncInv, NEW p \in Procs, SongData(p)
  PROVE  LocStep(p)
<1>1. loc[p].pc \in Steps \ {"recent", "scores"} /\ Grows
  BY Quiet DEF SongData, At, Steps, tables
<1>2. loc[p] \in Local /\ loc[p].ids \subseteq Songs
  BY <1>1, StepNow DEF Local
<1>3. ASSUME NEW named \in SUBSET loc[p].ids,
             Proceed(p, [loc[p] EXCEPT !.named = named])
      PROVE  LocStep(p)
  <2>1. [loc[p] EXCEPT !.named = named] \in Local
    BY <1>2 DEF Local
  <2> QED BY <1>1, <1>2, <1>3, <2>1, ProceedsAlone DEF Local
<1>4. CASE PageFails(p)
  BY <1>1, <1>4, Fails
<1> QED BY <1>3, <1>4 DEF SongData, Shown

LEMMA AddSongsMoves ==
  ASSUME SyncInv, NEW p \in Procs, AddSongs(p)
  PROVE  LocStep(p)
<1>1. loc[p].pc \in Steps \ {"recent", "scores"} /\ Grows
  BY Quiet DEF AddSongs, At, Steps
<1>2. loc[p] \in Local /\ [loc[p] EXCEPT !.named = {}] \in Local
  BY <1>1, StepNow DEF Local
<1> QED BY <1>1, <1>2, ProceedsAlone DEF AddSongs, Local

LEMMA SongDifficultiesMoves ==
  ASSUME SyncInv, NEW p \in Procs, SongDifficulties(p)
  PROVE  LocStep(p)
<1>1. loc[p].pc \in Steps \ {"recent", "scores"} /\ Grows
  BY Quiet DEF SongDifficulties, At, Steps, tables
<1>2. ASSUME NEW charts \in SUBSET ChartsOf(loc[p].ids),
             Proceed(p, [loc[p] EXCEPT !.ids = {}, !.charts = charts])
      PROVE  LocStep(p)
  <2> DEFINE l == [loc[p] EXCEPT !.ids = {}, !.charts = charts]
  <2>1. loc[p] \in Local /\ l \in Local
    BY <1>1, StepNow DEF Local, ChartsOf
  <2> QED BY <1>1, <1>2, <2>1, ProceedsAlone DEF Local
<1>3. CASE PageFails(p)
  BY <1>1, <1>3, Fails
<1> QED BY <1>2, <1>3 DEF SongDifficulties, Shown

LEMMA AddDifficultiesMoves ==
  ASSUME SyncInv, NEW p \in Procs, AddDifficulties(p)
  PROVE  LocStep(p)
<1>1. loc[p].pc \in Steps \ {"recent", "scores"} /\ Grows
  BY Quiet DEF AddDifficulties, At, Steps
<1>2. loc[p] \in Local /\ [loc[p] EXCEPT !.charts = {}] \in Local
  BY <1>1, StepNow DEF Local
<1>3. CASE Proceed(p, [loc[p] EXCEPT !.charts = {}])
  BY <1>1, <1>2, <1>3, ProceedsAlone DEF Local
<1>4. CASE Fail(p)
  BY <1>1, <1>4, FailMoves
<1> QED BY <1>3, <1>4 DEF AddDifficulties

LEMMA RetrieveValidDifficultiesMoves ==
  ASSUME SyncInv, NEW p \in Procs, RetrieveValidDifficulties(p)
  PROVE  LocStep(p)
<1> DEFINE l == [loc[p] EXCEPT !.charts = diffs \cap Rated]
<1>1. loc[p].pc \in Steps \ {"recent", "scores"} /\ Grows
  BY Quiet DEF RetrieveValidDifficulties, At, Steps, tables
<1>2. loc[p] \in Local /\ l \in Local
  BY <1>1, StepNow DEF Local, SyncInv, TypeOK
<1>3. CASE Proceed(p, l)
  BY <1>1, <1>2, <1>3, ProceedsAlone DEF Local
<1>4. CASE StatementFails(p)
  BY <1>1, <1>4, Fails
<1> QED BY <1>3, <1>4 DEF RetrieveValidDifficulties

LEMMA RecentScoresMoves ==
  ASSUME SyncInv, NEW p \in Procs, RecentScores(p)
  PROVE  LocStep(p)
<1>1. loc[p].pc = "recent" /\ loc[p].pc \in Steps /\ Grows
  BY Quiet DEF RecentScores, At, Steps, tables
<1>2. /\ plays \in Seq(Charts) /\ Len(plays) \in Nat
      /\ loc[p] \in Local /\ Carries(loc[p]) /\ loc[p].op \in Ops
      /\ "recent" \in DOMAIN Order[loc[p].op]
  BY <1>1, StepNow
<1>3. After(p, "recent") # "ok"
  BY <1>2, Orders DEF After, Ops, UpdateOrder, RefreshOrder, PatchOrder, ReloadOrder
<1>4. ASSUME NEW recents \in Shown(Recent), loc[p].op = "update" => recents # {},
             FoundScores(p, recents)
      PROVE  LocStep(p)
  <2> DEFINE ids == IF loc[p].op = "update" THEN {SongOf[plays[i]] : i \in recents} ELSE {}
             left == LeftOut(p, recents)
             l == [loc[p] EXCEPT !.recents = recents, !.unseen = left, !.ids = ids]
  <2>1. /\ recents \subseteq Recent /\ Recent \subseteq 1..Len(plays)
        /\ recents \subseteq Nat
        /\ left \subseteq 1..loc[p].count /\ left \subseteq Nat
        /\ left # {} => loc[p].op = "update" /\ "page" \in Faults
    BY <1>2 DEF Recent, Shown, LeftOut
  <2>2. ids \subseteq Songs
    BY <1>2, <2>1, SyncAssumption
  <2>3. /\ l \in Local /\ l.op = loc[p].op /\ l.count = loc[p].count
        /\ l.recents = recents /\ l.unseen = left
    BY <1>2, <2>1, <2>2 DEF Local
  <2>4. loc[p].op = "update" => Covers(l.count, recents \cup left)
    BY <1>4, <2>3 DEF Covers, LeftOut
  <2>5. HandsOn(p, l)
    BY <1>1, <1>2, <1>3, <2>1, <2>3, <2>4 DEF HandsOn, Carries, Storing
  <2> QED BY <1>1, <1>4, <2>3, <2>5, Proceeds DEF FoundScores
<1>5. CASE Fail(p) \/ PageFails(p)
  BY <1>1, <1>5, FailMoves, Fails
<1> QED BY <1>4, <1>5 DEF RecentScores

LEMMA WorkoutDataMoves ==
  ASSUME SyncInv, NEW p \in Procs, WorkoutData(p)
  PROVE  LocStep(p)
<1>1. loc[p].pc \in Steps \ {"recent", "scores"} /\ Grows
  BY Quiet DEF WorkoutData, At, Steps, tables
<1>2. CASE Proceed(p, loc[p])
  BY <1>1, <1>2, StepNow, ProceedsAlone
<1>3. CASE Fail(p) \/ PageFails(p)
  BY <1>1, <1>3, FailMoves, Fails
<1>4. CASE Restart
  BY <1>4 DEF LocStep
<1> QED BY <1>2, <1>3, <1>4 DEF WorkoutData

LEMMA AddWorkoutDataMoves ==
  ASSUME SyncInv, NEW p \in Procs, AddWorkoutData(p)
  PROVE  LocStep(p)
<1>1. loc[p].pc \in Steps \ {"recent", "scores"} /\ Grows
  BY Quiet DEF AddWorkoutData, At, Steps, tables
<1>2. CASE Proceed(p, loc[p])
  BY <1>1, <1>2, StepNow, ProceedsAlone
<1>3. CASE StatementFails(p)
  BY <1>1, <1>3, Fails
<1> QED BY <1>2, <1>3 DEF AddWorkoutData

LEMMA AddScoresMoves ==
  ASSUME SyncInv, NEW p \in Procs, AddScores(p)
  PROVE  LocStep(p)
<1> DEFINE charts == IF loc[p].op = "update" THEN {plays[i] : i \in loc[p].recents} ELSE {}
           l == [loc[p] EXCEPT !.recents = {}, !.charts = charts]
<1>1. loc[p].pc = "scores" /\ loc[p].pc \in Steps /\ Grows
  BY DEF AddScores, At, Steps, Grows
<1>2. /\ plays \in Seq(Charts) /\ Len(plays) \in Nat
      /\ loc[p] \in Local /\ Carries(loc[p]) /\ loc[p].op \in Ops
      /\ "scores" \in DOMAIN Order[loc[p].op]
  BY <1>1, StepNow
<1>3. CASE scores' = scores \cup loc[p].recents /\ Proceed(p, l)
  <2>1. charts \subseteq Charts
    BY <1>2 DEF Carries
  <2>2. /\ l \in Local /\ l.op = loc[p].op /\ l.count = loc[p].count
        /\ l.recents = {} /\ l.unseen = loc[p].unseen
    BY <1>2, <2>1 DEF Local
  <2>3. loc[p].op = "update" => Covers(loc[p].count, loc[p].recents \cup loc[p].unseen)
    BY <1>1, <1>2 DEF Carries, HasRecents
  <2>4. Recent' = Recent
    BY DEF AddScores, Recent
  <2>5. loc[p].op = "update" => CoversNext(l.count, l.unseen)
    BY <1>3, <2>2, <2>3, <2>4 DEF CoversNext, Covers
  <2>6. HandsOn(p, l)
    BY <1>1, <1>2, <2>2, <2>5 DEF HandsOn, Carries, Loading
  <2> QED BY <1>1, <1>3, <2>2, <2>6, Proceeds
<1>4. CASE Fail(p)
  BY <1>1, <1>4, FailMoves
<1> QED BY <1>3, <1>4 DEF AddScores

LEMMA LastPlayIsAPlay ==
  plays \in Seq(Charts) =>
    \A c \in Charts : LastPlay(c) \in Nat
BY DEF LastPlay

LEMMA SongStatisticsMoves ==
  ASSUME SyncInv, NEW p \in Procs, SongStatistics(p)
  PROVE  LocStep(p)
<1>1. loc[p].pc \in Steps \ {"recent", "scores"} /\ Grows
  BY Quiet DEF SongStatistics, At, Steps, tables
<1>2. plays \in Seq(Charts) /\ loc[p] \in Local /\ Carries(loc[p])
  BY <1>1, StepNow
<1>3. ASSUME NEW c \in loc[p].charts, NEW last \in {LastPlay(c), 0},
             Become(p, [loc[p] EXCEPT !.charts = @ \ {c}, !.loaded[c] = last])
      PROVE  LocStep(p)
  <2> DEFINE l == [loc[p] EXCEPT !.charts = @ \ {c}, !.loaded[c] = last]
  <2>1. c \in Charts /\ last \in Nat
    BY <1>2, LastPlayIsAPlay DEF Local
  <2>2. /\ l \in Local /\ l.op = loc[p].op /\ l.count = loc[p].count
        /\ l.recents = loc[p].recents /\ l.unseen = loc[p].unseen /\ l.pc = loc[p].pc
    BY <1>2, <2>1 DEF Local
  <2>3. Carries(l)
    BY <1>2, <2>2 DEF Carries, HasRecents, HasStored
  <2> QED BY <1>1, <1>3, <2>2, <2>3, Becomes
<1>4. CASE Proceed(p, loc[p])
  BY <1>1, <1>2, <1>4, ProceedsAlone
<1>5. CASE PageFails(p)
  BY <1>1, <1>5, Fails
<1> QED BY <1>3, <1>4, <1>5 DEF SongStatistics

LEMMA DropKnownStatisticsMoves ==
  ASSUME SyncInv, NEW p \in Procs, DropKnownStatistics(p)
  PROVE  LocStep(p)
<1> DEFINE new == [c \in Charts |-> IF loc[p].loaded[c] = stats[c] THEN 0 ELSE loc[p].loaded[c]]
           l == [loc[p] EXCEPT !.loaded = new]
<1>1. loc[p].pc \in Steps \ {"recent", "scores"} /\ Grows
  BY Quiet DEF DropKnownStatistics, At, Steps, tables
<1>2. loc[p] \in Local
  BY <1>1, StepNow
<1>3. l \in Local
  BY <1>2 DEF Local
<1>4. CASE Proceed(p, l)
  BY <1>1, <1>2, <1>3, <1>4, ProceedsAlone DEF Local
<1>5. CASE Proceed(p, loc[p])
  BY <1>1, <1>2, <1>5, ProceedsAlone
<1> QED BY <1>2, <1>4, <1>5 DEF DropKnownStatistics, Local

LEMMA AddSongStatisticsMoves ==
  ASSUME SyncInv, NEW p \in Procs, AddSongStatistics(p)
  PROVE  LocStep(p)
<1> DEFINE l == [loc[p] EXCEPT !.loaded = Fresh.loaded]
<1>1. loc[p].pc \in Steps \ {"recent", "scores"} /\ Grows
  BY Quiet DEF AddSongStatistics, At, Steps
<1>2. loc[p] \in Local /\ l \in Local
  BY <1>1, StepNow DEF Local, Fresh
<1>3. Proceed(p, l)
  BY DEF AddSongStatistics
<1> QED BY <1>1, <1>2, <1>3, ProceedsAlone DEF Local

LEMMA StartMoves ==
  ASSUME SyncInv, NEW p \in Procs, NEW op \in Ops, Start(p, op)
  PROVE  LocStep(p)
<1> DEFINE l == [Fresh EXCEPT !.pc = First[op], !.op = op]
<1>1. First[op] \in Steps /\ First[op] \in DOMAIN Order[op]
  BY Orders DEF First, Ops, Steps, UpdateOrder, RefreshOrder, PatchOrder, ReloadOrder
<1>2. First[op] \in {"info", "list", "relist"}
  BY DEF First, Ops
<1>3. /\ l \in Local /\ l.op = op /\ l.count = 0 /\ l.recents = {} /\ l.unseen = {}
      /\ l.pc = First[op]
  BY <1>1 DEF Local, Fresh
<1>4. Carries(l)
  BY <1>1, <1>2, <1>3 DEF Carries, HasRecents, HasStored, SyncInv, TypeOK
<1>5. Become(p, l) /\ Grows
  BY Quiet DEF Start, tables
<1> QED BY <1>3, <1>4, <1>5, Becomes

-----------------------------------------------------------------------------
(* The tables.                                                             *)

TablesTyped ==
  /\ plays \in Seq(Charts)
  /\ known \in BOOLEAN
  /\ marker \in 0..Len(plays)
  /\ songs \in [Songs -> {"absent", "named", "blank"}]
  /\ diffs \subseteq Charts
  /\ scores \subseteq 1..Len(plays)
  /\ stats \in [Charts -> Nat]
  /\ owed \in Nat /\ missed \subseteq 1..Len(plays)

LEMMA TypeSplit == TypeOK <=> TablesTyped /\ loc \in [Procs -> Local]
BY DEF TypeOK, TablesTyped

\* All that is promised of the tables, and that nothing is forgotten.
TablesStep == TablesTyped' /\ ScoresFollowMarker' /\ Grows

LEMMA TablesRest ==
  ASSUME SyncInv, UNCHANGED <<plays, tables>>
  PROVE  TablesStep
<1>1. UNCHANGED <<plays, known, marker, songs, diffs, scores, stats, owed, missed>>
  BY DEF tables
<1>2. TablesTyped'
  BY <1>1, TypeSplit DEF SyncInv, TablesTyped
<1>3. ScoresFollowMarker'
  BY <1>1 DEF SyncInv, ScoresFollowMarker, Recent
<1> QED BY <1>1, <1>2, <1>3 DEF TablesStep, Grows

\* Only two steps move the playcount or what is stored, owed and missed.
LEMMA OtherTables ==
  ASSUME SyncInv, UNCHANGED <<plays, marker, scores, owed, missed>>,
         known' \in BOOLEAN, songs' \in [Songs -> {"absent", "named", "blank"}],
         diffs' \subseteq Charts, stats' \in [Charts -> Nat]
  PROVE  TablesStep
<1>1. TablesTyped'
  BY TypeSplit DEF SyncInv, TablesTyped
<1>2. ScoresFollowMarker'
  BY DEF SyncInv, ScoresFollowMarker, Recent
<1> QED BY <1>1, <1>2 DEF TablesStep, Grows

LEMMA PlayTables ==
  ASSUME SyncInv, NEW c \in Charts, Play(c)
  PROVE  TablesStep
<1>1. /\ plays' = Append(plays, c) /\ Grows
      /\ UNCHANGED <<known, marker, songs, diffs, scores, stats, owed, missed>>
  BY DEF Play, tables, Grows
<1>2. TablesTyped
  BY TypeSplit DEF SyncInv
<1>3. /\ plays' \in Seq(Charts) /\ Len(plays) \in Nat /\ Len(plays') \in Nat
      /\ 1..Len(plays) \subseteq 1..Len(plays') /\ Len(plays) <= Len(plays')
      /\ \A i \in Recent' : i <= Len(plays) => i \in Recent
  BY <1>1, <1>2, RecentMoves DEF TablesTyped
<1>4. TablesTyped'
  BY <1>1, <1>2, <1>3 DEF TablesTyped
<1>5. ASSUME NEW i \in Recent', i <= marker'
      PROVE  i \in scores' \cup missed' \/ i <= owed'
  <2>1. i \in Nat /\ marker \in Nat /\ marker <= Len(plays)
    BY <1>2, <1>3 DEF TablesTyped, Recent
  <2>2. i \in Recent /\ i <= marker
    BY <1>1, <1>3, <1>5, <2>1
  <2> QED BY <1>1, <2>2 DEF SyncInv, ScoresFollowMarker
<1>6. missed' # {} => "page" \in Faults
  BY <1>1 DEF SyncInv, ScoresFollowMarker
<1> QED BY <1>1, <1>4, <1>5, <1>6 DEF TablesStep, ScoresFollowMarker

LEMMA AddPlaycountsTables ==
  ASSUME SyncInv, NEW p \in Procs, AddPlaycounts(p)
  PROVE  TablesStep
<1> DEFINE n == loc[p].count
<1>1. UNCHANGED <<plays, known, songs, diffs, scores, stats>>
  BY DEF AddPlaycounts
<1>2. TablesTyped
  BY TypeSplit DEF SyncInv
<1>3. loc[p].pc = "marker" /\ loc[p].pc \in Steps
  BY DEF AddPlaycounts, At, Steps
<1>4. /\ Len(plays) \in Nat /\ n \in Nat /\ n <= Len(plays) /\ Carries(loc[p])
      /\ loc[p].unseen \subseteq 1..n
      /\ loc[p].unseen # {} => "page" \in Faults
  BY <1>3, StepNow DEF Carries, Local
<1>5. loc[p].op = "update" => Covers(n, scores \cup loc[p].unseen)
  BY <1>3, <1>4 DEF Carries, HasStored
<1>6. CASE UNCHANGED <<marker, owed, missed>>
  BY <1>1, <1>6, TablesRest DEF tables
<1>7. CASE /\ marker' = Larger(marker, n)
           /\ \/ /\ owed' = Larger(owed, n)
                 /\ UNCHANGED missed
              \/ /\ loc[p].op = "update"
                 /\ missed' = missed \cup (loc[p].unseen \ scores)
                 /\ UNCHANGED owed
  <2>1. /\ marker \in Nat /\ owed \in Nat /\ marker' \in 0..Len(plays)
        /\ owed' \in Nat /\ owed <= owed' /\ marker' \in {marker, n}
    BY <1>2, <1>4, <1>7 DEF TablesTyped, Larger
  <2>2. missed \subseteq missed' /\ missed' \subseteq missed \cup loc[p].unseen
    BY <1>7
  <2>3. TablesTyped'
    BY <1>1, <1>2, <1>4, <2>1, <2>2 DEF TablesTyped
  <2>4. ASSUME NEW i \in Recent, i <= marker'
        PROVE  i \in scores \cup missed' \/ i <= owed'
    <3>1. i \in Nat
      BY <1>4 DEF Recent
    <3>2. CASE marker' = marker
      BY <2>1, <2>2, <2>4, <3>1, <3>2 DEF SyncInv, ScoresFollowMarker
    <3>3. CASE marker' = n /\ owed' = Larger(owed, n)
      BY <1>4, <2>1, <2>4, <3>1, <3>3 DEF Larger
    <3>4. CASE /\ marker' = n /\ loc[p].op = "update"
               /\ missed' = missed \cup (loc[p].unseen \ scores)
      BY <1>5, <2>4, <3>4 DEF Covers
    <3> QED BY <1>7, <2>1, <3>2, <3>3, <3>4
  <2>5. missed' # {} => "page" \in Faults
    BY <1>4, <2>2 DEF SyncInv, ScoresFollowMarker
  <2>6. Recent' = Recent
    BY <1>1 DEF Recent
  <2> QED BY <1>1, <2>3, <2>4, <2>5, <2>6 DEF TablesStep, ScoresFollowMarker, Grows
<1> QED BY <1>6, <1>7 DEF AddPlaycounts

LEMMA AddScoresTables ==
  ASSUME SyncInv, NEW p \in Procs, AddScores(p)
  PROVE  TablesStep
<1> DEFINE recents == loc[p].recents
<1>1. UNCHANGED <<plays, known, marker, songs, diffs, stats>>
  BY DEF AddScores
<1>2. TablesTyped
  BY TypeSplit DEF SyncInv
<1>3. loc[p].pc \in Steps
  BY DEF AddScores, At, Steps
<1>4. recents \subseteq 1..Len(plays)
  BY <1>3, StepNow DEF Carries
<1>5. CASE UNCHANGED <<scores, owed, missed>>
  BY <1>1, <1>5, TablesRest DEF tables
<1>6. CASE /\ scores' = scores \cup recents
           /\ owed' = IF Covers(owed, scores') THEN 0 ELSE owed
           /\ missed' = missed \ scores'
  <2>1. TablesTyped'
    BY <1>1, <1>2, <1>4, <1>6 DEF TablesTyped
  <2>2. ASSUME NEW i \in Recent, i <= marker
        PROVE  i \in scores' \cup missed' \/ i <= owed'
    <3>1. CASE i \in scores \cup missed
      BY <1>6, <3>1
    <3>2. CASE i <= owed
      BY <1>6, <3>2 DEF Covers
    <3> QED BY <2>2, <3>1, <3>2 DEF SyncInv, ScoresFollowMarker
  <2>3. missed' # {} => "page" \in Faults
    BY <1>6 DEF SyncInv, ScoresFollowMarker
  <2>4. Recent' = Recent
    BY <1>1 DEF Recent
  <2> QED BY <1>1, <1>6, <2>1, <2>2, <2>3, <2>4 DEF TablesStep, ScoresFollowMarker, Grows
<1> QED BY <1>5, <1>6 DEF AddScores

LEMMA AddPlayerDetailsTables ==
  ASSUME SyncInv, NEW p \in Procs, AddPlayerDetails(p)
  PROVE  TablesStep
BY OtherTables DEF AddPlayerDetails, SyncInv, TypeOK

LEMMA AddSongsTables ==
  ASSUME SyncInv, NEW p \in Procs, AddSongs(p)
  PROVE  TablesStep
<1>1. UNCHANGED <<plays, known, marker, diffs, scores, stats, owed, missed>>
  BY DEF AddSongs
<1>2. songs' \in [Songs -> {"absent", "named", "blank"}]
  BY DEF AddSongs, SyncInv, TypeOK
<1> QED BY <1>1, <1>2, OtherTables DEF SyncInv, TypeOK

LEMMA AddDifficultiesTables ==
  ASSUME SyncInv, NEW p \in Procs, AddDifficulties(p)
  PROVE  TablesStep
<1>1. UNCHANGED <<plays, known, marker, songs, scores, stats, owed, missed>>
  BY DEF AddDifficulties
<1>2. loc[p].charts \subseteq Charts
  BY StepNow DEF AddDifficulties, At, Steps, Local
<1>3. diffs' \subseteq Charts
  BY <1>2 DEF AddDifficulties, SyncInv, TypeOK
<1> QED BY <1>1, <1>3, OtherTables DEF SyncInv, TypeOK

LEMMA AddSongStatisticsTables ==
  ASSUME SyncInv, NEW p \in Procs, AddSongStatistics(p)
  PROVE  TablesStep
<1>1. UNCHANGED <<plays, known, marker, songs, diffs, scores, owed, missed>>
  BY DEF AddSongStatistics
<1>2. loc[p].loaded \in [Charts -> Nat]
  BY StepNow DEF AddSongStatistics, At, Steps, Local
<1>3. stats' \in [Charts -> Nat]
  BY <1>2 DEF AddSongStatistics, SyncInv, TypeOK
<1> QED BY <1>1, <1>3, OtherTables DEF SyncInv, TypeOK

-----------------------------------------------------------------------------
(* Every step preserves SyncInv.                                           *)

LEMMA Preserved ==
  ASSUME SyncInv, TablesStep,
         UNCHANGED loc \/ Restart \/ \E p \in Procs : LocStep(p)
  PROVE  SyncInv'
<1>1. loc' \in [Procs -> Local] /\ \A q \in Procs : Carries(loc[q])'
  <2>1. CASE \E p \in Procs : LocStep(p)
    BY <2>1, Preservation DEF TablesStep
  <2>2. CASE UNCHANGED loc \/ Restart
    <3>1. CASE Procs = {}
      BY <2>2, <3>1 DEF Restart, SyncInv, TypeOK
    <3>2. CASE Procs # {}
      BY <2>2, <3>2, Preservation DEF LocStep, TablesStep
    <3> QED BY <3>1, <3>2
  <2> QED BY <2>1, <2>2
<1>2. TypeOK'
  BY <1>1 DEF TablesStep, TablesTyped, TypeOK
<1> QED BY <1>1, <1>2 DEF SyncInv, TablesStep

LEMMA ContinueTables ==
  ASSUME SyncInv, NEW p \in Procs, Continue(p)
  PROVE  TablesStep
<1>1. CASE AddPlayerDetails(p) BY <1>1, AddPlayerDetailsTables
<1>2. CASE AddPlaycounts(p) BY <1>2, AddPlaycountsTables
<1>3. CASE AddSongs(p) BY <1>3, AddSongsTables
<1>4. CASE AddDifficulties(p) BY <1>4, AddDifficultiesTables
<1>5. CASE AddScores(p) BY <1>5, AddScoresTables
<1>6. CASE AddSongStatistics(p) BY <1>6, AddSongStatisticsTables
<1>7. CASE \/ PlayerInformation(p) \/ RetrievePlayer(p) \/ RetrievePlaycount(p)
           \/ SongIds(p) \/ NewSongs(p) \/ SongData(p) \/ SongDifficulties(p)
           \/ RetrieveValidDifficulties(p) \/ RecentScores(p) \/ WorkoutData(p)
           \/ AddWorkoutData(p) \/ SongStatistics(p) \/ DropKnownStatistics(p)
  <2>1. UNCHANGED <<plays, tables>>
    BY <1>7 DEF PlayerInformation, RetrievePlayer, RetrievePlaycount, SongIds,
         NewSongs, SongData, SongDifficulties, RetrieveValidDifficulties,
         RecentScores, WorkoutData, AddWorkoutData, SongStatistics,
         DropKnownStatistics
  <2> QED BY <2>1, TablesRest
<1> QED BY <1>1, <1>2, <1>3, <1>4, <1>5, <1>6, <1>7 DEF Continue

LEMMA ContinueMoves ==
  ASSUME SyncInv, NEW p \in Procs, Continue(p)
  PROVE  LocStep(p)
BY PlayerInformationMoves, RetrievePlayerMoves, RetrievePlaycountMoves,
   AddPlayerDetailsMoves, AddPlaycountsMoves, SongIdsMoves, NewSongsMoves,
   SongDataMoves, AddSongsMoves, SongDifficultiesMoves, AddDifficultiesMoves,
   RetrieveValidDifficultiesMoves, RecentScoresMoves, WorkoutDataMoves,
   AddWorkoutDataMoves, AddScoresMoves, SongStatisticsMoves,
   DropKnownStatisticsMoves, AddSongStatisticsMoves
   DEF Continue

LEMMA InitInv == Init => SyncInv
<1> SUFFICES ASSUME Init PROVE SyncInv
  OBVIOUS
<1>1. TypeOK
  <2>1. Fresh \in Local
    BY DEF Fresh, Local, Results
  <2>2. plays \in Seq(Charts) /\ Len(plays) = 0
    BY DEF Init
  <2>3. songs \in [Songs -> {"absent", "named", "blank"}]
    BY DEF Init
  <2>4. loc \in [Procs -> Local] /\ stats \in [Charts -> Nat]
    BY <2>1 DEF Init
  <2>5. /\ marker \in 0..Len(plays) /\ scores = {} /\ diffs = {}
        /\ owed = 0 /\ missed = {}
    BY <2>2 DEF Init
  <2>6. known \in BOOLEAN
    BY DEF Init
  <2> QED BY <2>2, <2>3, <2>4, <2>5, <2>6 DEF TypeOK
<1>2. \A p \in Procs : loc[p] = Fresh
  BY DEF Init
<1>3. Recent = {} /\ missed = {}
  BY DEF Init, Recent
<1> QED BY <1>1, <1>2, <1>3, FreshCarries DEF SyncInv, ScoresFollowMarker

LEMMA NextInv == SyncInv /\ [Next]_vars => SyncInv'
<1> SUFFICES ASSUME SyncInv, [Next]_vars PROVE SyncInv'
  OBVIOUS
<1>1. ASSUME NEW c \in Charts, Play(c) PROVE SyncInv'
  <2>1. TablesStep
    BY <1>1, PlayTables
  <2> QED BY <1>1, <2>1, Preserved DEF Play
<1>2. ASSUME NEW p \in Procs, Continue(p) PROVE SyncInv'
  <2>1. TablesStep /\ LocStep(p)
    BY <1>2, ContinueTables, ContinueMoves
  <2> QED BY <2>1, Preserved
<1>3. ASSUME NEW p \in Procs, NEW op \in Ops, Start(p, op) PROVE SyncInv'
  <2>1. TablesStep /\ LocStep(p)
    BY <1>3, TablesRest, StartMoves DEF Start
  <2> QED BY <2>1, Preserved
<1>4. CASE Crash
  <2>1. TablesStep
    BY <1>4, TablesRest DEF Crash
  <2> QED BY <1>4, <2>1, Preserved DEF Crash
<1>5. CASE UNCHANGED vars
  <2>1. UNCHANGED <<plays, tables>> /\ UNCHANGED loc
    BY <1>5 DEF vars
  <2> QED BY <2>1, TablesRest, Preserved
<1> QED BY <1>1, <1>2, <1>3, <1>4, <1>5 DEF Next

\* Whatever the player plays, whatever fails, and whatever other updates,
\* refreshes and patches run beside it, SyncInv holds.
THEOREM SyncInvariant == Spec => []SyncInv
BY InitInv, NextInv, PTL DEF Spec

\* The playcount row never runs ahead of the stored scores by more than what a
\* refresh has marked and not stored, and what was missing from the part of the
\* recent scores page that an update read; of the latter there is nothing as long
\* as pages come whole.
THEOREM MarkerFollowed == Spec => []ScoresFollowMarker
<1>1. SyncInv => ScoresFollowMarker
  BY DEF SyncInv
<1> QED BY <1>1, SyncInvariant, PTL

\* An update that ends without an error has stored every play it counted that
\* the site still shows, save those its page left out: none, of a whole page.
THEOREM UpdatesStore == Spec => []UpdateStoresPage
<1>1. SyncInv => UpdateStoresPage
  BY DEF SyncInv, Carries, HasStored, UpdateStoresPage, At
<1> QED BY <1>1, SyncInvariant, PTL

-----------------------------------------------------------------------------
(* Songs.                                                                  *)

LEMMA SongsKept ==
  [Next]_vars => [\A s \in Songs : songs[s] = "named" => songs'[s] = "named"]_vars
<1> SUFFICES ASSUME [Next]_vars
             PROVE  \A s \in Songs : songs[s] = "named" => songs'[s] = "named"
  OBVIOUS
<1>1. ASSUME NEW p \in Procs, AddSongs(p)
      PROVE  \A s \in Songs : songs[s] = "named" => songs'[s] = "named"
  BY <1>1 DEF AddSongs
<1>2. CASE UNCHANGED songs
  BY <1>2
<1>3. (\E p \in Procs : AddSongs(p)) \/ UNCHANGED songs
  BY DEF Next, Continue, Play, Start, Crash, PlayerInformation, RetrievePlayer,
     RetrievePlaycount, AddPlayerDetails, AddPlaycounts, SongIds, NewSongs,
     SongData, SongDifficulties, AddDifficulties, RetrieveValidDifficulties,
     RecentScores, WorkoutData, AddWorkoutData, AddScores, SongStatistics,
     DropKnownStatistics, AddSongStatistics, vars, tables
<1> QED BY <1>1, <1>2, <1>3

\* No step of any operation, fault or interleaving loses the name of a song.
THEOREM NamesKept == Spec => NamesAreKept
BY SongsKept, PTL DEF Spec, NamesAreKept

-----------------------------------------------------------------------------
(* The foreign keys. Nothing is deleted, so a goroutine that has seen a    *)
(* row may rely on it; HasKeys says which rows each one has seen.          *)

TableKeys ==
  /\ \A c \in diffs : songs[SongOf[c]] # "absent"
  /\ \A i \in scores : known /\ plays[i] \in diffs
  /\ \A c \in Charts : stats[c] # 0 => known /\ c \in diffs
  /\ marker # 0 => known

RowsStay == (known => known') /\ diffs \subseteq diffs'

LEMMA KeySplit == KeyInv <=> TableKeys /\ \A p \in Procs : HasKeys(loc[p])
BY DEF KeyInv, ForeignKeysHold, TableKeys, HasKeys, HasPlayer, At, Steps

LEMMA HasKeysStays ==
  ASSUME RowsStay, NEW l, HasKeys(l)
  PROVE  HasKeys(l)'
BY DEF RowsStay, HasKeys, HasPlayer

LEMMA EndedHasKeys ==
  ASSUME NEW l, l.pc \notin Steps, \A c \in Charts : l.loaded[c] = 0
  PROVE  HasKeys(l)
BY DEF HasKeys, HasPlayer, Steps

\* One goroutine has new local variables, or all of them are gone.
KeyMove(p) == Restart \/ \E l : Become(p, l) /\ HasKeys(l)'

LEMMA KeysKept ==
  ASSUME SyncInv, KeyInv, RowsStay,
         UNCHANGED loc \/ Restart \/ \E p \in Procs : KeyMove(p)
  PROVE  \A q \in Procs : HasKeys(loc[q])'
<1> SUFFICES ASSUME NEW q \in Procs PROVE HasKeys(loc[q])'
  OBVIOUS
<1>1. loc \in [Procs -> Local]
  BY DEF SyncInv, TypeOK
<1>2. PICK f : f = Fresh
  OBVIOUS
<1>3. HasKeys(f)
  BY <1>2, EndedHasKeys DEF Fresh, Steps
<1>4. HasKeys(f)'
  BY <1>3, HasKeysStays
<1>5. CASE loc'[q] = f
  BY <1>4, <1>5
<1>6. CASE loc'[q] = loc[q]
  <2>1. PICK l : l = loc[q]
    OBVIOUS
  <2>2. HasKeys(l)
    BY <2>1, KeySplit
  <2>3. HasKeys(l)'
    BY <2>2, HasKeysStays
  <2> QED BY <1>6, <2>1, <2>3
<1>7. CASE loc'[q] # f /\ loc'[q] # loc[q]
  <2>1. PICK p \in Procs : \E l : loc' = [loc EXCEPT ![p] = l] /\ HasKeys(l)'
    BY <1>1, <1>2, <1>7 DEF KeyMove, Restart, Become
  <2>2. PICK l : loc' = [loc EXCEPT ![p] = l] /\ HasKeys(l)'
    BY <2>1
  <2>3. loc'[q] = l
    BY <1>1, <1>7, <2>2
  <2> QED BY <2>2, <2>3
<1> QED BY <1>5, <1>6, <1>7

LEMMA KeyChains ==
  /\ \A s \in DOMAIN UpdateOrder :
       /\ UpdateOrder[s] \notin {"info", "known"} => s # "info"
       /\ UpdateOrder[s] = "stats" => s = "scores"
       /\ UpdateOrder[s] = "known_stats" => s = "stats"
       /\ UpdateOrder[s] = "add_stats" => s = "known_stats"
  /\ \A s \in DOMAIN RefreshOrder :
       /\ RefreshOrder[s] \notin {"info", "details"} => s # "info"
       /\ RefreshOrder[s] = "stats" => s = "valid"
       /\ RefreshOrder[s] = "known_stats" => s = "stats"
       /\ RefreshOrder[s] = "add_stats" => s = "known_stats"
  /\ \A s \in DOMAIN PatchOrder : PatchOrder[s] \notin {"stats", "known_stats", "add_stats"}
  /\ \A s \in DOMAIN ReloadOrder : ReloadOrder[s] \notin {"stats", "known_stats", "add_stats"}
<1>1. \A s \in DOMAIN UpdateOrder :
       /\ UpdateOrder[s] \notin {"info", "known"} => s # "info"
       /\ UpdateOrder[s] = "stats" => s = "scores"
       /\ UpdateOrder[s] = "known_stats" => s = "stats"
       /\ UpdateOrder[s] = "add_stats" => s = "known_stats"
  BY DEF UpdateOrder
<1>2. \A s \in DOMAIN RefreshOrder :
       /\ RefreshOrder[s] \notin {"info", "details"} => s # "info"
       /\ RefreshOrder[s] = "stats" => s = "valid"
       /\ RefreshOrder[s] = "known_stats" => s = "stats"
       /\ RefreshOrder[s] = "add_stats" => s = "known_stats"
  BY DEF RefreshOrder
<1>3. \A s \in DOMAIN PatchOrder : PatchOrder[s] \notin {"stats", "known_stats", "add_stats"}
  BY DEF PatchOrder
<1>4. \A s \in DOMAIN ReloadOrder : ReloadOrder[s] \notin {"stats", "known_stats", "add_stats"}
  BY DEF ReloadOrder
<1> QED BY <1>1, <1>2, <1>3, <1>4

\* The same of the goroutine that takes a step.
LEMMA StepKeys ==
  ASSUME SyncInv, NEW p \in Procs, loc[p].pc \in Steps
  PROVE  LET next == After(p, loc[p].pc) IN
         /\ loc[p].op = "update" /\ next \notin {"info", "known"} => loc[p].pc # "info"
         /\ loc[p].op = "refresh" /\ next \notin {"info", "details"} => loc[p].pc # "info"
         /\ next = "stats" => \/ loc[p].op = "update" /\ loc[p].pc = "scores"
                              \/ loc[p].op = "refresh" /\ loc[p].pc = "valid"
         /\ next = "known_stats" => loc[p].pc = "stats"
         /\ next = "add_stats" => loc[p].pc = "known_stats"
<1>1. /\ loc[p].op \in Ops /\ loc[p].pc \in DOMAIN Order[loc[p].op]
      /\ After(p, loc[p].pc) = Order[loc[p].op][loc[p].pc]
  BY StepNow DEF After
<1>2. CASE loc[p].op = "update"
  BY <1>1, <1>2, KeyChains, Orders
<1>3. CASE loc[p].op = "refresh"
  BY <1>1, <1>3, KeyChains, Orders
<1>4. CASE loc[p].op = "patch"
  BY <1>1, <1>4, KeyChains, Orders
<1>5. CASE loc[p].op = "reload"
  BY <1>1, <1>5, KeyChains, Orders
<1> QED BY <1>1, <1>2, <1>3, <1>4, <1>5 DEF Ops

LEMMA FailsWithKeys ==
  ASSUME NEW p \in Procs, Fail(p)
  PROVE  KeyMove(p)
<1>1. PICK l : l = Fresh
  OBVIOUS
<1>2. HasKeys(l)'
  BY <1>1 DEF HasKeys, HasPlayer, Steps, Fresh
<1> QED BY <1>1, <1>2 DEF KeyMove, Fail

LEMMA EndsWithKeys ==
  ASSUME NEW p \in Procs, NEW result \in {"unchanged", "ok"}, End(p, result)
  PROVE  KeyMove(p)
<1>1. PICK l : l = [Fresh EXCEPT !.pc = result, !.op = loc[p].op,
                                 !.count = loc[p].count, !.unseen = loc[p].unseen]
  OBVIOUS
<1>2. l.pc = result /\ \A c \in Charts : l.loaded[c] = 0
  BY <1>1 DEF Fresh
<1>3. HasKeys(l)'
  BY <1>2 DEF HasKeys, HasPlayer, Steps
<1> QED BY <1>1, <1>3, FailsWithKeys DEF KeyMove, End

\* What must hold of local, with which p goes on, once this step is done.
HandsKeys(p, local) ==
  /\ local.op = loc[p].op
  /\ loc[p].op = "update" /\ loc[p].pc = "known" => known'
  /\ loc[p].op = "refresh" /\ loc[p].pc = "details" => known'
  /\ loc[p].pc \in {"scores", "valid"} => local.charts \subseteq diffs'
  /\ \A c \in Charts : local.loaded[c] # 0 => c \in diffs'

LEMMA ProceedsWithKeys ==
  ASSUME SyncInv, KeyInv, RowsStay, NEW p \in Procs, loc[p].pc \in Steps,
         NEW local \in Local, HandsKeys(p, local), Proceed(p, local)
  PROVE  KeyMove(p)
<1> DEFINE next == After(p, loc[p].pc)
<1>1. PICK l : l = [local EXCEPT !.pc = next]
  OBVIOUS
<1>2. CASE next = "ok"
  BY <1>2, EndsWithKeys DEF Proceed
<1>3. CASE next # "ok"
  <2>1. /\ l.pc = next /\ l.op = loc[p].op /\ l.charts = local.charts
        /\ l.loaded = local.loaded
    BY <1>1 DEF Local, HandsKeys
  <2>2. next \in Steps /\ loc[p].op \in Ops
    BY <1>3, StepNow
  <2>3. HasPlayer(l) => known'
    <3>1. HasPlayer(loc[p]) => known'
      BY KeySplit DEF HasKeys, RowsStay
    <3>2. ASSUME HasPlayer(l) PROVE HasPlayer(loc[p]) \/ known'
      BY <2>1, <3>2, StepKeys DEF HasPlayer, HandsKeys
    <3> QED BY <3>1, <3>2
  <2>4. l.pc \in {"stats", "known_stats", "add_stats"} => l.op \in {"update", "refresh"}
    <3>1. loc[p].pc \in {"stats", "known_stats"} => loc[p].op \in {"update", "refresh"}
      BY KeySplit DEF HasKeys
    <3> QED BY <2>1, <3>1, StepKeys
  <2>5. l.pc = "stats" => l.charts \subseteq diffs'
    BY <2>1, StepKeys DEF HandsKeys
  <2>6. HasKeys(l)'
    BY <2>1, <2>3, <2>4, <2>5 DEF HasKeys, HasPlayer, HandsKeys
  <2> QED BY <1>1, <1>3, <2>6 DEF KeyMove, Proceed
<1> QED BY <1>2, <1>3

\* The step hands on what it was handed, and no new charts.
LEMMA ProceedsWithSame ==
  ASSUME SyncInv, KeyInv, RowsStay, NEW p \in Procs,
         loc[p].pc \in Steps \ {"known", "details", "scores", "valid"},
         NEW local \in Local, Proceed(p, local), local.op = loc[p].op,
         local.loaded = loc[p].loaded
  PROVE  KeyMove(p)
<1>1. \A c \in Charts : loc[p].loaded[c] # 0 => c \in diffs'
  BY KeySplit DEF HasKeys, RowsStay
<1> QED BY <1>1, ProceedsWithKeys DEF HandsKeys

\* A step that reads: the tables stay, and what it hands on is no chart to load.
LEMMA ReadsWithKeys ==
  ASSUME SyncInv, KeyInv, NEW p \in Procs,
         \/ PlayerInformation(p) \/ RetrievePlaycount(p) \/ SongIds(p) \/ NewSongs(p)
         \/ SongData(p) \/ SongDifficulties(p) \/ RecentScores(p) \/ WorkoutData(p)
         \/ AddWorkoutData(p)
  PROVE  KeyMove(p)
<1>1. RowsStay /\ loc[p].pc \in Steps \ {"known", "details", "scores", "valid"}
  <2> DEFINE reads == RowsStay /\ loc[p].pc \in Steps \ {"known", "details", "scores", "valid"}
  <2>1. ASSUME PlayerInformation(p) PROVE reads
    BY <2>1 DEF RowsStay, tables, At, Steps, PlayerInformation
  <2>2. ASSUME RetrievePlaycount(p) PROVE reads
    BY <2>2 DEF RowsStay, tables, At, Steps, RetrievePlaycount
  <2>3. ASSUME SongIds(p) PROVE reads
    BY <2>3 DEF RowsStay, tables, At, Steps, SongIds
  <2>4. ASSUME NewSongs(p) PROVE reads
    BY <2>4 DEF RowsStay, tables, At, Steps, NewSongs
  <2>5. ASSUME SongData(p) PROVE reads
    BY <2>5 DEF RowsStay, tables, At, Steps, SongData
  <2>6. ASSUME SongDifficulties(p) PROVE reads
    BY <2>6 DEF RowsStay, tables, At, Steps, SongDifficulties
  <2>7. ASSUME RecentScores(p) PROVE reads
    BY <2>7 DEF RowsStay, tables, At, Steps, RecentScores
  <2>8. ASSUME WorkoutData(p) PROVE reads
    BY <2>8 DEF RowsStay, tables, At, Steps, WorkoutData
  <2>9. ASSUME AddWorkoutData(p) PROVE reads
    BY <2>9 DEF RowsStay, tables, At, Steps, AddWorkoutData
  <2> QED BY <2>1, <2>2, <2>3, <2>4, <2>5, <2>6, <2>7, <2>8, <2>9
<1>2. plays \in Seq(Charts) /\ loc[p] \in Local /\ Len(plays) \in Nat
  BY <1>1, StepNow
<1>3. ASSUME PageFails(p) \/ StatementFails(p) \/ Fail(p) \/ End(p, "unchanged")
      PROVE  KeyMove(p)
  BY <1>1, <1>3, EndsWithKeys, FailsWithKeys DEF PageFails, StatementFails
<1>4. ASSUME Proceed(p, loc[p]) PROVE KeyMove(p)
  BY <1>1, <1>2, <1>4, ProceedsWithSame
<1>5. ASSUME PlayerInformation(p) PROVE KeyMove(p)
  <2>1. ASSUME Proceed(p, [loc[p] EXCEPT !.count = Len(plays)]) PROVE KeyMove(p)
    <3>1. [loc[p] EXCEPT !.count = Len(plays)] \in Local
      BY <1>2 DEF Local
    <3> QED BY <1>1, <1>2, <2>1, <3>1, ProceedsWithSame DEF Local
  <2> QED BY <1>3, <1>5, <2>1 DEF PlayerInformation
<1>6. ASSUME SongIds(p) PROVE KeyMove(p)
  <2>1. ASSUME NEW ids \in SUBSET Songs, Proceed(p, [loc[p] EXCEPT !.ids = ids])
        PROVE  KeyMove(p)
    <3>1. [loc[p] EXCEPT !.ids = ids] \in Local
      BY <1>2 DEF Local
    <3> QED BY <1>1, <1>2, <2>1, <3>1, ProceedsWithSame DEF Local
  <2> QED BY <1>3, <1>6, <2>1 DEF SongIds, Shown
<1>7. ASSUME SongData(p) PROVE KeyMove(p)
  <2>1. ASSUME NEW named \in SUBSET loc[p].ids,
               Proceed(p, [loc[p] EXCEPT !.named = named])
        PROVE  KeyMove(p)
    <3>1. [loc[p] EXCEPT !.named = named] \in Local
      BY <1>2 DEF Local
    <3> QED BY <1>1, <1>2, <2>1, <3>1, ProceedsWithSame DEF Local
  <2> QED BY <1>3, <1>7, <2>1 DEF SongData, Shown
<1>8. ASSUME SongDifficulties(p) PROVE KeyMove(p)
  <2>1. ASSUME NEW charts \in SUBSET ChartsOf(loc[p].ids),
               Proceed(p, [loc[p] EXCEPT !.ids = {}, !.charts = charts])
        PROVE  KeyMove(p)
    <3>1. [loc[p] EXCEPT !.ids = {}, !.charts = charts] \in Local
      BY <1>2 DEF Local, ChartsOf
    <3> QED BY <1>1, <1>2, <2>1, <3>1, ProceedsWithSame DEF Local
  <2> QED BY <1>3, <1>8, <2>1 DEF SongDifficulties, Shown
<1>9. ASSUME RecentScores(p) PROVE KeyMove(p)
  <2>1. ASSUME NEW recents \in Shown(Recent), FoundScores(p, recents)
        PROVE  KeyMove(p)
    <3> DEFINE ids == IF loc[p].op = "update" THEN {SongOf[plays[i]] : i \in recents}
                                              ELSE {}
               left == LeftOut(p, recents)
               l == [loc[p] EXCEPT !.recents = recents, !.unseen = left, !.ids = ids]
    <3>1. /\ recents \subseteq 1..Len(plays) /\ recents \subseteq Nat
          /\ left \subseteq Nat
      BY <1>2 DEF Recent, Shown, LeftOut
    <3>2. ids \subseteq Songs
      BY <1>2, <3>1, SyncAssumption
    <3>3. l \in Local /\ l.op = loc[p].op /\ l.loaded = loc[p].loaded
      BY <1>2, <3>1, <3>2 DEF Local
    <3> QED BY <1>1, <2>1, <3>3, ProceedsWithSame DEF FoundScores
  <2> QED BY <1>3, <1>9, <2>1 DEF RecentScores
<1>10. ASSUME NewSongs(p) PROVE KeyMove(p)
  <2>1. ASSUME NEW new \in SUBSET loc[p].ids, Proceed(p, [loc[p] EXCEPT !.ids = new])
        PROVE  KeyMove(p)
    <3>1. [loc[p] EXCEPT !.ids = new] \in Local
      BY <1>2 DEF Local
    <3> QED BY <1>1, <1>2, <2>1, <3>1, ProceedsWithSame DEF Local
  <2>2. ASSUME loc[p].op # "patch",
               Become(p, [loc[p] EXCEPT !.ids = {}, !.pc = After(p, "add_charts")])
        PROVE  KeyMove(p)
    <3>1. PICK l : l = [loc[p] EXCEPT !.ids = {}, !.pc = After(p, "add_charts")]
      OBVIOUS
    <3>2. /\ loc[p].pc = "songs" /\ loc[p].op \in Ops
          /\ "songs" \in DOMAIN Order[loc[p].op]
      BY <1>1, <1>10, StepNow DEF NewSongs, At
    <3>3. \/ loc[p].op = "update" /\ After(p, "add_charts") = "scores"
          \/ loc[p].op = "refresh" /\ After(p, "add_charts") = "relist"
      BY <2>2, <3>2, Orders DEF After, Ops, UpdateOrder, RefreshOrder, ReloadOrder
    <3>4. l.op = loc[p].op /\ l.pc = After(p, "add_charts") /\ l.loaded = loc[p].loaded
      BY <1>2, <3>1 DEF Local
    <3>5. HasKeys(loc[p]) /\ HasPlayer(loc[p])
      BY <3>2, <3>3, KeySplit DEF HasPlayer, Steps
    <3>6. HasKeys(l)
      BY <3>3, <3>4, <3>5 DEF HasKeys
    <3> QED BY <1>1, <2>2, <3>1, <3>6, HasKeysStays DEF KeyMove
  <2> QED BY <1>3, <1>10, <2>1, <2>2 DEF NewSongs
<1> QED BY <1>3, <1>4, <1>5, <1>6, <1>7, <1>8, <1>9, <1>10
        DEF RetrievePlaycount, WorkoutData, AddWorkoutData, KeyMove

\* The steps that find the rows, or load the charts, that later ones rely on.
LEMMA FindsWithKeys ==
  ASSUME SyncInv, KeyInv, NEW p \in Procs,
         \/ RetrievePlayer(p) \/ AddPlayerDetails(p) \/ RetrieveValidDifficulties(p)
         \/ AddScores(p) \/ SongStatistics(p) \/ DropKnownStatistics(p)
  PROVE  RowsStay /\ KeyMove(p)
<1>1. RowsStay /\ loc[p].pc \in Steps
  <2> DEFINE finds == RowsStay /\ loc[p].pc \in Steps
  <2>1. ASSUME RetrievePlayer(p) PROVE finds
    BY <2>1 DEF RowsStay, tables, At, Steps, RetrievePlayer
  <2>2. ASSUME AddPlayerDetails(p) PROVE finds
    BY <2>2 DEF RowsStay, tables, At, Steps, AddPlayerDetails
  <2>3. ASSUME RetrieveValidDifficulties(p) PROVE finds
    BY <2>3 DEF RowsStay, tables, At, Steps, RetrieveValidDifficulties
  <2>4. ASSUME AddScores(p) PROVE finds
    BY <2>4 DEF RowsStay, tables, At, Steps, AddScores
  <2>5. ASSUME SongStatistics(p) PROVE finds
    BY <2>5 DEF RowsStay, tables, At, Steps, SongStatistics
  <2>6. ASSUME DropKnownStatistics(p) PROVE finds
    BY <2>6 DEF RowsStay, tables, At, Steps, DropKnownStatistics
  <2> QED BY <2>1, <2>2, <2>3, <2>4, <2>5, <2>6
<1>2. /\ plays \in Seq(Charts) /\ loc[p] \in Local /\ Carries(loc[p])
      /\ HasKeys(loc[p]) /\ diffs \subseteq Charts
  BY <1>1, StepNow, KeySplit DEF SyncInv, TypeOK
<1>3. \A c \in Charts : loc[p].loaded[c] # 0 => c \in diffs'
  BY <1>1, <1>2 DEF HasKeys, RowsStay
<1>4. ASSUME StatementFails(p) \/ Fail(p) PROVE KeyMove(p)
  BY <1>4, FailsWithKeys DEF StatementFails
<1>5. CASE RetrievePlayer(p) \/ AddPlayerDetails(p)
  <2>1. ASSUME Proceed(p, loc[p]), known' PROVE KeyMove(p)
    <3>1. HandsKeys(p, loc[p])
      BY <1>3, <1>5, <2>1 DEF HandsKeys, RetrievePlayer, AddPlayerDetails, At
    <3> QED BY <1>1, <1>2, <2>1, <3>1, ProceedsWithKeys
  <2> QED BY <1>1, <1>4, <1>5, <2>1 DEF RetrievePlayer, AddPlayerDetails, RowsStay
<1>6. CASE RetrieveValidDifficulties(p)
  <2> DEFINE l == [loc[p] EXCEPT !.charts = diffs \cap Rated]
  <2>1. ASSUME Proceed(p, l) PROVE KeyMove(p)
    <3>1. /\ l \in Local /\ l.op = loc[p].op /\ l.loaded = loc[p].loaded
          /\ l.charts \subseteq diffs
      BY <1>2 DEF Local
    <3>2. HandsKeys(p, l)
      BY <1>1, <1>3, <1>6, <3>1 DEF HandsKeys, RetrieveValidDifficulties, At, RowsStay
    <3> QED BY <1>1, <2>1, <3>1, <3>2, ProceedsWithKeys
  <2> QED BY <1>1, <1>4, <1>6, <2>1 DEF RetrieveValidDifficulties
<1>7. CASE AddScores(p)
  <2> DEFINE charts == IF loc[p].op = "update" THEN {plays[i] : i \in loc[p].recents}
                                               ELSE {}
             l == [loc[p] EXCEPT !.recents = {}, !.charts = charts]
  <2>1. ASSUME \A i \in loc[p].recents : known /\ plays[i] \in diffs, Proceed(p, l)
        PROVE  KeyMove(p)
    <3>1. charts \subseteq diffs /\ charts \subseteq Charts
      BY <1>2, <2>1
    <3>2. /\ l \in Local /\ l.op = loc[p].op /\ l.loaded = loc[p].loaded
          /\ l.charts = charts
      BY <1>2, <3>1 DEF Local
    <3>3. HandsKeys(p, l)
      BY <1>1, <1>3, <1>7, <3>1, <3>2 DEF HandsKeys, AddScores, At, RowsStay
    <3> QED BY <1>1, <2>1, <3>2, <3>3, ProceedsWithKeys
  <2> QED BY <1>1, <1>4, <1>7, <2>1 DEF AddScores
<1>8. CASE SongStatistics(p)
  <2>1. loc[p].pc = "stats" /\ loc[p].charts \subseteq diffs
    BY <1>2, <1>8 DEF SongStatistics, At, HasKeys
  <2>2. ASSUME NEW c \in loc[p].charts, NEW last \in {LastPlay(c), 0},
               Become(p, [loc[p] EXCEPT !.charts = @ \ {c}, !.loaded[c] = last])
        PROVE  KeyMove(p)
    <3>1. PICK l : l = [loc[p] EXCEPT !.charts = @ \ {c}, !.loaded[c] = last]
      OBVIOUS
    <3>2. /\ l.pc = "stats" /\ l.op = loc[p].op /\ l.charts \subseteq diffs
          /\ \A d \in Charts : d # c => l.loaded[d] = loc[p].loaded[d]
      BY <1>2, <2>1, <3>1 DEF Local
    <3>3. HasKeys(l)
      BY <1>2, <2>1, <3>2 DEF HasKeys, HasPlayer
    <3> QED BY <1>1, <2>2, <3>1, <3>3, HasKeysStays DEF KeyMove
  <2>3. ASSUME Proceed(p, loc[p]) PROVE KeyMove(p)
    BY <1>1, <1>2, <2>1, <2>3, ProceedsWithSame
  <2> QED BY <1>1, <1>4, <1>8, <2>2, <2>3 DEF SongStatistics, PageFails
<1>9. CASE DropKnownStatistics(p)
  <2> DEFINE new == [c \in Charts |-> IF loc[p].loaded[c] = stats[c] THEN 0
                                                                   ELSE loc[p].loaded[c]]
             l == [loc[p] EXCEPT !.loaded = new]
  <2>1. loc[p].pc = "known_stats"
    BY <1>9 DEF DropKnownStatistics, At
  <2>2. ASSUME Proceed(p, l) PROVE KeyMove(p)
    <3>1. l \in Local /\ l.op = loc[p].op /\ l.loaded = new
      BY <1>2 DEF Local
    <3>2. HandsKeys(p, l)
      BY <1>3, <2>1, <3>1 DEF HandsKeys
    <3> QED BY <1>1, <2>2, <3>1, <3>2, ProceedsWithKeys
  <2>3. ASSUME Proceed(p, loc[p]) PROVE KeyMove(p)
    BY <1>1, <1>2, <2>1, <2>3, ProceedsWithSame
  <2> QED BY <1>1, <1>9, <2>2, <2>3 DEF DropKnownStatistics
<1> QED BY <1>5, <1>6, <1>7, <1>8, <1>9

\* The other statements.
LEMMA StoresWithKeys ==
  ASSUME SyncInv, KeyInv, NEW p \in Procs,
         \/ AddPlaycounts(p) \/ AddSongs(p) \/ AddDifficulties(p) \/ AddSongStatistics(p)
  PROVE  RowsStay /\ KeyMove(p)
<1>1. RowsStay /\ loc[p].pc \in Steps \ {"known", "details", "scores", "valid"}
  BY DEF RowsStay, At, Steps, AddPlaycounts, AddSongs, AddDifficulties, AddSongStatistics
<1>2. loc[p] \in Local
  BY <1>1, StepNow
<1>3. ASSUME StatementFails(p) \/ Fail(p) PROVE KeyMove(p)
  BY <1>3, FailsWithKeys DEF StatementFails
<1>4. ASSUME Proceed(p, loc[p]) PROVE KeyMove(p)
  BY <1>1, <1>2, <1>4, ProceedsWithSame
<1>5. ASSUME \/ Proceed(p, [loc[p] EXCEPT !.named = {}])
             \/ Proceed(p, [loc[p] EXCEPT !.count = 0])
      PROVE  KeyMove(p)
  BY <1>1, <1>2, <1>5, ProceedsWithSame DEF Local
<1>6. ASSUME Proceed(p, [loc[p] EXCEPT !.charts = {}]) PROVE KeyMove(p)
  BY <1>1, <1>2, <1>6, ProceedsWithSame DEF Local
<1>7. ASSUME AddSongStatistics(p) PROVE KeyMove(p)
  <2> DEFINE l == [loc[p] EXCEPT !.loaded = Fresh.loaded]
  <2>1. l \in Local /\ l.op = loc[p].op /\ \A c \in Charts : l.loaded[c] = 0
    BY <1>2 DEF Local, Fresh
  <2>2. HandsKeys(p, l)
    BY <1>1, <2>1 DEF HandsKeys
  <2> QED BY <1>1, <1>7, <2>1, <2>2, ProceedsWithKeys DEF AddSongStatistics
<1> QED BY <1>1, <1>3, <1>4, <1>5, <1>6, <1>7 DEF AddPlaycounts, AddSongs, AddDifficulties

LEMMA StartWithKeys ==
  ASSUME SyncInv, KeyInv, NEW p \in Procs, NEW op \in Ops, Start(p, op)
  PROVE  KeyMove(p)
<1>1. PICK l : l = [Fresh EXCEPT !.pc = First[op], !.op = op]
  OBVIOUS
<1>2. l.pc = First[op] /\ l.op = op /\ \A c \in Charts : l.loaded[c] = 0
  BY <1>1 DEF Fresh
<1>3. First[op] \in {"info", "list", "relist"}
      /\ (op \in {"update", "refresh"} => First[op] = "info")
  BY DEF First, Ops
<1>4. HasKeys(l)'
  BY <1>2, <1>3 DEF HasKeys, HasPlayer
<1> QED BY <1>1, <1>4 DEF Start, KeyMove

\* The rows that are there keep theirs, and so do those that are new.
LEMMA TableKeysStay ==
  ASSUME TableKeys, UNCHANGED <<plays, tables>>
  PROVE  TableKeys'
BY DEF TableKeys, tables

LEMMA PlayHasKeys ==
  ASSUME SyncInv, KeyInv, NEW c \in Charts, Play(c)
  PROVE  TableKeys'
<1>1. /\ plays' = Append(plays, c) /\ plays \in Seq(Charts)
      /\ UNCHANGED <<known, marker, songs, diffs, scores, stats, owed, missed>>
      /\ scores \subseteq 1..Len(plays)
  BY DEF Play, tables, SyncInv, TypeOK
<1>2. \A i \in scores : plays'[i] = plays[i]
  BY <1>1
<1> QED BY <1>1, <1>2, KeySplit DEF TableKeys

LEMMA DetailsHaveKeys ==
  ASSUME KeyInv, NEW p \in Procs, AddPlayerDetails(p)
  PROVE  TableKeys'
BY KeySplit DEF AddPlayerDetails, TableKeys

LEMMA PlaycountsHaveKeys ==
  ASSUME SyncInv, KeyInv, NEW p \in Procs, AddPlaycounts(p)
  PROVE  TableKeys'
<1>1. /\ loc[p].pc = "marker" /\ loc[p].pc \in Steps
      /\ UNCHANGED <<plays, known, songs, diffs, scores, stats>>
  BY DEF AddPlaycounts, At, Steps
<1>2. loc[p].op \in Ops /\ "marker" \in DOMAIN Order[loc[p].op]
  BY <1>1, StepNow
<1>3. loc[p].op \in {"update", "refresh"}
  BY <1>2, Orders DEF Ops, PatchOrder, ReloadOrder
<1>4. known
  BY <1>1, <1>3, KeySplit DEF HasKeys, HasPlayer
<1> QED BY <1>1, <1>4, KeySplit DEF TableKeys

LEMMA SongsHaveKeys ==
  ASSUME SyncInv, KeyInv, NEW p \in Procs, AddSongs(p)
  PROVE  TableKeys'
<1>1. UNCHANGED <<plays, known, marker, diffs, scores, stats, owed, missed>>
  BY DEF AddSongs
<1>2. \A c \in diffs : SongOf[c] \in Songs
  BY SyncAssumption DEF SyncInv, TypeOK
<1>3. \A s \in Songs : songs[s] # "absent" => songs'[s] # "absent"
  BY DEF AddSongs
<1> QED BY <1>1, <1>2, <1>3, KeySplit DEF TableKeys

LEMMA DifficultiesHaveKeys ==
  ASSUME KeyInv, NEW p \in Procs, AddDifficulties(p)
  PROVE  TableKeys'
<1>1. UNCHANGED <<plays, known, marker, songs, scores, stats, owed, missed>>
  BY DEF AddDifficulties
<1>2. diffs \subseteq diffs' /\ \A c \in diffs' \ diffs : songs[SongOf[c]] # "absent"
  BY DEF AddDifficulties
<1> QED BY <1>1, <1>2, KeySplit DEF TableKeys

LEMMA ScoresHaveKeys ==
  ASSUME KeyInv, NEW p \in Procs, AddScores(p)
  PROVE  TableKeys'
<1>1. UNCHANGED <<plays, known, marker, songs, diffs, stats>>
  BY DEF AddScores
<1>2. \A i \in scores' \ scores : known /\ plays[i] \in diffs
  BY DEF AddScores
<1> QED BY <1>1, <1>2, KeySplit DEF TableKeys

LEMMA StatisticsHaveKeys ==
  ASSUME SyncInv, KeyInv, NEW p \in Procs, AddSongStatistics(p)
  PROVE  TableKeys'
<1>1. /\ loc[p].pc = "add_stats" /\ loc[p].pc \in Steps
      /\ UNCHANGED <<plays, known, marker, songs, diffs, scores, owed, missed>>
  BY DEF AddSongStatistics, At, Steps
<1>2. /\ loc[p].op \in {"update", "refresh"} /\ HasKeys(loc[p])
  BY <1>1, KeySplit DEF HasKeys
<1>3. known /\ \A c \in Charts : loc[p].loaded[c] # 0 => c \in diffs
  BY <1>1, <1>2 DEF HasKeys, HasPlayer
<1>4. \A c \in Charts : stats'[c] # 0 => stats[c] # 0 \/ loc[p].loaded[c] # 0
  BY DEF AddSongStatistics
<1> QED BY <1>1, <1>3, <1>4, KeySplit DEF TableKeys

LEMMA ContinueHasKeys ==
  ASSUME SyncInv, KeyInv, NEW p \in Procs, Continue(p)
  PROVE  TableKeys' /\ RowsStay /\ KeyMove(p)
<1> DEFINE keys == TableKeys' /\ RowsStay /\ KeyMove(p)
<1>1. ASSUME AddPlayerDetails(p) PROVE keys
  BY <1>1, DetailsHaveKeys, FindsWithKeys
<1>2. ASSUME AddPlaycounts(p) PROVE keys
  BY <1>2, PlaycountsHaveKeys, StoresWithKeys
<1>3. ASSUME AddSongs(p) PROVE keys
  BY <1>3, SongsHaveKeys, StoresWithKeys
<1>4. ASSUME AddDifficulties(p) PROVE keys
  BY <1>4, DifficultiesHaveKeys, StoresWithKeys
<1>5. ASSUME AddScores(p) PROVE keys
  BY <1>5, ScoresHaveKeys, FindsWithKeys
<1>6. ASSUME AddSongStatistics(p) PROVE keys
  BY <1>6, StatisticsHaveKeys, StoresWithKeys
<1>7. ASSUME \/ RetrievePlayer(p) \/ RetrieveValidDifficulties(p)
             \/ SongStatistics(p) \/ DropKnownStatistics(p)
      PROVE  keys
  <2>1. UNCHANGED <<plays, tables>>
    BY <1>7 DEF RetrievePlayer, RetrieveValidDifficulties, SongStatistics,
                DropKnownStatistics
  <2> QED BY <1>7, <2>1, FindsWithKeys, TableKeysStay, KeySplit
<1>8. ASSUME \/ PlayerInformation(p) \/ RetrievePlaycount(p) \/ SongIds(p) \/ NewSongs(p)
             \/ SongData(p) \/ SongDifficulties(p) \/ RecentScores(p) \/ WorkoutData(p)
             \/ AddWorkoutData(p)
      PROVE  keys
  <2>1. UNCHANGED <<plays, tables>>
    BY <1>8 DEF PlayerInformation, RetrievePlaycount, SongIds, NewSongs, SongData,
       SongDifficulties, RecentScores, WorkoutData, AddWorkoutData
  <2>2. RowsStay
    BY <2>1 DEF RowsStay, tables
  <2> QED BY <1>8, <2>1, <2>2, ReadsWithKeys, TableKeysStay, KeySplit
<1> QED BY <1>1, <1>2, <1>3, <1>4, <1>5, <1>6, <1>7, <1>8 DEF Continue

LEMMA KeysPreserved ==
  ASSUME SyncInv, KeyInv, TableKeys', RowsStay,
         UNCHANGED loc \/ Restart \/ \E p \in Procs : KeyMove(p)
  PROVE  KeyInv'
<1>1. \A q \in Procs : HasKeys(loc[q])'
  BY KeysKept
<1> QED BY <1>1 DEF KeyInv, ForeignKeysHold, TableKeys, HasKeys, HasPlayer, At, Steps

LEMMA InitKeys == Init => KeyInv
<1> SUFFICES ASSUME Init PROVE KeyInv
  OBVIOUS
<1>1. TableKeys
  BY DEF Init, TableKeys
<1>2. PICK f : f = Fresh
  OBVIOUS
<1>3. HasKeys(f)
  BY <1>2, EndedHasKeys DEF Fresh, Steps
<1>4. \A p \in Procs : loc[p] = f
  BY <1>2 DEF Init
<1> QED BY <1>1, <1>3, <1>4, KeySplit

LEMMA NextKeys == SyncInv /\ KeyInv /\ [Next]_vars => KeyInv'
<1> SUFFICES ASSUME SyncInv, KeyInv, [Next]_vars PROVE KeyInv'
  OBVIOUS
<1>1. ASSUME NEW c \in Charts, Play(c) PROVE KeyInv'
  <2>1. RowsStay /\ UNCHANGED loc
    BY <1>1 DEF Play, tables, RowsStay
  <2> QED BY <1>1, <2>1, PlayHasKeys, KeysPreserved
<1>2. ASSUME NEW p \in Procs, Continue(p) PROVE KeyInv'
  BY <1>2, ContinueHasKeys, KeysPreserved
<1>3. ASSUME NEW p \in Procs, NEW op \in Ops, Start(p, op) PROVE KeyInv'
  <2>1. TableKeys' /\ RowsStay
    BY <1>3, TableKeysStay, KeySplit DEF Start, tables, RowsStay
  <2> QED BY <1>3, <2>1, StartWithKeys, KeysPreserved
<1>4. CASE Crash \/ UNCHANGED vars
  <2>1. UNCHANGED <<plays, tables>> /\ (UNCHANGED loc \/ Restart)
    BY <1>4 DEF Crash, vars
  <2>2. TableKeys' /\ RowsStay
    BY <2>1, TableKeysStay, KeySplit DEF tables, RowsStay
  <2> QED BY <2>1, <2>2, KeysPreserved
<1> QED BY <1>1, <1>2, <1>3, <1>4 DEF Next

\* Whatever is played, fails or runs beside it, a goroutine past its first steps
\* has the player's row, and a chart it has read statistics of has one.
THEOREM KeyInvariant == Spec => []KeyInv
<1>1. SyncInv /\ KeyInv /\ [Next]_vars => KeyInv'
  BY NextKeys
<1> QED BY <1>1, InitKeys, SyncInvariant, PTL DEF Spec

\* No row of these tables lacks a row of them that its foreign keys name, and no
\* goroutine is about to store statistics that they would refuse.
THEOREM ForeignKeysAlwaysHold == Spec => []ForeignKeysHold
<1>1. KeyInv => ForeignKeysHold
  BY DEF KeyInv
<1> QED BY <1>1, KeyInvariant, PTL

-----------------------------------------------------------------------------
(* The chains keep scores as ScoreKeeping says.                            *)

LEMMA PageIsRecent ==
  /\ Keeping!Page = Recent
  /\ \A k, stored : Keeping!Covers(k, stored) <=> Covers(k, stored)
  /\ \A m, n : Keeping!Larger(m, n) = Larger(m, n)
BY DEF Keeping!Page, Keeping!Covers, Keeping!Larger, Recent, Covers, Larger

LEMMA InitKeeps == Init => Keeping!Init
BY DEF Init, Keeping!Init

LEMMA PlayKeeps ==
  ASSUME SyncInv, NEW c \in Charts, Play(c)
  PROVE  Keeping!Play
BY DEF Play, tables, Keeping!Play, SyncInv, TypeOK

LEMMA AddScoresKeeps ==
  ASSUME SyncInv, NEW p \in Procs, AddScores(p)
  PROVE  Keeping!Store \/ UNCHANGED Keeping!vars
<1> DEFINE recents == loc[p].recents
<1>1. UNCHANGED <<plays, marker>>
  BY DEF AddScores
<1>2. loc[p].pc \in Steps
  BY DEF AddScores, At, Steps
<1>3. recents \subseteq 1..Len(plays) /\ scores \subseteq 1..Len(plays)
  BY <1>2, StepNow DEF Carries, SyncInv, TypeOK
<1>4. CASE UNCHANGED <<scores, owed, missed>>
  BY <1>1, <1>4 DEF Keeping!vars
<1>5. CASE /\ scores' = scores \cup recents
           /\ owed' = IF Covers(owed, scores') THEN 0 ELSE owed
           /\ missed' = missed \ scores'
  <2>1. scores' \in SUBSET (1..Len(plays)) /\ scores \subseteq scores'
    BY <1>3, <1>5
  <2>2. owed' = owed \/ (owed' = 0 /\ Keeping!Covers(owed, scores'))
    BY <1>5, PageIsRecent
  <2> QED BY <1>1, <1>5, <2>1, <2>2 DEF Keeping!Store
<1> QED BY <1>4, <1>5 DEF AddScores

LEMMA AddPlaycountsKeeps ==
  ASSUME SyncInv, NEW p \in Procs, AddPlaycounts(p)
  PROVE  \/ Keeping!Mark \/ Keeping!MarkPart \/ Keeping!Promise
         \/ UNCHANGED Keeping!vars
<1> DEFINE n == loc[p].count
           left == loc[p].unseen
<1>1. UNCHANGED <<plays, scores>>
  BY DEF AddPlaycounts
<1>2. loc[p].pc = "marker" /\ loc[p].pc \in Steps
  BY DEF AddPlaycounts, At, Steps
<1>3. /\ Len(plays) \in Nat /\ n \in Nat /\ n <= Len(plays) /\ Carries(loc[p])
      /\ left \subseteq 1..n /\ (left # {} => "page" \in Faults)
      /\ missed \subseteq 1..Len(plays)
  BY <1>2, StepNow DEF Carries, Local, SyncInv, TypeOK
<1>4. n \in 0..Len(plays)
  BY <1>3
<1>5. CASE UNCHANGED <<marker, owed, missed>>
  BY <1>1, <1>5 DEF Keeping!vars
<1>6. CASE /\ marker' = Larger(marker, n) /\ owed' = Larger(owed, n)
           /\ UNCHANGED missed
  BY <1>1, <1>4, <1>6, PageIsRecent DEF Keeping!Promise, Keeping!Raise
<1>7. CASE /\ marker' = Larger(marker, n) /\ loc[p].op = "update"
           /\ missed' = missed \cup (left \ scores)
           /\ UNCHANGED owed
  <2>1. Keeping!Raise(n)
    BY <1>7, PageIsRecent DEF Keeping!Raise
  <2>2. Covers(n, scores \cup left)
    BY <1>2, <1>3, <1>7 DEF Carries, HasStored
  <2>3. CASE left = {}
    <3>1. Covers(n, scores) /\ UNCHANGED missed
      BY <1>7, <2>2, <2>3 DEF Covers
    <3> QED BY <1>1, <1>4, <1>7, <2>1, <3>1, PageIsRecent DEF Keeping!Mark
  <2>4. CASE left # {}
    <3>1. Covers(n, scores \cup missed')
      BY <1>7, <2>2 DEF Covers
    <3>2. missed' \ missed \subseteq (1..n) \ scores /\ missed \subseteq missed'
      BY <1>3, <1>7
    <3>3. missed' \in SUBSET (1..Len(plays))
      <4>1. 1..n \subseteq 1..Len(plays)
        BY <1>3
      <4> QED BY <1>3, <1>7, <4>1
    <3>4. Keeping!Covers(n, scores \cup missed')
      BY <3>1, PageIsRecent
    <3> QED BY <1>1, <1>3, <1>4, <1>7, <2>1, <2>4, <3>2, <3>3, <3>4 DEF Keeping!MarkPart
  <2> QED BY <2>3, <2>4
<1> QED BY <1>5, <1>6, <1>7 DEF AddPlaycounts

LEMMA StepKeeps == SyncInv /\ [Next]_vars => [Keeping!Next]_(Keeping!vars)
<1> SUFFICES ASSUME SyncInv, [Next]_vars PROVE Keeping!Next \/ UNCHANGED Keeping!vars
  OBVIOUS
<1>1. ASSUME NEW c \in Charts, Play(c) PROVE Keeping!Next
  BY <1>1, PlayKeeps DEF Keeping!Next
<1>2. ASSUME NEW p \in Procs, AddScores(p)
      PROVE  Keeping!Next \/ UNCHANGED Keeping!vars
  BY <1>2, AddScoresKeeps DEF Keeping!Next
<1>3. ASSUME NEW p \in Procs, AddPlaycounts(p)
      PROVE  Keeping!Next \/ UNCHANGED Keeping!vars
  BY <1>3, AddPlaycountsKeeps DEF Keeping!Next
<1>4. \/ \E c \in Charts : Play(c)
      \/ \E p \in Procs : AddScores(p) \/ AddPlaycounts(p)
      \/ UNCHANGED <<plays, marker, scores, owed, missed>>
  <2> DEFINE same == UNCHANGED <<plays, marker, scores, owed, missed>>
  <2>1. ASSUME NEW p \in Procs, Continue(p)
        PROVE  AddScores(p) \/ AddPlaycounts(p) \/ same
    BY <2>1 DEF Continue, PlayerInformation, RetrievePlayer,
       RetrievePlaycount, AddPlayerDetails, SongIds, NewSongs, SongData, AddSongs,
       SongDifficulties, AddDifficulties, RetrieveValidDifficulties, RecentScores,
       WorkoutData, AddWorkoutData, SongStatistics, DropKnownStatistics,
       AddSongStatistics, tables
  <2>2. ASSUME \/ \E p \in Procs, op \in Ops : Start(p, op)
               \/ Crash \/ UNCHANGED vars
        PROVE  same
    BY <2>2 DEF Start, Crash, vars, tables
  <2> QED BY <2>1, <2>2 DEF Next
<1> QED BY <1>1, <1>2, <1>3, <1>4 DEF Keeping!vars

\* Each step of an update, a refresh or a patch, and each fault, is one of
\* ScoreKeeping or leaves the scores and the playcount alone.
THEOREM ImplementsKeeping == Spec => KeepingSpec
<1>1. Init => Keeping!Init
  BY InitKeeps
<1>2. SyncInv /\ [Next]_vars => [Keeping!Next]_(Keeping!vars)
  BY StepKeeps
<1> QED BY <1>1, <1>2, SyncInvariant, PTL DEF Spec, KeepingSpec, Keeping!Spec

LEMMA KeepingPlays ==
  ASSUME Keeping!MarkerTells, Keeping!Play
  PROVE  Keeping!MarkerTells'
<1> DEFINE n == Len(plays)
<1>1. /\ n \in Nat /\ marker \in 0..n /\ n' = n + 1
      /\ UNCHANGED <<marker, scores, owed, missed>>
  BY DEF Keeping!MarkerTells, Keeping!Play
<1>2. n \in Nat /\ n' \in Nat /\ marker \in 0..n'
  BY <1>1
<1>3. ASSUME NEW i \in Keeping!Page', i <= marker PROVE i \in Keeping!Page
  BY <1>1, <1>2, <1>3, SyncAssumption DEF Keeping!Page
<1> QED BY <1>1, <1>2, <1>3 DEF Keeping!MarkerTells

LEMMA KeepingRaises ==
  ASSUME Keeping!MarkerTells, owed \in Nat, NEW k \in 0..Len(plays), Keeping!Raise(k),
         UNCHANGED <<Len(plays), scores>>, owed' \in Nat, owed <= owed',
         missed \subseteq missed', missed' # {} => "page" \in Faults,
         Keeping!Covers(k, scores \cup missed') \/ k <= owed'
  PROVE  Keeping!MarkerTells'
<1>1. /\ Len(plays) \in Nat /\ marker \in Nat
      /\ marker' \in 0..Len(plays) /\ marker' \in {marker, k}
  BY DEF Keeping!MarkerTells, Keeping!Raise, Keeping!Larger
<1>2. ASSUME NEW i \in Keeping!Page, i <= marker'
      PROVE  i \in scores \cup missed' \/ i <= owed'
  <2>1. i \in Nat
    BY <1>1 DEF Keeping!Page
  <2>2. CASE marker' = marker
    BY <1>2, <2>1, <2>2 DEF Keeping!MarkerTells
  <2>3. CASE marker' = k
    BY <1>2, <2>1, <2>3 DEF Keeping!Covers
  <2> QED BY <1>1, <2>2, <2>3
<1>3. Keeping!Page' = Keeping!Page
  BY DEF Keeping!Page
<1> QED BY <1>1, <1>2, <1>3 DEF Keeping!MarkerTells

LEMMA KeepingStores ==
  ASSUME Keeping!MarkerTells, Keeping!Store
  PROVE  Keeping!MarkerTells'
<1>1. /\ scores \subseteq scores' /\ missed' = missed \ scores'
      /\ owed' = owed \/ Keeping!Covers(owed, scores')
  BY DEF Keeping!Store
<1>2. UNCHANGED <<Len(plays), marker>> /\ Keeping!Page' = Keeping!Page
  BY DEF Keeping!Store, Keeping!Page
<1>3. ASSUME NEW i \in Keeping!Page, i <= marker
      PROVE  i \in scores' \cup missed' \/ i <= owed'
  BY <1>1, <1>3 DEF Keeping!MarkerTells, Keeping!Covers
<1>4. missed' # {} => "page" \in Faults
  BY <1>1 DEF Keeping!MarkerTells
<1> QED BY <1>2, <1>3, <1>4 DEF Keeping!MarkerTells

LEMMA OwedTyped ==
  ASSUME owed \in Nat, Len(plays) \in Nat, [Keeping!Next]_(Keeping!vars)
  PROVE  owed' \in Nat
BY DEF Keeping!Next, Keeping!Play, Keeping!Store, Keeping!Mark, Keeping!MarkPart,
       Keeping!Promise, Keeping!Larger, Keeping!vars

\* What ScoreKeeping allows is enough for what the playcount row tells, whatever
\* chains of steps keep to it.
THEOREM KeepingTells == KeepingSpec => []Keeping!MarkerTells
<1> DEFINE tells == owed \in Nat /\ Keeping!MarkerTells
<1>1. Keeping!Init => tells
  BY DEF Keeping!Init, Keeping!MarkerTells, Keeping!Page
<1>2. tells /\ [Keeping!Next]_(Keeping!vars) => tells'
  <2> SUFFICES ASSUME owed \in Nat, Keeping!MarkerTells, [Keeping!Next]_(Keeping!vars)
               PROVE  owed' \in Nat /\ Keeping!MarkerTells'
    OBVIOUS
  <2>1. owed' \in Nat /\ Len(plays) \in Nat
    BY OwedTyped DEF Keeping!MarkerTells
  <2>2. CASE Keeping!Mark
    <3>1. PICK k \in 0..Len(plays) : Keeping!Covers(k, scores) /\ Keeping!Raise(k)
      BY <2>2 DEF Keeping!Mark
    <3>2. UNCHANGED <<Len(plays), scores, owed, missed>>
      BY <2>2 DEF Keeping!Mark
    <3>3. Keeping!Covers(k, scores \cup missed')
      BY <3>1 DEF Keeping!Covers
    <3>4. owed <= owed' /\ missed \subseteq missed' /\ (missed' # {} => "page" \in Faults)
      BY <3>2 DEF Keeping!MarkerTells
    <3> QED BY <2>1, <3>1, <3>2, <3>3, <3>4, KeepingRaises
  <2>3. CASE Keeping!MarkPart
    <3>1. PICK k \in 0..Len(plays) :
            Keeping!Covers(k, scores \cup missed') /\ Keeping!Raise(k)
      BY <2>3 DEF Keeping!MarkPart
    <3>2. /\ UNCHANGED <<Len(plays), scores, owed>> /\ missed \subseteq missed'
          /\ "page" \in Faults
      BY <2>3 DEF Keeping!MarkPart
    <3>3. owed <= owed'
      BY <3>2
    <3> QED BY <2>1, <3>1, <3>2, <3>3, KeepingRaises
  <2>4. CASE Keeping!Promise
    <3>1. PICK k \in 0..Len(plays) :
            Keeping!Raise(k) /\ owed' = Keeping!Larger(owed, k)
      BY <2>4 DEF Keeping!Promise
    <3>2. UNCHANGED <<Len(plays), scores, missed>>
      BY <2>4 DEF Keeping!Promise
    <3>3. k <= owed' /\ owed <= owed'
      BY <2>1, <3>1 DEF Keeping!Larger
    <3> QED BY <2>1, <3>1, <3>2, <3>3, KeepingRaises DEF Keeping!MarkerTells
  <2>5. CASE UNCHANGED Keeping!vars
    BY <2>5 DEF Keeping!vars, Keeping!MarkerTells, Keeping!Page
  <2> QED BY <2>1, <2>2, <2>3, <2>4, <2>5, KeepingPlays, KeepingStores DEF Keeping!Next
<1> QED BY <1>1, <1>2, PTL DEF KeepingSpec, Keeping!Spec

=============================================================================
