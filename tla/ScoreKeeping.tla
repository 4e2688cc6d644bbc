----------------------------- MODULE ScoreKeeping -----------------------------
(***************************************************************************)
(* What the chains of DdrSync amount to for the scores of one player: the  *)
(* playcount row may be raised only over plays that are stored, or else by *)
(* a promise to store them, and a promise is kept by storing what it       *)
(* covers. Scores and the playcount are never taken back. The plays of the *)
(* recent scores page are the only ones the site still shows; where that   *)
(* page may come in part, the row may also be raised over plays it left    *)
(* out, and they are missed until something stores them.                   *)
(***************************************************************************)
EXTENDS Naturals

CONSTANTS
  Window,       \* plays on the recent scores page
  PartialPages  \* that page may come in part

VARIABLES
  played,  \* how many plays the player has made
  marker,  \* the latest playcount row
  scores,  \* the plays stored, by number
  owed,    \* the largest playcount promised ahead of its scores, or 0
  missed   \* plays under the playcount row that a page left out

vars == <<played, marker, scores, owed, missed>>

Init == played = 0 /\ marker = 0 /\ scores = {} /\ owed = 0 /\ missed = {}

Page == {i \in 1..played : i + Window > played}

Covers(k, stored) == \A i \in Page : i <= k => i \in stored

Play == played' = played + 1 /\ UNCHANGED <<marker, scores, owed, missed>>

\* Plays become stored; a promise ends when all it covers is, and a missed play
\* is no longer one when it is.
Store ==
  /\ scores' \in SUBSET (1..played) /\ scores \subseteq scores'
  /\ \/ owed' = owed
     \/ owed' = 0 /\ Covers(owed, scores')
  /\ missed' = missed \ scores'
  /\ UNCHANGED <<played, marker>>

Larger(m, n) == IF m < n THEN n ELSE m

Raise(k) == marker' = Larger(marker, k)

Mark ==
  /\ \E k \in 0..played : Covers(k, scores) /\ Raise(k)
  /\ UNCHANGED <<played, scores, owed, missed>>

MarkPart ==
  /\ PartialPages
  /\ missed' \in SUBSET (1..played) /\ missed \subseteq missed'
  /\ \E k \in 0..played :
       /\ missed' \ missed \subseteq (1..k) \ scores
       /\ Covers(k, scores \cup missed')
       /\ Raise(k)
  /\ UNCHANGED <<played, scores, owed>>

Promise ==
  /\ \E k \in 0..played : Raise(k) /\ owed' = Larger(owed, k)
  /\ UNCHANGED <<played, scores, missed>>

Next == Play \/ Store \/ Mark \/ MarkPart \/ Promise

Spec == Init /\ [][Next]_vars

\* What the playcount row tells a reader (UpdatePlayerProfile, which returns at
\* once when the row has the site's playcount).
MarkerTells ==
  /\ played \in Nat /\ marker \in 0..played
  /\ \A i \in Page : i <= marker => i \in scores \cup missed \/ i <= owed
  /\ missed # {} => PartialPages

=============================================================================
