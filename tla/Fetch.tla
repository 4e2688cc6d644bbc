-------------------------------- MODULE Fetch --------------------------------
(***************************************************************************)
(* What the callers of eagate/ddr assume of SongIdsForClient,              *)
(* SongDataForClient, SongDifficultiesForClient and SongStatisticsForClient: *)
(* each page of a list is loaded once, in any order, and the call returns  *)
(* once, either with the data of every page and no error, or with an error. *)
(* FanOut shows how the code does it.                                      *)
(***************************************************************************)
CONSTANTS Callers, Items

VARIABLES
  wanted,  \* the pages each caller asked for
  answer,  \* what has come of each page so far
  result   \* what the call returned

vars == <<wanted, answer, result>>

\* data: something to keep was found on the page, or on as much of it as came.
\* empty: nothing was (a chart that was never played).  bad: it could not be read.
Answers == {"none", "data", "empty", "bad"}

Status == {"idle", "running", "ok", "error"}

Result == [status : Status, got : SUBSET Items]

Holding(c) == {i \in wanted[c] : answer[c][i] = "data"}

Failed(c) == \E i \in wanted[c] : answer[c][i] = "bad"

Init ==
  /\ wanted = [c \in Callers |-> {}]
  /\ answer = [c \in Callers |-> [i \in Items |-> "none"]]
  /\ result = [c \in Callers |-> [status |-> "idle", got |-> {}]]

Ask(c) ==
  /\ result[c].status = "idle"
  /\ \E want \in SUBSET Items : wanted' = [wanted EXCEPT ![c] = want]
  /\ result' = [result EXCEPT ![c].status = "running"]
  /\ UNCHANGED answer

\* The list itself could not be read.
Refuse(c) ==
  /\ result[c].status = "idle"
  /\ result' = [result EXCEPT ![c].status = "error"]
  /\ UNCHANGED <<wanted, answer>>

Learn(c, i) ==
  /\ result[c].status = "running" /\ i \in wanted[c] /\ answer[c][i] = "none"
  /\ \E a \in Answers \ {"none"} : answer' = [answer EXCEPT ![c][i] = a]
  /\ UNCHANGED <<wanted, result>>

Return(c) ==
  /\ result[c].status = "running"
  /\ \A i \in wanted[c] : answer[c][i] # "none"
  /\ result' = [result EXCEPT ![c] =
                 [status |-> IF Failed(c) THEN "error" ELSE "ok", got |-> Holding(c)]]
  /\ UNCHANGED <<wanted, answer>>

Next == \E c \in Callers :
          Ask(c) \/ Refuse(c) \/ Return(c) \/ \E i \in Items : Learn(c, i)

Spec == Init /\ [][Next]_vars

=============================================================================
