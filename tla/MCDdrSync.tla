------------------------------ MODULE MCDdrSync ------------------------------
(* Finite instances of DdrSync. *)
EXTENDS DdrSync

CONSTANTS p1, p2, x1

\* A song is named by its only chart.
OneChart == [c \in Charts |-> c]

\* The update of the hourly job, beside requests of every other kind.
UpdateAndOthers == [p \in Procs |-> IF p = p1 THEN Ops \ {"update"} ELSE {"update"}]
Updating        == [p \in Procs |-> {"update", "refresh"}]

=============================================================================
