---------------------------- MODULE MCEaSession ----------------------------
(* Finite instances of EaSession. *)
EXTENDS EaSession, TLC

CONSTANTS a1, a2, A1, r1, r2, j1, w1, w2, c1, c2

\* A1 is the mixed-case spelling of a1; the other names are in lower case.
LowerA1 == [n \in Names |-> IF n = A1 THEN a1 ELSE n]

RequestsAndJob == [p \in Procs |-> IF p = Job THEN {"updates"} ELSE Kinds]
RequestsOnly   == [p \in Procs |-> IF p = Job THEN {} ELSE Kinds]
LoginsAndJob   == [p \in Procs |-> IF p = Job THEN {"updates"} ELSE {"login"}]

\* Accounts that are all in lower case are interchangeable, as are API users and
\* cookies.
AccountSymmetry == Permutations({a1, a2}) \cup Permutations(WebUsers)
                     \cup Permutations(Cookies)

=============================================================================
