------------------------------ MODULE MCLogins ------------------------------
(* A finite instance of LoneLogin. *)
EXTENDS MCEaSession, LoneLogin

=============================================================================
