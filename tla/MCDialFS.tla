-------------------------------- MODULE MCDialFS --------------------------------
(* Instances of DialFS for TLC. *)
EXTENDS DialFS

\* across the first two blocks
TramosFS == {<<1, 2>>}
=============================================================================
