------------------------------- MODULE MCQuantum -------------------------------
(* Instances of Quantum for TLC. *)
EXTENDS Quantum

AmbosAlgoritmos == {"RR", "VRR"}
=============================================================================
