------------------------------- MODULE MCMemoria -------------------------------
(* Instances of Memoria for TLC. *)
EXTENDS Memoria

SoloLecturas == {Lectura}

===============================================================================
