-------------------------------- MODULE Marcos --------------------------------
(***************************************************************************)
(* What the memory promises about its frames: each one has at most one     *)
(* owner, and passes from one process to another only by being free in     *)
(* between. Module Memoria has the threads that keep the bitmap and the    *)
(* page tables.                                                            *)
(***************************************************************************)
CONSTANTS Procesos, Nadie, TodosLosMarcos

VARIABLE duenio     \* of each frame: a process, or Nadie

InitMar == duenio = [f \in TodosLosMarcos |-> Nadie]

Tomar(p, f) ==
    /\ duenio[f] = Nadie
    /\ duenio' = [duenio EXCEPT ![f] = p]

Soltar(f) == duenio' = [duenio EXCEPT ![f] = Nadie]

NextMar ==
    \E f \in TodosLosMarcos : Soltar(f) \/ \E p \in Procesos : Tomar(p, f)

SpecMar == InitMar /\ [][NextMar]_duenio

===============================================================================
