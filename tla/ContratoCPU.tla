------------------------------ MODULE ContratoCPU ------------------------------
(***************************************************************************)
(* What the scheduler relies on when it dispatches: the CPU takes one PCB  *)
(* at a time from the dispatch socket and gives each one back exactly      *)
(* once, before it takes the next. Module Planificador is written against  *)
(* this contract; module CPUHilos has the two threads that should meet it. *)
(***************************************************************************)
EXTENDS Sequences

CONSTANTS Procesos, Nadie, Motivos

VARIABLES
    tiene,          \* process whose PCB the CPU holds, or Nadie
    aCPU, deCPU     \* the dispatch socket, both ways

InitCon == tiene = Nadie /\ aCPU = <<>> /\ deCPU = <<>>

Tomar ==
    /\ tiene = Nadie
    /\ aCPU # <<>>
    /\ tiene' = Head(aCPU)
    /\ aCPU' = Tail(aCPU)
    /\ UNCHANGED deCPU

Devolver(op) ==
    /\ tiene # Nadie
    /\ deCPU' = Append(deCPU, [pid |-> tiene, op |-> op])
    /\ tiene' = Nadie
    /\ UNCHANGED aCPU

\* The kernel reads what comes back and sends what it wants.
Kernel ==
    /\ \/ UNCHANGED deCPU
       \/ deCPU # <<>> /\ deCPU' = Tail(deCPU)
    /\ \/ UNCHANGED aCPU
       \/ \E p \in Procesos : aCPU' = Append(aCPU, p)
    /\ UNCHANGED tiene

NextCon == Tomar \/ Kernel \/ \E op \in Motivos : Devolver(op)

SpecCon == InitCon /\ [][NextCon]_<<tiene, aCPU, deCPU>>

===============================================================================
