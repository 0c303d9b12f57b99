------------------------------ MODULE CincoEstados ------------------------------
(***************************************************************************)
(* What the scheduler promises of the processes, whatever the order of its *)
(* threads: each one follows the five-state diagram, at most one executes, *)
(* and the admitted ones never outnumber the degree of multiprogramming.   *)
(* The states are those of estado_proceso; SIN_CREAR and LIBERADO stand    *)
(* for a PCB that does not exist yet and one already freed.                *)
(***************************************************************************)
EXTENDS Naturals, FiniteSets

CONSTANTS Procesos, Finalizables

VARIABLES estado, grado

EstadosAbs == {"SIN_CREAR", "NEW", "READY", "EXEC", "BLOCKED", "EXIT", "LIBERADO"}

\* A round that makes a process READY may dispatch it at once, hence the arcs
\* from NEW and BLOCKED to EXEC.
Diagrama ==
    {<<"SIN_CREAR", "NEW">>, <<"NEW", "READY">>, <<"NEW", "EXEC">>,
     <<"READY", "EXEC">>, <<"EXEC", "BLOCKED">>, <<"BLOCKED", "READY">>,
     <<"BLOCKED", "EXEC">>, <<"EXEC", "EXIT">>, <<"EXIT", "LIBERADO">>}

\* FINALIZAR_PROCESO adds the arc to EXIT from the states it may be used in.
Arcos == Diagrama \cup {<<e, "EXIT">> : e \in Finalizables}

EnEstado(e, S) == {p \in Procesos : e[p] \in S}
Ejecutando(e) == EnEstado(e, {"EXEC"})
AdmitidosAbs(e) == EnEstado(e, {"READY", "EXEC", "BLOCKED", "EXIT"})

Permitido(e, g) ==
    /\ \A p, q \in Ejecutando(e) : p = q
    /\ Cardinality(AdmitidosAbs(e)) <= g

InitAbs ==
    /\ estado = [p \in Procesos |-> "SIN_CREAR"]
    /\ grado \in Nat

MoverProcesos ==
    /\ estado' \in [Procesos -> EstadosAbs]
    /\ \A p \in Procesos :
         estado'[p] # estado[p] => <<estado[p], estado'[p]>> \in Arcos
    /\ Permitido(estado', grado)
    /\ UNCHANGED grado

CambiarGrado ==
    /\ grado' \in {grado - 1, grado + 1} \cap Nat
    /\ Permitido(estado, grado')
    /\ UNCHANGED estado

NextAbs == MoverProcesos \/ CambiarGrado

SpecAbs == InitAbs /\ [][NextAbs]_<<estado, grado>>

===============================================================================
