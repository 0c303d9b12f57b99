------------------------------- MODULE CPUHilos -------------------------------
(***************************************************************************)
(* The two threads of the CPU: escuchar_dispatch, which receives a PCB and *)
(* runs its instructions until one of them or an interrupt gives it back,  *)
(* and escuchar_interrupt, which raises hay_interrupcion when the kernel   *)
(* names the running process. They share pcb and hayPCB (mutexPCB, which   *)
(* the dispatch thread takes only to free the PCB), hay_interrupcion       *)
(* (mutexInterrupt) and cod_op_int (no mutex at all).                      *)
(*                                                                         *)
(* Instructions are classed by what they do to the PCB; the kernel appears *)
(* as what its scheduler does with the three sockets.                      *)
(***************************************************************************)
EXTENDS Integers, Sequences

CONSTANTS
    Procesos,           \* PIDs
    Nadie,              \* no PID
    Clases,             \* classes of instructions that programs use
    Interrupciones,     \* op_codes the kernel sends to the interrupt socket
    MaxInterrupciones   \* bound: interrupts in a run

Cesiones == {"IO", "INSTRUCCION_EXIT"}
Recursos == {"INSTRUCCION_WAIT", "INSTRUCCION_SIGNAL"}
Finales == {"INSTRUCCION_EXIT", "OUT_OF_MEMORY", "FINALIZAR_PROCESO"}
Operaciones == Cesiones \cup Recursos \cup Finales \cup {"FIN_DE_Q"}

ASSUME ConstantesOK ==
    /\ Nadie \notin Procesos
    /\ Clases \subseteq {"comun", "OUT_OF_MEMORY"} \cup Cesiones \cup Recursos
    /\ Interrupciones \subseteq {"FINALIZAR_PROCESO", "FIN_DE_Q"}
    /\ MaxInterrupciones \in Nat

VARIABLES
    paso,               \* where the dispatch thread is
    terminar,           \* its local variable
    vueltas,            \* messages sent since the PCB it has was received
    pcb,                \* PID of the PCB that pcb points to
    pcbLiberado,        \* that PCB has been freed
    hayPCB, hay_interrupcion, cod_op_int,
    pasoInt, pidInt,    \* the interrupt thread; in "marca" it holds mutexPCB
    leyoLiberado,       \* it has read pcb->PID of a freed PCB
    aCPU, deCPU, aInterrupt,    \* the sockets
    enExec,             \* kernel: the process it has sent to run, or Nadie
    vivos,              \* kernel: processes that have not reached EXIT
    finalizados,        \* PIDs given to FINALIZAR_PROCESO while in EXEC
    enviadas            \* interrupts sent

dispatch == <<paso, terminar, vueltas, pcb, pcbLiberado, hayPCB>>
interrupt == <<cod_op_int, pasoInt, pidInt, leyoLiberado>>
kernel == <<enExec, vivos, finalizados, enviadas>>
vars == <<dispatch, interrupt, kernel, hay_interrupcion, aCPU, deCPU, aInterrupt>>

TypeOK ==
    /\ paso \in {"recibe", "ejecuta", "limpia", "espera", "revisa", "corta", "libera"}
    /\ terminar \in BOOLEAN
    /\ vueltas \in Nat
    /\ pcb \in Procesos \cup {Nadie}
    /\ pcbLiberado \in BOOLEAN
    /\ hayPCB \in BOOLEAN
    /\ hay_interrupcion \in BOOLEAN
    /\ cod_op_int \in Interrupciones \cup {"ninguna"}
    /\ pasoInt \in {"lee", "compara", "marca"}
    /\ pidInt \in Procesos \cup {Nadie}
    /\ leyoLiberado \in BOOLEAN
    /\ aCPU \in Seq(Procesos)
    /\ deCPU \in Seq([pid : Procesos, op : Operaciones])
    /\ aInterrupt \in Seq([pid : Procesos, op : Interrupciones])
    /\ enExec \in Procesos \cup {Nadie}
    /\ vivos \subseteq Procesos
    /\ finalizados \subseteq Procesos
    /\ enviadas \in 0 .. MaxInterrupciones

Init ==
    /\ paso = "recibe" /\ terminar = FALSE /\ vueltas = 0
    /\ pcb = Nadie /\ pcbLiberado = FALSE /\ hayPCB = FALSE
    /\ hay_interrupcion = FALSE
    /\ cod_op_int = "ninguna" /\ pasoInt = "lee" /\ pidInt = Nadie
    /\ leyoLiberado = FALSE
    /\ aCPU = <<>> /\ deCPU = <<>> /\ aInterrupt = <<>>
    /\ enExec = Nadie /\ vivos = Procesos /\ finalizados = {} /\ enviadas = 0

-------------------------------------------------------------------------------
(* Thread escuchar_dispatch. Operators named Mal... are seeded errors in the *)
(* operator that follows them.                                              *)

\* ... that does not wait for the socket.
MalRecibirPCB ==
    /\ pcb' = IF aCPU = <<>> THEN Nadie ELSE Head(aCPU)
    /\ aCPU' = IF aCPU = <<>> THEN <<>> ELSE Tail(aCPU)
    /\ pcbLiberado' = FALSE
    /\ vueltas' = 0

\* recibir_pcb, wherever it is called from
RecibirPCB ==
    /\ aCPU # <<>>
    /\ pcb' = Head(aCPU)
    /\ aCPU' = Tail(aCPU)
    /\ pcbLiberado' = FALSE
    /\ vueltas' = 0

\* enviar_pcb, and the packets that carry the PCB and something else
EnviarPCB(op) ==
    /\ deCPU' = Append(deCPU, [pid |-> pcb, op |-> op])
    /\ vueltas' = vueltas + 1

Recibir ==
    /\ paso = "recibe"
    /\ RecibirPCB
    /\ hayPCB' = TRUE
    /\ terminar' = FALSE
    /\ paso' = "ejecuta"
    /\ UNCHANGED <<interrupt, kernel, hay_interrupcion, deCPU, aInterrupt>>

\* An instruction that keeps the PCB in the CPU.
EjecutarComun ==
    /\ paso = "ejecuta"
    /\ "comun" \in Clases
    /\ paso' = "revisa"
    /\ UNCHANGED <<interrupt, kernel, terminar, vueltas, pcb, pcbLiberado, hayPCB,
                   hay_interrupcion, aCPU, deCPU, aInterrupt>>

MalEjecutarCesion(op) ==
    /\ paso = "ejecuta"
    /\ op \in Clases
    /\ EnviarPCB(op)
    /\ paso' = "limpia"
    /\ UNCHANGED <<interrupt, kernel, terminar, pcb, pcbLiberado, hayPCB,
                   hay_interrupcion, aCPU, aInterrupt>>

\* EXIT and the instructions for an interface send the PCB ...
EjecutarCesion(op) ==
    /\ paso = "ejecuta"
    /\ op \in Clases
    /\ EnviarPCB(op)
    /\ terminar' = TRUE
    /\ paso' = "limpia"
    /\ UNCHANGED <<interrupt, kernel, pcb, pcbLiberado, hayPCB, hay_interrupcion,
                   aCPU, aInterrupt>>

\* ... and drop the interrupt that may have come meanwhile.
LimpiarInterrupcion ==
    /\ paso = "limpia"
    /\ hay_interrupcion' = FALSE
    /\ paso' = "revisa"
    /\ UNCHANGED <<interrupt, kernel, terminar, vueltas, pcb, pcbLiberado, hayPCB,
                   aCPU, deCPU, aInterrupt>>

\* A RESIZE that memory refuses. One that it grants is an EjecutarComun.
EjecutarResize ==
    /\ paso = "ejecuta"
    /\ "OUT_OF_MEMORY" \in Clases
    /\ EnviarPCB("OUT_OF_MEMORY")
    /\ terminar' = TRUE
    /\ paso' = "revisa"
    /\ UNCHANGED <<interrupt, kernel, pcb, pcbLiberado, hayPCB, hay_interrupcion,
                   aCPU, aInterrupt>>

\* WAIT and SIGNAL send the PCB and free it, with hayPCB still 1 ...
EjecutarRecurso(op) ==
    /\ paso = "ejecuta"
    /\ op \in Clases
    /\ EnviarPCB(op)
    /\ pcbLiberado' = TRUE
    /\ paso' = "espera"
    /\ UNCHANGED <<interrupt, kernel, terminar, pcb, hayPCB, hay_interrupcion,
                   aCPU, aInterrupt>>

\* ... and go on with the next one the kernel sends, whoever's it is.
RecibirTrasRecurso ==
    /\ paso = "espera"
    /\ RecibirPCB
    /\ paso' = "revisa"
    /\ UNCHANGED <<interrupt, kernel, terminar, hayPCB, hay_interrupcion, deCPU,
                   aInterrupt>>

MalRevisarSinCortar ==
    /\ paso = "revisa"
    /\ hay_interrupcion' = FALSE
    /\ paso' = IF terminar THEN "libera" ELSE "ejecuta"
    /\ UNCHANGED <<interrupt, kernel, terminar, vueltas, pcb, pcbLiberado, hayPCB,
                   aCPU, deCPU, aInterrupt>>

MalRevisarSinEnviar ==
    /\ paso = "revisa"
    /\ hay_interrupcion' = FALSE
    /\ paso' = IF hay_interrupcion \/ terminar THEN "libera" ELSE "ejecuta"
    /\ UNCHANGED <<interrupt, kernel, terminar, vueltas, pcb, pcbLiberado, hayPCB,
                   aCPU, deCPU, aInterrupt>>

\* check_interrupt
Revisar ==
    /\ paso = "revisa"
    /\ hay_interrupcion' = FALSE
    /\ paso' = IF hay_interrupcion THEN "corta"
               ELSE IF terminar THEN "libera" ELSE "ejecuta"
    /\ UNCHANGED <<interrupt, kernel, terminar, vueltas, pcb, pcbLiberado, hayPCB,
                   aCPU, deCPU, aInterrupt>>

\* The PCB leaves with whatever cod_op_int says by now.
Cortar ==
    /\ paso = "corta"
    /\ EnviarPCB(cod_op_int)
    /\ terminar' = TRUE
    /\ paso' = "libera"
    /\ UNCHANGED <<interrupt, kernel, pcb, pcbLiberado, hayPCB, hay_interrupcion,
                   aCPU, aInterrupt>>

MalLiberar ==
    /\ paso = "libera"
    /\ pasoInt # "marca"
    /\ pcbLiberado' = TRUE
    /\ paso' = "recibe"
    /\ UNCHANGED <<interrupt, kernel, terminar, vueltas, pcb, hayPCB,
                   hay_interrupcion, aCPU, deCPU, aInterrupt>>

\* The end of the cycle, under mutexPCB
Liberar ==
    /\ paso = "libera"
    /\ pasoInt # "marca"
    /\ pcbLiberado' = TRUE
    /\ hayPCB' = FALSE
    /\ paso' = "recibe"
    /\ UNCHANGED <<interrupt, kernel, terminar, vueltas, pcb, hay_interrupcion,
                   aCPU, deCPU, aInterrupt>>

-------------------------------------------------------------------------------
(* Thread escuchar_interrupt *)

LeerInterrupcion ==
    /\ pasoInt = "lee"
    /\ aInterrupt # <<>>
    /\ cod_op_int' = Head(aInterrupt).op
    /\ pidInt' = Head(aInterrupt).pid
    /\ aInterrupt' = Tail(aInterrupt)
    /\ pasoInt' = "compara"
    /\ UNCHANGED <<dispatch, kernel, leyoLiberado, hay_interrupcion, aCPU, deCPU>>

\* What `pid == pcb->PID' may give; on a freed PCB, anything.
Coincide == IF pcbLiberado THEN BOOLEAN ELSE {pidInt = pcb}

\* Between this test and the assignment that follows, both under mutexPCB, the
\* dispatch thread may do anything but free the PCB at the end of its cycle.
Comparar ==
    /\ pasoInt = "compara"
    /\ leyoLiberado' = (leyoLiberado \/ (hayPCB /\ pcbLiberado))
    /\ \E b \in Coincide : pasoInt' = IF hayPCB /\ b THEN "marca" ELSE "lee"
    /\ UNCHANGED <<dispatch, kernel, cod_op_int, pidInt, hay_interrupcion, aCPU,
                   deCPU, aInterrupt>>

Marcar ==
    /\ pasoInt = "marca"
    /\ hay_interrupcion' = TRUE
    /\ pasoInt' = "lee"
    /\ UNCHANGED <<dispatch, kernel, cod_op_int, pidInt, leyoLiberado, aCPU, deCPU,
                   aInterrupt>>

-------------------------------------------------------------------------------
(* The kernel *)

\* criterioEnvio, with cpuLibre = 1
Despachar(p) ==
    /\ enExec = Nadie
    /\ p \in vivos
    /\ aCPU' = Append(aCPU, p)
    /\ enExec' = p
    /\ UNCHANGED <<dispatch, interrupt, vivos, finalizados, enviadas,
                   hay_interrupcion, deCPU, aInterrupt>>

Mensaje == Head(deCPU)

Planificar(ops) ==
    /\ deCPU # <<>>
    /\ Mensaje.op \in ops
    /\ deCPU' = Tail(deCPU)
    /\ UNCHANGED <<dispatch, interrupt, finalizados, enviadas, hay_interrupcion,
                   aInterrupt>>

\* A SIGNAL, or a WAIT on a resource with instances: the PCB goes straight back.
DevolverACPU ==
    /\ Planificar(Recursos)
    /\ aCPU' = Append(aCPU, Mensaje.pid)
    /\ UNCHANGED <<enExec, vivos>>

\* The process goes to BLOCKED or READY and the CPU is free.
DejarCPU ==
    /\ Planificar({"INSTRUCCION_WAIT", "IO", "FIN_DE_Q"})
    /\ enExec' = Nadie
    /\ UNCHANGED <<vivos, aCPU>>

\* The process goes to EXIT, also when its resource does not exist.
EnviarAExit ==
    /\ Planificar(Finales \cup Recursos)
    /\ enExec' = Nadie
    /\ vivos' = vivos \ {Mensaje.pid}
    /\ UNCHANGED aCPU

\* enviarInterrupcion: FINALIZAR_PROCESO from the console, FIN_DE_Q from the
\* thread that counts the quantum.
Interrumpir(op) ==
    /\ enExec # Nadie
    /\ enviadas < MaxInterrupciones
    /\ enviadas' = enviadas + 1
    /\ aInterrupt' = Append(aInterrupt, [pid |-> enExec, op |-> op])
    /\ finalizados' = IF op = "FINALIZAR_PROCESO" THEN finalizados \cup {enExec}
                      ELSE finalizados
    /\ UNCHANGED <<dispatch, interrupt, enExec, vivos, hay_interrupcion, aCPU, deCPU>>

-------------------------------------------------------------------------------
HiloDispatch ==
    \/ Recibir \/ EjecutarComun \/ LimpiarInterrupcion \/ EjecutarResize
    \/ RecibirTrasRecurso \/ Revisar \/ Cortar \/ Liberar
    \/ \E op \in Cesiones : EjecutarCesion(op)
    \/ \E op \in Recursos : EjecutarRecurso(op)

HiloInterrupt == LeerInterrupcion \/ Comparar \/ Marcar

HilosKernel ==
    \/ \E p \in Procesos : Despachar(p)
    \/ DevolverACPU \/ DejarCPU \/ EnviarAExit
    \/ \E op \in Interrupciones : Interrumpir(op)

Next == HiloDispatch \/ HiloInterrupt \/ HilosKernel

Spec == Init /\ [][Next]_vars

\* The threads are loops that block only where their guards say.
SpecJusta == Spec /\ WF_vars(HiloDispatch) /\ WF_vars(HiloInterrupt)

-------------------------------------------------------------------------------
(* Properties *)

\* The interrupt thread compares its PID with the one of a PCB that exists: it
\* looks under mutexPCB and only while hayPCB (interrupciones.c:17-27), and the
\* dispatch thread clears hayPCB in the section that frees it (main.c:51-54).
SinLecturaLiberada == ~ leyoLiberado

\* A PCB is never freed by the CPU without having been sent back: the kernel
\* would wait for it for ever with cpuLibre = 0 (main.c:43-57).
NoSePierde == paso \in {"libera", "espera"} => vueltas > 0

\* Whoever runs instructions with the interrupt raised is sent back to the kernel
\* and its cycle ends, even in a program that never does: the flag is not lowered
\* by anything that lets it go on (cicloDeInstrucciones.c:575, main.c:43-57).
InterrupcionAtendida ==
    \A p \in Procesos :
      hay_interrupcion /\ pcb = p /\ paso \in {"ejecuta", "revisa"}
        ~> pcb = p /\ paso = "libera" /\ vueltas > 0

\* FINALIZAR_PROCESO "envia a EXIT el proceso con el PID enviado por parametro"
\* (planificadorLP.h:79), not another one.
FinalizaAlPedido ==
    \A k \in DOMAIN deCPU :
      deCPU[k].op = "FINALIZAR_PROCESO" => deCPU[k].pid \in finalizados

-------------------------------------------------------------------------------
(* Abstract specification *)

TieneCPU ==
    IF paso = "ejecuta" \/ (paso \in {"revisa", "corta"} /\ ~ terminar)
    THEN pcb ELSE Nadie

Contrato == INSTANCE ContratoCPU WITH tiene <- TieneCPU, Motivos <- Operaciones

\* Without interrupts the two threads meet the contract, also when WAIT and
\* SIGNAL receive a PCB in the middle of an instruction.
CumpleContrato == Contrato!SpecCon

===============================================================================
