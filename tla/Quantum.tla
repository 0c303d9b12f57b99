-------------------------------- MODULE Quantum --------------------------------
(***************************************************************************)
(* The turns of Round Robin and Virtual Round Robin: planificar under      *)
(* mutexPlanificador, and the two threads that each dispatch creates: the  *)
(* one of the turn (esperarVuelta), which waits for the planner to cut it, *)
(* and its timer (esperarQuantumCompleto), which asks the CPU for the      *)
(* process when the quantum is over. They speak through two semaphores and *)
(* procesoInterrumpido. Time is not modelled: a timer may end at any       *)
(* moment and an I/O may have used any part of the quantum. The CPU is     *)
(* what ContratoCPU says of it: it gives back the process it has, for an   *)
(* instruction or for an interrupt with its PID. The rest of the kernel is *)
(* in Planificador.                                                        *)
(***************************************************************************)
EXTENDS Integers, Sequences, FiniteSets, SequencesExt

CONSTANTS
    Procesos,           \* PIDs, positive
    Algoritmos,         \* those of kernel.config to check: "RR", "VRR"
    QuantumInicial,
    Hilos,              \* bound: turns and timers alive at once
    MaxInterrupciones,  \* bound: interrupts in the socket at once
    MaxPosts            \* bound: WAITs that block stop when the posts reach it

ASSUME ConstantesOK ==
    /\ Procesos \subseteq Nat \ {0}
    /\ Algoritmos \subseteq {"RR", "VRR"}
    /\ QuantumInicial \in Nat \ {0} /\ Hilos \in Nat \ {0}
    /\ MaxInterrupciones \in Nat \ {0} /\ MaxPosts \in Nat

VARIABLES
    algoritmo,
    estado,             \* of each PCB; "fuera" before NEW gives it to READY
    quantum,            \* of each PCB
    colaReady, colaPrioritaria,
    esperanRecurso,     \* blocked by a WAIT, in order
    cpuLibre, ultimoPrioritario, pidProcesoEnEjecucion,
    planificador,       \* the message that cortarQuantum interrupts, or Nada
    finalizarQuantum, quantumFinalizado, procesoInterrumpido,
    vueltas,            \* [pid, fase, reloj] of each pair of threads
    enCPU, deCPU,       \* the process in the CPU, the message that brings it back
    interrupciones,     \* PIDs, each one with FIN_DE_Q
    desfasado           \* history: a WAIT has left a post behind, or lost an interrupt

colas == <<estado, colaReady, colaPrioritaria, esperanRecurso>>
despacho == <<cpuLibre, ultimoPrioritario, pidProcesoEnEjecucion, enCPU>>
hilos == <<finalizarQuantum, quantumFinalizado, procesoInterrumpido, vueltas>>
vars == <<algoritmo, colas, quantum, despacho, planificador, hilos, deCPU,
          interrupciones, desfasado>>

Nadie == 0
Nada == [op |-> "nada", pid |-> Nadie]
\* "EXIT" is also SIGNAL, which signalRR treats in the same way, and "OOM" also
\* FINALIZAR_PROCESO
Corta == {"IO", "EXIT", "FIN_DE_Q"}
NoCorta == {"WAIT", "OOM"}
Mensaje == {Nada} \cup [op : Corta \cup NoCorta, pid : Procesos]
Ninguna == [pid |-> Nadie, fase |-> "libre", reloj |-> "no"]
Libres == {v \in 1 .. Hilos : vueltas[v] = Ninguna}

TypeOK ==
    /\ algoritmo \in Algoritmos
    /\ estado \in [Procesos -> {"fuera", "READY", "EXEC", "BLOCKED", "EXIT"}]
    /\ quantum \in [Procesos -> 1 .. QuantumInicial]
    /\ colaReady \in Seq(Procesos) /\ colaPrioritaria \in Seq(Procesos)
    /\ esperanRecurso \in Seq(Procesos)
    /\ algoritmo = "RR" => colaPrioritaria = <<>>
    /\ cpuLibre \in BOOLEAN /\ ultimoPrioritario \in BOOLEAN
    /\ procesoInterrumpido \in BOOLEAN /\ desfasado \in BOOLEAN
    /\ {pidProcesoEnEjecucion, enCPU} \subseteq Procesos \cup {Nadie}
    /\ {planificador, deCPU} \subseteq Mensaje
    /\ finalizarQuantum \in Nat /\ quantumFinalizado \in Nat
    /\ vueltas \in [1 .. Hilos -> [pid : Procesos \cup {Nadie},
                                   fase : {"libre", "nace", "espera", "une"},
                                   reloj : {"no", "duerme", "avisa"}]]
    /\ interrupciones \in Seq(Procesos)

-----------------------------------------------------------------------------
(* What planificar is made of. The parts give new values; Ronda, its end,   *)
(* is criterioEnvio with what they leave.                                   *)

\* seeded error: it goes to the front
MalEnviarAReady(cola, p) == <<p>> \o cola
enviarAReady(cola, p) == Append(cola, p)

\* criterioEnvioRR, criterioEnvioVRR, seleccionarSiguiente, enviarProcesoACPU_RR
Ronda(est, ready, prioritaria, libre, ultimo) ==
    IF ~libre \/ ready \o prioritaria = <<>>
    THEN /\ estado' = est /\ colaReady' = ready /\ colaPrioritaria' = prioritaria
         /\ cpuLibre' = libre /\ ultimoPrioritario' = ultimo
         /\ UNCHANGED <<pidProcesoEnEjecucion, vueltas, enCPU>>
    ELSE LET primero == prioritaria # <<>>
             p == Head(IF primero THEN prioritaria ELSE ready)
         IN  /\ colaPrioritaria' = IF primero THEN Tail(prioritaria) ELSE prioritaria
             /\ colaReady' = IF primero THEN ready ELSE Tail(ready)
             /\ estado' = [est EXCEPT ![p] = "EXEC"]
             /\ enCPU' = p
             /\ cpuLibre' = FALSE
             /\ IF algoritmo = "VRR"
                THEN ultimoPrioritario' = primero /\ pidProcesoEnEjecucion' = p
                ELSE UNCHANGED <<ultimoPrioritario, pidProcesoEnEjecucion>>
             /\ Libres # {}
             /\ vueltas' = [vueltas EXCEPT ![CHOOSE v \in Libres : \A w \in Libres : v <= w] =
                               [pid |-> p, fase |-> "nace", reloj |-> "no"]]

\* enviarAExit with `ready' in READY; liberarRecursos gives to the first n that
\* wait what p had
Salida(p, ready, libre) ==
    \E n \in 0 .. Len(esperanRecurso) :
        /\ esperanRecurso' = SubSeq(esperanRecurso, n + 1, Len(esperanRecurso))
        /\ LET despiertan == SubSeq(esperanRecurso, 1, n)
               est == [q \in Procesos |-> CASE q = p -> "EXIT"
                                            [] q \in ToSet(despiertan) -> "READY"
                                            [] OTHER -> estado[q]]
           IN  Ronda(est, ready \o despiertan, colaPrioritaria, libre, ultimoPrioritario)

\* asignarQuantum, after the cut, with what the temporal says that passed
\* seeded error: a turn used up leaves no quantum
MalAsignarQuantum(q, paso) == IF procesoInterrumpido THEN QuantumInicial ELSE q - paso
asignarQuantum(q, paso) ==
    IF procesoInterrumpido \/ q - paso <= 0 THEN QuantumInicial ELSE q - paso

-----------------------------------------------------------------------------
(* The planner *)

Libre == planificador = Nada

\* procesoNewAReady
CrearProceso(p) ==
    /\ Libre /\ estado[p] = "fuera"
    /\ Ronda([estado EXCEPT ![p] = "READY"], enviarAReady(colaReady, p), colaPrioritaria,
             cpuLibre, ultimoPrioritario)
    /\ UNCHANGED <<algoritmo, esperanRecurso, quantum, planificador, finalizarQuantum,
                   quantumFinalizado, procesoInterrumpido, deCPU, interrupciones, desfasado>>

\* enviarAIO*, signalRR, interrupcionRR, exitRR, up to the sem_wait of cortarQuantum
CortarQuantum ==
    /\ Libre /\ deCPU.op \in Corta
    /\ planificador' = deCPU
    /\ deCPU' = Nada
    /\ finalizarQuantum' = finalizarQuantum + 1
    /\ UNCHANGED <<algoritmo, colas, quantum, despacho, quantumFinalizado,
                   procesoInterrumpido, vueltas, interrupciones, desfasado>>

\* seeded error: cortarQuantum does not wait
MalQuantumCortado == UNCHANGED quantumFinalizado
QuantumCortado == quantumFinalizado > 0 /\ quantumFinalizado' = quantumFinalizado - 1

\* ... and after it. enviarAIO blocks the process, or ends it if there is no such
\* interface; signalRR ends it always.
SeguirCorte ==
    /\ ~Libre
    /\ QuantumCortado
    /\ planificador' = Nada
    /\ LET p == planificador.pid
       IN  \/ /\ planificador.op = "FIN_DE_Q"
              /\ Ronda([estado EXCEPT ![p] = "READY"], enviarAReady(colaReady, p),
                       colaPrioritaria, TRUE, ultimoPrioritario)
              /\ UNCHANGED <<esperanRecurso, quantum>>
           \/ /\ planificador.op = "EXIT"
              /\ Salida(p, colaReady, TRUE)
              /\ UNCHANGED quantum
           \/ /\ planificador.op = "IO"
              /\ \/ /\ Ronda([estado EXCEPT ![p] = "BLOCKED"], colaReady, colaPrioritaria,
                             TRUE, ultimoPrioritario)
                    /\ UNCHANGED esperanRecurso
                 \/ Salida(p, colaReady, TRUE)
              /\ IF algoritmo = "VRR"
                 THEN \E paso \in 0 .. QuantumInicial :
                        quantum' = [quantum EXCEPT ![p] = asignarQuantum(@, paso)]
                 ELSE UNCHANGED quantum
    /\ UNCHANGED <<algoritmo, finalizarQuantum, procesoInterrumpido, deCPU,
                   interrupciones, desfasado>>

\* waitRR with the resource free: the same turn goes on
WaitTomado ==
    /\ Libre /\ deCPU.op = "WAIT"
    /\ enCPU' = deCPU.pid
    /\ deCPU' = Nada
    /\ UNCHANGED <<algoritmo, colas, quantum, cpuLibre, ultimoPrioritario, pidProcesoEnEjecucion,
                   planificador, hilos, interrupciones, desfasado>>

\* waitRR without it, or with no such resource: the post only
WaitCorta ==
    /\ Libre /\ deCPU.op = "WAIT"
    /\ finalizarQuantum + quantumFinalizado < MaxPosts
    /\ finalizarQuantum' = finalizarQuantum + 1
    /\ desfasado' = TRUE
    /\ deCPU' = Nada
    /\ \/ /\ esperanRecurso' = Append(esperanRecurso, deCPU.pid)
          /\ Ronda([estado EXCEPT ![deCPU.pid] = "BLOCKED"], colaReady, colaPrioritaria,
                   TRUE, ultimoPrioritario)
       \/ Salida(deCPU.pid, colaReady, TRUE)
    /\ UNCHANGED <<algoritmo, quantum, planificador, quantumFinalizado, procesoInterrumpido,
                   interrupciones>>

\* FINALIZAR_PROCESO and OUT_OF_MEMORY: nobody cuts the turn
Desalojo ==
    /\ Libre /\ deCPU.op = "OOM"
    /\ deCPU' = Nada
    /\ Salida(deCPU.pid, colaReady, TRUE)
    /\ UNCHANGED <<algoritmo, quantum, planificador, finalizarQuantum, quantumFinalizado,
                   procesoInterrumpido, interrupciones, desfasado>>

\* finalizarProceso on a process of colaReady. One of colaPrioritaria is not found
\* there (planificadorLP.c:261) and stays queued after its PCB is freed: left out.
FinalizarEnReady(p) ==
    /\ Libre
    /\ \E k \in DOMAIN colaReady :
        colaReady[k] = p /\ Salida(p, RemoveAt(colaReady, k), cpuLibre)
    /\ UNCHANGED <<algoritmo, quantum, planificador, finalizarQuantum, quantumFinalizado,
                   procesoInterrumpido, deCPU, interrupciones, desfasado>>

\* OPERACION_FINALIZADA: operacionFinalizadaFIFO or operacionFinalizadaVRR, which
\* asks the CPU for the process that came from READY
FinIO(p) ==
    /\ Libre /\ estado[p] = "BLOCKED" /\ p \notin ToSet(esperanRecurso)
    /\ LET est == [estado EXCEPT ![p] = "READY"]
       IN  IF algoritmo = "RR" \/ quantum[p] = QuantumInicial
           THEN /\ Ronda(est, enviarAReady(colaReady, p), colaPrioritaria, cpuLibre, ultimoPrioritario)
                /\ UNCHANGED interrupciones
           ELSE /\ Ronda(est, colaReady, Append(colaPrioritaria, p), cpuLibre, TRUE)
                /\ IF ultimoPrioritario
                   THEN UNCHANGED interrupciones
                   ELSE /\ Len(interrupciones) < MaxInterrupciones
                        /\ interrupciones' = Append(interrupciones, pidProcesoEnEjecucion)
    /\ UNCHANGED <<algoritmo, esperanRecurso, quantum, planificador, finalizarQuantum,
                   quantumFinalizado, procesoInterrumpido, deCPU, desfasado>>

-----------------------------------------------------------------------------
(* The threads of each turn *)

Vuelta(v, fase, reloj) ==
    vueltas' = [vueltas EXCEPT ![v] =
        IF fase = "libre" /\ reloj = "no" THEN Ninguna
        ELSE [@ EXCEPT !.fase = fase, !.reloj = reloj]]

FueraDeHilos == UNCHANGED <<algoritmo, colas, quantum, despacho, planificador, deCPU, desfasado>>

\* esperarVuelta, up to its sem_wait
Nacer(v) ==
    /\ vueltas[v].fase = "nace"
    /\ procesoInterrumpido' = FALSE
    /\ Vuelta(v, "espera", "duerme")
    /\ FueraDeHilos /\ UNCHANGED <<finalizarQuantum, quantumFinalizado, interrupciones>>

\* Any thread that waits may take the post. pthread_cancel stops a timer that
\* sleeps; one that has sent its interrupt goes on to the end.
Despertar(v) ==
    /\ vueltas[v].fase = "espera" /\ finalizarQuantum > 0
    /\ finalizarQuantum' = finalizarQuantum - 1
    /\ IF procesoInterrumpido
       THEN Vuelta(v, "une", vueltas[v].reloj) /\ UNCHANGED quantumFinalizado
       ELSE /\ Vuelta(v, "libre", IF vueltas[v].reloj = "avisa" THEN "avisa" ELSE "no")
            /\ quantumFinalizado' = quantumFinalizado + 1
    /\ FueraDeHilos /\ UNCHANGED <<procesoInterrumpido, interrupciones>>

\* pthread_join
\* seeded error: it returns without the post
MalUnir(v) ==
    /\ vueltas[v].fase = "une" /\ vueltas[v].reloj = "no"
    /\ Vuelta(v, "libre", "no")
    /\ FueraDeHilos
    /\ UNCHANGED <<finalizarQuantum, quantumFinalizado, procesoInterrumpido, interrupciones>>
Unir(v) ==
    /\ vueltas[v].fase = "une" /\ vueltas[v].reloj = "no"
    /\ Vuelta(v, "libre", "no")
    /\ quantumFinalizado' = quantumFinalizado + 1
    /\ FueraDeHilos /\ UNCHANGED <<finalizarQuantum, procesoInterrumpido, interrupciones>>

\* esperarQuantumCompleto: the interrupt, ...
Vencer(v) ==
    /\ vueltas[v].reloj = "duerme" /\ Len(interrupciones) < MaxInterrupciones
    /\ interrupciones' = Append(interrupciones, vueltas[v].pid)
    /\ Vuelta(v, vueltas[v].fase, "avisa")
    /\ FueraDeHilos /\ UNCHANGED <<finalizarQuantum, quantumFinalizado, procesoInterrumpido>>

\* ... and only then the flag, which may by now be that of another turn
Avisar(v) ==
    /\ vueltas[v].reloj = "avisa"
    /\ procesoInterrumpido' = TRUE
    /\ Vuelta(v, vueltas[v].fase, "no")
    /\ FueraDeHilos /\ UNCHANGED <<finalizarQuantum, quantumFinalizado, interrupciones>>

-----------------------------------------------------------------------------
(* The CPU *)

FueraDeCPU ==
    UNCHANGED <<algoritmo, colas, quantum, cpuLibre, ultimoPrioritario, pidProcesoEnEjecucion,
                planificador, hilos>>

Instruccion(op) ==
    /\ enCPU # Nadie
    /\ deCPU' = [op |-> op, pid |-> enCPU]
    /\ enCPU' = Nadie
    /\ FueraDeCPU /\ UNCHANGED <<interrupciones, desfasado>>

\* Of no effect if the process is not, or no longer, there: not even if it is to
\* come back from a WAIT, which has freed its PCB.
Interrumpir ==
    /\ interrupciones # <<>>
    /\ interrupciones' = Tail(interrupciones)
    /\ IF Head(interrupciones) = enCPU
       THEN deCPU' = [op |-> "FIN_DE_Q", pid |-> enCPU] /\ enCPU' = Nadie
       ELSE UNCHANGED <<deCPU, enCPU>>
    /\ desfasado' = (desfasado \/ deCPU = [op |-> "WAIT", pid |-> Head(interrupciones)])
    /\ FueraDeCPU

Init ==
    /\ algoritmo \in Algoritmos
    /\ estado = [p \in Procesos |-> "fuera"]
    /\ quantum = [p \in Procesos |-> QuantumInicial]
    /\ colaReady = <<>> /\ colaPrioritaria = <<>> /\ esperanRecurso = <<>>
    /\ cpuLibre = TRUE /\ ultimoPrioritario = FALSE /\ pidProcesoEnEjecucion = Nadie
    /\ planificador = Nada
    /\ finalizarQuantum = 0 /\ quantumFinalizado = 0 /\ procesoInterrumpido = FALSE
    /\ vueltas = [v \in 1 .. Hilos |-> Ninguna]
    /\ enCPU = Nadie /\ deCPU = Nada
    /\ interrupciones = <<>>
    /\ desfasado = FALSE

RecibirDeCPU == CortarQuantum \/ SeguirCorte \/ WaitTomado \/ WaitCorta \/ Desalojo
HilosDe(v) == Nacer(v) \/ Despertar(v) \/ Unir(v)
Reloj(v) == Vencer(v) \/ Avisar(v)

Next ==
    \/ RecibirDeCPU
    \/ \E p \in Procesos : CrearProceso(p) \/ FinIO(p) \/ FinalizarEnReady(p)
    \/ \E v \in 1 .. Hilos : HilosDe(v) \/ Reloj(v)
    \/ \E op \in (Corta \cup NoCorta) \ {"FIN_DE_Q"} : Instruccion(op)
    \/ Interrumpir

\* Each thread of the kernel goes on if it can, and the CPU reads its interrupts
\* after each instruction. No fairness for the programs nor for the devices: a
\* program may never end, and never give the CPU back by itself.
Justicia ==
    /\ WF_vars(RecibirDeCPU)
    /\ \A v \in 1 .. Hilos : WF_vars(HilosDe(v)) /\ WF_vars(Reloj(v))
    /\ WF_vars(Interrumpir)

Spec == Init /\ [][Next]_vars /\ Justicia

-----------------------------------------------------------------------------
(* Properties *)

\* Nobody runs without somebody who will ask for the CPU: the process in it has a
\* turn about to start its timer, a timer that runs, or an interrupt on its way.
\* A timer that another turn cancelled, or a post that the wrong turn took, would
\* break it; and it holds only until a WAIT blocks, which leaves a post behind
\* (roundRobin.c:56-61), or is under way when its interrupt comes.
TurnoConReloj ==
    enCPU # Nadie /\ ~desfasado =>
        \/ enCPU \in ToSet(interrupciones)
        \/ \E v \in 1 .. Hilos : /\ vueltas[v].pid = enCPU
                                 /\ vueltas[v].fase = "nace" \/ vueltas[v].reloj = "duerme"

Unen == {v \in 1 .. Hilos : vueltas[v].fase = "une"}

\* The post that a cut asks for is a single one, and it is either not yet taken,
\* or held by a turn that joins its timer, or already given back.
UnPost ==
    finalizarQuantum + quantumFinalizado + Cardinality(Unen) = IF Libre THEN 0 ELSE 1

\* A process is out of the queues in one place only, and then cpuLibre is 0.
UnaFuera ==
    /\ cpuLibre => enCPU = Nadie /\ deCPU = Nada /\ Libre
    /\ enCPU # Nadie => deCPU = Nada /\ Libre
    /\ deCPU # Nada => Libre

\* Before the first dispatch of VRR nobody can be waiting for a device.
NadieAun ==
    algoritmo = "VRR" /\ pidProcesoEnEjecucion = Nadie =>
        enCPU = Nadie /\ deCPU = Nada /\ Libre /\ \A p \in Procesos : estado[p] # "BLOCKED"

ConPid == \A v \in 1 .. Hilos : vueltas[v].pid = Nadie => vueltas[v] = Ninguna

\* Somebody will ask for the CPU that p has.
Cubierto(p) ==
    \/ p \in ToSet(interrupciones)
    \/ \E v \in 1 .. Hilos : /\ vueltas[v].pid = p
                             /\ vueltas[v].fase = "nace" \/ vueltas[v].reloj = "duerme"

\* TurnoConReloj is not inductive: the cover must also last while the process
\* comes back from a WAIT, and nobody may find a post in the middle of a turn.
InvTurnos ==
    /\ TypeOK /\ UnaFuera /\ NadieAun /\ ConPid
    /\ ~desfasado => /\ UnPost
                     /\ enCPU # Nadie => Cubierto(enCPU)
                     /\ deCPU.op = "WAIT" => Cubierto(deCPU.pid)

\* cortarQuantum, which waits with mutexPlanificador taken, always comes back,
\* also if it joins a timer, if turns that nobody cut have piled up or if the
\* post of a blocked WAIT was left over (roundRobin.c:35).
PlanificadorAvanza == planificador # Nada ~> planificador = Nada

\* With RR everybody in READY gets the CPU, even if no program ever gives it
\* back; with the same exceptions.
ReadySinHambre ==
    \A p \in Procesos :
        algoritmo = "RR" /\ estado[p] = "READY" ~> estado[p] # "READY" \/ desfasado
=============================================================================
