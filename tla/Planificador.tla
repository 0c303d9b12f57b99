----------------------------- MODULE Planificador -----------------------------
(***************************************************************************)
(* The kernel of C-Comenta under ALGORITMO_PLANIFICACION=FIFO: the         *)
(* long-term scheduler (threads procesoNewAReady and vaciarExit), the      *)
(* short-term one (thread recibirDeCPU), one thread per connected          *)
(* interface, the resources of the configuration and the console.          *)
(*                                                                         *)
(* Every planning round runs under mutexPlanificador, so a round is one    *)
(* action, except when it sends a process to EXIT: liberarRecursos gives   *)
(* back one resource per iteration while vaciarExit, iniciarProceso and    *)
(* the interface threads, which do not take that mutex, go on running.     *)
(* `saliente' is the process of that loop; TerminarSalida is the rest of   *)
(* the round, down to criterioEnvio and the unlock.                        *)
(*                                                                         *)
(* The CPU appears here as what the kernel may rely on: it holds at most   *)
(* one PCB and returns it once.                                            *)
(***************************************************************************)
EXTENDS Integers, Sequences, FiniteSets, SequencesExt

CONSTANTS
    MaxProcesos,    \* bound: processes the console creates in a run
    MaxLlamadas,    \* bound: calls a program makes before its EXIT
    Recursos,       \* RECURSOS of the configuration
    Instancias,     \* INSTANCIAS_RECURSOS
    Interfaces,     \* names of the interfaces that may connect
    TipoInterfaz,   \* the operations each of them accepts
    GradoInicial,   \* GRADO_MULTIPROGRAMACION
    Grados,         \* degrees typed after MULTIPROGRAMACION
    Llamadas,       \* [op, arg] records a program may send to the kernel
    Disciplinados,  \* programs WAIT on what they lack, SIGNAL what they hold
    Finalizables,   \* states in which the console may FINALIZAR a process
    Detenible       \* the console may type DETENER_PLANIFICACION

Procesos == 0 .. (MaxProcesos - 1)
Nadie == -1

OperacionesGenerica == {"ENVIAR_IO_GEN_SLEEP"}
OperacionesSTDIN    == {"ENVIAR_IO_STDIN_READ"}
OperacionesSTDOUT   == {"ENVIAR_IO_STDOUT_WRITE"}
OperacionesDialFS   == {"ENVIAR_DIALFS_CREATE", "ENVIAR_DIALFS_DELETE",
                        "ENVIAR_DIALFS_TRUNCATE", "ENVIAR_DIALFS_READ",
                        "ENVIAR_DIALFS_WRITE"}
OperacionesIO == OperacionesGenerica \cup OperacionesSTDIN
                   \cup OperacionesSTDOUT \cup OperacionesDialFS
OperacionesFin == {"INSTRUCCION_EXIT", "OUT_OF_MEMORY", "FINALIZAR_PROCESO"}
Operaciones == OperacionesIO \cup OperacionesFin
                 \cup {"INSTRUCCION_WAIT", "INSTRUCCION_SIGNAL"}

\* What a message of the CPU names: a resource, an interface, or nothing.
Argumentos == {c.arg : c \in Llamadas} \cup {"ninguno"}

Estados == {"SIN_CREAR", "NEW", "READY", "EXEC", "BLOCKED", "EXIT", "LIBERADO"}

ASSUME ConstantesOK ==
    /\ MaxProcesos \in Nat
    /\ MaxLlamadas \in Nat
    /\ IsFiniteSet(Recursos)
    /\ Instancias \in [Recursos -> Nat]
    /\ TipoInterfaz \in [Interfaces -> SUBSET OperacionesIO]
    /\ GradoInicial \in Nat
    /\ Grados \subseteq Nat
    /\ Llamadas \subseteq [op : Operaciones, arg : STRING]
    /\ Disciplinados \in BOOLEAN
    /\ Finalizables \subseteq {"NEW", "READY", "EXEC", "BLOCKED", "EXIT", "AUSENTE"}
    /\ Detenible \in BOOLEAN

VARIABLES
    estado,             \* PCB->estado; SIN_CREAR: no PCB yet, LIBERADO: freed
    recursosAsignados,  \* how often each name is in PCB->recursosAsignados
    siguientePID,
    colaNew, colaReady, colaExit,
    procesosEnNew, procesosEnExit, gradoMultiprogramacion,  \* semaphores
    gradoVigente,       \* gradoMultiprogramacionActual, counted as it changes
    gradoNuevo,         \* argument of the MULTIPROGRAMACION being carried out
    hiloNew,            \* what procesoNewAReady waits for
    hiloExit,           \* process vaciarExit is finalising, or Nadie
    instancias, bloqueados,          \* t_recurso: instancias, procesosBloqueados
    conectadas, colaIO, enServicio,  \* t_IOConectada, solicitud of its thread
    mutexPlanificador,  \* who holds it between actions
    saliente, liberaCPU, repetido,   \* enviarAExit in progress
    cpuLibre,
    aCPU, deCPU,        \* the dispatch socket, both ways
    interrupciones,     \* PIDs in the interrupt socket
    enCPU,              \* process the CPU runs, or Nadie
    restantes,          \* calls left to each program
    caido               \* a NULL or freed PCB was dereferenced

varsLP == <<siguientePID, colaNew, procesosEnNew>>
varsGrado == <<gradoVigente, gradoNuevo>>
varsExit == <<colaExit, procesosEnExit, hiloExit>>
varsRec == <<instancias, bloqueados, recursosAsignados>>
varsIO == <<conectadas, colaIO, enServicio>>
varsSalida == <<saliente, liberaCPU, repetido>>
varsCPU == <<interrupciones, enCPU, restantes>>
varsEnvio == <<estado, colaReady, cpuLibre, aCPU, caido>>

vars == <<varsLP, varsGrado, varsExit, varsRec, varsIO, varsSalida, varsCPU,
          varsEnvio, gradoMultiprogramacion, hiloNew, mutexPlanificador, deCPU>>

TypeOK ==
    /\ estado \in [Procesos -> Estados]
    /\ recursosAsignados \in [Procesos -> [Recursos -> Nat]]
    /\ siguientePID \in 0 .. MaxProcesos
    /\ colaNew \in Seq(Procesos)
    /\ colaReady \in Seq(Procesos)
    /\ colaExit \in Seq(Procesos)
    /\ procesosEnNew \in Nat
    /\ procesosEnExit \in Nat
    /\ gradoMultiprogramacion \in Nat
    /\ gradoVigente \in Nat
    /\ gradoNuevo \in Nat
    /\ hiloNew \in {"grado", "new", "listo"}
    /\ hiloExit \in Procesos \cup {Nadie}
    /\ instancias \in [Recursos -> Int]
    /\ bloqueados \in [Recursos -> Seq(Procesos)]
    /\ conectadas \subseteq Interfaces
    /\ colaIO \in [Interfaces -> Seq(Procesos)]
    /\ enServicio \in [Interfaces -> Procesos \cup {Nadie}]
    /\ mutexPlanificador \in {"libre", "consola", "planificador"}
    /\ saliente \in Procesos \cup {Nadie}
    /\ liberaCPU \in BOOLEAN
    /\ repetido \in BOOLEAN
    /\ cpuLibre \in BOOLEAN
    /\ aCPU \in Seq(Procesos)
    /\ deCPU \in Seq([pid : Procesos, op : Operaciones, arg : Argumentos])
    /\ interrupciones \subseteq Procesos
    /\ enCPU \in Procesos \cup {Nadie}
    /\ restantes \in [Procesos -> 0 .. MaxLlamadas]
    /\ caido \in BOOLEAN

Init ==
    /\ estado = [p \in Procesos |-> "SIN_CREAR"]
    /\ recursosAsignados = [p \in Procesos |-> [r \in Recursos |-> 0]]
    /\ siguientePID = 0
    /\ colaNew = <<>> /\ colaReady = <<>> /\ colaExit = <<>>
    /\ procesosEnNew = 0 /\ procesosEnExit = 0
    /\ gradoMultiprogramacion = GradoInicial
    /\ gradoVigente = GradoInicial /\ gradoNuevo = GradoInicial
    /\ hiloNew = "grado" /\ hiloExit = Nadie
    /\ instancias = Instancias
    /\ bloqueados = [r \in Recursos |-> <<>>]
    /\ conectadas = {}
    /\ colaIO = [i \in Interfaces |-> <<>>]
    /\ enServicio = [i \in Interfaces |-> Nadie]
    /\ mutexPlanificador = "libre"
    /\ saliente = Nadie /\ liberaCPU = FALSE /\ repetido = FALSE
    /\ cpuLibre = TRUE
    /\ aCPU = <<>> /\ deCPU = <<>>
    /\ interrupciones = {} /\ enCPU = Nadie
    /\ restantes = [p \in Procesos |-> MaxLlamadas]
    /\ caido = FALSE

-------------------------------------------------------------------------------
(* Pieces of a planning round. A round starts only when the mutex is free. *)

Planifica == mutexPlanificador = "libre"

(* The operators named Mal... are seeded errors: they put one plausible      *)
(* mistake in the operator that follows them, to see a property fail.        *)

\* ... that dispatches without setting cpuLibre to 0.
MalEnvioSinOcupar(libre, listos, est, canal, danio) ==
    /\ cpuLibre' = libre
    /\ IF libre /\ listos # <<>>
       THEN /\ colaReady' = Tail(listos)
            /\ estado' = [est EXCEPT ![Head(listos)] = "EXEC"]
            /\ aCPU' = Append(canal, Head(listos))
       ELSE /\ colaReady' = listos /\ estado' = est /\ aCPU' = canal
    /\ caido' = danio

\* ... that decides by a condition other than cpuLibre and a non-empty READY.
MalEnvioSi(envia, libre, listos, est, canal, danio) ==
    /\ cpuLibre' = (libre /\ ~ envia)
    /\ colaReady' = IF envia THEN Tail(listos) ELSE listos
    /\ estado' = IF envia THEN [est EXCEPT ![Head(listos)] = "EXEC"] ELSE est
    /\ aCPU' = IF envia THEN Append(canal, Head(listos)) ELSE canal
    /\ caido' = danio

\* ... that looks at READY as it was before the round.
MalEnvioAntes(libre, listos, est, canal, danio) ==
    MalEnvioSi(libre /\ colaReady # <<>> /\ listos # <<>>, libre, listos, est,
               canal, danio)

\* ... that ignores cpuLibre.
MalEnvioSinMirar(libre, listos, est, canal, danio) ==
    MalEnvioSi(listos # <<>>, libre, listos, est, canal, danio)

\* ... that wants two processes in READY.
MalEnvioConDos(libre, listos, est, canal, danio) ==
    MalEnvioSi(libre /\ Len(listos) > 1, libre, listos, est, canal, danio)

\* ... that takes the process out of READY without changing its state.
MalEnvioSinEstado(libre, listos, est, canal, danio) ==
    /\ cpuLibre' = (libre /\ listos = <<>>)
    /\ colaReady' = IF libre /\ listos # <<>> THEN Tail(listos) ELSE listos
    /\ estado' = est
    /\ aCPU' = IF libre /\ listos # <<>> THEN Append(canal, Head(listos)) ELSE canal
    /\ caido' = danio

\* criterioEnvioFIFO: the round ends by sending the first READY process to an
\* idle CPU. `libre', `listos' and `est' are cpuLibre, colaReady and the states
\* as the round leaves them, `canal' what it has sent to the CPU so far and
\* `danio' whether it has already used a freed PCB.
CriterioEnvio(libre, listos, est, canal, danio) ==
    IF libre /\ listos # <<>>
    THEN /\ cpuLibre' = FALSE
         /\ colaReady' = Tail(listos)
         /\ estado' = [est EXCEPT ![Head(listos)] = "EXEC"]
         /\ aCPU' = Append(canal, Head(listos))
         /\ caido' = (danio \/ est[Head(listos)] = "LIBERADO")
    ELSE /\ cpuLibre' = libre
         /\ colaReady' = listos
         /\ estado' = est
         /\ aCPU' = canal
         /\ caido' = danio

Liberado(p) == estado[p] = "LIBERADO"

\* The kernel stops on an invalid pointer.
Caer ==
    /\ caido' = TRUE
    /\ UNCHANGED <<varsLP, varsGrado, varsExit, varsRec, varsIO, varsSalida,
                   varsCPU, estado, colaReady, cpuLibre, aCPU,
                   gradoMultiprogramacion, hiloNew, mutexPlanificador, deCPU>>

\* enviarAExit, up to the loop of liberarRecursos.
EmpezarSalida(p, libera) ==
    /\ mutexPlanificador' = "planificador"
    /\ saliente' = p
    /\ liberaCPU' = libera
    /\ repetido' = FALSE

MalSignalSinSacar(r, p) ==
    /\ instancias' = [instancias EXCEPT ![r] = @ + 1]
    /\ recursosAsignados' = [recursosAsignados EXCEPT ![p][r] = 0]
    /\ UNCHANGED bloqueados

MalSignalSinQuitar(r, p) ==
    /\ instancias' = [instancias EXCEPT ![r] = @ + 1]
    /\ bloqueados' = [bloqueados EXCEPT ![r] = IF @ = <<>> THEN @ ELSE Tail(@)]
    /\ UNCHANGED recursosAsignados

\* signalRecurso: the instance and every occurrence of the name go, and the
\* first waiter, if any, goes to READY. colaReady and the states are the caller's.
SignalRecurso(r, p) ==
    /\ instancias' = [instancias EXCEPT ![r] = @ + 1]
    /\ recursosAsignados' = [recursosAsignados EXCEPT ![p][r] = 0]
    /\ bloqueados' = [bloqueados EXCEPT ![r] = IF @ = <<>> THEN @ ELSE Tail(@)]

DespiertaLiberado(r) == bloqueados[r] # <<>> /\ Liberado(Head(bloqueados[r]))

ListosTrasSignal(r) ==
    IF bloqueados[r] = <<>> THEN colaReady
    ELSE Append(colaReady, Head(bloqueados[r]))

EstadoTrasSignal(r, est) ==
    IF bloqueados[r] = <<>> THEN est
    ELSE [est EXCEPT ![Head(bloqueados[r])] = "READY"]

-------------------------------------------------------------------------------
(* enviarAExit inside a planning round *)

\* One iteration of liberarRecursos. The order of the names in the array is
\* abstracted: any assigned resource may come first.
LiberarRecurso(r) ==
    /\ saliente # Nadie
    /\ recursosAsignados[saliente][r] > 0
    /\ SignalRecurso(r, saliente)
    /\ colaReady' = ListosTrasSignal(r)
    /\ estado' = EstadoTrasSignal(r, estado)
    /\ repetido' = (repetido \/ recursosAsignados[saliente][r] > 1)
    /\ caido' = (Liberado(saliente) \/ DespiertaLiberado(r))
    /\ UNCHANGED <<varsLP, varsGrado, varsExit, varsIO, varsCPU, saliente,
                   liberaCPU, cpuLibre, aCPU, gradoMultiprogramacion, hiloNew,
                   mutexPlanificador, deCPU>>

NadaAsignado == \A r \in Recursos : recursosAsignados[saliente][r] = 0

MalEncolarExit(p) ==
    /\ colaExit' = Append(colaExit, p)
    /\ UNCHANGED procesosEnExit

EncolarExit(p) ==
    /\ colaExit' = Append(colaExit, p)
    /\ procesosEnExit' = procesosEnExit + 1

\* The loop is over: EXIT state, colaExit, semaphore, criterioEnvio, unlock.
TerminarSalida ==
    /\ saliente # Nadie
    /\ NadaAsignado
    /\ ~ repetido
    /\ EncolarExit(saliente)
    /\ CriterioEnvio(cpuLibre \/ liberaCPU, colaReady,
                     [estado EXCEPT ![saliente] = "EXIT"], aCPU,
                     Liberado(saliente))
    /\ saliente' = Nadie
    /\ liberaCPU' = FALSE
    /\ mutexPlanificador' = "libre"
    /\ UNCHANGED <<varsLP, varsGrado, varsRec, varsIO, varsCPU, hiloExit,
                   repetido, gradoMultiprogramacion, hiloNew, deCPU>>

\* sacarRecursoTomado drops every copy of a name but the loop runs once per
\* copy: with a repeated name it reaches hallarRecurso(NULL).
CaerLiberando ==
    /\ saliente # Nadie
    /\ NadaAsignado
    /\ repetido
    /\ Caer

-------------------------------------------------------------------------------
(* Thread procesoNewAReady *)

MalHayGradoSiempre == TRUE
MalHayGradoConDos == gradoMultiprogramacion > 1

\* sem_wait(&gradoMultiprogramacion), here and in the console, can proceed.
HayGrado == gradoMultiprogramacion > 0

TomarGrado ==
    /\ hiloNew = "grado"
    /\ HayGrado
    /\ gradoMultiprogramacion' = gradoMultiprogramacion - 1
    /\ hiloNew' = "new"
    /\ UNCHANGED <<varsLP, varsGrado, varsExit, varsRec, varsIO, varsSalida,
                   varsCPU, varsEnvio, mutexPlanificador, deCPU>>

TomarNew ==
    /\ hiloNew = "new"
    /\ procesosEnNew > 0
    /\ procesosEnNew' = procesosEnNew - 1
    /\ hiloNew' = "listo"
    /\ UNCHANGED <<siguientePID, colaNew, varsGrado, varsExit, varsRec, varsIO,
                   varsSalida, varsCPU, varsEnvio, gradoMultiprogramacion,
                   mutexPlanificador, deCPU>>

\* planificar(CREACION_PROCESO)
NewAReady ==
    /\ hiloNew = "listo"
    /\ Planifica
    /\ colaNew # <<>>
    /\ colaNew' = Tail(colaNew)
    /\ CriterioEnvio(cpuLibre, Append(colaReady, Head(colaNew)),
                     [estado EXCEPT ![Head(colaNew)] = "READY"], aCPU, FALSE)
    /\ hiloNew' = "grado"
    /\ UNCHANGED <<siguientePID, procesosEnNew, varsGrado, varsExit, varsRec,
                   varsIO, varsSalida, varsCPU, gradoMultiprogramacion,
                   mutexPlanificador, deCPU>>

\* queue_pop of an empty colaNew gives NULL and enviarAReady dereferences it.
CaerSinNew ==
    /\ hiloNew = "listo"
    /\ Planifica
    /\ colaNew = <<>>
    /\ Caer

-------------------------------------------------------------------------------
(* Thread recibirDeCPU: one action per operation, the message m being first *)

Mensaje == Head(deCPU)

\* hallarPCB finds a PCB until vaciarExit takes it off listadoProcesos.
Listado(p) == estado[p] \notin {"SIN_CREAR", "LIBERADO"} /\ p # hiloExit

\* Common to every message: it is consumed, and actualizarProcesoRecibido
\* overwrites the PCB with the CPU's copy, whose estado is the one it was sent
\* with. The rest of the copy equals the kernel's, which nobody has changed.
RecibirDeCPU(ops) ==
    /\ Planifica
    /\ deCPU # <<>>
    /\ Mensaje.op \in ops
    /\ Listado(Mensaje.pid)
    /\ deCPU' = Tail(deCPU)
    /\ UNCHANGED <<varsLP, varsGrado, varsExit, varsCPU, gradoMultiprogramacion,
                   hiloNew>>

EstadoRecibido == [estado EXCEPT ![Mensaje.pid] = "EXEC"]

CaerSinPCB ==
    /\ Planifica
    /\ deCPU # <<>>
    /\ ~ Listado(Mensaje.pid)
    /\ Caer

\* The round that sends the process of the message to EXIT.
SaleElDelMensaje ==
    /\ EmpezarSalida(Mensaje.pid, TRUE)
    /\ estado' = EstadoRecibido
    /\ UNCHANGED <<varsRec, varsIO, colaReady, cpuLibre, aCPU, caido>>

\* hallarInterfazConectada and comprobarOperacionValida.
AceptaIO == Mensaje.arg \in conectadas /\ Mensaje.op \in TipoInterfaz[Mensaje.arg]

RecibirIO ==
    /\ RecibirDeCPU(OperacionesIO)
    /\ AceptaIO
    /\ colaIO' = [colaIO EXCEPT ![Mensaje.arg] = Append(@, Mensaje.pid)]
    /\ CriterioEnvio(TRUE, colaReady,
                     [estado EXCEPT ![Mensaje.pid] = "BLOCKED"], aCPU, FALSE)
    /\ UNCHANGED <<varsRec, varsSalida, conectadas, enServicio, mutexPlanificador>>

RecibirIOInvalida ==
    /\ RecibirDeCPU(OperacionesIO)
    /\ ~ AceptaIO
    /\ SaleElDelMensaje

MalHayInstancia == instancias[Mensaje.arg] >= 0

HayInstancia == instancias[Mensaje.arg] > 0

\* waitRecurso takes the instance and notes it in the PCB whether it grants the
\* resource (the PCB goes back to the CPU) or blocks the process.
TomarInstancia ==
    /\ instancias' = [instancias EXCEPT ![Mensaje.arg] = @ - 1]
    /\ recursosAsignados' =
         [recursosAsignados EXCEPT ![Mensaje.pid][Mensaje.arg] = @ + 1]

RecibirWait ==
    /\ RecibirDeCPU({"INSTRUCCION_WAIT"})
    /\ Mensaje.arg \in Recursos
    /\ HayInstancia
    /\ TomarInstancia
    /\ CriterioEnvio(FALSE, colaReady, EstadoRecibido,
                     Append(aCPU, Mensaje.pid), FALSE)
    /\ UNCHANGED <<varsIO, varsSalida, bloqueados, mutexPlanificador>>

RecibirWaitBloqueante ==
    /\ RecibirDeCPU({"INSTRUCCION_WAIT"})
    /\ Mensaje.arg \in Recursos
    /\ ~ HayInstancia
    /\ TomarInstancia
    /\ bloqueados' = [bloqueados EXCEPT ![Mensaje.arg] = Append(@, Mensaje.pid)]
    /\ CriterioEnvio(TRUE, colaReady,
                     [estado EXCEPT ![Mensaje.pid] = "BLOCKED"], aCPU, FALSE)
    /\ UNCHANGED <<varsIO, varsSalida, mutexPlanificador>>

RecibirSignal ==
    /\ RecibirDeCPU({"INSTRUCCION_SIGNAL"})
    /\ Mensaje.arg \in Recursos
    /\ SignalRecurso(Mensaje.arg, Mensaje.pid)
    /\ CriterioEnvio(FALSE, ListosTrasSignal(Mensaje.arg),
                     EstadoTrasSignal(Mensaje.arg, EstadoRecibido),
                     Append(aCPU, Mensaje.pid), DespiertaLiberado(Mensaje.arg))
    /\ UNCHANGED <<varsIO, varsSalida, mutexPlanificador>>

\* hallarRecurso finds nothing: INVALID_RESOURCE
RecibirRecursoInvalido ==
    /\ RecibirDeCPU({"INSTRUCCION_WAIT", "INSTRUCCION_SIGNAL"})
    /\ Mensaje.arg \notin Recursos
    /\ SaleElDelMensaje

\* INSTRUCCION_EXIT, OUT_OF_MEMORY and the FINALIZAR_PROCESO of an interrupt
RecibirFin ==
    /\ RecibirDeCPU(OperacionesFin)
    /\ SaleElDelMensaje

-------------------------------------------------------------------------------
(* Interface threads: esperarClientesIO starts one per connection *)

ConectarInterfaz(i) ==
    /\ i \notin conectadas
    /\ conectadas' = conectadas \cup {i}
    /\ UNCHANGED <<varsLP, varsGrado, varsExit, varsRec, varsSalida, varsCPU,
                   varsEnvio, colaIO, enServicio, gradoMultiprogramacion,
                   hiloNew, mutexPlanificador, deCPU>>

\* The semaphore of the interface counts the requests of its queue, from which
\* only its thread takes. Except for a generic interface, building the packet
\* reads the PID of the request's PCB.
AtenderIO(i) ==
    /\ enServicio[i] = Nadie
    /\ colaIO[i] # <<>>
    /\ enServicio' = [enServicio EXCEPT ![i] = Head(colaIO[i])]
    /\ colaIO' = [colaIO EXCEPT ![i] = Tail(@)]
    /\ caido' = (/\ TipoInterfaz[i] # OperacionesGenerica
                 /\ Liberado(Head(colaIO[i])))
    /\ UNCHANGED <<varsLP, varsGrado, varsExit, varsRec, varsSalida, varsCPU,
                   conectadas, estado, colaReady, cpuLibre, aCPU,
                   gradoMultiprogramacion, hiloNew, mutexPlanificador, deCPU>>

\* The device answers and its thread plans OPERACION_FINALIZADA.
TerminarIO(i) ==
    /\ enServicio[i] # Nadie
    /\ Planifica
    /\ enServicio' = [enServicio EXCEPT ![i] = Nadie]
    /\ CriterioEnvio(cpuLibre, Append(colaReady, enServicio[i]),
                     [estado EXCEPT ![enServicio[i]] = "READY"], aCPU,
                     Liberado(enServicio[i]))
    /\ UNCHANGED <<varsLP, varsGrado, varsExit, varsRec, varsSalida, varsCPU,
                   conectadas, colaIO, gradoMultiprogramacion, hiloNew,
                   mutexPlanificador, deCPU>>

-------------------------------------------------------------------------------
(* Thread vaciarExit, which never takes mutexPlanificador *)

SacarDeExit ==
    /\ hiloExit = Nadie
    /\ procesosEnExit > 0
    /\ procesosEnExit' = procesosEnExit - 1
    /\ hiloExit' = Head(colaExit)
    /\ colaExit' = Tail(colaExit)
    /\ caido' = Liberado(Head(colaExit))
    /\ UNCHANGED <<varsLP, varsGrado, varsRec, varsIO, varsSalida, varsCPU,
                   estado, colaReady, cpuLibre, aCPU, gradoMultiprogramacion,
                   hiloNew, mutexPlanificador, deCPU>>

MalDevolverGrado == UNCHANGED gradoMultiprogramacion

DevolverGrado == gradoMultiprogramacion' = gradoMultiprogramacion + 1

\* Memory is told, the degree gets its place back and the PCB is freed.
LiberarPCB ==
    /\ hiloExit # Nadie
    /\ estado' = [estado EXCEPT ![hiloExit] = "LIBERADO"]
    /\ DevolverGrado
    /\ hiloExit' = Nadie
    /\ UNCHANGED <<varsLP, varsGrado, varsRec, varsIO, varsSalida, varsCPU,
                   colaExit, procesosEnExit, colaReady, cpuLibre, aCPU, caido,
                   hiloNew, mutexPlanificador, deCPU>>

-------------------------------------------------------------------------------
(* Console. Its thread carries out one command at a time: while a change of *)
(* degree is waiting for its semaphore nothing else is typed.              *)

Prompt == gradoNuevo = gradoVigente

\* iniciarProceso. The post of procesosEnNew comes after memory's answer, but
\* only procesoNewAReady looks at colaNew in between. It waits for that post or
\* takes one left over by a FINALIZAR in NEW, the same to the kernel.
IniciarProceso ==
    /\ Prompt
    /\ siguientePID < MaxProcesos
    /\ estado' = [estado EXCEPT ![siguientePID] = "NEW"]
    /\ colaNew' = Append(colaNew, siguientePID)
    /\ siguientePID' = siguientePID + 1
    /\ procesosEnNew' = procesosEnNew + 1
    /\ UNCHANGED <<varsGrado, varsExit, varsRec, varsIO, varsSalida, varsCPU,
                   colaReady, cpuLibre, aCPU, caido, gradoMultiprogramacion,
                   hiloNew, mutexPlanificador, deCPU>>

\* modificarGradoMultiprogramacion: one sem_post or sem_wait per unit.
PedirGrado(n) ==
    /\ Prompt
    /\ gradoNuevo' = n
    /\ UNCHANGED <<varsLP, varsExit, varsRec, varsIO, varsSalida, varsCPU,
                   varsEnvio, gradoVigente, gradoMultiprogramacion, hiloNew,
                   mutexPlanificador, deCPU>>

SubirGrado ==
    /\ gradoNuevo > gradoVigente
    /\ gradoVigente' = gradoVigente + 1
    /\ gradoMultiprogramacion' = gradoMultiprogramacion + 1
    /\ UNCHANGED <<varsLP, varsExit, varsRec, varsIO, varsSalida, varsCPU,
                   varsEnvio, gradoNuevo, hiloNew, mutexPlanificador, deCPU>>

BajarGrado ==
    /\ gradoNuevo < gradoVigente
    /\ HayGrado
    /\ gradoVigente' = gradoVigente - 1
    /\ gradoMultiprogramacion' = gradoMultiprogramacion - 1
    /\ UNCHANGED <<varsLP, varsExit, varsRec, varsIO, varsSalida, varsCPU,
                   varsEnvio, gradoNuevo, hiloNew, mutexPlanificador, deCPU>>

\* DETENER_PLANIFICACION and INICIAR_PLANIFICACION, typed in that order. A
\* script is the same pair around its INICIAR_PROCESO commands.
DetenerPlanificacion ==
    /\ Detenible /\ Prompt
    /\ Planifica
    /\ mutexPlanificador' = "consola"
    /\ UNCHANGED <<varsLP, varsGrado, varsExit, varsRec, varsIO, varsSalida,
                   varsCPU, varsEnvio, gradoMultiprogramacion, hiloNew, deCPU>>

IniciarPlanificacion ==
    /\ Prompt
    /\ mutexPlanificador = "consola"
    /\ mutexPlanificador' = "libre"
    /\ UNCHANGED <<varsLP, varsGrado, varsExit, varsRec, varsIO, varsSalida,
                   varsCPU, varsEnvio, gradoMultiprogramacion, hiloNew, deCPU>>

\* finalizarProceso, one action per case of its switch.
Finalizar(p, st) ==
    /\ st \in Finalizables
    /\ Prompt
    /\ Planifica
    /\ estado[p] = st
    /\ Listado(p)

MalSinProceso(cola, p) == cola

\* sacarDeCola
SinProceso(cola, p) == RemoveFirst(cola, p)

FinalizarNew(p) ==
    /\ Finalizar(p, "NEW")
    /\ colaNew' = SinProceso(colaNew, p)
    /\ EmpezarSalida(p, FALSE)
    /\ UNCHANGED <<siguientePID, procesosEnNew, varsGrado, varsExit, varsRec,
                   varsIO, varsCPU, varsEnvio, gradoMultiprogramacion, hiloNew,
                   deCPU>>

FinalizarReady(p) ==
    /\ Finalizar(p, "READY")
    /\ colaReady' = SinProceso(colaReady, p)
    /\ EmpezarSalida(p, FALSE)
    /\ UNCHANGED <<varsLP, varsGrado, varsExit, varsRec, varsIO, varsCPU,
                   estado, cpuLibre, aCPU, caido, gradoMultiprogramacion,
                   hiloNew, deCPU>>

\* sacarProcesoBloqueado. The queues of the interfaces hold requests, not
\* PCBs, so the search never matches there and the request stays queued.
FinalizarBlocked(p) ==
    /\ Finalizar(p, "BLOCKED")
    /\ bloqueados' = [r \in Recursos |-> SinProceso(bloqueados[r], p)]
    /\ EmpezarSalida(p, FALSE)
    /\ UNCHANGED <<varsLP, varsGrado, varsExit, varsIO, varsCPU, varsEnvio,
                   instancias, recursosAsignados, gradoMultiprogramacion,
                   hiloNew, deCPU>>

FinalizarExec(p) ==
    /\ Finalizar(p, "EXEC")
    /\ interrupciones' = interrupciones \cup {p}
    /\ UNCHANGED <<varsLP, varsGrado, varsExit, varsRec, varsIO, varsSalida,
                   varsEnvio, enCPU, restantes, gradoMultiprogramacion, hiloNew,
                   mutexPlanificador, deCPU>>

\* The switch has no case for EXIT: the process is sent there once more. Bound:
\* colaExit holds at most one such repetition.
FinalizarExit(p) ==
    /\ Finalizar(p, "EXIT")
    /\ Len(colaExit) <= MaxProcesos
    /\ EmpezarSalida(p, FALSE)
    /\ UNCHANGED <<varsLP, varsGrado, varsExit, varsRec, varsIO, varsCPU,
                   varsEnvio, gradoMultiprogramacion, hiloNew, deCPU>>

\* A PID that is no longer, or not yet, in listadoProcesos: hallarPCB gives NULL.
FinalizarAusente(p) ==
    /\ "AUSENTE" \in Finalizables
    /\ Prompt
    /\ Planifica
    /\ ~ Listado(p)
    /\ Caer

-------------------------------------------------------------------------------
(* The CPU, as the kernel sees it through its two sockets *)

NoKernel == <<varsLP, varsGrado, varsExit, varsRec, varsIO, varsSalida, estado,
              colaReady, cpuLibre, caido, gradoMultiprogramacion, hiloNew,
              mutexPlanificador>>

RecibirPCB ==
    /\ enCPU = Nadie
    /\ aCPU # <<>>
    /\ enCPU' = Head(aCPU)
    /\ aCPU' = Tail(aCPU)
    /\ UNCHANGED <<NoKernel, deCPU, interrupciones, restantes>>

DevolverPCB(op, arg) ==
    /\ deCPU' = Append(deCPU, [pid |-> enCPU, op |-> op, arg |-> arg])
    /\ enCPU' = Nadie
    /\ UNCHANGED <<NoKernel, aCPU>>

\* What a disciplined program may ask for: every script of the test plan WAITs
\* on resources it does not hold and SIGNALs resources it holds.
Permitida(c) ==
    Disciplinados =>
      CASE c.op = "INSTRUCCION_WAIT" ->
             c.arg \in Recursos => recursosAsignados[enCPU][c.arg] = 0
        [] c.op = "INSTRUCCION_SIGNAL" ->
             c.arg \in Recursos => recursosAsignados[enCPU][c.arg] > 0
        [] OTHER -> TRUE

EjecutarLlamada(c) ==
    /\ enCPU # Nadie
    /\ restantes[enCPU] > 0
    /\ Permitida(c)
    /\ restantes' = [restantes EXCEPT ![enCPU] = @ - 1]
    /\ DevolverPCB(c.op, c.arg)
    /\ UNCHANGED interrupciones

EjecutarExit ==
    /\ enCPU # Nadie
    /\ DevolverPCB("INSTRUCCION_EXIT", "ninguno")
    /\ UNCHANGED <<interrupciones, restantes>>

\* check_interrupt finds the interrupt that was for the running process.
AtenderInterrupcion ==
    /\ enCPU \in interrupciones
    /\ interrupciones' = interrupciones \ {enCPU}
    /\ DevolverPCB("FINALIZAR_PROCESO", "ninguno")
    /\ UNCHANGED restantes

\* recibir_interrupcion drops the interrupt of a process it is not running.
DescartarInterrupcion(p) ==
    /\ p \in interrupciones
    /\ p # enCPU
    /\ interrupciones' = interrupciones \ {p}
    /\ UNCHANGED <<NoKernel, aCPU, deCPU, enCPU, restantes>>

-------------------------------------------------------------------------------
\* Every process created has been finalised and no more will come.
Terminado ==
    /\ siguientePID = MaxProcesos
    /\ \A p \in Procesos : estado[p] = "LIBERADO"
    /\ UNCHANGED vars

HiloNew == TomarGrado \/ TomarNew \/ NewAReady \/ CaerSinNew

HiloRecibir ==
    \/ RecibirIO \/ RecibirIOInvalida
    \/ RecibirWait \/ RecibirWaitBloqueante
    \/ RecibirSignal \/ RecibirRecursoInvalido
    \/ RecibirFin \/ CaerSinPCB

Salida == TerminarSalida \/ CaerLiberando \/ \E r \in Recursos : LiberarRecurso(r)

HiloIO(i) == AtenderIO(i) \/ TerminarIO(i)

HiloExit == SacarDeExit \/ LiberarPCB

HiloConsola ==
    \/ IniciarProceso
    \/ \E n \in Grados : PedirGrado(n)
    \/ SubirGrado \/ BajarGrado
    \/ DetenerPlanificacion \/ IniciarPlanificacion
    \/ \E p \in Procesos :
         \/ FinalizarNew(p) \/ FinalizarReady(p) \/ FinalizarBlocked(p)
         \/ FinalizarExec(p) \/ FinalizarExit(p) \/ FinalizarAusente(p)

HiloDispatch ==
    \/ RecibirPCB \/ EjecutarExit \/ AtenderInterrupcion
    \/ \E c \in Llamadas : EjecutarLlamada(c)

HiloInterrupt == \E p \in Procesos : DescartarInterrupcion(p)

Next ==
    /\ ~ caido
    /\ \/ HiloNew \/ HiloRecibir \/ Salida \/ HiloExit \/ HiloConsola
       \/ HiloDispatch \/ HiloInterrupt
       \/ \E i \in Interfaces : HiloIO(i) \/ ConectarInterfaz(i)
       \/ Terminado

Spec == Init /\ [][Next]_vars

\* Each thread of the kernel and of the CPU, and each device, eventually takes a
\* step that stays possible. The console need not type anything, but its thread
\* carries out the MULTIPROGRAMACION it has begun.
Equidad ==
    /\ WF_vars(~ caido /\ HiloNew)
    /\ WF_vars(~ caido /\ HiloRecibir)
    /\ WF_vars(~ caido /\ Salida)
    /\ WF_vars(~ caido /\ HiloExit)
    /\ WF_vars(~ caido /\ HiloDispatch)
    /\ WF_vars(~ caido /\ HiloInterrupt)
    /\ WF_vars(~ caido /\ (SubirGrado \/ BajarGrado))
    /\ \A i \in Interfaces : WF_vars(~ caido /\ HiloIO(i))

SpecJusta == Spec /\ Equidad

===============================================================================
