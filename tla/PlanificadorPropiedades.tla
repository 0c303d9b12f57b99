------------------------ MODULE PlanificadorPropiedades ------------------------
(***************************************************************************)
(* What the FIFO scheduler of module Planificador must guarantee.          *)
(***************************************************************************)
EXTENDS Planificador

-------------------------------------------------------------------------------
(* The CPU *)

EnEjecucion == {p \in Procesos : estado[p] = "EXEC"}

Vuelo == Len(aCPU) + Len(deCPU) + (IF enCPU = Nadie THEN 0 ELSE 1)
           + (IF liberaCPU THEN 1 ELSE 0)

DelVuelo ==
    ToSet(aCPU) \cup {deCPU[k].pid : k \in DOMAIN deCPU}
      \cup ({enCPU} \ {Nadie}) \cup (IF liberaCPU THEN {saliente} ELSE {})

\* cpuLibre is not the CPU but the scheduler's belief about it. It is 0 exactly
\* when one PCB is out: on its way to the CPU, inside it, on its way back, or
\* returned by a message whose round has not ended; never two (FIFO.c:3-30).
UnaCPU == Vuelo = (IF cpuLibre THEN 0 ELSE 1)

\* The process that is out, and no other, is the one in EXEC: the state that
\* finalizarProceso reads tells where the process is (planificacion.c:55-79).
EjecutaElDelVuelo == EnEjecucion = DelVuelo

\* The CPU is never left idle with somebody in READY once the round that freed
\* it, or that filled READY, is over (criterioEnvio ends every round).
SinOcio == mutexPlanificador # "planificador" => ~ (cpuLibre /\ colaReady # <<>>)

-------------------------------------------------------------------------------
(* The processes *)

Posiciones(cola, p) == {k \in DOMAIN cola : cola[k] = p}

EsperandoRecurso(p) ==
    {l \in Recursos \X (1 .. MaxProcesos) :
       l[2] \in Posiciones(bloqueados[l[1]], p)}

EsperandoIO(p) ==
    {l \in Interfaces \X (0 .. MaxProcesos) :
       IF l[2] = 0 THEN enServicio[l[1]] = p ELSE l[2] \in Posiciones(colaIO[l[1]], p)}

Lugares(p) ==
    [NEW     |-> Cardinality(Posiciones(colaNew, p)),
     READY   |-> Cardinality(Posiciones(colaReady, p)),
     BLOCKED |-> Cardinality(EsperandoRecurso(p)) + Cardinality(EsperandoIO(p)),
     EXIT    |-> Cardinality(Posiciones(colaExit, p))
                   + (IF hiloExit = p THEN 1 ELSE 0)]

\* A process waits in exactly one queue of the kernel, once, and it is the one
\* its state names; while enviarAExit holds it, it is in none. No PCB is lost
\* (in no queue) or doubled (in two), and vaciarExit frees none still queued.
EnSuLugar ==
    \A p \in Procesos :
      Lugares(p) = [e \in {"NEW", "READY", "BLOCKED", "EXIT"} |->
                      IF e = estado[p] /\ p # saliente THEN 1 ELSE 0]

\* The counting semaphores say how much there is in the queues they guard: the
\* thread that has passed its sem_wait will find its process.
ExitContado == Len(colaExit) = procesosEnExit

SemaforosDeColas ==
    /\ Len(colaNew) = procesosEnNew + (IF hiloNew = "listo" THEN 1 ELSE 0)
    /\ ExitContado

\* The planner keeps the mutex between actions only while enviarAExit runs.
Turno ==
    /\ saliente # Nadie <=> mutexPlanificador = "planificador"
    /\ liberaCPU => saliente # Nadie

\* UnaCPU and SinOcio are not inductive: they need to know that nobody else
\* starts a round in the middle of enviarAExit, and that vaciarExit, whose
\* semaphore counts colaExit, always finds a PCB there.
InvInductivo == TypeOK /\ ExitContado /\ Turno /\ UnaCPU /\ SinOcio

\* No thread of the kernel dereferences a NULL or a freed PCB.
SinCaida == ~ caido

-------------------------------------------------------------------------------
(* The degree of multiprogramming *)

Admitidos == {p \in Procesos : estado[p] \in {"READY", "EXEC", "BLOCKED", "EXIT"}}

\* Every unit of the degree is free, held by procesoNewAReady while it waits for
\* a NEW process, or taken by an admitted process whose PCB still exists. None
\* is lost or invented, also while MULTIPROGRAMACION is changing the degree.
GradoContado ==
    gradoMultiprogramacion + (IF hiloNew = "grado" THEN 0 ELSE 1)
      + Cardinality(Admitidos) = gradoVigente

-------------------------------------------------------------------------------
(* The resources *)

Piden(r) == {p \in Procesos : recursosAsignados[p][r] > 0}
Tienen(r) == Piden(r) \ ToSet(bloqueados[r])

\* The balance of a resource: its instances are the configured ones less one
\* for each process that has it or waits for it, so a negative value is the
\* number of waiters (recursos.c:39-93). It holds also between two iterations
\* of liberarRecursos.
RecursosContados ==
    \A r \in Recursos :
      /\ instancias[r] = Instancias[r] - Cardinality(Piden(r))
      /\ Len(bloqueados[r]) = (IF instancias[r] < 0 THEN - instancias[r] ELSE 0)
      /\ ToSet(bloqueados[r]) \subseteq Piden(r)

\* waitRecurso grants a resource only "en caso de que el recurso este
\* disponible" (recursos.h:29): it never has more holders than instances.
ExclusionMutua == \A r \in Recursos : Cardinality(Tienen(r)) <= Instancias[r]

-------------------------------------------------------------------------------
(* The inductive invariants behind the properties of the processes and of the *)
(* resources                                                                  *)

\* Where a process may wait while BLOCKED: the queue of each resource, and the
\* queue of each interface with the request that its thread is serving.
Filas == ({"recurso"} \X Recursos) \cup ({"interfaz"} \X Interfaces)

EnFila(f) ==
    IF f[1] = "recurso" THEN ToSet(bloqueados[f[2]])
    ELSE ToSet(colaIO[f[2]]) \cup ({enServicio[f[2]]} \ {Nadie})

Esperas == [f \in Filas |-> EnFila(f)]

EnSalida == ToSet(colaExit) \cup ({hiloExit} \ {Nadie})

\* No queue holds a PCB twice.
SinCopias ==
    /\ IsInjective(colaNew) /\ IsInjective(colaReady) /\ IsInjective(colaExit)
    /\ hiloExit \notin ToSet(colaExit)
    /\ \A r \in Recursos : IsInjective(bloqueados[r])
    /\ \A i \in Interfaces : IsInjective(colaIO[i]) /\ enServicio[i] \notin ToSet(colaIO[i])

\* With the states est, the queues hold exactly the processes of their state,
\* but for sal, the one enviarAExit holds; nobody waits in two of them.
Ubicados(est, nuevos, listos, esperas, salen, vuelo, sal) ==
    \A p \in Procesos :
      /\ p \in nuevos <=> est[p] = "NEW" /\ p # sal
      /\ p \in listos <=> est[p] = "READY" /\ p # sal
      /\ (\E f \in Filas : p \in esperas[f]) <=> est[p] = "BLOCKED" /\ p # sal
      /\ \A f, g \in Filas : p \in esperas[f] /\ p \in esperas[g] => f = g
      /\ p \in salen <=> est[p] = "EXIT" /\ p # sal
      /\ p \in vuelo <=> est[p] = "EXEC"

\* enviarAExit is given the process that executes, and the CPU is then freed,
\* or one that the console finalises.
SalientePosible ==
    saliente # Nadie =>
      estado[saliente] \in IF liberaCPU THEN {"EXEC"} ELSE Finalizables \cap {"NEW", "READY"}

\* The PIDs are given in order.
PIDsEnOrden == \A p \in Procesos : estado[p] = "SIN_CREAR" <=> p >= siguientePID

Orden ==
    /\ SinCopias
    /\ Ubicados(estado, ToSet(colaNew), ToSet(colaReady), Esperas, EnSalida,
                DelVuelo, saliente)
    /\ SalientePosible
    /\ PIDsEnOrden

\* A disciplined program holds or waits for a resource at most once, and its
\* message is as legal when it is read as when it was sent.
UsoDisciplinado ==
    /\ \A p \in Procesos, r \in Recursos : recursosAsignados[p][r] <= 1
    /\ ~ repetido
    /\ \A k \in DOMAIN deCPU :
         LET m == deCPU[k]
         IN  m.arg \in Recursos =>
               /\ m.op = "INSTRUCCION_WAIT" => recursosAsignados[m.pid][m.arg] = 0
               /\ m.op = "INSTRUCCION_SIGNAL" => recursosAsignados[m.pid][m.arg] > 0

-------------------------------------------------------------------------------
(* Progress *)

\* FIFO starves nobody: whoever is in READY leaves it.
ReadyAvanza == \A p \in Procesos : estado[p] = "READY" ~> estado[p] # "READY"

\* With programs that end and a single resource (no circular wait), every
\* process that the console creates is admitted, runs and is finalised.
TodosTerminan == \A p \in Procesos : estado[p] = "NEW" ~> estado[p] = "LIBERADO"

\* The console "interpreta el comando ingresado y ejecuta la funcion
\* correspondiente" (consola.h:18): a MULTIPROGRAMACION ends with the degree it
\* was given, after waiting, if it lowers it, for processes to finish.
ComandoTermina == gradoNuevo # gradoVigente ~> gradoNuevo = gradoVigente

-------------------------------------------------------------------------------
(* Abstract specification *)

Abstracto == INSTANCE CincoEstados WITH grado <- gradoVigente

\* The threads together implement the five-state diagram with one CPU and a
\* bounded number of admitted processes.
CumpleCincoEstados == Abstracto!SpecAbs

===============================================================================
