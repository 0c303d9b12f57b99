# Verification of C-Comenta

C-Comenta is a small operating system made of four programs that talk over TCP
sockets: a **kernel** that schedules processes, a **CPU** that runs their
pseudo-assembly, a **memory** that holds programs and paged user space, and one
or more **I/O interfaces** (generic, STDIN, STDOUT and DialFS). This directory
models it in TLA+, checks the models with TLC and proves with TLAPS what should
hold for any number of processes, resources and interfaces. Names are those of
the code wherever TLA+ allows it; paths below are relative to `src/`.

## 1. The system

| Part | Code | State it keeps | Operations |
|---|---|---|---|
| Long-term scheduler | `kernel/src/planificadorLP.c` | `colaNew`, `colaExit`, `listadoProcesos`, semaphores `procesosEnNew`, `procesosEnExit`, `gradoMultiprogramacion`, `siguientePID` | `iniciarProceso`, `finalizarProceso`, `enviarAReady`, `enviarAExit`, thread `vaciarExit` |
| Short-term scheduler | `kernel/src/planificacion/*.c` | `colaReady` (VRR: `colaPrioritaria`), `cpuLibre`, `mutexPlanificador`, quantum timer | threads `procesoNewAReady`, `recibirDeCPU`; `planificar(op)`, `criterioEnvio` |
| Resources | `kernel/src/recursos.c` | per resource: instances, blocked queue; per PCB: `recursosAsignados` | `waitRecurso`, `signalRecurso`, `liberarRecursos` |
| Interface threads | `kernel/src/interfaces/*.c` | `interfacesConectadas`; per interface: queue of requests, semaphore | accept, validate, serve one request at a time, disconnect |
| Console | `kernel/src/consola.c` | - | `INICIAR_PROCESO`, `FINALIZAR_PROCESO`, `MULTIPROGRAMACION`, `DETENER/INICIAR_PLANIFICACION`, `EJECUTAR_SCRIPT`, `PROCESO_ESTADO` |
| CPU cycle | `cpu/src/cicloDeInstrucciones.c`, `interrupciones.c`, `main.c` | current PCB, `hayPCB`, `hay_interrupcion`, `cod_op_int` | threads `escuchar_dispatch`, `escuchar_interrupt`; fetch, execute, check interrupt |
| CPU instructions | `cpu/src/instrucciones.c` | registers | SET, SUM, SUB, JNZ, MOV_IN/OUT, COPY_STRING, RESIZE, I/O, WAIT, SIGNAL |
| MMU and TLB | `cpu/src/mmu.c`, `algoritmosSustitucion.c` | TLB entries | translate; FIFO or LRU replacement |
| Memory | `memoria/src/*.c` | bitmap of frames, page table and instructions of each process, the contiguous user space | create, resize, finish a process; next instruction; page to frame; read; write |
| I/O devices | `entradasalida/src/interfazGen.c`, `interfazStd.c` | - | sleep; read keyboard into memory; print memory |
| DialFS | `entradasalida/src/interfazFs.c` | bitmap file, blocks file, one metadata file per file | create, delete, truncate (and compact), read, write |
| Utils | `utils/src/utils/*` | - | packets and sockets |

**Interaction.** The kernel sends a PCB to the CPU on the dispatch socket; the
CPU returns it once, with the operation that stopped the process. On the
interrupt socket the kernel names the PID to throw out. An I/O request leaves
the process blocked in the queue of an interface; one kernel thread per
interface sends the requests to the device and plans the process again when it
answers. The kernel asks memory to create and finish processes. The CPU, the
STDIN/STDOUT devices and DialFS read and write user space through memory. Inside
the kernel everything meets in `mutexPlanificador`: a planning round is
"lock; `planificar(op)`; `criterioEnvio`; unlock".

**What is hard.** Seven kinds of kernel thread act on the same PCBs; one of them
(`vaciarExit`) frees them without the mutex; a counting semaphore (the degree of
multiprogramming) is taken in one thread, given back in another and moved by the
console; the CPU returns a PCB while the console is asking to interrupt it; a
process can be finalised in any state; memory frames are shared by processes
under a lock that covers only part of each operation; DialFS keeps one fact in
two files. `PROJECT.json` lists these hazards line by line.

**What makes each part correct.** Scheduler: no process is lost or in two
queues, at most one is out to the CPU, the CPU is not idle with work, the degree
is respected and never leaks, everyone finishes. Resources: instances balance,
holders never exceed instances. Interfaces: requests are served in order, once,
and only while their process exists. CPU: one return per PCB, the interrupt hits
the process it was for. MMU: a translation agrees with the page table. Memory: a
frame has at most one owner and the bitmap says which are taken. DialFS: the
bitmap and the metadata agree, files do not overlap.

## 2. Modules and plan

| Module | Models | Composed with |
|---|---|---|
| `Planificador`, `PlanificadorPropiedades` | the kernel under FIFO with resources, interfaces and console | implements `CincoEstados`; assumes `ContratoCPU` of the CPU |
| `Quantum` | the turns of RR and VRR | assumes `ContratoCPU` |
| `CPUHilos` | dispatch and interrupt threads of the CPU | implements `ContratoCPU` |
| `Memoria` | frames, page tables, creation and end of processes, with the threads of `main.c` | implements `Marcos` |
| `Instrucciones`, `Registros` | what each instruction does: registers, MMU, TLB, bytes, pieces of an I/O request | implements `Maquina` |
| `DialFS` | the file system of the DialFS interface | - |
| `PlanificadorProofs`, then `PlanificadorLugares`, `PlanificadorEstados` | proofs about the kernel | each extends `PlanificadorProofs` or the one before it |
| `CPUHilosProofs`, `MemoriaProofs`, `QuantumProofs`, `DialFSProofs`, `InstruccionesProofs` | proofs about the module of that name | - |

`MC...` modules hold the values of the constants that a `.cfg` cannot write.

The plan began with the scheduler, because every other part meets in it, and
went on with what it assumes (the CPU), the memory, and then the parts that
have one thread but long sequences of operations (instructions, files) and the
timers of RR. All of it is done. Every invariant, action property and refinement
that a passing run checks is also proved, under the assumptions that each section
names; what stays with TLC is liveness (`ReadyAvanza`, `TodosTerminan`,
`ComandoTermina`, `InterrupcionAtendida`, `PedidoRespondido`, `FinDevuelve`,
`PedidoTermina`, `PlanificadorAvanza`, `ReadySinHambre`).
None of the modules uses a RECURSIVE operator.

## 3. The scheduler: `Planificador`

`Planificador.tla` has one action per case of each thread's code.

| Thread | Actions |
|---|---|
| `procesoNewAReady` | `TomarGrado`, `TomarNew`, `NewAReady`, `CaerSinNew` |
| `recibirDeCPU` | `RecibirIO`, `RecibirIOInvalida`, `RecibirWait`, `RecibirWaitBloqueante`, `RecibirSignal`, `RecibirRecursoInvalido`, `RecibirFin`, `CaerSinPCB` |
| whoever runs `enviarAExit` | `LiberarRecurso(r)` (one iteration of the loop), `TerminarSalida`, `CaerLiberando` |
| one per interface | `ConectarInterfaz(i)`, `AtenderIO(i)`, `TerminarIO(i)` |
| `vaciarExit` | `SacarDeExit`, `LiberarPCB` |
| console | `IniciarProceso`, `PedirGrado(n)` then `SubirGrado`/`BajarGrado` per unit, `DetenerPlanificacion`, `IniciarPlanificacion`, `FinalizarNew/Ready/Blocked/Exec/Exit/Ausente` |
| CPU (contract) | `RecibirPCB`, `EjecutarLlamada(c)`, `EjecutarExit`, `AtenderInterrupcion`, `DescartarInterrupcion(p)` |

**State.** Queues are sequences of PIDs, a counting semaphore is a natural, a
PCB is `estado[p]` plus `recursosAsignados[p]`; its registers, quantum and
program counter are left out because the FIFO scheduler never looks at them. A
PCB freed by `vaciarExit` is the state `LIBERADO`; code that reads one, or a NULL
one, sets `caido` and the program stops. `gradoVigente` is the code's
`gradoMultiprogramacionActual`, counted unit by unit.

**Grain.** A round holds `mutexPlanificador` from beginning to end, and what it
touches is touched elsewhere only under the same mutex, so it is one action.
The exception is `enviarAExit`: its loop gives back one resource per iteration,
while threads outside the mutex go on. There `saliente` is the process being
sent out and `mutexPlanificador = "planificador"`; `LiberarRecurso` is one
iteration and `TerminarSalida` everything after the loop, `criterioEnvio`
included. The order of names in the array of a PCB is abstracted to a bag: any
of its resources may be released next.

**Abstractions.** Programs are whatever sequence of at most `MaxLlamadas` calls
of `Llamadas` before EXIT. With `Disciplinados` they WAIT only on what they do
not hold and SIGNAL only what they hold, as every script of the test plan
(`Enunciado y pruebas/scripts_memoria`). The CPU is its contract: at most one PCB
inside, returned once, with an interrupt honoured only for the PID it was sent
for (module `ContratoCPU`, section 4). Devices answer every request. Packets
arrive whole and in order on each socket.

**Bounds.** `MaxProcesos`, `MaxLlamadas`, the finite `Grados` and, in
`FinalizarExit`, `Len(colaExit) <= MaxProcesos`, which lets a process be queued
in EXIT one time too many but not for ever.

`PlanificadorPropiedades.tla` states the properties, `CincoEstados.tla` the
abstract specification: each process follows the five-state diagram, at most one
executes, and the admitted ones never exceed the degree. The refinement mapping
is the identity on `estado` and `grado <- gradoVigente`.

Operators named `Mal...` are seeded errors, each placed before the operator it
spoils: a mistake a programmer could make there. Substituted one at a time they
must break the property they are listed with in `PROJECT.json`.

### Runs

| Run | Instance | Question |
|---|---|---|
| `fifo_seguridad` (912,612 states) | 3 processes, 2 calls each of every kind (also an unknown resource, an operation the interface refuses and a resize without memory), one resource of one instance, a generic interface, degree 2 that may become 3, disciplined programs, FINALIZAR of READY and EXEC, DETENER and INICIAR | Is every process in one place, the one its state says? Do the semaphores, the degree and the resources balance at every step? Is mutual exclusion kept and no freed PCB touched? |
| `fifo_progreso` (26,724 states) | the same without errors or DETENER, fairness per thread, degree going between 2 and 1, FINALIZAR of READY | Does everybody finish, does every MULTIPROGRAMACION end, and is the five-state diagram implemented? |
| `fifo_entorno` (1,350,188 states) | 2 processes that repeat WAITs and SIGNAL what they do not hold, FINALIZAR in every state and of absent PIDs | What survives any environment: types, at most one PCB out, no idle CPU. |

Three processes are the fewest with one executing, one waiting for it and one
arriving; with one resource of one instance two calls make a process hold it
while another waits. Larger degrees only add processes that do not meet.
Deadlock is checked in `fifo_seguridad` and `fifo_progreso`; in `fifo_entorno`
it is not, because there the program really stops (a crash).

**Fairness** (`Equidad`): weak, one condition per thread: each is a loop that
blocks only in its semaphore, socket or mutex, which its guard states. Weak
fairness on the whole thread, not on its actions: a thread does not choose. The
mutex is a `pthread_mutex_t`, which is not granted in any particular order, and
no fairness of it is assumed: the rounds of the other threads come to an end
because processes and their calls are finitely many, after which a waiting
thread finds it free for good. The console is not
obliged to type, only to carry out the MULTIPROGRAMACION it has begun
(`SubirGrado`/`BajarGrado`); IniciarPlanificacion is not fair: nobody has to
type it, so progress is checked without DETENER.

### What the runs leave out because the code does otherwise

The constants `Finalizables`, `Detenible` and `Disciplinados` keep these out of
`fifo_seguridad` and `fifo_progreso`; the actions are in the model, and
`fifo_entorno` finalises in every state.

* FINALIZAR on a process BLOCKED by a resource gives away an instance it never
  got: `waitRecurso` notes the name in the PCB also when it blocks
  (`recursos.c:55`) and `liberarRecursos` (`recursos.c:95`) returns it.
  `ExclusionMutua` and `RecursosContados` are therefore checked with FINALIZAR
  of READY and EXEC.
* FINALIZAR on a NEW process raises the degree: it never took a unit, but
  `vaciarExit` posts one (`planificadorLP.c:126`). It also takes the PCB out of
  `colaNew` and leaves its post in `procesosEnNew`, so `procesoNewAReady` may
  later find the queue empty (`CaerSinNew`). `GradoContado` and
  `SemaforosDeColas` have the same restriction.
* FINALIZAR on a PID that is not, or no longer, in the list uses the NULL that
  `hallarPCB` returns (`FinalizarAusente`).
* DETENER and then MULTIPROGRAMACION hangs the console (`consola.c:55`): it
  waits for processes to end, which needs the mutex that it holds itself.
  `ComandoTermina` is checked without DETENER.
* A process finalised while BLOCKED on an interface, or in EXIT, is used after it
  is freed, and one that WAITs twice on a name crashes `liberarRecursos` when it
  ends (`caido` in the model).

### Proofs

The kernel is proved for any number of processes, resources, interfaces and
instances that meet `ConstantesOK`, and any length of the programs. What a
theorem asks of the other constants is in its ASSUME:

| Module | Theorem | Asks for |
|---|---|---|
| `PlanificadorProofs` | `Tipos`, `InvInductivoSiempre`, `SiempreUnaCPU`, `SiempreSinOcio` | nothing |
| `PlanificadorLugares` | `OrdenSiempre`, `EjecutaElDelVueloSiempre`, `EnSuLugarSiempre` | no FINALIZAR of BLOCKED or EXIT |
| `PlanificadorEstados` | `SemaforosDeColasSiempre` | no FINALIZAR of NEW |
| | `GradoContadoSiempre`, `CumpleCincoEstadosSiempre` | no FINALIZAR of NEW, BLOCKED or EXIT |
| | `UsoDisciplinadoSiempre`, `RecursosContadosSiempre`, `ExclusionMutuaSiempre` | disciplined programs, no FINALIZAR of BLOCKED or EXIT |
| | `SinCaidaSiempre` | disciplined programs, FINALIZAR of READY and EXEC only |

The constants of `fifo_seguridad` and `fifo_progreso` meet every assumption. Each
is as weak as the code lets it be: the section above says what a FINALIZAR in the
other states, or a program that repeats a WAIT, breaks. They leave out FINALIZAR_PROCESO of a
process in those states and nothing else: MULTIPROGRAMACION, DETENER, unknown
resources, refused operations and resizes without memory are all in.

* `Tipos`: `Spec => [](TypeOK /\ ExitContado)`. TypeOK alone is not inductive:
  `SacarDeExit` takes the head of `colaExit` after its semaphore, and is a PID
  only because the semaphore counts the queue.
* `InvInductivoSiempre`: the conjunction of types, `ExitContado`, `Turno`,
  `UnaCPU` and `SinOcio`. `Turno` (the mutex is kept between actions only by
  `enviarAExit`, and the CPU is owed to a process only then) is what the last two
  need: without it another round could start in the middle of `enviarAExit`. The
  argument on the CPU is one lemma, `EnvioCPU`: whatever a round hands to
  `CriterioEnvio`, the number of PCBs sent plus "the CPU is free" is preserved and
  READY is empty or the CPU busy afterwards; `CPURonda` applies it to each action
  that ends a round. `SinProcesoTipo` (`sacarDeCola` returns a queue of the same
  processes) is proved from the definition of the library's `RemoveFirst` by
  well-foundedness of the naturals.
* `OrdenSiempre` is the invariant of the rest. `Orden` says that no queue
  repeats a PCB (`SinCopias`), that each queue holds exactly the processes of its
  state but for the one that `enviarAExit` holds, that a BLOCKED process waits in
  one queue of one resource or interface (`Ubicados`), whom `enviarAExit` may be
  holding (`SalientePosible`) and that PIDs are given in order. All of it is
  needed at once: a process enters a queue without repeating only because its
  state said it was in another. Queues are handled as sets (`Contenido`,
  `Encola`, `Desencola` and the rest of the first section), so that a round is a
  change of sets whatever the order. `EnSuLugar` counts places, and follows from
  `SinCopias`.
* `GradoContadoSiempre` follows the cardinality of the admitted processes, which
  is finite (`CuentaAdmitidos`); only `NewAReady` and `LiberarPCB` change it, because by
  `Orden` the processes that other actions move were admitted already.
* `CumpleCincoEstadosSiempre` maps each action to a transition of `CincoEstados`
  or to a stutter. `EnEjecucion` is a single process by `UnaCPU` and
  `EjecutaElDelVuelo`; the bound on the admitted ones is `Permite`, a consequence
  of `GradoContado`.
* `RecursosContadosSiempre` needs `UsoDisciplinado`: nobody holds a name twice
  and the message of a WAIT or SIGNAL is still legal when the kernel reads it,
  although in between other processes may be finalised and their resources given
  to those that wait. `Cuadra` is then the balance of one resource, kept by each
  way of changing it. `ExclusionMutua` is its arithmetic.
* `SinCaidaSiempre` brings all of it together: each dereference of the code is of
  the head of a queue, which the semaphore says is there, of the process in EXEC,
  which is the one returned, or of a process its state finds in a queue.

Only model-checked: liveness (`ReadyAvanza`, `TodosTerminan`, `ComandoTermina`),
since fairness and ENABLED are beyond the prover.

### Not modelled of the kernel

Disconnection of an interface: the assignment (page 12) says that an interface
that goes away while a process uses it is not considered. The console commands
that lock `mutexPlanificador` while the console already holds it (a certain
self-deadlock of a non-recursive mutex); the order in which `main` starts
threads; `PROCESO_ESTADO`, which only prints; the logs. RR and VRR are in
`Quantum` (section 6).

## 4. The CPU: `CPUHilos`

| Thread | Actions |
|---|---|
| `escuchar_dispatch` | `Recibir`; the instruction: `EjecutarComun`, `EjecutarCesion(op)` then `LimpiarInterrupcion`, `EjecutarResize`, `EjecutarRecurso(op)` then `RecibirTrasRecurso`; `Revisar` (`check_interrupt`), `Cortar`, `Liberar` |
| `escuchar_interrupt` | `LeerInterrupcion`, `Comparar`, `Marcar` |
| kernel | `Despachar(p)`, `DevolverACPU`, `DejarCPU`, `EnviarAExit`, `Interrumpir(op)` |

**State.** `pcb` is a PID and `pcbLiberado` says that its memory has been freed:
the WAIT and SIGNAL of the code free it in the middle of the instruction with
`hayPCB` still 1. What a comparison with a freed PCB gives is a free choice
(`Coincide`). `hayPCB`, `hay_interrupcion` and `cod_op_int` are the code's.
An instruction is what it does to the PCB (fetch and decode included): keep it,
give it away and end the cycle, give it away and receive another, or be refused
memory. `vueltas`, `leyoLiberado` and `finalizados` only record history.

**Grain.** One action between two accesses to shared state. `Comparar` and
`Marcar` are two because only `mutexPCB` is held between them, which stops
`Liberar` and nothing else. `Recibir` joins the assignment of `pcb` and that of
`hayPCB`, and `EjecutarRecurso` the send and the free: the interrupt thread
reads neither in between with another outcome than before or after.

`ContratoCPU` is the abstract specification: the CPU takes a PCB only when it
has none and gives back the one it has, once. `TieneCPU` maps the detailed state
to it: the CPU has a PCB while it may still run an instruction of it.

| Run | Instance | Question |
|---|---|---|
| `cpu_interrupciones` (88,827 states) | 2 processes, two interrupts of either kind at any moment, no WAIT or SIGNAL | Does the interrupt thread only read a PCB that exists? Is every PCB sent back before it is freed? Is the process that an interrupt finds running sent back, even if its program never ends? |
| `cpu_contrato` (484 states) | 3 processes, every instruction, no interrupts | Do the threads implement `ContratoCPU`? |
| `cpu_ajena` | 2 processes, one FINALIZAR_PROCESO, no WAIT or SIGNAL | Finding: `FinalizaAlPedido` fails. |

Two processes are the one that was interrupted and the next; the second
interrupt meets the first still marked. WAIT and SIGNAL with interrupts are left
out of `cpu_interrupciones` because there the program reads a freed PCB, and
nothing can be said of what follows. The runs stop when every process has ended,
so deadlock is not checked. **Fairness**: weak, on each thread: both are loops
that block in their socket or mutex, as their guards say; none is assumed of the
kernel. `InterrupcionAtendida` needs only these: a process that is in the CPU when
the interrupt is marked comes to the end of its cycle, with its PCB sent. That a
PCB leaves exactly once is said of every instruction without interrupts
(`cpu_contrato`) and, with them, only that it leaves at least once (`NoSePierde`):
`check_interrupt` may return again what an instruction has just returned.

**Finding.** An interrupt that is marked after the last `check_interrupt` of a
cycle and before `liberar_pcb` stays raised, and throws out the next process
with the code of the first: FINALIZAR_PROCESO ends a process nobody named. The
kernel of `Planificador` is therefore modelled against a CPU that behaves better
than this one, as far as late interrupts go.

**Proofs** (`CPUHilosProofs`), for any number of processes and of interrupts and
any programs unless said:

* `Tipos`: types, with `Presente` (there is a PCB during the cycle) and `Leida`
  (an interrupt is marked only after one has been read), without which a cut PCB
  could leave with no code.
* `SinRecursosNoLeeLiberada`: without WAIT or SIGNAL no freed PCB is read. The
  invariant `Tenencia` says that `hayPCB` implies the PCB has not been freed.
* `NuncaSePierde`: a PCB is sent before it is freed, from `Devuelta`, which ties
  `terminar` to a PCB that has been sent.
* `SinInterrupcionesCumpleContrato`: refinement, each action a step of the
  contract or a stutter, under `Quieto` (no interrupt is on its way or marked,
  and a cycle has been told to end exactly when its PCB has left).

Only model-checked: `InterrupcionAtendida`, a liveness property.

## 5. The memory: `Memoria`

| Thread | Actions |
|---|---|
| `hilo_cpu` | `MandarInstruccion`, `AccederTabla`, `Escribir`, `LeerMemoria`; RESIZE: `ResizeIgual`, `ResizeExcesivo`, `ResizeSinLugar`; to grow `ResizeAmpliar`, `EmpezarAsignar`, `AsignarMarco(f)` per frame, `SinMarcos`; to shrink `ResizeReducir`, `MarcarLibre` per frame, `SacarEntradas`; `AceptarResize` |
| `hilo_kernel` | `CrearProceso`, `CargarInstrucciones`; `EmpezarFin`, `LiberarMarco` per frame, `EliminarProceso` |
| threads of `conexiones.c` | `HiloIO` |
| kernel | `IniciarProceso`, `ProcesoCreado`, `FinalizarProceso` |
| CPU | `EntrarCPU`, `DejarCPU`, `Pedir(op, arg)`, `RecibirRespuesta`, `Acceder(op)`, `Bloquear(op)` |
| device | `AccederIO`, `TerminarIO` |

**State.** `mapa` is the set of frames whose bit is set, `tabla[p]` the sequence
of frames of the page table, `lista` and `cargados` the list of processes and
those whose program has been read. `hechas` and `hechasK` count the iterations
of a loop. The CPU thread holds the mutex of the bitmap while `pasoCPU` is
"asigna"; elsewhere each critical section is one action. A process that
`hallar_proceso` does not find and the code uses all the same sets `caida`;
`exit` sets `cerrada`. Requests keep the frame they are for; bytes are left out.
`FinalizarProceso` is `vaciarExit` for a process that is not in the CPU, BLOCKED
on the device included: `finalizarProceso` sends it to EXIT although
`sacarProcesoBloqueado` does not find its request (`planificadorLP.c:229`), so its
frames are given back with that request pending.

**Abstractions.** The kernel creates one process at a time and admits it after
the memory has answered, which is what `procesosEnNew` gives unless a process
was finalised in NEW. The CPU asks only for pages of the process; its TLB is in
`Instrucciones` (section 7). One device, which has one request at a time: the
queue is the kernel's. A program file exists and ends in EXIT.

| Run | Instance | Question |
|---|---|---|
| `memoria` (116,194 states) | 2 processes, 3 frames of 2 bytes, sizes 1, 2, 5 and 8, a device that reads | Is the bitmap what the page tables say, frame by frame and in the middle of both loops? Has each page a frame? Is nobody served who is not there? Does an access hit only its own process? Is each request answered, and does an ended process give everything back? |

With these sizes a RESIZE changes the table by none, one or two pages, fills the
memory, finds no room and asks for more than there is. Three frames let a
process that shrinks or ends, another that grows, and a frame left over meet;
the frames are interchangeable but for the order in which they are searched.
`cant_marcos` is a multiple of 8 in every `.config`; the bitmap of `main.c:84`
would be short otherwise, and 3 is only a bound. The CPU never has more than a
write and a request on their way, as the type invariant shows; `MaxIO` bounds
the requests of the device on their way. The proofs are of any device; the run
takes one that reads, because no property speaks of the writes. Deadlock is not checked: a RESIZE to the size the
process has stops the CPU, and one without room ends the memory.

**Fairness**: weak, on each thread of the memory, which block only in their
socket and in the mutex. The mutex is not granted in turns and no strong
fairness is assumed: `FinDevuelve` excepts a CPU that takes it for ever.

STDIN and IO_FS_READ send their writes to the memory and, without waiting for
anything, OPERACION_FINALIZADA to the kernel (`interfazStd.c:80`). The process
goes on, and may read, or lose its frames, before they arrive. And FINALIZAR_PROCESO
of a process that waits for a device takes its frames away with the request
pending (`planificadorLP.c:254-267`, then `vaciarExit`): a read or a write of the
device may then reach what is another process's by now. `AccesoPropio` therefore
speaks of every access of the CPU, and of the reads of a device for a process that
still waits for it; of its writes, and of a process already finished, it says
nothing.

Two behaviours of the code are in the model although no property goes against
them, since no document says otherwise: a RESIZE that grows within its last page
takes every free frame (`memoriaCPU.c:92` counts after assigning), and one
without room ends the memory for everybody (`memoriaCPU.c:64`).

`Marcos` is the abstract specification: a frame passes from one owner to another
only by being free. The refinement mapping gives a frame to the process whose
table lists it with its bit still set.

**Proofs** (`MemoriaProofs`), for any number of processes and frames, any page
size and any sizes in RESIZE:

* `Tipos`, with `Turno` (one request of the CPU is on its way, being served or
  answered at a time, with at most a write before it) and `Fines` (what is being
  destroyed has ended, and who uses a device is blocked or has been
  finished). They say that a table
  that `hilo_kernel` is emptying is never the one that `hilo_cpu` is changing.
* `SiempreRespaldado`, from `Cuentas`: what `chequear_espacio_memoria` counted is
  still free until the mutex is taken, because meanwhile the other thread only
  gives frames back. `Contado` keeps, in the middle of the loop, the frames that
  are still owed below those that are free.
* `MapaSiempreExacto` and `ImplementaMarcos` rest on one lemma, `Movimiento`:
  every step of any thread leaves all held entries as they were, or adds one
  with a free frame, or takes one away and frees its frame. `MapaMovido` and
  `PasoMarcos` say what each of the three does to the bitmap and to the owners.
* `AccesosPropios`, from `AccesosCPU` and `AccesosDisp`: a frame that the CPU has
  been told is still of the process in the CPU, and the one a device will read
  is of the process that waits for it, as long as it does (`Pendiente`); by
  `Conserva` and `PedidoConserva` neither can lose it.
* `NuncaCae`, from `Creando` (one creation at a time: asked for, under way or
  answered), `Presentes` (who is ready or blocked is in the list; one end asked
  for per process) and `Vigencia` (no page is asked for that the table has not).

Only model-checked: `PedidoRespondido` and `FinDevuelve`, liveness.

## 6. Round Robin and Virtual Round Robin: `Quantum`

Each dispatch creates a thread of the turn (`esperarVuelta`) and this one its
timer (`esperarQuantumCompleto`). To take a process out of the CPU's hands the
planner posts `finalizarQuantum` and waits for `quantumFinalizado` with
`mutexPlanificador` taken (`cortarQuantum`).

| Thread | Actions |
|---|---|
| planner (`planificar`, `criterioEnvio`) | `CrearProceso`, `CortarQuantum` then `SeguirCorte`, `WaitTomado`, `WaitCorta`, `Desalojo`, `FinalizarEnReady`, `FinIO` |
| turn `v` | `Nacer`, `Despertar`, `Unir` |
| timer `v` | `Vencer` (the interrupt), `Avisar` (the flag) |
| CPU (contract) | `Instruccion(op)`, `Interrumpir` |

**State.** `vueltas` holds the live pairs of threads: the process, where the turn
is and what its timer does (`"duerme"`, `"avisa"` between its two effects). Any
turn that waits may take a post, as with a real semaphore. `quantum[p]` is the
one of the PCB under VRR. The program ends a process by `"EXIT"`, which stands
for SIGNAL too: `signalRR` (`roundRobin.c:63`) sends to EXIT whoever signals,
while the assignment (page 11) says "Una vez hecho esto, se devuelve la ejecución
al proceso que peticiona el SIGNAL". `"OOM"` stands for the two messages that do
not cut the turn, OUT_OF_MEMORY and FINALIZAR_PROCESO.

**Abstractions.** Time: a sleeping timer may go off at any moment, and an I/O may
have used any part of the quantum (`\E paso` in `SeguirCorte`). When a process
leaves, any number of those that wait for a resource may be woken, in order:
which resources they hold is in `Planificador`. FINALIZAR_PROCESO of a process in
READY+ is left out: `finalizarProceso` looks for it in `colaReady`
(`planificadorLP.c:261`), and a freed PCB stays queued.

| Run | Instance | Question |
|---|---|---|
| `quantum` (467,000 states) | 2 processes, RR and VRR, a quantum of 2, two live pairs of threads, one interrupt in the socket, one leftover post | Has whoever is in the CPU a timer, or an interrupt, that will ask for it back (`TurnoConReloj`)? Does `cortarQuantum` always come back (`PlanificadorAvanza`)? Does everybody in READY get its turn under RR (`ReadySinHambre`)? |

Two processes are the one whose turn ends late and the next one, whose flag and
posts the old threads may take; two pairs of threads are both alive at once; a
quantum of 2 has a part that is left over and one that is used up. Processes do
not come back from EXIT, so deadlock is not checked. **Fairness** (`Justicia`):
weak, on the thread that receives from the CPU, on each turn and on each timer,
which block only where their guards say, and on the CPU's reading of an
interrupt. None on programs or devices: a program may keep the CPU for ever.
The bounds cut behaviours and never add any; a bound that blocks a thread blocks
it while another thread can go on.

`desfasado` marks the two places after which the code promises nothing more. A
WAIT that blocks posts `finalizarQuantum` and waits for nothing
(`roundRobin.c:56-61`): if the turn takes the post late, the next turn's planner
finds one too many. And an interrupt that comes while a WAIT is on its way to the
kernel and back is lost, because the CPU has freed the PCB. `PlanificadorAvanza`
holds even so. With VRR a process that ends an I/O interrupts the one executing,
although a comment (`virtualRoundRobin.c:12-13`) says that VRR does not; READY
may starve there, and `ReadySinHambre` speaks of RR.

**Proofs** (`QuantumProofs`), for any number of processes and of live turns, any
quantum and both algorithms:

* `InvTurnosSiempre`. `TurnoConReloj` is not inductive by itself. The turn must
  also last while the process is coming back from a WAIT (`Cubierto` of whom
  `deCPU` names), and nobody may find a post in the middle of a turn: `UnPost`
  says that a cut asks for one post, which is on its way, held by a turn that
  joins its timer, or given back, and that there is none when nobody cuts.
  `UnaFuera` says in which one place the process that is out may be. `NadieAun`
  says that before the first dispatch of VRR nobody can be in a device, so that
  `virtualRoundRobin.c` never interrupts the PID that was never set.
* `Tipos`, `TurnoConRelojSiempre` and `UnPostSiempre` follow from it; the last two
  hold until `desfasado`, for the reasons above. The proof has a lemma for each
  thing that a turn or a timer may do to `vueltas` and one for the round that the
  planner ends with (`Ronda...`).

Only model-checked: `PlanificadorAvanza` and `ReadySinHambre`, liveness.

## 7. Instructions, MMU and TLB: `Instrucciones`, `Registros`

`Registros` has the registers as sequences of bytes, arithmetic cut to the width
of the destination, and what `decode` accepts. `Instrucciones` has
one action per instruction or family of them, with everything it makes the
memory and a device do:

| Code | Actions |
|---|---|
| `instrucciones.c`, execute and `check_interrupt` | `Calcular` (SET, SUM, SUB, JNZ), `MOV_IN`, `MOV_OUT`, `COPY_STRING`, `Ampliar`/`Reducir`/`SinEspacio` (RESIZE), `PedirAcceso` (I/O with addresses), `PedirIO` (the rest), `Recurso`, `EXIT` |
| `mmu.c`, `algoritmosSustitucion.c` | `Traducir`, `Agregar`, `MoverAlFrente`, the two ways of cutting an access into pieces |
| memory | `Asignar`, `Leer`, `Escribir`; `Detenerse` when no answer will come |
| kernel, devices | `Despachar(p)`, `FinIO(p)` |

**Grain.** One instruction, one action: only the CPU uses the pages of the
process it executes. Interleavings within an instruction are in `CPUHilos` and
`Memoria`. `Queda` lets the kernel take the process out after any of them.

`Maquina` is the abstract specification, from the assignment (pages 17 to 20):
each process has registers and a space of addresses of its own, with no pages,
frames or TLB. The refinement mapping reads the space of a process through its
page table (`Espacio`).

| Run | Instance | Question |
|---|---|---|
| `instrucciones` (about 107,000 states) | every pair of four programs, 8 frames of 2 bytes, no TLB, FIFO of two entries, LRU of two and of three | Are pages, frames and the TLB invisible (`EsMaquina`)? Does an instruction touch only frames of its process (`AccesoPropio`)? Does LRU keep the pages used last (`UltimasUsadas`)? |
| `instrucciones_tlb` | twice the program of `scripts_memoria/SQUARE`: fill, RESIZE 0, again | Finding: `AccesoPropio` fails. |

Two processes share the frames and the TLB; pages of two bytes make a register
of four cover two or three pages; the TLBs are smaller than the pages in use. The
programs have every instruction, a RESIZE beyond the memory, one to the same size
and one without room, and an access outside the table. They keep within what the
code supports: a page given back is not used again (the finding), SI, DI and the
addresses of I/O begin a page, because `COPY_STRING` and the requests of devices
cut every `TamPagina` bytes from wherever they begin, and JNZ is the tenth
instruction: `JNZ` passes the value of PC as the register to set, which is the
register PC only when it is 10. Deadlock is not checked: both programs end, or
the CPU waits for an answer that does not come. No liveness is stated.

**Proofs** (`InstruccionesProofs`), for any number of processes, frames and
entries, any size of page and any programs that `decode` accepts:

* `Tipos`: every register, byte and entry keeps its type. It needs `Pedidos`, what
  is known of a request while its device works: the pieces are inside the memory
  and each but the last is as long as a page, which is what `Mostrado` counts on.
* `UltimasUsadasSiempre`. `Usadas` adds that `recientes` repeats no page and that
  the TLB is its end (`Cola`). A hit takes an entry from the middle to the end of
  both lists, a miss appends to both and the TLB loses its first.
* `MarcosPropiosSiempre`: `Repartidos`, that no frame is twice in the tables, that
  a process has at least the pages of its size and that one that ended has none.
* `AccesoPropioSiempre`: `Spec /\ []SinRestos /\ []EnSuPagina => []AccesoPropio`.
  The invariant `Servidas` adds `Vigentes`: the entries of the processes alive say
  what their tables say. Growing keeps the pages there were, a process that ends
  leaves entries that nobody looks up, and a RESIZE that shrinks is where it would
  break: `SinRestos` says that none takes away a page that the TLB holds.
  `EnSuPagina` says that what is cut every `TamPagina` bytes fits its pages;
  otherwise a piece runs into the next frame, whosever it is.
* `ImplementaMaquina`: `Spec` implements `Maquina` under the two conditions above
  and `ComoSeEspera` (an access has some byte, a copy does not overwrite what it
  has still to read, a JNZ that jumps is the tenth instruction). `Acordadas` adds
  to `Servidas` that a request is of bytes of its process and where they are
  (`EsDe`), which lasts because nobody resizes a blocked process. Then each action
  is one of the machine (`Ve...`): `Lugar(p, a)` is where address `a` of `p` is; no
  two addresses share a place (`UnLugar`) and those of a page are together
  (`Seguidas`), so writing the pieces in order changes those addresses of that
  process and no others (`Escrito`, `Copiado`), and reading them returns its bytes
  (`Leido`, `VeMostrado`). When the CPU stays waiting, some byte was outside the
  space of the process (`VeDetenerse`).

The three conditions are on the instruction that comes next, so each holds or not
of a program and its inputs. The programs of `instrucciones` meet them: TLC found
no violation with the three as invariants of that configuration. `SQUARE`, in
`instrucciones_tlb`, does not meet `SinRestos`. The pieces of an access and the
list of the TLB are built by recursive functions; what is needed of them is proved
by their least counterexample (`HayMenor`, `HastaN`), with no induction theorem.

**Finding.** Nothing removes entries from the TLB (`mmu.c:55-122`). After a RESIZE
that shrinks, as in SQUARE and TRIANGLE of the test plan, a page asked for again
is a hit with the old frame, which may be another process's by then.

## 8. DialFS: `DialFS`

One thread, one request at a time; after each, `Guardar` saves the bitmap and the
list of names and answers. `Crear`, `Eliminar`, `Reducir`, `Igualar`,
`CrecerEnSuLugar`, `CrecerMoviendo` and `Acceder` are the requests;
`EmpezarCompactacion`, then `SaltarBloque` or `CompactarArchivo` per turn of the
loop of `compactar_fs`, then `TerminarCompactacion` are a truncation without room;
`Abortar` and `AbortarCompactacion` are `exit()`; `Reiniciar` starts the module
again on the files it left.

**State.** `bitmap` and `lista` are in memory, `bitmapDat` and `listaDat` what is
saved of them; `metadata` and `contenido` are files. A block holds the file and
position it was written for. `escrito` and `incidentes` are history.
A name is an atom, except that the words of `lista` keep the space that separates
them, because losing it joins two names. `block_count` is a multiple of 8 in
every `.config` (32), since the bitmap file has `block_count / 8` bytes: the module
assumes it (`ConstantesOK`) and the runs take 8. `enteros` is how many blocks
`bloques.dat` has whole: more than the disk once a file that has grown beyond it is
written there, and never those after its last byte. `mover_bloque` cannot read a
block that is not whole, gives up without writing, and `mover_archivo` goes on
(`interfazFs.c:232-235`); `MoverBloque` does the same.

`bloques.dat` is a `FILE*` with a buffer that reaches the disk in `fclose` or in
`exit()`. `Reiniciar` takes its contents as they were, so it is a start after one
of these two orderly ends; of a machine or a process that is cut short the model
says nothing.

**Incidents.** The code does, in ten places, what nobody means it to do; the
model does the same and notes it in `incidentes`, and each property says which
incidents must be absent for it to hold:

| Incident | Where |
|---|---|
| `reducido` | a file that is made shorter loses blocks and keeps its size (`interfazFs.c:409`) |
| `fuga` | CREATE of a name in use, or DELETE of an empty file, leaves a block taken |
| `lista` | a name is glued to the one before, or stays after DELETE |
| `sin bloque` | CREATE with the disk full |
| `borde` | a file grows in its place beyond the disk |
| `lleno` | a compaction begins without one free block |
| `vacio` | a compaction moves an empty file, which does have a block |
| `salto` | the loop of the compaction passes over a whole file |
| `trunco` | a file is moved with a written block that `bloques.dat` has not whole, and loses it; only beyond the disk, after `borde` |
| `corte` | a compaction ends in `exit()` |

| Run | Instance | Question |
|---|---|---|
| `dialfs` (984,793 states) | 2 files, 8 blocks of 2 bytes, sizes of 2, 5 and 7 blocks, accesses across the first two blocks, orderly restarts, `borde` and `lista` tolerated | Is the bitmap the blocks of the files (`BitmapExacto`)? Is what was written where the metadata says after any moves, beyond the disk too (`LeeLoEscrito`)? Does the list name every file (`ListaExacta`)? Is every request answered (`PedidoTermina`)? |
| `dialfs_compacta` | 3 files, sizes of 1 and 2 blocks | Finding: `CompactaContiguo` fails. |

Two files of up to seven blocks on eight grow in place, also beyond the disk, move
onto blocks of their own, compact and fill the disk; a third one makes the loop
pass over somebody. The run meets every incident but `sin bloque`, which needs a
third name. After an incident that is not in `Tolerados` no more requests come,
which bounds the states without hiding the one where the incident happens; what a
property excludes, no run or theorem says anything of. A `trunco`, for instance,
makes `LeeLoEscrito` false at once if it is not excluded. **Fairness**: weak on `Continua`; the module
has one thread and nothing to wait for between a request and its answer. A stop
of the machine in the middle of a request is left out: nothing in the code or the
assignment deals with it.

**Proofs** (`DialFSProofs`), for any disk, block size, sizes, accesses and number
of files and any requests:

* `Tipos` and `ListaExactaSiempre`, whatever is tolerated. The second is about the
  set of the names: that none is twice in the list is not said.
* `InvDiscoSiempre`. No property of the blocks is inductive by itself: where a
  file goes depends on the bitmap, what the bitmap says on where files have been,
  and both on how far the loop of `compactar_fs` has come. `BloquesPropios` (files
  do not share blocks, and have in them what was written) and `SinPisar` (no block
  of a file is free) hold while nothing of `PisaBloques` has happened;
  `Repartidos` says that in the middle of a compaction `libre` is free and every
  file is either all behind it or still ahead of `i`, so a file that is moved
  only goes down, and into blocks of nobody; `LoGuardado` says when the files of
  the disk are the ones in memory, which is what a restart needs.
* `BitmapExactoSiempre`, whatever is tolerated, and `LeeLoEscritoSiempre`, which
  asks that no request come after a compaction that ended in `exit()`
  (`"corte" \notin Tolerados`, as in `dialfs`). That is needed: `bitmap.dat` was
  not saved and takes for free the blocks that the files were moved to. With
  `borde` tolerated a file may have blocks beyond the disk, and a move copies only
  those that are whole (`Movido`): the proof needs that no written block of the
  file is past `enteros`, which is the absence of `trunco`.

The loops of `mover_archivo` and `eliminar_archivo_de_lista` are recursive
functions on their counter. What they return is proved by the least counterexample
(`HayMenor`, on the naturals), since an induction theorem cannot be
instantiated here. Only model-checked: `PedidoTermina`, liveness.

**Finding.** `compactar_fs` advances by `bloque_libre_actual + 1`
(`interfazFs.c:304`): whole files stay where they were, the free space is in
pieces, and files moved later are written over them.

## 9. Not modelled

* **Sockets and serialisation** (`utils`): packets are whole and in order on each
  socket, which TCP gives; what a message carries is in the action that sends it.
* **Disconnection of interfaces**: the assignment (page 12) leaves it out ("No se
  evaluará el caso en que una interfaz se desconecte estando ocupada por un
  proceso").
* **Start-up and shut-down** (`main` of each program, reading of the `.config`):
  `Init` is the state they leave and the constants are what they read.
* **Time**: quanta, sleeps and delays are moments that may come at any time.
* **Logs, `PROCESO_ESTADO`, wording of messages**: they change no state.
* **Text of programs, scripts and file names**: words are atoms.

Hazards with no property are listed in `PROJECT.json` with the reason: they are in
what is left out, or they are what a property excludes because it fails of them.
