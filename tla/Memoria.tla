-------------------------------- MODULE Memoria --------------------------------
(***************************************************************************)
(* The memory: hilo_kernel creates and finishes processes, hilo_cpu serves *)
(* the CPU (instructions, RESIZE, page tables, user space), and a thread   *)
(* of its own each I/O device. The first two share the bitmap of frames,   *)
(* whose mutex each holds only for a part of what it does, and the list of *)
(* processes; a page table has no lock at all. The kernel, the CPU and the *)
(* device appear as what they do with their sockets. There is no TLB here  *)
(* (cant_entradas_TLB = 0): every access asks for its frame.               *)
(***************************************************************************)
EXTENDS Integers, Sequences, FiniteSets

CONSTANTS
    Procesos,       \* PIDs
    Nadie,          \* no PID
    CantMarcos,     \* cant_marcos, in every .config a multiple of 8 (main.c:84)
    TamPagina,      \* tam_pagina
    Tamanios,       \* sizes that programs ask for in RESIZE
    AccesosIO,      \* what the device does with the memory of a process
    MaxIO           \* bound: accesses of the device that wait in its socket

Lectura == "ACCESO_ESPACIO_USUARIO_LECTURA"
Escritura == "ACCESO_ESPACIO_USUARIO_ESCRITURA"

ASSUME ConstantesOK ==
    /\ Nadie \notin Procesos
    /\ CantMarcos \in Nat \ {0}
    /\ TamPagina \in Nat \ {0}
    /\ Tamanios \subseteq Nat
    /\ AccesosIO \subseteq {Lectura, Escritura}
    /\ MaxIO \in Nat

TodosLosMarcos == 0 .. CantMarcos - 1
TamMemoria == CantMarcos * TamPagina

\* ceil((float) t / tam_pagina)
Paginas(t) == (t + TamPagina - 1) \div TamPagina

Consultas ==
    {"ENVIO_DE_INSTRUCCIONES", "ENVIO_RESIZE", "ACCESO_TABLAS_PAGINAS", Lectura}

VARIABLES
    estado,             \* of each process, as the kernel sees it
    ejecuta,            \* process in the CPU, or Nadie
    espera,             \* the CPU waits for an answer of the memory
    pasoIO, pedidoIO,   \* the device, and the request it has: at most one
    aMemIO, deMemIO,    \* socket of the device, both ways
    aMem, deMem,        \* socket of the CPU, both ways
    aMemK, deMemK,      \* socket of the kernel, both ways
    lista,              \* lista_de_procesos, as PIDs
    cargados,           \* those with their instructions read
    tamanio, tabla,     \* tamanio_proceso, tabla_del_proceso
    mapa,               \* mapa_de_marcos: the frames whose bit is set
    pasoCPU, pidCPU, nuevo, cuantas, hechas, \* hilo_cpu; in "asigna" it has the mutex
    pasoK, pidK, hechasK,               \* hilo_kernel
    cerrada,            \* the memory has called exit()
    caida               \* it has used a process that does not exist

entorno == <<estado, ejecuta, espera, pasoIO, pedidoIO>>
socketIO == <<aMemIO, deMemIO>>
hiloCPU == <<pasoCPU, pidCPU, nuevo, cuantas, hechas>>
hiloKernel == <<pasoK, pidK, hechasK>>
procesos == <<lista, cargados, tamanio, tabla>>
memoria == <<hiloCPU, hiloKernel, procesos, mapa, cerrada, caida>>
vars == <<entorno, socketIO, hiloCPU, hiloKernel, procesos, aMem, deMem, aMemK,
          deMemK, mapa, cerrada, caida>>

Pedidos == [op : Consultas \cup {Escritura}, pid : Procesos, arg : Nat]
SinPedido == [op |-> "ninguno", pid |-> Nadie, arg |-> 0]

Respuestas ==
    [op : Consultas \cup {"RESIZE_ACEPTADO", "OUT_OF_MEMORY"}, marco : TodosLosMarcos]

TypeOK ==
    /\ estado \in [Procesos -> {"nada", "creando", "listo", "bloqueado", "fin"}]
    /\ ejecuta \in Procesos \cup {Nadie}
    /\ espera \in BOOLEAN
    /\ pasoIO \in {"libre", "accede", "termina"}
    /\ pedidoIO \in {SinPedido} \cup [op : AccesosIO, pid : Procesos, arg : TodosLosMarcos]
    /\ aMemIO \in Seq(Pedidos) /\ Len(aMemIO) <= MaxIO
    /\ deMemIO \in Seq({Lectura})
    /\ aMem \in Seq(Pedidos) /\ Len(aMem) <= 2
    /\ deMem \in Seq(Respuestas)
    /\ aMemK \in Seq([op : {"CREACION_PROCESO", "FINALIZAR_PROCESO"}, pid : Procesos])
    /\ deMemK \in Seq({"PAQUETE"})
    /\ lista \subseteq Procesos
    /\ cargados \subseteq lista
    /\ tamanio \in [Procesos -> Nat]
    /\ tabla \in [Procesos -> Seq(TodosLosMarcos)]
    /\ mapa \subseteq TodosLosMarcos
    /\ pasoCPU \in {"lee", "chequeado", "asigna", "marca", "acepta"}
    /\ pidCPU \in Procesos \cup {Nadie}
    /\ nuevo \in Nat /\ cuantas \in Nat /\ hechas \in Nat
    /\ pasoK \in {"lee", "carga", "libera"}
    /\ pidK \in Procesos \cup {Nadie}
    /\ hechasK \in Nat
    /\ cerrada \in BOOLEAN /\ caida \in BOOLEAN

Init ==
    /\ estado = [p \in Procesos |-> "nada"] /\ ejecuta = Nadie /\ espera = FALSE
    /\ pasoIO = "libre" /\ pedidoIO = SinPedido /\ aMemIO = <<>> /\ deMemIO = <<>>
    /\ aMem = <<>> /\ deMem = <<>> /\ aMemK = <<>> /\ deMemK = <<>>
    /\ lista = {} /\ cargados = {}
    /\ tamanio = [p \in Procesos |-> 0]
    /\ tabla = [p \in Procesos |-> <<>>]
    /\ mapa = {}
    /\ pasoCPU = "lee" /\ pidCPU = Nadie /\ nuevo = 0 /\ cuantas = 0 /\ hechas = 0
    /\ pasoK = "lee" /\ pidK = Nadie /\ hechasK = 0
    /\ cerrada = FALSE /\ caida = FALSE

Sigue == ~ cerrada /\ ~ caida

Libres == TodosLosMarcos \ mapa

-------------------------------------------------------------------------------
(* hilo_cpu. Operators named Mal... are seeded errors in the operator that  *)
(* follows them.                                                            *)

Responder(op, f) == deMem' = Append(deMem, [op |-> op, marco |-> f])

Pedido == Head(aMem)

\* recibir_operacion and recibir_buffer. Then hallar_proceso may find nobody:
\* acceso_tabla_paginas looks, the others go on with a NULL (caida).
Leer(op) ==
    /\ Sigue
    /\ pasoCPU = "lee"
    /\ aMem # <<>>
    /\ Pedido.op = op
    /\ aMem' = Tail(aMem)
    /\ UNCHANGED <<entorno, socketIO, aMemK, deMemK, hiloKernel>>

MandarInstruccion ==
    /\ Leer("ENVIO_DE_INSTRUCCIONES")
    /\ caida' = (Pedido.pid \notin lista)
    /\ IF Pedido.pid \in cargados THEN Responder("ENVIO_DE_INSTRUCCIONES", 0)
       ELSE UNCHANGED deMem
    /\ UNCHANGED <<hiloCPU, procesos, mapa, cerrada>>

\* The frame of a page. A page out of the table frees the process, which stays
\* in the list; neither that nor a process that is not there is answered.
AccederTabla ==
    /\ Leer("ACCESO_TABLAS_PAGINAS")
    /\ LET p == Pedido.pid
           valida == p \in lista /\ Pedido.arg < Len(tabla[p])
       IN  /\ caida' = (p \in lista /\ ~ valida)
           /\ IF valida THEN Responder("ACCESO_TABLAS_PAGINAS", tabla[p][Pedido.arg + 1])
              ELSE UNCHANGED deMem
    /\ UNCHANGED <<hiloCPU, procesos, mapa, cerrada>>

\* escribir_memoria, on the frame of the physical address. What the frames hold
\* is left out: the request says whose access it is.
Escribir ==
    /\ Leer(Escritura)
    /\ UNCHANGED <<hiloCPU, procesos, mapa, deMem, cerrada, caida>>

LeerMemoria ==
    /\ Leer(Lectura)
    /\ Responder(Lectura, 0)
    /\ UNCHANGED <<hiloCPU, procesos, mapa, cerrada, caida>>

Resize == Pedido.arg

\* A RESIZE to the size it has gets no answer.
ResizeIgual ==
    /\ Leer("ENVIO_RESIZE")
    /\ Resize = tamanio[Pedido.pid]
    /\ caida' = (Pedido.pid \notin lista)
    /\ UNCHANGED <<hiloCPU, procesos, mapa, deMem, cerrada>>

ResizeExcesivo ==
    /\ Leer("ENVIO_RESIZE")
    /\ Resize > tamanio[Pedido.pid]
    /\ Resize > TamMemoria
    /\ caida' = (Pedido.pid \notin lista)
    /\ Responder("OUT_OF_MEMORY", 0)
    /\ UNCHANGED <<hiloCPU, procesos, mapa, cerrada>>

\* What resize_proceso works out before it touches anything.
Preparar(n) ==
    /\ pidCPU' = Pedido.pid
    /\ nuevo' = Resize
    /\ cuantas' = n
    /\ hechas' = 0
    /\ caida' = (Pedido.pid \notin lista)
    /\ UNCHANGED <<procesos, mapa, deMem, cerrada>>

AAgregar == Paginas(Resize) - Paginas(tamanio[Pedido.pid])

MalHayLugar(n) == Libres # {}

\* chequear_espacio_memoria, in a critical section of its own
HayLugar(n) == n <= Cardinality(Libres)

ResizeAmpliar ==
    /\ Leer("ENVIO_RESIZE")
    /\ Resize > tamanio[Pedido.pid]
    /\ Resize <= TamMemoria
    /\ HayLugar(AAgregar)
    /\ Preparar(AAgregar)
    /\ pasoCPU' = "chequeado"

\* Without room it answers and ends the whole program.
ResizeSinLugar ==
    /\ Leer("ENVIO_RESIZE")
    /\ Resize > tamanio[Pedido.pid]
    /\ Resize <= TamMemoria
    /\ ~ HayLugar(AAgregar)
    /\ Responder("OUT_OF_MEMORY", 0)
    /\ caida' = (Pedido.pid \notin lista)
    /\ cerrada' = TRUE
    /\ UNCHANGED <<hiloCPU, procesos, mapa>>

ResizeReducir ==
    /\ Leer("ENVIO_RESIZE")
    /\ Resize < tamanio[Pedido.pid]
    /\ Preparar(- AAgregar)
    /\ pasoCPU' = "marca"

EnPaso(a, b) ==
    /\ Sigue
    /\ pasoCPU = a
    /\ pasoCPU' = b
    /\ UNCHANGED <<entorno, socketIO, aMem, aMemK, deMemK, hiloKernel, lista,
                   cargados, cerrada, caida>>

\* The size is written, and asignar_frames_a_paginas takes the mutex ...
EmpezarAsignar ==
    /\ EnPaso("chequeado", "asigna")
    /\ tamanio' = [tamanio EXCEPT ![pidCPU] = nuevo]
    /\ UNCHANGED <<pidCPU, nuevo, cuantas, hechas, deMem, tabla, mapa>>

MalPrimerLibre(f) == \A g \in TodosLosMarcos : f <= g

\* ... to go through the bitmap from frame 0 ...
PrimerLibre(f) == f \in Libres /\ \A g \in Libres : f <= g

\* ... until it has assigned as many as were asked for. It counts after
\* assigning: asked for none, it takes every free frame.
AsignarMarco(f) ==
    /\ PrimerLibre(f)
    /\ EnPaso("asigna", IF hechas + 1 = cuantas THEN "acepta" ELSE "asigna")
    /\ mapa' = mapa \cup {f}
    /\ tabla' = [tabla EXCEPT ![pidCPU] = Append(@, f)]
    /\ hechas' = hechas + 1
    /\ UNCHANGED <<pidCPU, nuevo, cuantas, deMem, tamanio>>

SinMarcos ==
    /\ Libres = {}
    /\ EnPaso("asigna", "acepta")
    /\ UNCHANGED <<pidCPU, nuevo, cuantas, hechas, deMem, tamanio, tabla, mapa>>

MalUltima == hechas + 1

\* marcar_frames_como_libres goes from the last page down, ...
Ultima == Len(tabla[pidCPU]) - hechas

\* ... one critical section per frame.
MarcarLibre ==
    /\ EnPaso("marca", "marca")
    /\ hechas < cuantas
    /\ mapa' = mapa \ {tabla[pidCPU][Ultima]}
    /\ hechas' = hechas + 1
    /\ UNCHANGED <<pidCPU, nuevo, cuantas, deMem, tamanio, tabla>>

\* sacar_n_entradas_desde_final
SacarEntradas ==
    /\ EnPaso("marca", "acepta")
    /\ hechas = cuantas
    /\ tabla' = [tabla EXCEPT ![pidCPU] = SubSeq(@, 1, Len(@) - cuantas)]
    /\ tamanio' = [tamanio EXCEPT ![pidCPU] = nuevo]
    /\ UNCHANGED <<pidCPU, nuevo, cuantas, hechas, deMem, mapa>>

MalAceptarResize ==
    /\ EnPaso("acepta", "lee")
    /\ pidCPU' = Nadie /\ nuevo' = 0 /\ cuantas' = 0 /\ hechas' = 0
    /\ UNCHANGED <<deMem, tamanio, tabla, mapa>>

AceptarResize ==
    /\ EnPaso("acepta", "lee")
    /\ Responder("RESIZE_ACEPTADO", 0)
    /\ pidCPU' = Nadie /\ nuevo' = 0 /\ cuantas' = 0 /\ hechas' = 0
    /\ UNCHANGED <<tamanio, tabla, mapa>>

-------------------------------------------------------------------------------
(* hilo_kernel *)

KernelEnPaso(a, b) ==
    /\ Sigue
    /\ pasoK = a
    /\ pasoK' = b
    /\ UNCHANGED <<entorno, socketIO, aMem, deMem, hiloCPU, tamanio, cerrada>>

LeerKernel(op) ==
    /\ aMemK # <<>>
    /\ Head(aMemK).op = op
    /\ aMemK' = Tail(aMemK)
    /\ pidK' = Head(aMemK).pid
    /\ UNCHANGED <<cargados, tabla, mapa, deMemK>>

\* creacion_proceso puts it in the list before ...
CrearProceso ==
    /\ KernelEnPaso("lee", "carga")
    /\ LeerKernel("CREACION_PROCESO")
    /\ lista' = lista \cup {pidK'}
    /\ UNCHANGED <<hechasK, caida>>

\* ... abrir_archivo_path reads its instructions and answers.
CargarInstrucciones ==
    /\ KernelEnPaso("carga", "lee")
    /\ cargados' = cargados \cup {pidK}
    /\ deMemK' = Append(deMemK, "PAQUETE")
    /\ pidK' = Nadie
    /\ UNCHANGED <<aMemK, hechasK, lista, tabla, mapa, caida>>

\* finalizar_proceso
EmpezarFin ==
    /\ KernelEnPaso("lee", "libera")
    /\ LeerKernel("FINALIZAR_PROCESO")
    /\ hechasK' = 0
    /\ caida' = (pidK' \notin lista)
    /\ UNCHANGED lista

MutexLibre == pasoCPU # "asigna"

MalLiberarMarco ==
    /\ KernelEnPaso("libera", "libera")
    /\ MutexLibre
    /\ hechasK + 1 < Len(tabla[pidK])
    /\ mapa' = mapa \ {tabla[pidK][hechasK + 1]}
    /\ hechasK' = hechasK + 1
    /\ UNCHANGED <<aMemK, deMemK, pidK, lista, cargados, tabla, caida>>

\* frames_libres_por_fin_proceso, one critical section per frame
LiberarMarco ==
    /\ KernelEnPaso("libera", "libera")
    /\ MutexLibre
    /\ hechasK < Len(tabla[pidK])
    /\ mapa' = mapa \ {tabla[pidK][hechasK + 1]}
    /\ hechasK' = hechasK + 1
    /\ UNCHANGED <<aMemK, deMemK, pidK, lista, cargados, tabla, caida>>

MalEliminarProceso ==
    /\ KernelEnPaso("libera", "lee")
    /\ hechasK = Len(tabla[pidK])
    /\ lista' = lista \ {pidK}
    /\ tabla' = [tabla EXCEPT ![pidK] = <<>>]
    /\ pidK' = Nadie /\ hechasK' = 0
    /\ UNCHANGED <<aMemK, deMemK, cargados, mapa, caida>>

\* eliminar_proceso_de_lista_de_procesos
EliminarProceso ==
    /\ KernelEnPaso("libera", "lee")
    /\ hechasK = Len(tabla[pidK])
    /\ lista' = lista \ {pidK}
    /\ cargados' = cargados \ {pidK}
    /\ tabla' = [tabla EXCEPT ![pidK] = <<>>]
    /\ pidK' = Nadie /\ hechasK' = 0
    /\ UNCHANGED <<aMemK, deMemK, mapa, caida>>

-------------------------------------------------------------------------------
(* The threads of conexiones.c: manejoSTDIN, manejoSTDOUT and manejoDIALFS serve *)
(* one device each, with the operators above.                                *)

HiloIO ==
    /\ Sigue
    /\ aMemIO # <<>>
    /\ aMemIO' = Tail(aMemIO)
    /\ deMemIO' = IF Head(aMemIO).op = Lectura THEN Append(deMemIO, Lectura) ELSE deMemIO
    /\ UNCHANGED <<entorno, aMem, deMem, aMemK, deMemK, memoria>>

-------------------------------------------------------------------------------
(* The kernel, the CPU and the device *)

dispositivo == <<pasoIO, pedidoIO, socketIO>>

MalIniciarProceso(p) ==
    /\ estado[p] = "nada"
    /\ estado' = [estado EXCEPT ![p] = "listo"]
    /\ aMemK' = Append(aMemK, [op |-> "CREACION_PROCESO", pid |-> p])
    /\ UNCHANGED <<memoria, dispositivo, ejecuta, espera, aMem, deMem, deMemK>>

\* iniciarProceso, which waits for the memory before the next command ...
IniciarProceso(p) ==
    /\ estado[p] = "nada"
    /\ \A q \in Procesos : estado[q] # "creando"
    /\ estado' = [estado EXCEPT ![p] = "creando"]
    /\ aMemK' = Append(aMemK, [op |-> "CREACION_PROCESO", pid |-> p])
    /\ UNCHANGED <<memoria, dispositivo, ejecuta, espera, aMem, deMem, deMemK>>

\* ... and only then posts procesosEnNew. No post is left over from a process
\* finalised in NEW (planificadorLP.c:258), which would admit this one earlier.
ProcesoCreado(p) ==
    /\ estado[p] = "creando"
    /\ deMemK # <<>>
    /\ deMemK' = Tail(deMemK)
    /\ estado' = [estado EXCEPT ![p] = "listo"]
    /\ UNCHANGED <<memoria, dispositivo, ejecuta, espera, aMem, deMem, aMemK>>

\* vaciarExit, for a process that is not in the CPU: also for one that waits for
\* the device, which FINALIZAR_PROCESO ends with its request pending, because
\* sacarProcesoBloqueado does not find it in the queue of an interface.
FinalizarProceso(p) ==
    /\ estado[p] \in {"listo", "bloqueado"}
    /\ ejecuta # p
    /\ estado' = [estado EXCEPT ![p] = "fin"]
    /\ aMemK' = Append(aMemK, [op |-> "FINALIZAR_PROCESO", pid |-> p])
    /\ UNCHANGED <<memoria, dispositivo, ejecuta, espera, aMem, deMem, deMemK>>

\* A PCB arrives.
EntrarCPU(p) ==
    /\ ejecuta = Nadie
    /\ estado[p] = "listo"
    /\ ejecuta' = p
    /\ UNCHANGED <<memoria, dispositivo, estado, espera, aMem, deMem, aMemK, deMemK>>

\* It leaves, between two instructions.
DejarCPU ==
    /\ ejecuta # Nadie
    /\ ~ espera
    /\ ejecuta' = Nadie
    /\ UNCHANGED <<memoria, dispositivo, estado, espera, aMem, deMem, aMemK, deMemK>>

\* fetch, RESIZE, and pedir_marco for a page of the process. The CPU stops until
\* it is answered.
Pedir(op, arg) ==
    /\ ejecuta # Nadie
    /\ ~ espera
    /\ op = "ACCESO_TABLAS_PAGINAS" => arg < Paginas(tamanio[ejecuta])
    /\ aMem' = Append(aMem, [op |-> op, pid |-> ejecuta, arg |-> arg])
    /\ espera' = TRUE
    /\ UNCHANGED <<memoria, dispositivo, estado, ejecuta, deMem, aMemK, deMemK>>

\* An instruction, what a RESIZE got, what it read, or one frame of several.
\* Without memory the process leaves.
RecibirRespuesta ==
    /\ espera
    /\ deMem # <<>>
    /\ deMem' = Tail(deMem)
    /\ espera' = FALSE
    /\ ejecuta' = IF Head(deMem).op = "OUT_OF_MEMORY" THEN Nadie ELSE ejecuta
    /\ UNCHANGED <<memoria, dispositivo, estado, aMem, aMemK, deMemK>>

\* MOV_IN, MOV_OUT, COPY_STRING: with the frame, they read and wait again, or
\* write and wait for nothing.
Acceder(op) ==
    /\ espera
    /\ deMem # <<>>
    /\ Head(deMem).op = "ACCESO_TABLAS_PAGINAS"
    /\ deMem' = Tail(deMem)
    /\ aMem' = Append(aMem, [op |-> op, pid |-> ejecuta, arg |-> Head(deMem).marco])
    /\ espera' = (op = Lectura)
    /\ UNCHANGED <<memoria, dispositivo, estado, ejecuta, aMemK, deMemK>>

\* IO_STDIN_READ, IO_STDOUT_WRITE, IO_FS_READ and IO_FS_WRITE: with the frame,
\* the process leaves the CPU and the kernel passes it on to the device. The
\* queue of those that wait for their turn is in module Planificador.
Bloquear(op) ==
    /\ espera
    /\ deMem # <<>>
    /\ Head(deMem).op = "ACCESO_TABLAS_PAGINAS"
    /\ pasoIO = "libre"
    /\ pasoIO' = "accede"
    /\ pedidoIO' = [op |-> op, pid |-> ejecuta, arg |-> Head(deMem).marco]
    /\ deMem' = Tail(deMem)
    /\ espera' = FALSE
    /\ estado' = [estado EXCEPT ![ejecuta] = "bloqueado"]
    /\ ejecuta' = Nadie
    /\ UNCHANGED <<memoria, socketIO, aMem, aMemK, deMemK>>

\* The device asks for what it prints or sends what was typed, ...
AccederIO ==
    /\ pasoIO = "accede"
    /\ Len(aMemIO) < MaxIO
    /\ pasoIO' = "termina"
    /\ aMemIO' = Append(aMemIO, pedidoIO)
    /\ UNCHANGED <<memoria, estado, ejecuta, espera, pedidoIO, deMemIO, aMem, deMem,
                   aMemK, deMemK>>

\* ... waits for what it asked for, and for nothing if it wrote, and sends
\* OPERACION_FINALIZADA, with which the kernel plans the process again. If it has
\* ended it meanwhile, what it plans is a freed PCB: nothing is said of that step,
\* nor of what may follow it (module Planificador).
TerminarIO ==
    /\ pasoIO = "termina"
    /\ estado[pedidoIO.pid] = "bloqueado"
    /\ pedidoIO.op = Lectura => deMemIO # <<>>
    /\ deMemIO' = IF pedidoIO.op = Lectura THEN Tail(deMemIO) ELSE deMemIO
    /\ pasoIO' = "libre"
    /\ pedidoIO' = SinPedido
    /\ estado' = [estado EXCEPT ![pedidoIO.pid] = "listo"]
    /\ UNCHANGED <<memoria, ejecuta, espera, aMemIO, aMem, deMem, aMemK, deMemK>>

-------------------------------------------------------------------------------
HiloCPU ==
    \/ MandarInstruccion \/ AccederTabla \/ Escribir \/ LeerMemoria
    \/ ResizeIgual \/ ResizeExcesivo \/ ResizeAmpliar \/ ResizeSinLugar \/ ResizeReducir
    \/ EmpezarAsignar \/ SinMarcos \/ MarcarLibre \/ SacarEntradas \/ AceptarResize
    \/ \E f \in TodosLosMarcos : AsignarMarco(f)

HiloKernel ==
    CrearProceso \/ CargarInstrucciones \/ EmpezarFin \/ LiberarMarco \/ EliminarProceso

Entorno ==
    \/ \E p \in Procesos :
         IniciarProceso(p) \/ ProcesoCreado(p) \/ FinalizarProceso(p) \/ EntrarCPU(p)
    \/ DejarCPU \/ RecibirRespuesta \/ Acceder(Lectura) \/ Acceder(Escritura)
    \/ \E op \in AccesosIO : Bloquear(op)
    \/ AccederIO \/ TerminarIO
    \/ Pedir("ENVIO_DE_INSTRUCCIONES", 0)
    \/ \E t \in Tamanios : Pedir("ENVIO_RESIZE", t)
    \/ \E n \in 0 .. CantMarcos - 1 : Pedir("ACCESO_TABLAS_PAGINAS", n)

Next == HiloCPU \/ HiloKernel \/ HiloIO \/ Entorno

Spec == Init /\ [][Next]_vars

\* Each thread blocks only in its socket and in the mutex of the bitmap.
SpecJusta == Spec /\ WF_vars(HiloCPU) /\ WF_vars(HiloKernel) /\ WF_vars(HiloIO)

-------------------------------------------------------------------------------
(* Properties *)

\* The entries of a page table whose bit has not been cleared yet.
Vigentes(p) ==
    {k \in 1 .. Len(tabla[p]) :
       /\ pasoK = "libera" /\ pidK = p => k > hechasK
       /\ pasoCPU = "marca" /\ pidCPU = p => k <= Len(tabla[p]) - hechas}

Retenidos(p) == {tabla[p][k] : k \in Vigentes(p)}

\* The bitmap marks the frames of the page tables, those that a loop of
\* memoriaCPU.c:34 or memoriaKernel.c:83 has already gone through excepted, and
\* no frame is in two entries, of the same process or of two.
MapaExacto ==
    /\ mapa = UNION {Retenidos(p) : p \in Procesos}
    /\ \A p, q \in Procesos : \A j \in Vigentes(p), k \in Vigentes(q) :
         tabla[p][j] = tabla[q][k] => p = q /\ j = k

\* Between the check of the space (memoriaCPU.c:58) and the assignment, in two
\* critical sections, nobody takes what was counted: outside a RESIZE of its own
\* every page of a process has a frame.
Respaldado ==
    \A p \in lista :
      \/ pasoCPU = "asigna" /\ pidCPU = p
      \/ tamanio[p] <= Len(tabla[p]) * TamPagina

\* The CPU is never served for a process that hilo_kernel has not created yet,
\* or has already destroyed, and no process is finished twice: hallar_proceso
\* always finds (memoriaCPU.c:142, memoriaDeInstrucciones.c:40).
SinCaida == ~ caida

\* Whoever asked for anything but the size it has gets an answer, unless the
\* memory has ended (memoriaCPU.c:64).
PedidoRespondido ==
    espera /\ aMem # <<>> /\ ~ (aMem[Len(aMem)].op = "ENVIO_RESIZE"
                               /\ aMem[Len(aMem)].arg = tamanio[ejecuta])
      ~> deMem # <<>> \/ ~ Sigue

\* A process that the kernel finishes gives all its frames back, unless the
\* memory ends or RESIZEs that grow never stop: a mutex is not granted in turns.
FinDevuelve ==
    \A p \in Procesos :
      \/ estado[p] = "fin" ~> tabla[p] = <<>> \/ ~ Sigue
      \/ []<>(pasoCPU = "asigna")

EsAjeno(m) == \E q \in Procesos \ {m.pid} : m.arg \in Retenidos(q)

\* An access whose turn has come reaches no frame that has passed to another
\* process meanwhile, even a write that the CPU sent and nobody confirms
\* (instrucciones.c:60). Of a device, only its reads, for a process that still
\* waits for them: its writes may come when the process has gone on, and even
\* ended (interfazStd.c:80), and FINALIZAR_PROCESO gives away the frames of a
\* process whose read is pending (planificadorLP.c:254).
AccesoPropio ==
    /\ pasoCPU = "lee" /\ aMem # <<>> /\ Pedido.op \in {Lectura, Escritura}
         => ~ EsAjeno(Pedido)
    /\ aMemIO # <<>> /\ Head(aMemIO).op = Lectura /\ estado[Head(aMemIO).pid] # "fin"
         => ~ EsAjeno(Head(aMemIO))

Duenio == [f \in TodosLosMarcos |->
             IF \E p \in Procesos : f \in Retenidos(p)
             THEN CHOOSE p \in Procesos : f \in Retenidos(p) ELSE Nadie]

M == INSTANCE Marcos WITH duenio <- Duenio

\* Each frame has one owner at a time, and goes through being free before it has
\* another, while one thread assigns and both give back.
CumpleMarcos == M!SpecMar

===============================================================================
