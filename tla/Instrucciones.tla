----------------------------- MODULE Instrucciones -----------------------------
(***************************************************************************)
(* What the instructions of the programs do: the CPU (instrucciones.c,     *)
(* cicloDeInstrucciones.c), its MMU and TLB (mmu.c,                        *)
(* algoritmosSustitucion.c), the frames and bytes of the memory, and the   *)
(* devices that use physical addresses while the process is blocked. An    *)
(* instruction is one action: the CPU is the only one to use the pages of  *)
(* a process that it executes. CPUHilos has the threads of the CPU and     *)
(* Memoria those of the memory. The kernel appears as what it may do:      *)
(* dispatch any ready process, take it out, block and unblock it.          *)
(***************************************************************************)
EXTENDS Registros, FiniteSets

CONSTANTS
    Procesos,       \* PIDs
    Nadie,          \* no PID
    CantMarcos, TamPagina,
    Cargas,         \* the programs of the processes: what the memory may have loaded
    Modos           \* [algoritmo, entradas] of the TLB, from cpu.config

ASSUME ConstantesOK ==
    /\ Nadie \notin Procesos
    /\ CantMarcos \in Nat \ {0} /\ TamPagina \in Nat \ {0}
    /\ Modos \subseteq [algoritmo : {"FIFO", "LRU"}, entradas : Nat]
    /\ \A c \in Cargas : \A p \in Procesos :
        /\ Len(c[p]) \in Nat /\ DOMAIN c[p] = 1 .. Len(c[p])
        /\ \A k \in DOMAIN c[p] : EsInstruccion(c[p][k])

VARIABLES
    carga, modo,    \* chosen at the start
    estado,         \* "listo", "bloqueado" or "fin"
    ejecuta,        \* the process in the CPU, or Nadie
    regs,           \* the registers of each PCB
    tabla, tamanio, \* tabla_del_proceso, as frames, and tamanio_proceso
    memoria,        \* memoria_contigua
    tlb,            \* cola_FIFO or estructura_LRU: the next one to go first
    pedido,         \* what a device has to do for the process
    salida,         \* what a device last wrote for the process
    detenida,       \* the CPU waits for an answer that does not come
    recientes,      \* history: the pages used, the last used at the end
    tocados         \* history: the frames that the last instruction used

vars == <<carga, modo, estado, ejecuta, regs, tabla, tamanio, memoria, tlb, pedido,
          salida, detenida, recientes, tocados>>

Marcos == 0 .. CantMarcos - 1
TamMemoria == CantMarcos * TamPagina
Paginas(t) == (t + TamPagina - 1) \div TamPagina
Menor(a, b) == IF a < b THEN a ELSE b
Mayor(a, b) == IF a > b THEN a ELSE b
Ninguno == [op |-> "ninguno", trozos |-> <<>>, dir |-> 0, tam |-> 0, puntero |-> 0]
Textos == {"IO_STDIN_READ", "IO_FS_READ"}
Salidas == {"IO_STDOUT_WRITE", "IO_FS_WRITE"}

\* the byte that a device reads at each position
Texto(k) == (65 + k) % 256

Entrada == [pid : Procesos, pagina : Nat, marco : Marcos]
Pedido == [op : DOMAIN Formato \cup {"ninguno"}, dir : Nat, tam : Nat, puntero : Nat,
           trozos : Seq([dir : Nat, tam : Nat, puntero : Nat])]

TypeOK ==
    /\ carga \in Cargas /\ modo \in Modos
    /\ estado \in [Procesos -> {"listo", "bloqueado", "fin"}]
    /\ ejecuta \in Procesos \cup {Nadie}
    /\ regs \in [Procesos -> Banco]
    /\ tabla \in [Procesos -> Seq(Marcos)]
    /\ tamanio \in [Procesos -> 0 .. TamMemoria]
    /\ memoria \in [0 .. TamMemoria - 1 -> Byte]
    /\ tlb \in Seq(Entrada) /\ Len(tlb) <= modo.entradas
    /\ pedido \in [Procesos -> Pedido]
    /\ \A p \in Procesos : pedido[p] # Ninguno => estado[p] = "bloqueado"
    /\ salida \in [Procesos -> Seq(Nat \X Byte)]
    /\ detenida \in BOOLEAN
    /\ recientes \in Seq(Procesos \X Nat)
    /\ tocados \subseteq Procesos \X Marcos

-----------------------------------------------------------------------------
(* The MMU *)

\* esta_en_la_TLB, for the process that executes
\* seeded error: the entry of any process will do
MalEncontradas(l, pagina) == {e \in ToSet(l) : e.pagina = pagina}
Encontradas(l, pagina) == {e \in ToSet(l) : e.pid = ejecuta /\ e.pagina = pagina}

\* mover_al_frente_de_la_estructura_LRU
\* seeded error: a hit leaves the entry where it was
MalMoverAlFrente(l, e) == l
MoverAlFrente(l, e) == IF modo.algoritmo = "LRU" THEN Append(RemoveFirst(l, e), e) ELSE l

\* list_add while there is room, then FIFO or LRU
\* seeded error: one entry more than cant_entradas_TLB
MalAgregar(l, e) ==
    IF modo.entradas = 0 THEN <<>> ELSE Append(IF Len(l) <= modo.entradas THEN l ELSE Tail(l), e)
Agregar(l, e) ==
    IF modo.entradas = 0 THEN <<>> ELSE Append(IF Len(l) < modo.entradas THEN l ELSE Tail(l), e)

\* One address after another: what a translation leaves in the TLB is there for
\* the next one. A page that the table does not have gets no answer.
Traducir(t, dir) ==
    LET pagina == dir \div TamPagina
        hay == Encontradas(t.tlb, pagina)
        existe == pagina < Len(tabla[ejecuta])
        entrada == IF hay # {} THEN CHOOSE e \in hay : TRUE
                   ELSE [pid |-> ejecuta, pagina |-> pagina,
                         marco |-> IF existe THEN tabla[ejecuta][pagina + 1] ELSE 0]
    IN  [tlb |-> IF hay = {} THEN Agregar(t.tlb, entrada) ELSE MoverAlFrente(t.tlb, entrada),
         dirs |-> Append(t.dirs, entrada.marco * TamPagina + (dir % TamPagina)),
         usos |-> Append(RemoveFirst(t.usos, <<ejecuta, pagina>>), <<ejecuta, pagina>>),
         falta |-> t.falta \/ (hay = {} /\ ~existe)]

\* A piece of an access: its logical address and its size.
Trozo(dir, tam) == [dir |-> dir, tam |-> tam]

\* COPY_STRING and the accesses of the devices cut every TamPagina bytes, from
\* wherever they begin; ...
CortarPorTamanio(dir, n) ==
    [k \in 1 .. Mayor(1, Paginas(n)) |->
        Trozo(dir + (k - 1) * TamPagina, Menor(TamPagina, n - (k - 1) * TamPagina))]

\* ... MOV_IN and MOV_OUT, at the end of each page.
\* seeded error: they cut like the others
MalCortarPorPagina(dir, n) == CortarPorTamanio(dir, n)
CortarPorPagina(dir, n) ==
    LET primera == dir \div TamPagina
        desde(k) == Mayor(dir, (primera + k - 1) * TamPagina)
        hasta(k) == Menor(dir + n, (primera + k) * TamPagina)
    IN  [k \in 1 .. (dir + n - 1) \div TamPagina - primera + 1 |->
            Trozo(desde(k), hasta(k) - desde(k))]

Traduccion(trozos) ==
    LET tras[k \in 0 .. Len(trozos)] ==
            IF k = 0 THEN [tlb |-> tlb, dirs |-> <<>>, usos |-> recientes, falta |-> FALSE]
            ELSE Traducir(tras[k - 1], trozos[k].dir)
    IN  tras[Len(trozos)]

\* leer_memoria, escribir_memoria; beyond its end, the memory exits
Leer(m, dir, n) == [k \in 1 .. n |-> m[dir + k - 1]]
Escribir(m, dir, bs) ==
    [a \in DOMAIN m |-> IF a \in dir .. dir + Len(bs) - 1 THEN bs[a - dir + 1] ELSE m[a]]
\* one piece after another
EscribirTrozos(dirs, datos) ==
    LET tras[k \in 0 .. Len(datos)] ==
            IF k = 0 THEN memoria ELSE Escribir(tras[k - 1], dirs[k], datos[k])
    IN  tras[Len(datos)]
CopiarTrozos(dirs, trozos) ==
    LET tras[k \in 0 .. Len(trozos) \div 2] ==
            IF k = 0 THEN memoria
            ELSE Escribir(tras[k - 1], dirs[2 * k], Leer(tras[k - 1], dirs[2 * k - 1], trozos[2 * k].tam))
    IN  tras[Len(trozos) \div 2]
\* n bytes from dir, each from the piece that has it
LeerTrozos(dirs, trozos, dir, n) ==
    LET trozo(a) == CHOOSE k \in DOMAIN trozos :
                        trozos[k].dir <= a /\ a < trozos[k].dir + trozos[k].tam
        fisica(a) == dirs[trozo(a)] + a - trozos[trozo(a)].dir
    IN  [j \in 1 .. n |-> memoria[fisica(dir + j - 1)]]
Sobrepasa(t, trozos) ==
    \E k \in DOMAIN trozos : t.dirs[k] + trozos[k].tam > TamMemoria

MarcosDe(t, trozos) ==
    UNION {{<<ejecuta, a \div TamPagina>> : a \in t.dirs[k] .. t.dirs[k] + trozos[k].tam - 1} :
           k \in DOMAIN trozos}

\* What every instruction that uses the user space does with it.
Accede(t, trozos) ==
    /\ ~t.falta /\ ~Sobrepasa(t, trozos)
    /\ tlb' = t.tlb
    /\ recientes' = t.usos
    /\ tocados' = MarcosDe(t, trozos)

-----------------------------------------------------------------------------
(* The cycle: fetch leaves PC one ahead before execute *)

PC == Valor(regs[ejecuta]["PC"])
Ins == carga[ejecuta][PC + 1]
R == SET(regs[ejecuta], "PC", PC + 1)
Reg(k) == Valor(R[Ins[k]])

Fetch(tipos) ==
    /\ ~detenida /\ ejecuta # Nadie /\ PC < Len(carga[ejecuta])
    /\ Ins[1] \in tipos
    /\ UNCHANGED <<carga, modo, salida>>

SinMemoria == UNCHANGED <<tabla, tamanio, memoria, tlb, recientes>> /\ tocados' = {}

\* check_interrupt: the kernel may take the process out after any instruction
Queda(r) ==
    /\ regs' = [regs EXCEPT ![ejecuta] = r]
    /\ ejecuta' \in {ejecuta, Nadie}
    /\ UNCHANGED <<estado, pedido, detenida>>

\* enviar_pcb, and the cycle ends
Deja(e, ped) ==
    /\ regs' = [regs EXCEPT ![ejecuta] = R]
    /\ estado' = [estado EXCEPT ![ejecuta] = e]
    /\ pedido' = [pedido EXCEPT ![ejecuta] = ped]
    /\ ejecuta' = Nadie
    /\ UNCHANGED detenida

\* JNZ calls SET with the value of PC where SET expects a register
JNZ(r, reg, n) ==
    IF Valor(r[reg]) # 0 /\ Valor(r["PC"]) < Len(Orden)
    THEN SET(r, Orden[Valor(r["PC"]) + 1], n)
    ELSE r

Calcular ==
    /\ Fetch({"SET", "SUM", "SUB", "JNZ"})
    /\ Queda(CASE Ins[1] = "SET" -> SET(R, Ins[2], Ins[3])
               [] Ins[1] = "SUM" -> SUM(R, Ins[2], Ins[3])
               [] Ins[1] = "SUB" -> SUB(R, Ins[2], Ins[3])
               [] Ins[1] = "JNZ" -> JNZ(R, Ins[2], Ins[3]))
    /\ SinMemoria

MOV_IN ==
    /\ Fetch({"MOV_IN"})
    /\ LET n == TamanioRegistro(Ins[2])
           trozos == CortarPorPagina(Reg(3), n)
           t == Traduccion(trozos)
       IN  /\ Accede(t, trozos)
           /\ Queda([R EXCEPT ![Ins[2]] = LeerTrozos(t.dirs, trozos, Reg(3), n)])
    /\ UNCHANGED <<tabla, tamanio, memoria>>

MOV_OUT ==
    /\ Fetch({"MOV_OUT"})
    /\ LET dato == R[Ins[3]]
           trozos == CortarPorPagina(Reg(2), Len(dato))
           t == Traduccion(trozos)
           parte(k) == [j \in 1 .. trozos[k].tam |-> dato[trozos[k].dir - Reg(2) + j]]
       IN  /\ Accede(t, trozos)
           /\ memoria' = EscribirTrozos(t.dirs, [k \in DOMAIN trozos |-> parte(k)])
    /\ Queda(R)
    /\ UNCHANGED <<tabla, tamanio>>

\* SI and DI, piece by piece
TrozosCopia(n) ==
    LET de == CortarPorTamanio(Valor(R["SI"]), n)
        a == CortarPorTamanio(Valor(R["DI"]), n)
    IN  [k \in 1 .. 2 * Len(de) |-> IF k % 2 = 1 THEN de[(k + 1) \div 2] ELSE a[k \div 2]]

COPY_STRING ==
    /\ Fetch({"COPY_STRING"})
    /\ LET trozos == TrozosCopia(Ins[2])
           t == Traduccion(trozos)
       IN  /\ Accede(t, trozos)
           /\ memoria' = CopiarTrozos(t.dirs, trozos)
    /\ Queda(R)
    /\ UNCHANGED <<tabla, tamanio>>

\* enviarDireccionesFisicasAKernel and enviar_Direcciones_Fisicas_FS; dir, tam
\* and puntero of the request are kept as a history
PedirAcceso ==
    /\ Fetch(Textos \cup Salidas)
    /\ LET archivo == Ins[1] \in {"IO_FS_READ", "IO_FS_WRITE"}
           dir == IF archivo THEN Reg(4) ELSE Reg(3)
           tam == IF archivo THEN Reg(5) ELSE Reg(4)
           puntero == IF archivo THEN Reg(6) ELSE 0
           trozos == CortarPorTamanio(dir, tam)
           t == Traduccion(trozos)
       IN  /\ Accede(t, trozos)
           /\ Deja("bloqueado",
                [op |-> Ins[1], dir |-> dir, tam |-> tam, puntero |-> puntero,
                 trozos |-> [k \in DOMAIN trozos |->
                    [dir |-> t.dirs[k], tam |-> trozos[k].tam,
                     puntero |-> puntero + (k - 1) * TamPagina]]])
    /\ UNCHANGED <<tabla, tamanio, memoria>>

PedirIO ==
    /\ Fetch({"IO_GEN_SLEEP", "IO_FS_CREATE", "IO_FS_DELETE", "IO_FS_TRUNCATE"})
    /\ Deja("bloqueado",
        [op |-> Ins[1], trozos |-> <<>>, dir |-> 0, puntero |-> 0,
         tam |-> IF Ins[1] = "IO_FS_TRUNCATE" THEN Reg(4) ELSE 0])
    /\ SinMemoria

\* the kernel gives the process back, or blocks it
Recurso ==
    /\ Fetch({"WAIT", "SIGNAL"})
    /\ \/ Queda(R)
       \/ Ins[1] = "WAIT" /\ Deja("bloqueado", Ninguno)
    /\ SinMemoria

\* the memory frees the frames; nobody tells the TLB
Salir ==
    /\ Deja("fin", Ninguno)
    /\ tabla' = [tabla EXCEPT ![ejecuta] = <<>>]
    /\ tamanio' = [tamanio EXCEPT ![ejecuta] = 0]
    /\ tocados' = {}
    /\ UNCHANGED <<memoria, tlb, recientes>>

EXIT == Fetch({"EXIT"}) /\ Salir

-----------------------------------------------------------------------------
(* RESIZE *)

Libres == Marcos \ UNION {ToSet(tabla[p]) : p \in Procesos}
AAgregar == Paginas(Ins[2]) - Paginas(tamanio[ejecuta])

\* the first AAgregar free frames; all of them when none is needed
MarcoLibre(k) == CHOOSE m \in Libres : Cardinality({x \in Libres : x < m}) = k - 1
Asignar ==
    [k \in 1 .. (IF AAgregar = 0 THEN Cardinality(Libres) ELSE AAgregar) |-> MarcoLibre(k)]

Redimensionar(nueva) ==
    /\ tabla' = [tabla EXCEPT ![ejecuta] = nueva]
    /\ tamanio' = [tamanio EXCEPT ![ejecuta] = Ins[2]]
    /\ Queda(R)
    /\ tocados' = {}
    /\ UNCHANGED <<memoria, tlb, recientes>>

Ampliar ==
    /\ Fetch({"RESIZE"})
    /\ tamanio[ejecuta] < Ins[2] /\ Ins[2] <= TamMemoria
    /\ AAgregar <= Cardinality(Libres)
    /\ Redimensionar(tabla[ejecuta] \o Asignar)

Reducir ==
    /\ Fetch({"RESIZE"})
    /\ Ins[2] < tamanio[ejecuta]
    /\ Redimensionar(SubSeq(tabla[ejecuta], 1, Len(tabla[ejecuta]) + AAgregar))

\* OUT_OF_MEMORY: the kernel ends the process
SinEspacio ==
    /\ Fetch({"RESIZE"})
    /\ Ins[2] > TamMemoria
    /\ Salir

\* Nobody answers a RESIZE to the same size, and without frames the memory ends
\* itself; nor does it answer for a page that there is not. What an access of
\* several pieces has done before belongs to a process that goes no further.
Detenerse ==
    /\ Fetch({"RESIZE", "MOV_IN", "MOV_OUT", "COPY_STRING"} \cup Textos \cup Salidas)
    /\ LET dir == CASE Ins[1] = "MOV_IN" -> Reg(3)
                    [] Ins[1] = "MOV_OUT" -> Reg(2)
                    [] Ins[1] \in {"IO_STDIN_READ", "IO_STDOUT_WRITE"} -> Reg(3)
                    [] Ins[1] \in {"IO_FS_READ", "IO_FS_WRITE"} -> Reg(4)
           trozos == CASE Ins[1] = "COPY_STRING" -> TrozosCopia(Ins[2])
                       [] Ins[1] = "MOV_IN" -> CortarPorPagina(dir, TamanioRegistro(Ins[2]))
                       [] Ins[1] = "MOV_OUT" -> CortarPorPagina(dir, Len(R[Ins[3]]))
                       [] OTHER -> CortarPorTamanio(dir, Reg(Len(Ins) - (IF Len(Ins) = 6 THEN 1 ELSE 0)))
       IN  IF Ins[1] = "RESIZE"
           THEN \/ Ins[2] = tamanio[ejecuta]
                \/ Ins[2] <= TamMemoria /\ AAgregar > Cardinality(Libres)
           ELSE LET t == Traduccion(trozos) IN t.falta \/ Sobrepasa(t, trozos)
    /\ detenida' = TRUE
    /\ UNCHANGED <<estado, ejecuta, regs, pedido>>
    /\ SinMemoria

-----------------------------------------------------------------------------
(* The kernel and the devices *)

Entorno == ~detenida /\ UNCHANGED <<carga, modo, regs, tabla, tamanio, tlb, recientes, detenida>>

Despachar(p) ==
    /\ Entorno
    /\ ejecuta = Nadie /\ estado[p] = "listo"
    /\ ejecuta' = p
    /\ UNCHANGED <<estado, memoria, pedido, salida, tocados>>

\* what the device gathers from the pieces, a page each but for the last
Mostrado(trozos) ==
    LET cuantos == (Len(trozos) - 1) * TamPagina + trozos[Len(trozos)].tam
        en(j) == trozos[(j - 1) \div TamPagina + 1]
        o(j) == (j - 1) % TamPagina
    IN  [j \in 1 .. cuantos |-> <<en(j).puntero + o(j), memoria[en(j).dir + o(j)]>>]

\* The device writes the text by pieces, or gathers the pieces and shows them.
FinIO(p) ==
    /\ Entorno
    /\ estado[p] = "bloqueado"
    /\ estado' = [estado EXCEPT ![p] = "listo"]
    /\ pedido' = [pedido EXCEPT ![p] = Ninguno]
    /\ LET trozos == pedido[p].trozos
           texto(k) == [j \in 1 .. trozos[k].tam |-> Texto(trozos[k].puntero + j - 1)]
       IN  /\ memoria' = IF pedido[p].op \notin Textos THEN memoria
                         ELSE EscribirTrozos([k \in DOMAIN trozos |-> trozos[k].dir],
                                             [k \in DOMAIN trozos |-> texto(k)])
           /\ salida' = IF pedido[p].op \notin Salidas THEN salida
                        ELSE [salida EXCEPT ![p] = Mostrado(trozos)]
    /\ UNCHANGED <<ejecuta, tocados>>

Init ==
    /\ carga \in Cargas /\ modo \in Modos
    /\ estado = [p \in Procesos |-> "listo"]
    /\ ejecuta = Nadie
    /\ regs = [p \in Procesos |-> [r \in Registros |-> Bytes(0, TamanioRegistro(r))]]
    /\ tabla = [p \in Procesos |-> <<>>]
    /\ tamanio = [p \in Procesos |-> 0]
    /\ memoria = [a \in 0 .. TamMemoria - 1 |-> 0]
    /\ tlb = <<>>
    /\ pedido = [p \in Procesos |-> Ninguno]
    /\ salida = [p \in Procesos |-> <<>>]
    /\ detenida = FALSE
    /\ recientes = <<>> /\ tocados = {}

Next ==
    \/ Calcular \/ MOV_IN \/ MOV_OUT \/ COPY_STRING
    \/ Ampliar \/ Reducir \/ SinEspacio \/ Detenerse
    \/ PedirAcceso \/ PedirIO \/ Recurso \/ EXIT
    \/ \E p \in Procesos : Despachar(p) \/ FinIO(p)

Spec == Init /\ [][Next]_vars

-----------------------------------------------------------------------------
(* Properties *)

\* Every byte that an instruction reads, writes or hands to a device is in a
\* frame of the process that executes it, whatever the TLB has kept.
AccesoPropio ==
    \A x \in tocados : x[2] \in ToSet(tabla[x[1]])

\* With LRU, the TLB holds exactly the pages used last, of all the processes,
\* in the order in which they will be replaced.
UltimasUsadas ==
    modo.algoritmo = "LRU" =>
        [k \in DOMAIN tlb |-> <<tlb[k].pid, tlb[k].pagina>>] =
            SubSeq(recientes, Len(recientes) - Menor(modo.entradas, Len(recientes)) + 1,
                   Len(recientes))

\* What the code asks of programs, of the instruction that comes next.
Sigue(tipos) == ~detenida /\ ejecuta # Nadie /\ PC < Len(carga[ejecuta]) /\ Ins[1] \in tipos
Donde == IF Len(Ins) = 6 THEN 4 ELSE 3

\* a RESIZE that shrinks takes away no page that the TLB holds
SinRestos ==
    Sigue({"RESIZE"}) /\ Ins[2] < tamanio[ejecuta] =>
        \A e \in ToSet(tlb) : e.pid = ejecuta => e.pagina < Len(tabla[ejecuta]) + AAgregar

\* what is cut every TamPagina bytes begins a page, or fits in the one it is in
Encaja(dir, n) == dir % TamPagina = 0 \/ (dir % TamPagina) + n <= TamPagina
EnSuPagina ==
    /\ Sigue({"COPY_STRING"}) => Encaja(Valor(R["SI"]), Ins[2]) /\ Encaja(Valor(R["DI"]), Ins[2])
    /\ Sigue(Textos \cup Salidas) => Encaja(Reg(Donde), Reg(Donde + 1))

\* accesses are of some byte, a copy does not overtake itself, and a JNZ that
\* jumps is the tenth instruction
ComoSeEspera ==
    /\ Sigue({"COPY_STRING"}) =>
        /\ Ins[2] > 0
        /\ Valor(R["DI"]) <= Valor(R["SI"]) \/ Valor(R["SI"]) + Ins[2] <= Valor(R["DI"])
    /\ Sigue(Textos \cup Salidas) => Reg(Donde + 1) > 0
    /\ Sigue({"JNZ"}) => Reg(2) = 0 \/ PC + 1 = 10

\* Pages, frames and the TLB are invisible: a process computes as if it had a
\* space of its own (see Maquina).
Espacio(p) ==
    [a \in 0 .. Len(tabla[p]) * TamPagina - 1 |->
        memoria[tabla[p][a \div TamPagina + 1] * TamPagina + (a % TamPagina)]]
M == INSTANCE Maquina WITH
    espacio <- [p \in Procesos |-> Espacio(p)],
    pendiente <- [p \in Procesos |->
        [op |-> pedido[p].op, dir |-> pedido[p].dir, tam |-> pedido[p].tam, puntero |-> pedido[p].puntero]]
EsMaquina == M!Spec
=============================================================================
