----------------------------- MODULE MemoriaProofs -----------------------------
(***************************************************************************)
(* What holds of the memory for any number of processes and frames, any    *)
(* size of a page and any programs.                                        *)
(***************************************************************************)
EXTENDS Memoria, FiniteSetTheorems, TLAPS

USE DEF entorno, socketIO, hiloCPU, hiloKernel, procesos, memoria, dispositivo

-------------------------------------------------------------------------------
(* Sequences and pages *)

\* What sending to a socket and reading from it do to what is in it.
LEMMA Sockets ==
    ASSUME NEW S
    PROVE  /\ <<>> \in Seq(S)
           /\ \A q \in Seq(S) : q # <<>> => /\ Head(q) \in S /\ Tail(q) \in Seq(S)
                                            /\ Head(q) = q[1] /\ Len(q) \in Nat \ {0}
                                            /\ Len(Tail(q)) = Len(q) - 1
                                            /\ \A i \in 1 .. Len(q) - 1 : Tail(q)[i] = q[i + 1]
           /\ \A q \in Seq(S), e \in S : /\ Append(q, e) \in Seq(S)
                                         /\ Len(Append(q, e)) = Len(q) + 1
                                         /\ Append(q, e)[Len(q) + 1] = e
                                         /\ \A i \in 1 .. Len(q) : Append(q, e)[i] = q[i]
OBVIOUS

\* A socket with one message is empty once it is read.
LEMMA UnSolo ==
    ASSUME NEW S, NEW q \in Seq(S), Len(q) = 1
    PROVE  Tail(q) = <<>> /\ q = <<q[1]>>
<1>1. q # <<>> /\ Tail(q) \in Seq(S) /\ Len(Tail(q)) = 0
  OBVIOUS
<1>2. \A s \in Seq(S) : Len(s) = 0 => s = <<>>
  OBVIOUS
<1>3. Tail(q) = <<>>
  BY <1>1, <1>2
<1>4. q = <<q[1]>>
  OBVIOUS
<1> QED BY <1>3, <1>4

\* The page of an address begins at or before it, and ends after it.
LEMMA Division ==
    ASSUME NEW a \in Nat
    PROVE  a \div TamPagina \in Nat /\ TamPagina * (a \div TamPagina) <= a
           /\ a < TamPagina * (a \div TamPagina) + TamPagina
BY ConstantesOK

\* A larger size never has fewer pages, and the pages of a size have room for it.
LEMMA PaginasCrece ==
    ASSUME NEW t \in Nat, NEW u \in Nat, t <= u
    PROVE  Paginas(t) \in Nat /\ Paginas(t) <= Paginas(u) /\ t <= TamPagina * Paginas(t)
<1>1. t + TamPagina - 1 \in Nat /\ u + TamPagina - 1 \in Nat
  BY ConstantesOK
<1> DEFINE x == Paginas(t)
           y == Paginas(u)
<1>2. /\ x \in Nat /\ y \in Nat
      /\ TamPagina * x <= u + TamPagina - 1
      /\ u + TamPagina - 1 < TamPagina * y + TamPagina
      /\ t + TamPagina - 1 < TamPagina * x + TamPagina
  BY <1>1, Division, ConstantesOK DEF Paginas
<1> HIDE DEF x, y
<1>3. TamPagina * x < TamPagina * (y + 1)
  BY <1>2, ConstantesOK
<1>4. x < y + 1
  BY <1>2, <1>3, ConstantesOK
<1> QED BY <1>2, <1>4, ConstantesOK DEF x, y

-------------------------------------------------------------------------------
(* Types, and whose turn it is *)

\* One request of the CPU is on its way, being served or answered at a time; a
\* write that nobody answers may go before it.
Turno ==
    /\ ejecuta # Nadie => estado[ejecuta] = "listo"
    /\ espera => ejecuta # Nadie
    /\ \A i \in 1 .. Len(aMem) :
         aMem[i].op # Escritura =>
            /\ i = Len(aMem) /\ espera /\ aMem[i].pid = ejecuta
            /\ pasoCPU = "lee" /\ deMem = <<>>
    /\ deMem # <<>> => espera /\ Len(deMem) = 1 /\ pasoCPU = "lee" /\ aMem = <<>>
    /\ pasoCPU # "lee" => espera /\ aMem = <<>> /\ deMem = <<>> /\ pidCPU = ejecuta
    /\ ~ espera => Len(aMem) <= 1

\* TypeOK in three parts.
TiposEntorno ==
    /\ estado \in [Procesos -> {"nada", "creando", "listo", "bloqueado", "fin"}]
    /\ ejecuta \in Procesos \cup {Nadie}
    /\ espera \in BOOLEAN
    /\ pasoIO \in {"libre", "accede", "termina"}
    /\ pedidoIO \in {SinPedido} \cup [op : AccesosIO, pid : Procesos, arg : TodosLosMarcos]

TiposSockets ==
    /\ aMemIO \in Seq(Pedidos) /\ Len(aMemIO) <= MaxIO
    /\ deMemIO \in Seq({Lectura})
    /\ aMem \in Seq(Pedidos) /\ Len(aMem) <= 2
    /\ deMem \in Seq(Respuestas)
    /\ aMemK \in Seq([op : {"CREACION_PROCESO", "FINALIZAR_PROCESO"}, pid : Procesos])
    /\ deMemK \in Seq({"PAQUETE"})

TiposMemoria ==
    /\ lista \subseteq Procesos
    /\ cargados \subseteq lista
    /\ tamanio \in [Procesos -> Nat]
    /\ tabla \in [Procesos -> Seq(TodosLosMarcos)]
    /\ mapa \subseteq TodosLosMarcos
    /\ pasoCPU \in {"lee", "chequeado", "asigna", "marca", "acepta"}
    /\ pidCPU \in Procesos \cup {Nadie}
    /\ nuevo \in Nat /\ cuantas \in Nat /\ hechas \in Nat
    /\ pasoK \in {"lee", "carga", "libera"}
    /\ pidK \in Procesos \cup {Nadie}
    /\ hechasK \in Nat
    /\ cerrada \in BOOLEAN /\ caida \in BOOLEAN

\* TypeOK in the three parts that the threads change apart, ...
LEMMA Partes == TypeOK <=> TiposEntorno /\ TiposSockets /\ TiposMemoria
BY Zenon DEF TypeOK, TiposEntorno, TiposSockets, TiposMemoria

\* ... also after a step.
LEMMA PartesDespues == TiposEntorno' /\ TiposSockets' /\ TiposMemoria' => TypeOK'
BY Partes, PTL

\* Who leaves a part alone keeps its types.
LEMMA Ajenos ==
    ASSUME TypeOK
    PROVE  /\ UNCHANGED entorno => TiposEntorno'
           /\ UNCHANGED <<socketIO, aMem, deMem, aMemK, deMemK>> => TiposSockets'
           /\ UNCHANGED memoria => TiposMemoria'
<1>1. UNCHANGED entorno => TiposEntorno'
  BY DEF TypeOK, TiposEntorno
<1>2. UNCHANGED <<socketIO, aMem, deMem, aMemK, deMemK>> => TiposSockets'
  BY DEF TypeOK, TiposSockets
<1>3. UNCHANGED memoria => TiposMemoria'
  BY DEF TypeOK, TiposMemoria
<1> QED BY <1>1, <1>2, <1>3

\* Only what the kernel has ended is destroyed, and who uses a device is blocked
\* until the kernel ends it.
Fines ==
    /\ pasoK = "libera" => pidK \in Procesos /\ estado[pidK] = "fin"
    /\ pasoK = "carga" => pidK \in lista
    /\ \A i \in 1 .. Len(aMemK) :
         aMemK[i].op = "FINALIZAR_PROCESO" => estado[aMemK[i].pid] = "fin"
    /\ pasoIO # "libre" =>
         /\ pedidoIO \in [op : AccesosIO, pid : Procesos, arg : TodosLosMarcos]
         /\ estado[pedidoIO.pid] \in {"bloqueado", "fin"}

Inv1 == TypeOK /\ Turno /\ Fines

\* Reading a request that is to be answered leaves the socket empty.
LEMMA LeerConsulta ==
    ASSUME Inv1, NEW op \in Consultas, Leer(op)
    PROVE  /\ aMem' = <<>> /\ deMem = <<>> /\ pasoCPU = "lee" /\ espera
           /\ ejecuta \in Procesos /\ estado[ejecuta] = "listo"
           /\ Pedido.pid = ejecuta /\ Pedido.arg \in Nat /\ Pedido.op = op
<1>1. aMem \in Seq(Pedidos) /\ aMem # <<>> /\ Pedido.op = op /\ aMem' = Tail(aMem)
  BY DEF Inv1, TypeOK, Leer
<1>2. Pedido \in Pedidos /\ Pedido = aMem[1] /\ Len(aMem) \in Nat \ {0}
  BY <1>1, Sockets DEF Pedido
<1>3. op # Escritura
  BY DEF Consultas, Lectura, Escritura
<1>4. Len(aMem) = 1 /\ espera /\ Pedido.pid = ejecuta /\ pasoCPU = "lee" /\ deMem = <<>>
  <2>1. 1 \in 1 .. Len(aMem) /\ aMem[1].op # Escritura
    BY <1>1, <1>2, <1>3
  <2> HIDE <1>1
  <2> QED BY <1>2, <2>1 DEF Inv1, Turno
<1>5. Tail(aMem) = <<>>
  BY <1>1, <1>4
<1> QED BY <1>1, <1>2, <1>4, <1>5, ConstantesOK DEF Inv1, TypeOK, Turno, Pedidos

\* A request served at once, with an answer or without it.
LEMMA ServirInv ==
    ASSUME Inv1, NEW op \in Consultas, Leer(op),
           UNCHANGED <<hiloCPU, procesos, mapa>>,
           \/ UNCHANGED deMem
           \/ \E r \in Respuestas : deMem' = Append(deMem, r),
           caida' \in BOOLEAN, cerrada' \in BOOLEAN
    PROVE  Inv1'
<1>1. /\ aMem' = <<>> /\ deMem = <<>> /\ pasoCPU = "lee" /\ espera /\ ejecuta \in Procesos
      /\ estado[ejecuta] = "listo"
  BY LeerConsulta
<1>2. deMem' \in Seq(Respuestas) /\ Len(deMem') <= 1
  <2>1. CASE UNCHANGED deMem
    BY <1>1, <2>1
  <2>2. ASSUME NEW r \in Respuestas, deMem' = Append(deMem, r)
        PROVE  deMem' \in Seq(Respuestas) /\ Len(deMem') <= 1
    BY <1>1, <2>2
  <2> QED BY <2>1, <2>2
<1>3. TypeOK'
  BY <1>1, <1>2, SMTT(30) DEF Inv1, TypeOK, Leer
<1>4. Turno'
  BY <1>1, <1>2 DEF Inv1, TypeOK, Turno, Leer
<1>5. Fines'
  BY DEF Inv1, Fines, Leer
<1> QED BY <1>3, <1>4, <1>5 DEF Inv1

\* A RESIZE that begins.
LEMMA PrepararInv ==
    ASSUME Inv1, Leer("ENVIO_RESIZE"), NEW n \in Nat, Preparar(n),
           pasoCPU' \in {"chequeado", "marca"}
    PROVE  Inv1'
<1>1. /\ aMem' = <<>> /\ deMem = <<>> /\ pasoCPU = "lee" /\ espera /\ ejecuta \in Procesos
      /\ estado[ejecuta] = "listo" /\ Pedido.pid = ejecuta /\ Pedido.arg \in Nat
  BY LeerConsulta DEF Consultas
<1>2. TypeOK'
  BY <1>1, SMTT(30) DEF Inv1, TypeOK, Leer, Preparar, Resize
<1>3. Turno'
  <2>1. /\ pidCPU' = ejecuta /\ deMem' = <<>> /\ espera' = espera /\ ejecuta' = ejecuta
        /\ estado' = estado /\ Len(aMem') = 0
    BY <1>1 DEF Leer, Preparar
  <2> QED BY <1>1, <2>1 DEF Turno, Inv1
<1>4. Fines'
  BY DEF Inv1, Fines, Leer, Preparar
<1> QED BY <1>2, <1>3, <1>4 DEF Inv1

\* A RESIZE that goes on.
LEMMA SeguirInv ==
    ASSUME Inv1, NEW a, NEW b \in {"asigna", "marca", "acepta"}, EnPaso(a, b), a # "lee",
           UNCHANGED <<pidCPU, nuevo, cuantas, deMem>>,
           hechas' \in Nat, mapa' \subseteq TodosLosMarcos,
           tamanio' \in [Procesos -> Nat], tabla' \in [Procesos -> Seq(TodosLosMarcos)]
    PROVE  Inv1'
<1>1. TypeOK'
  <2>1. TypeOK /\ pasoCPU' = b /\ b \in {"lee", "chequeado", "asigna", "marca", "acepta"}
    BY DEF Inv1, EnPaso
  <2>2. UNCHANGED <<entorno, socketIO, aMem, aMemK, deMemK, hiloKernel, lista,
                    cargados, cerrada, caida>>
    BY DEF EnPaso
  <2>3. UNCHANGED <<pidCPU, nuevo, cuantas, deMem>>
    OBVIOUS
  <2>4. TiposEntorno' /\ TiposSockets'
    BY <2>1, <2>2, <2>3, Ajenos
  <2>5. TiposMemoria'
    BY <2>1, <2>2, <2>3 DEF TypeOK, TiposMemoria
  <2> QED BY <2>4, <2>5, PartesDespues
<1>2. Turno'
  BY DEF Inv1, Turno, EnPaso
<1>3. Fines'
  BY DEF Inv1, Fines, EnPaso
<1> QED BY <1>1, <1>2, <1>3 DEF Inv1

\* The RESIZE that is under way is of the process in the CPU.
LEMMA EnCurso ==
    ASSUME Inv1, pasoCPU # "lee"
    PROVE  /\ pidCPU = ejecuta /\ ejecuta \in Procesos /\ estado[ejecuta] = "listo"
           /\ espera /\ aMem = <<>> /\ deMem = <<>>
           /\ tabla[pidCPU] \in Seq(TodosLosMarcos) /\ Len(tabla[pidCPU]) \in Nat
BY DEF Inv1, TypeOK, Turno

\* hilo_cpu keeps the types, the turns of its socket and who is being destroyed, ...
LEMMA CPUInv1 == ASSUME Inv1, HiloCPU PROVE Inv1'
<1>1. CASE MandarInstruccion
  <2>1. \A p : [op |-> "ENVIO_DE_INSTRUCCIONES", marco |-> 0] \in Respuestas
    BY ConstantesOK DEF Respuestas, Consultas, TodosLosMarcos
  <2> QED BY <1>1, <2>1, ServirInv DEF MandarInstruccion, Responder, Consultas, Inv1, TypeOK
<1>2. CASE AccederTabla
  <2>1. Pedido.pid = ejecuta /\ ejecuta \in Procesos /\ Pedido.arg \in Nat
    BY <1>2, LeerConsulta DEF AccederTabla, Consultas
  <2>2. tabla[ejecuta] \in Seq(TodosLosMarcos)
    BY <2>1 DEF Inv1, TypeOK
  <2>3. Pedido.arg < Len(tabla[ejecuta]) => tabla[ejecuta][Pedido.arg + 1] \in TodosLosMarcos
    BY <2>1, <2>2
  <2>4. ASSUME Pedido.arg < Len(tabla[ejecuta])
        PROVE  [op |-> "ACCESO_TABLAS_PAGINAS", marco |-> tabla[ejecuta][Pedido.arg + 1]]
                 \in Respuestas
    BY <2>3, <2>4 DEF Respuestas, Consultas
  <2> QED BY <1>2, <2>1, <2>4, ServirInv DEF AccederTabla, Responder, Consultas, Inv1, TypeOK
<1>3. CASE Escribir
  <2>1. aMem \in Seq(Pedidos) /\ aMem # <<>> /\ aMem' = Tail(aMem) /\ pasoCPU = "lee"
    BY <1>3 DEF Escribir, Leer, Inv1, TypeOK
  <2>2. /\ aMem' \in Seq(Pedidos) /\ Len(aMem) \in Nat /\ Len(aMem') = Len(aMem) - 1
        /\ \A i \in 1 .. Len(aMem') : i + 1 \in 1 .. Len(aMem) /\ aMem'[i] = aMem[i + 1]
        /\ deMem = <<>>
    BY <2>1, Sockets DEF Inv1, Turno
  <2>3. TypeOK'
    BY <1>3, <2>2, SMTT(30) DEF Inv1, TypeOK, Escribir, Leer
  <2>4. Turno'
    <3>1. /\ UNCHANGED <<estado, ejecuta, espera, pasoCPU, pidCPU, deMem>>
          /\ aMem' # <<>> => aMem # <<>>
      BY <1>3, <2>1 DEF Escribir, Leer
    <3>2. ASSUME NEW i \in 1 .. Len(aMem'), aMem'[i].op # Escritura
          PROVE  /\ i = Len(aMem') /\ espera' /\ aMem'[i].pid = ejecuta'
                 /\ pasoCPU' = "lee" /\ deMem' = <<>>
      <4>1. i + 1 \in 1 .. Len(aMem) /\ aMem[i + 1] = aMem'[i]
        BY <2>2
      <4>2. i + 1 = Len(aMem) /\ espera /\ aMem[i + 1].pid = ejecuta
        BY <3>2, <4>1 DEF Inv1, Turno
      <4>3. i = Len(aMem')
        BY <2>2, <4>2
      <4>4. aMem'[i].pid = ejecuta' /\ espera' /\ pasoCPU' = "lee"
        BY <2>1, <3>1, <4>1, <4>2
      <4>5. deMem' = <<>>
        BY <2>2, <3>1
      <4> QED BY <4>3, <4>4, <4>5
    <3>3. ~ espera => Len(aMem') <= 1
      BY <2>2 DEF Inv1, Turno
    <3> QED BY <2>1, <2>2, <3>1, <3>2, <3>3 DEF Inv1, Turno
  <2>5. Fines'
    BY <1>3 DEF Inv1, Fines, Escribir, Leer
  <2> QED BY <2>3, <2>4, <2>5 DEF Inv1
<1>4. CASE LeerMemoria
  <2>1. [op |-> Lectura, marco |-> 0] \in Respuestas
    BY ConstantesOK DEF Respuestas, Consultas, TodosLosMarcos
  <2> QED BY <1>4, <2>1, ServirInv DEF LeerMemoria, Responder, Consultas, Inv1, TypeOK
<1>5. CASE ResizeIgual
  BY <1>5, ServirInv DEF ResizeIgual, Consultas, Inv1, TypeOK
<1>6. [op |-> "OUT_OF_MEMORY", marco |-> 0] \in Respuestas
  BY ConstantesOK DEF Respuestas, TodosLosMarcos
<1>7. CASE ResizeExcesivo
  BY <1>7, <1>6, ServirInv DEF ResizeExcesivo, Responder, Consultas, Inv1, TypeOK
<1>8. CASE ResizeSinLugar
  BY <1>8, <1>6, ServirInv DEF ResizeSinLugar, Responder, Consultas, Inv1, TypeOK
<1>9. CASE ResizeAmpliar
  <2>1. /\ Pedido.pid = ejecuta /\ ejecuta \in Procesos /\ Resize \in Nat
        /\ tamanio[Pedido.pid] \in Nat
    BY <1>9, LeerConsulta DEF ResizeAmpliar, Consultas, Resize, Inv1, TypeOK
  <2>2. AAgregar \in Nat
    BY <1>9, <2>1, PaginasCrece DEF AAgregar, ResizeAmpliar
  <2> QED BY <1>9, <2>2, PrepararInv DEF ResizeAmpliar
<1>10. CASE ResizeReducir
  <2>1. /\ Pedido.pid = ejecuta /\ ejecuta \in Procesos /\ Resize \in Nat
        /\ tamanio[Pedido.pid] \in Nat
    BY <1>10, LeerConsulta DEF ResizeReducir, Consultas, Resize, Inv1, TypeOK
  <2>2. - AAgregar \in Nat
    BY <1>10, <2>1, PaginasCrece DEF AAgregar, ResizeReducir
  <2> QED BY <1>10, <2>2, PrepararInv DEF ResizeReducir
<1>11. CASE EmpezarAsignar
  <2>1. tamanio' \in [Procesos -> Nat]
    BY <1>11 DEF EmpezarAsignar, Inv1, TypeOK
  <2> QED BY <1>11, <2>1, SeguirInv DEF EmpezarAsignar, Inv1, TypeOK
<1>12. ASSUME NEW f \in TodosLosMarcos, AsignarMarco(f)
       PROVE  Inv1'
  <2> DEFINE b == IF hechas + 1 = cuantas THEN "acepta" ELSE "asigna"
  <2>1. pasoCPU = "asigna" /\ EnPaso("asigna", b) /\ b \in {"asigna", "acepta"}
    BY <1>12 DEF AsignarMarco, EnPaso
  <2>2. /\ tabla' = [tabla EXCEPT ![pidCPU] = Append(@, f)]
        /\ tabla \in [Procesos -> Seq(TodosLosMarcos)]
    BY <1>12 DEF AsignarMarco, Inv1, TypeOK
  <2>3. tabla' \in [Procesos -> Seq(TodosLosMarcos)]
    BY <2>1, <2>2, EnCurso, Sockets
  <2>4. /\ UNCHANGED <<pidCPU, nuevo, cuantas, deMem>>
        /\ hechas' \in Nat /\ mapa' \subseteq TodosLosMarcos
        /\ tamanio' \in [Procesos -> Nat]
    BY <1>12 DEF AsignarMarco, Inv1, TypeOK
  <2>5. b \in {"asigna", "marca", "acepta"} /\ "asigna" # "lee"
    BY <2>1
  <2> HIDE DEF b
  <2> QED BY <2>1, <2>3, <2>4, <2>5, SeguirInv
<1>13. CASE SinMarcos
  <2>1. EnPaso("asigna", "acepta")
    BY <1>13 DEF SinMarcos
  <2>2. /\ UNCHANGED <<pidCPU, nuevo, cuantas, deMem>>
        /\ hechas' \in Nat /\ mapa' \subseteq TodosLosMarcos
        /\ tamanio' \in [Procesos -> Nat] /\ tabla' \in [Procesos -> Seq(TodosLosMarcos)]
    BY <1>13 DEF SinMarcos, Inv1, TypeOK
  <2> QED BY <2>1, <2>2, SeguirInv
<1>14. CASE MarcarLibre
  <2>1. EnPaso("marca", "marca")
    BY <1>14 DEF MarcarLibre
  <2>2. /\ UNCHANGED <<pidCPU, nuevo, cuantas, deMem>>
        /\ hechas' \in Nat /\ mapa' \subseteq TodosLosMarcos
        /\ tamanio' \in [Procesos -> Nat] /\ tabla' \in [Procesos -> Seq(TodosLosMarcos)]
    BY <1>14 DEF MarcarLibre, Inv1, TypeOK
  <2> QED BY <2>1, <2>2, SeguirInv
<1>15. CASE SacarEntradas
  <2>1. pasoCPU = "marca"
    BY <1>15 DEF SacarEntradas, EnPaso
  <2>2. SubSeq(tabla[pidCPU], 1, Len(tabla[pidCPU]) - cuantas) \in Seq(TodosLosMarcos)
    BY <2>1, EnCurso DEF Inv1, TypeOK
  <2>3. /\ tabla' \in [Procesos -> Seq(TodosLosMarcos)]
        /\ tamanio' \in [Procesos -> Nat]
    BY <1>15, <2>2 DEF SacarEntradas, Inv1, TypeOK
  <2> QED BY <1>15, <2>3, SeguirInv DEF SacarEntradas, Inv1, TypeOK
<1>16. CASE AceptarResize
  <2>1. pasoCPU = "acepta" /\ deMem' = Append(deMem, [op |-> "RESIZE_ACEPTADO", marco |-> 0])
    BY <1>16 DEF AceptarResize, EnPaso, Responder
  <2>2. [op |-> "RESIZE_ACEPTADO", marco |-> 0] \in Respuestas
    BY ConstantesOK DEF Respuestas, TodosLosMarcos
  <2>3. deMem' \in Seq(Respuestas) /\ Len(deMem') = 1
    BY <2>1, <2>2, EnCurso, Sockets
  <2>4. TypeOK'
    BY <1>16, <2>3, SMTT(30) DEF Inv1, TypeOK, AceptarResize, EnPaso
  <2>5. Turno'
    BY <1>16, <2>1, <2>3, EnCurso DEF Inv1, Turno, AceptarResize, EnPaso
  <2>6. Fines'
    BY <1>16 DEF Inv1, Fines, AceptarResize, EnPaso
  <2> QED BY <2>4, <2>5, <2>6 DEF Inv1
<1> QED BY <1>1, <1>2, <1>3, <1>4, <1>5, <1>7, <1>8, <1>9, <1>10, <1>11, <1>12, <1>13,
          <1>14, <1>15, <1>16 DEF HiloCPU

\* What hilo_kernel reads is the oldest of what the kernel has sent it.
Mensajes == [op : {"CREACION_PROCESO", "FINALIZAR_PROCESO"}, pid : Procesos]

\* Reading takes that message away and moves the rest one place.
LEMMA LeerMensaje ==
    ASSUME Inv1, NEW op, LeerKernel(op)
    PROVE  /\ aMemK # <<>> /\ Head(aMemK) = aMemK[1] /\ 1 \in 1 .. Len(aMemK)
           /\ pidK' = aMemK[1].pid /\ pidK' \in Procesos
           /\ aMemK[1].op = op /\ aMemK' \in Seq(Mensajes)
           /\ Len(aMemK) \in Nat /\ Len(aMemK') = Len(aMemK) - 1
           /\ \A i \in 1 .. Len(aMemK') : i + 1 \in 1 .. Len(aMemK) /\ aMemK'[i] = aMemK[i + 1]
<1>1. aMemK \in Seq(Mensajes) /\ aMemK # <<>> /\ aMemK' = Tail(aMemK)
      /\ pidK' = Head(aMemK).pid /\ Head(aMemK).op = op
  BY DEF LeerKernel, Inv1, TypeOK, Mensajes
<1>2. Head(aMemK) \in Mensajes => Head(aMemK).pid \in Procesos
  BY DEF Mensajes
<1> QED BY <1>1, <1>2, Sockets

\* A message more.
LEMMA MandarMensaje ==
    ASSUME Inv1, NEW m \in Mensajes, aMemK' = Append(aMemK, m)
    PROVE  /\ aMemK' \in Seq(Mensajes) /\ Len(aMemK) \in Nat /\ Len(aMemK') = Len(aMemK) + 1
           /\ aMemK'[Len(aMemK) + 1] = m
           /\ \A i \in 1 .. Len(aMemK) : aMemK'[i] = aMemK[i] /\ aMemK[i] \in Mensajes
<1>1. aMemK \in Seq(Mensajes)
  BY DEF Inv1, TypeOK, Mensajes
<1> QED BY <1>1, Sockets

\* ... hilo_kernel too, ...
LEMMA KernelInv1 == ASSUME Inv1, HiloKernel PROVE Inv1'
<1>2. CASE CrearProceso
  <2>1. LeerKernel("CREACION_PROCESO")
    BY <1>2 DEF CrearProceso
  <2>2. TypeOK'
    <3>1. /\ aMemK' \in Seq(Mensajes) /\ pidK' \in Procesos
          /\ lista' = lista \cup {pidK'} /\ pasoK' = "carga"
      BY <1>2, <2>1, LeerMensaje DEF CrearProceso, KernelEnPaso
    <3>2. UNCHANGED <<entorno, socketIO, aMem, deMem, hiloCPU, tamanio, cerrada, cargados,
                      tabla, mapa, deMemK, hechasK, caida>>
      BY <1>2, <2>1 DEF CrearProceso, KernelEnPaso, LeerKernel
    <3>3. TiposEntorno'
      BY <3>2, Ajenos DEF Inv1
    <3>4. TiposSockets'
      BY <3>1, <3>2 DEF Inv1, TypeOK, TiposSockets, Mensajes
    <3>5. TiposMemoria'
      BY <3>1, <3>2 DEF Inv1, TypeOK, TiposMemoria
    <3> QED BY <3>3, <3>4, <3>5, PartesDespues
  <2>3. Turno'
    BY <1>2 DEF CrearProceso, KernelEnPaso, Inv1, Turno
  <2>4. Fines'
    BY <1>2, <2>1, LeerMensaje DEF CrearProceso, KernelEnPaso, Inv1, Fines
  <2> QED BY <2>2, <2>3, <2>4 DEF Inv1
<1>3. CASE CargarInstrucciones
  <2>1. deMemK' \in Seq({"PAQUETE"})
    BY <1>3, Sockets DEF CargarInstrucciones, Inv1, TypeOK
  <2>2. TypeOK'
    BY <1>3, <2>1, SMTT(30) DEF CargarInstrucciones, KernelEnPaso, Inv1, TypeOK, Fines
  <2>3. Turno'
    BY <1>3 DEF CargarInstrucciones, KernelEnPaso, Inv1, Turno
  <2>4. Fines'
    BY <1>3 DEF CargarInstrucciones, KernelEnPaso, Inv1, Fines
  <2> QED BY <2>2, <2>3, <2>4 DEF Inv1
<1>4. CASE EmpezarFin
  <2>1. LeerKernel("FINALIZAR_PROCESO")
    BY <1>4 DEF EmpezarFin
  <2>2. TypeOK'
    <3>1. /\ aMemK' \in Seq(Mensajes) /\ pidK' \in Procesos /\ pasoK' = "libera"
          /\ hechasK' = 0 /\ caida' = (pidK' \notin lista)
      BY <1>4, <2>1, LeerMensaje DEF EmpezarFin, KernelEnPaso
    <3>2. UNCHANGED <<entorno, socketIO, aMem, deMem, hiloCPU, tamanio, cerrada, cargados,
                      tabla, mapa, deMemK, lista>>
      BY <1>4, <2>1 DEF EmpezarFin, KernelEnPaso, LeerKernel
    <3>3. TiposEntorno'
      BY <3>2, Ajenos DEF Inv1
    <3>4. TiposSockets'
      BY <3>1, <3>2 DEF Inv1, TypeOK, TiposSockets, Mensajes
    <3>5. TiposMemoria'
      BY <3>1, <3>2 DEF Inv1, TypeOK, TiposMemoria
    <3> QED BY <3>3, <3>4, <3>5, PartesDespues
  <2>3. Turno'
    BY <1>4 DEF EmpezarFin, KernelEnPaso, Inv1, Turno
  <2>4. estado[pidK'] = "fin"
    BY <2>1, LeerMensaje DEF Inv1, Fines
  <2>5. Fines'
    BY <1>4, <2>1, LeerMensaje, <2>4 DEF EmpezarFin, KernelEnPaso, Inv1, Fines
  <2> QED BY <2>2, <2>3, <2>5 DEF Inv1
<1>5. CASE LiberarMarco
  <2>1. TypeOK'
    BY <1>5, SMTT(30) DEF LiberarMarco, KernelEnPaso, Inv1, TypeOK
  <2>2. Turno'
    BY <1>5 DEF LiberarMarco, KernelEnPaso, Inv1, Turno
  <2>3. Fines'
    BY <1>5 DEF LiberarMarco, KernelEnPaso, Inv1, Fines
  <2> QED BY <2>1, <2>2, <2>3 DEF Inv1
<1>6. CASE EliminarProceso
  <2>0. /\ lista' \subseteq Procesos /\ cargados' \subseteq lista'
        /\ tabla' \in [Procesos -> Seq(TodosLosMarcos)] /\ <<>> \in Seq(TodosLosMarcos)
    <3>1. /\ lista' = lista \ {pidK} /\ cargados' = cargados \ {pidK}
          /\ tabla' = [tabla EXCEPT ![pidK] = <<>>] /\ <<>> \in Seq(TodosLosMarcos)
      BY <1>6 DEF EliminarProceso
    <3>2. /\ lista \subseteq Procesos /\ cargados \subseteq lista
          /\ tabla \in [Procesos -> Seq(TodosLosMarcos)]
      BY DEF Inv1, TypeOK
    <3>3. lista' \subseteq Procesos /\ cargados' \subseteq lista'
      BY <3>1, <3>2
    <3>4. tabla' \in [Procesos -> Seq(TodosLosMarcos)]
      BY <3>1, <3>2
    <3> QED BY <3>1, <3>3, <3>4
  <2>1. TypeOK'
    BY <1>6, <2>0, SMTT(30) DEF EliminarProceso, KernelEnPaso, Inv1, TypeOK
  <2>2. Turno'
    BY <1>6 DEF EliminarProceso, KernelEnPaso, Inv1, Turno
  <2>3. Fines'
    BY <1>6 DEF EliminarProceso, KernelEnPaso, Inv1, Fines
  <2> QED BY <2>1, <2>2, <2>3 DEF Inv1
<1> QED BY <1>2, <1>3, <1>4, <1>5, <1>6 DEF HiloKernel

\* ... the thread of the device, ...
LEMMA IOInv1 == ASSUME Inv1, HiloIO PROVE Inv1'
<1>1. /\ aMemIO' \in Seq(Pedidos) /\ Len(aMemIO') <= MaxIO
      /\ deMemIO' \in Seq({Lectura})
  <2>1. aMemIO' \in Seq(Pedidos) /\ Len(aMemIO') <= MaxIO
    BY Sockets, ConstantesOK DEF HiloIO, Inv1, TypeOK
  <2>2. deMemIO' \in Seq({Lectura})
    BY Sockets DEF HiloIO, Inv1, TypeOK
  <2> QED BY <2>1, <2>2
<1>2. TypeOK'
  BY <1>1, SMTT(30) DEF HiloIO, Inv1, TypeOK
<1>3. Turno'
  BY DEF HiloIO, Inv1, Turno
<1>4. Fines'
  BY DEF HiloIO, Inv1, Fines
<1> QED BY <1>2, <1>3, <1>4 DEF Inv1

\* The CPU reads its answer: there was one, and no request behind it.
LEMMA Contestada ==
    ASSUME Inv1, deMem # <<>>
    PROVE  /\ Tail(deMem) = <<>> /\ Head(deMem) \in Respuestas /\ Head(deMem) = deMem[1]
           /\ aMem = <<>> /\ pasoCPU = "lee" /\ espera
           /\ ejecuta \in Procesos /\ estado[ejecuta] = "listo"
<1>1. deMem \in Seq(Respuestas) /\ Len(deMem) = 1
  BY DEF Inv1, TypeOK, Turno
<1>4. Tail(deMem) = <<>>
  BY <1>1, UnSolo
<1>5. deMem # <<>> => Head(deMem) \in Respuestas /\ Head(deMem) = deMem[1]
  BY <1>1, Sockets
<1>2. Tail(deMem) = <<>> /\ Head(deMem) \in Respuestas /\ Head(deMem) = deMem[1]
  BY <1>4, <1>5
<1>3. aMem = <<>> /\ pasoCPU = "lee" /\ espera /\ ejecuta # Nadie /\ estado[ejecuta] = "listo"
  BY DEF Inv1, Turno
<1> QED BY <1>2, <1>3 DEF Inv1, TypeOK

\* The messages of the kernel name processes.
LEMMA MensajesKernel ==
    ASSUME Inv1, NEW i \in 1 .. Len(aMemK)
    PROVE  /\ aMemK[i].pid \in Procesos
           /\ aMemK[i].op = "FINALIZAR_PROCESO" => estado[aMemK[i].pid] = "fin"
<1>1. aMemK \in Seq(Mensajes)
  BY DEF Inv1, TypeOK, Mensajes
<1>2. \A m \in Mensajes : m.pid \in Procesos
  BY DEF Mensajes
<1>3. aMemK[i] \in Mensajes
  BY <1>1
<1> QED BY <1>2, <1>3 DEF Inv1, Fines

\* What does not touch the memory, nor what the kernel has asked of it.
LEMMA CambiaEstado ==
    ASSUME Inv1, NEW p \in Procesos, NEW e \in {"creando", "listo", "bloqueado", "fin"},
           estado' = [estado EXCEPT ![p] = e]
    PROVE  /\ estado' \in [Procesos -> {"nada", "creando", "listo", "bloqueado", "fin"}]
           /\ estado'[p] = e /\ \A q \in Procesos : q # p => estado'[q] = estado[q]
BY DEF Inv1, TypeOK

\* ... and whoever asks.
LEMMA EntornoInv1 == ASSUME Inv1, Entorno PROVE Inv1'
<1>1. ASSUME NEW p \in Procesos, IniciarProceso(p)
      PROVE  Inv1'
  <2> DEFINE m == [op |-> "CREACION_PROCESO", pid |-> p]
  <2>1. m \in Mensajes /\ m.op = "CREACION_PROCESO" /\ aMemK' = Append(aMemK, m)
    BY <1>1 DEF IniciarProceso, Mensajes
  <2>2. /\ estado \in [Procesos -> {"nada", "creando", "listo", "bloqueado", "fin"}]
        /\ estado' = [estado EXCEPT ![p] = "creando"] /\ estado[p] = "nada"
    BY <1>1 DEF IniciarProceso, Inv1, TypeOK
  <2> HIDE DEF m
  <2>9. UNCHANGED <<ejecuta, espera, pasoIO, pedidoIO, aMemIO, deMemIO, aMem, deMem,
                    deMemK, lista, cargados, tamanio, tabla, mapa, pasoCPU, pidCPU,
                    nuevo, cuantas, hechas, pasoK, pidK, hechasK, cerrada, caida>>
    BY <1>1 DEF IniciarProceso
  <2>10. estado' \in [Procesos -> {"nada", "creando", "listo", "bloqueado", "fin"}]
    BY <2>2
  <2>11. aMemK' \in Seq(Mensajes)
    BY <2>1, MandarMensaje
  <2>3. TypeOK'
    <3>1. TiposEntorno'
      BY <2>9, <2>10 DEF Inv1, TypeOK, TiposEntorno
    <3>2. TiposSockets'
      BY <2>9, <2>11 DEF Inv1, TypeOK, TiposSockets, Mensajes
    <3>3. TiposMemoria'
      BY <2>9, Ajenos DEF Inv1
    <3> QED BY <3>1, <3>2, <3>3, PartesDespues
  <2>4. Turno'
    BY <1>1, <2>2 DEF IniciarProceso, Inv1, TypeOK, Turno
  <2>5. ASSUME NEW i \in 1 .. Len(aMemK'), aMemK'[i].op = "FINALIZAR_PROCESO"
        PROVE  estado'[aMemK'[i].pid] = "fin"
    BY <2>1, <2>2, <2>5, MandarMensaje DEF Inv1, Fines, Mensajes
  <2>6. Fines'
    BY <1>1, <2>2, <2>5 DEF IniciarProceso, Inv1, TypeOK, Fines
  <2> QED BY <2>3, <2>4, <2>6 DEF Inv1
<1>2. ASSUME NEW p \in Procesos, ProcesoCreado(p)
      PROVE  Inv1'
  <2>1. deMemK' \in Seq({"PAQUETE"})
    BY <1>2, Sockets DEF ProcesoCreado, Inv1, TypeOK
  <2>9. UNCHANGED <<ejecuta, espera, pasoIO, pedidoIO, aMemIO, deMemIO, aMem, deMem,
                    aMemK, lista, cargados, tamanio, tabla, mapa, pasoCPU, pidCPU,
                    nuevo, cuantas, hechas, pasoK, pidK, hechasK, cerrada, caida>>
        /\ estado[p] = "creando" /\ estado' = [estado EXCEPT ![p] = "listo"]
    BY <1>2 DEF ProcesoCreado
  <2>10. /\ estado' \in [Procesos -> {"nada", "creando", "listo", "bloqueado", "fin"}]
         /\ estado'[p] = "listo" /\ \A q \in Procesos : q # p => estado'[q] = estado[q]
    BY <2>9, CambiaEstado
  <2>2. TypeOK'
    <3>1. TiposEntorno'
      BY <2>9, <2>10 DEF Inv1, TypeOK, TiposEntorno
    <3>2. TiposSockets'
      BY <2>1, <2>9 DEF Inv1, TypeOK, TiposSockets
    <3>3. TiposMemoria'
      BY <2>9, Ajenos DEF Inv1
    <3> QED BY <3>1, <3>2, <3>3, PartesDespues
  <2>3. Turno'
    BY <1>2 DEF ProcesoCreado, Inv1, TypeOK, Turno
  <2>4. Fines'
    <3>1. \A i \in 1 .. Len(aMemK') :
            aMemK'[i].op = "FINALIZAR_PROCESO" => estado'[aMemK'[i].pid] = "fin"
      BY <2>9, <2>10, MensajesKernel
    <3>2. /\ pasoK = "libera" => estado'[pidK] = "fin"
          /\ pasoIO # "libre" => estado'[pedidoIO.pid] \in {"bloqueado", "fin"}
      BY <2>9, <2>10 DEF Inv1, Fines
    <3> QED BY <2>9, <3>1, <3>2 DEF Inv1, Fines
  <2> QED BY <2>2, <2>3, <2>4 DEF Inv1
<1>3. ASSUME NEW p \in Procesos, FinalizarProceso(p)
      PROVE  Inv1'
  <2> DEFINE m == [op |-> "FINALIZAR_PROCESO", pid |-> p]
  <2>1. m \in Mensajes /\ m.pid = p /\ aMemK' = Append(aMemK, m)
    BY <1>3 DEF FinalizarProceso, Mensajes
  <2>2. /\ estado \in [Procesos -> {"nada", "creando", "listo", "bloqueado", "fin"}]
        /\ estado' = [estado EXCEPT ![p] = "fin"] /\ estado[p] \in {"listo", "bloqueado"}
        /\ ejecuta # p
    BY <1>3 DEF FinalizarProceso, Inv1, TypeOK
  <2> HIDE DEF m
  <2>9. UNCHANGED <<ejecuta, espera, pasoIO, pedidoIO, aMemIO, deMemIO, aMem, deMem,
                    deMemK, lista, cargados, tamanio, tabla, mapa, pasoCPU, pidCPU,
                    nuevo, cuantas, hechas, pasoK, pidK, hechasK, cerrada, caida>>
    BY <1>3 DEF FinalizarProceso
  <2>10. estado' \in [Procesos -> {"nada", "creando", "listo", "bloqueado", "fin"}]
    BY <2>2
  <2>11. aMemK' \in Seq(Mensajes)
    BY <2>1, MandarMensaje
  <2>3. TypeOK'
    <3>1. TiposEntorno'
      BY <2>9, <2>10 DEF Inv1, TypeOK, TiposEntorno
    <3>2. TiposSockets'
      BY <2>9, <2>11 DEF Inv1, TypeOK, TiposSockets, Mensajes
    <3>3. TiposMemoria'
      BY <2>9, Ajenos DEF Inv1
    <3> QED BY <3>1, <3>2, <3>3, PartesDespues
  <2>4. Turno'
    BY <1>3, <2>2 DEF FinalizarProceso, Inv1, TypeOK, Turno
  <2>5. ASSUME NEW i \in 1 .. Len(aMemK'), aMemK'[i].op = "FINALIZAR_PROCESO"
        PROVE  estado'[aMemK'[i].pid] = "fin"
    BY <2>1, <2>2, <2>5, MandarMensaje DEF Inv1, Fines, Mensajes
  <2>6. Fines'
    BY <1>3, <2>2, <2>5 DEF FinalizarProceso, Inv1, TypeOK, Fines
  <2> QED BY <2>3, <2>4, <2>6 DEF Inv1
<1>4. ASSUME NEW p \in Procesos, EntrarCPU(p)
      PROVE  Inv1'
  <2>1. TypeOK'
    BY <1>4, SMTT(30) DEF EntrarCPU, Inv1, TypeOK
  <2>2. Turno'
    BY <1>4, ConstantesOK DEF EntrarCPU, Inv1, Turno
  <2>3. Fines'
    BY <1>4 DEF EntrarCPU, Inv1, Fines
  <2> QED BY <2>1, <2>2, <2>3 DEF Inv1
<1>5. CASE DejarCPU
  <2>1. TypeOK'
    BY <1>5, SMTT(30) DEF DejarCPU, Inv1, TypeOK
  <2>2. Turno'
    BY <1>5 DEF DejarCPU, Inv1, Turno
  <2>3. Fines'
    BY <1>5 DEF DejarCPU, Inv1, Fines
  <2> QED BY <2>1, <2>2, <2>3 DEF Inv1
<1>6. CASE RecibirRespuesta
  <2>1. deMem' \in Seq(Respuestas) /\ deMem' = <<>> /\ aMem' = <<>> /\ pasoCPU = "lee"
    BY <1>6, Contestada, Sockets DEF RecibirRespuesta
  <2>2. TypeOK'
    <3>1. TiposEntorno'
      BY <1>6 DEF RecibirRespuesta, Inv1, TypeOK, TiposEntorno
    <3>2. TiposSockets'
      BY <1>6, <2>1 DEF RecibirRespuesta, Inv1, TypeOK, TiposSockets
    <3>3. TiposMemoria'
      BY <1>6, Ajenos DEF RecibirRespuesta, Inv1
    <3> QED BY <3>1, <3>2, <3>3, PartesDespues
  <2>3. Turno'
    BY <1>6, <2>1 DEF RecibirRespuesta, Inv1, Turno
  <2>4. Fines'
    BY <1>6 DEF RecibirRespuesta, Inv1, Fines
  <2> QED BY <2>2, <2>3, <2>4 DEF Inv1
<1>7. ASSUME NEW op \in {Lectura, Escritura}, Acceder(op)
      PROVE  Inv1'
  <2>1. /\ deMem' \in Seq(Respuestas) /\ deMem' = <<>> /\ aMem = <<>> /\ pasoCPU = "lee"
        /\ Head(deMem) \in Respuestas /\ ejecuta \in Procesos
    BY <1>7, Contestada, Sockets DEF Acceder
  <2> DEFINE m == [op |-> op, pid |-> ejecuta, arg |-> Head(deMem).marco]
  <2>2. m \in Pedidos /\ m.op = op /\ m.pid = ejecuta
    BY <2>1 DEF Pedidos, Consultas, Respuestas, TodosLosMarcos
  <2>3. aMem' = Append(aMem, m)
    BY <1>7 DEF Acceder
  <2> HIDE DEF m
  <2>4. aMem' = <<m>> /\ aMem' \in Seq(Pedidos) /\ Len(aMem') = 1 /\ aMem'[1] = m
    BY <2>1, <2>2, <2>3
  <2>5. TypeOK'
    BY <1>7, <2>1, <2>4, SMTT(30) DEF Acceder, Inv1, TypeOK
  <2>8. /\ op # Escritura => espera'
        /\ UNCHANGED <<estado, ejecuta, pasoCPU, pidCPU>> /\ ejecuta # Nadie
    BY <1>7, <2>1, ConstantesOK DEF Acceder
  <2>6. Turno'
    BY <2>1, <2>2, <2>4, <2>8 DEF Inv1, Turno
  <2>7. Fines'
    BY <1>7 DEF Acceder, Inv1, Fines
  <2> QED BY <2>5, <2>6, <2>7 DEF Inv1
<1>8. ASSUME NEW op \in AccesosIO, Bloquear(op)
      PROVE  Inv1'
  <2>1. /\ deMem' \in Seq(Respuestas) /\ deMem' = <<>> /\ aMem = <<>> /\ pasoCPU = "lee"
        /\ Head(deMem) \in Respuestas /\ ejecuta \in Procesos /\ estado[ejecuta] = "listo"
    BY <1>8, Contestada, Sockets DEF Bloquear
  <2>2. /\ pedidoIO' \in [op : AccesosIO, pid : Procesos, arg : TodosLosMarcos]
        /\ pedidoIO'.pid = ejecuta
    BY <1>8, <2>1 DEF Bloquear, Respuestas
  <2>3. /\ estado \in [Procesos -> {"nada", "creando", "listo", "bloqueado", "fin"}]
        /\ estado' = [estado EXCEPT ![ejecuta] = "bloqueado"]
    BY <1>8 DEF Bloquear, Inv1, TypeOK
  <2>4. TypeOK'
    <3>1. TiposEntorno'
      BY <1>8, <2>1, <2>2, <2>3 DEF Bloquear, Inv1, TypeOK, TiposEntorno
    <3>2. TiposSockets'
      BY <1>8, <2>1 DEF Bloquear, Inv1, TypeOK, TiposSockets
    <3>3. TiposMemoria'
      BY <1>8, Ajenos DEF Bloquear, Inv1
    <3> QED BY <3>1, <3>2, <3>3, PartesDespues
  <2>5. Turno'
    BY <1>8, <2>1 DEF Bloquear, Inv1, Turno
  <2>7. /\ UNCHANGED <<aMemK, pasoK, pidK, lista>> /\ pasoIO = "libre"
        /\ estado'[ejecuta] = "bloqueado"
        /\ \A q \in Procesos : q # ejecuta => estado'[q] = estado[q]
    BY <1>8, <2>1, <2>3, CambiaEstado DEF Bloquear
  <2>6. Fines'
    BY <2>1, <2>2, <2>7, MensajesKernel DEF Inv1, Fines
  <2> QED BY <2>4, <2>5, <2>6 DEF Inv1
<1>9. CASE AccederIO
  <2>1. pedidoIO \in Pedidos
    BY <1>9, ConstantesOK DEF AccederIO, Inv1, Fines, Pedidos, Consultas, TodosLosMarcos
  <2>2. aMemIO' \in Seq(Pedidos) /\ Len(aMemIO') <= MaxIO
    BY <1>9, <2>1, Sockets, ConstantesOK DEF AccederIO, Inv1, TypeOK
  <2>3. TypeOK'
    BY <1>9, <2>2, SMTT(30) DEF AccederIO, Inv1, TypeOK
  <2>4. Turno'
    BY <1>9 DEF AccederIO, Inv1, Turno
  <2>5. Fines'
    BY <1>9 DEF AccederIO, Inv1, Fines
  <2> QED BY <2>3, <2>4, <2>5 DEF Inv1
<1>10. CASE TerminarIO
  <2>1. pedidoIO.pid \in Procesos /\ estado[pedidoIO.pid] = "bloqueado"
    BY <1>10 DEF TerminarIO, Inv1, Fines
  <2>2. /\ estado \in [Procesos -> {"nada", "creando", "listo", "bloqueado", "fin"}]
        /\ estado' = [estado EXCEPT ![pedidoIO.pid] = "listo"]
    BY <1>10 DEF TerminarIO, Inv1, TypeOK
  <2>3. deMemIO' \in Seq({Lectura})
    BY <1>10, Sockets DEF TerminarIO, Inv1, TypeOK, Fines
  <2>4. TypeOK'
    <3>1. TiposEntorno'
      BY <1>10, <2>1, <2>2 DEF TerminarIO, Inv1, TypeOK, TiposEntorno
    <3>2. TiposSockets'
      BY <1>10, <2>3 DEF TerminarIO, Inv1, TypeOK, TiposSockets
    <3>3. TiposMemoria'
      BY <1>10, Ajenos DEF TerminarIO, Inv1
    <3> QED BY <3>1, <3>2, <3>3, PartesDespues
  <2>5. Turno'
    BY <1>10, <2>1, <2>2 DEF TerminarIO, Inv1, TypeOK, Turno
  <2>7. /\ UNCHANGED <<aMemK, pasoK, pidK, lista>> /\ pasoIO' = "libre"
        /\ \A q \in Procesos : q # pedidoIO.pid => estado'[q] = estado[q]
    BY <1>10, <2>1, <2>2, CambiaEstado DEF TerminarIO
  <2>6. Fines'
    BY <2>1, <2>7, MensajesKernel DEF Inv1, Fines
  <2> QED BY <2>4, <2>5, <2>6 DEF Inv1
<1>11. ASSUME NEW op \in Consultas, NEW arg \in Nat, Pedir(op, arg)
       PROVE  Inv1'
  <2> DEFINE m == [op |-> op, pid |-> ejecuta, arg |-> arg]
  <2>1. /\ aMem \in Seq(Pedidos) /\ Len(aMem) <= 1 /\ deMem = <<>> /\ pasoCPU = "lee"
        /\ ejecuta \in Procesos /\ ejecuta # Nadie /\ aMem' = Append(aMem, m)
    BY <1>11 DEF Pedir, Inv1, TypeOK, Turno
  <2>2. m \in Pedidos /\ m.pid = ejecuta
    BY <2>1 DEF Pedidos
  <2> HIDE DEF m
  <2>3. /\ aMem' \in Seq(Pedidos) /\ Len(aMem) \in Nat /\ Len(aMem') = Len(aMem) + 1
        /\ aMem'[Len(aMem) + 1] = m
        /\ \A i \in 1 .. Len(aMem) : aMem'[i] = aMem[i]
    BY <2>1, <2>2, Sockets
  <2>4. TypeOK'
    BY <1>11, <2>1, <2>3, SMTT(30) DEF Pedir, Inv1, TypeOK
  <2>5. UNCHANGED <<estado, ejecuta, pasoCPU, pidCPU, deMem>> /\ espera' /\ ~ espera
    BY <1>11 DEF Pedir
  <2>6. \A i \in 1 .. Len(aMem) : aMem[i].op = Escritura
    BY <2>5 DEF Inv1, Turno
  <2>7. Turno'
    BY <2>1, <2>2, <2>3, <2>5, <2>6 DEF Inv1, Turno
  <2>8. Fines'
    BY <1>11 DEF Pedir, Inv1, Fines
  <2> QED BY <2>4, <2>7, <2>8 DEF Inv1
<1>12. \A n \in 0 .. CantMarcos - 1 : n \in Nat
  BY ConstantesOK
<1> QED BY <1>1, <1>2, <1>3, <1>4, <1>5, <1>6, <1>7, <1>8, <1>9, <1>10, <1>11, <1>12,
          ConstantesOK DEF Entorno, Consultas

\* At the start nobody has asked for anything.
LEMMA Inicio1 == Init => Inv1
<1> SUFFICES ASSUME Init PROVE Inv1
  OBVIOUS
<1>0. /\ estado \in [Procesos -> {"nada", "creando", "listo", "bloqueado", "fin"}]
      /\ tamanio \in [Procesos -> Nat] /\ tabla \in [Procesos -> Seq(TodosLosMarcos)]
  BY DEF Init
<1>1. aMemIO \in Seq(Pedidos) /\ deMemIO \in Seq({Lectura}) /\ aMem \in Seq(Pedidos)
      /\ deMem \in Seq(Respuestas) /\ deMemK \in Seq({"PAQUETE"})
      /\ aMemK \in Seq([op : {"CREACION_PROCESO", "FINALIZAR_PROCESO"}, pid : Procesos])
      /\ Len(aMemIO) = 0 /\ Len(aMem) = 0
  BY DEF Init
<1>3. TypeOK
  <2>1. pedidoIO = SinPedido /\ mapa = {} /\ lista = {} /\ cargados = {}
        /\ ejecuta = Nadie /\ espera \in BOOLEAN /\ pasoIO = "libre"
        /\ pasoCPU = "lee" /\ pidCPU = Nadie /\ nuevo = 0 /\ cuantas = 0 /\ hechas = 0
        /\ pasoK = "lee" /\ pidK = Nadie /\ hechasK = 0
        /\ cerrada \in BOOLEAN /\ caida \in BOOLEAN
    BY DEF Init
  <2>2. 0 <= MaxIO
    BY ConstantesOK
  <2> QED BY <1>0, <1>1, <2>1, <2>2, SMTT(30) DEF TypeOK
<1>2. Turno /\ Fines
  BY <1>1 DEF Init, Turno, Fines
<1> QED BY <1>3, <1>2 DEF Inv1

\* Every step keeps them.
LEMMA Paso1 == Inv1 /\ [Next]_vars => Inv1'
<1>1. ASSUME Inv1, UNCHANGED vars PROVE Inv1'
  <2>1. TypeOK'
    BY <1>1, Ajenos, PartesDespues DEF vars, Inv1
  <2>2. Turno' /\ Fines'
    BY <1>1 DEF vars, Inv1, Turno, Fines
  <2> QED BY <2>1, <2>2 DEF Inv1
<1> QED BY <1>1, CPUInv1, KernelInv1, IOInv1, EntornoInv1 DEF Next

\* Every variable keeps its type: in particular the two threads only free and
\* assign frames that there are, for processes that there may be, and the CPU
\* never has more than a write and a request on their way.
THEOREM Tipos == Spec => []TypeOK
<1>1. Inv1 => TypeOK
  BY DEF Inv1
<1> QED BY Inicio1, Paso1, <1>1, PTL DEF Spec

-------------------------------------------------------------------------------
(* A RESIZE and the frames it counts *)

\* Outside a RESIZE of its own that grows, a process that has not ended has a
\* frame for every page.
Respaldo ==
    \A p \in Procesos :
      estado[p] # "fin" => \/ Paginas(tamanio[p]) <= Len(tabla[p])
                           \/ pasoCPU = "asigna" /\ pidCPU = p

\* What has been counted stays free, between the check and the mutex and while
\* the frames are being assigned.
Contado ==
    pasoCPU \in {"chequeado", "asigna"} =>
      /\ Paginas(nuevo) <= Len(tabla[pidCPU]) + cuantas - hechas
      /\ cuantas > 0 => hechas < cuantas /\ cuantas - hechas <= Cardinality(Libres)

Achica ==
    pasoCPU = "marca" =>
      /\ hechas <= cuantas /\ cuantas <= Len(tabla[pidCPU])
      /\ Paginas(nuevo) <= Len(tabla[pidCPU]) - cuantas

Paso2 ==
    /\ pasoCPU = "chequeado" => hechas = 0
    /\ pasoCPU = "asigna" => tamanio[pidCPU] = nuevo
    /\ pasoK = "libera" => hechasK <= Len(tabla[pidK])

Cuentas == Respaldo /\ Contado /\ Achica /\ Paso2

Inv2 == Inv1 /\ Cuentas

\* What is destroyed is never what is in the CPU.
LEMMA Distintos ==
    ASSUME Inv1, pasoCPU # "lee", pasoK = "libera"
    PROVE  pidCPU # pidK
BY EnCurso DEF Inv1, Fines

\* The frames are finite: taking one from a set leaves one less.
LEMMA MarcosFinitos ==
    /\ IsFiniteSet(TodosLosMarcos)
    /\ \A A \in SUBSET TodosLosMarcos :
         /\ IsFiniteSet(A) /\ Cardinality(A) \in Nat
         /\ A = {} => Cardinality(A) = 0
         /\ \A B \in SUBSET A : Cardinality(B) <= Cardinality(A)
         /\ \A f \in A : Cardinality(A \ {f}) = Cardinality(A) - 1
<1>1. IsFiniteSet(TodosLosMarcos)
  BY FS_Interval, ConstantesOK DEF TodosLosMarcos
<1> QED BY <1>1, FS_Subset, FS_EmptySet, FS_CardinalityType, FS_RemoveElement

\* Only the memory changes what these invariants are about, except that a process ends.
LEMMA CuentasIgual ==
    ASSUME Inv2, UNCHANGED <<tamanio, tabla, mapa, hiloCPU, hiloKernel>>,
           \A p \in Procesos : estado[p] = "fin" => estado'[p] = "fin"
    PROVE  Cuentas'
<1>1. Respaldo'
  BY DEF Inv2, Cuentas, Respaldo
<1>2. Contado' /\ Achica' /\ Paso2'
  BY DEF Inv2, Cuentas, Contado, Achica, Paso2, Libres
<1> QED BY <1>1, <1>2 DEF Cuentas

\* Whoever asks does not touch the memory.
LEMMA EntornoAjeno == Entorno => UNCHANGED memoria
BY DEF Entorno, IniciarProceso, ProcesoCreado, FinalizarProceso, EntrarCPU, DejarCPU,
       RecibirRespuesta, Acceder, Bloquear, AccederIO, TerminarIO, Pedir

\* A process that has ended stays so.
LEMMA NoVuelve ==
    ASSUME Inv1, Entorno
    PROVE  \A p \in Procesos : estado[p] = "fin" => estado'[p] = "fin"
<1> SUFFICES ASSUME NEW p \in Procesos, estado[p] = "fin" PROVE estado'[p] = "fin"
  OBVIOUS
<1>1. estado \in [Procesos -> {"nada", "creando", "listo", "bloqueado", "fin"}]
  BY DEF Inv1, TypeOK
<1>2. ASSUME NEW q \in Procesos,
             IniciarProceso(q) \/ ProcesoCreado(q) \/ FinalizarProceso(q) \/ EntrarCPU(q)
      PROVE  estado'[p] = "fin"
  BY <1>1, <1>2 DEF IniciarProceso, ProcesoCreado, FinalizarProceso, EntrarCPU
<1>3. ASSUME NEW op, Bloquear(op) PROVE estado'[p] = "fin"
  BY <1>1, <1>3, Contestada DEF Bloquear
<1>4. ASSUME TerminarIO PROVE estado'[p] = "fin"
  BY <1>1, <1>4 DEF TerminarIO, Inv1, Fines
<1>5. ASSUME \/ DejarCPU \/ RecibirRespuesta \/ AccederIO
             \/ (\E op : Acceder(op)) \/ (\E op, a : Pedir(op, a))
      PROVE  estado'[p] = "fin"
  BY <1>5 DEF DejarCPU, RecibirRespuesta, Acceder, AccederIO, Pedir
<1> QED BY <1>2, <1>3, <1>4, <1>5 DEF Entorno

\* hilo_kernel takes no frame of those that hilo_cpu has counted.
LEMMA KernelCuentas == ASSUME Inv2, HiloKernel PROVE Cuentas'
<1>1. UNCHANGED <<estado, hiloCPU, tamanio>>
  BY DEF HiloKernel, CrearProceso, CargarInstrucciones, EmpezarFin, LiberarMarco,
         EliminarProceso, KernelEnPaso
<1>2. Inv1
  BY DEF Inv2
<1>3. CASE CrearProceso \/ CargarInstrucciones
  <2>1. UNCHANGED <<tabla, mapa>> /\ pasoK' # "libera"
    BY <1>3 DEF CrearProceso, CargarInstrucciones, KernelEnPaso, LeerKernel
  <2> QED BY <1>1, <2>1 DEF Inv2, Cuentas, Respaldo, Contado, Achica, Paso2, Libres
<1>4. CASE EmpezarFin
  <2>1. UNCHANGED <<tabla, mapa>> /\ hechasK' = 0
    BY <1>4 DEF EmpezarFin, LeerKernel
  <2>2. Inv1'
    BY <1>2, <1>4, KernelInv1 DEF HiloKernel
  <2>3. pasoK' = "libera" => hechasK' <= Len(tabla'[pidK'])
    BY <2>1, <2>2 DEF Inv1, TypeOK, Fines
  <2> QED BY <1>1, <2>1, <2>3 DEF Inv2, Cuentas, Respaldo, Contado, Achica, Paso2, Libres
<1>5. CASE LiberarMarco
  <2>1. /\ UNCHANGED <<tabla, pidK>> /\ hechasK' = hechasK + 1 /\ pasoK = "libera"
        /\ hechasK < Len(tabla[pidK]) /\ pasoCPU # "asigna"
        /\ mapa' = mapa \ {tabla[pidK][hechasK + 1]}
    BY <1>5 DEF LiberarMarco, KernelEnPaso, MutexLibre
  <2>2. Libres \subseteq Libres' /\ Libres' \subseteq TodosLosMarcos
    BY <2>1 DEF Libres
  <2>3. Cardinality(Libres) <= Cardinality(Libres') /\ Cardinality(Libres) \in Nat
        /\ Cardinality(Libres') \in Nat
    BY <2>2, MarcosFinitos
  <2>4. Contado'
    BY <1>1, <1>2, <2>1, <2>3 DEF Inv2, Cuentas, Contado, Inv1, TypeOK
  <2>5. hechasK' <= Len(tabla'[pidK'])
    BY <2>1, <1>2 DEF Inv1, TypeOK, Fines
  <2> QED BY <1>1, <2>1, <2>4, <2>5 DEF Inv2, Cuentas, Respaldo, Achica, Paso2
<1>6. CASE EliminarProceso
  <2>1. /\ UNCHANGED mapa /\ pasoK = "libera" /\ pasoK' = "lee"
        /\ tabla' = [tabla EXCEPT ![pidK] = <<>>]
    BY <1>6 DEF EliminarProceso, KernelEnPaso
  <2>2. /\ estado[pidK] = "fin" /\ pidK \in Procesos
        /\ \A p \in Procesos : p # pidK => tabla'[p] = tabla[p]
    BY <2>1, <1>2 DEF Inv1, Fines, TypeOK
  <2>3. pasoCPU # "lee" => pidCPU \in Procesos /\ tabla'[pidCPU] = tabla[pidCPU]
    BY <2>1, <2>2, <1>2, Distintos, EnCurso
  <2> QED BY <1>1, <2>1, <2>2, <2>3 DEF Inv2, Cuentas, Respaldo, Contado, Achica, Paso2, Libres
<1> QED BY <1>3, <1>4, <1>5, <1>6 DEF HiloKernel

\* Reading a message changes no count.
LEMMA LeerCuentas ==
    ASSUME Inv2, NEW op, Leer(op), UNCHANGED <<hiloCPU, procesos, mapa>>
    PROVE  Cuentas'
BY CuentasIgual DEF Leer

\* The sizes of a RESIZE that begins.
LEMMA EmpiezaResize ==
    ASSUME Inv2, Leer("ENVIO_RESIZE"), NEW n \in Nat, Preparar(n)
    PROVE  /\ pidCPU' = ejecuta /\ ejecuta \in Procesos /\ nuevo' = Resize /\ Resize \in Nat
           /\ cuantas' = n /\ hechas' = 0 /\ Pedido.pid = ejecuta
           /\ UNCHANGED <<estado, tamanio, tabla, mapa, hiloKernel>> /\ pasoCPU = "lee"
           /\ Paginas(tamanio[ejecuta]) <= Len(tabla[ejecuta])
           /\ Paginas(tamanio[ejecuta]) \in Nat /\ Paginas(nuevo') \in Nat
           /\ Len(tabla[ejecuta]) \in Nat /\ tamanio[ejecuta] \in Nat
<1>1. /\ pasoCPU = "lee" /\ ejecuta \in Procesos /\ estado[ejecuta] = "listo"
      /\ Pedido.pid = ejecuta /\ Pedido.arg \in Nat
  BY LeerConsulta DEF Inv2, Consultas
<1>2. Paginas(tamanio[ejecuta]) <= Len(tabla[ejecuta])
  BY <1>1 DEF Inv2, Cuentas, Respaldo
<1>3. tamanio[ejecuta] \in Nat /\ Len(tabla[ejecuta]) \in Nat
  BY <1>1 DEF Inv2, Inv1, TypeOK
<1>4. /\ pidCPU' = ejecuta /\ nuevo' = Resize /\ Resize \in Nat /\ cuantas' = n /\ hechas' = 0
      /\ UNCHANGED <<estado, tamanio, tabla, mapa, hiloKernel>>
  BY <1>1 DEF Preparar, Leer, Resize
<1>5. Paginas(tamanio[ejecuta]) \in Nat /\ Paginas(nuevo') \in Nat
  BY <1>3, <1>4, PaginasCrece
<1> QED BY <1>1, <1>2, <1>3, <1>4, <1>5

\* The table of the process in the CPU, its sizes and the frames that are free.
LEMMA TiposResize ==
    ASSUME Inv1, pasoCPU # "lee"
    PROVE  /\ tabla[pidCPU] \in Seq(TodosLosMarcos) /\ Len(tabla[pidCPU]) \in Nat
           /\ nuevo \in Nat /\ Paginas(nuevo) \in Nat /\ cuantas \in Nat /\ hechas \in Nat
           /\ Libres \subseteq TodosLosMarcos /\ Cardinality(Libres) \in Nat
           /\ pidCPU \in Procesos /\ pidCPU = ejecuta
<1>1. nuevo \in Nat /\ cuantas \in Nat /\ hechas \in Nat
  BY DEF Inv1, TypeOK
<1>2. Libres \subseteq TodosLosMarcos
  BY DEF Libres
<1> QED BY <1>1, <1>2, EnCurso, PaginasCrece, MarcosFinitos

\* hilo_cpu assigns the frames it counted, and marks as free those it takes away.
LEMMA CPUCuentas == ASSUME Inv2, HiloCPU PROVE Cuentas'
<1>0. Inv1
  BY DEF Inv2
<1>1. CASE MandarInstruccion \/ AccederTabla \/ Escribir \/ LeerMemoria \/ ResizeIgual
           \/ ResizeExcesivo \/ ResizeSinLugar
  <2>1. (\E op : Leer(op)) /\ UNCHANGED <<hiloCPU, procesos, mapa>>
    BY <1>1 DEF MandarInstruccion, AccederTabla, Escribir, LeerMemoria, ResizeIgual,
                ResizeExcesivo, ResizeSinLugar
  <2> QED BY <2>1, LeerCuentas
<1>2. CASE ResizeAmpliar
  <2>1. AAgregar \in Nat /\ Leer("ENVIO_RESIZE") /\ Preparar(AAgregar) /\ HayLugar(AAgregar)
        /\ pasoCPU' = "chequeado"
    <3>1. /\ Pedido.pid = ejecuta /\ ejecuta \in Procesos /\ Resize \in Nat
          /\ tamanio[Pedido.pid] \in Nat
      BY <1>0, <1>2, LeerConsulta DEF ResizeAmpliar, Consultas, Resize, Inv1, TypeOK
    <3> QED BY <1>2, <3>1, PaginasCrece DEF AAgregar, ResizeAmpliar
  <2>2. cuantas' = AAgregar /\ AAgregar = Paginas(nuevo') - Paginas(tamanio[ejecuta])
    BY <2>1, EmpiezaResize DEF AAgregar
  <2>3. AAgregar <= Cardinality(Libres) /\ Libres' = Libres
    BY <2>1, EmpiezaResize DEF HayLugar, Libres
  <2>4. Respaldo' /\ Achica' /\ Paso2'
    BY <2>1, EmpiezaResize DEF Inv2, Cuentas, Respaldo, Achica, Paso2
  <2>5. Contado'
    BY <2>1, <2>2, <2>3, EmpiezaResize DEF Contado
  <2> QED BY <2>4, <2>5 DEF Cuentas
<1>3. CASE ResizeReducir
  <2>1. - AAgregar \in Nat /\ Leer("ENVIO_RESIZE") /\ Preparar(- AAgregar) /\ pasoCPU' = "marca"
    <3>1. /\ Pedido.pid = ejecuta /\ ejecuta \in Procesos /\ Resize \in Nat
          /\ tamanio[Pedido.pid] \in Nat
      BY <1>0, <1>3, LeerConsulta DEF ResizeReducir, Consultas, Resize, Inv1, TypeOK
    <3> QED BY <1>3, <3>1, PaginasCrece DEF AAgregar, ResizeReducir
  <2>2. cuantas' = Paginas(tamanio[ejecuta]) - Paginas(nuevo')
    <3>1. cuantas' = - AAgregar
      BY <2>1, EmpiezaResize
    <3> QED BY <3>1, <2>1, EmpiezaResize DEF AAgregar
  <2>3. Respaldo' /\ Contado' /\ Paso2'
    BY <2>1, EmpiezaResize DEF Inv2, Cuentas, Respaldo, Contado, Paso2
  <2>4. Achica'
    BY <2>1, <2>2, EmpiezaResize DEF Achica
  <2> QED BY <2>3, <2>4 DEF Cuentas
<1>4. CASE EmpezarAsignar
  <2>1. /\ pasoCPU = "chequeado" /\ pasoCPU' = "asigna"
        /\ tamanio' = [tamanio EXCEPT ![pidCPU] = nuevo]
        /\ UNCHANGED <<estado, tabla, mapa, pidCPU, nuevo, cuantas, hechas, hiloKernel>>
    BY <1>4 DEF EmpezarAsignar, EnPaso
  <2>2. /\ tamanio'[pidCPU] = nuevo
        /\ \A p \in Procesos : p # pidCPU => tamanio'[p] = tamanio[p]
    BY <2>1, <1>0, TiposResize DEF Inv1, TypeOK
  <2> QED BY <2>1, <2>2 DEF Inv2, Cuentas, Respaldo, Contado, Achica, Paso2, Libres
<1>5. ASSUME NEW f \in TodosLosMarcos, AsignarMarco(f)
      PROVE  Cuentas'
  <2>1. /\ pasoCPU = "asigna" /\ pasoCPU' = (IF hechas + 1 = cuantas THEN "acepta" ELSE "asigna")
        /\ tabla' = [tabla EXCEPT ![pidCPU] = Append(@, f)]
        /\ mapa' = mapa \cup {f} /\ f \in Libres /\ hechas' = hechas + 1
        /\ UNCHANGED <<estado, tamanio, pidCPU, nuevo, cuantas, hiloKernel>>
    BY <1>5 DEF AsignarMarco, EnPaso, PrimerLibre
  <2>2. /\ tabla'[pidCPU] = Append(tabla[pidCPU], f)
        /\ \A p \in Procesos : p # pidCPU => tabla'[p] = tabla[p]
    BY <2>1, <1>0, TiposResize DEF Inv1, TypeOK
  <2>3. Len(tabla'[pidCPU]) = Len(tabla[pidCPU]) + 1
    BY <2>1, <2>2, <1>0, TiposResize, Sockets
  <2>4. Libres' = Libres \ {f} /\ Cardinality(Libres') = Cardinality(Libres) - 1
    <3>1. Libres' = Libres \ {f}
      BY <2>1 DEF Libres
    <3> QED BY <3>1, <2>1, <1>0, TiposResize, MarcosFinitos
  <2>5. tamanio[pidCPU] = nuevo /\ Paginas(nuevo) <= Len(tabla[pidCPU]) + cuantas - hechas
        /\ (cuantas > 0 => hechas < cuantas /\ cuantas - hechas <= Cardinality(Libres))
    BY <2>1 DEF Inv2, Cuentas, Contado, Paso2
  <2>6. Respaldo'
    <3>1. ASSUME NEW p \in Procesos, p # pidCPU, estado'[p] # "fin"
          PROVE  Paginas(tamanio'[p]) <= Len(tabla'[p])
      BY <2>1, <2>2, <3>1 DEF Inv2, Cuentas, Respaldo
    <3>2. pasoCPU' = "acepta" => Paginas(tamanio'[pidCPU]) <= Len(tabla'[pidCPU])
      BY <2>1, <2>3, <2>5, <1>0, TiposResize
    <3> QED BY <2>1, <3>1, <3>2 DEF Respaldo
  <2>7. Contado'
    <3>1. cuantas > 0 /\ pasoCPU' = "asigna"
            => hechas' < cuantas /\ cuantas - hechas' <= Cardinality(Libres')
      BY <2>1, <2>4, <2>5, <1>0, TiposResize
    <3>2. Paginas(nuevo) <= Len(tabla'[pidCPU]) + cuantas - hechas'
      BY <2>1, <2>3, <2>5, <1>0, TiposResize
    <3> QED BY <2>1, <3>1, <3>2 DEF Contado
  <2>8. Achica' /\ Paso2'
    <3>1. pasoK = "libera" => hechasK <= Len(tabla'[pidK])
      BY <2>1, <2>2, <1>0, Distintos DEF Inv2, Cuentas, Paso2, Inv1, Fines
    <3> QED BY <2>1, <2>5, <3>1 DEF Achica, Paso2
  <2> QED BY <2>6, <2>7, <2>8 DEF Cuentas
<1>6. CASE SinMarcos
  <2>1. /\ pasoCPU = "asigna" /\ pasoCPU' = "acepta" /\ Libres = {}
        /\ UNCHANGED <<estado, tabla, mapa, tamanio, pidCPU, nuevo, cuantas, hechas, hiloKernel>>
    BY <1>6 DEF SinMarcos, EnPaso
  <2>2. Cardinality(Libres) = 0
    BY <2>1, FS_EmptySet
  <2>3. Paginas(tamanio[pidCPU]) <= Len(tabla[pidCPU])
    BY <2>1, <2>2, <1>0, TiposResize DEF Inv2, Cuentas, Contado, Paso2
  <2> QED BY <2>1, <2>3 DEF Inv2, Cuentas, Respaldo, Contado, Achica, Paso2
<1>7. CASE MarcarLibre
  <2>1. /\ pasoCPU = "marca" /\ pasoCPU' = "marca" /\ hechas < cuantas /\ hechas' = hechas + 1
        /\ UNCHANGED <<estado, tabla, tamanio, pidCPU, nuevo, cuantas, hiloKernel>>
    BY <1>7 DEF MarcarLibre, EnPaso
  <2>2. Achica'
    BY <2>1, <1>0, TiposResize DEF Inv2, Cuentas, Achica
  <2> QED BY <2>1, <2>2 DEF Inv2, Cuentas, Respaldo, Contado, Paso2
<1>8. CASE SacarEntradas
  <2>1. /\ pasoCPU = "marca" /\ pasoCPU' = "acepta"
        /\ tabla' = [tabla EXCEPT ![pidCPU] = SubSeq(@, 1, Len(@) - cuantas)]
        /\ tamanio' = [tamanio EXCEPT ![pidCPU] = nuevo]
        /\ UNCHANGED <<estado, pidCPU, nuevo, cuantas, hechas, hiloKernel>>
    BY <1>8 DEF SacarEntradas, EnPaso
  <2>2. cuantas <= Len(tabla[pidCPU]) /\ Paginas(nuevo) <= Len(tabla[pidCPU]) - cuantas
    BY <2>1 DEF Inv2, Cuentas, Achica
  <2>3. /\ tabla'[pidCPU] = SubSeq(tabla[pidCPU], 1, Len(tabla[pidCPU]) - cuantas)
        /\ tamanio'[pidCPU] = nuevo
        /\ \A p \in Procesos : p # pidCPU => tabla'[p] = tabla[p] /\ tamanio'[p] = tamanio[p]
    BY <2>1, <1>0, TiposResize DEF Inv1, TypeOK
  <2>4. Len(tabla'[pidCPU]) = Len(tabla[pidCPU]) - cuantas
    BY <2>1, <2>2, <2>3, <1>0, TiposResize
  <2>5. Respaldo'
    BY <2>1, <2>2, <2>3, <2>4 DEF Inv2, Cuentas, Respaldo
  <2>6. pasoK = "libera" => hechasK <= Len(tabla'[pidK])
    BY <2>1, <2>3, <1>0, Distintos DEF Inv2, Cuentas, Paso2, Inv1, Fines
  <2> QED BY <2>1, <2>5, <2>6 DEF Cuentas, Contado, Achica, Paso2
<1>9. CASE AceptarResize
  <2>1. /\ pasoCPU = "acepta" /\ pasoCPU' = "lee"
        /\ UNCHANGED <<estado, tabla, tamanio, mapa, hiloKernel>>
    BY <1>9 DEF AceptarResize, EnPaso
  <2> QED BY <2>1 DEF Inv2, Cuentas, Respaldo, Contado, Achica, Paso2
<1> QED BY <1>1, <1>2, <1>3, <1>4, <1>5, <1>6, <1>7, <1>8, <1>9 DEF HiloCPU

\* At the start there is nothing to count.
LEMMA Inicio2 == Init => Inv2
<1> SUFFICES ASSUME Init PROVE Inv2
  OBVIOUS
<1>1. Paginas(0) = 0
  BY ConstantesOK DEF Paginas
<1> QED BY <1>1, Inicio1 DEF Init, Inv2, Cuentas, Respaldo, Contado, Achica, Paso2

\* Every step keeps the counts.
LEMMA Paso2Inv == Inv2 /\ [Next]_vars => Inv2'
<1> SUFFICES ASSUME Inv2, [Next]_vars PROVE Cuentas'
  BY Paso1 DEF Inv2
<1>1. CASE Entorno
  BY <1>1, EntornoAjeno, NoVuelve, CuentasIgual DEF Inv2
<1>2. CASE HiloIO
  BY <1>2, CuentasIgual DEF HiloIO
<1>3. CASE UNCHANGED vars
  BY <1>3, CuentasIgual DEF vars
<1> QED BY <1>1, <1>2, <1>3, KernelCuentas, CPUCuentas DEF Next

-------------------------------------------------------------------------------
(* The bitmap and the owners of the frames *)

Inv3 == Inv2 /\ MapaExacto

\* The page tables hold frames, and only what is in them is held.
LEMMA VigentesTipo ==
    ASSUME Inv1, NEW p \in Procesos
    PROVE  /\ Len(tabla[p]) \in Nat /\ Vigentes(p) \subseteq 1 .. Len(tabla[p])
           /\ \A k \in 1 .. Len(tabla[p]) : tabla[p][k] \in TodosLosMarcos
           /\ Retenidos(p) \subseteq TodosLosMarcos
<1>1. tabla[p] \in Seq(TodosLosMarcos)
  BY DEF Inv1, TypeOK
<1> QED BY <1>1 DEF Vigentes, Retenidos

\* A table of which no loop is going through is held as a whole.
LEMMA Entera ==
    ASSUME NEW p \in Procesos, ~ (pasoK = "libera" /\ pidK = p), ~ (pasoCPU = "marca" /\ pidCPU = p)
    PROVE  Vigentes(p) = 1 .. Len(tabla[p])
BY DEF Vigentes

\* Frames are disjoint between processes.
LEMMA Disjuntos ==
    ASSUME MapaExacto, NEW p \in Procesos, NEW q \in Procesos, p # q
    PROVE  Retenidos(p) \cap Retenidos(q) = {}
BY DEF MapaExacto, Retenidos

\* The three things that a step may do with the frames. Held entries stay as they
\* were, ...
Igual == \A q \in Procesos : /\ Vigentes(q)' = Vigentes(q)
                             /\ \A k \in Vigentes(q) : tabla'[q][k] = tabla[q][k]

\* ... one more appears, with a frame that was free, ...
Toma(p, f) ==
    /\ f \notin mapa /\ mapa' = mapa \cup {f}
    /\ \E n : /\ n \notin Vigentes(p) /\ Vigentes(p)' = Vigentes(p) \cup {n}
              /\ tabla'[p][n] = f
              /\ \A k \in Vigentes(p) : tabla'[p][k] = tabla[p][k]
    /\ \A q \in Procesos \ {p} : /\ Vigentes(q)' = Vigentes(q) /\ tabla'[q] = tabla[q]

\* ... or one stops being held, and its frame is free.
Suelta(p, n) ==
    /\ n \in Vigentes(p) /\ mapa' = mapa \ {tabla[p][n]} /\ tabla' = tabla
    /\ Vigentes(p)' = Vigentes(p) \ {n}
    /\ \A q \in Procesos \ {p} : Vigentes(q)' = Vigentes(q)

Movimiento ==
    \/ Igual /\ mapa' = mapa
    \/ \E p \in Procesos, f \in TodosLosMarcos : pasoCPU = "asigna" /\ pidCPU = p /\ Toma(p, f)
    \/ \E p \in Procesos, n \in Nat :
         /\ Suelta(p, n)
         /\ \/ pasoCPU = "marca" /\ pidCPU = p
            \/ pasoK = "libera" /\ pidK = p

\* A frame that one entry stops holding is held by no other.
LEMMA RetenidosMenos ==
    ASSUME MapaExacto, NEW p \in Procesos, NEW n \in Vigentes(p), tabla' = tabla,
           Vigentes(p)' = Vigentes(p) \ {n}
    PROVE  Retenidos(p)' = Retenidos(p) \ {tabla[p][n]}
<1>1. Retenidos(p)' = {tabla[p][k] : k \in Vigentes(p) \ {n}}
  BY DEF Retenidos
<1>2. \A k \in Vigentes(p) : tabla[p][k] = tabla[p][n] => k = n
  BY DEF MapaExacto
<1>3. Retenidos(p) = {tabla[p][k] : k \in Vigentes(p)}
  BY DEF Retenidos
<1> QED BY <1>1, <1>2, <1>3

\* A step that moves at most one frame keeps the bitmap exact.
LEMMA MapaMovido == ASSUME MapaExacto, Movimiento PROVE MapaExacto'
<1>1. CASE Igual /\ mapa' = mapa
  <2>1. \A q \in Procesos : Retenidos(q)' = Retenidos(q)
    BY <1>1 DEF Igual, Retenidos
  <2>2. mapa' = UNION {Retenidos(p)' : p \in Procesos}
    BY <1>1, <2>1 DEF MapaExacto
  <2> QED BY <1>1, <2>2 DEF Igual, MapaExacto
<1>2. ASSUME NEW p \in Procesos, NEW f \in TodosLosMarcos, Toma(p, f)
      PROVE  MapaExacto'
  <2>1. PICK n : /\ n \notin Vigentes(p) /\ Vigentes(p)' = Vigentes(p) \cup {n}
                 /\ tabla'[p][n] = f
                 /\ \A k \in Vigentes(p) : tabla'[p][k] = tabla[p][k]
    BY <1>2 DEF Toma
  <2>2. \A q \in Procesos \ {p} : Vigentes(q)' = Vigentes(q) /\ tabla'[q] = tabla[q]
    BY <1>2 DEF Toma
  <2>3. Retenidos(p)' = Retenidos(p) \cup {f}
    BY <2>1 DEF Retenidos
  <2>4. \A q \in Procesos \ {p} : Retenidos(q)' = Retenidos(q)
    BY <2>2 DEF Retenidos
  <2>5. \A q \in Procesos : \A k \in Vigentes(q) : tabla[q][k] \in mapa
    BY DEF MapaExacto, Retenidos
  <2>6. f \notin mapa /\ mapa' = mapa \cup {f}
    BY <1>2 DEF Toma
  <2>7. mapa' = UNION {Retenidos(q)' : q \in Procesos}
    BY <2>3, <2>4, <2>6 DEF MapaExacto
  <2>8. ASSUME NEW q \in Procesos, NEW r \in Procesos,
               NEW j \in Vigentes(q)', NEW k \in Vigentes(r)',
               tabla'[q][j] = tabla'[r][k]
        PROVE  q = r /\ j = k
    <3>1. \A s \in Procesos : \A l \in Vigentes(s)' :
            \/ l \in Vigentes(s) /\ tabla'[s][l] = tabla[s][l]
            \/ s = p /\ l = n /\ tabla'[s][l] = f
      BY <2>1, <2>2
    <3> QED BY <2>5, <2>6, <2>8, <3>1 DEF MapaExacto
  <2> QED BY <2>7, <2>8 DEF MapaExacto
<1>3. ASSUME NEW p \in Procesos, NEW n \in Nat, Suelta(p, n)
      PROVE  MapaExacto'
  <2>1. /\ n \in Vigentes(p) /\ mapa' = mapa \ {tabla[p][n]} /\ tabla' = tabla
        /\ Vigentes(p)' = Vigentes(p) \ {n}
        /\ \A q \in Procesos \ {p} : Vigentes(q)' = Vigentes(q)
    BY <1>3 DEF Suelta
  <2>2. Retenidos(p)' = Retenidos(p) \ {tabla[p][n]}
    BY <2>1, RetenidosMenos
  <2>3. \A q \in Procesos \ {p} : Retenidos(q)' = Retenidos(q)
    BY <2>1 DEF Retenidos
  <2>4. tabla[p][n] \in Retenidos(p)
    BY <2>1 DEF Retenidos
  <2>5. \A q \in Procesos \ {p} : tabla[p][n] \notin Retenidos(q)
    BY <2>4, Disjuntos
  <2>6. mapa = UNION {Retenidos(q) : q \in Procesos}
    BY DEF MapaExacto
  <2>7. mapa' = UNION {Retenidos(q)' : q \in Procesos}
    BY <2>1, <2>2, <2>3, <2>5, <2>6
  <2>8. \A s \in Procesos : Vigentes(s)' \subseteq Vigentes(s)
    BY <2>1
  <2>9. ASSUME NEW q \in Procesos, NEW r \in Procesos,
               NEW j \in Vigentes(q)', NEW k \in Vigentes(r)',
               tabla'[q][j] = tabla'[r][k]
        PROVE  q = r /\ j = k
    <3>1. j \in Vigentes(q) /\ k \in Vigentes(r) /\ tabla[q][j] = tabla[r][k]
      BY <2>1, <2>8, <2>9
    <3> QED BY <3>1 DEF MapaExacto
  <2> QED BY <2>7, <2>9 DEF MapaExacto
<1> QED BY <1>1, <1>2, <1>3 DEF Movimiento

\* Every step is one of the three.
LEMMA SinMover ==
    ASSUME UNCHANGED <<tabla, mapa>>,
           pasoK = "libera" \/ pasoK' = "libera" =>
             \/ UNCHANGED <<pasoK, pidK, hechasK>>
             \/ pasoK # "libera" /\ hechasK' = 0,
           pasoCPU = "marca" \/ pasoCPU' = "marca" =>
             \/ UNCHANGED <<pasoCPU, pidCPU, hechas>>
             \/ pasoCPU # "marca" /\ hechas' = 0,
           Inv1
    PROVE  Movimiento
<1>1. \A q \in Procesos : Len(tabla[q]) \in Nat
  BY DEF Inv1, TypeOK
<1>2. ASSUME NEW q \in Procesos PROVE Vigentes(q)' = Vigentes(q)
  BY <1>1 DEF Vigentes
<1> QED BY <1>2 DEF Movimiento, Igual

\* hilo_kernel moves at most one frame in a step, ...
LEMMA KernelMovimiento == ASSUME Inv2, HiloKernel PROVE Movimiento
<1>0. Inv1 /\ UNCHANGED hiloCPU
  BY DEF Inv2, HiloKernel, CrearProceso, CargarInstrucciones, EmpezarFin, LiberarMarco,
         EliminarProceso, KernelEnPaso
<1>1. CASE CrearProceso \/ CargarInstrucciones
  <2>1. UNCHANGED <<tabla, mapa>> /\ pasoK # "libera" /\ pasoK' # "libera"
    BY <1>1 DEF CrearProceso, CargarInstrucciones, KernelEnPaso, LeerKernel
  <2> QED BY <1>0, <2>1, SinMover
<1>2. CASE EmpezarFin
  <2>1. UNCHANGED <<tabla, mapa>> /\ pasoK # "libera" /\ hechasK' = 0
    BY <1>2 DEF EmpezarFin, KernelEnPaso, LeerKernel
  <2> QED BY <1>0, <2>1, SinMover
<1>3. CASE LiberarMarco
  <2> DEFINE n == hechasK + 1
  <2>1. /\ UNCHANGED <<tabla, pidK>> /\ hechasK' = hechasK + 1
        /\ pasoK = "libera" /\ pasoK' = "libera" /\ hechasK < Len(tabla[pidK])
        /\ mapa' = mapa \ {tabla[pidK][n]}
    BY <1>3 DEF LiberarMarco, KernelEnPaso
  <2>2. pidK \in Procesos /\ hechasK \in Nat /\ Len(tabla[pidK]) \in Nat
    BY <2>1, <1>0 DEF Inv1, Fines, TypeOK
  <2>3. ~ (pasoCPU = "marca" /\ pidCPU = pidK)
    BY <2>1, <1>0, Distintos
  <2>4. n \in Vigentes(pidK) /\ Vigentes(pidK)' = Vigentes(pidK) \ {n}
    BY <2>1, <2>2, <2>3, <1>0 DEF Vigentes
  <2>5. \A q \in Procesos \ {pidK} : Vigentes(q)' = Vigentes(q)
    BY <2>1, <1>0 DEF Vigentes
  <2>6. n \in Nat
    BY <2>2
  <2> HIDE DEF n
  <2>7. Suelta(pidK, n)
    BY <2>1, <2>4, <2>5 DEF Suelta
  <2> QED BY <2>1, <2>2, <2>6, <2>7 DEF Movimiento
<1>4. CASE EliminarProceso
  <2>1. /\ UNCHANGED mapa /\ pasoK = "libera" /\ pasoK' = "lee" /\ hechasK = Len(tabla[pidK])
        /\ tabla' = [tabla EXCEPT ![pidK] = <<>>]
    BY <1>4 DEF EliminarProceso, KernelEnPaso
  <2>2. /\ pidK \in Procesos /\ hechasK \in Nat
        /\ tabla'[pidK] = <<>> /\ Len(tabla'[pidK]) = 0
        /\ \A q \in Procesos : q # pidK => tabla'[q] = tabla[q]
    BY <2>1, <1>0 DEF Inv1, Fines, TypeOK
  <2>3. ASSUME NEW q \in Procesos
        PROVE  Vigentes(q)' = Vigentes(q) /\ \A k \in Vigentes(q) : tabla'[q][k] = tabla[q][k]
    <3>1. CASE q = pidK
      <4>1. Vigentes(q)' = {}
        BY <2>2, <3>1 DEF Vigentes
      <4>2. \A k \in 1 .. Len(tabla[q]) : ~ (k > hechasK)
        BY <2>1, <2>2, <3>1
      <4>3. Vigentes(q) = {}
        BY <2>1, <3>1, <4>2 DEF Vigentes
      <4> QED BY <4>1, <4>3
    <3>2. CASE q # pidK
      <4>1. tabla'[q] = tabla[q] /\ pasoK' # "libera" /\ UNCHANGED hiloCPU
        BY <2>1, <2>2, <3>2, <1>0
      <4>2. Vigentes(q)' = Vigentes(q)
        BY <3>2, <4>1 DEF Vigentes
      <4> QED BY <4>1, <4>2
    <3> QED BY <3>1, <3>2
  <2>5. Igual
    BY <2>3 DEF Igual
  <2> QED BY <2>1, <2>5 DEF Movimiento
<1> QED BY <1>1, <1>2, <1>3, <1>4 DEF HiloKernel

\* ... so does hilo_cpu, ...
LEMMA CPUMovimiento == ASSUME Inv2, HiloCPU PROVE Movimiento
<1>0. Inv1 /\ UNCHANGED hiloKernel
  BY DEF Inv2, HiloCPU, MandarInstruccion, AccederTabla, Escribir, LeerMemoria, ResizeIgual,
         ResizeExcesivo, ResizeAmpliar, ResizeSinLugar, ResizeReducir, EmpezarAsignar,
         SinMarcos, MarcarLibre, SacarEntradas, AceptarResize, AsignarMarco, Leer, EnPaso
<1>1. CASE MandarInstruccion \/ AccederTabla \/ Escribir \/ LeerMemoria \/ ResizeIgual
           \/ ResizeExcesivo \/ ResizeSinLugar
  <2>1. UNCHANGED <<hiloCPU, procesos, mapa>>
    BY <1>1 DEF MandarInstruccion, AccederTabla, Escribir, LeerMemoria, ResizeIgual,
                ResizeExcesivo, ResizeSinLugar
  <2> QED BY <1>0, <2>1, SinMover
<1>2. CASE ResizeAmpliar \/ ResizeReducir
  <2>1. UNCHANGED <<tabla, mapa>> /\ pasoCPU = "lee" /\ hechas' = 0
    BY <1>2 DEF ResizeAmpliar, ResizeReducir, Preparar, Leer
  <2> QED BY <1>0, <2>1, SinMover
<1>3. CASE EmpezarAsignar \/ SinMarcos \/ AceptarResize
  <2>1. UNCHANGED <<tabla, mapa>> /\ pasoCPU # "marca" /\ pasoCPU' # "marca"
    BY <1>3 DEF EmpezarAsignar, SinMarcos, AceptarResize, EnPaso
  <2> QED BY <1>0, <2>1, SinMover
<1>4. ASSUME NEW f \in TodosLosMarcos, AsignarMarco(f)
      PROVE  Movimiento
  <2> DEFINE n == Len(tabla[pidCPU]) + 1
  <2>1. /\ pasoCPU = "asigna" /\ pasoCPU' # "marca"
        /\ tabla' = [tabla EXCEPT ![pidCPU] = Append(@, f)]
        /\ mapa' = mapa \cup {f} /\ f \notin mapa /\ UNCHANGED pidCPU
    BY <1>4 DEF AsignarMarco, EnPaso, PrimerLibre, Libres
  <2>2. /\ tabla'[pidCPU] = Append(tabla[pidCPU], f) /\ pidCPU \in Procesos
        /\ \A q \in Procesos : q # pidCPU => tabla'[q] = tabla[q]
    BY <2>1, <1>0, TiposResize DEF Inv1, TypeOK
  <2>3. /\ Len(tabla[pidCPU]) \in Nat /\ Len(tabla'[pidCPU]) = n /\ tabla'[pidCPU][n] = f
        /\ \A k \in 1 .. Len(tabla[pidCPU]) : tabla'[pidCPU][k] = tabla[pidCPU][k]
    BY <2>1, <2>2, <1>0, TiposResize, Sockets
  <2>4. ~ (pasoK = "libera" /\ pidK = pidCPU)
    BY <2>1, <1>0, Distintos
  <2>5. Vigentes(pidCPU) = 1 .. Len(tabla[pidCPU]) /\ Vigentes(pidCPU)' = 1 .. n
    BY <2>1, <2>2, <2>3, <2>4, <1>0 DEF Vigentes
  <2>6. \A q \in Procesos : q # pidCPU => Vigentes(q)' = Vigentes(q)
    BY <2>1, <2>2, <1>0 DEF Vigentes
  <2>7. n \notin Vigentes(pidCPU) /\ Vigentes(pidCPU)' = Vigentes(pidCPU) \cup {n}
    BY <2>3, <2>5
  <2> HIDE DEF n
  <2>8. Toma(pidCPU, f)
    BY <2>1, <2>2, <2>3, <2>5, <2>6, <2>7 DEF Toma
  <2> QED BY <2>1, <2>2, <2>8 DEF Movimiento
<1>5. CASE MarcarLibre
  <2> DEFINE n == Len(tabla[pidCPU]) - hechas
  <2>1. /\ pasoCPU = "marca" /\ pasoCPU' = "marca" /\ hechas < cuantas /\ hechas' = hechas + 1
        /\ UNCHANGED <<tabla, pidCPU>> /\ mapa' = mapa \ {tabla[pidCPU][n]}
    BY <1>5 DEF MarcarLibre, EnPaso, Ultima
  <2>2. /\ cuantas <= Len(tabla[pidCPU]) /\ cuantas \in Nat /\ hechas \in Nat
        /\ Len(tabla[pidCPU]) \in Nat /\ pidCPU \in Procesos
    BY <2>1, <1>0, TiposResize DEF Inv2, Cuentas, Achica
  <2>3. ~ (pasoK = "libera" /\ pidK = pidCPU)
    BY <2>1, <1>0, Distintos
  <2>4. n \in Vigentes(pidCPU) /\ Vigentes(pidCPU)' = Vigentes(pidCPU) \ {n} /\ n \in Nat
    BY <2>1, <2>2, <2>3, <1>0 DEF Vigentes
  <2>5. \A q \in Procesos \ {pidCPU} : Vigentes(q)' = Vigentes(q)
    BY <2>1, <1>0 DEF Vigentes
  <2> HIDE DEF n
  <2>6. Suelta(pidCPU, n)
    BY <2>1, <2>4, <2>5 DEF Suelta
  <2> QED BY <2>1, <2>2, <2>4, <2>6 DEF Movimiento
<1>6. CASE SacarEntradas
  <2>1. /\ pasoCPU = "marca" /\ pasoCPU' = "acepta" /\ hechas = cuantas
        /\ tabla' = [tabla EXCEPT ![pidCPU] = SubSeq(@, 1, Len(@) - cuantas)]
        /\ UNCHANGED <<mapa, pidCPU>>
    BY <1>6 DEF SacarEntradas, EnPaso
  <2>2. /\ cuantas <= Len(tabla[pidCPU]) /\ cuantas \in Nat /\ pidCPU \in Procesos
        /\ tabla[pidCPU] \in Seq(TodosLosMarcos) /\ Len(tabla[pidCPU]) \in Nat
    BY <2>1, <1>0, TiposResize DEF Inv2, Cuentas, Achica
  <2>3. /\ tabla'[pidCPU] = SubSeq(tabla[pidCPU], 1, Len(tabla[pidCPU]) - cuantas)
        /\ \A q \in Procesos : q # pidCPU => tabla'[q] = tabla[q]
    BY <2>1, <2>2, <1>0 DEF Inv1, TypeOK
  <2>4. /\ Len(tabla'[pidCPU]) = Len(tabla[pidCPU]) - cuantas
        /\ \A k \in 1 .. Len(tabla[pidCPU]) - cuantas : tabla'[pidCPU][k] = tabla[pidCPU][k]
    BY <2>2, <2>3
  <2>5. ~ (pasoK = "libera" /\ pidK = pidCPU)
    BY <2>1, <1>0, Distintos
  <2>6. /\ Vigentes(pidCPU) = 1 .. Len(tabla[pidCPU]) - cuantas
        /\ Vigentes(pidCPU)' = 1 .. Len(tabla[pidCPU]) - cuantas
    BY <2>1, <2>2, <2>4, <2>5, <1>0 DEF Vigentes
  <2>7. \A q \in Procesos : q # pidCPU => Vigentes(q)' = Vigentes(q)
    BY <2>1, <2>3, <1>0 DEF Vigentes
  <2>8. Igual
    <3>1. ASSUME NEW q \in Procesos
          PROVE  Vigentes(q)' = Vigentes(q) /\ \A k \in Vigentes(q) : tabla'[q][k] = tabla[q][k]
      <4>1. CASE q = pidCPU
        BY <2>1, <2>4, <2>6, <4>1
      <4>2. CASE q # pidCPU
        BY <2>3, <2>7, <4>2
      <4> QED BY <4>1, <4>2
    <3> QED BY <3>1 DEF Igual
  <2> QED BY <2>1, <2>8 DEF Movimiento
<1> QED BY <1>1, <1>2, <1>3, <1>4, <1>5, <1>6 DEF HiloCPU

\* ... and nobody else moves any.
LEMMA PasoMovimiento == ASSUME Inv2, [Next]_vars PROVE Movimiento
<1>1. CASE Entorno
  BY <1>1, EntornoAjeno, SinMover DEF Inv2
<1>2. CASE HiloIO \/ UNCHANGED vars
  <2>1. UNCHANGED memoria
    BY <1>2 DEF HiloIO, vars
  <2> QED BY <2>1, SinMover DEF Inv2
<1> QED BY <1>1, <1>2, KernelMovimiento, CPUMovimiento DEF Next

\* At the start no frame is taken.
LEMMA Inicio3 == Init => Inv3
<1> SUFFICES ASSUME Init PROVE MapaExacto
  BY Inicio2 DEF Inv3
<1>1. \A p \in Procesos : Vigentes(p) = {} /\ Retenidos(p) = {}
  BY DEF Init, Vigentes, Retenidos
<1> QED BY <1>1 DEF Init, MapaExacto

\* Every step keeps the bitmap exact.
LEMMA Paso3 == Inv3 /\ [Next]_vars => Inv3'
BY Paso2Inv, PasoMovimiento, MapaMovido DEF Inv3

\* The bitmap is what the page tables say, in the middle of the loops too, and no
\* frame is in two entries: of one process or of two.
THEOREM MapaSiempreExacto == Spec => []MapaExacto
<1>1. Inv3 => MapaExacto
  BY DEF Inv3
<1> QED BY Inicio3, Paso3, <1>1, PTL DEF Spec


-------------------------------------------------------------------------------
(* The memory implements Marcos *)

\* The owner of a frame is the process that holds it.
Duenios ==
    \A f \in TodosLosMarcos :
      /\ Duenio[f] \in Procesos \cup {Nadie}
      /\ \A p \in Procesos : Duenio[f] = p <=> f \in Retenidos(p)
      /\ f \notin mapa => Duenio[f] = Nadie

\* With the bitmap exact each frame has one owner at most.
LEMMA DuenioDe == MapaExacto => Duenios
<1> SUFFICES ASSUME MapaExacto, NEW f \in TodosLosMarcos
             PROVE  /\ Duenio[f] \in Procesos \cup {Nadie}
                    /\ \A p \in Procesos : Duenio[f] = p <=> f \in Retenidos(p)
                    /\ f \notin mapa => Duenio[f] = Nadie
  BY DEF Duenios
<1>1. CASE \E p \in Procesos : f \in Retenidos(p)
  <2>1. PICK p \in Procesos : f \in Retenidos(p)
    BY <1>1
  <2>2. Duenio[f] = CHOOSE q \in Procesos : f \in Retenidos(q)
    BY <1>1 DEF Duenio
  <2>3. Duenio[f] \in Procesos /\ f \in Retenidos(Duenio[f])
    BY <2>1, <2>2
  <2>4. \A q \in Procesos : f \in Retenidos(q) => q = Duenio[f]
    BY <2>3, Disjuntos
  <2>5. f \in mapa
    BY <2>1 DEF MapaExacto
  <2> QED BY <2>3, <2>4, <2>5
<1>2. CASE ~ \E p \in Procesos : f \in Retenidos(p)
  <2>1. Duenio[f] = Nadie
    BY <1>2 DEF Duenio
  <2> QED BY <1>2, <2>1, ConstantesOK
<1> QED BY <1>1, <1>2

\* A frame keeps its owner if those who hold it are the same.
LEMMA DuenioDespues == MapaExacto' => Duenios'
BY DuenioDe, PTL

\* A frame that the same processes hold keeps its owner.
LEMMA DuenioIgual ==
    ASSUME Duenios, Duenios', NEW f \in TodosLosMarcos,
           \A p \in Procesos : f \in Retenidos(p)' <=> f \in Retenidos(p)
    PROVE  Duenio'[f] = Duenio[f]
BY DEF Duenios

\* When one frame changes hands, the owners change in that frame.
LEMMA DuenioFuncion ==
    ASSUME NEW f \in TodosLosMarcos, NEW v,
           Duenio'[f] = v, \A g \in TodosLosMarcos : g # f => Duenio'[g] = Duenio[g]
    PROVE  Duenio' = [Duenio EXCEPT ![f] = v]
BY DEF Duenio

\* What a step does with the frames is what Marcos allows.
LEMMA PasoMarcos ==
    ASSUME MapaExacto, MapaExacto', Movimiento,
           \A p \in Procesos : Retenidos(p) \subseteq TodosLosMarcos
    PROVE  M!NextMar \/ Duenio' = Duenio
<1>0. Duenios /\ Duenios'
  BY DuenioDe, DuenioDespues
<1>1. CASE Igual
  <2>1. \A q \in Procesos : Retenidos(q)' = Retenidos(q)
    BY <1>1 DEF Igual, Retenidos
  <2>2. \A f \in TodosLosMarcos : Duenio'[f] = Duenio[f]
    BY <1>0, <2>1, DuenioIgual
  <2> QED BY <2>2 DEF Duenio
<1>2. ASSUME NEW p \in Procesos, NEW f \in TodosLosMarcos, Toma(p, f)
      PROVE  M!NextMar
  <2>1. PICK n : /\ n \notin Vigentes(p) /\ Vigentes(p)' = Vigentes(p) \cup {n}
                 /\ tabla'[p][n] = f
                 /\ \A k \in Vigentes(p) : tabla'[p][k] = tabla[p][k]
    BY <1>2 DEF Toma
  <2>2. Retenidos(p)' = Retenidos(p) \cup {f}
    BY <2>1 DEF Retenidos
  <2>3. \A q \in Procesos \ {p} : Retenidos(q)' = Retenidos(q)
    BY <1>2 DEF Toma, Retenidos
  <2>4. Duenio[f] = Nadie /\ Duenio'[f] = p
    BY <1>0, <1>2, <2>2 DEF Duenios, Toma
  <2>5. \A g \in TodosLosMarcos : g # f => Duenio'[g] = Duenio[g]
    BY <1>0, <2>2, <2>3, DuenioIgual
  <2>6. Duenio' = [Duenio EXCEPT ![f] = p]
    BY <2>4, <2>5, DuenioFuncion
  <2> QED BY <2>4, <2>6 DEF M!NextMar, M!Tomar
<1>3. ASSUME NEW p \in Procesos, NEW n \in Nat, Suelta(p, n)
      PROVE  M!NextMar
  <2>1. /\ n \in Vigentes(p) /\ tabla' = tabla /\ Vigentes(p)' = Vigentes(p) \ {n}
        /\ \A q \in Procesos \ {p} : Vigentes(q)' = Vigentes(q)
        /\ mapa' = mapa \ {tabla[p][n]}
    BY <1>3 DEF Suelta
  <2> DEFINE f == tabla[p][n]
  <2>2. f \in Retenidos(p) /\ f \in TodosLosMarcos
    BY <2>1 DEF Retenidos
  <2>3. Retenidos(p)' = Retenidos(p) \ {tabla[p][n]}
    BY <2>1, RetenidosMenos
  <2>4. \A q \in Procesos \ {p} : Retenidos(q)' = Retenidos(q)
    BY <2>1 DEF Retenidos
  <2>5. f \notin mapa'
    BY <2>1
  <2> SUFFICES ASSUME NEW g, g = f PROVE M!NextMar
    OBVIOUS
  <2>6. g \in TodosLosMarcos /\ g \notin mapa' /\ Retenidos(p)' = Retenidos(p) \ {g}
    BY <2>2, <2>3, <2>5
  <2> HIDE DEF f
  <2>7. Duenio'[g] = Nadie
    BY <1>0, <2>6 DEF Duenios
  <2>8. \A h \in TodosLosMarcos : h # g => Duenio'[h] = Duenio[h]
    BY <1>0, <2>4, <2>6, DuenioIgual
  <2>9. Duenio' = [Duenio EXCEPT ![g] = Nadie]
    BY <2>6, <2>7, <2>8, DuenioFuncion
  <2> QED BY <2>6, <2>9 DEF M!NextMar, M!Soltar
<1> QED BY <1>1, <1>2, <1>3 DEF Movimiento

\* The threads, the bitmap and the page tables implement the abstract memory.
THEOREM ImplementaMarcos == Spec => CumpleMarcos
<1>1. Init => M!InitMar
  <2> SUFFICES ASSUME Init PROVE M!InitMar
    OBVIOUS
  <2>1. \A p \in Procesos : Retenidos(p) = {}
    BY DEF Init, Vigentes, Retenidos
  <2> QED BY <2>1 DEF M!InitMar, Duenio
<1>2. Inv3 /\ Inv3' /\ [Next]_vars => [M!NextMar]_Duenio
  <2> SUFFICES ASSUME Inv3, Inv3', [Next]_vars PROVE M!NextMar \/ Duenio' = Duenio
    OBVIOUS
  <2>1. \A p \in Procesos : Retenidos(p) \subseteq TodosLosMarcos
    BY VigentesTipo DEF Inv3, Inv2
  <2> QED BY <2>1, PasoMovimiento, PasoMarcos DEF Inv3
<1> QED BY <1>1, <1>2, Inicio3, Paso3, PTL DEF Spec, CumpleMarcos, M!SpecMar

-------------------------------------------------------------------------------
(* Whose frames are accessed *)

\* The CPU asks, and is told, for frames of the process that it has; what the
\* device asks for is of a process that is blocked, which keeps its frames until
\* the kernel ends it.
AccesosCPU ==
    /\ \A i \in 1 .. Len(aMem) : aMem[i].op \in {Lectura, Escritura} => ~ EsAjeno(aMem[i])
    /\ deMem # <<>> /\ deMem[1].op = "ACCESO_TABLAS_PAGINAS"
         => deMem[1].marco \in Retenidos(ejecuta)

Pendiente == pasoIO # "libre" /\ estado[pedidoIO.pid] = "bloqueado"

AccesosDisp ==
    /\ Pendiente => pedidoIO.arg \in Retenidos(pedidoIO.pid)
    /\ \A i \in 1 .. Len(aMemIO) :
         aMemIO[i].op = Lectura =>
           i = Len(aMemIO) /\ pasoIO = "termina" /\ aMemIO[i] = pedidoIO /\ deMemIO = <<>>
    /\ deMemIO # <<>> =>
         /\ Len(deMemIO) = 1 /\ pasoIO = "termina" /\ pedidoIO.op = Lectura
         /\ \A i \in 1 .. Len(aMemIO) : aMemIO[i].op # Lectura

Inv4 == Inv3 /\ AccesosCPU /\ AccesosDisp

\* Only what is being destroyed or shrunk loses a frame, ...
LEMMA Conserva ==
    ASSUME Inv1, Movimiento, NEW p \in Procesos, estado[p] # "fin",
           ~ (pasoCPU = "marca" /\ pidCPU = p)
    PROVE  Retenidos(p) \subseteq Retenidos(p)'
<1>1. CASE Igual
  BY <1>1 DEF Igual, Retenidos
<1>2. ASSUME NEW q \in Procesos, NEW f, Toma(q, f)
      PROVE  Retenidos(p) \subseteq Retenidos(p)'
  BY <1>2 DEF Toma, Retenidos
<1>3. ASSUME NEW q \in Procesos, NEW n, Suelta(q, n),
             \/ pasoCPU = "marca" /\ pidCPU = q
             \/ pasoK = "libera" /\ pidK = q
      PROVE  Retenidos(p) \subseteq Retenidos(p)'
  <2>1. p # q
    BY <1>3 DEF Inv1, Fines
  <2> QED BY <1>3, <2>1 DEF Suelta, Retenidos
<1> QED BY <1>1, <1>2, <1>3 DEF Movimiento

\* ... and only a RESIZE that grows gives one.
LEMMA NadieToma ==
    ASSUME Movimiento, pasoCPU # "asigna", NEW p \in Procesos
    PROVE  Retenidos(p)' \subseteq Retenidos(p)
<1>1. CASE Igual
  BY <1>1 DEF Igual, Retenidos
<1>2. ASSUME NEW q \in Procesos, NEW n, Suelta(q, n)
      PROVE  Retenidos(p)' \subseteq Retenidos(p)
  BY <1>2 DEF Suelta, Retenidos
<1> QED BY <1>1, <1>2 DEF Movimiento

\* A frame of a process is of no other.
LEMMA Propio ==
    ASSUME MapaExacto, NEW m, m.pid \in Procesos, m.arg \in Retenidos(m.pid)
    PROVE  ~ EsAjeno(m)
BY Disjuntos DEF EsAjeno

\* The request of the device is still of the one that waits for it.
LEMMA DispConserva ==
    ASSUME Inv4, Movimiento, Pendiente
    PROVE  pedidoIO.pid \in Procesos /\ pedidoIO.arg \in Retenidos(pedidoIO.pid)
           /\ \A p \in Procesos : p = pedidoIO.pid => pedidoIO.arg \in Retenidos(p)'
<1>1. pedidoIO.pid \in Procesos /\ estado[pedidoIO.pid] = "bloqueado"
  BY DEF Inv4, Inv3, Inv2, Inv1, Fines, Pendiente
<1>2. pedidoIO.arg \in Retenidos(pedidoIO.pid)
  BY DEF Inv4, AccesosDisp
<1>3. Inv1
  BY DEF Inv4, Inv3, Inv2
<1>4. ~ (pasoCPU = "marca" /\ pidCPU = pedidoIO.pid)
  BY <1>1, <1>3, EnCurso
<1>5. \A p \in Procesos : p = pedidoIO.pid => pedidoIO.arg \in Retenidos(p)'
  BY <1>1, <1>2, <1>3, <1>4, Conserva
<1> QED BY <1>1, <1>2, <1>5

\* The same, where the device keeps its request and nobody new is blocked.
LEMMA PedidoConserva ==
    ASSUME Inv4, Movimiento, UNCHANGED pedidoIO, pasoIO' # "libre" => pasoIO # "libre",
           \A p \in Procesos : estado'[p] = "bloqueado" => estado[p] = "bloqueado"
    PROVE  Pendiente' => pedidoIO'.arg \in Retenidos(pedidoIO.pid)'
<1> SUFFICES ASSUME Pendiente' PROVE pedidoIO'.arg \in Retenidos(pedidoIO.pid)'
  OBVIOUS
<1>1. pasoIO # "libre" /\ pedidoIO.pid \in Procesos
  BY DEF Pendiente, Inv4, Inv3, Inv2, Inv1, Fines
<1>2. PICK p \in Procesos : p = pedidoIO.pid
  BY <1>1
<1>3. estado'[p] = "bloqueado"
  BY <1>2 DEF Pendiente
<1>4. Pendiente
  BY <1>1, <1>2, <1>3 DEF Pendiente
<1> QED BY <1>2, <1>4, DispConserva

\* Steps that touch nothing of the device and block nobody.
LEMMA DispIgual ==
    ASSUME Inv4, Movimiento, UNCHANGED dispositivo,
           \A p \in Procesos : estado'[p] = "bloqueado" => estado[p] = "bloqueado"
    PROVE  AccesosDisp'
<1>1. UNCHANGED <<pasoIO, pedidoIO, aMemIO, deMemIO>>
  BY DEF dispositivo, socketIO
<1>2. Pendiente' => pedidoIO'.arg \in Retenidos(pedidoIO.pid)'
  BY <1>1, PedidoConserva
<1> QED BY <1>1, <1>2 DEF Inv4, AccesosDisp

\* Steps that add nothing to the sockets of the CPU.
LEMMA CPUIgual ==
    ASSUME Inv4, Movimiento,
           \/ UNCHANGED aMem
           \/ aMem' = <<>>
           \/ aMem # <<>> /\ aMem' = Tail(aMem),
           \/ deMem' = <<>>
           \/ UNCHANGED <<deMem, ejecuta>>
           \/ deMem' # <<>> /\ deMem'[1].op # "ACCESO_TABLAS_PAGINAS"
    PROVE  AccesosCPU'
<1>0. Inv1 /\ aMem \in Seq(Pedidos)
  BY DEF Inv4, Inv3, Inv2, Inv1, TypeOK
<1>2. ASSUME NEW i \in 1 .. Len(aMem'), aMem'[i].op \in {Lectura, Escritura}
      PROVE  ~ \E q \in Procesos \ {aMem'[i].pid} : aMem'[i].arg \in Retenidos(q)'
  <2>1. \E j \in 1 .. Len(aMem) : aMem[j] = aMem'[i]
    <3>1. CASE UNCHANGED aMem
      BY <3>1
    <3>2. CASE aMem # <<>> /\ aMem' = Tail(aMem)
      BY <3>2, <1>0, Sockets
    <3> QED BY <3>1, <3>2
  <2>2. PICK j \in 1 .. Len(aMem) : aMem[j] = aMem'[i]
    BY <2>1
  <2>3. ~ EsAjeno(aMem[j])
    BY <1>2, <2>2 DEF Inv4, AccesosCPU
  <2>4. pasoCPU # "asigna"
    BY <1>0, <2>2 DEF Inv1, Turno
  <2>5. \A q \in Procesos : Retenidos(q)' \subseteq Retenidos(q)
    BY <2>4, NadieToma
  <2> QED BY <2>2, <2>3, <2>5 DEF EsAjeno
<1>3. ASSUME deMem' # <<>>, deMem'[1].op = "ACCESO_TABLAS_PAGINAS"
      PROVE  deMem'[1].marco \in Retenidos(ejecuta)'
  <2>1. UNCHANGED <<deMem, ejecuta>>
    BY <1>3
  <2>2. pasoCPU = "lee" /\ ejecuta \in Procesos /\ estado[ejecuta] = "listo"
    BY <1>0, <1>3, <2>1, Contestada
  <2>3. deMem[1].marco \in Retenidos(ejecuta)
    BY <1>3, <2>1 DEF Inv4, AccesosCPU
  <2>4. \A p \in Procesos : p = ejecuta => Retenidos(p) \subseteq Retenidos(p)'
    BY <1>0, <2>2, Conserva
  <2> QED BY <2>1, <2>2, <2>3, <2>4
<1> QED BY <1>2, <1>3 DEF AccesosCPU, EsAjeno

\* hilo_cpu takes no frame from a process whose access is still to come.
LEMMA CPUAccesos == ASSUME Inv4, HiloCPU, Movimiento PROVE AccesosCPU' /\ AccesosDisp'
<1>0. Inv1 /\ Inv2
  BY DEF Inv4, Inv3, Inv2
<1>1. UNCHANGED <<dispositivo, estado>>
  BY DEF HiloCPU, MandarInstruccion, AccederTabla, Escribir, LeerMemoria, ResizeIgual,
         ResizeExcesivo, ResizeAmpliar, ResizeSinLugar, ResizeReducir, EmpezarAsignar,
         SinMarcos, MarcarLibre, SacarEntradas, AceptarResize, AsignarMarco, Leer, EnPaso
<1>2. AccesosDisp'
  BY <1>1, DispIgual
<1>3. ASSUME NEW op \in Consultas \cup {"OUT_OF_MEMORY", "RESIZE_ACEPTADO"},
             deMem = <<>>, Responder(op, 0), op # "ACCESO_TABLAS_PAGINAS"
      PROVE  deMem' # <<>> /\ deMem'[1].op # "ACCESO_TABLAS_PAGINAS"
  BY <1>3 DEF Responder
<1>4. ASSUME NEW op, Leer(op) PROVE aMem # <<>> /\ aMem' = Tail(aMem) /\ UNCHANGED ejecuta
  BY <1>4 DEF Leer
<1>5. ASSUME NEW op \in Consultas, Leer(op) PROVE deMem = <<>>
  BY <1>0, <1>5, LeerConsulta
<1>6. CASE MandarInstruccion
  BY <1>2, <1>3, <1>4, <1>5, <1>6, CPUIgual DEF MandarInstruccion, Consultas
<1>7. CASE AccederTabla
  <2>1. /\ Pedido.pid = ejecuta /\ ejecuta \in Procesos /\ Pedido.arg \in Nat /\ deMem = <<>>
        /\ estado[ejecuta] = "listo" /\ pasoCPU = "lee" /\ aMem' = <<>>
    BY <1>0, <1>7, LeerConsulta DEF AccederTabla, Consultas
  <2> DEFINE f == tabla[ejecuta][Pedido.arg + 1]
  <2>2. CASE UNCHANGED deMem
    BY <1>2, <1>4, <1>7, <2>2, CPUIgual DEF AccederTabla
  <2>3. CASE Pedido.arg < Len(tabla[ejecuta]) /\ Responder("ACCESO_TABLAS_PAGINAS", f)
    <3>1. Len(tabla[ejecuta]) \in Nat /\ Pedido.arg + 1 \in 1 .. Len(tabla[ejecuta])
      BY <1>0, <2>1, <2>3, VigentesTipo
    <3>2. ~ (pasoK = "libera" /\ pidK = ejecuta)
      BY <1>0, <2>1 DEF Inv1, Fines
    <3>3. Pedido.arg + 1 \in Vigentes(ejecuta)
      BY <2>1, <3>1, <3>2 DEF Vigentes
    <3>4. f \in Retenidos(ejecuta)
      BY <3>3 DEF Retenidos
    <3> HIDE DEF f
    <3>5. deMem' # <<>> /\ deMem'[1].marco = f
      BY <2>1, <2>3 DEF Responder
    <3>6. /\ UNCHANGED ejecuta
          /\ \A p \in Procesos : p = ejecuta => Retenidos(p) \subseteq Retenidos(p)'
      BY <1>0, <1>4, <1>7, <2>1, Conserva DEF AccederTabla
    <3>7. Len(aMem') = 0
      BY <2>1
    <3>8. f \in Retenidos(ejecuta)'
      BY <2>1, <3>4, <3>6
    <3> QED BY <1>2, <3>5, <3>7, <3>8 DEF AccesosCPU
  <2> QED BY <1>7, <2>1, <2>2, <2>3 DEF AccederTabla
<1>8. CASE Escribir
  BY <1>2, <1>4, <1>8, CPUIgual DEF Escribir
<1>9. CASE LeerMemoria
  BY <1>2, <1>3, <1>4, <1>5, <1>9, CPUIgual DEF LeerMemoria, Consultas, Lectura
<1>10. CASE ResizeIgual \/ ResizeAmpliar \/ ResizeReducir
  BY <1>2, <1>4, <1>10, CPUIgual DEF ResizeIgual, ResizeAmpliar, ResizeReducir, Preparar
<1>11. CASE ResizeExcesivo \/ ResizeSinLugar
  BY <1>2, <1>3, <1>4, <1>5, <1>11, CPUIgual DEF ResizeExcesivo, ResizeSinLugar, Consultas
<1>12. CASE EmpezarAsignar \/ SinMarcos \/ MarcarLibre \/ SacarEntradas
            \/ \E f \in TodosLosMarcos : AsignarMarco(f)
  <2>1. UNCHANGED <<aMem, deMem, ejecuta>>
    BY <1>12 DEF EmpezarAsignar, SinMarcos, MarcarLibre, SacarEntradas, AsignarMarco, EnPaso
  <2> QED BY <1>2, <2>1, CPUIgual
<1>13. CASE AceptarResize
  <2>1. pasoCPU = "acepta" /\ UNCHANGED aMem /\ Responder("RESIZE_ACEPTADO", 0)
    BY <1>13 DEF AceptarResize, EnPaso
  <2>2. deMem = <<>>
    BY <1>0, <2>1, EnCurso
  <2> QED BY <1>2, <1>3, <2>1, <2>2, CPUIgual
<1> QED BY <1>6, <1>7, <1>8, <1>9, <1>10, <1>11, <1>12, <1>13 DEF HiloCPU

\* hilo_kernel neither: what it destroys has no access to come.
LEMMA KernelAccesos == ASSUME Inv4, HiloKernel, Movimiento PROVE AccesosCPU' /\ AccesosDisp'
<1>1. UNCHANGED <<aMem, deMem, ejecuta, dispositivo, estado>>
  BY DEF HiloKernel, CrearProceso, CargarInstrucciones, EmpezarFin, LiberarMarco,
         EliminarProceso, KernelEnPaso
<1> QED BY <1>1, CPUIgual, DispIgual

\* The thread of the device answers with what the process still has.
LEMMA IOAccesos == ASSUME Inv4, HiloIO, Movimiento PROVE AccesosCPU' /\ AccesosDisp'
<1>0. Inv1 /\ AccesosDisp
  BY DEF Inv4, Inv3, Inv2
<1>1. UNCHANGED <<aMem, deMem, ejecuta, estado, pasoIO, pedidoIO>>
  BY DEF HiloIO
<1>2. AccesosCPU'
  BY <1>1, CPUIgual
<1>3. /\ aMemIO \in Seq(Pedidos) /\ aMemIO # <<>> /\ aMemIO' = Tail(aMemIO)
      /\ deMemIO' = IF Head(aMemIO).op = Lectura THEN Append(deMemIO, Lectura) ELSE deMemIO
  BY <1>0 DEF HiloIO, Inv1, TypeOK
<1>4. /\ Head(aMemIO) = aMemIO[1] /\ Len(aMemIO) \in Nat \ {0} /\ Len(aMemIO') = Len(aMemIO) - 1
      /\ \A i \in 1 .. Len(aMemIO') : i + 1 \in 1 .. Len(aMemIO) /\ aMemIO'[i] = aMemIO[i + 1]
  BY <1>3, Sockets
<1>5. Pendiente' => pedidoIO'.arg \in Retenidos(pedidoIO.pid)'
  BY <1>1, PedidoConserva
<1>6. CASE Head(aMemIO).op = Lectura
  <2>1. Len(aMemIO) = 1 /\ pasoIO = "termina" /\ deMemIO = <<>> /\ pedidoIO.op = Lectura
    BY <1>0, <1>4, <1>6 DEF AccesosDisp
  <2>2. Len(deMemIO') = 1 /\ Len(aMemIO') = 0
    BY <1>3, <1>4, <1>6, <2>1
  <2> QED BY <1>1, <1>2, <1>5, <2>1, <2>2 DEF AccesosDisp
<1>7. CASE Head(aMemIO).op # Lectura
  <2>1. UNCHANGED deMemIO
    BY <1>3, <1>7
  <2>2. \A i \in 1 .. Len(aMemIO') : aMemIO'[i].op = Lectura =>
          i = Len(aMemIO') /\ pasoIO = "termina" /\ aMemIO'[i] = pedidoIO /\ deMemIO = <<>>
    <3> SUFFICES ASSUME NEW i \in 1 .. Len(aMemIO'), aMemIO'[i].op = Lectura
                 PROVE  /\ i = Len(aMemIO') /\ pasoIO = "termina"
                        /\ aMemIO'[i] = pedidoIO /\ deMemIO = <<>>
      OBVIOUS
    <3>1. i + 1 \in 1 .. Len(aMemIO) /\ aMemIO'[i] = aMemIO[i + 1]
      BY <1>4
    <3>2. i + 1 = Len(aMemIO) /\ pasoIO = "termina" /\ aMemIO[i + 1] = pedidoIO /\ deMemIO = <<>>
      BY <1>0, <3>1 DEF AccesosDisp
    <3>3. i = Len(aMemIO')
      BY <1>4, <3>2
    <3> QED BY <3>1, <3>2, <3>3
  <2>3. deMemIO # <<>> => \A i \in 1 .. Len(aMemIO') : aMemIO'[i].op # Lectura
    BY <1>0, <1>4 DEF AccesosDisp
  <2> QED BY <1>0, <1>1, <1>2, <1>5, <2>1, <2>2, <2>3 DEF AccesosDisp
<1> QED BY <1>6, <1>7

\* What the CPU, the kernel and the device do changes no frame.
LEMMA EntornoRetenidos ==
    ASSUME Entorno
    PROVE  \A q \in Procesos : Retenidos(q)' = Retenidos(q)
BY EntornoAjeno DEF Retenidos, Vigentes

\* The CPU asks for frames that the memory has given to its process.
LEMMA EntornoAccesosCPU == ASSUME Inv4, Entorno, Movimiento PROVE AccesosCPU'
<1>0. Inv1 /\ MapaExacto /\ AccesosCPU
  BY DEF Inv4, Inv3, Inv2
<1>1. ASSUME NEW p \in Procesos,
             IniciarProceso(p) \/ ProcesoCreado(p) \/ FinalizarProceso(p)
      PROVE  AccesosCPU'
  BY <1>1, CPUIgual DEF IniciarProceso, ProcesoCreado, FinalizarProceso
<1>2. CASE AccederIO \/ TerminarIO
  BY <1>2, CPUIgual DEF AccederIO, TerminarIO
<1>3. ASSUME DejarCPU \/ \E p \in Procesos : EntrarCPU(p)
      PROVE  AccesosCPU'
  <2>1. deMem = <<>>
    BY <1>0, <1>3, ConstantesOK DEF DejarCPU, EntrarCPU, Inv1, Turno
  <2> QED BY <1>3, <2>1, CPUIgual DEF DejarCPU, EntrarCPU
<1>4. ASSUME RecibirRespuesta \/ \E op \in AccesosIO : Bloquear(op)
      PROVE  AccesosCPU'
  <2>1. deMem # <<>> /\ deMem' = Tail(deMem) /\ UNCHANGED aMem
    BY <1>4 DEF RecibirRespuesta, Bloquear
  <2>2. deMem' = <<>>
    BY <1>0, <2>1, Contestada
  <2> QED BY <2>1, <2>2, CPUIgual
<1>5. ASSUME NEW op \in {Lectura, Escritura}, Acceder(op)
      PROVE  AccesosCPU'
  <2> DEFINE m == [op |-> op, pid |-> ejecuta, arg |-> Head(deMem).marco]
  <2>1. /\ deMem # <<>> /\ Head(deMem).op = "ACCESO_TABLAS_PAGINAS"
        /\ deMem' = Tail(deMem) /\ aMem' = Append(aMem, m)
    BY <1>5 DEF Acceder
  <2>2. deMem' = <<>> /\ Head(deMem) = deMem[1] /\ aMem = <<>> /\ ejecuta \in Procesos
    BY <1>0, <2>1, Contestada
  <2>3. m.pid \in Procesos /\ m.arg \in Retenidos(m.pid)
    BY <1>0, <2>1, <2>2 DEF AccesosCPU
  <2>4. ~ EsAjeno(m)
    BY <1>0, <2>3, Propio
  <2> HIDE DEF m
  <2>5. ~ \E q \in Procesos \ {m.pid} : m.arg \in Retenidos(q)'
    BY <2>4, EntornoRetenidos DEF EsAjeno
  <2>6. Len(aMem') = 1 /\ aMem'[1] = m
    BY <2>1, <2>2
  <2> QED BY <2>2, <2>5, <2>6 DEF AccesosCPU, EsAjeno
<1>6. ASSUME NEW op \in Consultas \ {Lectura}, NEW arg \in Nat, Pedir(op, arg)
      PROVE  AccesosCPU'
  <2> DEFINE m == [op |-> op, pid |-> ejecuta, arg |-> arg]
  <2>1. aMem' = Append(aMem, m) /\ m.op = op /\ UNCHANGED deMem /\ aMem \in Seq(Pedidos)
        /\ ejecuta # Nadie /\ ~ espera /\ op \notin {Lectura, Escritura}
    BY <1>0, <1>6 DEF Pedir, Inv1, TypeOK, Consultas, Lectura, Escritura
  <2>2. m \in Pedidos /\ deMem = <<>>
    BY <1>0, <1>6, <2>1 DEF Inv1, TypeOK, Turno, Pedidos
  <2> HIDE DEF m
  <2>3. /\ Len(aMem) \in Nat /\ Len(aMem') = Len(aMem) + 1 /\ aMem'[Len(aMem) + 1] = m
        /\ \A i \in 1 .. Len(aMem) : aMem'[i] = aMem[i]
    BY <2>1, <2>2, Sockets
  <2>4. ASSUME NEW i \in 1 .. Len(aMem'), aMem'[i].op \in {Lectura, Escritura}
        PROVE  ~ \E q \in Procesos \ {aMem'[i].pid} : aMem'[i].arg \in Retenidos(q)'
    <3>1. i \in 1 .. Len(aMem) /\ aMem'[i] = aMem[i]
      BY <2>1, <2>3, <2>4
    <3>2. ~ EsAjeno(aMem[i])
      BY <1>0, <2>4, <3>1 DEF AccesosCPU
    <3> QED BY <3>1, <3>2, EntornoRetenidos DEF EsAjeno
  <2> QED BY <2>1, <2>2, <2>4 DEF AccesosCPU, EsAjeno
<1>7. \A n \in 0 .. CantMarcos - 1 : n \in Nat
  BY ConstantesOK
<1>8. {"ENVIO_DE_INSTRUCCIONES", "ENVIO_RESIZE", "ACCESO_TABLAS_PAGINAS"}
        \subseteq Consultas \ {Lectura}
  BY DEF Consultas, Lectura
<1> QED BY <1>1, <1>2, <1>3, <1>4, <1>5, <1>6, <1>7, <1>8, ConstantesOK DEF Entorno

\* The device uses those of a process that is blocked until it ends.
LEMMA EntornoAccesosDisp == ASSUME Inv4, Entorno, Movimiento PROVE AccesosDisp'
<1>0. Inv1 /\ AccesosCPU /\ AccesosDisp
  BY DEF Inv4, Inv3, Inv2
<1>1. ASSUME UNCHANGED dispositivo,
             \A p \in Procesos : estado'[p] = "bloqueado" => estado[p] = "bloqueado"
      PROVE  AccesosDisp'
  BY <1>1, DispIgual
<1>2. ASSUME NEW op \in AccesosIO, Bloquear(op)
      PROVE  AccesosDisp'
  <2>1. /\ deMem # <<>> /\ Head(deMem).op = "ACCESO_TABLAS_PAGINAS" /\ pasoIO = "libre"
        /\ pedidoIO' = [op |-> op, pid |-> ejecuta, arg |-> Head(deMem).marco]
        /\ UNCHANGED <<aMemIO, deMemIO>>
    BY <1>2 DEF Bloquear
  <2>2. Head(deMem) = deMem[1] /\ ejecuta \in Procesos
    BY <1>0, <2>1, Contestada
  <2>3. pedidoIO'.arg \in Retenidos(ejecuta)
    BY <1>0, <2>1, <2>2 DEF AccesosCPU
  <2>4. PICK p \in Procesos : p = ejecuta
    BY <2>2
  <2>5. pedidoIO'.pid = p /\ pedidoIO'.arg \in Retenidos(p)'
    BY <2>1, <2>3, <2>4, EntornoRetenidos
  <2>6. pedidoIO'.arg \in Retenidos(pedidoIO.pid)'
    BY <2>5
  <2>7. deMemIO = <<>> /\ \A i \in 1 .. Len(aMemIO) : aMemIO[i].op # Lectura
    BY <1>0, <2>1 DEF AccesosDisp
  <2> QED BY <2>1, <2>6, <2>7 DEF AccesosDisp
<1>3. CASE AccederIO
  <2>1. /\ pasoIO = "accede" /\ pasoIO' = "termina" /\ aMemIO' = Append(aMemIO, pedidoIO)
        /\ UNCHANGED <<pedidoIO, deMemIO>>
    BY <1>3 DEF AccederIO
  <2>2. pedidoIO \in Pedidos /\ aMemIO \in Seq(Pedidos)
    BY <1>0, <2>1, ConstantesOK DEF Inv1, TypeOK, Fines, Pedidos, Consultas, TodosLosMarcos
  <2>3. /\ Len(aMemIO) \in Nat /\ Len(aMemIO') = Len(aMemIO) + 1
        /\ aMemIO'[Len(aMemIO) + 1] = pedidoIO
        /\ \A i \in 1 .. Len(aMemIO) : aMemIO'[i] = aMemIO[i]
    BY <2>1, <2>2, Sockets
  <2>4. deMemIO = <<>> /\ \A i \in 1 .. Len(aMemIO) : aMemIO[i].op # Lectura
    BY <1>0, <2>1 DEF AccesosDisp
  <2>5. Pendiente' => pedidoIO'.arg \in Retenidos(pedidoIO.pid)'
    BY <1>3, <2>1, PedidoConserva DEF AccederIO
  <2> QED BY <2>1, <2>3, <2>4, <2>5 DEF AccesosDisp
<1>4. CASE TerminarIO
  <2>1. /\ pasoIO = "termina" /\ pasoIO' = "libre" /\ ~ Pendiente' /\ UNCHANGED aMemIO
        /\ pedidoIO.op = Lectura => deMemIO # <<>>
        /\ deMemIO' = IF pedidoIO.op = Lectura THEN Tail(deMemIO) ELSE deMemIO
    BY <1>4 DEF TerminarIO, Pendiente
  <2>2. CASE deMemIO # <<>> /\ pedidoIO.op = Lectura
    <3>1. deMemIO' = <<>> /\ \A i \in 1 .. Len(aMemIO) : aMemIO[i].op # Lectura
      BY <1>0, <2>1, <2>2, UnSolo DEF AccesosDisp, Inv1, TypeOK
    <3> QED BY <2>1, <3>1 DEF AccesosDisp
  <2>3. CASE pedidoIO.op # Lectura
    <3>1. \A i \in 1 .. Len(aMemIO) : aMemIO[i].op # Lectura
      BY <1>0, <2>3 DEF AccesosDisp
    <3>2. deMemIO' = <<>>
      BY <1>0, <2>1, <2>3 DEF AccesosDisp
    <3> QED BY <2>1, <3>1, <3>2 DEF AccesosDisp
  <2> QED BY <2>1, <2>2, <2>3
<1>5. ASSUME \/ DejarCPU \/ RecibirRespuesta \/ (\E op : Acceder(op)) \/ (\E op, a : Pedir(op, a))
             \/ \E p \in Procesos : EntrarCPU(p)
      PROVE  AccesosDisp'
  <2>1. UNCHANGED <<dispositivo, estado>>
    BY <1>5 DEF DejarCPU, RecibirRespuesta, Acceder, Pedir, EntrarCPU
  <2> QED BY <1>1, <2>1
<1>6. ASSUME NEW p \in Procesos, IniciarProceso(p) \/ ProcesoCreado(p) \/ FinalizarProceso(p)
      PROVE  AccesosDisp'
  <2>1. PICK e \in {"creando", "listo", "fin"} : estado' = [estado EXCEPT ![p] = e]
    BY <1>6 DEF IniciarProceso, ProcesoCreado, FinalizarProceso
  <2>2. estado'[p] = e /\ \A q \in Procesos : q # p => estado'[q] = estado[q]
    BY <1>0, <2>1, CambiaEstado
  <2>3. \A q \in Procesos : estado'[q] = "bloqueado" => estado[q] = "bloqueado"
    BY <2>2
  <2>4. UNCHANGED dispositivo
    BY <1>6 DEF IniciarProceso, ProcesoCreado, FinalizarProceso
  <2> QED BY <1>1, <2>3, <2>4
<1> QED BY <1>2, <1>3, <1>4, <1>5, <1>6 DEF Entorno

\* At the start there is no access to come.
LEMMA Inicio4 == Init => Inv4
<1> SUFFICES ASSUME Init PROVE AccesosCPU /\ AccesosDisp
  BY Inicio3 DEF Inv4
<1> QED BY DEF Init, AccesosCPU, AccesosDisp, Pendiente

\* Every step keeps the accesses to come in frames of their process.
LEMMA Paso4 == Inv4 /\ [Next]_vars => Inv4'
<1> SUFFICES ASSUME Inv4, [Next]_vars PROVE AccesosCPU' /\ AccesosDisp'
  BY Paso3 DEF Inv4
<1>1. Movimiento
  BY PasoMovimiento DEF Inv4, Inv3
<1>2. CASE UNCHANGED vars
  BY <1>1, <1>2, CPUIgual, DispIgual DEF vars
<1> QED BY <1>1, <1>2, CPUAccesos, KernelAccesos, IOAccesos, EntornoAccesosCPU,
          EntornoAccesosDisp DEF Next

\* No access of the CPU, and no read of a device for a process that still waits
\* for it, reaches a frame that has passed to another process meanwhile.
THEOREM AccesosPropios == Spec => []AccesoPropio
<1>1. Inv4 => AccesoPropio
  <2> SUFFICES ASSUME Inv4 PROVE AccesoPropio
    OBVIOUS
  <2>0. TypeOK /\ MapaExacto /\ AccesosCPU /\ AccesosDisp
    BY DEF Inv4, Inv3, Inv2, Inv1
  <2>1. ASSUME aMem # <<>>, Pedido.op \in {Lectura, Escritura} PROVE ~ EsAjeno(Pedido)
    <3>1. Pedido = aMem[1] /\ 1 \in 1 .. Len(aMem)
      BY <2>0, <2>1, Sockets DEF TypeOK, Pedido
    <3> QED BY <2>0, <2>1, <3>1 DEF AccesosCPU
  <2>2. ASSUME aMemIO # <<>>, Head(aMemIO).op = Lectura, estado[Head(aMemIO).pid] # "fin"
        PROVE  ~ EsAjeno(Head(aMemIO))
    <3>1. Head(aMemIO) = aMemIO[1] /\ 1 \in 1 .. Len(aMemIO)
      BY <2>0, <2>2, Sockets DEF TypeOK
    <3>2. Head(aMemIO) = pedidoIO /\ pasoIO # "libre"
      BY <2>0, <2>2, <3>1 DEF AccesosDisp
    <3>3. pedidoIO.pid \in Procesos /\ pedidoIO.arg \in Retenidos(pedidoIO.pid)
      BY <2>0, <2>2, <3>2 DEF AccesosDisp, Pendiente, Inv4, Inv3, Inv2, Inv1, Fines
    <3> QED BY <2>0, <3>2, <3>3, Propio
  <2> QED BY <2>1, <2>2 DEF AccesoPropio
<1> QED BY Inicio4, Paso4, <1>1, PTL DEF Spec

-------------------------------------------------------------------------------
(* Who is in the list of processes *)

\* One process is created at a time: its request, hilo_kernel with it, or the
\* answer is on its way.
Creando ==
    /\ \A p, q \in Procesos : estado[p] = "creando" /\ estado[q] = "creando" => p = q
    /\ \A i \in 1 .. Len(aMemK) :
         aMemK[i].op = "CREACION_PROCESO" =>
           /\ estado[aMemK[i].pid] = "creando" /\ pasoK # "carga" /\ deMemK = <<>>
           /\ \A j \in 1 .. Len(aMemK) : aMemK[j].op = "CREACION_PROCESO" => i = j
    /\ pasoK = "carga" => estado[pidK] = "creando" /\ deMemK = <<>>
    /\ deMemK # <<>> =>
         /\ Len(deMemK) = 1
         /\ \E p \in Procesos : estado[p] = "creando" /\ p \in lista

\* A process is in the list from its creation until it is destroyed, which is
\* asked for once.
Presentes ==
    /\ \A p \in Procesos : estado[p] \in {"listo", "bloqueado"} => p \in lista
    /\ pasoK = "libera" => pidK \in lista
    /\ \A i \in 1 .. Len(aMemK) :
         aMemK[i].op = "FINALIZAR_PROCESO" =>
           /\ aMemK[i].pid \in lista
           /\ pasoK = "libera" => aMemK[i].pid # pidK
           /\ \A j \in 1 .. Len(aMemK) : aMemK[j] = aMemK[i] => i = j

\* It keeps its frames until then, and no page is asked for that it has not.
Vigencia ==
    /\ \A p \in lista : estado[p] = "fin" => Paginas(tamanio[p]) <= Len(tabla[p])
    /\ \A i \in 1 .. Len(aMem) :
         aMem[i].op = "ACCESO_TABLAS_PAGINAS" => aMem[i].arg < Paginas(tamanio[ejecuta])

Inv5 == Inv2 /\ Creando /\ Presentes /\ Vigencia /\ SinCaida

\* hilo_cpu changes only the process in the CPU, which is in the list.
LEMMA CPUInv5 == ASSUME Inv5, HiloCPU PROVE Creando' /\ Presentes' /\ Vigencia' /\ SinCaida'
<1>0. Inv1 /\ Inv2 /\ ~ caida /\ Presentes /\ Vigencia
  BY DEF Inv5, Inv2, SinCaida
<1>1. UNCHANGED <<estado, ejecuta, aMemK, deMemK, hiloKernel, lista>>
  BY DEF HiloCPU, MandarInstruccion, AccederTabla, Escribir, LeerMemoria, ResizeIgual,
         ResizeExcesivo, ResizeAmpliar, ResizeSinLugar, ResizeReducir, EmpezarAsignar, Preparar,
         SinMarcos, MarcarLibre, SacarEntradas, AceptarResize, AsignarMarco, Leer, EnPaso
<1>2. Creando' /\ Presentes'
  BY <1>1 DEF Inv5, Creando, Presentes
<1>3. ASSUME NEW p \in Procesos, estado[p] = "fin"
      PROVE  tabla'[p] = tabla[p] /\ tamanio'[p] = tamanio[p]
  <2>1. CASE UNCHANGED <<tabla, tamanio>>
    BY <2>1
  <2>2. CASE pasoCPU # "lee"
    <3>1. p # pidCPU
      BY <1>0, <1>3, <2>2, EnCurso
    <3> QED BY <1>0, <2>2, <3>1 DEF HiloCPU, MandarInstruccion, AccederTabla, Escribir,
         LeerMemoria, ResizeIgual, ResizeExcesivo, ResizeAmpliar, ResizeSinLugar,
         ResizeReducir, EmpezarAsignar,
         SinMarcos, MarcarLibre, SacarEntradas, AceptarResize, AsignarMarco, Leer, EnPaso,
         Inv1, TypeOK
  <2>3. CASE pasoCPU = "lee"
    BY <2>1, <2>3 DEF HiloCPU, MandarInstruccion, AccederTabla, Escribir, LeerMemoria, ResizeIgual,
         ResizeExcesivo, ResizeAmpliar, ResizeSinLugar, ResizeReducir, EmpezarAsignar, Preparar,
         SinMarcos, MarcarLibre, SacarEntradas, AceptarResize, AsignarMarco, EnPaso
  <2> QED BY <2>2, <2>3
<1>4. \/ aMem' = <<>> \/ Escribir
  <2>1. ASSUME NEW op \in Consultas, Leer(op) PROVE aMem' = <<>>
    BY <1>0, <2>1, LeerConsulta
  <2>2. ASSUME NEW a, NEW b, EnPaso(a, b), a # "lee" PROVE aMem' = <<>>
    BY <1>0, <2>2, EnCurso DEF EnPaso
  <2> QED BY <2>1, <2>2 DEF HiloCPU, MandarInstruccion, AccederTabla, LeerMemoria, ResizeIgual,
         ResizeExcesivo, ResizeAmpliar, ResizeSinLugar, ResizeReducir, EmpezarAsignar,
         SinMarcos, MarcarLibre, SacarEntradas, AceptarResize, AsignarMarco, Consultas
<1>5. ASSUME NEW i \in 1 .. Len(aMem'), aMem'[i].op = "ACCESO_TABLAS_PAGINAS"
      PROVE  aMem'[i].arg < Paginas(tamanio'[ejecuta'])
  <2>1. Escribir
    BY <1>4, <1>5
  <2>2. aMem \in Seq(Pedidos) /\ aMem # <<>> /\ aMem' = Tail(aMem) /\ UNCHANGED tamanio
    BY <1>0, <2>1 DEF Escribir, Leer, Inv1, TypeOK
  <2>3. i + 1 \in 1 .. Len(aMem) /\ aMem'[i] = aMem[i + 1]
    BY <2>2, Sockets
  <2> QED BY <1>0, <1>1, <1>5, <2>2, <2>3 DEF Vigencia
<1>6. Vigencia'
  <2>1. ASSUME NEW p \in lista', estado'[p] = "fin"
        PROVE  Paginas(tamanio'[p]) <= Len(tabla'[p])
    BY <1>0, <1>1, <1>3, <2>1 DEF Vigencia, Inv1, TypeOK
  <2> QED BY <1>5, <2>1 DEF Vigencia
<1>7. ASSUME NEW op \in Consultas, Leer(op) PROVE Pedido.pid \in lista
  BY <1>0, <1>7, LeerConsulta DEF Presentes
<1>8. CASE AccederTabla
  <2>1. /\ Pedido.pid = ejecuta /\ ejecuta \in Procesos /\ estado[ejecuta] = "listo"
        /\ Pedido.arg \in Nat /\ Pedido.op = "ACCESO_TABLAS_PAGINAS" /\ pasoCPU = "lee"
    BY <1>0, <1>8, LeerConsulta DEF AccederTabla, Consultas
  <2>2. Pedido = aMem[1] /\ 1 \in 1 .. Len(aMem)
    BY <1>0, <1>8, Sockets DEF AccederTabla, Leer, Pedido, Inv1, TypeOK
  <2>3. Pedido.arg < Paginas(tamanio[ejecuta])
    BY <1>0, <2>1, <2>2 DEF Vigencia
  <2>4. Paginas(tamanio[ejecuta]) <= Len(tabla[ejecuta])
    BY <1>0, <2>1 DEF Inv2, Cuentas, Respaldo
  <2>5. Paginas(tamanio[ejecuta]) \in Nat /\ Len(tabla[ejecuta]) \in Nat
    <3>1. tamanio[ejecuta] \in Nat
      BY <1>0, <2>1 DEF Inv1, TypeOK
    <3>2. Paginas(tamanio[ejecuta]) \in Nat
      BY <3>1, PaginasCrece
    <3> QED BY <1>0, <2>1, <3>2, VigentesTipo
  <2>6. Pedido.arg < Len(tabla[ejecuta])
    BY <2>1, <2>3, <2>4, <2>5
  <2> QED BY <1>2, <1>6, <1>8, <2>1, <2>6 DEF AccederTabla, SinCaida
<1>9. CASE MandarInstruccion \/ ResizeIgual \/ ResizeExcesivo \/ ResizeAmpliar
           \/ ResizeSinLugar \/ ResizeReducir
  BY <1>2, <1>6, <1>7, <1>9 DEF MandarInstruccion, ResizeIgual, ResizeExcesivo, ResizeAmpliar,
     ResizeSinLugar, ResizeReducir, Preparar, Consultas, SinCaida
<1>10. CASE Escribir \/ LeerMemoria \/ EmpezarAsignar \/ SinMarcos \/ MarcarLibre
            \/ SacarEntradas \/ AceptarResize \/ \E f \in TodosLosMarcos : AsignarMarco(f)
  BY <1>0, <1>2, <1>6, <1>10 DEF Escribir, LeerMemoria, EmpezarAsignar, SinMarcos, MarcarLibre,
     SacarEntradas, AceptarResize, AsignarMarco, EnPaso, SinCaida
<1> QED BY <1>8, <1>9, <1>10 DEF HiloCPU

\* hilo_kernel destroys only what it created and nobody uses any more.
LEMMA KernelInv5 == ASSUME Inv5, HiloKernel PROVE Creando' /\ Presentes' /\ Vigencia' /\ SinCaida'
<1>0. /\ Inv1 /\ Creando /\ Presentes /\ Vigencia /\ ~ caida
      /\ UNCHANGED <<estado, ejecuta, aMem, tamanio>>
  BY DEF Inv5, Inv2, SinCaida, HiloKernel, CrearProceso, CargarInstrucciones, EmpezarFin,
         LiberarMarco, EliminarProceso, KernelEnPaso
<1>1. CASE CrearProceso
  <2>1. /\ LeerKernel("CREACION_PROCESO") /\ pasoK = "lee" /\ pasoK' = "carga"
        /\ lista' = lista \cup {pidK'} /\ UNCHANGED <<tabla, deMemK, caida>>
    BY <1>1 DEF CrearProceso, KernelEnPaso, LeerKernel
  <2>2. /\ estado[pidK'] = "creando" /\ deMemK = <<>> /\ pidK' \in Procesos
        /\ \A j \in 1 .. Len(aMemK) : aMemK[j].op = "CREACION_PROCESO" => j = 1
    BY <1>0, <2>1, LeerMensaje DEF Creando
  <2>3. \A i \in 1 .. Len(aMemK') :
          i + 1 \in 1 .. Len(aMemK) /\ aMemK'[i] = aMemK[i + 1] /\ i + 1 # 1
    BY <1>0, <2>1, LeerMensaje
  <2>4. \A i \in 1 .. Len(aMemK') : aMemK'[i].op # "CREACION_PROCESO"
    BY <2>2, <2>3
  <2>5. Creando'
    BY <1>0, <2>1, <2>2, <2>4 DEF Creando
  <2>6. ASSUME NEW i \in 1 .. Len(aMemK'), aMemK'[i].op = "FINALIZAR_PROCESO"
        PROVE  /\ aMemK'[i].pid \in lista
               /\ \A j \in 1 .. Len(aMemK') : aMemK'[j] = aMemK'[i] => i = j
    BY <1>0, <2>3, <2>6 DEF Presentes
  <2>7. Presentes'
    BY <1>0, <2>1, <2>6 DEF Presentes
  <2>8. Vigencia'
    BY <1>0, <2>1, <2>2 DEF Vigencia
  <2> QED BY <1>0, <2>1, <2>5, <2>7, <2>8 DEF SinCaida
<1>2. CASE CargarInstrucciones
  <2>1. /\ pasoK = "carga" /\ pasoK' = "lee" /\ deMemK' = Append(deMemK, "PAQUETE")
        /\ UNCHANGED <<aMemK, lista, tabla, caida>>
    BY <1>2 DEF CargarInstrucciones, KernelEnPaso
  <2>2. estado[pidK] = "creando" /\ deMemK = <<>> /\ pidK \in lista /\ pidK \in Procesos
    BY <1>0, <2>1 DEF Creando, Inv1, Fines, TypeOK
  <2>3. Len(deMemK') = 1
    BY <2>1, <2>2
  <2>4. \A i \in 1 .. Len(aMemK) : aMemK[i].op # "CREACION_PROCESO"
    BY <1>0, <2>1 DEF Creando
  <2>5. Creando'
    BY <1>0, <2>1, <2>2, <2>3, <2>4 DEF Creando
  <2>6. Presentes' /\ Vigencia'
    BY <1>0, <2>1 DEF Presentes, Vigencia
  <2> QED BY <1>0, <2>1, <2>5, <2>6 DEF SinCaida
<1>3. CASE EmpezarFin
  <2>1. /\ LeerKernel("FINALIZAR_PROCESO") /\ pasoK = "lee" /\ pasoK' = "libera"
        /\ caida' = (pidK' \notin lista) /\ UNCHANGED <<tabla, deMemK, lista>>
    BY <1>3 DEF EmpezarFin, KernelEnPaso, LeerKernel
  <2>2. /\ pidK' = aMemK[1].pid /\ 1 \in 1 .. Len(aMemK) /\ aMemK[1].op = "FINALIZAR_PROCESO"
        /\ \A i \in 1 .. Len(aMemK') :
             i + 1 \in 1 .. Len(aMemK) /\ aMemK'[i] = aMemK[i + 1] /\ i + 1 # 1
    BY <1>0, <2>1, LeerMensaje
  <2>3. pidK' \in lista
    BY <1>0, <2>2 DEF Presentes
  <2>4. ASSUME NEW i \in 1 .. Len(aMemK'), aMemK'[i].op = "CREACION_PROCESO"
        PROVE  /\ estado[aMemK'[i].pid] = "creando" /\ deMemK = <<>>
               /\ \A j \in 1 .. Len(aMemK') : aMemK'[j].op = "CREACION_PROCESO" => i = j
    <3>1. aMemK'[i] = aMemK[i + 1] /\ i + 1 \in 1 .. Len(aMemK)
      BY <2>2
    <3>2. /\ estado[aMemK[i + 1].pid] = "creando" /\ deMemK = <<>>
          /\ \A j \in 1 .. Len(aMemK) : aMemK[j].op = "CREACION_PROCESO" => i + 1 = j
      BY <1>0, <2>4, <3>1 DEF Creando
    <3>3. ASSUME NEW j \in 1 .. Len(aMemK'), aMemK'[j].op = "CREACION_PROCESO" PROVE i = j
      <4>1. j + 1 \in 1 .. Len(aMemK) /\ aMemK[j + 1].op = "CREACION_PROCESO"
        BY <2>2, <3>3
      <4>2. i + 1 = j + 1
        BY <3>2, <4>1
      <4> QED BY <4>2
    <3> QED BY <3>1, <3>2, <3>3
  <2>5. Creando'
    BY <1>0, <2>1, <2>4 DEF Creando
  <2>6. ASSUME NEW i \in 1 .. Len(aMemK'), aMemK'[i].op = "FINALIZAR_PROCESO"
        PROVE  /\ aMemK'[i].pid \in lista /\ aMemK'[i].pid # pidK'
               /\ \A j \in 1 .. Len(aMemK') : aMemK'[j] = aMemK'[i] => i = j
    <3>1. aMemK'[i] = aMemK[i + 1] /\ i + 1 \in 1 .. Len(aMemK) /\ i + 1 # 1
      BY <2>2
    <3>2. /\ aMemK[i + 1].pid \in lista
          /\ \A j \in 1 .. Len(aMemK) : aMemK[j] = aMemK[i + 1] => i + 1 = j
      BY <1>0, <2>6, <3>1 DEF Presentes
    <3>3. aMemK[1] # aMemK[i + 1]
      BY <2>2, <3>1, <3>2
    <3>4. aMemK \in Seq(Mensajes)
      BY <1>0 DEF Inv1, TypeOK, Mensajes
    <3>5. aMemK[i + 1].pid # aMemK[1].pid
      <4>1. aMemK[i + 1] \in Mensajes /\ aMemK[1] \in Mensajes
        BY <2>2, <3>1, <3>4
      <4>2. aMemK[i + 1].op = aMemK[1].op
        BY <2>2, <2>6, <3>1
      <4>3. \A m, n \in Mensajes : m.op = n.op /\ m.pid = n.pid => m = n
        BY DEF Mensajes
      <4> QED BY <3>3, <4>1, <4>2, <4>3
    <3>6. \A j \in 1 .. Len(aMemK') : aMemK'[j] = aMemK'[i] => i = j
      BY <2>2, <3>1, <3>2
    <3> QED BY <2>2, <3>1, <3>2, <3>5, <3>6
  <2>7. Presentes'
    BY <1>0, <2>1, <2>3, <2>6 DEF Presentes
  <2>8. Vigencia'
    BY <1>0, <2>1 DEF Vigencia
  <2> QED BY <2>1, <2>3, <2>5, <2>7, <2>8 DEF SinCaida
<1>4. CASE LiberarMarco
  <2>1. UNCHANGED <<aMemK, deMemK, pidK, lista, tabla, caida, pasoK>>
    BY <1>4 DEF LiberarMarco, KernelEnPaso
  <2> QED BY <1>0, <2>1 DEF Creando, Presentes, Vigencia, SinCaida
<1>5. CASE EliminarProceso
  <2>1. /\ pasoK = "libera" /\ pasoK' = "lee" /\ lista' = lista \ {pidK}
        /\ tabla' = [tabla EXCEPT ![pidK] = <<>>] /\ UNCHANGED <<aMemK, deMemK, caida>>
    BY <1>5 DEF EliminarProceso, KernelEnPaso
  <2>2. estado[pidK] = "fin" /\ pidK \in Procesos
    BY <1>0, <2>1 DEF Inv1, Fines
  <2>3. Creando'
    BY <1>0, <2>1, <2>2 DEF Creando
  <2>4. Presentes'
    BY <1>0, <2>1, <2>2 DEF Presentes
  <2>5. \A p \in lista' : tabla'[p] = tabla[p]
    BY <1>0, <2>1 DEF Inv1, TypeOK
  <2>6. Vigencia'
    BY <1>0, <2>1, <2>5 DEF Vigencia
  <2> QED BY <1>0, <2>1, <2>3, <2>4, <2>6 DEF SinCaida
<1> QED BY <1>1, <1>2, <1>3, <1>4, <1>5 DEF HiloKernel

\* Whoever asks names processes that have been created, and pages that they have.
LEMMA EntornoInv5 == ASSUME Inv5, Entorno PROVE Creando' /\ Presentes' /\ Vigencia' /\ SinCaida'
<1>0. /\ Inv1 /\ Creando /\ Presentes /\ Vigencia /\ ~ caida /\ Respaldo
      /\ UNCHANGED memoria
  BY EntornoAjeno DEF Inv5, Inv2, Cuentas, SinCaida
<1>1. SinCaida'
  BY <1>0 DEF SinCaida
<1>2. ASSUME NEW p \in Procesos, IniciarProceso(p)
      PROVE  Creando' /\ Presentes' /\ Vigencia'
  <2> DEFINE m == [op |-> "CREACION_PROCESO", pid |-> p]
  <2>1. /\ estado[p] = "nada" /\ \A q \in Procesos : estado[q] # "creando"
        /\ estado' = [estado EXCEPT ![p] = "creando"] /\ aMemK' = Append(aMemK, m)
        /\ UNCHANGED <<deMemK, aMem, ejecuta>>
    BY <1>2 DEF IniciarProceso
  <2>2. m \in Mensajes /\ m.op = "CREACION_PROCESO" /\ m.pid = p
    BY DEF Mensajes
  <2> HIDE DEF m
  <2>3. /\ Len(aMemK) \in Nat /\ Len(aMemK') = Len(aMemK) + 1 /\ aMemK'[Len(aMemK) + 1] = m
        /\ \A i \in 1 .. Len(aMemK) : aMemK'[i] = aMemK[i] /\ aMemK[i] \in Mensajes
    BY <1>0, <2>1, <2>2, MandarMensaje
  <2>4. estado'[p] = "creando" /\ \A q \in Procesos : q # p => estado'[q] = estado[q]
    BY <1>0, <2>1, CambiaEstado
  <2>5. /\ deMemK = <<>> /\ pasoK # "carga"
        /\ \A i \in 1 .. Len(aMemK) : aMemK[i].op # "CREACION_PROCESO"
    BY <1>0, <2>1, MensajesKernel DEF Creando, Inv1, TypeOK, Fines
  <2>6. Creando'
    BY <1>0, <2>1, <2>2, <2>3, <2>4, <2>5 DEF Creando
  <2>7. ASSUME NEW i \in 1 .. Len(aMemK'), aMemK'[i].op = "FINALIZAR_PROCESO"
        PROVE  /\ aMemK'[i].pid \in lista
               /\ pasoK = "libera" => aMemK'[i].pid # pidK
               /\ \A j \in 1 .. Len(aMemK') : aMemK'[j] = aMemK'[i] => i = j
    BY <1>0, <2>2, <2>3, <2>7 DEF Presentes
  <2>8. Presentes'
    BY <1>0, <2>4, <2>7 DEF Presentes
  <2>9. Vigencia'
    BY <1>0, <2>1, <2>4 DEF Vigencia, Inv1, TypeOK
  <2> QED BY <2>6, <2>8, <2>9
<1>3. ASSUME NEW p \in Procesos, ProcesoCreado(p)
      PROVE  Creando' /\ Presentes' /\ Vigencia'
  <2>1. /\ estado[p] = "creando" /\ estado' = [estado EXCEPT ![p] = "listo"] /\ deMemK # <<>>
        /\ deMemK' = Tail(deMemK) /\ UNCHANGED <<aMemK, aMem, ejecuta>>
    BY <1>3 DEF ProcesoCreado
  <2>2. estado'[p] = "listo" /\ \A q \in Procesos : q # p => estado'[q] = estado[q]
    BY <1>0, <2>1, CambiaEstado
  <2>3. p \in lista /\ Len(deMemK) = 1
    BY <1>0, <2>1 DEF Creando
  <2>4. deMemK' = <<>>
    BY <1>0, <2>1, <2>3, UnSolo DEF Inv1, TypeOK
  <2>5. pasoK # "carga" /\ \A i \in 1 .. Len(aMemK) : aMemK[i].op # "CREACION_PROCESO"
    BY <1>0, <2>1 DEF Creando
  <2>6. Creando'
    BY <1>0, <2>1, <2>2, <2>4, <2>5 DEF Creando
  <2>7. Presentes'
    BY <1>0, <2>1, <2>2, <2>3 DEF Presentes
  <2>8. Vigencia'
    BY <1>0, <2>1, <2>2 DEF Vigencia, Inv1, TypeOK
  <2> QED BY <2>6, <2>7, <2>8
<1>4. ASSUME NEW p \in Procesos, FinalizarProceso(p)
      PROVE  Creando' /\ Presentes' /\ Vigencia'
  <2> DEFINE m == [op |-> "FINALIZAR_PROCESO", pid |-> p]
  <2>1. /\ estado[p] \in {"listo", "bloqueado"} /\ ejecuta # p
        /\ estado' = [estado EXCEPT ![p] = "fin"] /\ aMemK' = Append(aMemK, m)
        /\ UNCHANGED <<deMemK, aMem, ejecuta>>
    BY <1>4 DEF FinalizarProceso
  <2>2. m \in Mensajes /\ m.op = "FINALIZAR_PROCESO" /\ m.pid = p
    BY DEF Mensajes
  <2> HIDE DEF m
  <2>3. /\ Len(aMemK) \in Nat /\ Len(aMemK') = Len(aMemK) + 1 /\ aMemK'[Len(aMemK) + 1] = m
        /\ \A i \in 1 .. Len(aMemK) : aMemK'[i] = aMemK[i] /\ aMemK[i] \in Mensajes
    BY <1>0, <2>1, <2>2, MandarMensaje
  <2>4. estado'[p] = "fin" /\ \A q \in Procesos : q # p => estado'[q] = estado[q]
    BY <1>0, <2>1, CambiaEstado
  <2>5. \A i \in 1 .. Len(aMemK) :
          /\ aMemK[i].op = "FINALIZAR_PROCESO" => aMemK[i].pid # p
          /\ aMemK[i].op = "CREACION_PROCESO" => aMemK[i].pid # p /\ aMemK[i].pid \in Procesos
    BY <1>0, <2>1, MensajesKernel DEF Creando
  <2>6. Creando'
    <3>1. ASSUME NEW i \in 1 .. Len(aMemK'), aMemK'[i].op = "CREACION_PROCESO"
          PROVE  /\ estado'[aMemK'[i].pid] = "creando" /\ pasoK # "carga" /\ deMemK = <<>>
                 /\ \A j \in 1 .. Len(aMemK') : aMemK'[j].op = "CREACION_PROCESO" => i = j
      BY <1>0, <2>2, <2>3, <2>4, <2>5, <3>1 DEF Creando
    <3>2. pasoK = "carga" => estado'[pidK] = "creando" /\ deMemK = <<>>
      BY <1>0, <2>1, <2>4 DEF Creando, Inv1, TypeOK, Fines
    <3>3. \A q \in Procesos : estado'[q] = "creando" <=> estado[q] = "creando"
      BY <2>1, <2>4
    <3> QED BY <1>0, <2>1, <3>1, <3>2, <3>3 DEF Creando
  <2>7. ASSUME NEW i \in 1 .. Len(aMemK'), aMemK'[i].op = "FINALIZAR_PROCESO"
        PROVE  /\ aMemK'[i].pid \in lista
               /\ pasoK = "libera" => aMemK'[i].pid # pidK
               /\ \A j \in 1 .. Len(aMemK') : aMemK'[j] = aMemK'[i] => i = j
    <3>1. p \in lista /\ (pasoK = "libera" => p # pidK)
      BY <1>0, <2>1 DEF Presentes, Inv1, Fines
    <3> QED BY <1>0, <2>2, <2>3, <2>5, <2>7, <3>1 DEF Presentes
  <2>8. Presentes'
    BY <1>0, <2>4, <2>7 DEF Presentes
  <2>9. Paginas(tamanio[p]) <= Len(tabla[p])
    BY <1>0, <2>1, EnCurso DEF Respaldo
  <2>10. Vigencia'
    BY <1>0, <2>1, <2>4, <2>9 DEF Vigencia, Inv1, TypeOK
  <2> QED BY <2>6, <2>8, <2>10
<1>5. ASSUME NEW p \in Procesos, NEW e \in {"listo", "bloqueado"},
             estado[p] \in {"listo", "bloqueado"}, estado' = [estado EXCEPT ![p] = e],
             UNCHANGED <<aMemK, deMemK>>
      PROVE  /\ Creando' /\ Presentes'
             /\ \A q \in Procesos : estado'[q] = "fin" => estado[q] = "fin"
  <2>1. estado'[p] = e /\ \A q \in Procesos : q # p => estado'[q] = estado[q]
    BY <1>0, <1>5, CambiaEstado
  <2>2. \A q \in Procesos : estado'[q] = "creando" <=> estado[q] = "creando"
    BY <1>5, <2>1
  <2>3. Creando'
    <3>1. ASSUME NEW i \in 1 .. Len(aMemK), aMemK[i].op = "CREACION_PROCESO"
          PROVE  /\ estado'[aMemK[i].pid] = "creando" /\ pasoK # "carga" /\ deMemK = <<>>
                 /\ \A j \in 1 .. Len(aMemK) : aMemK[j].op = "CREACION_PROCESO" => i = j
      BY <1>0, <2>2, <3>1, MensajesKernel DEF Creando
    <3>2. pasoK = "carga" => estado'[pidK] = "creando" /\ deMemK = <<>>
      BY <1>0, <2>2 DEF Creando, Inv1, TypeOK, Fines
    <3>3. deMemK # <<>> =>
            Len(deMemK) = 1 /\ \E q \in Procesos : estado'[q] = "creando" /\ q \in lista
      BY <1>0, <2>2 DEF Creando
    <3>4. \A q, r \in Procesos : estado'[q] = "creando" /\ estado'[r] = "creando" => q = r
      BY <1>0, <2>2 DEF Creando
    <3>5. UNCHANGED <<aMemK, deMemK, pasoK, pidK, lista>>
      BY <1>0, <1>5
    <3> QED BY <3>1, <3>2, <3>3, <3>4, <3>5 DEF Creando
  <2>4. Presentes'
    BY <1>0, <1>5, <2>1 DEF Presentes
  <2> QED BY <1>5, <2>1, <2>3, <2>4
<1>6. ASSUME NEW op \in AccesosIO, Bloquear(op)
      PROVE  Creando' /\ Presentes' /\ Vigencia'
  <2>1. /\ estado' = [estado EXCEPT ![ejecuta] = "bloqueado"] /\ deMem # <<>>
        /\ UNCHANGED <<aMem, aMemK, deMemK>>
    BY <1>6 DEF Bloquear
  <2>2. ejecuta \in Procesos /\ estado[ejecuta] = "listo" /\ Len(aMem) = 0
    BY <1>0, <2>1, Contestada
  <2>3. Creando' /\ Presentes' /\ \A q \in Procesos : estado'[q] = "fin" => estado[q] = "fin"
    BY <1>5, <2>1, <2>2
  <2> QED BY <1>0, <2>1, <2>2, <2>3 DEF Vigencia, Inv1, TypeOK
<1>7. CASE TerminarIO
  <2>1. /\ estado' = [estado EXCEPT ![pedidoIO.pid] = "listo"]
        /\ UNCHANGED <<aMem, ejecuta, aMemK, deMemK>>
        /\ pedidoIO.pid \in Procesos /\ estado[pedidoIO.pid] = "bloqueado"
    BY <1>0, <1>7 DEF TerminarIO, Inv1, Fines
  <2>2. Creando' /\ Presentes' /\ \A q \in Procesos : estado'[q] = "fin" => estado[q] = "fin"
    BY <1>5, <2>1
  <2> QED BY <1>1, <1>0, <2>1, <2>2 DEF Vigencia, Inv1, TypeOK
<1>8. ASSUME UNCHANGED <<estado, aMemK, deMemK>>
      PROVE  /\ Creando' /\ Presentes'
             /\ \A p \in lista' : estado'[p] = "fin" => Paginas(tamanio'[p]) <= Len(tabla'[p])
  BY <1>0, <1>8 DEF Creando, Presentes, Vigencia
<1>9. CASE AccederIO
  BY <1>1, <1>0, <1>8, <1>9 DEF AccederIO, Vigencia
<1>10. ASSUME DejarCPU \/ \E p \in Procesos : EntrarCPU(p)
       PROVE  Creando' /\ Presentes' /\ Vigencia'
  <2>1. \A i \in 1 .. Len(aMem) : aMem[i].op = Escritura
    BY <1>0, <1>10, ConstantesOK DEF DejarCPU, EntrarCPU, Inv1, Turno
  <2>2. UNCHANGED <<estado, aMem, aMemK, deMemK>>
    BY <1>10 DEF DejarCPU, EntrarCPU
  <2> QED BY <1>0, <1>8, <2>1, <2>2 DEF Vigencia, Escritura
<1>11. CASE RecibirRespuesta
  <2>1. deMem # <<>> /\ UNCHANGED <<estado, aMem, aMemK, deMemK>>
    BY <1>11 DEF RecibirRespuesta
  <2>2. Len(aMem) = 0
    BY <1>0, <2>1, Contestada
  <2> QED BY <1>1, <1>8, <2>1, <2>2 DEF Vigencia
<1>12. ASSUME NEW op \in {Lectura, Escritura}, Acceder(op)
       PROVE  Creando' /\ Presentes' /\ Vigencia'
  <2> DEFINE m == [op |-> op, pid |-> ejecuta, arg |-> Head(deMem).marco]
  <2>1. deMem # <<>> /\ aMem' = Append(aMem, m) /\ UNCHANGED <<estado, aMemK, deMemK>>
    BY <1>12 DEF Acceder
  <2>2. aMem = <<>> /\ m.op # "ACCESO_TABLAS_PAGINAS"
    BY <1>0, <2>1, Contestada DEF Lectura, Escritura
  <2> HIDE DEF m
  <2>3. Len(aMem') = 1 /\ aMem'[1] = m
    BY <2>1, <2>2
  <2> QED BY <1>8, <2>1, <2>2, <2>3 DEF Vigencia
<1>13. ASSUME NEW op \in Consultas, NEW arg \in Nat, Pedir(op, arg)
       PROVE  Creando' /\ Presentes' /\ Vigencia'
  <2> DEFINE m == [op |-> op, pid |-> ejecuta, arg |-> arg]
  <2>1. /\ aMem' = Append(aMem, m) /\ UNCHANGED <<estado, ejecuta, aMemK, deMemK>>
        /\ m.op = "ACCESO_TABLAS_PAGINAS" => m.arg < Paginas(tamanio[ejecuta])
        /\ ejecuta # Nadie /\ aMem \in Seq(Pedidos)
    BY <1>0, <1>13 DEF Pedir, Inv1, TypeOK
  <2>2. m \in Pedidos
    BY <1>0, <2>1 DEF Inv1, TypeOK, Pedidos
  <2> HIDE DEF m
  <2>3. /\ Len(aMem) \in Nat /\ Len(aMem') = Len(aMem) + 1 /\ aMem'[Len(aMem) + 1] = m
        /\ \A i \in 1 .. Len(aMem) : aMem'[i] = aMem[i]
    BY <2>1, <2>2, Sockets
  <2>4. ASSUME NEW i \in 1 .. Len(aMem'), aMem'[i].op = "ACCESO_TABLAS_PAGINAS"
        PROVE  aMem'[i].arg < Paginas(tamanio[ejecuta])
    BY <1>0, <2>1, <2>3, <2>4 DEF Vigencia
  <2> QED BY <1>0, <1>8, <2>1, <2>4 DEF Vigencia
<1>14. \A n \in 0 .. CantMarcos - 1 : n \in Nat
  BY ConstantesOK
<1> QED BY <1>1, <1>2, <1>3, <1>4, <1>6, <1>7, <1>9, <1>10, <1>11, <1>12, <1>13, <1>14,
          ConstantesOK DEF Entorno, Consultas

\* At the start there are no processes.
LEMMA Inicio5 == Init => Inv5
<1> SUFFICES ASSUME Init PROVE Creando /\ Presentes /\ Vigencia /\ SinCaida
  BY Inicio2 DEF Inv5
<1> QED BY DEF Init, Creando, Presentes, Vigencia, SinCaida

\* Every step finds the process it looks for.
LEMMA Paso5 == Inv5 /\ [Next]_vars => Inv5'
<1> SUFFICES ASSUME Inv5, [Next]_vars PROVE Creando' /\ Presentes' /\ Vigencia' /\ SinCaida'
  BY Paso2Inv DEF Inv5
<1>1. CASE HiloIO \/ UNCHANGED vars
  BY <1>1 DEF HiloIO, vars, Inv5, Creando, Presentes, Vigencia, SinCaida
<1> QED BY <1>1, CPUInv5, KernelInv5, EntornoInv5 DEF Next

\* hallar_proceso always finds: nobody is served before it is created, or after
\* it is destroyed, and nobody is destroyed twice.
THEOREM NuncaCae == Spec => []SinCaida
<1>1. Inv5 => SinCaida
  BY DEF Inv5
<1> QED BY Inicio5, Paso5, <1>1, PTL DEF Spec

\* Outside a RESIZE of its own that grows, every process has frames for its size:
\* what one critical section counts is still free in the next.
THEOREM SiempreRespaldado == Spec => []Respaldado
<1>1. Inv5 => Respaldado
  <2> SUFFICES ASSUME Inv5, NEW p \in lista, ~ (pasoCPU = "asigna" /\ pidCPU = p)
               PROVE  tamanio[p] <= Len(tabla[p]) * TamPagina
    BY DEF Respaldado
  <2>1. p \in Procesos /\ tamanio[p] \in Nat /\ Len(tabla[p]) \in Nat
    BY DEF Inv5, Inv2, Inv1, TypeOK
  <2>2. Paginas(tamanio[p]) <= Len(tabla[p])
    BY <2>1 DEF Inv5, Inv2, Cuentas, Respaldo, Vigencia
  <2>3. Paginas(tamanio[p]) \in Nat /\ tamanio[p] <= TamPagina * Paginas(tamanio[p])
    BY <2>1, PaginasCrece
  <2>4. TamPagina * Paginas(tamanio[p]) <= Len(tabla[p]) * TamPagina
    BY <2>1, <2>2, <2>3, ConstantesOK
  <2>5. TamPagina * Paginas(tamanio[p]) \in Nat /\ Len(tabla[p]) * TamPagina \in Nat
    BY <2>1, <2>3, ConstantesOK
  <2> HIDE <2>2
  <2> QED BY <2>1, <2>3, <2>4, <2>5
<1> QED BY Inicio5, Paso5, <1>1, PTL DEF Spec
====
