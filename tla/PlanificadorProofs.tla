-------------------------- MODULE PlanificadorProofs --------------------------
(***************************************************************************)
(* What holds of the FIFO scheduler for any number of processes, resources *)
(* and interfaces, any degree, any program and any FINALIZAR_PROCESO.      *)
(***************************************************************************)
EXTENDS PlanificadorPropiedades, SequenceTheorems,
        WellFoundedInduction, TLAPS

-------------------------------------------------------------------------------
(* Queues *)

\* The search of list_index_of always finds a first position.
LEMMA HayMinimo ==
    ASSUME NEW T \in SUBSET Nat, T # {}
    PROVE  /\ Min(T) \in T
           /\ \A y \in T : Min(T) <= y
<1>1. \E x \in T : \A y \in T : ~ (<<y, x>> \in OpToRel(<, Nat))
  <2>1. IsWellFoundedOn(OpToRel(<, Nat), Nat)
    BY NatLessThanWellFounded
  <2>2. QED BY <2>1, WFMin
<1>2. PICK x \in T : \A y \in T : ~ (<<y, x>> \in OpToRel(<, Nat))
  BY <1>1
<1>3. \A y \in T : ~ (y < x)
  BY <1>2 DEF OpToRel
<1>4. \A y \in T : x =< y
  BY <1>3
<1>5. QED BY <1>4 DEF Min

\* sacarDeCola only takes processes out of the queue it is given.
LEMMA SinProcesoTipo ==
    ASSUME NEW S, NEW cola \in Seq(S), NEW p
    PROVE  SinProceso(cola, p) \in Seq(S)
<1> DEFINE lugares == {i \in 1 .. Len(cola) : cola[i] = p}
<1>1. CASE lugares = {}
  BY <1>1 DEF SinProceso, RemoveFirst
<1>2. CASE lugares # {}
  <2>1. PICK k \in 1 .. Len(cola) : k = SelectInSeq(cola, LAMBDA v : v = p)
    <3>1. /\ lugares \in SUBSET Nat
          /\ lugares \subseteq 1 .. Len(cola)
      OBVIOUS
    <3>2. Min(lugares) \in 1 .. Len(cola)
      BY ONLY <1>2, <3>1, HayMinimo
    <3>3. SelectInSeq(cola, LAMBDA v : v = p) = Min(lugares)
      BY <1>2 DEF SelectInSeq
    <3>4. QED BY <3>2, <3>3
  <2>2. SinProceso(cola, p) =
          SubSeq(cola, 1, k - 1) \o SubSeq(cola, k + 1, Len(cola))
    BY <1>2, <2>1 DEF SinProceso, RemoveFirst, RemoveAt
  <2>3. /\ SubSeq(cola, 1, k - 1) \in Seq(S)
        /\ SubSeq(cola, k + 1, Len(cola)) \in Seq(S)
    <3>1. \A i \in 1 .. Len(cola) : cola[i] \in S
      BY ElementOfSeq
    <3>2. k \in Int /\ Len(cola) \in Int
      BY <2>1, LenProperties
    <3>3. /\ 1 .. (k - 1) \subseteq 1 .. Len(cola)
          /\ (k + 1) .. Len(cola) \subseteq 1 .. Len(cola)
      <4>1. \A n \in Int, j \in Int : j \in 1 .. n =>
              /\ \A i \in Int : i \in 1 .. (j - 1) => i \in 1 .. n
              /\ \A i \in Int : i \in (j + 1) .. n => i \in 1 .. n
        OBVIOUS
      <4>2. QED BY <4>1, <3>2
    <3>4. QED BY <3>1, <3>2, <3>3, SubSeqProperties
  <2>4. QED BY ONLY <2>2, <2>3
<1>3. QED BY <1>1, <1>2

-------------------------------------------------------------------------------
(* Types *)

\* What a queue_push, queue_pop or queue_is_empty of the commons does to a
\* queue.
LEMMA Colas ==
    ASSUME NEW S
    PROVE  /\ <<>> \in Seq(S)
           /\ \A q \in Seq(S) : Len(q) \in Nat /\ (q = <<>> <=> Len(q) = 0)
           /\ \A q \in Seq(S) : q # <<>> => /\ Head(q) \in S
                                            /\ Tail(q) \in Seq(S)
                                            /\ Len(Tail(q)) = Len(q) - 1
           /\ \A q \in Seq(S), e \in S : /\ Append(q, e) \in Seq(S)
                                         /\ Append(q, e) # <<>>
                                         /\ Len(Append(q, e)) = Len(q) + 1
BY EmptySeq, LenProperties, HeadTailProperties, AppendProperties

\* A PID is never the mark of nobody, and iniciarProceso assigns the next
\* one.
LEMMA PIDs ==
    /\ Nadie \notin Procesos
    /\ \A n \in 0 .. MaxProcesos : n < MaxProcesos => n \in Procesos /\ n + 1 \in 0 .. MaxProcesos
BY ConstantesOK DEF Procesos, Nadie

\* Updating one entry of a table keeps its type.
LEMMA Tabla ==
    ASSUME NEW A, NEW B, NEW f \in [A -> B], NEW a, NEW b \in B
    PROVE  [f EXCEPT ![a] = b] \in [A -> B]
OBVIOUS

\* The part of TypeOK that a planning round may change through CriterioEnvio.
EnvioOK ==
    /\ cpuLibre \in BOOLEAN
    /\ colaReady \in Seq(Procesos)
    /\ estado \in [Procesos -> Estados]
    /\ aCPU \in Seq(Procesos)
    /\ caido \in BOOLEAN

\* criterioEnvio keeps the types of what it touches.
LEMMA EnvioTipo ==
    ASSUME NEW libre \in BOOLEAN, NEW listos \in Seq(Procesos),
           NEW est \in [Procesos -> Estados], NEW canal \in Seq(Procesos),
           NEW danio \in BOOLEAN,
           CriterioEnvio(libre, listos, est, canal, danio)
    PROVE  EnvioOK'
<1>1. CASE libre /\ listos # <<>>
  <2>1. Head(listos) \in Procesos /\ Tail(listos) \in Seq(Procesos)
    BY <1>1, Colas
  <2>2. Append(canal, Head(listos)) \in Seq(Procesos)
    BY <2>1, Colas
  <2>3. [est EXCEPT ![Head(listos)] = "EXEC"] \in [Procesos -> Estados]
    BY <2>1 DEF Estados
  <2>4. (est[Head(listos)] = "LIBERADO") \in BOOLEAN
    OBVIOUS
  <2>5. QED BY <1>1, <2>1, <2>2, <2>3, <2>4 DEF CriterioEnvio, EnvioOK
<1>2. CASE ~ (libre /\ listos # <<>>)
  BY <1>2 DEF CriterioEnvio, EnvioOK
<1>3. QED BY <1>1, <1>2

USE ConstantesOK DEF varsLP, varsGrado, varsExit, varsRec, varsIO, varsSalida,
    varsCPU, varsEnvio

\* procesoNewAReady keeps the types and leaves colaExit alone.
LEMMA TipoNew ==
    ASSUME TypeOK, ExitContado, HiloNew
    PROVE  TypeOK' /\ ExitContado'
<1>1. CASE TomarGrado
  BY <1>1, SMTT(30) DEF TypeOK, ExitContado, TomarGrado, HayGrado
<1>2. CASE TomarNew
  BY <1>2, SMTT(30) DEF TypeOK, ExitContado, TomarNew
<1>3. CASE NewAReady
  <2>1. /\ Append(colaReady, Head(colaNew)) \in Seq(Procesos)
        /\ [estado EXCEPT ![Head(colaNew)] = "READY"] \in [Procesos -> Estados]
        /\ Tail(colaNew) \in Seq(Procesos)
    BY <1>3, Colas DEF TypeOK, NewAReady, Estados
  <2>2. EnvioOK'
    BY <1>3, <2>1, EnvioTipo DEF TypeOK, NewAReady
  <2>3. QED
   BY <1>3, <2>1, <2>2, ZenonT(60) DEF TypeOK, ExitContado, NewAReady, EnvioOK
<1>4. CASE CaerSinNew
  BY <1>4, SMTT(30) DEF TypeOK, ExitContado, CaerSinNew, Caer
<1>5. QED BY <1>1, <1>2, <1>3, <1>4 DEF HiloNew

\* The message that recibirDeCPU reads names a process, an operation and an
\* argument the CPU can send.
LEMMA MensajeTipo ==
    ASSUME TypeOK, deCPU # <<>>
    PROVE  /\ Mensaje.pid \in Procesos
           /\ Mensaje.op \in Operaciones
           /\ Mensaje.arg \in Argumentos
           /\ Tail(deCPU) \in
                Seq([pid : Procesos, op : Operaciones, arg : Argumentos])
           /\ \A e \in Estados : [estado EXCEPT ![Mensaje.pid] = e] \in [Procesos -> Estados]
<1>1. Head(deCPU) \in [pid : Procesos, op : Operaciones, arg : Argumentos]
  BY Colas DEF TypeOK
<1>2. QED BY <1>1, Colas DEF TypeOK, Mensaje

Mensajes == Seq([pid : Procesos, op : Operaciones, arg : Argumentos])

\* What is left in the socket after a message is read has the same type.
LEMMA RecibidoTipo ==
    ASSUME TypeOK, NEW ops, RecibirDeCPU(ops)
    PROVE  deCPU # <<>> /\ deCPU' \in Mensajes
BY MensajeTipo DEF RecibirDeCPU, Mensajes

\* What a round of recibirDeCPU leaves alone when it does not send to EXIT.
Ajeno == <<varsLP, varsGrado, varsExit, varsCPU, varsSalida, conectadas,
           enServicio, gradoMultiprogramacion, hiloNew, mutexPlanificador>>

\* Such a round keeps the types if it keeps those of what it changes.
LEMMA RondaTipo ==
    ASSUME TypeOK, ExitContado, EnvioOK', UNCHANGED Ajeno,
           deCPU' \in Mensajes,
           instancias' \in [Recursos -> Int],
           recursosAsignados' \in [Procesos -> [Recursos -> Nat]],
           bloqueados' \in [Recursos -> Seq(Procesos)],
           colaIO' \in [Interfaces -> Seq(Procesos)]
    PROVE  TypeOK' /\ ExitContado'
BY SMTT(30) DEF TypeOK, ExitContado, EnvioOK, Mensajes, Ajeno

\* signalRecurso keeps the types of the resource, of the PCB and of READY.
LEMMA SignalTipo ==
    ASSUME TypeOK, NEW r \in Recursos, NEW p \in Procesos, SignalRecurso(r, p)
    PROVE  /\ instancias' \in [Recursos -> Int]
           /\ recursosAsignados' \in [Procesos -> [Recursos -> Nat]]
           /\ bloqueados' \in [Recursos -> Seq(Procesos)]
           /\ ListosTrasSignal(r) \in Seq(Procesos)
           /\ \A est \in [Procesos -> Estados] :
                EstadoTrasSignal(r, est) \in [Procesos -> Estados]
           /\ DespiertaLiberado(r) \in BOOLEAN
<1>1. bloqueados[r] \in Seq(Procesos)
  BY DEF TypeOK
<1>2. bloqueados[r] # <<>> => /\ Head(bloqueados[r]) \in Procesos
                              /\ Tail(bloqueados[r]) \in Seq(Procesos)
  BY <1>1, Colas
<1>3. bloqueados' \in [Recursos -> Seq(Procesos)]
  BY <1>1, <1>2 DEF TypeOK, SignalRecurso
<1>4. /\ instancias' \in [Recursos -> Int]
      /\ recursosAsignados' \in [Procesos -> [Recursos -> Nat]]
  <2>1. /\ instancias' = [instancias EXCEPT ![r] = @ + 1]
        /\ recursosAsignados' = [recursosAsignados EXCEPT ![p][r] = 0]
    BY DEF SignalRecurso
  <2>2. /\ instancias \in [Recursos -> Int]
        /\ recursosAsignados \in [Procesos -> [Recursos -> Nat]]
    BY DEF TypeOK
  <2>3. QED BY ONLY <2>1, <2>2
<1>5. ListosTrasSignal(r) \in Seq(Procesos)
  BY <1>1, <1>2, Colas DEF TypeOK, ListosTrasSignal
<1>6. ASSUME NEW est \in [Procesos -> Estados]
      PROVE  EstadoTrasSignal(r, est) \in [Procesos -> Estados]
  BY <1>1, <1>2 DEF TypeOK, EstadoTrasSignal, Estados
<1>7. DespiertaLiberado(r) \in BOOLEAN
  BY DEF DespiertaLiberado
<1>8. QED BY <1>3, <1>4, <1>5, <1>6, <1>7

\* Every round of recibirDeCPU keeps the types and leaves colaExit alone.
LEMMA TipoRecibir ==
    ASSUME TypeOK, ExitContado, HiloRecibir
    PROVE  TypeOK' /\ ExitContado'
<1>1. CASE RecibirIO
  <2>1. deCPU # <<>> /\ Mensaje.arg \in conectadas
    BY <1>1 DEF RecibirIO, RecibirDeCPU, AceptaIO
  <2>2. EnvioOK'
    <3>1. [estado EXCEPT ![Mensaje.pid] = "BLOCKED"] \in [Procesos -> Estados]
      BY <2>1, MensajeTipo DEF Estados
    <3>2. CriterioEnvio(TRUE, colaReady,
                        [estado EXCEPT ![Mensaje.pid] = "BLOCKED"], aCPU, FALSE)
      BY <1>1 DEF RecibirIO
    <3>3. colaReady \in Seq(Procesos) /\ aCPU \in Seq(Procesos)
      BY DEF TypeOK
    <3>4. QED BY <3>1, <3>2, <3>3, EnvioTipo
  <2>3. colaIO' \in [Interfaces -> Seq(Procesos)]
    <3>1. colaIO' = [colaIO EXCEPT ![Mensaje.arg] = Append(@, Mensaje.pid)]
      BY <1>1 DEF RecibirIO
    <3>2. colaIO \in [Interfaces -> Seq(Procesos)] /\ Mensaje.arg \in Interfaces
      BY <2>1 DEF TypeOK
    <3>3. Append(colaIO[Mensaje.arg], Mensaje.pid) \in Seq(Procesos)
      BY <2>1, <3>2, MensajeTipo, Colas
    <3>4. QED BY ONLY <3>1, <3>2, <3>3, Tabla
  <2>4. deCPU' \in Mensajes
    BY <1>1, RecibidoTipo DEF RecibirIO
  <2>5. UNCHANGED <<Ajeno, varsRec>>
    BY <1>1 DEF RecibirIO, RecibirDeCPU, Ajeno
  <2>6. /\ instancias' \in [Recursos -> Int]
        /\ recursosAsignados' \in [Procesos -> [Recursos -> Nat]]
        /\ bloqueados' \in [Recursos -> Seq(Procesos)]
    BY <2>5 DEF TypeOK
  <2>7. QED BY <2>2, <2>3, <2>4, <2>5, <2>6, RondaTipo
<1>2. SaleElDelMensaje /\ RecibirDeCPU(Operaciones) => TypeOK' /\ ExitContado'
  <2> SUFFICES ASSUME SaleElDelMensaje, RecibirDeCPU(Operaciones)
              PROVE  TypeOK' /\ ExitContado'
    OBVIOUS
  <2>1. deCPU # <<>> 
    BY DEF RecibirDeCPU
  <2>2. estado' \in [Procesos -> Estados]
    BY <2>1, MensajeTipo DEF SaleElDelMensaje, EstadoRecibido, Estados
  <2>3. deCPU' \in Mensajes /\ Mensaje.pid \in Procesos
    BY <2>1, RecibidoTipo, MensajeTipo
  <2>4. QED BY <2>2, <2>3, ZenonT(60) DEF TypeOK, ExitContado, RecibirDeCPU,
      SaleElDelMensaje, EmpezarSalida, Mensajes
<1>3. CASE RecibirIOInvalida
  BY <1>3, <1>2 DEF RecibirIOInvalida, RecibirDeCPU, Operaciones
<1>4. CASE RecibirRecursoInvalido
  BY <1>4, <1>2 DEF RecibirRecursoInvalido, RecibirDeCPU, Operaciones
<1>5. CASE RecibirFin
  BY <1>5, <1>2 DEF RecibirFin, RecibirDeCPU, Operaciones
<1>6. TomarInstancia /\ deCPU # <<>> /\ Mensaje.arg \in Recursos =>
        /\ instancias' \in [Recursos -> Int]
        /\ recursosAsignados' \in [Procesos -> [Recursos -> Nat]]
  <2> SUFFICES ASSUME TomarInstancia, deCPU # <<>>,
                      NEW r \in Recursos, r = Mensaje.arg
               PROVE  /\ instancias' \in [Recursos -> Int]
                      /\ recursosAsignados' \in [Procesos -> [Recursos -> Nat]]
    OBVIOUS
  <2>1. PICK p \in Procesos : p = Mensaje.pid
    BY MensajeTipo
  <2>2. /\ instancias' = [instancias EXCEPT ![r] = @ - 1]
        /\ recursosAsignados' = [recursosAsignados EXCEPT ![p][r] = @ + 1]
    BY <2>1 DEF TomarInstancia
  <2>3. /\ instancias \in [Recursos -> Int]
        /\ recursosAsignados \in [Procesos -> [Recursos -> Nat]]
    BY DEF TypeOK
  <2>4. QED BY ONLY <2>2, <2>3
<1>7. CASE RecibirWait
  <2>1. deCPU # <<>> /\ Mensaje.arg \in Recursos
    BY <1>7 DEF RecibirWait, RecibirDeCPU
  <2>2. EnvioOK'
    <3>1. /\ Append(aCPU, Mensaje.pid) \in Seq(Procesos)
          /\ EstadoRecibido \in [Procesos -> Estados]
      BY <2>1, MensajeTipo, Colas DEF TypeOK, EstadoRecibido, Estados
    <3>2. QED BY <1>7, <3>1, EnvioTipo DEF TypeOK, RecibirWait
  <2>3. /\ deCPU' \in Mensajes
        /\ instancias' \in [Recursos -> Int]
        /\ recursosAsignados' \in [Procesos -> [Recursos -> Nat]]
    BY <1>6, <1>7, <2>1, RecibidoTipo DEF RecibirWait
  <2>4. UNCHANGED <<Ajeno, bloqueados, colaIO>>
    BY <1>7 DEF RecibirWait, RecibirDeCPU, Ajeno
  <2>5. /\ bloqueados' \in [Recursos -> Seq(Procesos)]
        /\ colaIO' \in [Interfaces -> Seq(Procesos)]
    BY <2>4 DEF TypeOK
  <2>6. QED BY <2>2, <2>3, <2>4, <2>5, RondaTipo
<1>8. CASE RecibirWaitBloqueante
  <2>1. deCPU # <<>> /\ Mensaje.arg \in Recursos
    BY <1>8 DEF RecibirWaitBloqueante, RecibirDeCPU
  <2>2. EnvioOK'
    <3>1. [estado EXCEPT ![Mensaje.pid] = "BLOCKED"] \in [Procesos -> Estados]
      BY <2>1, MensajeTipo DEF Estados
    <3>2. CriterioEnvio(TRUE, colaReady,
                        [estado EXCEPT ![Mensaje.pid] = "BLOCKED"], aCPU, FALSE)
      BY <1>8 DEF RecibirWaitBloqueante
    <3>3. colaReady \in Seq(Procesos) /\ aCPU \in Seq(Procesos)
      BY DEF TypeOK
    <3>4. QED BY <3>1, <3>2, <3>3, EnvioTipo
  <2>3. bloqueados' \in [Recursos -> Seq(Procesos)]
    <3>1. bloqueados' = [bloqueados EXCEPT ![Mensaje.arg] = Append(@, Mensaje.pid)]
      BY <1>8 DEF RecibirWaitBloqueante
    <3>2. /\ bloqueados \in [Recursos -> Seq(Procesos)]
          /\ Mensaje.arg \in Recursos
          /\ Mensaje.pid \in Procesos
      BY <2>1, MensajeTipo DEF TypeOK
    <3>3. Append(bloqueados[Mensaje.arg], Mensaje.pid) \in Seq(Procesos)
      BY <3>2, Colas
    <3>4. QED BY ONLY <3>1, <3>2, <3>3, Tabla
  <2>4. /\ deCPU' \in Mensajes
        /\ instancias' \in [Recursos -> Int]
        /\ recursosAsignados' \in [Procesos -> [Recursos -> Nat]]
    BY <1>6, <1>8, <2>1, RecibidoTipo DEF RecibirWaitBloqueante
  <2>5. UNCHANGED <<Ajeno, colaIO>>
    BY <1>8 DEF RecibirWaitBloqueante, RecibirDeCPU, Ajeno
  <2>6. colaIO' \in [Interfaces -> Seq(Procesos)]
    BY <2>5 DEF TypeOK
  <2>7. QED BY <2>2, <2>3, <2>4, <2>5, <2>6, RondaTipo
<1>9. CASE RecibirSignal
  <2>1. /\ deCPU # <<>> /\ Mensaje.arg \in Recursos
        /\ SignalRecurso(Mensaje.arg, Mensaje.pid)
    BY <1>9 DEF RecibirSignal, RecibirDeCPU
  <2>2. Mensaje.pid \in Procesos
    BY <2>1, MensajeTipo
  <2>3. EnvioOK'
    <3> DEFINE est == EstadoTrasSignal(Mensaje.arg, EstadoRecibido)
    <3>1. Append(aCPU, Mensaje.pid) \in Seq(Procesos)
      BY <2>2, Colas DEF TypeOK
    <3>2. est \in [Procesos -> Estados]
      <4>1. EstadoRecibido \in [Procesos -> Estados]
        BY <2>2 DEF TypeOK, EstadoRecibido, Estados
      <4>2. QED BY <2>1, <2>2, <4>1, SignalTipo
    <3>3. /\ ListosTrasSignal(Mensaje.arg) \in Seq(Procesos)
          /\ DespiertaLiberado(Mensaje.arg) \in BOOLEAN
      BY <2>1, <2>2, SignalTipo
    <3>4. CriterioEnvio(FALSE, ListosTrasSignal(Mensaje.arg), est,
                        Append(aCPU, Mensaje.pid), DespiertaLiberado(Mensaje.arg))
      BY <1>9 DEF RecibirSignal
    <3> HIDE DEF est
    <3>5. QED BY ONLY <3>1, <3>2, <3>3, <3>4, EnvioTipo
  <2>4. /\ deCPU' \in Mensajes
        /\ instancias' \in [Recursos -> Int]
        /\ recursosAsignados' \in [Procesos -> [Recursos -> Nat]]
        /\ bloqueados' \in [Recursos -> Seq(Procesos)]
    BY <1>9, <2>1, <2>2, RecibidoTipo, SignalTipo DEF RecibirSignal
  <2>5. UNCHANGED <<Ajeno, colaIO>>
    BY <1>9 DEF RecibirSignal, RecibirDeCPU, Ajeno
  <2>6. colaIO' \in [Interfaces -> Seq(Procesos)]
    BY <2>5 DEF TypeOK
  <2>7. QED BY <2>3, <2>4, <2>5, <2>6, RondaTipo
<1>10. CASE CaerSinPCB
  BY <1>10, SMTT(30) DEF TypeOK, ExitContado, CaerSinPCB, Caer
<1>11. QED BY <1>1, <1>3, <1>4, <1>5, <1>7, <1>8, <1>9, <1>10 DEF HiloRecibir

\* enviarAExit keeps the types and posts procesosEnExit once for the PCB it
\* queues.
LEMMA TipoSalida ==
    ASSUME TypeOK, ExitContado, Salida
    PROVE  TypeOK' /\ ExitContado'
<1>1. ASSUME NEW r \in Recursos, LiberarRecurso(r)
      PROVE  TypeOK' /\ ExitContado'
  <2>1. saliente \in Procesos
    BY <1>1 DEF TypeOK, LiberarRecurso
  <2>2. SignalRecurso(r, saliente)
    BY <1>1 DEF LiberarRecurso
  <2>3. /\ instancias' \in [Recursos -> Int]
        /\ recursosAsignados' \in [Procesos -> [Recursos -> Nat]]
        /\ bloqueados' \in [Recursos -> Seq(Procesos)]
    BY <2>1, <2>2, SignalTipo
  <2>4. /\ colaReady' \in Seq(Procesos)
        /\ estado' \in [Procesos -> Estados]
        /\ repetido' \in BOOLEAN
        /\ caido' \in BOOLEAN
    BY <1>1, <2>1, <2>2, SignalTipo DEF TypeOK, LiberarRecurso, Liberado
  <2>5. UNCHANGED <<varsLP, varsGrado, varsExit, varsIO, varsCPU, saliente,
                    liberaCPU, cpuLibre, aCPU, gradoMultiprogramacion, hiloNew,
                    mutexPlanificador, deCPU>>
    BY <1>1 DEF LiberarRecurso
  <2>6. QED BY <2>3, <2>4, <2>5, ZenonT(60) DEF TypeOK, ExitContado
<1>2. CASE TerminarSalida
  <2>1. saliente \in Procesos
    BY <1>2 DEF TypeOK, TerminarSalida
  <2>2. EnvioOK'
    <3>1. [estado EXCEPT ![saliente] = "EXIT"] \in [Procesos -> Estados]
      BY <2>1 DEF TypeOK, Estados
    <3>2. QED BY <1>2, <3>1, EnvioTipo DEF TypeOK, TerminarSalida, Liberado
  <2>3. /\ colaExit' \in Seq(Procesos)
        /\ Len(colaExit') = procesosEnExit'
        /\ procesosEnExit' \in Nat
    BY <1>2, <2>1, Colas, SMTT(30) DEF TypeOK, ExitContado, TerminarSalida, EncolarExit
  <2>4. QED
    BY <1>2, <2>2, <2>3, ZenonT(60) DEF TypeOK, ExitContado, TerminarSalida, EnvioOK
<1>3. CASE CaerLiberando
  BY <1>3, SMTT(30) DEF TypeOK, ExitContado, CaerLiberando, Caer
<1>4. QED BY <1>1, <1>2, <1>3 DEF Salida

\* vaciarExit keeps the types: it takes a PCB only after its semaphore, so
\* colaExit is not empty.
LEMMA TipoExit ==
    ASSUME TypeOK, ExitContado, HiloExit
    PROVE  TypeOK' /\ ExitContado'
<1>1. CASE SacarDeExit
  <2>1. colaExit # <<>>
    BY <1>1, Colas, SMTT(30) DEF TypeOK, ExitContado, SacarDeExit
  <2>2. /\ Head(colaExit) \in Procesos
        /\ Tail(colaExit) \in Seq(Procesos)
        /\ Len(Tail(colaExit)) = procesosEnExit - 1
    BY <2>1, Colas, SMTT(30) DEF TypeOK, ExitContado
  <2>3. QED
    BY <1>1, <2>2, SMTT(30) DEF TypeOK, ExitContado, SacarDeExit, Liberado
<1>2. CASE LiberarPCB
  BY <1>2, SMTT(30) DEF TypeOK, ExitContado, LiberarPCB, DevolverGrado, Estados
<1>3. QED BY <1>1, <1>2 DEF HiloExit

\* The interface threads keep the types and leave colaExit alone.
LEMMA TipoIO ==
    ASSUME TypeOK, ExitContado, NEW i \in Interfaces, HiloIO(i) \/ ConectarInterfaz(i)
    PROVE  TypeOK' /\ ExitContado'
<1>1. CASE ConectarInterfaz(i)
  BY <1>1, SMTT(30) DEF TypeOK, ExitContado, ConectarInterfaz
<1>2. CASE AtenderIO(i)
  <2>1. Head(colaIO[i]) \in Procesos /\ Tail(colaIO[i]) \in Seq(Procesos)
    BY <1>2, Colas DEF TypeOK, AtenderIO
  <2>2. /\ colaIO' \in [Interfaces -> Seq(Procesos)]
        /\ enServicio' \in [Interfaces -> Procesos \cup {Nadie}]
    <3>1. /\ colaIO \in [Interfaces -> Seq(Procesos)]
          /\ enServicio \in [Interfaces -> Procesos \cup {Nadie}]
      BY DEF TypeOK
    <3>2. /\ colaIO' = [colaIO EXCEPT ![i] = Tail(colaIO[i])]
          /\ enServicio' = [enServicio EXCEPT ![i] = Head(colaIO[i])]
      BY <1>2 DEF AtenderIO
    <3>3. QED BY ONLY <2>1, <3>1, <3>2, Tabla
  <2>3. /\ caido' \in BOOLEAN
        /\ UNCHANGED <<varsLP, varsGrado, varsExit, varsRec, varsSalida, varsCPU,
                       conectadas, estado, colaReady, cpuLibre, aCPU,
                       gradoMultiprogramacion, hiloNew, mutexPlanificador, deCPU>>
    BY <1>2 DEF AtenderIO, Liberado
  <2>4. QED BY <2>2, <2>3, SMTT(30) DEF TypeOK, ExitContado
<1>3. CASE TerminarIO(i)
  <2>1. enServicio[i] \in Procesos
    BY <1>3 DEF TypeOK, TerminarIO
  <2>2. EnvioOK'
    <3>1. [estado EXCEPT ![enServicio[i]] = "READY"] \in [Procesos -> Estados]
      BY <2>1 DEF TypeOK, Estados
    <3>2. Append(colaReady, enServicio[i]) \in Seq(Procesos)
      BY <2>1, Colas DEF TypeOK
    <3>3. QED BY <1>3, <3>1, <3>2, EnvioTipo DEF TypeOK, TerminarIO, Liberado
  <2>3. /\ enServicio' \in [Interfaces -> Procesos \cup {Nadie}]
        /\ UNCHANGED <<varsLP, varsGrado, varsExit, varsRec, varsSalida, varsCPU,
                       conectadas, colaIO, gradoMultiprogramacion, hiloNew,
                       mutexPlanificador, deCPU>>
    BY <1>3 DEF TypeOK, TerminarIO
  <2>4. QED BY <2>2, <2>3, SMTT(30) DEF TypeOK, ExitContado, EnvioOK
<1>4. QED BY <1>1, <1>2, <1>3 DEF HiloIO

\* Every console command keeps the types and leaves colaExit alone.
LEMMA TipoConsola ==
    ASSUME TypeOK, ExitContado, HiloConsola
    PROVE  TypeOK' /\ ExitContado'
<1>1. CASE IniciarProceso
  <2>1. siguientePID \in Procesos /\ siguientePID + 1 \in 0 .. MaxProcesos
    BY <1>1, PIDs DEF TypeOK, IniciarProceso
  <2>2. Append(colaNew, siguientePID) \in Seq(Procesos)
    BY <2>1, Colas DEF TypeOK
  <2>3. estado' \in [Procesos -> Estados]
    BY <1>1, <2>1 DEF TypeOK, IniciarProceso, Estados
  <2>4. /\ siguientePID' \in 0 .. MaxProcesos
        /\ colaNew' \in Seq(Procesos)
        /\ procesosEnNew' \in Nat
    BY <1>1, <2>1, <2>2 DEF TypeOK, IniciarProceso
  <2>5. QED BY <1>1, <2>3, <2>4, SMTT(30) DEF TypeOK, ExitContado, IniciarProceso
<1>2. ASSUME NEW n \in Grados, PedirGrado(n)
      PROVE  TypeOK' /\ ExitContado'
  BY <1>2, SMTT(30) DEF TypeOK, ExitContado, PedirGrado
<1>3. CASE SubirGrado
  BY <1>3, SMTT(30) DEF TypeOK, ExitContado, SubirGrado
<1>4. CASE BajarGrado
  BY <1>4, SMTT(30) DEF TypeOK, ExitContado, BajarGrado, HayGrado
<1>5. CASE DetenerPlanificacion
  BY <1>5, SMTT(30) DEF TypeOK, ExitContado, DetenerPlanificacion
<1>6. CASE IniciarPlanificacion
  BY <1>6, SMTT(30) DEF TypeOK, ExitContado, IniciarPlanificacion
<1>7. ASSUME NEW p \in Procesos,
             \/ FinalizarNew(p) \/ FinalizarReady(p) \/ FinalizarBlocked(p)
             \/ FinalizarExec(p) \/ FinalizarExit(p) \/ FinalizarAusente(p)
      PROVE  TypeOK' /\ ExitContado'
  <2>1. CASE FinalizarNew(p)
    BY <1>7, <2>1, SinProcesoTipo, ZenonT(60)
        DEF TypeOK, ExitContado, FinalizarNew, EmpezarSalida
  <2>2. CASE FinalizarReady(p)
    BY <1>7, <2>2, SinProcesoTipo, ZenonT(60)
        DEF TypeOK, ExitContado, FinalizarReady, EmpezarSalida
  <2>3. CASE FinalizarBlocked(p)
    BY <1>7, <2>3, SinProcesoTipo, ZenonT(60)
        DEF TypeOK, ExitContado, FinalizarBlocked, EmpezarSalida
  <2>4. CASE FinalizarExec(p)
    BY <1>7, <2>4, SMTT(30) DEF TypeOK, ExitContado, FinalizarExec
  <2>5. CASE FinalizarExit(p)
    BY <1>7, <2>5, ZenonT(60) DEF TypeOK, ExitContado, FinalizarExit, EmpezarSalida
  <2>6. CASE FinalizarAusente(p)
    BY <1>7, <2>6, SMTT(30) DEF TypeOK, ExitContado, FinalizarAusente, Caer
  <2>7. QED BY <1>7, <2>1, <2>2, <2>3, <2>4, <2>5, <2>6
<1>8. QED BY <1>1, <1>2, <1>3, <1>4, <1>5, <1>6, <1>7 DEF HiloConsola

\* The CPU and its sockets keep the types and leave colaExit alone.
LEMMA TipoCPU ==
    ASSUME TypeOK, ExitContado, HiloDispatch \/ HiloInterrupt
    PROVE  TypeOK' /\ ExitContado'
<1>1. CASE RecibirPCB
  <2>1. /\ enCPU' \in Procesos /\ aCPU' \in Seq(Procesos)
        /\ UNCHANGED <<NoKernel, deCPU, interrupciones, restantes>>
    BY <1>1, Colas DEF TypeOK, RecibirPCB
  <2>2. QED BY <2>1, SMTT(30) DEF TypeOK, ExitContado, NoKernel
<1>2. ASSUME NEW op \in Operaciones, NEW arg \in Argumentos, enCPU \in Procesos,
             DevolverPCB(op, arg)
      PROVE  deCPU' \in Mensajes
  <2> DEFINE mensaje == [pid |-> enCPU, op |-> op, arg |-> arg]
  <2>1. mensaje \in [pid : Procesos, op : Operaciones, arg : Argumentos]
    BY <1>2
  <2>2. deCPU' = Append(deCPU, mensaje) /\ deCPU \in Mensajes
    BY <1>2 DEF TypeOK, DevolverPCB, Mensajes
  <2> HIDE DEF mensaje
  <2>3. QED BY <2>1, <2>2, Colas DEF Mensajes
<1>3. ASSUME NEW c \in Llamadas, EjecutarLlamada(c)
      PROVE  TypeOK' /\ ExitContado'
  <2>1. c.op \in Operaciones /\ c.arg \in Argumentos
    BY <1>3 DEF Argumentos
  <2>2. /\ enCPU \in Procesos
        /\ restantes' \in [Procesos -> 0 .. MaxLlamadas]
    BY <1>3 DEF TypeOK, EjecutarLlamada
  <2>3. deCPU' \in Mensajes
    BY <1>2, <1>3, <2>1, <2>2 DEF EjecutarLlamada
  <2>4. UNCHANGED <<NoKernel, aCPU, interrupciones>> /\ enCPU' = Nadie
    BY <1>3 DEF EjecutarLlamada, DevolverPCB
  <2>5. restantes' \in [Procesos -> 0 .. MaxLlamadas]
    BY <2>2
  <2>6. enCPU' \in Procesos \cup {Nadie}
    BY <2>4
  <2>7. UNCHANGED <<NoKernel, aCPU, interrupciones>>
    BY <2>4
  <2>8. QED BY ONLY TypeOK, ExitContado, <2>3, <2>5, <2>6, <2>7, ZenonT(60)
      DEF TypeOK, ExitContado, NoKernel, Mensajes, varsLP, varsGrado, varsExit,
          varsRec, varsIO, varsSalida
<1>4. CASE EjecutarExit
  <2>1. enCPU \in Procesos /\ DevolverPCB("INSTRUCCION_EXIT", "ninguno")
    BY <1>4 DEF TypeOK, EjecutarExit
  <2>2. deCPU' \in Mensajes
    <3>1. "INSTRUCCION_EXIT" \in Operaciones /\ "FINALIZAR_PROCESO" \in Operaciones
      BY DEF Operaciones, OperacionesFin
    <3>2. "ninguno" \in Argumentos
      BY DEF Argumentos
    <3>3. QED BY <1>2, <2>1, <3>1, <3>2
  <2>3. QED
    BY <1>4, <2>2, SMTT(30) DEF TypeOK, ExitContado, EjecutarExit, DevolverPCB, NoKernel,
        Mensajes
<1>5. CASE AtenderInterrupcion
  <2>1. enCPU \in Procesos /\ DevolverPCB("FINALIZAR_PROCESO", "ninguno")
    BY <1>5 DEF TypeOK, AtenderInterrupcion
  <2>2. deCPU' \in Mensajes
    <3>1. "INSTRUCCION_EXIT" \in Operaciones /\ "FINALIZAR_PROCESO" \in Operaciones
      BY DEF Operaciones, OperacionesFin
    <3>2. "ninguno" \in Argumentos
      BY DEF Argumentos
    <3>3. QED BY <1>2, <2>1, <3>1, <3>2
  <2>3. QED
    BY <1>5, <2>2, SMTT(30) DEF TypeOK, ExitContado, AtenderInterrupcion, DevolverPCB,
        NoKernel, Mensajes
<1>6. ASSUME NEW p \in Procesos, DescartarInterrupcion(p)
      PROVE  TypeOK' /\ ExitContado'
  BY <1>6, SMTT(30) DEF TypeOK, ExitContado, DescartarInterrupcion, NoKernel
<1>7. QED BY <1>1, <1>3, <1>4, <1>5, <1>6 DEF HiloDispatch, HiloInterrupt

\* The state main leaves has the right types and an empty colaExit.
LEMMA TipoInicial == Init => TypeOK /\ ExitContado
<1>1. ASSUME NEW S
      PROVE  <<>> \in Seq(S) /\ Len(<<>>) = 0
  BY Colas
<1> SUFFICES ASSUME Init PROVE TypeOK /\ ExitContado
  OBVIOUS
<1>3. /\ estado \in [Procesos -> Estados]
      /\ recursosAsignados \in [Procesos -> [Recursos -> Nat]]
      /\ siguientePID \in 0 .. MaxProcesos
      /\ colaNew \in Seq(Procesos)
      /\ colaReady \in Seq(Procesos)
      /\ colaExit \in Seq(Procesos)
      /\ procesosEnNew \in Nat
      /\ procesosEnExit \in Nat
  BY <1>1 DEF Init, Estados
<1>4. /\ gradoMultiprogramacion \in Nat
      /\ gradoVigente \in Nat
      /\ gradoNuevo \in Nat
      /\ hiloNew \in {"grado", "new", "listo"}
      /\ hiloExit \in Procesos \cup {Nadie}
  BY DEF Init
<1>5. /\ instancias \in [Recursos -> Int]
      /\ bloqueados \in [Recursos -> Seq(Procesos)]
      /\ conectadas \subseteq Interfaces
      /\ colaIO \in [Interfaces -> Seq(Procesos)]
      /\ enServicio \in [Interfaces -> Procesos \cup {Nadie}]
  BY <1>1 DEF Init
<1>6. /\ aCPU \in Seq(Procesos)
      /\ deCPU \in Seq([pid : Procesos, op : Operaciones, arg : Argumentos])
      /\ restantes \in [Procesos -> 0 .. MaxLlamadas]
  BY <1>1 DEF Init
<1>7. QED BY <1>1, <1>3, <1>4, <1>5, <1>6 DEF Init, TypeOK, ExitContado

\* Every variable keeps its type, and vaciarExit never passes its semaphore
\* with colaExit empty, in whatever state processes are finalised.
THEOREM Tipos == Spec => [](TypeOK /\ ExitContado)
<1>1. TypeOK /\ ExitContado /\ [Next]_vars => (TypeOK /\ ExitContado)'
  <2> SUFFICES ASSUME TypeOK, ExitContado, [Next]_vars
               PROVE  (TypeOK /\ ExitContado)'
    OBVIOUS
  <2>1. CASE UNCHANGED vars
    BY <2>1 DEF vars, TypeOK, ExitContado
  <2>2. CASE Terminado
    BY <2>2, <2>1 DEF Terminado
  <2>3. QED BY <2>1, <2>2, TipoNew, TipoRecibir, TipoSalida, TipoExit, TipoIO,
      TipoConsola, TipoCPU DEF Next
<1>2. QED BY <1>1, TipoInicial, PTL DEF Spec

-------------------------------------------------------------------------------
(* The CPU *)


\* The part of the inductive invariant that is about the CPU.
CPU == Turno /\ UnaCPU /\ SinOcio

\* criterioEnvio leaves nobody in READY beside an idle CPU, and clears
\* cpuLibre exactly when it sends a PCB.
LEMMA EnvioCPU ==
    ASSUME NEW libre \in BOOLEAN, NEW listos \in Seq(Procesos),
           NEW est, NEW canal \in Seq(Procesos), NEW danio,
           CriterioEnvio(libre, listos, est, canal, danio)
    PROVE  /\ ~ (cpuLibre' /\ colaReady' # <<>>)
           /\ cpuLibre' \in BOOLEAN
           /\ aCPU' \in Seq(Procesos)
           /\ Len(aCPU') + (IF cpuLibre' THEN 1 ELSE 0)
                = Len(canal) + (IF libre THEN 1 ELSE 0)
<1>1. CASE libre /\ listos # <<>>
  <2>1. Head(listos) \in Procesos
    BY <1>1, Colas
  <2>2. /\ aCPU' = Append(canal, Head(listos))
        /\ cpuLibre' = FALSE
    BY <1>1 DEF CriterioEnvio
  <2>3. /\ Len(canal) \in Nat
        /\ Len(aCPU') = Len(canal) + 1
        /\ aCPU' \in Seq(Procesos)
    BY <2>1, <2>2, Colas
  <2>4. (IF libre THEN 1 ELSE 0) = 1 /\ (IF cpuLibre' THEN 1 ELSE 0) = 0
    BY <1>1, <2>2
  <2>5. ~ cpuLibre' /\ cpuLibre' \in BOOLEAN
    BY <2>2
  <2>6. Len(aCPU') + (IF cpuLibre' THEN 1 ELSE 0) = Len(canal) + (IF libre THEN 1 ELSE 0)
    BY <2>3, <2>4
  <2>7. QED BY <2>3, <2>5, <2>6
<1>2. CASE ~ (libre /\ listos # <<>>)
  <2>1. aCPU' = canal /\ cpuLibre' = libre /\ colaReady' = listos
    BY <1>2 DEF CriterioEnvio
  <2>2. QED BY <1>2, <2>1, Colas
<1>3. QED BY <1>1, <1>2

\* Steps that touch neither the CPU, nor READY, nor the turn to plan.
LEMMA CPUIgual ==
    ASSUME CPU, UNCHANGED <<aCPU, deCPU, enCPU, varsSalida, cpuLibre, colaReady,
                            mutexPlanificador>>
    PROVE  CPU'
BY DEF CPU, Turno, UnaCPU, Vuelo, SinOcio

\* Rounds that end in criterioEnvio and send or receive nothing else.
LEMMA CPURonda ==
    ASSUME TypeOK, CPU, Planifica, NEW listos \in Seq(Procesos), NEW est, NEW danio,
           CriterioEnvio(cpuLibre, listos, est, aCPU, danio),
           UNCHANGED <<deCPU, enCPU, varsSalida, mutexPlanificador>>
    PROVE  CPU'
<1>1. /\ cpuLibre \in BOOLEAN
      /\ aCPU \in Seq(Procesos)
      /\ Len(aCPU) \in Nat /\ Len(deCPU) \in Nat
  BY Colas DEF TypeOK
<1>2. /\ ~ (cpuLibre' /\ colaReady' # <<>>)
      /\ cpuLibre' \in BOOLEAN
      /\ aCPU' \in Seq(Procesos)
      /\ Len(aCPU') + (IF cpuLibre' THEN 1 ELSE 0) = Len(aCPU) + (IF cpuLibre THEN 1 ELSE 0)
  BY <1>1, EnvioCPU
<1>3. Len(aCPU') \in Nat
  BY <1>2, Colas
<1>4. UnaCPU'
  BY <1>1, <1>2, <1>3 DEF CPU, UnaCPU, Vuelo
<1>5. QED BY <1>2, <1>4 DEF CPU, Turno, SinOcio

\* procesoNewAReady: admitting a process keeps cpuLibre true to the CPU.
LEMMA CPUNew ==
    ASSUME TypeOK, CPU, HiloNew
    PROVE  CPU'
<1>1. CASE TomarGrado
  BY <1>1, CPUIgual DEF TomarGrado
<1>2. CASE TomarNew
  BY <1>2, CPUIgual DEF TomarNew
<1>3. CASE NewAReady
  <2>1. Append(colaReady, Head(colaNew)) \in Seq(Procesos)
    BY <1>3, Colas DEF TypeOK, NewAReady
  <2>2. QED BY <1>3, <2>1, CPURonda DEF NewAReady
<1>4. CASE CaerSinNew
  BY <1>4, CPUIgual DEF CaerSinNew, Caer
<1>5. QED BY <1>1, <1>2, <1>3, <1>4 DEF HiloNew

\* recibirDeCPU: the PCB that comes back either frees the CPU, goes to it
\* again or is on its way to EXIT.
LEMMA CPURecibir ==
    ASSUME TypeOK, CPU, HiloRecibir
    PROVE  CPU'
<1>1. CASE CaerSinPCB
  BY <1>1, CPUIgual DEF CaerSinPCB, Caer
<1> SUFFICES ASSUME RecibirDeCPU(Operaciones)
             PROVE  CPU'
  BY <1>1 DEF HiloRecibir, RecibirIO, RecibirIOInvalida, RecibirWait,
      RecibirWaitBloqueante, RecibirSignal,
       RecibirRecursoInvalido, RecibirFin, RecibirDeCPU, Operaciones
<1>2. /\ deCPU # <<>>
      /\ Planifica
      /\ Len(aCPU) \in Nat /\ Len(deCPU) \in Nat
      /\ Len(deCPU') = Len(deCPU) - 1
      /\ UNCHANGED enCPU
      /\ aCPU \in Seq(Procesos)
      /\ colaReady \in Seq(Procesos)
  BY Colas DEF TypeOK, RecibirDeCPU
<1>3. /\ ~ cpuLibre
      /\ Len(aCPU) = 0 /\ Len(deCPU) = 1 /\ enCPU = Nadie /\ ~ liberaCPU
      /\ saliente = Nadie
  <2>1. Len(deCPU) # 0
    BY <1>2, Colas DEF TypeOK
  <2>2. ~ liberaCPU /\ saliente = Nadie
    BY <1>2 DEF CPU, Turno, Planifica
  <2>3. cpuLibre \in BOOLEAN
    BY DEF TypeOK
  <2>4. Len(aCPU) + Len(deCPU) + (IF enCPU = Nadie THEN 0 ELSE 1)
          = (IF cpuLibre THEN 0 ELSE 1)
    BY <1>2, <2>2 DEF CPU, UnaCPU, Vuelo
  <2>5. QED BY ONLY <1>2, <2>1, <2>2, <2>3, <2>4
<1>4. CASE SaleElDelMensaje
  BY <1>2, <1>3, <1>4, MensajeTipo, PIDs
      DEF CPU, UnaCPU, Vuelo, Turno, SinOcio, SaleElDelMensaje, EmpezarSalida
<1>5. ASSUME NEW libre \in BOOLEAN, NEW listos \in Seq(Procesos), NEW est,
             NEW canal \in Seq(Procesos), NEW danio,
             CriterioEnvio(libre, listos, est, canal, danio),
             Len(canal) + (IF libre THEN 1 ELSE 0) = 1,
             UNCHANGED <<varsSalida, mutexPlanificador>>
      PROVE  CPU'
  <2>1. /\ ~ (cpuLibre' /\ colaReady' # <<>>)
        /\ cpuLibre' \in BOOLEAN
        /\ aCPU' \in Seq(Procesos)
        /\ Len(aCPU') + (IF cpuLibre' THEN 1 ELSE 0) = 1
    BY <1>5, EnvioCPU
  <2>2. Len(aCPU') \in Nat
    BY <2>1, Colas
  <2>3. QED BY <1>2, <1>3, <1>5, <2>1, <2>2
      DEF CPU, UnaCPU, Vuelo, Turno, SinOcio, Planifica
<1>6. ASSUME NEW est, CriterioEnvio(TRUE, colaReady, est, aCPU, FALSE),
             UNCHANGED <<varsSalida, mutexPlanificador>>
      PROVE  CPU'
  <2>1. Len(aCPU) + (IF TRUE THEN 1 ELSE 0) = 1
    BY <1>3
  <2>2. QED BY <1>2, <1>5, <1>6, <2>1
<1>7. ASSUME NEW listos \in Seq(Procesos), NEW est, NEW danio,
             CriterioEnvio(FALSE, listos, est, Append(aCPU, Mensaje.pid), danio),
             UNCHANGED <<varsSalida, mutexPlanificador>>
      PROVE  CPU'
  <2> DEFINE canal == Append(aCPU, Mensaje.pid)
  <2>1. canal \in Seq(Procesos) /\ Len(canal) = 1
    BY <1>2, <1>3, MensajeTipo, Colas
  <2> HIDE DEF canal
  <2>2. Len(canal) + (IF FALSE THEN 1 ELSE 0) = 1
    BY <2>1
  <2>3. CriterioEnvio(FALSE, listos, est, canal, danio)
    BY <1>7 DEF canal
  <2>4. QED BY <1>5, <1>7, <2>1, <2>2, <2>3
<1>8. CASE RecibirIO
  BY <1>6, <1>8 DEF RecibirIO
<1>9. CASE RecibirWaitBloqueante
  BY <1>6, <1>9 DEF RecibirWaitBloqueante
<1>10. CASE RecibirWait
  BY <1>2, <1>7, <1>10 DEF RecibirWait
<1>11. CASE RecibirSignal
  <2>1. ListosTrasSignal(Mensaje.arg) \in Seq(Procesos)
    BY <1>2, <1>11, MensajeTipo, SignalTipo DEF RecibirSignal
  <2>2. QED BY <1>7, <1>11, <2>1 DEF RecibirSignal
<1>12. QED
  BY <1>1, <1>4, <1>8, <1>9, <1>10, <1>11
     DEF HiloRecibir, RecibirIOInvalida, RecibirRecursoInvalido, RecibirFin

\* enviarAExit: the mutex stays with the round until it ends, which is when
\* the CPU becomes free.
LEMMA CPUSalida ==
    ASSUME TypeOK, CPU, Salida
    PROVE  CPU'
<1>1. ASSUME NEW r \in Recursos, LiberarRecurso(r)
      PROVE  CPU'
  BY <1>1 DEF CPU, UnaCPU, Vuelo, Turno, SinOcio, LiberarRecurso
<1>2. CASE TerminarSalida
  <2>1. /\ cpuLibre \in BOOLEAN /\ liberaCPU \in BOOLEAN
        /\ aCPU \in Seq(Procesos) /\ colaReady \in Seq(Procesos)
        /\ Len(aCPU) \in Nat /\ Len(deCPU) \in Nat
    BY Colas DEF TypeOK
  <2>2. /\ ~ (cpuLibre' /\ colaReady' # <<>>)
        /\ cpuLibre' \in BOOLEAN
        /\ aCPU' \in Seq(Procesos)
        /\ Len(aCPU') + (IF cpuLibre' THEN 1 ELSE 0)
             = Len(aCPU) + (IF cpuLibre \/ liberaCPU THEN 1 ELSE 0)
    BY <1>2, <2>1, EnvioCPU DEF TerminarSalida
  <2>3. Len(aCPU') \in Nat
    BY <2>2, Colas
  <2>4. UNCHANGED <<deCPU, enCPU>> /\ ~ liberaCPU' /\ saliente' = Nadie /\ mutexPlanificador' = "libre"
    BY <1>2 DEF TerminarSalida
  <2>5. UnaCPU'
    BY <2>1, <2>2, <2>3, <2>4 DEF CPU, UnaCPU, Vuelo
  <2>6. QED BY <2>2, <2>4, <2>5 DEF CPU, Turno, SinOcio
<1>3. CASE CaerLiberando
  BY <1>3, CPUIgual DEF CaerLiberando, Caer
<1>4. QED BY <1>1, <1>2, <1>3 DEF Salida

\* vaciarExit never touches the CPU.
LEMMA CPUExit ==
    ASSUME TypeOK, CPU, HiloExit
    PROVE  CPU'
BY CPUIgual DEF HiloExit, SacarDeExit, LiberarPCB

\* Interface threads: the end of a request may dispatch, never twice.
LEMMA CPUIO ==
    ASSUME TypeOK, CPU, NEW i \in Interfaces, HiloIO(i) \/ ConectarInterfaz(i)
    PROVE  CPU'
<1>1. CASE ConectarInterfaz(i)
  BY <1>1, CPUIgual DEF ConectarInterfaz
<1>2. CASE AtenderIO(i)
  BY <1>2, CPUIgual DEF AtenderIO
<1>3. CASE TerminarIO(i)
  <2>1. Append(colaReady, enServicio[i]) \in Seq(Procesos)
    BY <1>3, Colas DEF TypeOK, TerminarIO
  <2>2. QED BY <1>3, <2>1, CPURonda DEF TerminarIO
<1>4. QED BY <1>1, <1>2, <1>3 DEF HiloIO

\* No command starts in the middle of a round, and none takes the PCB that is
\* out.
LEMMA CPUConsola ==
    ASSUME TypeOK, CPU, HiloConsola
    PROVE  CPU'
<1>1. CASE IniciarProceso \/ SubirGrado \/ BajarGrado \/ \E n \in Grados : PedirGrado(n)
  BY <1>1, CPUIgual DEF IniciarProceso, SubirGrado, BajarGrado, PedirGrado
<1>2. CASE DetenerPlanificacion \/ IniciarPlanificacion
  BY <1>2, PIDs DEF CPU, UnaCPU, Vuelo, Turno, SinOcio, DetenerPlanificacion,
      IniciarPlanificacion, Planifica
<1>3. ASSUME NEW p \in Procesos,
             Planifica, EmpezarSalida(p, FALSE), UNCHANGED <<aCPU, deCPU, enCPU, cpuLibre>>
      PROVE  CPU'
  BY <1>3, PIDs DEF CPU, UnaCPU, Vuelo, Turno, SinOcio, EmpezarSalida, Planifica,
      TypeOK
<1>4. ASSUME NEW p \in Procesos,
             \/ FinalizarNew(p) \/ FinalizarReady(p) \/ FinalizarBlocked(p)
             \/ FinalizarExec(p) \/ FinalizarExit(p) \/ FinalizarAusente(p)
      PROVE  CPU'
  <2>1. CASE FinalizarNew(p) \/ FinalizarReady(p) \/ FinalizarBlocked(p) \/ FinalizarExit(p)
    BY <1>3, <2>1 DEF FinalizarNew, FinalizarReady, FinalizarBlocked,
        FinalizarExit, Finalizar
  <2>2. CASE FinalizarExec(p) \/ FinalizarAusente(p)
    BY <2>2, CPUIgual DEF FinalizarExec, FinalizarAusente, Caer
  <2>3. QED BY <1>4, <2>1, <2>2
<1>5. QED BY <1>1, <1>2, <1>4 DEF HiloConsola

\* The CPU moves the one PCB that is out along, and returns it once.
LEMMA CPUCPU ==
    ASSUME TypeOK, CPU, HiloDispatch \/ HiloInterrupt
    PROVE  CPU'
<1>1. /\ Len(aCPU) \in Nat /\ Len(deCPU) \in Nat
      /\ enCPU \in Procesos \cup {Nadie}
  BY Colas DEF TypeOK
<1>2. CASE RecibirPCB
  <2>1. /\ Head(aCPU) \in Procesos
        /\ Len(aCPU') = Len(aCPU) - 1
    BY <1>2, Colas DEF TypeOK, RecibirPCB
  <2>2. QED BY <1>1, <1>2, <2>1, PIDs
      DEF CPU, UnaCPU, Vuelo, Turno, SinOcio, RecibirPCB, NoKernel
<1>3. ASSUME NEW op \in Operaciones, NEW arg \in Argumentos, enCPU \in Procesos,
             DevolverPCB(op, arg)
      PROVE  CPU'
  <2>1. Len(deCPU') = Len(deCPU) + 1
    BY <1>3, Colas DEF TypeOK, DevolverPCB
  <2>2. QED BY <1>1, <1>3, <2>1, PIDs
      DEF CPU, UnaCPU, Vuelo, Turno, SinOcio, DevolverPCB, NoKernel
<1>4. /\ "INSTRUCCION_EXIT" \in Operaciones /\ "FINALIZAR_PROCESO" \in Operaciones
      /\ "ninguno" \in Argumentos
      /\ \A c \in Llamadas : c.op \in Operaciones /\ c.arg \in Argumentos
  BY DEF Operaciones, OperacionesFin, Argumentos
<1>5. ASSUME NEW c \in Llamadas, EjecutarLlamada(c)
      PROVE  CPU'
  BY <1>1, <1>3, <1>4, <1>5 DEF EjecutarLlamada
<1>6. CASE EjecutarExit
  BY <1>1, <1>3, <1>4, <1>6 DEF EjecutarExit
<1>7. CASE AtenderInterrupcion
  BY <1>1, <1>3, <1>4, <1>7 DEF AtenderInterrupcion, TypeOK
<1>8. ASSUME NEW p \in Procesos, DescartarInterrupcion(p)
      PROVE  CPU'
  BY <1>8, CPUIgual DEF DescartarInterrupcion, NoKernel
<1>9. QED BY <1>2, <1>5, <1>6, <1>7, <1>8 DEF HiloDispatch, HiloInterrupt

\* Types, counted EXIT queue, turns of the planner and the two facts on
\* cpuLibre hold together in every reachable state of the kernel
\* (FIFO.c:3-30, planificadorLP.c:65-130).
THEOREM InvInductivoSiempre == Spec => []InvInductivo
<1>1. Init => CPU
  BY Colas DEF Init, CPU, UnaCPU, Vuelo, Turno, SinOcio
<1>2. TypeOK /\ CPU /\ [Next]_vars => CPU'
  <2> SUFFICES ASSUME TypeOK, CPU, [Next]_vars
               PROVE  CPU'
    OBVIOUS
  <2>1. CASE UNCHANGED vars
    BY <2>1, CPUIgual DEF vars
  <2>2. CASE Terminado
    BY <2>1, <2>2 DEF Terminado
  <2>3. QED BY <2>1, <2>2, CPUNew, CPURecibir, CPUSalida, CPUExit, CPUIO,
      CPUConsola, CPUCPU DEF Next
<1>3. Spec => [](TypeOK /\ CPU)
  BY <1>1, <1>2, Tipos, PTL DEF Spec
<1>4. QED BY <1>3, Tipos, PTL DEF CPU, InvInductivo

\* At every moment cpuLibre says whether one PCB or none is out of the
\* scheduler's hands: criterioEnvioFIFO never sends a second one
\* (FIFO.c:25-30).
THEOREM SiempreUnaCPU == Spec => []UnaCPU
BY InvInductivoSiempre, PTL DEF InvInductivo

\* When a planning round is over the CPU is not idle while somebody waits in
\* READY (FIFO.c:25-30, planificacion.c:181-228).
THEOREM SiempreSinOcio == Spec => []SinOcio
BY InvInductivoSiempre, PTL DEF InvInductivo
===============================================================================
