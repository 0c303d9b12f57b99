----------------------------- MODULE QuantumProofs -----------------------------
(***************************************************************************)
(* What holds of the turns of Round Robin and Virtual Round Robin for any  *)
(* number of processes, turns, interrupts and posts, and any quantum.      *)
(***************************************************************************)
EXTENDS Quantum, FiniteSetTheorems, SequenceTheorems, WellFoundedInduction, TLAPS

USE DEF colas, despacho, hilos

-------------------------------------------------------------------------------
(* Queues and turns *)

\* A set of naturals that is not empty has a least element.
LEMMA HayMenor ==
    ASSUME NEW T \in SUBSET Nat, T # {}
    PROVE  \E x \in T : \A y \in T : x <= y
<1>1. \E x \in T : \A y \in T : ~ (<<y, x>> \in OpToRel(<, Nat))
  <2>1. IsWellFoundedOn(OpToRel(<, Nat), Nat)
    BY NatLessThanWellFounded
  <2>2. QED BY <2>1, WFMin
<1>2. PICK x \in T : \A y \in T : ~ (<<y, x>> \in OpToRel(<, Nat))
  BY <1>1
<1>3. \A y \in T : ~ (y < x)
  BY <1>2 DEF OpToRel
<1>4. QED BY <1>3

\* What the queues of the commons do.
LEMMA Colas ==
    ASSUME NEW S
    PROVE  /\ <<>> \in Seq(S)
           /\ \A q \in Seq(S) : Len(q) \in Nat /\ (q = <<>> <=> Len(q) = 0)
           /\ \A q \in Seq(S) : q # <<>> => Head(q) \in S /\ Tail(q) \in Seq(S)
           /\ \A q \in Seq(S), e \in S : Append(q, e) \in Seq(S)
           /\ \A q, r \in Seq(S) : q \o r \in Seq(S)
BY EmptySeq, LenProperties, HeadTailProperties, AppendProperties, ConcatProperties

\* A part of a queue.
LEMMA Parte ==
    ASSUME NEW S, NEW q \in Seq(S), NEW a \in 1 .. Len(q) + 1, NEW b \in 0 .. Len(q)
    PROVE  SubSeq(q, a, b) \in Seq(S)
<1>1. Len(q) \in Nat /\ \A k \in 1 .. Len(q) : q[k] \in S
  BY LenProperties, ElementOfSeq
<1>2. \A k \in a .. b : k \in 1 .. Len(q)
  BY <1>1
<1>3. \A k \in a .. b : q[k] \in S
  BY <1>1, <1>2
<1>4. a \in Int /\ b \in Int
  BY <1>1
<1>5. QED BY <1>3, <1>4, SubSeqProperties

\* sacarDeCola
LEMMA SinUno ==
    ASSUME NEW S, NEW q \in Seq(S), NEW k \in DOMAIN q
    PROVE  RemoveAt(q, k) \in Seq(S)
<1>1. k \in 1 .. Len(q) /\ Len(q) \in Nat
  BY LenProperties
<1>2. /\ 1 \in 1 .. Len(q) + 1 /\ k - 1 \in 0 .. Len(q)
      /\ k + 1 \in 1 .. Len(q) + 1 /\ Len(q) \in 0 .. Len(q)
  BY <1>1
<1>3. SubSeq(q, 1, k - 1) \in Seq(S) /\ SubSeq(q, k + 1, Len(q)) \in Seq(S)
  BY <1>2, Parte
<1>4. QED BY <1>3, Colas DEF RemoveAt

\* What pushing and popping does to the elements of a queue.
LEMMA Elementos ==
    ASSUME NEW S, NEW q \in Seq(S)
    PROVE  /\ \A e \in S : ToSet(Append(q, e)) = ToSet(q) \cup {e}
           /\ q # <<>> => \A x \in ToSet(q) : x # Head(q) => x \in ToSet(Tail(q))
<1>1. /\ Len(q) \in Nat /\ DOMAIN q = 1 .. Len(q)
      /\ q # <<>> => Len(q) # 0
  BY LenProperties, Colas
<1>2. ASSUME NEW e \in S
      PROVE  ToSet(Append(q, e)) = ToSet(q) \cup {e}
  <2> DEFINE a == Append(q, e)
  <2>1. /\ DOMAIN a = 1 .. Len(q) + 1
        /\ \A k \in 1 .. Len(q) : a[k] = q[k]
        /\ a[Len(q) + 1] = e
    BY <1>1, AppendProperties, LenProperties
  <2> HIDE DEF a
  <2>2. \A k : k \in 1 .. Len(q) + 1 <=> k \in 1 .. Len(q) \/ k = Len(q) + 1
    BY <1>1
  <2>3. QED BY <1>1, <2>1, <2>2 DEF ToSet, a
<1>3. ASSUME q # <<>>, NEW x \in ToSet(q), x # Head(q)
      PROVE  x \in ToSet(Tail(q))
  <2> DEFINE t == Tail(q)
  <2>1. PICK k \in 1 .. Len(q) : q[k] = x
    BY <1>1 DEF ToSet
  <2>2. /\ Head(q) = q[1] /\ t \in Seq(S) /\ Len(t) = Len(q) - 1
        /\ \A j \in 1 .. Len(t) : t[j] = q[j + 1]
    BY <1>3, HeadTailProperties
  <2>3. k # 1
    BY <1>3, <2>1, <2>2
  <2>4. k - 1 \in 1 .. Len(t) /\ (k - 1) + 1 = k
    BY <1>1, <2>1, <2>2, <2>3
  <2>5. t[k - 1] = x
    BY <2>1, <2>2, <2>4
  <2>6. DOMAIN t = 1 .. Len(t)
    BY <2>2, LenProperties
  <2> HIDE DEF t
  <2>7. QED BY <2>4, <2>5, <2>6 DEF ToSet, t
<1>4. QED BY <1>2, <1>3

\* Nadie is not a process, and Nada is no message of one.
LEMMA Marcas ==
    /\ Nadie \notin Procesos /\ Nada \in Mensaje /\ Nada.op = "nada"
    /\ \A m \in Mensaje : m # Nada => m.op # "nada" /\ m.pid \in Procesos
BY ConstantesOK DEF Nadie, Nada, Mensaje, Corta, NoCorta

-------------------------------------------------------------------------------
(* criterioEnvio *)

Turno == [pid : Procesos \cup {Nadie}, fase : {"libre", "nace", "espera", "une"},
          reloj : {"no", "duerme", "avisa"}]
EstadosPCB == {"fuera", "READY", "EXEC", "BLOCKED", "EXIT"}

\* The turn that a dispatch of p starts.
Nueva(p) == [pid |-> p, fase |-> "nace", reloj |-> "no"]

\* A round dispatches nobody, or one process, with a turn of its own.
NoDespacha(est, ready, prioritaria, libre) ==
    /\ estado' = est /\ colaReady' = ready /\ colaPrioritaria' = prioritaria
    /\ cpuLibre' = libre /\ ultimoPrioritario' \in BOOLEAN
    /\ UNCHANGED <<pidProcesoEnEjecucion, vueltas, enCPU>>

Despacha(est, p, v) ==
    /\ estado' = [est EXCEPT ![p] = "EXEC"]
    /\ colaReady' \in Seq(Procesos) /\ colaPrioritaria' \in Seq(Procesos)
    /\ cpuLibre' = FALSE /\ ultimoPrioritario' \in BOOLEAN
    /\ enCPU' = p
    /\ pidProcesoEnEjecucion' \in {pidProcesoEnEjecucion, p}
    /\ algoritmo = "VRR" => pidProcesoEnEjecucion' = p
    /\ vueltas[v] = Ninguna
    /\ vueltas' = [vueltas EXCEPT ![v] = Nueva(p)]

\* A round of the short-term scheduler sends no process, or the first of a queue.
LEMMA RondaCasos ==
    ASSUME TypeOK, NEW est, NEW ready \in Seq(Procesos), NEW prioritaria \in Seq(Procesos),
           NEW libre \in BOOLEAN, NEW ultimo \in BOOLEAN,
           Ronda(est, ready, prioritaria, libre, ultimo)
    PROVE  \/ NoDespacha(est, ready, prioritaria, libre)
           \/ /\ libre
              /\ prioritaria = <<>> => colaPrioritaria' = <<>>
              /\ \E p \in Procesos, v \in 1 .. Hilos : Despacha(est, p, v)
<1>1. CASE ~libre \/ ready \o prioritaria = <<>>
  BY <1>1 DEF Ronda, NoDespacha
<1>2. CASE ~(~libre \/ ready \o prioritaria = <<>>)
  <2> DEFINE primero == prioritaria # <<>>
             p == Head(IF primero THEN prioritaria ELSE ready)
             v == CHOOSE v \in Libres : \A w \in Libres : v <= w
  <2>1. /\ colaPrioritaria' = IF primero THEN Tail(prioritaria) ELSE prioritaria
        /\ colaReady' = IF primero THEN ready ELSE Tail(ready)
        /\ estado' = [est EXCEPT ![p] = "EXEC"]
        /\ enCPU' = p /\ cpuLibre' = FALSE
        /\ IF algoritmo = "VRR"
           THEN ultimoPrioritario' = primero /\ pidProcesoEnEjecucion' = p
           ELSE UNCHANGED <<ultimoPrioritario, pidProcesoEnEjecucion>>
        /\ Libres # {}
        /\ vueltas' = [vueltas EXCEPT ![v] = Nueva(p)]
    BY <1>2 DEF Ronda, Nueva
  <2>2. ~primero => ready # <<>>
    <3>1. <<>> \o <<>> = <<>>
      OBVIOUS
    <3>2. QED BY <1>2, <3>1
  <2>3. p \in Procesos /\ colaReady' \in Seq(Procesos) /\ colaPrioritaria' \in Seq(Procesos)
    BY <2>1, <2>2, Colas
  <2>4. v \in 1 .. Hilos /\ vueltas[v] = Ninguna
    <3>1. Libres \in SUBSET Nat
      BY DEF Libres
    <3>2. \E x \in Libres : \A w \in Libres : x <= w
      BY <2>1, <3>1, HayMenor
    <3>3. v \in Libres
      BY <3>2
    <3>4. QED BY <3>3 DEF Libres
  <2>5. ultimoPrioritario' \in BOOLEAN
    BY <2>1 DEF TypeOK
  <2> HIDE DEF p, v
  <2>6. Despacha(est, p, v)
    BY <2>1, <2>3, <2>4, <2>5 DEF Despacha
  <2>7. prioritaria = <<>> => colaPrioritaria' = <<>>
    BY <2>1
  <2>8. QED BY <1>2, <2>3, <2>4, <2>6, <2>7
<1>3. QED BY <1>1, <1>2

\* What a round leaves to its caller.
RestoTipos ==
    /\ algoritmo \in Algoritmos
    /\ quantum \in [Procesos -> 1 .. QuantumInicial]
    /\ esperanRecurso \in Seq(Procesos)
    /\ procesoInterrumpido \in BOOLEAN /\ desfasado \in BOOLEAN
    /\ {planificador, deCPU} \subseteq Mensaje
    /\ finalizarQuantum \in Nat /\ quantumFinalizado \in Nat
    /\ interrupciones \in Seq(Procesos)

\* It keeps the types.
LEMMA RondaTipo ==
    ASSUME TypeOK, RestoTipos', algoritmo' = algoritmo,
           NEW est \in [Procesos -> EstadosPCB],
           NEW ready \in Seq(Procesos), NEW prioritaria \in Seq(Procesos),
           NEW libre \in BOOLEAN, NEW ultimo \in BOOLEAN,
           algoritmo = "RR" => prioritaria = <<>>,
           Ronda(est, ready, prioritaria, libre, ultimo)
    PROVE  TypeOK'
<1>0. vueltas \in [1 .. Hilos -> Turno] /\ enCPU \in Procesos \cup {Nadie}
      /\ pidProcesoEnEjecucion \in Procesos \cup {Nadie}
  BY DEF TypeOK, Turno
<1>1. CASE NoDespacha(est, ready, prioritaria, libre)
  BY <1>1 DEF TypeOK, RestoTipos, NoDespacha, EstadosPCB
<1>2. ASSUME prioritaria = <<>> => colaPrioritaria' = <<>>,
             NEW p \in Procesos, NEW v \in 1 .. Hilos, Despacha(est, p, v)
      PROVE  TypeOK'
  <2>1. vueltas' \in [1 .. Hilos -> Turno]
    BY <1>0, <1>2 DEF Despacha, Nueva, Turno
  <2>2. estado' \in [Procesos -> EstadosPCB]
    BY <1>2 DEF Despacha, EstadosPCB
  <2>3. /\ colaReady' \in Seq(Procesos) /\ colaPrioritaria' \in Seq(Procesos)
        /\ cpuLibre' \in BOOLEAN /\ ultimoPrioritario' \in BOOLEAN
        /\ enCPU' \in Procesos \cup {Nadie}
        /\ pidProcesoEnEjecucion' \in Procesos \cup {Nadie}
        /\ algoritmo' = "RR" => colaPrioritaria' = <<>>
    BY <1>0, <1>2 DEF Despacha
  <2>4. QED BY <2>1, <2>2, <2>3 DEF TypeOK, RestoTipos, Turno, EstadosPCB
<1>3. QED BY <1>1, <1>2, RondaCasos

\* The turns that join their timers are finitely many.
LEMMA UnenFinito ==
    IsFiniteSet(Unen) /\ Cardinality(Unen) \in Nat
<1>1. IsFiniteSet(1 .. Hilos)
  BY ConstantesOK, FS_Interval
<1>2. Unen \subseteq 1 .. Hilos
  BY DEF Unen
<1>3. IsFiniteSet(Unen)
  BY <1>1, <1>2, FS_Subset
<1>4. QED BY <1>3, FS_CardinalityType

\* A round that frees the CPU, or one that has nothing to do with it, keeps all
\* the rest if nobody is left without an interrupt that was there and no post
\* is lost.
LEMMA RondaInv ==
    ASSUME InvTurnos, RestoTipos', algoritmo' = algoritmo,
           NEW est \in [Procesos -> EstadosPCB],
           NEW ready \in Seq(Procesos), NEW prioritaria \in Seq(Procesos),
           NEW libre \in BOOLEAN, NEW ultimo \in BOOLEAN,
           algoritmo = "RR" => prioritaria = <<>>,
           Ronda(est, ready, prioritaria, libre, ultimo),
           \/ libre /\ enCPU = Nadie /\ deCPU' = Nada /\ planificador' = Nada
           \/ libre = cpuLibre /\ UNCHANGED <<deCPU, planificador>>,
           algoritmo = "VRR" /\ pidProcesoEnEjecucion = Nadie =>
                \A p \in Procesos : est[p] # "BLOCKED",
           ToSet(interrupciones) \subseteq ToSet(interrupciones'),
           desfasado => desfasado',
           desfasado' \/ finalizarQuantum' + quantumFinalizado' + Cardinality(Unen) =
                            IF planificador' = Nada THEN 0 ELSE 1
    PROVE  InvTurnos'
<1>1. TypeOK /\ UnaFuera /\ NadieAun /\ ConPid
  BY DEF InvTurnos
<1>2. TypeOK'
  BY <1>1, RondaTipo
<1>3. vueltas \in [1 .. Hilos -> Turno] /\ Nada.op # "WAIT"
  BY <1>1 DEF TypeOK, Turno, Nada
<1>4. CASE NoDespacha(est, ready, prioritaria, libre)
  <2>1. UNCHANGED <<pidProcesoEnEjecucion, vueltas, enCPU>> /\ cpuLibre' = libre /\ estado' = est
    BY <1>4 DEF NoDespacha
  <2>2. Unen' = Unen /\ ConPid'
    BY <1>1, <2>1 DEF Unen, ConPid
  <2>3. UnaFuera'
    BY <1>1, <2>1 DEF UnaFuera, Libre
  <2>4. NadieAun'
    BY <1>1, <2>1 DEF NadieAun, Libre
  <2>5. \A p : Cubierto(p) => Cubierto(p)'
    BY <2>1 DEF Cubierto
  <2>6. ASSUME ~desfasado'
        PROVE  /\ UnPost'
               /\ enCPU' # Nadie => Cubierto(enCPU)'
               /\ deCPU'.op = "WAIT" => Cubierto(deCPU.pid)'
    <3>1. UnPost'
      BY <2>2, <2>6 DEF UnPost, Libre
    <3>2. ~desfasado
      BY <2>6
    <3>3. enCPU' # Nadie => Cubierto(enCPU)'
      <4>1. enCPU # Nadie => Cubierto(enCPU)
        BY <3>2 DEF InvTurnos
      <4>2. QED BY <2>1, <4>1 DEF Cubierto
    <3>4. deCPU'.op = "WAIT" => Cubierto(deCPU.pid)'
      <4>1. deCPU.op = "WAIT" => Cubierto(deCPU.pid)
        BY <3>2 DEF InvTurnos
      <4>2. deCPU' = deCPU \/ deCPU'.op # "WAIT"
        BY <1>3
      <4>3. QED BY <2>1, <4>1, <4>2 DEF Cubierto
    <3>5. QED BY <3>1, <3>3, <3>4
  <2>7. QED BY <1>2, <2>2, <2>3, <2>4, <2>6 DEF InvTurnos
<1>5. ASSUME libre, NEW p \in Procesos, NEW v \in 1 .. Hilos, Despacha(est, p, v)
      PROVE  InvTurnos'
  <2>1. /\ enCPU' = p /\ cpuLibre' = FALSE
        /\ algoritmo = "VRR" => pidProcesoEnEjecucion' = p
        /\ vueltas[v] = Ninguna
        /\ vueltas' = [vueltas EXCEPT ![v] = Nueva(p)]
    BY <1>5 DEF Despacha
  <2>2. deCPU' = Nada /\ planificador' = Nada /\ p # Nadie
    BY <1>1, <1>5, Marcas DEF UnaFuera, Libre
  <2>3. \A w \in 1 .. Hilos : vueltas'[w] = IF w = v THEN Nueva(p) ELSE vueltas[w]
    BY <1>3, <2>1
  <2>4. Unen' = Unen /\ ConPid'
    <3>1. vueltas[v].fase # "une" /\ Nueva(p).fase # "une" /\ Nueva(p).pid = p
      BY <2>1 DEF Ninguna, Nueva
    <3>2. QED BY <1>1, <2>2, <2>3, <3>1 DEF Unen, ConPid
  <2>5. UnaFuera' /\ NadieAun'
    BY <2>1, <2>2 DEF UnaFuera, NadieAun, Libre
  <2>6. Cubierto(enCPU)'
    <3>1. vueltas'[v].pid = enCPU' /\ vueltas'[v].fase = "nace"
      BY <2>1, <2>3 DEF Nueva
    <3>2. QED BY <3>1 DEF Cubierto
  <2>7. ~desfasado' => UnPost'
    BY <2>4 DEF UnPost, Libre
  <2>8. QED BY <1>2, <1>3, <2>2, <2>4, <2>5, <2>6, <2>7 DEF InvTurnos
<1>6. QED BY <1>1, <1>4, <1>5, RondaCasos

-------------------------------------------------------------------------------
(* The planner *)

\* What enviarAExit does before its round.
LEMMA SalidaPartes ==
    ASSUME TypeOK, NEW p \in Procesos, NEW ready \in Seq(Procesos), NEW libre,
           Salida(p, ready, libre)
    PROVE  \E est \in [Procesos -> EstadosPCB], listos \in Seq(Procesos) :
              /\ Ronda(est, listos, colaPrioritaria, libre, ultimoPrioritario)
              /\ esperanRecurso' \in Seq(Procesos)
              /\ \A q \in Procesos : est[q] = "BLOCKED" => estado[q] = "BLOCKED"
<1>1. PICK n \in 0 .. Len(esperanRecurso) :
        /\ esperanRecurso' = SubSeq(esperanRecurso, n + 1, Len(esperanRecurso))
        /\ LET despiertan == SubSeq(esperanRecurso, 1, n)
               est == [q \in Procesos |-> CASE q = p -> "EXIT"
                                            [] q \in ToSet(despiertan) -> "READY"
                                            [] OTHER -> estado[q]]
           IN  Ronda(est, ready \o despiertan, colaPrioritaria, libre, ultimoPrioritario)
  BY DEF Salida
<1> DEFINE despiertan == SubSeq(esperanRecurso, 1, n)
           est == [q \in Procesos |-> CASE q = p -> "EXIT"
                                        [] q \in ToSet(despiertan) -> "READY"
                                        [] OTHER -> estado[q]]
<1>2. esperanRecurso \in Seq(Procesos) /\ Len(esperanRecurso) \in Nat
  BY Colas DEF TypeOK
<1>3. /\ n + 1 \in 1 .. Len(esperanRecurso) + 1 /\ 1 \in 1 .. Len(esperanRecurso) + 1
      /\ Len(esperanRecurso) \in 0 .. Len(esperanRecurso)
  BY <1>2
<1>4. esperanRecurso' \in Seq(Procesos) /\ despiertan \in Seq(Procesos)
  BY <1>1, <1>2, <1>3, Parte
<1>5. ready \o despiertan \in Seq(Procesos)
  BY <1>4, Colas
<1>6. Ronda(est, ready \o despiertan, colaPrioritaria, libre, ultimoPrioritario)
  BY <1>1
<1> HIDE DEF despiertan
<1>7. \A q \in Procesos : est[q] \in {"EXIT", "READY", estado[q]}
  OBVIOUS
<1>8. est \in [Procesos -> EstadosPCB]
  BY <1>7 DEF TypeOK, EstadosPCB
<1> HIDE DEF est
<1>9. QED BY <1>4, <1>5, <1>6, <1>7, <1>8

\* The same as RondaInv for enviarAExit.
LEMMA SalidaInv ==
    ASSUME InvTurnos, NEW p \in Procesos, NEW ready \in Seq(Procesos), NEW libre \in BOOLEAN,
           Salida(p, ready, libre),
           UNCHANGED <<algoritmo, procesoInterrumpido, interrupciones>>,
           quantum' \in [Procesos -> 1 .. QuantumInicial],
           {planificador', deCPU'} \subseteq Mensaje, desfasado' \in BOOLEAN,
           finalizarQuantum' \in Nat, quantumFinalizado' \in Nat,
           \/ libre /\ enCPU = Nadie /\ deCPU' = Nada /\ planificador' = Nada
           \/ libre = cpuLibre /\ UNCHANGED <<deCPU, planificador>>,
           desfasado => desfasado',
           desfasado' \/ finalizarQuantum' + quantumFinalizado' + Cardinality(Unen) =
                            IF planificador' = Nada THEN 0 ELSE 1
    PROVE  InvTurnos'
<1>1. TypeOK /\ NadieAun
  BY DEF InvTurnos
<1>2. PICK est \in [Procesos -> EstadosPCB], listos \in Seq(Procesos) :
         /\ Ronda(est, listos, colaPrioritaria, libre, ultimoPrioritario)
         /\ esperanRecurso' \in Seq(Procesos)
         /\ \A q \in Procesos : est[q] = "BLOCKED" => estado[q] = "BLOCKED"
  BY <1>1, SalidaPartes
<1>3. RestoTipos'
  BY <1>1, <1>2 DEF RestoTipos, TypeOK
<1>4. /\ colaPrioritaria \in Seq(Procesos) /\ ultimoPrioritario \in BOOLEAN
      /\ algoritmo = "RR" => colaPrioritaria = <<>>
      /\ ToSet(interrupciones) \subseteq ToSet(interrupciones')
  BY <1>1 DEF TypeOK
<1>5. algoritmo = "VRR" /\ pidProcesoEnEjecucion = Nadie =>
        \A q \in Procesos : est[q] # "BLOCKED"
  BY <1>1, <1>2 DEF NadieAun
<1>6. algoritmo' = algoritmo
  OBVIOUS
<1>7. QED BY <1>2, <1>3, <1>4, <1>5, <1>6, RondaInv

\* The rounds that leave the CPU, the message and the posts as they were.
LEMMA RondaAjena ==
    ASSUME InvTurnos, NEW est \in [Procesos -> EstadosPCB],
           NEW ready \in Seq(Procesos), NEW prioritaria \in Seq(Procesos),
           NEW ultimo \in BOOLEAN,
           algoritmo = "RR" => prioritaria = <<>>,
           Ronda(est, ready, prioritaria, cpuLibre, ultimo),
           algoritmo = "VRR" /\ pidProcesoEnEjecucion = Nadie =>
                \A p \in Procesos : est[p] # "BLOCKED",
           UNCHANGED <<algoritmo, esperanRecurso, quantum, planificador, finalizarQuantum,
                       quantumFinalizado, procesoInterrumpido, deCPU, desfasado>>,
           interrupciones' \in Seq(Procesos),
           ToSet(interrupciones) \subseteq ToSet(interrupciones')
    PROVE  InvTurnos'
<1>1. TypeOK /\ (~desfasado => UnPost)
  BY DEF InvTurnos
<1>2. RestoTipos' /\ cpuLibre \in BOOLEAN
  BY <1>1 DEF RestoTipos, TypeOK
<1>3. desfasado' \/ finalizarQuantum' + quantumFinalizado' + Cardinality(Unen) =
                            IF planificador' = Nada THEN 0 ELSE 1
  BY <1>1 DEF UnPost, Libre
<1>4. desfasado => desfasado'
  OBVIOUS
<1>5. QED BY <1>2, <1>3, <1>4, RondaInv

\* procesoNewAReady
LEMMA InvCrear ==
    ASSUME InvTurnos, NEW p \in Procesos, CrearProceso(p)
    PROVE  InvTurnos'
<1> DEFINE est == [estado EXCEPT ![p] = "READY"]
           ready == enviarAReady(colaReady, p)
<1>1. TypeOK /\ NadieAun
  BY DEF InvTurnos
<1>2. /\ est \in [Procesos -> EstadosPCB] /\ ready \in Seq(Procesos)
      /\ colaPrioritaria \in Seq(Procesos) /\ ultimoPrioritario \in BOOLEAN
      /\ algoritmo = "RR" => colaPrioritaria = <<>>
  BY <1>1, Colas DEF TypeOK, EstadosPCB, enviarAReady
<1>3. algoritmo = "VRR" /\ pidProcesoEnEjecucion = Nadie =>
        \A q \in Procesos : est[q] # "BLOCKED"
  BY <1>1 DEF NadieAun, TypeOK
<1>4. /\ Ronda(est, ready, colaPrioritaria, cpuLibre, ultimoPrioritario)
      /\ UNCHANGED <<algoritmo, esperanRecurso, quantum, planificador, finalizarQuantum,
                     quantumFinalizado, procesoInterrumpido, deCPU, interrupciones, desfasado>>
  BY DEF CrearProceso
<1>5. interrupciones' \in Seq(Procesos) /\ ToSet(interrupciones) \subseteq ToSet(interrupciones')
  BY <1>1, <1>4 DEF TypeOK
<1> HIDE DEF est, ready
<1>6. QED BY <1>2, <1>3, <1>4, <1>5, RondaAjena

\* OPERACION_FINALIZADA
LEMMA InvFinIO ==
    ASSUME InvTurnos, NEW p \in Procesos, FinIO(p)
    PROVE  InvTurnos'
<1> DEFINE est == [estado EXCEPT ![p] = "READY"]
<1>1. TypeOK /\ NadieAun /\ estado[p] = "BLOCKED"
  BY DEF InvTurnos, FinIO
<1>2. /\ est \in [Procesos -> EstadosPCB] /\ enviarAReady(colaReady, p) \in Seq(Procesos)
      /\ colaReady \in Seq(Procesos) /\ Append(colaPrioritaria, p) \in Seq(Procesos)
      /\ colaPrioritaria \in Seq(Procesos) /\ ultimoPrioritario \in BOOLEAN
      /\ algoritmo = "RR" => colaPrioritaria = <<>>
  BY <1>1, Colas DEF TypeOK, EstadosPCB, enviarAReady
<1>3. \A q \in Procesos : est[q] = "BLOCKED" => estado[q] = "BLOCKED"
  BY <1>1 DEF TypeOK
<1>4. algoritmo = "VRR" /\ pidProcesoEnEjecucion = Nadie =>
        \A q \in Procesos : est[q] # "BLOCKED"
  BY <1>1, <1>3 DEF NadieAun
<1>5. UNCHANGED <<algoritmo, esperanRecurso, quantum, planificador, finalizarQuantum,
                  quantumFinalizado, procesoInterrumpido, deCPU, desfasado>>
  BY DEF FinIO
<1>6. interrupciones \in Seq(Procesos) /\ algoritmo \in {"RR", "VRR"}
  BY <1>1, ConstantesOK DEF TypeOK
<1>7. CASE algoritmo = "RR" \/ quantum[p] = QuantumInicial
  <2>1. /\ Ronda(est, enviarAReady(colaReady, p), colaPrioritaria, cpuLibre, ultimoPrioritario)
        /\ interrupciones' = interrupciones
    BY <1>7 DEF FinIO
  <2> HIDE DEF est
  <2>2. QED BY <1>2, <1>4, <1>5, <1>6, <2>1, RondaAjena
<1>8. CASE ~(algoritmo = "RR" \/ quantum[p] = QuantumInicial)
  <2>1. Ronda(est, colaReady, Append(colaPrioritaria, p), cpuLibre, TRUE)
    BY <1>8 DEF FinIO
  <2>2. interrupciones' \in {interrupciones, Append(interrupciones, pidProcesoEnEjecucion)}
    BY <1>8 DEF FinIO
  <2>3. pidProcesoEnEjecucion \in Procesos
    BY <1>1, <1>6, <1>8 DEF NadieAun, TypeOK
  <2>4. interrupciones' \in Seq(Procesos) /\ ToSet(interrupciones) \subseteq ToSet(interrupciones')
    <3>1. PICK n \in Procesos : n = pidProcesoEnEjecucion
      BY <2>3
    <3>2. Append(interrupciones, n) \in Seq(Procesos)
      BY <1>6, Colas
    <3>3. ToSet(Append(interrupciones, n)) = ToSet(interrupciones) \cup {n}
      BY <1>6, Elementos
    <3>4. CASE interrupciones' = interrupciones
      BY <1>6, <3>4
    <3>5. CASE interrupciones' = Append(interrupciones, n)
      BY <3>2, <3>3, <3>5
    <3>6. QED BY <2>2, <3>1, <3>4, <3>5
  <2>5. algoritmo = "RR" => Append(colaPrioritaria, p) = <<>>
    BY <1>8
  <2> HIDE DEF est
  <2>6. QED BY <1>2, <1>4, <1>5, <2>1, <2>4, <2>5, RondaAjena
<1>9. QED BY <1>7, <1>8

\* finalizarProceso
LEMMA InvFinalizar ==
    ASSUME InvTurnos, NEW p \in Procesos, FinalizarEnReady(p)
    PROVE  InvTurnos'
<1>1. TypeOK /\ (~desfasado => UnPost)
  BY DEF InvTurnos
<1>2. PICK k \in DOMAIN colaReady : Salida(p, RemoveAt(colaReady, k), cpuLibre)
  BY DEF FinalizarEnReady
<1>3. RemoveAt(colaReady, k) \in Seq(Procesos) /\ cpuLibre \in BOOLEAN
  BY <1>1, SinUno DEF TypeOK
<1>4. UNCHANGED <<algoritmo, quantum, planificador, finalizarQuantum, quantumFinalizado,
                  procesoInterrumpido, deCPU, interrupciones, desfasado>>
  BY DEF FinalizarEnReady
<1>5. /\ quantum' \in [Procesos -> 1 .. QuantumInicial]
      /\ {planificador', deCPU'} \subseteq Mensaje /\ desfasado' \in BOOLEAN
      /\ finalizarQuantum' \in Nat /\ quantumFinalizado' \in Nat
      /\ desfasado => desfasado'
  BY <1>1, <1>4 DEF TypeOK
<1>6. desfasado' \/ finalizarQuantum' + quantumFinalizado' + Cardinality(Unen) =
                            IF planificador' = Nada THEN 0 ELSE 1
  BY <1>1, <1>4 DEF UnPost, Libre
<1>7. QED BY <1>2, <1>3, <1>4, <1>5, <1>6, SalidaInv

\* A free CPU, and a message that is being attended.
LEMMA InvCortar ==
    ASSUME InvTurnos, CortarQuantum
    PROVE  InvTurnos'
<1>1. TypeOK /\ UnaFuera /\ NadieAun /\ ConPid
  BY DEF InvTurnos
<1>2. /\ Libre /\ deCPU.op \in Corta /\ planificador' = deCPU /\ deCPU' = Nada
      /\ finalizarQuantum' = finalizarQuantum + 1
      /\ UNCHANGED <<algoritmo, colas, quantum, despacho, quantumFinalizado,
                     procesoInterrumpido, vueltas, interrupciones, desfasado>>
  BY DEF CortarQuantum
<1>3. deCPU # Nada /\ deCPU \in Mensaje /\ Nada \in Mensaje /\ Nada.op # "WAIT"
  BY <1>1, <1>2, Marcas DEF TypeOK, Corta
<1>4. enCPU = Nadie /\ ~cpuLibre /\ ~Libre'
  BY <1>1, <1>2, <1>3 DEF UnaFuera, Libre
<1>5. TypeOK'
  BY <1>1, <1>2, <1>3 DEF TypeOK
<1>6. UnaFuera' /\ ConPid'
  BY <1>1, <1>2, <1>4 DEF UnaFuera, ConPid
<1>7. NadieAun'
  BY <1>1, <1>2, <1>3 DEF NadieAun
<1>8. ~desfasado' => UnPost'
  <2>1. Unen' = Unen
    BY <1>2 DEF Unen
  <2>2. ~desfasado' => finalizarQuantum + quantumFinalizado + Cardinality(Unen) = 0
    BY <1>2 DEF InvTurnos, UnPost
  <2>3. PICK c : c = Cardinality(Unen)
    OBVIOUS
  <2>4. c \in Nat
    BY <2>3, UnenFinito
  <2>5. finalizarQuantum \in Nat /\ quantumFinalizado \in Nat
    BY <1>1 DEF TypeOK
  <2>6. ~desfasado' => finalizarQuantum' + quantumFinalizado' + c = 1
    BY <1>2, <2>2, <2>3, <2>4, <2>5
  <2>7. QED BY <1>4, <2>1, <2>3, <2>6 DEF UnPost
<1>9. QED BY <1>2, <1>3, <1>4, <1>5, <1>6, <1>7, <1>8 DEF InvTurnos

\* The rest of what cortarQuantum interrupted.
LEMMA InvSeguir ==
    ASSUME InvTurnos, SeguirCorte
    PROVE  InvTurnos'
<1> DEFINE p == planificador.pid
<1>1. TypeOK /\ UnaFuera /\ NadieAun
  BY DEF InvTurnos
<1>2. /\ ~Libre /\ quantumFinalizado > 0 /\ quantumFinalizado' = quantumFinalizado - 1
      /\ planificador' = Nada
      /\ UNCHANGED <<algoritmo, finalizarQuantum, procesoInterrumpido, deCPU,
                     interrupciones, desfasado>>
  BY DEF SeguirCorte, QuantumCortado
<1>3. p \in Procesos /\ enCPU = Nadie /\ deCPU' = Nada
  <2>1. planificador # Nada /\ planificador \in Mensaje
    BY <1>1, <1>2 DEF TypeOK, Libre
  <2>2. p \in Procesos
    BY <2>1, Marcas
  <2>3. enCPU = Nadie /\ deCPU = Nada
    BY <1>1, <1>2 DEF UnaFuera
  <2>4. QED BY <1>2, <2>2, <2>3
<1>4. desfasado' \/ finalizarQuantum' + quantumFinalizado' + Cardinality(Unen) = 0
  <2>1. PICK c : c = Cardinality(Unen)
    OBVIOUS
  <2>2. c \in Nat
    BY <2>1, UnenFinito
  <2>3. finalizarQuantum \in Nat /\ quantumFinalizado \in Nat
    BY <1>1 DEF TypeOK
  <2>4. ~desfasado => finalizarQuantum + quantumFinalizado + c = 1
    BY <1>2, <2>1 DEF InvTurnos, UnPost
  <2>5. ~desfasado => finalizarQuantum' + quantumFinalizado' + c = 0
    BY <1>2, <2>2, <2>3, <2>4
  <2>6. QED BY <1>2, <2>1, <2>5
<1>5. /\ finalizarQuantum' \in Nat /\ quantumFinalizado' \in Nat
      /\ procesoInterrumpido' \in BOOLEAN /\ desfasado' \in BOOLEAN
      /\ {planificador', deCPU'} \subseteq Mensaje /\ interrupciones' \in Seq(Procesos)
      /\ algoritmo' \in Algoritmos /\ (desfasado => desfasado')
      /\ ToSet(interrupciones) \subseteq ToSet(interrupciones')
  <2>1. quantumFinalizado' \in Nat
    BY <1>1, <1>2 DEF TypeOK
  <2>2. {planificador', deCPU'} \subseteq Mensaje
    BY <1>2, <1>3, Marcas
  <2>3. QED BY <1>1, <1>2, <2>1, <2>2 DEF TypeOK
<1>6. /\ colaReady \in Seq(Procesos) /\ colaPrioritaria \in Seq(Procesos)
      /\ ultimoPrioritario \in BOOLEAN
      /\ algoritmo = "RR" => colaPrioritaria = <<>>
      /\ estado \in [Procesos -> EstadosPCB] /\ esperanRecurso \in Seq(Procesos)
      /\ quantum \in [Procesos -> 1 .. QuantumInicial]
  BY <1>1 DEF TypeOK, EstadosPCB
<1>7. algoritmo = "VRR" => pidProcesoEnEjecucion # Nadie
  BY <1>1, <1>2 DEF NadieAun
<1>8. \A est \in [Procesos -> EstadosPCB], ready \in Seq(Procesos) :
        /\ Ronda(est, ready, colaPrioritaria, TRUE, ultimoPrioritario)
        /\ esperanRecurso' = esperanRecurso /\ quantum' \in [Procesos -> 1 .. QuantumInicial]
        => InvTurnos'
  <2>1. SUFFICES ASSUME NEW est \in [Procesos -> EstadosPCB], NEW ready \in Seq(Procesos),
                        Ronda(est, ready, colaPrioritaria, TRUE, ultimoPrioritario),
                        esperanRecurso' = esperanRecurso,
                        quantum' \in [Procesos -> 1 .. QuantumInicial]
                 PROVE  InvTurnos'
    OBVIOUS
  <2>2. RestoTipos' /\ algoritmo' = algoritmo
    BY <1>2, <1>5, <1>6, <2>1 DEF RestoTipos
  <2>3. algoritmo = "VRR" /\ pidProcesoEnEjecucion = Nadie =>
            \A q \in Procesos : est[q] # "BLOCKED"
    BY <1>7
  <2>4. QED BY <1>2, <1>3, <1>4, <1>5, <1>6, <2>1, <2>2, <2>3, RondaInv
<1>9. Salida(p, colaReady, TRUE) /\ quantum' \in [Procesos -> 1 .. QuantumInicial] => InvTurnos'
  <2>1. SUFFICES ASSUME Salida(p, colaReady, TRUE),
                        quantum' \in [Procesos -> 1 .. QuantumInicial]
                 PROVE  InvTurnos'
    OBVIOUS
  <2> HIDE DEF p
  <2>2. QED BY <1>2, <1>3, <1>4, <1>5, <1>6, <2>1, SalidaInv
<1>10. CASE /\ planificador.op = "FIN_DE_Q"
            /\ Ronda([estado EXCEPT ![p] = "READY"], enviarAReady(colaReady, p),
                     colaPrioritaria, TRUE, ultimoPrioritario)
            /\ UNCHANGED <<esperanRecurso, quantum>>
  <2>1. /\ [estado EXCEPT ![p] = "READY"] \in [Procesos -> EstadosPCB]
        /\ enviarAReady(colaReady, p) \in Seq(Procesos)
    BY <1>3, <1>6, Colas DEF EstadosPCB, enviarAReady
  <2>2. QED BY <1>6, <1>8, <1>10, <2>1
<1>11. CASE planificador.op = "EXIT" /\ Salida(p, colaReady, TRUE) /\ UNCHANGED quantum
  BY <1>6, <1>9, <1>11
<1>12. CASE /\ planificador.op = "IO"
            /\ \/ /\ Ronda([estado EXCEPT ![p] = "BLOCKED"], colaReady, colaPrioritaria,
                           TRUE, ultimoPrioritario)
                  /\ UNCHANGED esperanRecurso
               \/ Salida(p, colaReady, TRUE)
            /\ IF algoritmo = "VRR"
               THEN \E paso \in 0 .. QuantumInicial :
                      quantum' = [quantum EXCEPT ![p] = asignarQuantum(@, paso)]
               ELSE UNCHANGED quantum
  <2>1. [estado EXCEPT ![p] = "BLOCKED"] \in [Procesos -> EstadosPCB]
    BY <1>3, <1>6 DEF EstadosPCB
  <2>2. quantum' \in [Procesos -> 1 .. QuantumInicial]
    <3>1. QuantumInicial \in 1 .. QuantumInicial
      BY ConstantesOK
    <3>2. ASSUME NEW paso \in 0 .. QuantumInicial
          PROVE  asignarQuantum(quantum[p], paso) \in 1 .. QuantumInicial
      <4>1. PICK q \in 1 .. QuantumInicial : q = quantum[p]
        BY <1>3, <1>6
      <4>2. q - paso <= 0 \/ q - paso \in 1 .. QuantumInicial
        BY <4>1, ConstantesOK
      <4>3. QED BY <3>1, <4>1, <4>2 DEF asignarQuantum
    <3>3. QED BY <1>3, <1>6, <1>12, <3>2
  <2>3. QED BY <1>6, <1>8, <1>9, <1>12, <2>1, <2>2
<1>13. QED BY <1>10, <1>11, <1>12 DEF SeguirCorte

\* waitRR: the process comes back to the CPU with the turn it had.
LEMMA InvTomado ==
    ASSUME InvTurnos, WaitTomado
    PROVE  InvTurnos'
<1>1. TypeOK /\ UnaFuera /\ NadieAun /\ ConPid
  BY DEF InvTurnos
<1>2. /\ Libre /\ deCPU.op = "WAIT" /\ enCPU' = deCPU.pid /\ deCPU' = Nada
      /\ UNCHANGED <<algoritmo, colas, quantum, cpuLibre, ultimoPrioritario,
                     pidProcesoEnEjecucion, planificador, hilos, interrupciones, desfasado>>
  BY DEF WaitTomado
<1>3. /\ deCPU # Nada /\ deCPU.pid \in Procesos
      /\ Nada \in Mensaje /\ Nada.op # "WAIT" /\ Nadie \notin Procesos
  BY <1>1, <1>2, Marcas DEF TypeOK
<1>4. ~cpuLibre
  BY <1>1, <1>3 DEF UnaFuera
<1>5. TypeOK'
  BY <1>1, <1>2, <1>3 DEF TypeOK
<1>6. UnaFuera' /\ NadieAun' /\ ConPid'
  BY <1>1, <1>2, <1>3, <1>4 DEF UnaFuera, NadieAun, ConPid, Libre
<1>7. ~desfasado' => UnPost'
  <2>1. Unen' = Unen
    BY <1>2 DEF Unen
  <2>2. ~desfasado' => UnPost
    BY <1>2 DEF InvTurnos
  <2>3. QED BY <1>2, <2>1, <2>2 DEF UnPost, Libre
<1>8. ~desfasado' => Cubierto(enCPU)'
  <2>1. ~desfasado' => Cubierto(deCPU.pid)
    BY <1>2 DEF InvTurnos
  <2>2. QED BY <1>2, <2>1 DEF Cubierto
<1>9. QED BY <1>2, <1>3, <1>5, <1>6, <1>7, <1>8 DEF InvTurnos

\* waitRR: what blocks leaves its post behind.
LEMMA InvWaitCorta ==
    ASSUME InvTurnos, WaitCorta
    PROVE  InvTurnos'
<1> DEFINE p == deCPU.pid
<1>1. TypeOK /\ UnaFuera /\ NadieAun
  BY DEF InvTurnos
<1>2. /\ Libre /\ deCPU.op = "WAIT" /\ finalizarQuantum' = finalizarQuantum + 1
      /\ desfasado' = TRUE /\ deCPU' = Nada
      /\ UNCHANGED <<algoritmo, quantum, planificador, quantumFinalizado, procesoInterrumpido,
                     interrupciones>>
  BY DEF WaitCorta
<1>3. /\ deCPU # Nada /\ p \in Procesos /\ Nada \in Mensaje
  BY <1>1, <1>2, Marcas DEF TypeOK
<1>4. enCPU = Nadie /\ planificador' = Nada
  BY <1>1, <1>2, <1>3 DEF UnaFuera, Libre
<1>5. /\ finalizarQuantum' \in Nat /\ quantumFinalizado' \in Nat
      /\ procesoInterrumpido' \in BOOLEAN /\ desfasado' \in BOOLEAN
      /\ {planificador', deCPU'} \subseteq Mensaje /\ interrupciones' \in Seq(Procesos)
      /\ algoritmo' \in Algoritmos /\ algoritmo' = algoritmo
      /\ quantum' \in [Procesos -> 1 .. QuantumInicial]
      /\ ToSet(interrupciones) \subseteq ToSet(interrupciones')
  BY <1>1, <1>2, <1>3, <1>4 DEF TypeOK
<1>6. /\ colaReady \in Seq(Procesos) /\ colaPrioritaria \in Seq(Procesos)
      /\ ultimoPrioritario \in BOOLEAN
      /\ algoritmo = "RR" => colaPrioritaria = <<>>
      /\ estado \in [Procesos -> EstadosPCB] /\ esperanRecurso \in Seq(Procesos)
  BY <1>1 DEF TypeOK, EstadosPCB
<1>7. algoritmo = "VRR" => pidProcesoEnEjecucion # Nadie
  BY <1>1, <1>3 DEF NadieAun
<1>8. CASE /\ esperanRecurso' = Append(esperanRecurso, p)
           /\ Ronda([estado EXCEPT ![p] = "BLOCKED"], colaReady, colaPrioritaria,
                    TRUE, ultimoPrioritario)
  <2> DEFINE est == [estado EXCEPT ![p] = "BLOCKED"]
  <2>1. est \in [Procesos -> EstadosPCB] /\ esperanRecurso' \in Seq(Procesos)
    BY <1>3, <1>6, <1>8, Colas DEF EstadosPCB
  <2>2. RestoTipos'
    BY <1>5, <2>1 DEF RestoTipos
  <2>3. Ronda(est, colaReady, colaPrioritaria, TRUE, ultimoPrioritario)
    BY <1>8
  <2> HIDE DEF est
  <2>4. algoritmo = "VRR" /\ pidProcesoEnEjecucion = Nadie =>
            \A q \in Procesos : est[q] # "BLOCKED"
    BY <1>7
  <2>5. QED BY <1>2, <1>4, <1>5, <1>6, <2>1, <2>2, <2>3, <2>4, RondaInv
<1>9. CASE Salida(p, colaReady, TRUE)
  <2> HIDE DEF p
  <2>1. QED BY <1>2, <1>3, <1>4, <1>5, <1>6, <1>9, SalidaInv
<1>10. QED BY <1>8, <1>9 DEF WaitCorta

\* FINALIZAR_PROCESO and OUT_OF_MEMORY
LEMMA InvDesalojo ==
    ASSUME InvTurnos, Desalojo
    PROVE  InvTurnos'
<1> DEFINE p == deCPU.pid
<1>1. TypeOK /\ UnaFuera /\ (~desfasado => UnPost)
  BY DEF InvTurnos
<1>2. /\ Libre /\ deCPU.op = "OOM" /\ deCPU' = Nada /\ Salida(p, colaReady, TRUE)
      /\ UNCHANGED <<algoritmo, quantum, planificador, finalizarQuantum, quantumFinalizado,
                     procesoInterrumpido, interrupciones, desfasado>>
  BY DEF Desalojo
<1>3. /\ deCPU # Nada /\ p \in Procesos /\ Nada \in Mensaje
  BY <1>1, <1>2, Marcas DEF TypeOK
<1>4. enCPU = Nadie /\ planificador' = Nada
  BY <1>1, <1>2, <1>3 DEF UnaFuera, Libre
<1>5. /\ finalizarQuantum' \in Nat /\ quantumFinalizado' \in Nat
      /\ desfasado' \in BOOLEAN /\ (desfasado => desfasado')
      /\ {planificador', deCPU'} \subseteq Mensaje
      /\ quantum' \in [Procesos -> 1 .. QuantumInicial]
      /\ colaReady \in Seq(Procesos)
  BY <1>1, <1>2, <1>3, <1>4 DEF TypeOK
<1>6. desfasado' \/ finalizarQuantum' + quantumFinalizado' + Cardinality(Unen) =
                            IF planificador' = Nada THEN 0 ELSE 1
  BY <1>1, <1>2 DEF UnPost, Libre
<1> HIDE DEF p
<1>7. QED BY <1>2, <1>3, <1>4, <1>5, <1>6, SalidaInv

-------------------------------------------------------------------------------
(* The threads of each turn *)

\* A step of a thread leaves the turns of the others, and the PID of its own
\* unless it ends.
LEMMA OtraVuelta ==
    ASSUME TypeOK, ConPid, NEW v \in 1 .. Hilos,
           NEW fase \in {"libre", "nace", "espera", "une"},
           NEW reloj \in {"no", "duerme", "avisa"},
           vueltas[v] # Ninguna, Vuelta(v, fase, reloj)
    PROVE  /\ vueltas' \in [1 .. Hilos -> Turno]
           /\ \A w \in 1 .. Hilos : w # v => vueltas'[w] = vueltas[w]
           /\ vueltas'[v].fase = fase /\ vueltas'[v].reloj = reloj
           /\ fase # "libre" \/ reloj # "no" => vueltas'[v].pid = vueltas[v].pid
           /\ vueltas[v].pid \in Procesos
           /\ ConPid'
<1> DEFINE nueva == IF fase = "libre" /\ reloj = "no" THEN Ninguna
                    ELSE [vueltas[v] EXCEPT !.fase = fase, !.reloj = reloj]
<1>1. vueltas \in [1 .. Hilos -> Turno]
  BY DEF TypeOK, Turno
<1>2. vueltas[v].pid \in Procesos
  BY <1>1 DEF ConPid, Turno
<1>3. Ninguna \in Turno
  BY DEF Ninguna, Turno
<1>4. /\ nueva \in Turno /\ nueva.fase = fase /\ nueva.reloj = reloj
      /\ nueva = Ninguna \/ nueva.pid = vueltas[v].pid
      /\ fase # "libre" \/ reloj # "no" => nueva.pid = vueltas[v].pid
  <2>1. CASE fase = "libre" /\ reloj = "no"
    BY <1>3, <2>1 DEF Ninguna
  <2>2. CASE ~(fase = "libre" /\ reloj = "no")
    <3>1. PICK t \in Turno : t = vueltas[v]
      BY <1>1
    <3>2. [t EXCEPT !.fase = fase, !.reloj = reloj] \in Turno
      BY DEF Turno
    <3>3. nueva = [t EXCEPT !.fase = fase, !.reloj = reloj]
      BY <2>2, <3>1
    <3>4. nueva.fase = fase /\ nueva.reloj = reloj /\ nueva.pid = t.pid
      BY <3>3 DEF Turno
    <3>5. QED BY <3>1, <3>2, <3>3, <3>4
  <2>3. QED BY <2>1, <2>2
<1>5. vueltas' = [vueltas EXCEPT ![v] = nueva]
  BY DEF Vuelta
<1> HIDE DEF nueva
<1>6. vueltas' \in [1 .. Hilos -> Turno] /\ vueltas'[v] = nueva
      /\ \A w \in 1 .. Hilos : w # v => vueltas'[w] = vueltas[w]
  BY <1>1, <1>4, <1>5
<1>7. ConPid'
  <2>1. \A w \in 1 .. Hilos : vueltas'[w].pid = Nadie => vueltas'[w] = Ninguna
    BY <1>2, <1>4, <1>6, Marcas DEF ConPid
  <2>2. QED BY <2>1 DEF ConPid
<1>8. QED BY <1>2, <1>4, <1>6, <1>7

\* What the steps of the threads keep: the posts of whoever waits for them, and
\* the interrupt that is to come.
LEMMA HiloInv ==
    ASSUME InvTurnos, FueraDeHilos, ConPid', vueltas' \in [1 .. Hilos -> Turno],
           finalizarQuantum' \in Nat, quantumFinalizado' \in Nat,
           procesoInterrumpido' \in BOOLEAN, interrupciones' \in Seq(Procesos),
           ~desfasado => /\ UnPost'
                         /\ ~Libre \/ \A p \in Procesos : Cubierto(p) => Cubierto(p)'
    PROVE  InvTurnos'
<1>1. TypeOK /\ UnaFuera /\ NadieAun
  BY DEF InvTurnos
<1>2. UNCHANGED <<algoritmo, colas, quantum, despacho, planificador, deCPU, desfasado>>
  BY DEF FueraDeHilos
<1>3. TypeOK'
  BY <1>1, <1>2 DEF TypeOK, Turno
<1>4. UnaFuera' /\ NadieAun'
  BY <1>1, <1>2 DEF UnaFuera, NadieAun, Libre
<1>5. ASSUME ~desfasado
      PROVE  /\ enCPU' # Nadie => Cubierto(enCPU)'
             /\ deCPU'.op = "WAIT" => Cubierto(deCPU.pid)'
  <2>1. CASE ~Libre
    <3>1. enCPU' = Nadie /\ deCPU' = Nada
      BY <1>1, <1>2, <2>1 DEF UnaFuera
    <3>2. QED BY <3>1, Marcas
  <2>2. CASE Libre
    <3>1. \A p \in Procesos : Cubierto(p) => Cubierto(p)'
      BY <1>5, <2>2
    <3>2. enCPU' # Nadie => Cubierto(enCPU)'
      <4>1. enCPU # Nadie => enCPU \in Procesos /\ Cubierto(enCPU)
        BY <1>1, <1>5 DEF InvTurnos, TypeOK
      <4>2. QED BY <1>2, <3>1, <4>1 DEF Cubierto
    <3>3. deCPU'.op = "WAIT" => Cubierto(deCPU.pid)'
      <4>1. deCPU.op = "WAIT" => deCPU.pid \in Procesos /\ Cubierto(deCPU.pid)
        BY <1>1, <1>5, Marcas DEF InvTurnos, TypeOK
      <4>2. QED BY <1>2, <3>1, <4>1 DEF Cubierto
    <3>4. QED BY <3>2, <3>3
  <2>3. QED BY <2>1, <2>2
<1>6. QED BY <1>2, <1>3, <1>4, <1>5 DEF InvTurnos

\* The turns that join, after a step of the turn v.
LEMMA UnenPaso ==
    ASSUME NEW v \in 1 .. Hilos, \A w \in 1 .. Hilos : w # v => vueltas'[w] = vueltas[w]
    PROVE  LET antes == vueltas[v].fase = "une"
               despues == vueltas'[v].fase = "une"
           IN  /\ (antes <=> despues) => Unen' = Unen
               /\ ~antes /\ despues => Cardinality(Unen)' = Cardinality(Unen) + 1
               /\ antes /\ ~despues => Cardinality(Unen)' = Cardinality(Unen) - 1
               /\ antes => Cardinality(Unen) # 0
<1>1. IsFiniteSet(Unen)
  BY UnenFinito
<1>2. vueltas[v].fase = "une" <=> v \in Unen
  BY DEF Unen
<1>3. (vueltas[v].fase = "une" <=> vueltas'[v].fase = "une") => Unen' = Unen
  BY DEF Unen
<1>4. vueltas[v].fase # "une" /\ vueltas'[v].fase = "une" =>
        Cardinality(Unen)' = Cardinality(Unen) + 1
  <2>1. vueltas[v].fase # "une" /\ vueltas'[v].fase = "une" => Unen' = Unen \cup {v}
    BY DEF Unen
  <2>2. v \notin Unen => Cardinality(Unen \cup {v}) = Cardinality(Unen) + 1
    BY <1>1, FS_AddElement
  <2>3. QED BY <1>2, <2>1, <2>2
<1>5. vueltas[v].fase = "une" /\ vueltas'[v].fase # "une" =>
        Cardinality(Unen)' = Cardinality(Unen) - 1
  <2>1. vueltas[v].fase = "une" /\ vueltas'[v].fase # "une" => Unen' = Unen \ {v}
    BY DEF Unen
  <2>2. v \in Unen => Cardinality(Unen \ {v}) = Cardinality(Unen) - 1
    BY <1>1, FS_RemoveElement
  <2>3. QED BY <1>2, <2>1, <2>2
<1>6. vueltas[v].fase = "une" => Cardinality(Unen) # 0
  BY <1>1, <1>2, FS_EmptySet
<1>7. QED BY <1>3, <1>4, <1>5, <1>6

\* A step that no post is about.
LEMMA SinPost ==
    ASSUME InvTurnos, UNCHANGED <<finalizarQuantum, quantumFinalizado, planificador>>,
           Unen' = Unen, ~desfasado
    PROVE  UnPost'
BY DEF InvTurnos, UnPost, Libre

\* esperarVuelta, up to its sem_wait
LEMMA InvNacer ==
    ASSUME InvTurnos, NEW v \in 1 .. Hilos, Nacer(v)
    PROVE  InvTurnos'
<1>1. TypeOK /\ ConPid
  BY DEF InvTurnos
<1>2. /\ vueltas[v].fase = "nace" /\ Vuelta(v, "espera", "duerme") /\ FueraDeHilos
      /\ procesoInterrumpido' = FALSE
      /\ UNCHANGED <<finalizarQuantum, quantumFinalizado, interrupciones>>
  BY DEF Nacer
<1>3. vueltas[v] # Ninguna
  BY <1>2 DEF Ninguna
<1>4. /\ vueltas' \in [1 .. Hilos -> Turno] /\ ConPid'
      /\ \A w \in 1 .. Hilos : w # v => vueltas'[w] = vueltas[w]
      /\ vueltas'[v].fase = "espera" /\ vueltas'[v].reloj = "duerme"
      /\ vueltas'[v].pid = vueltas[v].pid
  BY <1>1, <1>2, <1>3, OtraVuelta
<1>5. ~desfasado => UnPost'
  <2>1. Unen' = Unen
    BY <1>2, <1>4, UnenPaso
  <2>2. planificador' = planificador
    BY <1>2 DEF FueraDeHilos
  <2>3. QED BY <1>2, <2>1, <2>2, SinPost
<1>6. \A p \in Procesos : Cubierto(p) => Cubierto(p)'
  <2>1. SUFFICES ASSUME NEW p \in Procesos, Cubierto(p) PROVE Cubierto(p)'
    OBVIOUS
  <2>2. CASE p \in ToSet(interrupciones)
    BY <1>2, <2>2 DEF Cubierto
  <2>3. ASSUME NEW w \in 1 .. Hilos, vueltas[w].pid = p,
               vueltas[w].fase = "nace" \/ vueltas[w].reloj = "duerme"
        PROVE  Cubierto(p)'
    <3>1. vueltas'[w].pid = p /\ (vueltas'[w].fase = "nace" \/ vueltas'[w].reloj = "duerme")
      BY <1>4, <2>3
    <3>2. QED BY <3>1 DEF Cubierto
  <2>4. QED BY <2>1, <2>2, <2>3 DEF Cubierto
<1>7. /\ finalizarQuantum' \in Nat /\ quantumFinalizado' \in Nat
      /\ procesoInterrumpido' \in BOOLEAN /\ interrupciones' \in Seq(Procesos)
  BY <1>1, <1>2 DEF TypeOK
<1>8. QED BY <1>2, <1>4, <1>5, <1>6, <1>7, HiloInv

\* Whoever takes the post does it in the middle of a cut, when the CPU has nobody.
LEMMA InvDespertar ==
    ASSUME InvTurnos, NEW v \in 1 .. Hilos, Despertar(v)
    PROVE  InvTurnos'
<1> DEFINE fase == IF procesoInterrumpido THEN "une" ELSE "libre"
           reloj == IF procesoInterrumpido \/ vueltas[v].reloj = "avisa"
                    THEN vueltas[v].reloj ELSE "no"
<1>1. TypeOK /\ ConPid
  BY DEF InvTurnos
<1>2. /\ vueltas[v].fase = "espera" /\ finalizarQuantum > 0
      /\ finalizarQuantum' = finalizarQuantum - 1 /\ FueraDeHilos
      /\ UNCHANGED <<procesoInterrumpido, interrupciones>>
  BY DEF Despertar
<1>3. /\ Vuelta(v, fase, reloj)
      /\ quantumFinalizado' = IF procesoInterrumpido THEN quantumFinalizado
                              ELSE quantumFinalizado + 1
  BY DEF Despertar
<1>4. /\ vueltas[v] # Ninguna /\ fase \in {"libre", "nace", "espera", "une"}
      /\ reloj \in {"no", "duerme", "avisa"}
  <2>1. vueltas[v].reloj \in {"no", "duerme", "avisa"}
    BY <1>1 DEF TypeOK
  <2>2. QED BY <1>2, <2>1 DEF Ninguna
<1>5. fase = "une" <=> procesoInterrumpido
  OBVIOUS
<1> HIDE DEF fase, reloj
<1>6. /\ vueltas' \in [1 .. Hilos -> Turno] /\ ConPid'
      /\ \A w \in 1 .. Hilos : w # v => vueltas'[w] = vueltas[w]
      /\ vueltas'[v].fase = fase
  BY <1>1, <1>3, <1>4, OtraVuelta
<1>7. finalizarQuantum' \in Nat /\ quantumFinalizado' \in Nat
  BY <1>1, <1>2, <1>3 DEF TypeOK
<1>8. PICK c \in Nat : c = Cardinality(Unen)
  BY UnenFinito
<1>9. PICK f \in Nat, q \in Nat : f = finalizarQuantum /\ q = quantumFinalizado
  BY <1>1 DEF TypeOK
<1>10. ASSUME ~desfasado
       PROVE  ~Libre /\ UnPost'
  <2>1. f + q + c = IF Libre THEN 0 ELSE 1
    BY <1>8, <1>9, <1>10 DEF InvTurnos, UnPost
  <2>2. ~Libre
    BY <1>2, <1>9, <2>1
  <2>3. ~Libre' /\ f + q + c = 1
    BY <1>2, <2>1, <2>2 DEF FueraDeHilos, Libre
  <2>4. CASE procesoInterrumpido
    <3>1. Cardinality(Unen)' = c + 1
      BY <1>2, <1>5, <1>6, <1>8, <2>4, UnenPaso
    <3>2. finalizarQuantum' = f - 1 /\ quantumFinalizado' = q
      BY <1>2, <1>3, <1>9, <2>4
    <3>3. (f - 1) + q + (c + 1) = 1
      BY <2>3
    <3>4. QED BY <2>2, <2>3, <3>1, <3>2, <3>3 DEF UnPost
  <2>5. CASE ~procesoInterrumpido
    <3>1. Unen' = Unen
      BY <1>2, <1>5, <1>6, <2>5, UnenPaso
    <3>2. Cardinality(Unen)' = c
      BY <1>8, <3>1
    <3>3. finalizarQuantum' = f - 1 /\ quantumFinalizado' = q + 1
      BY <1>2, <1>3, <1>9, <2>5
    <3>4. (f - 1) + (q + 1) + c = 1
      BY <2>3
    <3>5. QED BY <2>2, <2>3, <3>2, <3>3, <3>4 DEF UnPost
  <2>6. QED BY <2>2, <2>4, <2>5
<1>11. procesoInterrumpido' \in BOOLEAN /\ interrupciones' \in Seq(Procesos)
  BY <1>1, <1>2 DEF TypeOK
<1>12. QED BY <1>2, <1>6, <1>7, <1>10, <1>11, HiloInv

\* pthread_join
LEMMA InvUnir ==
    ASSUME InvTurnos, NEW v \in 1 .. Hilos, Unir(v)
    PROVE  InvTurnos'
<1>1. TypeOK /\ ConPid
  BY DEF InvTurnos
<1>2. /\ vueltas[v].fase = "une" /\ Vuelta(v, "libre", "no") /\ FueraDeHilos
      /\ quantumFinalizado' = quantumFinalizado + 1
      /\ UNCHANGED <<finalizarQuantum, procesoInterrumpido, interrupciones>>
  BY DEF Unir
<1>3. vueltas[v] # Ninguna
  BY <1>2 DEF Ninguna
<1>4. /\ vueltas' \in [1 .. Hilos -> Turno] /\ ConPid'
      /\ \A w \in 1 .. Hilos : w # v => vueltas'[w] = vueltas[w]
      /\ vueltas'[v].fase = "libre"
  BY <1>1, <1>2, <1>3, OtraVuelta
<1>5. PICK c \in Nat : c = Cardinality(Unen)
  BY UnenFinito
<1>6. PICK f \in Nat, q \in Nat : f = finalizarQuantum /\ q = quantumFinalizado
  BY <1>1 DEF TypeOK
<1>7. ASSUME ~desfasado
      PROVE  ~Libre /\ UnPost'
  <2>1. f + q + c = IF Libre THEN 0 ELSE 1
    BY <1>5, <1>6, <1>7 DEF InvTurnos, UnPost
  <2>2. c # 0 /\ Cardinality(Unen)' = c - 1
    BY <1>2, <1>4, <1>5, UnenPaso
  <2>3. ~Libre
    BY <2>1, <2>2
  <2>4. ~Libre' /\ f + q + c = 1
    BY <1>2, <2>1, <2>3 DEF FueraDeHilos, Libre
  <2>5. f + (q + 1) + (c - 1) = 1
    BY <2>4
  <2>6. QED BY <1>2, <1>6, <2>2, <2>3, <2>4, <2>5 DEF UnPost
<1>8. /\ finalizarQuantum' \in Nat /\ quantumFinalizado' \in Nat
      /\ procesoInterrumpido' \in BOOLEAN /\ interrupciones' \in Seq(Procesos)
  BY <1>1, <1>2 DEF TypeOK
<1>9. QED BY <1>2, <1>4, <1>7, <1>8, HiloInv

\* The timer hands its cover over to the interrupt that it sends.
LEMMA InvVencer ==
    ASSUME InvTurnos, NEW v \in 1 .. Hilos, Vencer(v)
    PROVE  InvTurnos'
<1> DEFINE fase == vueltas[v].fase
           n == vueltas[v].pid
<1>1. TypeOK /\ ConPid
  BY DEF InvTurnos
<1>2. /\ vueltas[v].reloj = "duerme" /\ interrupciones' = Append(interrupciones, n)
      /\ Vuelta(v, fase, "avisa") /\ FueraDeHilos
      /\ UNCHANGED <<finalizarQuantum, quantumFinalizado, procesoInterrumpido>>
  BY DEF Vencer
<1>3. vueltas[v] # Ninguna /\ fase \in {"libre", "nace", "espera", "une"}
  <2>1. vueltas[v] # Ninguna
    BY <1>2 DEF Ninguna
  <2>2. fase \in {"libre", "nace", "espera", "une"}
    BY <1>1 DEF TypeOK
  <2>3. QED BY <2>1, <2>2
<1>4. /\ vueltas' \in [1 .. Hilos -> Turno] /\ ConPid'
      /\ \A w \in 1 .. Hilos : w # v => vueltas'[w] = vueltas[w]
      /\ vueltas'[v].fase = fase /\ n \in Procesos
  <2> HIDE DEF fase
  <2>1. QED BY <1>1, <1>2, <1>3, OtraVuelta
<1>5. ~desfasado => UnPost'
  <2>1. Unen' = Unen
    BY <1>2, <1>4, UnenPaso
  <2>2. planificador' = planificador
    BY <1>2 DEF FueraDeHilos
  <2>3. QED BY <1>2, <2>1, <2>2, SinPost
<1>6. /\ interrupciones' \in Seq(Procesos)
      /\ ToSet(interrupciones') = ToSet(interrupciones) \cup {n}
  <2>1. interrupciones \in Seq(Procesos)
    BY <1>1 DEF TypeOK
  <2>2. PICK m \in Procesos : m = n
    BY <1>4
  <2>3. /\ Append(interrupciones, m) \in Seq(Procesos)
        /\ ToSet(Append(interrupciones, m)) = ToSet(interrupciones) \cup {m}
    BY <2>1, Colas, Elementos
  <2>4. QED BY <1>2, <2>2, <2>3
<1>7. \A p \in Procesos : Cubierto(p) => Cubierto(p)'
  <2>1. SUFFICES ASSUME NEW p \in Procesos, Cubierto(p) PROVE Cubierto(p)'
    OBVIOUS
  <2>2. CASE p \in ToSet(interrupciones)
    BY <1>6, <2>2 DEF Cubierto
  <2>3. ASSUME NEW w \in 1 .. Hilos, vueltas[w].pid = p,
               vueltas[w].fase = "nace" \/ vueltas[w].reloj = "duerme"
        PROVE  Cubierto(p)'
    <3>1. CASE w = v
      BY <1>6, <2>3, <3>1 DEF Cubierto
    <3>2. CASE w # v
      <4>1. vueltas'[w] = vueltas[w]
        BY <1>4, <3>2
      <4>2. QED BY <2>3, <4>1 DEF Cubierto
    <3>3. QED BY <3>1, <3>2
  <2>4. QED BY <2>1, <2>2, <2>3 DEF Cubierto
<1>8. /\ finalizarQuantum' \in Nat /\ quantumFinalizado' \in Nat
      /\ procesoInterrumpido' \in BOOLEAN
  BY <1>1, <1>2 DEF TypeOK
<1>9. QED BY <1>2, <1>4, <1>5, <1>6, <1>7, <1>8, HiloInv

\* procesoInterrumpido, with the interrupt already in the socket.
LEMMA InvAvisar ==
    ASSUME InvTurnos, NEW v \in 1 .. Hilos, Avisar(v)
    PROVE  InvTurnos'
<1> DEFINE fase == vueltas[v].fase
<1>1. TypeOK /\ ConPid
  BY DEF InvTurnos
<1>2. /\ vueltas[v].reloj = "avisa" /\ procesoInterrumpido' = TRUE
      /\ Vuelta(v, fase, "no") /\ FueraDeHilos
      /\ UNCHANGED <<finalizarQuantum, quantumFinalizado, interrupciones>>
  BY DEF Avisar
<1>3. vueltas[v] # Ninguna /\ fase \in {"libre", "nace", "espera", "une"}
  <2>1. vueltas[v] # Ninguna
    BY <1>2 DEF Ninguna
  <2>2. fase \in {"libre", "nace", "espera", "une"}
    BY <1>1 DEF TypeOK
  <2>3. QED BY <2>1, <2>2
<1>4. /\ vueltas' \in [1 .. Hilos -> Turno] /\ ConPid'
      /\ \A w \in 1 .. Hilos : w # v => vueltas'[w] = vueltas[w]
      /\ vueltas'[v].fase = fase
      /\ fase # "libre" => vueltas'[v].pid = vueltas[v].pid
  <2> HIDE DEF fase
  <2>1. QED BY <1>1, <1>2, <1>3, OtraVuelta
<1>5. ~desfasado => UnPost'
  <2>1. Unen' = Unen
    BY <1>2, <1>4, UnenPaso
  <2>2. planificador' = planificador
    BY <1>2 DEF FueraDeHilos
  <2>3. QED BY <1>2, <2>1, <2>2, SinPost
<1>6. \A p \in Procesos : Cubierto(p) => Cubierto(p)'
  <2>1. SUFFICES ASSUME NEW p \in Procesos, Cubierto(p) PROVE Cubierto(p)'
    OBVIOUS
  <2>2. CASE p \in ToSet(interrupciones)
    BY <1>2, <2>2 DEF Cubierto
  <2>3. ASSUME NEW w \in 1 .. Hilos, vueltas[w].pid = p,
               vueltas[w].fase = "nace" \/ vueltas[w].reloj = "duerme"
        PROVE  Cubierto(p)'
    <3>1. vueltas'[w].pid = p /\ (vueltas'[w].fase = "nace" \/ vueltas'[w].reloj = "duerme")
      <4>1. CASE w = v
        BY <1>2, <1>4, <2>3, <4>1
      <4>2. CASE w # v
        BY <1>4, <2>3, <4>2
      <4>3. QED BY <4>1, <4>2
    <3>2. QED BY <3>1 DEF Cubierto
  <2>4. QED BY <2>1, <2>2, <2>3 DEF Cubierto
<1>7. /\ finalizarQuantum' \in Nat /\ quantumFinalizado' \in Nat
      /\ procesoInterrumpido' \in BOOLEAN /\ interrupciones' \in Seq(Procesos)
  BY <1>1, <1>2 DEF TypeOK
<1>8. QED BY <1>2, <1>4, <1>5, <1>6, <1>7, HiloInv

-------------------------------------------------------------------------------
(* The CPU *)

\* What the CPU gives back had its turn.
LEMMA InvInstruccion ==
    ASSUME InvTurnos, NEW op \in (Corta \cup NoCorta) \ {"FIN_DE_Q"}, Instruccion(op)
    PROVE  InvTurnos'
<1>1. TypeOK /\ UnaFuera /\ NadieAun /\ ConPid
  BY DEF InvTurnos
<1>2. /\ enCPU # Nadie /\ deCPU' = [op |-> op, pid |-> enCPU] /\ enCPU' = Nadie
      /\ UNCHANGED <<algoritmo, colas, quantum, cpuLibre, ultimoPrioritario,
                     pidProcesoEnEjecucion, planificador, hilos, interrupciones, desfasado>>
  BY DEF Instruccion, FueraDeCPU
<1>3. enCPU \in Procesos /\ deCPU'.pid = enCPU
  BY <1>1, <1>2 DEF TypeOK
<1>4. deCPU' \in Mensaje
  BY <1>2, <1>3 DEF Mensaje
<1>5. TypeOK'
  BY <1>1, <1>2, <1>4 DEF TypeOK
<1>6. UnaFuera' /\ ConPid'
  BY <1>1, <1>2 DEF UnaFuera, ConPid, Libre
<1>7. NadieAun'
  BY <1>1, <1>2 DEF NadieAun
<1>8. ~desfasado' => UnPost'
  <2>1. Unen' = Unen
    BY <1>2 DEF Unen
  <2>2. QED BY <1>2, <2>1, SinPost
<1>9. ~desfasado' => Cubierto(deCPU.pid)'
  <2>1. ~desfasado' => Cubierto(enCPU)
    BY <1>2 DEF InvTurnos
  <2>2. QED BY <1>2, <1>3, <2>1 DEF Cubierto
<1>10. QED BY <1>2, <1>5, <1>6, <1>7, <1>8, <1>9 DEF InvTurnos

\* An interrupt that is read was the cover of whoever is in the CPU, or of nobody.
LEMMA InvInterrumpir ==
    ASSUME InvTurnos, Interrumpir
    PROVE  InvTurnos'
<1> DEFINE n == Head(interrupciones)
<1>1. TypeOK /\ UnaFuera /\ NadieAun /\ ConPid
  BY DEF InvTurnos
<1>2. /\ interrupciones # <<>> /\ interrupciones' = Tail(interrupciones)
      /\ desfasado' = (desfasado \/ deCPU = [op |-> "WAIT", pid |-> n])
      /\ UNCHANGED <<algoritmo, colas, quantum, cpuLibre, ultimoPrioritario,
                     pidProcesoEnEjecucion, planificador, hilos>>
  BY DEF Interrumpir, FueraDeCPU
<1>3. \/ n = enCPU /\ deCPU' = [op |-> "FIN_DE_Q", pid |-> n] /\ enCPU' = Nadie
      \/ n # enCPU /\ UNCHANGED <<deCPU, enCPU>>
  BY DEF Interrumpir
<1>4. /\ n \in Procesos /\ interrupciones' \in Seq(Procesos)
      /\ \A p \in ToSet(interrupciones) : p # n => p \in ToSet(interrupciones')
  <2>1. interrupciones \in Seq(Procesos)
    BY <1>1 DEF TypeOK
  <2>2. n \in Procesos /\ interrupciones' \in Seq(Procesos)
    BY <1>2, <2>1, Colas
  <2>3. \A p \in ToSet(interrupciones) : p # n => p \in ToSet(Tail(interrupciones))
    BY <1>2, <2>1, Elementos
  <2>4. QED BY <1>2, <2>2, <2>3
<1> HIDE DEF n
<1>5. \A p \in Procesos : Cubierto(p) /\ p # n => Cubierto(p)'
  BY <1>2, <1>4 DEF Cubierto
<1>6. TypeOK'
  <2>1. [op |-> "FIN_DE_Q", pid |-> n] \in Mensaje
    BY <1>4 DEF Mensaje, Corta
  <2>2. {enCPU, enCPU'} \subseteq Procesos \cup {Nadie} /\ deCPU' \in Mensaje
    BY <1>1, <1>3, <2>1 DEF TypeOK
  <2>3. desfasado' \in BOOLEAN
    BY <1>1, <1>2 DEF TypeOK
  <2>4. QED BY <1>1, <1>2, <1>4, <2>2, <2>3 DEF TypeOK
<1>7. n = enCPU => enCPU # Nadie
  BY <1>4, Marcas
<1>8. UnaFuera' /\ ConPid'
  BY <1>1, <1>2, <1>3, <1>7 DEF UnaFuera, ConPid, Libre
<1>9. NadieAun'
  BY <1>1, <1>2, <1>3, <1>7 DEF NadieAun, Libre
<1>10. ASSUME ~desfasado'
       PROVE  /\ UnPost'
              /\ enCPU' # Nadie => Cubierto(enCPU)'
              /\ deCPU'.op = "WAIT" => Cubierto(deCPU.pid)'
  <2>1. ~desfasado /\ deCPU # [op |-> "WAIT", pid |-> n]
    BY <1>2, <1>10
  <2>2. UnPost'
    <3>1. Unen' = Unen
      BY <1>2 DEF Unen
    <3>2. QED BY <1>2, <2>1, <3>1, SinPost
  <2>3. enCPU # Nadie => enCPU \in Procesos /\ Cubierto(enCPU)
    BY <1>1, <2>1 DEF InvTurnos, TypeOK
  <2>4. deCPU.op = "WAIT" => deCPU.pid \in Procesos /\ Cubierto(deCPU.pid) /\ deCPU.pid # n
    <3>1. deCPU.op = "WAIT" => Cubierto(deCPU.pid)
      BY <2>1 DEF InvTurnos
    <3>2. deCPU.op = "WAIT" => deCPU.pid \in Procesos /\ deCPU \in [op : Corta \cup NoCorta, pid : Procesos]
      BY <1>1 DEF TypeOK, Mensaje, Nada
    <3>3. deCPU.op = "WAIT" => deCPU.pid # n
      BY <2>1, <3>2
    <3>4. QED BY <3>1, <3>2, <3>3
  <2>5. CASE n = enCPU
    <3>1. enCPU' = Nadie /\ deCPU'.op # "WAIT"
      BY <1>3, <2>5
    <3>2. QED BY <2>2, <3>1
  <2>6. CASE n # enCPU
    <3>1. deCPU' = deCPU /\ enCPU' = enCPU
      BY <1>3, <2>6
    <3>2. enCPU' # Nadie => Cubierto(enCPU)'
      BY <1>5, <2>3, <2>6, <3>1 DEF Cubierto
    <3>3. deCPU'.op = "WAIT" => Cubierto(deCPU.pid)'
      BY <1>5, <2>4, <3>1 DEF Cubierto
    <3>4. QED BY <2>2, <3>2, <3>3
  <2>7. QED BY <2>5, <2>6
<1>11. QED BY <1>6, <1>8, <1>9, <1>10 DEF InvTurnos

-------------------------------------------------------------------------------
(* What always holds *)

\* The kernel starts with nobody in the CPU and nothing asked of anybody.
LEMMA InvInicio ==
    ASSUME Init
    PROVE  InvTurnos
<1>1. TypeOK
  <2>1. QuantumInicial \in 1 .. QuantumInicial /\ <<>> \in Seq(Procesos) /\ Nada \in Mensaje
    BY ConstantesOK, Colas, Marcas
  <2>2. QED BY <2>1 DEF Init, TypeOK, Ninguna
<1>2. UnaFuera /\ NadieAun /\ ConPid
  BY DEF Init, UnaFuera, NadieAun, ConPid, Libre
<1>3. UnPost
  <2>1. Unen = {}
    BY DEF Init, Unen, Ninguna
  <2>2. Cardinality(Unen) = 0
    BY <2>1, FS_EmptySet
  <2>3. QED BY <2>2 DEF Init, UnPost, Libre
<1>4. enCPU = Nadie /\ deCPU.op # "WAIT"
  BY DEF Init, Nada
<1>5. QED BY <1>1, <1>2, <1>3, <1>4 DEF InvTurnos

\* Each step of the kernel, of its threads and of the CPU keeps InvTurnos.
LEMMA InvPaso ==
    ASSUME InvTurnos, [Next]_vars
    PROVE  InvTurnos'
<1>1. CASE RecibirDeCPU
  BY <1>1, InvCortar, InvSeguir, InvTomado, InvWaitCorta, InvDesalojo DEF RecibirDeCPU
<1>2. ASSUME NEW p \in Procesos, CrearProceso(p) \/ FinIO(p) \/ FinalizarEnReady(p)
      PROVE  InvTurnos'
  BY <1>2, InvCrear, InvFinIO, InvFinalizar
<1>3. ASSUME NEW v \in 1 .. Hilos, HilosDe(v) \/ Reloj(v)
      PROVE  InvTurnos'
  BY <1>3, InvNacer, InvDespertar, InvUnir, InvVencer, InvAvisar DEF HilosDe, Reloj
<1>4. ASSUME NEW op \in (Corta \cup NoCorta) \ {"FIN_DE_Q"}, Instruccion(op)
      PROVE  InvTurnos'
  BY <1>4, InvInstruccion
<1>5. CASE Interrumpir
  BY <1>5, InvInterrumpir
<1>6. CASE UNCHANGED vars
  BY <1>6 DEF vars, InvTurnos, TypeOK, UnaFuera, NadieAun, ConPid, UnPost, Unen, Cubierto, Libre,
              Libres
<1>7. QED BY <1>1, <1>2, <1>3, <1>4, <1>5, <1>6 DEF Next

\* The inductive invariant, for any number of processes and turns and any quantum.
THEOREM InvTurnosSiempre == Spec => []InvTurnos
<1>1. Init => InvTurnos
  BY InvInicio
<1>2. InvTurnos /\ [Next]_vars => InvTurnos'
  BY InvPaso
<1>3. QED BY <1>1, <1>2, PTL DEF Spec

\* The variables stay of their types: no queue is read when it is empty, the
\* semaphores do not go below zero, and a quantum that VRR gives back is positive.
THEOREM Tipos == Spec => []TypeOK
<1>1. InvTurnos => TypeOK
  BY DEF InvTurnos
<1>2. QED BY <1>1, InvTurnosSiempre, PTL

\* Nobody runs without a timer or an interrupt that will ask for the CPU, as long
\* as no WAIT has left its post behind or lost an interrupt.
THEOREM TurnoConRelojSiempre == Spec => []TurnoConReloj
<1>1. InvTurnos => TurnoConReloj
  BY DEF InvTurnos, TurnoConReloj, Cubierto
<1>2. QED BY <1>1, InvTurnosSiempre, PTL

\* cortarQuantum asks for one post and takes one: until a WAIT leaves its own
\* behind, there is exactly one on its way while the planner waits, and none
\* when it does not.
THEOREM UnPostSiempre == Spec => [](~desfasado => UnPost)
<1>1. InvTurnos => (~desfasado => UnPost)
  BY DEF InvTurnos
<1>2. QED BY <1>1, InvTurnosSiempre, PTL
===============================================================================
