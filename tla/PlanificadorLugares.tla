-------------------------- MODULE PlanificadorLugares --------------------------
(***************************************************************************)
(* Where the PCBs are: what holds of the queues of the FIFO scheduler for  *)
(* any number of processes, resources and interfaces, and any program.     *)
(***************************************************************************)
EXTENDS PlanificadorProofs, FiniteSetTheorems

-------------------------------------------------------------------------------
(* Queues as sets *)

\* The elements of a queue.
LEMMA Contenido ==
    ASSUME NEW S, NEW q \in Seq(S)
    PROVE  /\ ToSet(q) \subseteq S
           /\ \A x : x \in ToSet(q) <=> \E k \in 1 .. Len(q) : q[k] = x
           /\ q = <<>> <=> ToSet(q) = {}
           /\ IsInjective(q) <=> \A k, l \in 1 .. Len(q) : q[k] = q[l] => k = l
<1>1. /\ DOMAIN q = 1 .. Len(q) /\ Len(q) \in Nat
      /\ \A k \in 1 .. Len(q) : q[k] \in S
  BY LenProperties, ElementOfSeq
<1>2. q = <<>> <=> Len(q) = 0
  BY Colas
<1>3. ToSet(q) = {} => Len(q) = 0
  <2>1. Len(q) # 0 => q[1] \in ToSet(q)
    BY <1>1 DEF ToSet
  <2>2. QED BY <2>1
<1>4. Len(q) = 0 => ToSet(q) = {}
  BY <1>1 DEF ToSet
<1>5. QED BY <1>1, <1>2, <1>3, <1>4 DEF ToSet, IsInjective

\* The empty queue.
LEMMA ColaVacia == ToSet(<<>>) = {} /\ IsInjective(<<>>)
BY DEF ToSet, IsInjective

\* queue_push
LEMMA Encola ==
    ASSUME NEW S, NEW q \in Seq(S), NEW e \in S
    PROVE  /\ Append(q, e) \in Seq(S)
           /\ ToSet(Append(q, e)) = ToSet(q) \cup {e}
           /\ IsInjective(q) /\ e \notin ToSet(q) => IsInjective(Append(q, e))
<1> DEFINE a == Append(q, e)
<1>1. /\ a \in Seq(S)
      /\ Len(q) \in Nat /\ Len(a) = Len(q) + 1
      /\ \A k \in 1 .. Len(q) : a[k] = q[k]
      /\ a[Len(q) + 1] = e
  BY AppendProperties, LenProperties
<1> HIDE DEF a
<1>2. \A k \in 1 .. Len(a) : k \in 1 .. Len(q) \/ k = Len(q) + 1
  BY <1>1
<1>3. /\ \A k \in 1 .. Len(q) : k \in 1 .. Len(a)
      /\ Len(q) + 1 \in 1 .. Len(a)
  BY <1>1
<1>4. \A x : x \in ToSet(a) <=> x \in ToSet(q) \cup {e}
  <2>1. \A x : x \in ToSet(a) <=> \E k \in 1 .. Len(a) : a[k] = x
    BY <1>1, Contenido
  <2>2. \A x : x \in ToSet(q) <=> \E k \in 1 .. Len(q) : q[k] = x
    BY Contenido
  <2>3. QED BY <1>1, <1>2, <1>3, <2>1, <2>2
<1>5. ASSUME IsInjective(q), e \notin ToSet(q)
      PROVE  IsInjective(a)
  <2>1. \A k \in 1 .. Len(q) : q[k] # e
    BY <1>5, Contenido
  <2>2. \A k, l \in 1 .. Len(q) : q[k] = q[l] => k = l
    BY <1>5, Contenido
  <2>3. \A k, l \in 1 .. Len(a) : a[k] = a[l] => k = l
    BY <1>1, <1>2, <2>1, <2>2
  <2>4. QED BY <1>1, <2>3, Contenido
<1>6. QED BY <1>1, <1>4, <1>5 DEF a

\* queue_pop
LEMMA Desencola ==
    ASSUME NEW S, NEW q \in Seq(S), q # <<>>, IsInjective(q)
    PROVE  /\ Head(q) \in ToSet(q) /\ Head(q) \in S
           /\ Tail(q) \in Seq(S)
           /\ ToSet(Tail(q)) = ToSet(q) \ {Head(q)}
           /\ IsInjective(Tail(q))
<1> DEFINE t == Tail(q)
<1>1. /\ t \in Seq(S)
      /\ Len(q) \in Nat /\ Len(q) # 0 /\ Len(t) = Len(q) - 1
      /\ \A k \in 1 .. Len(t) : t[k] = q[k + 1]
      /\ Head(q) = q[1] /\ Head(q) \in S
  BY HeadTailProperties, LenProperties, Colas
<1> HIDE DEF t
<1>2. \A k, l \in 1 .. Len(q) : q[k] = q[l] => k = l
  BY Contenido
<1>3. /\ \A k \in 1 .. Len(t) : k + 1 \in 1 .. Len(q) /\ k + 1 # 1
      /\ 1 \in 1 .. Len(q)
      /\ \A k \in 1 .. Len(q) : k = 1 \/ (k - 1 \in 1 .. Len(t) /\ (k - 1) + 1 = k)
  BY <1>1
<1>4. /\ \A x : x \in ToSet(t) <=> \E k \in 1 .. Len(t) : t[k] = x
      /\ \A x : x \in ToSet(q) <=> \E k \in 1 .. Len(q) : q[k] = x
  BY <1>1, Contenido
<1>5. \A x : x \in ToSet(t) <=> x \in ToSet(q) \ {Head(q)}
  <2>1. ASSUME NEW k \in 1 .. Len(t)
        PROVE  t[k] \in ToSet(q) \ {Head(q)}
    BY <1>1, <1>2, <1>3, <1>4
  <2>2. ASSUME NEW k \in 1 .. Len(q), q[k] # Head(q)
        PROVE  q[k] \in ToSet(t)
    <3>1. k # 1
      BY <1>1, <2>2
    <3>2. k - 1 \in 1 .. Len(t) /\ t[k - 1] = q[k]
      <4>1. k - 1 \in 1 .. Len(t) /\ (k - 1) + 1 = k
        BY <1>3, <3>1
      <4>2. t[k - 1] = q[(k - 1) + 1]
        BY <1>1, <4>1
      <4>3. QED BY <4>1, <4>2
    <3>3. QED BY <1>4, <3>2
  <2>3. QED BY <1>4, <2>1, <2>2
<1>6. IsInjective(t)
  <2>1. ASSUME NEW k \in 1 .. Len(t), NEW l \in 1 .. Len(t), t[k] = t[l]
        PROVE  k = l
    <3>1. q[k + 1] = q[l + 1]
      BY <1>1, <2>1
    <3>2. k + 1 = l + 1
      BY <1>2, <1>3, <3>1
    <3>3. QED BY <3>2
  <2>2. QED BY <1>1, <2>1, Contenido
<1>7. QED BY <1>1, <1>3, <1>4, <1>5, <1>6 DEF t

\* sacarDeCola
LEMMA Quita ==
    ASSUME NEW S, NEW q \in Seq(S), IsInjective(q), NEW p
    PROVE  /\ SinProceso(q, p) \in Seq(S)
           /\ ToSet(SinProceso(q, p)) = ToSet(q) \ {p}
           /\ IsInjective(SinProceso(q, p))
<1>0. SinProceso(q, p) \in Seq(S)
  BY SinProcesoTipo
<1>1. CASE p \notin ToSet(q)
  <2>1. ~ \E k \in 1 .. Len(q) : q[k] = p
    BY <1>1, Contenido
  <2>2. SinProceso(q, p) = q
    BY <2>1 DEF SinProceso, RemoveFirst
  <2>3. QED BY <1>0, <1>1, <2>2
<1>2. CASE p \in ToSet(q)
  <2> DEFINE lugares == {i \in 1 .. Len(q) : q[i] = p}
  <2>1. \E k \in 1 .. Len(q) : q[k] = p
    BY <1>2, Contenido
  <2>2. PICK k \in 1 .. Len(q) : q[k] = p /\ k = SelectInSeq(q, LAMBDA v : v = p)
    <3>1. lugares \in SUBSET Nat /\ lugares # {}
      BY <2>1
    <3>2. Min(lugares) \in lugares
      BY ONLY <3>1, HayMinimo
    <3>3. SelectInSeq(q, LAMBDA v : v = p) = Min(lugares)
      BY <2>1 DEF SelectInSeq
    <3>4. QED BY <3>2, <3>3
  <2> DEFINE izq == SubSeq(q, 1, k - 1)
             der == SubSeq(q, k + 1, Len(q))
  <2>3. SinProceso(q, p) = izq \o der
    BY <2>1, <2>2 DEF SinProceso, RemoveFirst, RemoveAt
  <2>4. k \in Nat /\ k >= 1 /\ k <= Len(q) /\ Len(q) \in Nat
    BY LenProperties
  <2>5. /\ izq \in Seq(S) /\ Len(izq) = k - 1
        /\ \A i \in 1 .. k - 1 : izq[i] = q[i]
    <3>1. \A i \in 1 .. k - 1 : q[i] \in S
      BY <2>4, ElementOfSeq
    <3>2. /\ SubSeq(q, 1, k - 1) \in Seq(S)
          /\ Len(SubSeq(q, 1, k - 1)) = IF 1 <= k - 1 THEN (k - 1) - 1 + 1 ELSE 0
          /\ \A i \in 1 .. (k - 1) - 1 + 1 : SubSeq(q, 1, k - 1)[i] = q[1 + i - 1]
      BY <2>4, <3>1, SubSeqProperties
    <3>3. \A i \in 1 .. k - 1 : i \in 1 .. (k - 1) - 1 + 1 /\ 1 + i - 1 = i
      BY <2>4
    <3>4. QED BY <2>4, <3>2, <3>3
  <2>6. /\ der \in Seq(S) /\ Len(der) = Len(q) - k
        /\ \A i \in 1 .. Len(q) - k : der[i] = q[k + i]
    <3>1. \A i \in k + 1 .. Len(q) : q[i] \in S
      BY <2>4, ElementOfSeq
    <3>2. /\ SubSeq(q, k + 1, Len(q)) \in Seq(S)
          /\ Len(SubSeq(q, k + 1, Len(q))) =
                IF k + 1 <= Len(q) THEN Len(q) - (k + 1) + 1 ELSE 0
          /\ \A i \in 1 .. Len(q) - (k + 1) + 1 :
                SubSeq(q, k + 1, Len(q))[i] = q[(k + 1) + i - 1]
      BY <2>4, <3>1, SubSeqProperties
    <3>3. \A i \in 1 .. Len(q) - k : i \in 1 .. Len(q) - (k + 1) + 1 /\ (k + 1) + i - 1 = k + i
      BY <2>4
    <3>4. QED BY <2>4, <3>2, <3>3
  <2> HIDE DEF izq, der
  <2> DEFINE s == izq \o der
  <2>7. /\ s \in Seq(S) /\ Len(s) = Len(q) - 1
        /\ \A i \in 1 .. Len(q) - 1 : s[i] = IF i < k THEN q[i] ELSE q[i + 1]
    <3>1. /\ s \in Seq(S) /\ Len(s) = (k - 1) + (Len(q) - k)
          /\ \A i \in 1 .. (k - 1) + (Len(q) - k) :
                s[i] = IF i <= k - 1 THEN izq[i] ELSE der[i - (k - 1)]
      <4>1. /\ izq \o der \in Seq(S)
            /\ Len(izq \o der) = Len(izq) + Len(der)
            /\ \A i \in 1 .. Len(izq) + Len(der) : (izq \o der)[i] =
                  IF i <= Len(izq) THEN izq[i] ELSE der[i - Len(izq)]
        BY ONLY <2>5, <2>6, ConcatProperties
      <4>2. Len(izq) = k - 1 /\ Len(der) = Len(q) - k
        BY <2>5, <2>6
      <4>3. QED BY ONLY <4>1, <4>2 DEF s
    <3>2. ASSUME NEW i \in 1 .. Len(q) - 1
          PROVE  s[i] = IF i < k THEN q[i] ELSE q[i + 1]
      <4>1. s[i] = IF i <= k - 1 THEN izq[i] ELSE der[i - (k - 1)]
        BY <2>4, <3>1
      <4>2. CASE i < k
        <5>1. i <= k - 1 /\ i \in 1 .. k - 1
          BY <2>4, <4>2
        <5>2. QED BY <2>5, <4>1, <4>2, <5>1
      <4>3. CASE ~ (i < k)
        <5>1. ~ (i <= k - 1) /\ i - (k - 1) \in 1 .. Len(q) - k /\ k + (i - (k - 1)) = i + 1
          BY <2>4, <4>3
        <5>2. der[i - (k - 1)] = q[k + (i - (k - 1))]
          BY <2>6, <5>1
        <5>3. QED BY <4>1, <4>3, <5>1, <5>2
      <4>4. QED BY <4>2, <4>3
    <3>3. QED BY <2>4, <3>1, <3>2
  <2> HIDE DEF s
  <2>8. \A i, j \in 1 .. Len(q) : q[i] = q[j] => i = j
    BY Contenido
  <2>9. /\ \A x : x \in ToSet(s) <=> \E i \in 1 .. Len(s) : s[i] = x
        /\ \A x : x \in ToSet(q) <=> \E i \in 1 .. Len(q) : q[i] = x
    BY <2>7, Contenido
  <2>10. \A i \in 1 .. Len(s) : \E j \in 1 .. Len(q) :
            j # k /\ s[i] = q[j] /\ j = IF i < k THEN i ELSE i + 1
    <3>1. ASSUME NEW i \in 1 .. Len(s), NEW j \in Int, j = IF i < k THEN i ELSE i + 1
          PROVE  j \in 1 .. Len(q) /\ j # k /\ s[i] = q[j]
      BY <2>4, <2>7, <3>1
    <3>2. \A i \in 1 .. Len(s) : (IF i < k THEN i ELSE i + 1) \in Int
      BY <2>4, <2>7
    <3>3. QED BY <3>1, <3>2
  <2>11. \A j \in 1 .. Len(q) : j # k => \E i \in 1 .. Len(s) : s[i] = q[j]
    <3>1. ASSUME NEW j \in 1 .. Len(q), j < k
          PROVE  j \in 1 .. Len(s) /\ s[j] = q[j]
      BY <2>4, <2>7, <3>1
    <3>2. ASSUME NEW j \in 1 .. Len(q), j > k
          PROVE  j - 1 \in 1 .. Len(s) /\ s[j - 1] = q[j]
      <4>1. j - 1 \in 1 .. Len(q) - 1 /\ ~ (j - 1 < k) /\ (j - 1) + 1 = j
        BY <2>4, <3>2
      <4>2. s[j - 1] = q[(j - 1) + 1]
        BY <2>7, <4>1
      <4>3. QED BY <2>7, <4>1, <4>2
    <3>3. \A j \in 1 .. Len(q) : j < k \/ j = k \/ j > k
      BY <2>4
    <3>4. QED BY <3>1, <3>2, <3>3
  <2>12. \A x : x \in ToSet(s) <=> x \in ToSet(q) \ {p}
    <3>1. ASSUME NEW i \in 1 .. Len(s)
          PROVE  s[i] \in ToSet(q) \ {p}
      BY <2>2, <2>8, <2>9, <2>10
    <3>2. ASSUME NEW j \in 1 .. Len(q), q[j] # p
          PROVE  q[j] \in ToSet(s)
      BY <2>2, <2>9, <2>11, <3>2
    <3>3. QED BY <2>9, <3>1, <3>2
  <2>13. IsInjective(s)
    <3>1. ASSUME NEW i \in 1 .. Len(s), NEW j \in 1 .. Len(s), s[i] = s[j]
          PROVE  i = j
      <4>1. PICK a \in 1 .. Len(q) : s[i] = q[a] /\ a = IF i < k THEN i ELSE i + 1
        BY <2>10
      <4>2. PICK b \in 1 .. Len(q) : s[j] = q[b] /\ b = IF j < k THEN j ELSE j + 1
        BY <2>10
      <4>3. a = b
        BY <2>8, <3>1, <4>1, <4>2
      <4>4. QED BY <2>4, <4>1, <4>2, <4>3
    <3>2. QED BY <2>7, <3>1, Contenido
  <2>14. QED BY <1>0, <2>3, <2>12, <2>13 DEF s
<1>3. QED BY <1>1, <1>2

\* In a queue without repetitions there are as many elements as places, and a
\* process has one place or none.
LEMMA SinCopiasCuenta ==
    ASSUME NEW S, NEW q \in Seq(S), IsInjective(q)
    PROVE  /\ IsFiniteSet(ToSet(q))
           /\ Cardinality(ToSet(q)) = Len(q)
           /\ \A p : /\ IsFiniteSet(Posiciones(q, p))
                     /\ Cardinality(Posiciones(q, p)) = IF p \in ToSet(q) THEN 1 ELSE 0
<1>1. /\ DOMAIN q = 1 .. Len(q) /\ Len(q) \in Nat
      /\ \A k, l \in 1 .. Len(q) : q[k] = q[l] => k = l
      /\ \A x : x \in ToSet(q) <=> \E k \in 1 .. Len(q) : q[k] = x
  BY LenProperties, Contenido
<1>2. IsFiniteSet(1 .. Len(q)) /\ Cardinality(1 .. Len(q)) = Len(q)
  <2>1. /\ IsFiniteSet(1 .. Len(q))
        /\ Cardinality(1 .. Len(q)) = IF 1 > Len(q) THEN 0 ELSE Len(q) - 1 + 1
    BY <1>1, FS_Interval
  <2>2. QED BY ONLY <1>1, <2>1
<1>3. ExistsBijection(1 .. Len(q), ToSet(q))
  <2>1. q \in [1 .. Len(q) -> ToSet(q)]
    BY <1>1, LenProperties
  <2>2. q \in Injection(1 .. Len(q), ToSet(q))
    BY <2>1 DEF Injection
  <2>3. q \in Surjection(1 .. Len(q), ToSet(q))
    BY <1>1, <2>1 DEF Surjection
  <2>4. QED BY <2>2, <2>3 DEF Bijection, ExistsBijection
<1>4. IsFiniteSet(ToSet(q)) /\ Cardinality(ToSet(q)) = Len(q)
  BY <1>2, <1>3, FS_Bijection
<1>5. ASSUME NEW p
      PROVE  /\ IsFiniteSet(Posiciones(q, p))
             /\ Cardinality(Posiciones(q, p)) = IF p \in ToSet(q) THEN 1 ELSE 0
  <2>1. CASE p \in ToSet(q)
    <3>1. PICK k \in 1 .. Len(q) : q[k] = p
      BY <1>1, <2>1
    <3>2. Posiciones(q, p) = {k}
      BY <1>1, <3>1 DEF Posiciones
    <3>3. QED BY <2>1, <3>2, FS_Singleton
  <2>2. CASE p \notin ToSet(q)
    <3>1. Posiciones(q, p) = {}
      BY <1>1, <2>2 DEF Posiciones
    <3>2. QED BY <2>2, <3>1, FS_EmptySet
  <2>3. QED BY <2>1, <2>2
<1>6. QED BY <1>4, <1>5

-------------------------------------------------------------------------------
(* The places of the processes *)

\* Each row is that of a resource or that of an interface.
LEMMA Renglones ==
    /\ \A r \in Recursos : /\ <<"recurso", r>> \in Filas
                           /\ Esperas[<<"recurso", r>>] = ToSet(bloqueados[r])
    /\ \A i \in Interfaces :
         /\ <<"interfaz", i>> \in Filas
         /\ Esperas[<<"interfaz", i>>] = ToSet(colaIO[i]) \cup ({enServicio[i]} \ {Nadie})
    /\ \A f \in Filas : \/ \E r \in Recursos : f = <<"recurso", r>>
                        \/ \E i \in Interfaces : f = <<"interfaz", i>>
    /\ Esperas = [f \in Filas |-> Esperas[f]]
BY DEF Filas, Esperas, EnFila

\* A step that changes neither the queues of the resources nor those of the
\* interfaces leaves everybody waiting where they were.
LEMMA EsperasIguales ==
    UNCHANGED <<bloqueados, colaIO, enServicio>> => Esperas' = Esperas
BY DEF Esperas, EnFila

\* ... and one that changes the queue of a resource leaves the others alone,
LEMMA EsperasDeRecurso ==
    ASSUME NEW r \in Recursos, NEW q, bloqueados \in [Recursos -> Seq(Procesos)],
           bloqueados' = [bloqueados EXCEPT ![r] = q], UNCHANGED <<colaIO, enServicio>>
    PROVE  \A f \in Filas :
             Esperas'[f] = IF f = <<"recurso", r>> THEN ToSet(q) ELSE Esperas[f]
<1>1. \A s \in Recursos : bloqueados'[s] = IF s = r THEN q ELSE bloqueados[s]
  OBVIOUS
<1>2. ASSUME NEW f \in Filas
      PROVE  Esperas'[f] = IF f = <<"recurso", r>> THEN ToSet(q) ELSE Esperas[f]
  <2>1. Esperas[f] = EnFila(f) /\ Esperas'[f] = EnFila(f)'
    BY DEF Esperas
  <2>2. CASE \E s \in Recursos : f = <<"recurso", s>>
    BY <1>1, <2>1, <2>2 DEF EnFila
  <2>3. CASE \E i \in Interfaces : f = <<"interfaz", i>>
    BY <2>1, <2>3 DEF EnFila
  <2>4. QED BY <2>2, <2>3, Renglones
<1>3. QED BY <1>2

\* ... and so does one that changes the queue or the service of an interface.
LEMMA EsperasDeInterfaz ==
    ASSUME NEW i \in Interfaces, NEW q, NEW s,
           colaIO \in [Interfaces -> Seq(Procesos)],
           enServicio \in [Interfaces -> Procesos \cup {Nadie}],
           colaIO' = [colaIO EXCEPT ![i] = q],
           enServicio' = [enServicio EXCEPT ![i] = s], UNCHANGED bloqueados
    PROVE  \A f \in Filas :
             Esperas'[f] = IF f = <<"interfaz", i>> THEN ToSet(q) \cup ({s} \ {Nadie})
                           ELSE Esperas[f]
<1>1. \A j \in Interfaces : /\ colaIO'[j] = IF j = i THEN q ELSE colaIO[j]
                            /\ enServicio'[j] = IF j = i THEN s ELSE enServicio[j]
  OBVIOUS
<1>2. ASSUME NEW f \in Filas
      PROVE  Esperas'[f] = IF f = <<"interfaz", i>> THEN ToSet(q) \cup ({s} \ {Nadie})
                           ELSE Esperas[f]
  <2>1. Esperas[f] = EnFila(f) /\ Esperas'[f] = EnFila(f)'
    BY DEF Esperas
  <2>2. CASE \E r \in Recursos : f = <<"recurso", r>>
    BY <2>1, <2>2 DEF EnFila
  <2>3. CASE \E j \in Interfaces : f = <<"interfaz", j>>
    BY <1>1, <2>1, <2>3 DEF EnFila
  <2>4. QED BY <2>2, <2>3, Renglones
<1>3. QED BY <1>2

\* Whoever waits is BLOCKED, and in one row only.
EnUnaFila(e, est, sal) ==
    \A p \in Procesos :
      /\ (\E f \in Filas : p \in e[f]) <=> est[p] = "BLOCKED" /\ p # sal
      /\ \A f, g \in Filas : p \in e[f] /\ p \in e[g] => f = g

\* From the rows e to e2, h joins f0, having waited nowhere;
Entra(h, f0, e, e2) ==
    \A f \in Filas : h \notin e[f] /\ e2[f] = IF f = f0 THEN e[f] \cup {h} ELSE e[f]

\* ... or leaves it.
Deja(h, f0, e, e2) ==
    /\ h \in e[f0]
    /\ \A f \in Filas : e2[f] = IF f = f0 THEN e[f] \ {h} ELSE e[f]

\* From the states est to est2, only h changes, to st.
Pasa(h, st, est, est2) ==
    \A p \in Procesos : est2[p] = IF p = h THEN st ELSE est[p]

\* A process that becomes BLOCKED joins a row;
LEMMA EntraEnFila ==
    ASSUME NEW e, NEW e2, NEW est, NEW est2, NEW sal, NEW h, NEW f0 \in Filas,
           EnUnaFila(e, est, sal), h # sal, Entra(h, f0, e, e2),
           Pasa(h, "BLOCKED", est, est2)
    PROVE  EnUnaFila(e2, est2, sal)
<1> SUFFICES ASSUME NEW p \in Procesos
             PROVE  /\ (\E f \in Filas : p \in e2[f]) <=> est2[p] = "BLOCKED" /\ p # sal
                    /\ \A f, g \in Filas : p \in e2[f] /\ p \in e2[g] => f = g
  BY DEF EnUnaFila
<1>1. CASE p = h
  <2>1. \A f \in Filas : p \in e2[f] <=> f = f0
    BY <1>1 DEF Entra
  <2>2. QED BY <1>1, <2>1 DEF Pasa
<1>2. CASE p # h
  <2>1. \A f \in Filas : p \in e2[f] <=> p \in e[f]
    BY <1>2 DEF Entra
  <2>2. est2[p] = est[p]
    BY <1>2 DEF Pasa
  <2>3. QED BY <2>1, <2>2 DEF EnUnaFila
<1>3. QED BY <1>1, <1>2

\* ... and one that waits in a row and stops being BLOCKED leaves it.
LEMMA SaleDeFila ==
    ASSUME NEW e, NEW e2, NEW est, NEW est2, NEW sal, NEW h, NEW f0 \in Filas,
           NEW st, EnUnaFila(e, est, sal), Deja(h, f0, e, e2),
           Pasa(h, st, est, est2), st # "BLOCKED"
    PROVE  EnUnaFila(e2, est2, sal)
<1> SUFFICES ASSUME NEW p \in Procesos
             PROVE  /\ (\E f \in Filas : p \in e2[f]) <=> est2[p] = "BLOCKED" /\ p # sal
                    /\ \A f, g \in Filas : p \in e2[f] /\ p \in e2[g] => f = g
  BY DEF EnUnaFila
<1>1. CASE p = h
  <2>1. \A f \in Filas : p \in e[f] => f = f0
    BY <1>1 DEF EnUnaFila, Deja
  <2>2. \A f \in Filas : p \notin e2[f]
    BY <1>1, <2>1 DEF Deja
  <2>3. QED BY <1>1, <2>2 DEF Pasa
<1>2. CASE p # h
  <2>1. \A f \in Filas : p \in e2[f] <=> p \in e[f]
    BY <1>2 DEF Deja
  <2>2. est2[p] = est[p]
    BY <1>2 DEF Pasa
  <2>3. QED BY <2>1, <2>2 DEF EnUnaFila
<1>3. QED BY <1>1, <1>2

\* Ubicados, queue by queue.
LEMMA PorColas ==
    ASSUME NEW est, NEW nuevos, NEW listos, NEW esperas, NEW salen, NEW vuelo, NEW sal
    PROVE  Ubicados(est, nuevos, listos, esperas, salen, vuelo, sal) <=>
             /\ \A p \in Procesos : p \in nuevos <=> est[p] = "NEW" /\ p # sal
             /\ \A p \in Procesos : p \in listos <=> est[p] = "READY" /\ p # sal
             /\ EnUnaFila(esperas, est, sal)
             /\ \A p \in Procesos : p \in salen <=> est[p] = "EXIT" /\ p # sal
             /\ \A p \in Procesos : p \in vuelo <=> est[p] = "EXEC"
BY DEF Ubicados, EnUnaFila

\* The PCBs that are out and not on their way to the CPU.
Otros == {deCPU[k].pid : k \in DOMAIN deCPU}
           \cup ({enCPU} \ {Nadie}) \cup (IF liberaCPU THEN {saliente} ELSE {})

\* A PCB that is out is in aCPU or is one of the others.
LEMMA VueloPartes == DelVuelo = ToSet(aCPU) \cup Otros
BY DEF DelVuelo, Otros

\* Of four counts that add up to at most one, at most one is not zero.
LEMMA UnoDeCuatro ==
    ASSUME NEW a \in Nat, NEW d \in Nat, NEW x \in {0, 1}, NEW y \in {0, 1},
           NEW z \in {0, 1}, a + d + x + y = z
    PROVE  /\ a # 0 => a = 1 /\ d = 0 /\ x = 0 /\ y = 0 /\ z = 1
           /\ d # 0 => d = 1 /\ a = 0 /\ x = 0 /\ y = 0 /\ z = 1
           /\ x # 0 => a = 0 /\ d = 0 /\ y = 0 /\ z = 1
           /\ y # 0 => a = 0 /\ d = 0 /\ x = 0 /\ z = 1
           /\ z = 0 => a = 0 /\ d = 0 /\ x = 0 /\ y = 0
OBVIOUS

\* A PCB that is out is in one of the sockets, in the CPU or in enviarAExit.
LEMMA VueloUnico ==
    ASSUME TypeOK, UnaCPU
    PROVE  /\ aCPU # <<>> =>
                /\ deCPU = <<>> /\ enCPU = Nadie /\ ~ liberaCPU /\ ~ cpuLibre
                /\ DelVuelo = {Head(aCPU)} /\ Tail(aCPU) = <<>>
           /\ deCPU # <<>> =>
                /\ aCPU = <<>> /\ enCPU = Nadie /\ ~ liberaCPU /\ ~ cpuLibre
                /\ DelVuelo = {Mensaje.pid} /\ Tail(deCPU) = <<>>
           /\ enCPU # Nadie =>
                /\ aCPU = <<>> /\ deCPU = <<>> /\ ~ liberaCPU /\ ~ cpuLibre
                /\ DelVuelo = {enCPU}
           /\ liberaCPU =>
                /\ aCPU = <<>> /\ deCPU = <<>> /\ enCPU = Nadie /\ ~ cpuLibre
                /\ DelVuelo = {saliente}
           /\ cpuLibre => DelVuelo = {}
<1>1. /\ Len(aCPU) \in Nat /\ Len(deCPU) \in Nat
      /\ aCPU = <<>> <=> Len(aCPU) = 0
      /\ deCPU = <<>> <=> Len(deCPU) = 0
      /\ aCPU # <<>> => Len(Tail(aCPU)) = Len(aCPU) - 1 /\ Tail(aCPU) \in Seq(Procesos)
      /\ deCPU # <<>> => Len(Tail(deCPU)) = Len(deCPU) - 1 /\ Tail(deCPU) \in Mensajes
      /\ cpuLibre \in BOOLEAN /\ liberaCPU \in BOOLEAN
  BY Colas DEF TypeOK, Mensajes
<1>2. Len(aCPU) + Len(deCPU) + (IF enCPU = Nadie THEN 0 ELSE 1)
        + (IF liberaCPU THEN 1 ELSE 0) = (IF cpuLibre THEN 0 ELSE 1)
  BY DEF UnaCPU, Vuelo
<1>3. /\ aCPU # <<>> => /\ Len(aCPU) = 1 /\ deCPU = <<>> /\ enCPU = Nadie
                        /\ ~ liberaCPU /\ ~ cpuLibre
      /\ deCPU # <<>> => /\ Len(deCPU) = 1 /\ aCPU = <<>> /\ enCPU = Nadie
                         /\ ~ liberaCPU /\ ~ cpuLibre
      /\ enCPU # Nadie => aCPU = <<>> /\ deCPU = <<>> /\ ~ liberaCPU /\ ~ cpuLibre
      /\ liberaCPU => aCPU = <<>> /\ deCPU = <<>> /\ enCPU = Nadie /\ ~ cpuLibre
      /\ cpuLibre => aCPU = <<>> /\ deCPU = <<>> /\ enCPU = Nadie /\ ~ liberaCPU
  <2> DEFINE e == IF enCPU = Nadie THEN 0 ELSE 1
             l == IF liberaCPU THEN 1 ELSE 0
             c == IF cpuLibre THEN 0 ELSE 1
  <2>1. /\ e \in {0, 1} /\ (e = 0 <=> enCPU = Nadie)
        /\ l \in {0, 1} /\ (l = 0 <=> ~ liberaCPU)
        /\ c \in {0, 1} /\ (c = 0 <=> cpuLibre)
    BY <1>1
  <2>2. Len(aCPU) + Len(deCPU) + e + l = c
    BY <1>2
  <2> HIDE DEF e, l, c
  <2>3. /\ Len(aCPU) # 0 => Len(aCPU) = 1 /\ Len(deCPU) = 0 /\ e = 0 /\ l = 0 /\ c = 1
        /\ Len(deCPU) # 0 => Len(deCPU) = 1 /\ Len(aCPU) = 0 /\ e = 0 /\ l = 0 /\ c = 1
        /\ e # 0 => Len(aCPU) = 0 /\ Len(deCPU) = 0 /\ l = 0 /\ c = 1
        /\ l # 0 => Len(aCPU) = 0 /\ Len(deCPU) = 0 /\ e = 0 /\ c = 1
        /\ c = 0 => Len(aCPU) = 0 /\ Len(deCPU) = 0 /\ e = 0 /\ l = 0
    <3>1. e \in {0, 1} /\ l \in {0, 1} /\ c \in {0, 1}
      BY <2>1
    <3>2. PICK a \in Nat, d \in Nat : a = Len(aCPU) /\ d = Len(deCPU)
      BY <1>1
    <3>3. a + d + e + l = c
      BY <2>2, <3>2
    <3>4. /\ a # 0 => a = 1 /\ d = 0 /\ e = 0 /\ l = 0 /\ c = 1
          /\ d # 0 => d = 1 /\ a = 0 /\ e = 0 /\ l = 0 /\ c = 1
          /\ e # 0 => a = 0 /\ d = 0 /\ l = 0 /\ c = 1
          /\ l # 0 => a = 0 /\ d = 0 /\ e = 0 /\ c = 1
          /\ c = 0 => a = 0 /\ d = 0 /\ e = 0 /\ l = 0
      BY ONLY <3>1, <3>3, UnoDeCuatro
    <3>5. QED BY <3>2, <3>4
  <2>4. QED BY <1>1, <2>1, <2>3, Zenon
<1>4. /\ aCPU = <<>> => ToSet(aCPU) = {}
      /\ Len(aCPU) = 1 => ToSet(aCPU) = {Head(aCPU)} /\ Tail(aCPU) = <<>>
  <2>1. \A x : x \in ToSet(aCPU) <=> \E k \in 1 .. Len(aCPU) : aCPU[k] = x
    BY Contenido DEF TypeOK
  <2>2. Head(aCPU) = aCPU[1]
    OBVIOUS
  <2>3. Tail(aCPU) \in Seq(Procesos) /\ Len(Tail(aCPU)) = 0 => Tail(aCPU) = <<>>
    BY Colas
  <2>4. aCPU = <<>> => ToSet(aCPU) = {}
    BY ColaVacia
  <2>5. Len(aCPU) = 1 => ToSet(aCPU) = {Head(aCPU)}
    BY <2>1, <2>2
  <2>6. QED BY <1>1, <2>3, <2>4, <2>5
<1>5. /\ deCPU = <<>> => {deCPU[k].pid : k \in DOMAIN deCPU} = {}
      /\ Len(deCPU) = 1 => /\ {deCPU[k].pid : k \in DOMAIN deCPU} = {Mensaje.pid}
                           /\ Tail(deCPU) = <<>>
  <2>1. DOMAIN deCPU = 1 .. Len(deCPU)
    BY LenProperties DEF TypeOK
  <2>2. Head(deCPU) = deCPU[1]
    OBVIOUS
  <2>3. Tail(deCPU) \in Mensajes /\ Len(Tail(deCPU)) = 0 => Tail(deCPU) = <<>>
    BY Colas DEF Mensajes
  <2>4. Len(deCPU) = 0 => {deCPU[k].pid : k \in DOMAIN deCPU} = {}
    BY <2>1
  <2>5. Len(deCPU) = 1 => {deCPU[k].pid : k \in DOMAIN deCPU} = {Mensaje.pid}
    <3>1. ASSUME Len(deCPU) = 1
          PROVE  DOMAIN deCPU = {1}
      BY <2>1, <3>1
    <3>2. QED BY <2>2, <3>1 DEF Mensaje
  <2>6. deCPU # <<>> => Tail(deCPU) \in Mensajes /\ Len(Tail(deCPU)) = Len(deCPU) - 1
    BY <1>1
  <2>7. deCPU = <<>> <=> Len(deCPU) = 0
    BY <1>1
  <2>8. Len(deCPU) = 1 => Tail(deCPU) = <<>>
    <3>1. ASSUME Len(deCPU) = 1
          PROVE  Tail(deCPU) = <<>>
      <4>1. Tail(deCPU) \in Mensajes /\ Len(Tail(deCPU)) = 0
        BY <2>6, <2>7, <3>1
      <4>2. QED BY <2>3, <4>1
    <3>2. QED BY <3>1
  <2>9. QED BY <2>4, <2>5, <2>7, <2>8
<1>6. QED BY <1>3, <1>4, <1>5 DEF DelVuelo

USE DEF varsLP, varsGrado, varsExit, varsRec, varsIO, varsSalida, varsCPU, varsEnvio

\* Steps that move no PCB.
LEMMA OrdenIgual ==
    ASSUME Orden,
           UNCHANGED <<estado, siguientePID, colaNew, colaReady, colaExit, hiloExit,
                       bloqueados, colaIO, enServicio, aCPU, deCPU, enCPU, liberaCPU,
                       saliente>>
    PROVE  Orden'
<1>1. Esperas' = Esperas /\ DelVuelo' = DelVuelo /\ EnSalida' = EnSalida
  BY EsperasIguales DEF DelVuelo, EnSalida
<1>2. SinCopias'
  BY DEF Orden, SinCopias
<1>3. SalientePosible' /\ PIDsEnOrden'
  BY DEF Orden, SalientePosible, PIDsEnOrden
<1>4. QED BY <1>1, <1>2, <1>3 DEF Orden

\* What criterioEnvio does: nothing, or one process goes to the CPU.
LEMMA EnvioCasos ==
    ASSUME NEW libre \in BOOLEAN, NEW listos \in Seq(Procesos), NEW est,
           NEW canal, NEW danio, CriterioEnvio(libre, listos, est, canal, danio)
    PROVE  \/ /\ colaReady' = listos /\ estado' = est /\ aCPU' = canal
              /\ caido' = danio
           \/ \E h \in Procesos :
                /\ listos # <<>> /\ h = Head(listos)
                /\ colaReady' = Tail(listos)
                /\ estado' = [est EXCEPT ![h] = "EXEC"]
                /\ aCPU' = Append(canal, h)
                /\ caido' = (danio \/ est[h] = "LIBERADO")
<1>1. listos # <<>> => Head(listos) \in Procesos
  BY Colas
<1>2. QED BY <1>1 DEF CriterioEnvio

\* What a round hands to criterioEnvio: every process in the place its state names.
EnSuSitio(listos, est, canal) ==
    /\ IsInjective(listos) /\ IsInjective(colaNew') /\ IsInjective(colaExit')
    /\ hiloExit' \notin ToSet(colaExit')
    /\ \A r \in Recursos : IsInjective(bloqueados'[r])
    /\ \A i \in Interfaces : /\ IsInjective(colaIO'[i])
                             /\ enServicio'[i] \notin ToSet(colaIO'[i])
    /\ saliente' = Nadie
    /\ Ubicados(est, ToSet(colaNew'), ToSet(listos), Esperas', EnSalida',
                ToSet(canal) \cup Otros', saliente')
    /\ \A p \in Procesos : est[p] = "SIN_CREAR" <=> p >= siguientePID'

\* A round that leaves every process in its place before criterioEnvio leaves
\* it there afterwards.
LEMMA OrdenRonda ==
    ASSUME NEW libre \in BOOLEAN, NEW listos \in Seq(Procesos),
           NEW est \in [Procesos -> Estados], NEW canal \in Seq(Procesos), NEW danio,
           CriterioEnvio(libre, listos, est, canal, danio),
           EnSuSitio(listos, est, canal)
    PROVE  /\ Orden'
           /\ caido' <=> danio
           /\ \A p \in Procesos : \/ estado'[p] = est[p]
                                  \/ (est[p] = "READY" /\ estado'[p] = "EXEC")
<1> USE DEF EnSuSitio
<1>1. DelVuelo' = ToSet(aCPU') \cup Otros'
  BY DEF DelVuelo, Otros
<1>2. SalientePosible'
  BY DEF SalientePosible
<1>3. CASE /\ colaReady' = listos /\ estado' = est /\ aCPU' = canal
           /\ caido' = danio
  BY <1>1, <1>2, <1>3 DEF Orden, SinCopias, PIDsEnOrden
<1>4. ASSUME NEW h \in Procesos,
             listos # <<>>, h = Head(listos),
             colaReady' = Tail(listos),
             estado' = [est EXCEPT ![h] = "EXEC"],
             aCPU' = Append(canal, h),
             caido' = (danio \/ est[h] = "LIBERADO")
      PROVE  /\ Orden'
             /\ caido' <=> danio
             /\ \A p \in Procesos : \/ estado'[p] = est[p]
                                    \/ (est[p] = "READY" /\ estado'[p] = "EXEC")
  <2>1. /\ h \in ToSet(listos)
        /\ ToSet(colaReady') = ToSet(listos) \ {h}
        /\ IsInjective(colaReady')
        /\ ToSet(aCPU') = ToSet(canal) \cup {h}
    BY <1>4, Desencola, Encola
  <2>2. est[h] = "READY" /\ h # saliente'
    BY <2>1 DEF Ubicados
  <2>3. \A p \in Procesos : estado'[p] = IF p = h THEN "EXEC" ELSE est[p]
    BY <1>4
  <2>4. Ubicados(estado', ToSet(colaNew'), ToSet(colaReady'), Esperas', EnSalida',
                 DelVuelo', saliente')
    BY <1>1, <2>1, <2>2, <2>3 DEF Ubicados
  <2>5. SinCopias'
    BY <2>1 DEF SinCopias
  <2>6. PIDsEnOrden'
    BY <2>2, <2>3 DEF PIDsEnOrden
  <2>7. Orden'
    BY <1>2, <2>4, <2>5, <2>6 DEF Orden
  <2>8. QED BY <1>4, <2>2, <2>3, <2>7
<1>5. QED BY <1>3, <1>4, EnvioCasos

\* Admitting the first of colaNew moves one PCB, or sends one on.
LEMMA OrdenNew ==
    ASSUME TypeOK, Turno, Orden, HiloNew
    PROVE  Orden'
<1>1. CASE TomarGrado
  BY <1>1, OrdenIgual DEF TomarGrado
<1>2. CASE TomarNew
  BY <1>2, OrdenIgual DEF TomarNew
<1>3. CASE CaerSinNew
  BY <1>3, OrdenIgual DEF CaerSinNew, Caer
<1>4. CASE NewAReady
  <2>1. /\ saliente = Nadie /\ saliente' = Nadie
        /\ colaNew # <<>> /\ IsInjective(colaNew) /\ IsInjective(colaReady)
    BY <1>4 DEF Turno, NewAReady, Planifica, Orden, SinCopias
  <2>2. PICK h \in Procesos : h = Head(colaNew)
    BY <2>1, Desencola DEF TypeOK
  <2> DEFINE est == [estado EXCEPT ![h] = "READY"]
             listos == Append(colaReady, h)
  <2>3. /\ h \in ToSet(colaNew)
        /\ ToSet(colaNew') = ToSet(colaNew) \ {h}
        /\ IsInjective(colaNew')
    BY <1>4, <2>1, <2>2, Desencola DEF TypeOK, NewAReady
  <2>4. Ubicados(estado, ToSet(colaNew), ToSet(colaReady), Esperas, EnSalida,
                 ToSet(aCPU) \cup Otros, saliente)
    BY VueloPartes DEF Orden
  <2>5. estado[h] = "NEW" /\ h \notin ToSet(colaReady)
    BY <2>3, <2>4 DEF Ubicados
  <2>6. /\ listos \in Seq(Procesos) /\ IsInjective(listos)
        /\ ToSet(listos) = ToSet(colaReady) \cup {h}
    BY <2>1, <2>5, Encola DEF TypeOK
  <2>7. /\ est \in [Procesos -> Estados]
        /\ \A p \in Procesos : est[p] = IF p = h THEN "READY" ELSE estado[p]
    BY DEF TypeOK, Estados
  <2>8. Otros' = Otros /\ EnSalida' = EnSalida /\ Esperas' = Esperas /\ saliente' = saliente
    BY <1>4, EsperasIguales DEF NewAReady, Otros, EnSalida
  <2>9. Ubicados(est, ToSet(colaNew'), ToSet(listos), Esperas', EnSalida',
                 ToSet(aCPU) \cup Otros', saliente')
    BY <2>1, <2>3, <2>4, <2>5, <2>6, <2>7, <2>8, PIDs DEF Ubicados
  <2>10. CriterioEnvio(cpuLibre, listos, est, aCPU, FALSE)
    BY <1>4, <2>2 DEF NewAReady
  <2>11. \A p \in Procesos : est[p] = "SIN_CREAR" <=> p >= siguientePID'
    <3>1. siguientePID' = siguientePID
      BY <1>4 DEF NewAReady
    <3>2. \A p \in Procesos : estado[p] = "SIN_CREAR" <=> p >= siguientePID
      BY DEF Orden, PIDsEnOrden
    <3>3. QED BY ONLY <2>5, <2>7, <3>1, <3>2
  <2>12. /\ IsInjective(colaExit') /\ hiloExit' \notin ToSet(colaExit')
         /\ \A r \in Recursos : IsInjective(bloqueados'[r])
         /\ \A i \in Interfaces : /\ IsInjective(colaIO'[i])
                                  /\ enServicio'[i] \notin ToSet(colaIO'[i])
    BY <1>4 DEF Orden, SinCopias, NewAReady
  <2>13. cpuLibre \in BOOLEAN /\ aCPU \in Seq(Procesos)
    BY DEF TypeOK
  <2> HIDE DEF est, listos
  <2>14. EnSuSitio(listos, est, aCPU)
    BY ONLY <2>1, <2>3, <2>6, <2>9, <2>11, <2>12 DEF EnSuSitio
  <2>15. QED BY ONLY <2>6, <2>7, <2>10, <2>13, <2>14, OrdenRonda
<1>5. QED BY <1>1, <1>2, <1>3, <1>4 DEF HiloNew

\* signalRecurso wakes w: the first waiter, who is BLOCKED, leaves its row for
\* READY.
Despierta(r, w, est) ==
    /\ bloqueados[r] # <<>> /\ w = Head(bloqueados[r])
    /\ est[w] = "BLOCKED" /\ w # saliente
    /\ ToSet(ListosTrasSignal(r)) = ToSet(colaReady) \cup {w}
    /\ Deja(w, <<"recurso", r>>, Esperas, Esperas')

NoDespierta(r) == bloqueados[r] = <<>> /\ Esperas' = Esperas

\* What signalRecurso does to the queues: nothing if nobody waits.
LEMMA SignalCasos ==
    ASSUME TypeOK, SinCopias, NEW r \in Recursos, NEW p \in Procesos, NEW est, NEW vuelo,
           SignalRecurso(r, p), UNCHANGED <<colaIO, enServicio>>,
           Ubicados(est, ToSet(colaNew), ToSet(colaReady), Esperas, EnSalida, vuelo, saliente)
    PROVE  /\ \A s \in Recursos : IsInjective(bloqueados'[s])
           /\ IsInjective(ListosTrasSignal(r))
           /\ NoDespierta(r) \/ \E w \in Procesos : Despierta(r, w, est)
<1>1. /\ bloqueados \in [Recursos -> Seq(Procesos)] /\ bloqueados[r] \in Seq(Procesos)
      /\ IsInjective(bloqueados[r]) /\ IsInjective(colaReady)
      /\ colaReady \in Seq(Procesos)
  BY DEF TypeOK, SinCopias
<1>2. CASE bloqueados[r] = <<>>
  <2>1. bloqueados' = bloqueados
    BY <1>1, <1>2 DEF SignalRecurso
  <2>2. Esperas' = Esperas
    BY <2>1, EsperasIguales
  <2>3. ListosTrasSignal(r) = colaReady
    BY <1>2 DEF ListosTrasSignal
  <2>4. \A s \in Recursos : IsInjective(bloqueados'[s])
    BY <2>1 DEF SinCopias
  <2>5. QED BY <1>1, <1>2, <2>2, <2>3, <2>4 DEF NoDespierta
<1>3. CASE bloqueados[r] # <<>>
  <2>1. PICK w \in Procesos : w = Head(bloqueados[r])
    BY <1>1, <1>3, Desencola
  <2>2. /\ w \in ToSet(bloqueados[r])
        /\ ToSet(Tail(bloqueados[r])) = ToSet(bloqueados[r]) \ {w}
        /\ IsInjective(Tail(bloqueados[r]))
    BY <1>1, <1>3, <2>1, Desencola
  <2>3. bloqueados' = [bloqueados EXCEPT ![r] = Tail(bloqueados[r])]
    BY <1>3 DEF SignalRecurso
  <2>4. \A f \in Filas : Esperas'[f] = IF f = <<"recurso", r>> THEN ToSet(Tail(bloqueados[r]))
                                        ELSE Esperas[f]
    BY <1>1, <2>3, EsperasDeRecurso
  <2>5. <<"recurso", r>> \in Filas /\ Esperas[<<"recurso", r>>] = ToSet(bloqueados[r])
    BY Renglones
  <2>6. est[w] = "BLOCKED" /\ w # saliente /\ w \notin ToSet(colaReady)
    BY <2>2, <2>5 DEF Ubicados
  <2>7. ListosTrasSignal(r) = Append(colaReady, w)
    BY <1>3, <2>1 DEF ListosTrasSignal
  <2>8. /\ IsInjective(ListosTrasSignal(r))
        /\ ToSet(ListosTrasSignal(r)) = ToSet(colaReady) \cup {w}
    BY <1>1, <2>6, <2>7, Encola
  <2>9. \A s \in Recursos : IsInjective(bloqueados'[s])
    BY <1>1, <2>2, <2>3 DEF SinCopias
  <2>10. \A f \in Filas : Esperas'[f] = IF f = <<"recurso", r>> THEN Esperas[f] \ {w}
                                         ELSE Esperas[f]
    BY <2>2, <2>4, <2>5
  <2>11. Despierta(r, w, est)
    BY <1>3, <2>1, <2>2, <2>5, <2>6, <2>8, <2>10 DEF Despierta, Deja
  <2>12. QED BY <2>8, <2>9, <2>11
<1>4. QED BY <1>2, <1>3

\* The process of a message executes, nobody else does, and while its round
\* lasts nothing is in the sockets or in the CPU.
LEMMA DelMensaje ==
    ASSUME TypeOK, Turno, UnaCPU, Orden, NEW ops, RecibirDeCPU(ops)
    PROVE  /\ Mensaje.pid \in Procesos
           /\ estado[Mensaje.pid] = "EXEC" /\ EstadoRecibido = estado
           /\ saliente = Nadie /\ aCPU = <<>> /\ ~ liberaCPU
           /\ \A p \in Procesos : estado[p] = "EXEC" => p = Mensaje.pid
           /\ deCPU' = <<>> /\ enCPU' = Nadie
           /\ EnSalida' = EnSalida /\ UNCHANGED <<siguientePID, colaNew, colaExit, hiloExit>>
<1>1. deCPU # <<>> /\ mutexPlanificador = "libre" /\ deCPU' = Tail(deCPU) /\ enCPU' = enCPU
  BY DEF RecibirDeCPU, Planifica
<1>2. saliente = Nadie
  BY <1>1 DEF Turno
<1>3. /\ aCPU = <<>> /\ enCPU = Nadie /\ ~ liberaCPU
      /\ DelVuelo = {Mensaje.pid} /\ Tail(deCPU) = <<>>
  BY <1>1, VueloUnico
<1>4. Mensaje.pid \in Procesos
  BY <1>1, MensajeTipo
<1>5. \A p \in Procesos : estado[p] = "EXEC" <=> p = Mensaje.pid
  BY <1>3 DEF Orden, Ubicados
<1>6. EstadoRecibido = estado
  BY <1>4, <1>5 DEF EstadoRecibido, TypeOK
<1>7. EnSalida' = EnSalida /\ UNCHANGED <<siguientePID, colaNew, colaExit, hiloExit>>
  BY DEF RecibirDeCPU, EnSalida
<1>8. QED BY <1>1, <1>2, <1>3, <1>4, <1>5, <1>6, <1>7

\* Nothing of the CPU's side is left over from the message.
LEMMA SinOtros ==
    ASSUME deCPU' = <<>>, enCPU' = Nadie, ~ liberaCPU'
    PROVE  Otros' = {}
BY DEF Otros

\* An I/O request moves its process from the CPU to the queue of the interface.
LEMMA OrdenRecibirIO ==
    ASSUME TypeOK, Turno, UnaCPU, Orden, RecibirIO
    PROVE  Orden'
<1> DEFINE h == Mensaje.pid
           i == Mensaje.arg
           q == Append(colaIO[i], h)
           fila == <<"interfaz", i>>
           est == [estado EXCEPT ![h] = "BLOCKED"]
<1>1. /\ h \in Procesos /\ estado[h] = "EXEC"
      /\ saliente = Nadie /\ aCPU = <<>> /\ ~ liberaCPU
      /\ \A p \in Procesos : estado[p] = "EXEC" => p = h
      /\ deCPU' = <<>> /\ enCPU' = Nadie /\ EnSalida' = EnSalida
      /\ UNCHANGED <<siguientePID, colaNew, colaExit, hiloExit>>
  BY DelMensaje DEF RecibirIO
<1>2. /\ saliente' = Nadie /\ ~ liberaCPU'
      /\ colaIO' = [colaIO EXCEPT ![i] = q]
      /\ UNCHANGED <<bloqueados, enServicio>>
      /\ CriterioEnvio(TRUE, colaReady, est, aCPU, FALSE)
      /\ i \in Interfaces
  BY <1>1 DEF RecibirIO, AceptaIO, TypeOK
<1>3. /\ colaIO \in [Interfaces -> Seq(Procesos)] /\ colaIO[i] \in Seq(Procesos)
      /\ enServicio \in [Interfaces -> Procesos \cup {Nadie}]
      /\ colaReady \in Seq(Procesos) /\ aCPU \in Seq(Procesos)
      /\ estado \in [Procesos -> Estados]
  BY <1>2 DEF TypeOK
<1>4. /\ \A f \in Filas : h \notin Esperas[f]
      /\ <<"interfaz", i>> \in Filas
      /\ Esperas[<<"interfaz", i>>] = ToSet(colaIO[i]) \cup ({enServicio[i]} \ {Nadie})
  BY <1>1, <1>2, Renglones DEF Orden, Ubicados
<1>5. /\ ToSet(q) = ToSet(colaIO[i]) \cup {h}
      /\ IsInjective(q) /\ enServicio[i] \notin ToSet(q)
  <2>1. IsInjective(colaIO[i]) /\ enServicio[i] \notin ToSet(colaIO[i])
    BY <1>2 DEF Orden, SinCopias
  <2>2. h \notin ToSet(colaIO[i]) /\ h # enServicio[i]
    BY <1>1, <1>4, PIDs
  <2>3. QED BY <1>1, <1>3, <2>1, <2>2, Encola
<1>6. \A f \in Filas : Esperas'[f] = IF f = <<"interfaz", i>> THEN Esperas[f] \cup {h}
                                      ELSE Esperas[f]
  <2>1. enServicio' = [enServicio EXCEPT ![i] = enServicio[i]]
    BY <1>2, <1>3
  <2>2. \A f \in Filas :
           Esperas'[f] = IF f = <<"interfaz", i>> THEN ToSet(q) \cup ({enServicio[i]} \ {Nadie})
                         ELSE Esperas[f]
    BY <1>2, <1>3, <2>1, EsperasDeInterfaz
  <2>3. QED BY <1>4, <1>5, <2>2
<1>7. /\ est \in [Procesos -> Estados]
      /\ \A p \in Procesos : est[p] = IF p = h THEN "BLOCKED" ELSE estado[p]
  BY <1>3 DEF Estados
<1>8. Otros' = {} /\ ToSet(aCPU) = {}
  BY <1>1, <1>2, SinOtros, ColaVacia
<1>9. Ubicados(est, ToSet(colaNew'), ToSet(colaReady), Esperas', EnSalida',
               ToSet(aCPU) \cup Otros', saliente')
  <2>1. Ubicados(estado, ToSet(colaNew), ToSet(colaReady), Esperas, EnSalida, DelVuelo,
                 saliente)
    BY DEF Orden
  <2>2. \A p \in Procesos : p # saliente /\ p # saliente'
    BY <1>1, <1>2, PIDs
  <2>3. EnUnaFila(Esperas', est, saliente')
    <3>1. EnUnaFila(Esperas, estado, saliente')
      BY <1>1, <1>2, <2>1, PorColas
    <3>2. h # saliente'
      BY <1>1, <2>2
    <3>3. Entra(h, fila, Esperas, Esperas') /\ Pasa(h, "BLOCKED", estado, est)
      BY <1>4, <1>6, <1>7 DEF Entra, Pasa
    <3> HIDE DEF est
    <3>4. QED BY <1>4, <3>1, <3>2, <3>3, EntraEnFila
  <2>4. \A p \in Procesos : p \notin ToSet(aCPU) \cup Otros' /\ est[p] # "EXEC"
    BY <1>1, <1>7, <1>8
  <2>5. \A p \in Procesos :
          /\ p \in ToSet(colaNew') <=> est[p] = "NEW"
          /\ p \in ToSet(colaReady) <=> est[p] = "READY"
          /\ p \in EnSalida' <=> est[p] = "EXIT"
    BY <1>1, <1>7, <2>1, <2>2 DEF Ubicados
  <2>6. QED BY <2>2, <2>3, <2>4, <2>5 DEF Ubicados, EnUnaFila
<1>10. \A p \in Procesos : est[p] = "SIN_CREAR" <=> p >= siguientePID'
  BY <1>1, <1>7 DEF Orden, PIDsEnOrden
<1>11. /\ IsInjective(colaReady) /\ IsInjective(colaNew') /\ IsInjective(colaExit')
       /\ hiloExit' \notin ToSet(colaExit')
       /\ \A r \in Recursos : IsInjective(bloqueados'[r])
       /\ \A j \in Interfaces : /\ IsInjective(colaIO'[j])
                                /\ enServicio'[j] \notin ToSet(colaIO'[j])
  <2>1. \A j \in Interfaces : colaIO'[j] = IF j = i THEN q ELSE colaIO[j]
    BY <1>2, <1>3
  <2>2. QED BY <1>1, <1>2, <1>5, <2>1 DEF Orden, SinCopias
<1> HIDE DEF est, q
<1>12. /\ CriterioEnvio(TRUE, colaReady, est, aCPU, FALSE) /\ saliente' = Nadie
       /\ colaReady \in Seq(Procesos) /\ aCPU \in Seq(Procesos)
       /\ est \in [Procesos -> Estados]
  BY <1>2, <1>3, <1>7
<1>13. EnSuSitio(colaReady, est, aCPU)
  BY ONLY <1>9, <1>10, <1>11, <1>12 DEF EnSuSitio
<1>14. QED BY <1>12, <1>13, OrdenRonda

\* A WAIT that finds an instance: the PCB goes back to the CPU.
LEMMA OrdenRecibirWait ==
    ASSUME TypeOK, Turno, UnaCPU, Orden, RecibirWait
    PROVE  Orden'
<1> DEFINE h == Mensaje.pid
           canal == Append(aCPU, h)
<1>1. /\ h \in Procesos /\ estado[h] = "EXEC" /\ EstadoRecibido = estado
      /\ saliente = Nadie /\ aCPU = <<>> /\ ~ liberaCPU
      /\ \A p \in Procesos : estado[p] = "EXEC" => p = h
      /\ deCPU' = <<>> /\ enCPU' = Nadie /\ EnSalida' = EnSalida
      /\ UNCHANGED <<siguientePID, colaNew, colaExit, hiloExit>>
  BY DelMensaje DEF RecibirWait
<1>2. /\ saliente' = Nadie /\ ~ liberaCPU'
      /\ UNCHANGED <<bloqueados, colaIO, enServicio>>
      /\ CriterioEnvio(FALSE, colaReady, estado, canal, FALSE)
  BY <1>1 DEF RecibirWait
<1>3. /\ colaReady \in Seq(Procesos) /\ aCPU \in Seq(Procesos)
      /\ estado \in [Procesos -> Estados]
  BY DEF TypeOK
<1>4. canal \in Seq(Procesos) /\ ToSet(canal) = {h}
  <2>1. h \in Procesos /\ aCPU \in Seq(Procesos)
    BY <1>1, <1>3
  <2>2. ToSet(canal) = ToSet(aCPU) \cup {h} /\ canal \in Seq(Procesos)
    BY ONLY <2>1, Encola
  <2>3. QED BY <1>1, <2>2, ColaVacia
<1>5. Otros' = {} /\ Esperas' = Esperas
  BY <1>1, <1>2, SinOtros, EsperasIguales
<1>6. Ubicados(estado, ToSet(colaNew'), ToSet(colaReady), Esperas', EnSalida',
               ToSet(canal) \cup Otros', saliente')
  BY <1>1, <1>2, <1>4, <1>5 DEF Orden, Ubicados
<1>7. \A p \in Procesos : estado[p] = "SIN_CREAR" <=> p >= siguientePID'
  BY <1>1 DEF Orden, PIDsEnOrden
<1>8. /\ IsInjective(colaReady) /\ IsInjective(colaNew') /\ IsInjective(colaExit')
      /\ hiloExit' \notin ToSet(colaExit')
      /\ \A r \in Recursos : IsInjective(bloqueados'[r])
      /\ \A j \in Interfaces : /\ IsInjective(colaIO'[j])
                               /\ enServicio'[j] \notin ToSet(colaIO'[j])
  BY <1>1, <1>2 DEF Orden, SinCopias
<1> HIDE DEF canal
<1>9. EnSuSitio(colaReady, estado, canal)
  BY ONLY <1>2, <1>6, <1>7, <1>8 DEF EnSuSitio
<1>10. QED BY <1>2, <1>3, <1>4, <1>9, OrdenRonda

\* ... and one that does not: the process moves to the queue of the resource.
LEMMA OrdenRecibirWaitBloqueante ==
    ASSUME TypeOK, Turno, UnaCPU, Orden, RecibirWaitBloqueante
    PROVE  Orden'
<1> DEFINE h == Mensaje.pid
           r == Mensaje.arg
           q == Append(bloqueados[r], h)
           fila == <<"recurso", r>>
           est == [estado EXCEPT ![h] = "BLOCKED"]
<1>1. /\ h \in Procesos /\ estado[h] = "EXEC"
      /\ saliente = Nadie /\ aCPU = <<>> /\ ~ liberaCPU
      /\ \A p \in Procesos : estado[p] = "EXEC" => p = h
      /\ deCPU' = <<>> /\ enCPU' = Nadie /\ EnSalida' = EnSalida
      /\ UNCHANGED <<siguientePID, colaNew, colaExit, hiloExit>>
  BY DelMensaje DEF RecibirWaitBloqueante
<1>2. /\ saliente' = Nadie /\ ~ liberaCPU'
      /\ bloqueados' = [bloqueados EXCEPT ![r] = q]
      /\ UNCHANGED <<colaIO, enServicio>>
      /\ CriterioEnvio(TRUE, colaReady, est, aCPU, FALSE)
      /\ r \in Recursos
  BY <1>1 DEF RecibirWaitBloqueante
<1>3. /\ bloqueados \in [Recursos -> Seq(Procesos)] /\ bloqueados[r] \in Seq(Procesos)
      /\ colaReady \in Seq(Procesos) /\ aCPU \in Seq(Procesos)
      /\ estado \in [Procesos -> Estados]
  BY <1>2 DEF TypeOK
<1>4. /\ \A f \in Filas : h \notin Esperas[f]
      /\ <<"recurso", r>> \in Filas
      /\ Esperas[<<"recurso", r>>] = ToSet(bloqueados[r])
  BY <1>1, <1>2, Renglones DEF Orden, Ubicados
<1>5. ToSet(q) = ToSet(bloqueados[r]) \cup {h} /\ IsInjective(q)
  <2>1. IsInjective(bloqueados[r])
    BY <1>2 DEF Orden, SinCopias
  <2>2. h \notin ToSet(bloqueados[r])
    BY <1>4
  <2>3. QED BY <1>1, <1>3, <2>1, <2>2, Encola
<1>6. \A f \in Filas : Esperas'[f] = IF f = <<"recurso", r>> THEN Esperas[f] \cup {h}
                                      ELSE Esperas[f]
  <2>1. \A f \in Filas : Esperas'[f] = IF f = <<"recurso", r>> THEN ToSet(q) ELSE Esperas[f]
    BY <1>2, <1>3, EsperasDeRecurso
  <2>2. QED BY <1>4, <1>5, <2>1
<1>7. /\ est \in [Procesos -> Estados]
      /\ \A p \in Procesos : est[p] = IF p = h THEN "BLOCKED" ELSE estado[p]
  BY <1>3 DEF Estados
<1>8. Otros' = {} /\ ToSet(aCPU) = {}
  BY <1>1, <1>2, SinOtros, ColaVacia
<1>9. Ubicados(est, ToSet(colaNew'), ToSet(colaReady), Esperas', EnSalida',
               ToSet(aCPU) \cup Otros', saliente')
  <2>1. Ubicados(estado, ToSet(colaNew), ToSet(colaReady), Esperas, EnSalida, DelVuelo,
                 saliente)
    BY DEF Orden
  <2>2. \A p \in Procesos : p # saliente /\ p # saliente'
    BY <1>1, <1>2, PIDs
  <2>3. EnUnaFila(Esperas', est, saliente')
    <3>1. EnUnaFila(Esperas, estado, saliente')
      BY <1>1, <1>2, <2>1, PorColas
    <3>2. h # saliente'
      BY <1>1, <2>2
    <3>3. Entra(h, fila, Esperas, Esperas') /\ Pasa(h, "BLOCKED", estado, est)
      BY <1>4, <1>6, <1>7 DEF Entra, Pasa
    <3> HIDE DEF est
    <3>4. QED BY <1>4, <3>1, <3>2, <3>3, EntraEnFila
  <2>4. \A p \in Procesos : p \notin ToSet(aCPU) \cup Otros' /\ est[p] # "EXEC"
    BY <1>1, <1>7, <1>8
  <2>5. \A p \in Procesos :
          /\ p \in ToSet(colaNew') <=> est[p] = "NEW"
          /\ p \in ToSet(colaReady) <=> est[p] = "READY"
          /\ p \in EnSalida' <=> est[p] = "EXIT"
    BY <1>1, <1>7, <2>1, <2>2 DEF Ubicados
  <2>6. QED BY <2>2, <2>3, <2>4, <2>5 DEF Ubicados, EnUnaFila
<1>10. \A p \in Procesos : est[p] = "SIN_CREAR" <=> p >= siguientePID'
  BY <1>1, <1>7 DEF Orden, PIDsEnOrden
<1>11. /\ IsInjective(colaReady) /\ IsInjective(colaNew') /\ IsInjective(colaExit')
       /\ hiloExit' \notin ToSet(colaExit')
       /\ \A s \in Recursos : IsInjective(bloqueados'[s])
       /\ \A j \in Interfaces : /\ IsInjective(colaIO'[j])
                                /\ enServicio'[j] \notin ToSet(colaIO'[j])
  <2>1. \A s \in Recursos : bloqueados'[s] = IF s = r THEN q ELSE bloqueados[s]
    BY <1>2, <1>3
  <2>2. QED BY <1>1, <1>2, <1>5, <2>1 DEF Orden, SinCopias
<1> HIDE DEF est, q
<1>12. EnSuSitio(colaReady, est, aCPU)
  BY ONLY <1>2, <1>3, <1>9, <1>10, <1>11 DEF EnSuSitio
<1>13. QED BY <1>2, <1>3, <1>7, <1>12, OrdenRonda

\* A SIGNAL: the PCB goes back to the CPU and the first waiter to READY.
LEMMA OrdenRecibirSignal ==
    ASSUME TypeOK, Turno, UnaCPU, Orden, RecibirSignal
    PROVE  Orden'
<1> DEFINE h == Mensaje.pid
           r == Mensaje.arg
           canal == Append(aCPU, h)
           listos == ListosTrasSignal(r)
           est == EstadoTrasSignal(r, estado)
           danio == DespiertaLiberado(r)
<1>1. /\ h \in Procesos /\ estado[h] = "EXEC" /\ EstadoRecibido = estado
      /\ saliente = Nadie /\ aCPU = <<>> /\ ~ liberaCPU
      /\ \A p \in Procesos : estado[p] = "EXEC" => p = h
      /\ deCPU' = <<>> /\ enCPU' = Nadie /\ EnSalida' = EnSalida
      /\ UNCHANGED <<siguientePID, colaNew, colaExit, hiloExit>>
  BY DelMensaje DEF RecibirSignal
<1>2. /\ saliente' = Nadie /\ ~ liberaCPU'
      /\ UNCHANGED <<colaIO, enServicio>>
      /\ r \in Recursos /\ SignalRecurso(r, h)
      /\ CriterioEnvio(FALSE, listos, est, canal, danio)
  BY <1>1 DEF RecibirSignal
<1>3. /\ aCPU \in Seq(Procesos) /\ estado \in [Procesos -> Estados]
      /\ listos \in Seq(Procesos) /\ est \in [Procesos -> Estados]
  BY <1>1, <1>2, SignalTipo DEF TypeOK
<1>4. canal \in Seq(Procesos) /\ ToSet(canal) = {h}
  <2>1. h \in Procesos /\ aCPU \in Seq(Procesos)
    BY <1>1, <1>3
  <2>2. ToSet(canal) = ToSet(aCPU) \cup {h} /\ canal \in Seq(Procesos)
    BY ONLY <2>1, Encola
  <2>3. QED BY <1>1, <2>2, ColaVacia
<1>5. Otros' = {}
  BY <1>1, <1>2, SinOtros
<1>6. Ubicados(estado, ToSet(colaNew), ToSet(colaReady), Esperas, EnSalida, DelVuelo, saliente)
  BY DEF Orden
<1>7. /\ \A s \in Recursos : IsInjective(bloqueados'[s])
      /\ IsInjective(listos)
      /\ NoDespierta(r) \/ \E w \in Procesos : Despierta(r, w, estado)
  <2>1. SinCopias
    BY DEF Orden
  <2>2. QED BY <1>1, <1>2, <1>6, <2>1, SignalCasos
<1>8. /\ Ubicados(est, ToSet(colaNew'), ToSet(listos), Esperas', EnSalida',
                  ToSet(canal) \cup Otros', saliente')
      /\ \A p \in Procesos : est[p] = "SIN_CREAR" <=> p >= siguientePID'
  <2>0. PIDsEnOrden
    BY DEF Orden
  <2>1. CASE NoDespierta(r)
    <3>1. listos = colaReady /\ est = estado /\ Esperas' = Esperas
      BY <2>1 DEF NoDespierta, ListosTrasSignal, EstadoTrasSignal
    <3> HIDE DEF est, listos, canal
    <3>2. QED BY <1>1, <1>2, <1>4, <1>5, <1>6, <2>0, <3>1 DEF Ubicados, PIDsEnOrden
  <2>2. ASSUME NEW w \in Procesos, Despierta(r, w, estado)
        PROVE  /\ Ubicados(est, ToSet(colaNew'), ToSet(listos), Esperas', EnSalida',
                           ToSet(canal) \cup Otros', saliente')
               /\ \A p \in Procesos : est[p] = "SIN_CREAR" <=> p >= siguientePID'
    <3>1. Pasa(w, "READY", estado, est)
      BY <1>3, <2>2 DEF Despierta, EstadoTrasSignal, Pasa
    <3> HIDE DEF est
    <3>2. <<"recurso", r>> \in Filas
      BY <1>2, Renglones
    <3>3. EnUnaFila(Esperas', est, saliente')
      <4>1. EnUnaFila(Esperas, estado, saliente')
        BY <1>1, <1>2, <1>6, PorColas
      <4>2. Deja(w, <<"recurso", r>>, Esperas, Esperas')
        BY <2>2 DEF Despierta
      <4>3. QED BY <3>1, <3>2, <4>1, <4>2, SaleDeFila
    <3>4. \A p \in Procesos : p # saliente /\ p # saliente'
      BY <1>1, <1>2, PIDs
    <3>5. \A p \in Procesos :
            /\ p \in ToSet(colaNew') <=> est[p] = "NEW"
            /\ p \in ToSet(listos) <=> est[p] = "READY"
            /\ p \in EnSalida' <=> est[p] = "EXIT"
            /\ p \in DelVuelo <=> est[p] = "EXEC"
      BY <1>1, <1>6, <2>2, <3>1, <3>4 DEF Ubicados, Pasa, Despierta
    <3>6. \A p \in Procesos : p \in ToSet(canal) \cup Otros' <=> est[p] = "EXEC"
      BY <1>1, <1>4, <1>5, <2>2, <3>1 DEF Pasa, Despierta
    <3>7. Ubicados(est, ToSet(colaNew'), ToSet(listos), Esperas', EnSalida',
                   ToSet(canal) \cup Otros', saliente')
      BY <3>3, <3>4, <3>5, <3>6 DEF Ubicados, EnUnaFila
    <3>8. QED BY <1>1, <2>0, <2>2, <3>1, <3>7 DEF PIDsEnOrden, Pasa, Despierta
  <2>3. QED BY <1>7, <2>1, <2>2
<1>9. /\ IsInjective(colaNew') /\ IsInjective(colaExit')
      /\ hiloExit' \notin ToSet(colaExit')
      /\ \A j \in Interfaces : /\ IsInjective(colaIO'[j])
                               /\ enServicio'[j] \notin ToSet(colaIO'[j])
  BY <1>1, <1>2 DEF Orden, SinCopias
<1> HIDE DEF est, listos, canal, danio
<1>10. EnSuSitio(listos, est, canal)
  BY ONLY <1>2, <1>3, <1>7, <1>8, <1>9 DEF EnSuSitio
<1>11. QED BY <1>2, <1>3, <1>4, <1>7, <1>8, <1>10, OrdenRonda

\* The message of a process that ends: enviarAExit holds it, still in EXEC.
LEMMA OrdenSaleDelMensaje ==
    ASSUME TypeOK, Turno, UnaCPU, Orden, NEW ops, RecibirDeCPU(ops), SaleElDelMensaje
    PROVE  Orden'
<1> DEFINE h == Mensaje.pid
<1>1. /\ h \in Procesos /\ estado[h] = "EXEC" /\ EstadoRecibido = estado
      /\ saliente = Nadie /\ aCPU = <<>>
      /\ \A p \in Procesos : estado[p] = "EXEC" => p = h
      /\ deCPU' = <<>> /\ enCPU' = Nadie /\ EnSalida' = EnSalida
      /\ UNCHANGED <<siguientePID, colaNew, colaExit, hiloExit>>
  BY DelMensaje
<1>2. /\ saliente' = h /\ liberaCPU' = TRUE /\ estado' = estado
      /\ UNCHANGED <<bloqueados, colaIO, enServicio, colaReady, aCPU>>
  BY <1>1 DEF SaleElDelMensaje, EmpezarSalida
<1>3. Esperas' = Esperas /\ DelVuelo' = {h}
  BY <1>1, <1>2, EsperasIguales, ColaVacia DEF DelVuelo
<1>4. Ubicados(estado', ToSet(colaNew'), ToSet(colaReady'), Esperas', EnSalida',
               DelVuelo', saliente')
  BY <1>1, <1>2, <1>3, PIDs DEF Orden, Ubicados
<1>5. SinCopias'
  BY <1>1, <1>2 DEF Orden, SinCopias
<1>6. SalientePosible' /\ PIDsEnOrden'
  BY <1>1, <1>2 DEF Orden, SalientePosible, PIDsEnOrden
<1>7. QED BY <1>4, <1>5, <1>6 DEF Orden

\* recibirDeCPU: whatever the CPU reports, each PCB is where its state says.
LEMMA OrdenRecibir ==
    ASSUME TypeOK, Turno, UnaCPU, Orden, HiloRecibir
    PROVE  Orden'
<1>1. CASE CaerSinPCB
  BY <1>1, OrdenIgual DEF CaerSinPCB, Caer
<1>2. CASE RecibirIOInvalida \/ RecibirRecursoInvalido \/ RecibirFin
  BY <1>2, OrdenSaleDelMensaje DEF RecibirIOInvalida, RecibirRecursoInvalido, RecibirFin
<1>3. QED
  BY <1>1, <1>2, OrdenRecibirIO, OrdenRecibirWait, OrdenRecibirWaitBloqueante,
     OrdenRecibirSignal DEF HiloRecibir

\* One iteration of liberarRecursos: the process it wakes changes its place.
LEMMA OrdenLiberarRecurso ==
    ASSUME TypeOK, Orden, NEW r \in Recursos, LiberarRecurso(r)
    PROVE  Orden'
<1>1. /\ saliente \in Procesos /\ SignalRecurso(r, saliente)
      /\ colaReady' = ListosTrasSignal(r) /\ estado' = EstadoTrasSignal(r, estado)
      /\ UNCHANGED <<siguientePID, colaNew, colaExit, hiloExit, colaIO, enServicio,
                     saliente, liberaCPU, aCPU, deCPU, enCPU>>
  BY DEF LiberarRecurso, TypeOK
<1>2. DelVuelo' = DelVuelo /\ EnSalida' = EnSalida
  BY <1>1 DEF DelVuelo, EnSalida
<1>3. /\ SinCopias /\ SalientePosible /\ PIDsEnOrden
      /\ Ubicados(estado, ToSet(colaNew), ToSet(colaReady), Esperas, EnSalida,
                  DelVuelo, saliente)
  BY DEF Orden
<1>4. /\ \A s \in Recursos : IsInjective(bloqueados'[s])
      /\ IsInjective(ListosTrasSignal(r))
      /\ NoDespierta(r) \/ \E w \in Procesos : Despierta(r, w, estado)
  BY <1>1, <1>3, SignalCasos
<1>5. SinCopias'
  BY <1>1, <1>3, <1>4 DEF SinCopias
<1>6. CASE NoDespierta(r)
  <2>1. colaReady' = colaReady /\ estado' = estado /\ Esperas' = Esperas
    BY <1>1, <1>6 DEF NoDespierta, ListosTrasSignal, EstadoTrasSignal
  <2>2. SalientePosible' /\ PIDsEnOrden'
    BY <1>1, <1>3, <2>1 DEF SalientePosible, PIDsEnOrden
  <2>3. QED BY <1>1, <1>2, <1>3, <1>5, <2>1, <2>2 DEF Orden
<1>7. ASSUME NEW w \in Procesos, Despierta(r, w, estado)
      PROVE  Orden'
  <2>1. Pasa(w, "READY", estado, estado')
    <3>1. estado' = [estado EXCEPT ![w] = "READY"] /\ estado \in [Procesos -> Estados]
      BY <1>1, <1>7 DEF Despierta, EstadoTrasSignal, TypeOK
    <3>2. QED BY <3>1 DEF Pasa
  <2>2. EnUnaFila(Esperas', estado', saliente')
    <3>1. EnUnaFila(Esperas, estado, saliente')
      BY <1>1, <1>3, PorColas
    <3>2. Deja(w, <<"recurso", r>>, Esperas, Esperas')
      BY <1>7 DEF Despierta
    <3>3. <<"recurso", r>> \in Filas
      BY Renglones
    <3>4. QED BY <2>1, <3>1, <3>2, <3>3, SaleDeFila
  <2>3. /\ estado[w] = "BLOCKED" /\ w # saliente
        /\ ToSet(colaReady') = ToSet(colaReady) \cup {w}
    BY <1>1, <1>7 DEF Despierta
  <2>4. \A p \in Procesos :
          /\ p \in ToSet(colaNew') <=> estado'[p] = "NEW" /\ p # saliente'
          /\ p \in ToSet(colaReady') <=> estado'[p] = "READY" /\ p # saliente'
          /\ p \in EnSalida' <=> estado'[p] = "EXIT" /\ p # saliente'
          /\ p \in DelVuelo' <=> estado'[p] = "EXEC"
    BY <1>1, <1>2, <1>3, <2>1, <2>3 DEF Ubicados, Pasa
  <2>5. SalientePosible'
    BY <1>1, <1>3, <2>1, <2>3 DEF SalientePosible, Pasa
  <2>6. PIDsEnOrden'
    BY <1>1, <1>3, <2>1, <2>3 DEF PIDsEnOrden, Pasa
  <2>7. Ubicados(estado', ToSet(colaNew'), ToSet(colaReady'), Esperas', EnSalida',
                 DelVuelo', saliente')
    BY <2>2, <2>4 DEF Ubicados, EnUnaFila
  <2>8. QED BY <1>5, <2>5, <2>6, <2>7 DEF Orden
<1>8. QED BY <1>4, <1>6, <1>7

\* The end of enviarAExit: its process moves to colaExit, and out of the CPU if
\* it was there.
LEMMA OrdenTerminarSalida ==
    ASSUME TypeOK, UnaCPU, Orden, TerminarSalida
    PROVE  Orden'
<1> DEFINE s == saliente
           q == Append(colaExit, s)
           est == [estado EXCEPT ![s] = "EXIT"]
           libre == cpuLibre \/ liberaCPU
           danio == Liberado(s)
<1>1. /\ s \in Procesos /\ saliente' = Nadie /\ liberaCPU' = FALSE
      /\ colaExit' = q
      /\ CriterioEnvio(libre, colaReady, est, aCPU, danio)
      /\ UNCHANGED <<siguientePID, colaNew, hiloExit, bloqueados, colaIO, enServicio,
                     deCPU, enCPU>>
  BY DEF TerminarSalida, EncolarExit, TypeOK
<1>2. /\ SinCopias /\ SalientePosible /\ PIDsEnOrden
      /\ Ubicados(estado, ToSet(colaNew), ToSet(colaReady), Esperas, EnSalida,
                  DelVuelo, s)
  BY DEF Orden
<1>3. /\ estado \in [Procesos -> Estados] /\ colaExit \in Seq(Procesos)
      /\ colaReady \in Seq(Procesos) /\ aCPU \in Seq(Procesos)
  BY DEF TypeOK
<1>4. cpuLibre \in BOOLEAN /\ liberaCPU \in BOOLEAN
  BY DEF TypeOK
<1>5. /\ est \in [Procesos -> Estados] /\ Pasa(s, "EXIT", estado, est)
      /\ estado[s] # "SIN_CREAR"
  <2>1. s # Nadie
    BY <1>1, PIDs
  <2>2. estado[s] # "SIN_CREAR"
    BY <1>2, <2>1 DEF SalientePosible
  <2>3. QED BY <1>3, <2>2 DEF Estados, Pasa
<1>6. s \notin ToSet(colaExit) /\ s # hiloExit
  BY <1>1, <1>2, PIDs DEF Ubicados, EnSalida
<1>7. ToSet(q) = ToSet(colaExit) \cup {s} /\ IsInjective(q)
  <2>1. IsInjective(colaExit)
    BY <1>2 DEF SinCopias
  <2>2. QED BY <1>1, <1>3, <1>6, <2>1, Encola
<1>8. EnSalida' = EnSalida \cup {s} /\ Esperas' = Esperas
  <2>1. EnSalida' = EnSalida \cup {s}
    BY <1>1, <1>7 DEF EnSalida
  <2>2. QED BY <1>1, <2>1, EsperasIguales
<1>9. \A p \in Procesos : p \in ToSet(aCPU) \cup Otros' <=> est[p] = "EXEC"
  <2>1. CASE liberaCPU
    <3>1. aCPU = <<>> /\ deCPU = <<>> /\ enCPU = Nadie /\ DelVuelo = {s}
      BY <2>1, VueloUnico
    <3>2. ToSet(aCPU) = {} /\ Otros' = {}
      BY <1>1, <3>1, ColaVacia, SinOtros
    <3>3. \A p \in Procesos : estado[p] = "EXEC" <=> p = s
      BY <1>2, <3>1 DEF Ubicados
    <3>4. QED BY <1>5, <3>2, <3>3 DEF Pasa
  <2>2. CASE ~ liberaCPU
    <3>1. Otros' = Otros
      BY <1>1, <2>2 DEF Otros
    <3>2. estado[s] # "EXEC"
      BY <1>1, <1>2, <2>2, PIDs DEF SalientePosible
    <3>3. \A p \in Procesos : p \in ToSet(aCPU) \cup Otros' <=> estado[p] = "EXEC"
      BY <1>2, <3>1, VueloPartes DEF Ubicados
    <3>4. QED BY <1>5, <3>2, <3>3 DEF Pasa
  <2>3. QED BY <2>1, <2>2
<1>10. EnUnaFila(Esperas', est, saliente')
  <2>1. EnUnaFila(Esperas, estado, s)
    BY <1>2, PorColas
  <2> HIDE DEF est
  <2>2. \A p \in Procesos : est[p] = "BLOCKED" /\ p # saliente' <=> estado[p] = "BLOCKED" /\ p # s
    BY <1>1, <1>5, PIDs DEF Pasa
  <2>3. QED BY <1>8, <2>1, <2>2 DEF EnUnaFila
<1>11. \A p \in Procesos :
         /\ p \in ToSet(colaNew') <=> est[p] = "NEW" /\ p # saliente'
         /\ p \in ToSet(colaReady) <=> est[p] = "READY" /\ p # saliente'
         /\ p \in EnSalida' <=> est[p] = "EXIT" /\ p # saliente'
  <2> HIDE DEF est
  <2>1. QED BY <1>1, <1>2, <1>5, <1>8, PIDs DEF Ubicados, Pasa
<1> HIDE DEF est
<1>12. Ubicados(est, ToSet(colaNew'), ToSet(colaReady), Esperas', EnSalida',
                ToSet(aCPU) \cup Otros', saliente')
  BY <1>9, <1>10, <1>11 DEF Ubicados, EnUnaFila
<1>13. \A p \in Procesos : est[p] = "SIN_CREAR" <=> p >= siguientePID'
  BY <1>1, <1>2, <1>5 DEF PIDsEnOrden, Pasa
<1>14. /\ IsInjective(colaReady) /\ IsInjective(colaNew') /\ IsInjective(colaExit')
       /\ hiloExit' \notin ToSet(colaExit')
       /\ \A r \in Recursos : IsInjective(bloqueados'[r])
       /\ \A j \in Interfaces : /\ IsInjective(colaIO'[j])
                                /\ enServicio'[j] \notin ToSet(colaIO'[j])
  BY <1>1, <1>2, <1>6, <1>7 DEF SinCopias
<1>15. libre \in BOOLEAN
  BY <1>4
<1> HIDE DEF libre, danio
<1>16. EnSuSitio(colaReady, est, aCPU)
  BY ONLY <1>1, <1>12, <1>13, <1>14 DEF EnSuSitio
<1>17. QED BY <1>1, <1>3, <1>5, <1>15, <1>16, OrdenRonda

\* enviarAExit, step by step, leaves every PCB in its place.
LEMMA OrdenSalida ==
    ASSUME TypeOK, UnaCPU, Orden, Salida
    PROVE  Orden'
<1>1. CASE CaerLiberando
  BY <1>1, OrdenIgual DEF CaerLiberando, Caer
<1>2. QED BY <1>1, OrdenLiberarRecurso, OrdenTerminarSalida DEF Salida

\* vaciarExit takes the first of colaExit and frees it.
LEMMA OrdenExit ==
    ASSUME TypeOK, ExitContado, Orden, HiloExit
    PROVE  Orden'
<1>0. /\ SinCopias /\ SalientePosible /\ PIDsEnOrden
      /\ Ubicados(estado, ToSet(colaNew), ToSet(colaReady), Esperas, EnSalida,
                  DelVuelo, saliente)
  BY DEF Orden
<1>1. CASE SacarDeExit
  <2>1. /\ colaExit # <<>> /\ colaExit \in Seq(Procesos) /\ IsInjective(colaExit)
        /\ hiloExit = Nadie /\ hiloExit' = Head(colaExit) /\ colaExit' = Tail(colaExit)
        /\ UNCHANGED <<siguientePID, colaNew, bloqueados, colaIO, enServicio, estado,
                       colaReady, aCPU, deCPU, enCPU, saliente, liberaCPU>>
    BY <1>0, <1>1, Colas DEF TypeOK, ExitContado, SacarDeExit, SinCopias
  <2>2. /\ Head(colaExit) \in ToSet(colaExit) /\ Head(colaExit) \in Procesos
        /\ ToSet(colaExit') = ToSet(colaExit) \ {Head(colaExit)}
        /\ IsInjective(colaExit')
    BY <2>1, Desencola
  <2>3. EnSalida' = EnSalida
    BY <2>1, <2>2, PIDs DEF EnSalida
  <2>4. Esperas' = Esperas /\ DelVuelo' = DelVuelo
    BY <2>1, EsperasIguales DEF DelVuelo
  <2>5. SinCopias'
    BY <1>0, <2>1, <2>2 DEF SinCopias
  <2>6. SalientePosible' /\ PIDsEnOrden'
    BY <1>0, <2>1 DEF SalientePosible, PIDsEnOrden
  <2>7. QED BY <1>0, <2>1, <2>3, <2>4, <2>5, <2>6 DEF Orden
<1>2. CASE LiberarPCB
  <2> DEFINE h == hiloExit
  <2>1. /\ h \in Procesos /\ hiloExit' = Nadie
        /\ estado' = [estado EXCEPT ![h] = "LIBERADO"] /\ estado \in [Procesos -> Estados]
        /\ UNCHANGED <<siguientePID, colaNew, bloqueados, colaIO, enServicio, colaExit,
                       colaReady, aCPU, deCPU, enCPU, saliente, liberaCPU>>
    BY <1>2 DEF TypeOK, LiberarPCB
  <2>2. estado[h] = "EXIT" /\ h # saliente
    BY <1>0, <2>1, PIDs DEF Ubicados, EnSalida
  <2>3. EnSalida' = EnSalida \ {h} /\ h \notin EnSalida'
    BY <1>0, <2>1, PIDs DEF EnSalida, SinCopias
  <2>4. Esperas' = Esperas /\ DelVuelo' = DelVuelo
    BY <2>1, EsperasIguales DEF DelVuelo
  <2>5. Pasa(h, "LIBERADO", estado, estado')
    BY <2>1 DEF Pasa
  <2>6. EnUnaFila(Esperas', estado', saliente')
    <3>1. EnUnaFila(Esperas, estado, saliente)
      BY <1>0, PorColas
    <3>2. QED BY <2>1, <2>2, <2>4, <2>5, <3>1 DEF EnUnaFila, Pasa
  <2>7. \A p \in Procesos :
          /\ p \in ToSet(colaNew') <=> estado'[p] = "NEW" /\ p # saliente'
          /\ p \in ToSet(colaReady') <=> estado'[p] = "READY" /\ p # saliente'
          /\ p \in EnSalida' <=> estado'[p] = "EXIT" /\ p # saliente'
          /\ p \in DelVuelo' <=> estado'[p] = "EXEC"
    BY <1>0, <2>1, <2>2, <2>3, <2>4, <2>5 DEF Ubicados, Pasa
  <2>8. Ubicados(estado', ToSet(colaNew'), ToSet(colaReady'), Esperas', EnSalida',
                 DelVuelo', saliente')
    BY <2>6, <2>7 DEF Ubicados, EnUnaFila
  <2>9. \A p \in ToSet(colaExit) : p \in Procesos
    BY Contenido DEF TypeOK
  <2>10. SinCopias'
    BY <1>0, <2>1, <2>9, PIDs DEF SinCopias
  <2>11. SalientePosible' /\ PIDsEnOrden'
    BY <1>0, <2>1, <2>2, <2>5 DEF SalientePosible, PIDsEnOrden, Pasa
  <2>12. QED BY <2>8, <2>10, <2>11 DEF Orden
<1>3. QED BY <1>1, <1>2 DEF HiloExit

\* The thread of an interface takes a request, and returns its process to READY.
LEMMA OrdenIO ==
    ASSUME TypeOK, Turno, Orden, NEW i \in Interfaces, HiloIO(i) \/ ConectarInterfaz(i)
    PROVE  Orden'
<1>0. /\ SinCopias /\ SalientePosible /\ PIDsEnOrden
      /\ Ubicados(estado, ToSet(colaNew), ToSet(colaReady), Esperas, EnSalida,
                  DelVuelo, saliente)
  BY DEF Orden
<1> DEFINE fila == <<"interfaz", i>>
<1>a. /\ colaIO \in [Interfaces -> Seq(Procesos)] /\ colaIO[i] \in Seq(Procesos)
      /\ enServicio \in [Interfaces -> Procesos \cup {Nadie}]
      /\ enServicio[i] \in Procesos \cup {Nadie}
      /\ IsInjective(colaIO[i]) /\ enServicio[i] \notin ToSet(colaIO[i])
      /\ fila \in Filas
      /\ Esperas[fila] = ToSet(colaIO[i]) \cup ({enServicio[i]} \ {Nadie})
  BY <1>0, Renglones DEF TypeOK, SinCopias
<1>1. CASE ConectarInterfaz(i)
  BY <1>1, OrdenIgual DEF ConectarInterfaz
<1>2. CASE AtenderIO(i)
  <2>1. /\ enServicio[i] = Nadie /\ colaIO[i] # <<>>
        /\ enServicio' = [enServicio EXCEPT ![i] = Head(colaIO[i])]
        /\ colaIO' = [colaIO EXCEPT ![i] = Tail(colaIO[i])]
        /\ UNCHANGED <<siguientePID, colaNew, bloqueados, colaExit, hiloExit, estado,
                       colaReady, aCPU, deCPU, enCPU, saliente, liberaCPU>>
    BY <1>2 DEF AtenderIO
  <2>2. /\ Head(colaIO[i]) \in ToSet(colaIO[i]) /\ Head(colaIO[i]) \in Procesos
        /\ ToSet(Tail(colaIO[i])) = ToSet(colaIO[i]) \ {Head(colaIO[i])}
        /\ IsInjective(Tail(colaIO[i]))
    BY <1>a, <2>1, Desencola
  <2>3. /\ EnSalida' = EnSalida /\ DelVuelo' = DelVuelo
        /\ \A f \in Filas : Esperas'[f] = Esperas[f]
    <3>1. EnSalida' = EnSalida /\ DelVuelo' = DelVuelo
      BY <2>1 DEF EnSalida, DelVuelo
    <3>2. \A f \in Filas :
            Esperas'[f] = IF f = fila
                          THEN ToSet(Tail(colaIO[i])) \cup ({Head(colaIO[i])} \ {Nadie})
                          ELSE Esperas[f]
      BY <1>a, <2>1, EsperasDeInterfaz
    <3>3. Esperas[fila] = ToSet(Tail(colaIO[i])) \cup ({Head(colaIO[i])} \ {Nadie})
      BY <1>a, <2>1, <2>2, PIDs
    <3>4. QED BY <3>1, <3>2, <3>3
  <2>4. Ubicados(estado', ToSet(colaNew'), ToSet(colaReady'), Esperas', EnSalida',
                 DelVuelo', saliente')
    BY <1>0, <2>1, <2>3 DEF Ubicados
  <2>5. SinCopias'
    <3>1. \A j \in Interfaces :
            /\ colaIO'[j] = IF j = i THEN Tail(colaIO[i]) ELSE colaIO[j]
            /\ enServicio'[j] = IF j = i THEN Head(colaIO[i]) ELSE enServicio[j]
      BY <1>a, <2>1
    <3>2. QED BY <1>0, <2>1, <2>2, <3>1 DEF SinCopias
  <2>6. SalientePosible' /\ PIDsEnOrden'
    BY <1>0, <2>1 DEF SalientePosible, PIDsEnOrden
  <2>7. QED BY <2>4, <2>5, <2>6 DEF Orden
<1>3. CASE TerminarIO(i)
  <2> DEFINE w == enServicio[i]
             listos == Append(colaReady, w)
             est == [estado EXCEPT ![w] = "READY"]
             danio == Liberado(w)
  <2>1. /\ w \in Procesos /\ mutexPlanificador = "libre"
        /\ enServicio' = [enServicio EXCEPT ![i] = Nadie]
        /\ CriterioEnvio(cpuLibre, listos, est, aCPU, danio)
        /\ UNCHANGED <<siguientePID, colaNew, bloqueados, colaIO, colaExit, hiloExit,
                       deCPU, enCPU, saliente, liberaCPU>>
    BY <1>3, <1>a DEF TerminarIO, Planifica
  <2>2. saliente = Nadie /\ saliente' = Nadie
    BY <2>1 DEF Turno
  <2>3. estado[w] = "BLOCKED" /\ w \notin ToSet(colaReady) /\ w \in Esperas[fila]
    BY <1>0, <1>a, <2>1, PIDs DEF Ubicados
  <2>4. /\ estado \in [Procesos -> Estados] /\ colaReady \in Seq(Procesos)
        /\ aCPU \in Seq(Procesos) /\ cpuLibre \in BOOLEAN
    BY DEF TypeOK
  <2>5. /\ listos \in Seq(Procesos) /\ IsInjective(listos)
        /\ ToSet(listos) = ToSet(colaReady) \cup {w}
    <3>1. IsInjective(colaReady)
      BY <1>0 DEF SinCopias
    <3>2. QED BY <2>1, <2>3, <2>4, <3>1, Encola
  <2>6. est \in [Procesos -> Estados] /\ Pasa(w, "READY", estado, est)
    BY <2>4 DEF Estados, Pasa
  <2>7. Deja(w, fila, Esperas, Esperas')
    <3>1. colaIO' = [colaIO EXCEPT ![i] = colaIO[i]]
      BY <1>a, <2>1
    <3>2. \A f \in Filas :
            Esperas'[f] = IF f = fila THEN ToSet(colaIO[i]) \cup ({Nadie} \ {Nadie})
                          ELSE Esperas[f]
      BY <1>a, <2>1, <3>1, EsperasDeInterfaz
    <3>3. ToSet(colaIO[i]) \cup ({Nadie} \ {Nadie}) = Esperas[fila] \ {w}
      BY <1>a, <2>1, PIDs
    <3>4. QED BY <2>3, <3>2, <3>3 DEF Deja
  <2> HIDE DEF est, listos, danio
  <2>8. EnUnaFila(Esperas', est, saliente')
    <3>1. EnUnaFila(Esperas, estado, saliente')
      BY <1>0, <2>2, PorColas
    <3>2. QED BY <1>a, <2>6, <2>7, <3>1, SaleDeFila
  <2>9. EnSalida' = EnSalida /\ Otros' = Otros
    BY <2>1 DEF EnSalida, Otros
  <2>10. \A p \in Procesos :
           /\ p \in ToSet(colaNew') <=> est[p] = "NEW" /\ p # saliente'
           /\ p \in ToSet(listos) <=> est[p] = "READY" /\ p # saliente'
           /\ p \in EnSalida' <=> est[p] = "EXIT" /\ p # saliente'
           /\ p \in ToSet(aCPU) \cup Otros' <=> est[p] = "EXEC"
    BY <1>0, <2>1, <2>2, <2>3, <2>5, <2>6, <2>9, PIDs, VueloPartes DEF Ubicados, Pasa
  <2>11. Ubicados(est, ToSet(colaNew'), ToSet(listos), Esperas', EnSalida',
                  ToSet(aCPU) \cup Otros', saliente')
    BY <2>8, <2>10 DEF Ubicados, EnUnaFila
  <2>12. \A p \in Procesos : est[p] = "SIN_CREAR" <=> p >= siguientePID'
    BY <1>0, <2>1, <2>3, <2>6 DEF PIDsEnOrden, Pasa
  <2>13. /\ IsInjective(colaNew') /\ IsInjective(colaExit')
         /\ hiloExit' \notin ToSet(colaExit')
         /\ \A r \in Recursos : IsInjective(bloqueados'[r])
    BY <1>0, <2>1 DEF SinCopias
  <2>14. \A j \in Interfaces : /\ IsInjective(colaIO'[j])
                               /\ enServicio'[j] \notin ToSet(colaIO'[j])
    <3>1. \A x \in ToSet(colaIO[i]) : x \in Procesos
      BY <1>a, Contenido
    <3>2. \A j \in Interfaces : enServicio'[j] = IF j = i THEN Nadie ELSE enServicio[j]
      BY <1>a, <2>1
    <3>3. QED BY <1>0, <2>1, <3>1, <3>2, PIDs DEF SinCopias
  <2>15. EnSuSitio(listos, est, aCPU)
    BY ONLY <2>2, <2>5, <2>11, <2>12, <2>13, <2>14 DEF EnSuSitio
  <2>16. QED BY ONLY <2>1, <2>4, <2>5, <2>6, <2>15, OrdenRonda
<1>4. QED BY <1>1, <1>2, <1>3 DEF HiloIO

\* FINALIZAR_PROCESO in NEW or READY: the PCB leaves its queue, in the hands of
\* enviarAExit.
LEMMA OrdenFinalizar ==
    ASSUME TypeOK, Turno, Orden, NEW p \in Procesos, FinalizarNew(p) \/ FinalizarReady(p)
    PROVE  Orden'
<1>1. /\ SinCopias /\ SalientePosible /\ PIDsEnOrden
      /\ Ubicados(estado, ToSet(colaNew), ToSet(colaReady), Esperas, EnSalida,
                  DelVuelo, saliente)
      /\ colaNew \in Seq(Procesos) /\ colaReady \in Seq(Procesos)
      /\ IsInjective(colaNew) /\ IsInjective(colaReady)
  BY DEF Orden, TypeOK, SinCopias
<1>2. /\ mutexPlanificador = "libre" /\ saliente' = p /\ liberaCPU' = FALSE
      /\ estado[p] \in Finalizables \cap {"NEW", "READY"}
      /\ UNCHANGED <<siguientePID, bloqueados, colaIO, enServicio, colaExit, hiloExit,
                     estado, aCPU, deCPU, enCPU>>
  BY DEF FinalizarNew, FinalizarReady, Finalizar, EmpezarSalida, Planifica
<1>3. saliente = Nadie /\ ~ liberaCPU
  BY <1>2 DEF Turno
<1>4. /\ ToSet(colaNew') = IF estado[p] = "NEW" THEN ToSet(colaNew) \ {p} ELSE ToSet(colaNew)
      /\ ToSet(colaReady') = IF estado[p] = "READY" THEN ToSet(colaReady) \ {p}
                             ELSE ToSet(colaReady)
      /\ IsInjective(colaNew') /\ IsInjective(colaReady')
  <2>1. CASE FinalizarNew(p)
    <3>1. /\ estado[p] = "NEW" /\ colaReady' = colaReady
          /\ colaNew' = SinProceso(colaNew, p)
      BY <2>1 DEF FinalizarNew, Finalizar
    <3>2. QED BY <1>1, <3>1, Quita
  <2>2. CASE FinalizarReady(p)
    <3>1. /\ estado[p] = "READY" /\ colaNew' = colaNew
          /\ colaReady' = SinProceso(colaReady, p)
      BY <2>2 DEF FinalizarReady, Finalizar
    <3>2. QED BY <1>1, <3>1, Quita
  <2>3. QED BY <2>1, <2>2
<1>5. Esperas' = Esperas /\ EnSalida' = EnSalida
  BY <1>2, EsperasIguales DEF EnSalida
<1>6. DelVuelo' = DelVuelo
  BY <1>2, <1>3 DEF DelVuelo
<1>7. EnUnaFila(Esperas', estado', saliente')
  <2>1. EnUnaFila(Esperas, estado, saliente)
    BY <1>1, PorColas
  <2>2. \A x \in Procesos : estado[x] = "BLOCKED" => x # saliente /\ x # saliente'
    BY <1>2, <1>3, PIDs
  <2>3. QED BY <1>2, <1>5, <2>1, <2>2 DEF EnUnaFila
<1>8. \A x \in Procesos :
        /\ x \in ToSet(colaNew') <=> estado'[x] = "NEW" /\ x # saliente'
        /\ x \in ToSet(colaReady') <=> estado'[x] = "READY" /\ x # saliente'
        /\ x \in EnSalida' <=> estado'[x] = "EXIT" /\ x # saliente'
        /\ x \in DelVuelo' <=> estado'[x] = "EXEC"
  <2>1. \A x \in Procesos : x # saliente
    BY <1>3, PIDs
  <2>2. QED BY <1>1, <1>2, <1>4, <1>5, <1>6, <2>1 DEF Ubicados
<1>9. Ubicados(estado', ToSet(colaNew'), ToSet(colaReady'), Esperas', EnSalida',
               DelVuelo', saliente')
  BY <1>7, <1>8 DEF Ubicados, EnUnaFila
<1>10. SinCopias'
  BY <1>1, <1>2, <1>4 DEF SinCopias
<1>11. SalientePosible' /\ PIDsEnOrden'
  BY <1>1, <1>2 DEF SalientePosible, PIDsEnOrden
<1>12. QED BY <1>9, <1>10, <1>11 DEF Orden

\* The console. FINALIZAR_PROCESO of a BLOCKED process and of one in EXIT leave
\* PCBs in two places: they are the two cases set aside.
LEMMA OrdenConsola ==
    ASSUME TypeOK, Turno, Orden, Finalizables \cap {"BLOCKED", "EXIT"} = {}, HiloConsola
    PROVE  Orden'
<1>1. CASE SubirGrado \/ BajarGrado \/ DetenerPlanificacion \/ IniciarPlanificacion
             \/ \E n \in Grados : PedirGrado(n)
  BY <1>1, OrdenIgual DEF SubirGrado, BajarGrado, DetenerPlanificacion,
     IniciarPlanificacion, PedirGrado
<1>2. CASE \E p \in Procesos : FinalizarExec(p) \/ FinalizarAusente(p)
  BY <1>2, OrdenIgual DEF FinalizarExec, FinalizarAusente, Caer
<1>3. CASE IniciarProceso
  <2> DEFINE n == siguientePID
  <2>1. /\ SinCopias /\ SalientePosible /\ PIDsEnOrden
        /\ Ubicados(estado, ToSet(colaNew), ToSet(colaReady), Esperas, EnSalida,
                    DelVuelo, saliente)
        /\ colaNew \in Seq(Procesos) /\ IsInjective(colaNew)
        /\ estado \in [Procesos -> Estados] /\ n \in Nat
    BY DEF Orden, TypeOK, SinCopias
  <2>2. /\ n \in Procesos /\ siguientePID' = n + 1
        /\ colaNew' = Append(colaNew, n) /\ estado' = [estado EXCEPT ![n] = "NEW"]
        /\ UNCHANGED <<bloqueados, colaIO, enServicio, colaExit, hiloExit, colaReady,
                       aCPU, deCPU, enCPU, saliente, liberaCPU>>
    BY <1>3, PIDs DEF IniciarProceso, TypeOK
  <2>3. estado[n] = "SIN_CREAR"
    BY <2>1, <2>2 DEF PIDsEnOrden
  <2>4. n # saliente /\ n \notin ToSet(colaNew)
    <3>1. n # Nadie
      BY <2>2, PIDs
    <3>2. n # saliente
      BY <2>1, <2>3, <3>1 DEF SalientePosible
    <3>3. n \notin ToSet(colaNew)
      BY <2>1, <2>2, <2>3 DEF Ubicados
    <3>4. QED BY <3>2, <3>3
  <2>5. ToSet(colaNew') = ToSet(colaNew) \cup {n} /\ IsInjective(colaNew')
    BY <2>1, <2>2, <2>4, Encola
  <2>6. Pasa(n, "NEW", estado, estado')
    BY <2>1, <2>2 DEF Pasa
  <2>7. Esperas' = Esperas /\ EnSalida' = EnSalida /\ DelVuelo' = DelVuelo
    BY <2>2, EsperasIguales DEF EnSalida, DelVuelo
  <2>8. EnUnaFila(Esperas', estado', saliente')
    <3>1. EnUnaFila(Esperas, estado, saliente)
      BY <2>1, PorColas
    <3>2. QED BY <2>2, <2>3, <2>6, <2>7, <3>1 DEF EnUnaFila, Pasa
  <2>9. \A x \in Procesos :
          /\ x \in ToSet(colaNew') <=> estado'[x] = "NEW" /\ x # saliente'
          /\ x \in ToSet(colaReady') <=> estado'[x] = "READY" /\ x # saliente'
          /\ x \in EnSalida' <=> estado'[x] = "EXIT" /\ x # saliente'
          /\ x \in DelVuelo' <=> estado'[x] = "EXEC"
    BY <2>1, <2>2, <2>3, <2>4, <2>5, <2>6, <2>7 DEF Ubicados, Pasa
  <2>10. Ubicados(estado', ToSet(colaNew'), ToSet(colaReady'), Esperas', EnSalida',
                  DelVuelo', saliente')
    BY <2>8, <2>9 DEF Ubicados, EnUnaFila
  <2>11. SinCopias'
    BY <2>1, <2>2, <2>5 DEF SinCopias
  <2>12. SalientePosible'
    <3>1. saliente # Nadie => saliente \in Procesos
      BY DEF TypeOK
    <3>2. QED BY <2>1, <2>2, <2>4, <2>6, <3>1 DEF SalientePosible, Pasa
  <2>13. PIDsEnOrden'
    <3>1. \A x \in Procesos : x \in Int
      BY DEF Procesos
    <3>2. \A x \in Procesos : x # n => (x >= n <=> x >= n + 1)
      BY <2>1, <3>1
    <3>3. QED BY <2>1, <2>2, <2>6, <3>2 DEF PIDsEnOrden, Pasa
  <2>14. QED BY <2>10, <2>11, <2>12, <2>13 DEF Orden
<1>4. ASSUME NEW p \in Procesos
      PROVE  ~ FinalizarBlocked(p) /\ ~ FinalizarExit(p)
  BY DEF FinalizarBlocked, FinalizarExit, Finalizar
<1>5. QED BY <1>1, <1>2, <1>3, <1>4, OrdenFinalizar DEF HiloConsola

\* The CPU takes a PCB from its socket and returns it by the other.
LEMMA OrdenCPU ==
    ASSUME TypeOK, UnaCPU, Orden, HiloDispatch \/ HiloInterrupt
    PROVE  Orden'
<1>1. CASE HiloInterrupt
  BY <1>1, OrdenIgual DEF HiloInterrupt, DescartarInterrupcion, NoKernel
<1>2. ASSUME DelVuelo' = DelVuelo, UNCHANGED NoKernel
      PROVE  Orden'
  <2>1. Esperas' = Esperas /\ EnSalida' = EnSalida
    BY <1>2, EsperasIguales DEF NoKernel, EnSalida
  <2>2. SinCopias' /\ SalientePosible' /\ PIDsEnOrden'
    BY <1>2 DEF Orden, NoKernel, SinCopias, SalientePosible, PIDsEnOrden
  <2>3. QED BY <1>2, <2>1, <2>2 DEF Orden, NoKernel
<1>3. CASE RecibirPCB
  <2>1. /\ aCPU # <<>> /\ enCPU' = Head(aCPU) /\ aCPU' = Tail(aCPU)
        /\ deCPU' = deCPU /\ liberaCPU' = liberaCPU /\ UNCHANGED NoKernel
    BY <1>3 DEF RecibirPCB, NoKernel
  <2>2. /\ deCPU = <<>> /\ ~ liberaCPU /\ DelVuelo = {Head(aCPU)} /\ Tail(aCPU) = <<>>
    BY <2>1, VueloUnico
  <2>3. Head(aCPU) \in Procesos
    BY <2>1, Colas DEF TypeOK
  <2>4. DelVuelo' = {Head(aCPU)}
    BY <2>1, <2>2, <2>3, PIDs, ColaVacia DEF DelVuelo
  <2>5. QED BY <1>2, <2>1, <2>2, <2>4
<1>4. ASSUME enCPU # Nadie, NEW op, NEW arg, DevolverPCB(op, arg)
      PROVE  Orden'
  <2> DEFINE m == [pid |-> enCPU, op |-> op, arg |-> arg]
  <2>1. /\ enCPU' = Nadie /\ deCPU' = Append(deCPU, m) /\ aCPU' = aCPU
        /\ liberaCPU' = liberaCPU /\ UNCHANGED NoKernel
    BY <1>4 DEF DevolverPCB, NoKernel
  <2>2. /\ aCPU = <<>> /\ deCPU = <<>> /\ ~ liberaCPU /\ DelVuelo = {enCPU}
    BY <1>4, VueloUnico
  <2>3. deCPU' = <<m>>
    BY <2>1, <2>2
  <2>4. DOMAIN deCPU' = {1} /\ deCPU'[1] = m
    BY <2>3
  <2>5. {deCPU'[k].pid : k \in DOMAIN deCPU'} = {enCPU}
    BY <2>4
  <2>6. DelVuelo' = {enCPU}
    BY <2>1, <2>2, <2>5, ColaVacia DEF DelVuelo
  <2>7. QED BY <1>2, <2>1, <2>2, <2>6
<1>5. CASE EjecutarExit \/ \E c \in Llamadas : EjecutarLlamada(c)
  BY <1>4, <1>5 DEF EjecutarExit, EjecutarLlamada
<1>6. CASE AtenderInterrupcion
  <2>1. enCPU \in Procesos
    BY <1>6 DEF AtenderInterrupcion, TypeOK
  <2>2. QED BY <1>4, <1>6, <2>1, PIDs DEF AtenderInterrupcion
<1>7. QED BY <1>1, <1>3, <1>5, <1>6 DEF HiloDispatch

\* At the start there is no process.
LEMMA OrdenInicial == Init => Orden
<1> SUFFICES ASSUME Init PROVE Orden
  OBVIOUS
<1>1. /\ estado = [p \in Procesos |-> "SIN_CREAR"] /\ siguientePID = 0
      /\ colaNew = <<>> /\ colaReady = <<>> /\ colaExit = <<>> /\ hiloExit = Nadie
      /\ bloqueados = [r \in Recursos |-> <<>>]
      /\ colaIO = [i \in Interfaces |-> <<>>]
      /\ enServicio = [i \in Interfaces |-> Nadie]
      /\ saliente = Nadie /\ liberaCPU = FALSE
      /\ aCPU = <<>> /\ deCPU = <<>> /\ enCPU = Nadie
  BY DEF Init
<1>2. DelVuelo = {} /\ EnSalida = {} /\ \A f \in Filas : Esperas[f] = {}
  <2>1. DelVuelo = {} /\ EnSalida = {}
    BY <1>1, ColaVacia DEF DelVuelo, EnSalida
  <2>2. \A f \in Filas : Esperas[f] = {}
    BY <1>1, ColaVacia, Renglones
  <2>3. QED BY <2>1, <2>2
<1>3. SinCopias
  BY <1>1, ColaVacia DEF SinCopias
<1>4. SalientePosible /\ PIDsEnOrden
  BY <1>1 DEF SalientePosible, PIDsEnOrden, Procesos
<1>5. Ubicados(estado, ToSet(colaNew), ToSet(colaReady), Esperas, EnSalida, DelVuelo, saliente)
  BY <1>1, <1>2, ColaVacia DEF Ubicados
<1>6. QED BY <1>3, <1>4, <1>5 DEF Orden

\* Every PCB is in the one place its state names: the invariant behind what
\* follows, whatever the console does but finalising a process that is BLOCKED
\* or already in EXIT.
THEOREM OrdenSiempre ==
    ASSUME Finalizables \cap {"BLOCKED", "EXIT"} = {}
    PROVE  Spec => []Orden
<1>1. Orden /\ InvInductivo /\ [Next]_vars => Orden'
  <2> SUFFICES ASSUME Orden, InvInductivo, [Next]_vars
               PROVE  Orden'
    OBVIOUS
  <2>1. TypeOK /\ ExitContado /\ Turno /\ UnaCPU
    BY DEF InvInductivo
  <2>2. CASE UNCHANGED vars
    BY <2>2, OrdenIgual DEF vars
  <2>3. CASE Terminado
    BY <2>2, <2>3 DEF Terminado
  <2>4. QED BY <2>1, <2>2, <2>3, OrdenNew, OrdenRecibir, OrdenSalida, OrdenExit, OrdenIO,
      OrdenConsola, OrdenCPU DEF Next
<1>2. QED BY <1>1, OrdenInicial, InvInductivoSiempre, PTL DEF Spec

-------------------------------------------------------------------------------
(* What it means for each process *)

\* The PCBs that are out are processes.
LEMMA VueloTipo ==
    ASSUME TypeOK, Turno
    PROVE  DelVuelo \subseteq Procesos
<1>1. ToSet(aCPU) \subseteq Procesos
  BY Contenido DEF TypeOK
<1>2. \A k \in DOMAIN deCPU : deCPU[k].pid \in Procesos
  <2>1. \A k \in 1 .. Len(deCPU) :
          deCPU[k] \in [pid : Procesos, op : Operaciones, arg : Argumentos]
    BY ElementOfSeq DEF TypeOK
  <2>2. DOMAIN deCPU = 1 .. Len(deCPU)
    BY LenProperties DEF TypeOK
  <2>3. QED BY <2>1, <2>2
<1>3. /\ enCPU \in Procesos \cup {Nadie}
      /\ liberaCPU => saliente \in Procesos
  BY DEF TypeOK, Turno
<1>4. QED BY <1>1, <1>2, <1>3 DEF DelVuelo

\* The process in EXEC is the one that is out, whatever the console does but
\* finalising a process that is BLOCKED or already in EXIT.
THEOREM EjecutaElDelVueloSiempre ==
    ASSUME Finalizables \cap {"BLOCKED", "EXIT"} = {}
    PROVE  Spec => []EjecutaElDelVuelo
<1>1. Orden /\ InvInductivo => EjecutaElDelVuelo
  BY VueloTipo DEF Orden, Ubicados, InvInductivo, EjecutaElDelVuelo, EnEjecucion
<1>2. QED BY <1>1, OrdenSiempre, InvInductivoSiempre, PTL

\* A queue without repetitions has at most one place for each process.
LEMMA NoMasQueProcesos ==
    ASSUME NEW q \in Seq(Procesos), IsInjective(q)
    PROVE  Len(q) <= MaxProcesos
<1>1. MaxProcesos \in Nat
  BY ConstantesOK
<1>2. IsFiniteSet(Procesos) /\ Cardinality(Procesos) = MaxProcesos
  <2>1. /\ IsFiniteSet(0 .. (MaxProcesos - 1))
        /\ Cardinality(0 .. (MaxProcesos - 1)) =
              IF 0 > MaxProcesos - 1 THEN 0 ELSE (MaxProcesos - 1) - 0 + 1
    BY <1>1, FS_Interval
  <2>2. QED BY <1>1, <2>1 DEF Procesos
<1>3. ToSet(q) \subseteq Procesos
  BY Contenido
<1>4. Cardinality(ToSet(q)) <= Cardinality(Procesos)
  BY <1>2, <1>3, FS_Subset
<1>5. QED BY <1>2, <1>4, SinCopiasCuenta

\* A BLOCKED process waits in one place; the others, in none.
LEMMA UnaEspera ==
    ASSUME TypeOK, Orden, NEW p \in Procesos
    PROVE  Cardinality(EsperandoRecurso(p)) + Cardinality(EsperandoIO(p)) =
             IF estado[p] = "BLOCKED" /\ p # saliente THEN 1 ELSE 0
<1>1. /\ \A r \in Recursos : /\ bloqueados[r] \in Seq(Procesos)
                             /\ IsInjective(bloqueados[r])
      /\ \A i \in Interfaces : /\ colaIO[i] \in Seq(Procesos)
                               /\ IsInjective(colaIO[i])
                               /\ enServicio[i] \notin ToSet(colaIO[i])
      /\ EnUnaFila(Esperas, estado, saliente)
      /\ p # Nadie
  BY PorColas, PIDs DEF TypeOK, Orden, SinCopias
<1>2. \A r \in Recursos :
        /\ <<"recurso", r>> \in Filas
        /\ p \in Esperas[<<"recurso", r>>] <=>
             \E k \in 1 .. MaxProcesos : k \in Posiciones(bloqueados[r], p)
  <2> SUFFICES ASSUME NEW r \in Recursos
               PROVE  p \in ToSet(bloqueados[r]) <=>
                        \E k \in 1 .. MaxProcesos : k \in Posiciones(bloqueados[r], p)
    BY Renglones
  <2>1. /\ DOMAIN bloqueados[r] = 1 .. Len(bloqueados[r])
        /\ Len(bloqueados[r]) \in Nat /\ Len(bloqueados[r]) <= MaxProcesos
        /\ MaxProcesos \in Nat
        /\ p \in ToSet(bloqueados[r]) <=>
             \E k \in 1 .. Len(bloqueados[r]) : bloqueados[r][k] = p
    BY <1>1, LenProperties, Contenido, NoMasQueProcesos, ConstantesOK
  <2>2. 1 .. Len(bloqueados[r]) \subseteq 1 .. MaxProcesos
    BY <2>1
  <2>3. QED BY <2>1, <2>2 DEF Posiciones
<1>3. \A i \in Interfaces :
        /\ <<"interfaz", i>> \in Filas
        /\ p \in Esperas[<<"interfaz", i>>] <=>
             \/ enServicio[i] = p
             \/ \E k \in 1 .. MaxProcesos : k \in Posiciones(colaIO[i], p)
        /\ enServicio[i] = p => Posiciones(colaIO[i], p) = {}
        /\ 0 \notin Posiciones(colaIO[i], p)
  <2> SUFFICES ASSUME NEW i \in Interfaces
               PROVE  /\ p \in ToSet(colaIO[i]) <=>
                           \E k \in 1 .. MaxProcesos : k \in Posiciones(colaIO[i], p)
                      /\ enServicio[i] = p => Posiciones(colaIO[i], p) = {}
                      /\ 0 \notin Posiciones(colaIO[i], p)
    <3>1. \A i \in Interfaces :
            /\ <<"interfaz", i>> \in Filas
            /\ p \in Esperas[<<"interfaz", i>>] <=>
                 p \in ToSet(colaIO[i]) \/ enServicio[i] = p
      <4>1. ASSUME NEW j \in Interfaces
            PROVE  /\ <<"interfaz", j>> \in Filas
                   /\ p \in Esperas[<<"interfaz", j>>] <=>
                        p \in ToSet(colaIO[j]) \/ enServicio[j] = p
        <5>1. /\ <<"interfaz", j>> \in Filas
              /\ Esperas[<<"interfaz", j>>] = ToSet(colaIO[j]) \cup ({enServicio[j]} \ {Nadie})
          BY Renglones
        <5>2. p # Nadie
          BY <1>1
        <5>3. QED BY ONLY <5>1, <5>2
      <4>2. QED BY <4>1
    <3>2. QED BY <3>1, Zenon
  <2>1. /\ DOMAIN colaIO[i] = 1 .. Len(colaIO[i])
        /\ Len(colaIO[i]) \in Nat /\ Len(colaIO[i]) <= MaxProcesos
        /\ MaxProcesos \in Nat
        /\ p \in ToSet(colaIO[i]) <=> \E k \in 1 .. Len(colaIO[i]) : colaIO[i][k] = p
    BY <1>1, LenProperties, Contenido, NoMasQueProcesos, ConstantesOK
  <2>2. 1 .. Len(colaIO[i]) \subseteq 1 .. MaxProcesos /\ 0 \notin 1 .. Len(colaIO[i])
    BY <2>1
  <2>3. QED BY <1>1, <2>1, <2>2 DEF Posiciones
<1>4. /\ \A r \in Recursos : \A k, l : k \in Posiciones(bloqueados[r], p)
                                     /\ l \in Posiciones(bloqueados[r], p) => k = l
      /\ \A i \in Interfaces : \A k, l : k \in Posiciones(colaIO[i], p)
                                       /\ l \in Posiciones(colaIO[i], p) => k = l
  BY <1>1 DEF Posiciones, IsInjective
<1>5. ASSUME NEW r \in Recursos, p \in Esperas[<<"recurso", r>>]
      PROVE  /\ \E l : EsperandoRecurso(p) = {l}
             /\ EsperandoIO(p) = {}
  <2>1. \A f \in Filas : p \in Esperas[f] => f = <<"recurso", r>>
    BY <1>1, <1>2, <1>5 DEF EnUnaFila
  <2>2. /\ \A s \in Recursos : p \in Esperas[<<"recurso", s>>] => s = r
        /\ \A i \in Interfaces : p \notin Esperas[<<"interfaz", i>>]
    BY <1>2, <1>3, <2>1
  <2>3. PICK k \in 1 .. MaxProcesos : k \in Posiciones(bloqueados[r], p)
    BY <1>2, <1>5
  <2>4. EsperandoRecurso(p) = {<<r, k>>}
    <3>1. \A s \in Recursos, m \in 1 .. MaxProcesos :
            m \in Posiciones(bloqueados[s], p) => s = r /\ m = k
      BY <1>2, <1>4, <2>2, <2>3
    <3>2. QED BY <2>3, <3>1 DEF EsperandoRecurso
  <2>5. EsperandoIO(p) = {}
    <3>1. MaxProcesos \in Nat /\ \A k2 \in 0 .. MaxProcesos : k2 # 0 => k2 \in 1 .. MaxProcesos
      BY ConstantesOK
    <3>2. QED BY <1>3, <2>2, <3>1 DEF EsperandoIO
  <2>6. QED BY <2>4, <2>5
<1>6. ASSUME NEW i \in Interfaces, p \in Esperas[<<"interfaz", i>>]
      PROVE  /\ EsperandoRecurso(p) = {}
             /\ \E l : EsperandoIO(p) = {l}
  <2>1. \A f \in Filas : p \in Esperas[f] => f = <<"interfaz", i>>
    BY <1>1, <1>3, <1>6 DEF EnUnaFila
  <2>2. /\ \A j \in Interfaces : p \in Esperas[<<"interfaz", j>>] => j = i
        /\ \A r \in Recursos : p \notin Esperas[<<"recurso", r>>]
    BY <1>2, <1>3, <2>1
  <2>3. EsperandoRecurso(p) = {}
    BY <1>2, <2>2 DEF EsperandoRecurso
  <2>4. /\ MaxProcesos \in Nat /\ 0 \in 0 .. MaxProcesos
        /\ \A k \in 0 .. MaxProcesos : k # 0 => k \in 1 .. MaxProcesos
        /\ \A k \in 1 .. MaxProcesos : k # 0 /\ k \in 0 .. MaxProcesos
    BY ConstantesOK
  <2>5. PICK k \in 0 .. MaxProcesos :
          IF k = 0 THEN enServicio[i] = p ELSE k \in Posiciones(colaIO[i], p)
    BY <1>3, <1>6, <2>4
  <2>6. \A j \in Interfaces, m \in 0 .. MaxProcesos :
          (IF m = 0 THEN enServicio[j] = p ELSE m \in Posiciones(colaIO[j], p))
            => j = i /\ m = k
    BY <1>3, <1>4, <2>2, <2>4, <2>5
  <2>7. EsperandoIO(p) = {<<i, k>>}
    BY <2>5, <2>6 DEF EsperandoIO
  <2>8. QED BY <2>3, <2>7
<1>7. ASSUME \A f \in Filas : p \notin Esperas[f]
      PROVE  EsperandoRecurso(p) = {} /\ EsperandoIO(p) = {}
  <2>1. MaxProcesos \in Nat /\ \A k \in 0 .. MaxProcesos : k # 0 => k \in 1 .. MaxProcesos
    BY ConstantesOK
  <2>2. QED BY <1>2, <1>3, <1>7, <2>1 DEF EsperandoRecurso, EsperandoIO
<1>8. Cardinality({}) = 0 /\ \A l : Cardinality({l}) = 1
  BY FS_EmptySet, FS_Singleton
<1>9. CASE estado[p] = "BLOCKED" /\ p # saliente
  <2>1. PICK f \in Filas : p \in Esperas[f]
    BY <1>1, <1>9 DEF EnUnaFila
  <2>2. CASE \E r \in Recursos : f = <<"recurso", r>>
    <3>1. (\E l : EsperandoRecurso(p) = {l}) /\ EsperandoIO(p) = {}
      BY <1>5, <2>1, <2>2
    <3>2. Cardinality(EsperandoRecurso(p)) = 1 /\ Cardinality(EsperandoIO(p)) = 0
      BY <1>8, <3>1
    <3>3. QED BY <1>9, <3>2
  <2>3. CASE \E i \in Interfaces : f = <<"interfaz", i>>
    <3>1. EsperandoRecurso(p) = {} /\ \E l : EsperandoIO(p) = {l}
      BY <1>6, <2>1, <2>3
    <3>2. Cardinality(EsperandoRecurso(p)) = 0 /\ Cardinality(EsperandoIO(p)) = 1
      BY <1>8, <3>1
    <3>3. QED BY <1>9, <3>2
  <2>4. QED BY <2>2, <2>3, Renglones
<1>10. CASE ~ (estado[p] = "BLOCKED" /\ p # saliente)
  <2>1. \A f \in Filas : p \notin Esperas[f]
    BY <1>1, <1>10 DEF EnUnaFila
  <2>2. QED BY <1>7, <1>8, <1>10, <2>1
<1>11. QED BY <1>9, <1>10

\* A process waits in exactly one queue of the kernel, once, and it is the one
\* its state names.
THEOREM EnSuLugarSiempre ==
    ASSUME Finalizables \cap {"BLOCKED", "EXIT"} = {}
    PROVE  Spec => []EnSuLugar
<1>1. Orden /\ InvInductivo => EnSuLugar
  <2> SUFFICES ASSUME Orden, TypeOK, NEW p \in Procesos
               PROVE  Lugares(p) = [e \in {"NEW", "READY", "BLOCKED", "EXIT"} |->
                                      IF e = estado[p] /\ p # saliente THEN 1 ELSE 0]
    BY DEF InvInductivo, EnSuLugar
  <2>1. /\ colaNew \in Seq(Procesos) /\ colaReady \in Seq(Procesos)
        /\ colaExit \in Seq(Procesos) /\ SinCopias /\ p # Nadie
        /\ Ubicados(estado, ToSet(colaNew), ToSet(colaReady), Esperas, EnSalida,
                    DelVuelo, saliente)
    BY PIDs DEF TypeOK, Orden
  <2>2. /\ Cardinality(Posiciones(colaNew, p)) = IF p \in ToSet(colaNew) THEN 1 ELSE 0
        /\ Cardinality(Posiciones(colaReady, p)) = IF p \in ToSet(colaReady) THEN 1 ELSE 0
        /\ Cardinality(Posiciones(colaExit, p)) = IF p \in ToSet(colaExit) THEN 1 ELSE 0
    BY <2>1, SinCopiasCuenta DEF SinCopias
  <2>3. /\ p \in ToSet(colaNew) <=> estado[p] = "NEW" /\ p # saliente
        /\ p \in ToSet(colaReady) <=> estado[p] = "READY" /\ p # saliente
        /\ p \in ToSet(colaExit) \/ p = hiloExit <=> estado[p] = "EXIT" /\ p # saliente
        /\ ~ (p \in ToSet(colaExit) /\ p = hiloExit)
    BY <2>1 DEF Ubicados, EnSalida, SinCopias
  <2>4. /\ Cardinality(Posiciones(colaNew, p)) =
             IF estado[p] = "NEW" /\ p # saliente THEN 1 ELSE 0
        /\ Cardinality(Posiciones(colaReady, p)) =
             IF estado[p] = "READY" /\ p # saliente THEN 1 ELSE 0
        /\ Cardinality(Posiciones(colaExit, p)) + (IF hiloExit = p THEN 1 ELSE 0) =
             IF estado[p] = "EXIT" /\ p # saliente THEN 1 ELSE 0
    BY <2>2, <2>3
  <2>5. QED BY <2>4, UnaEspera DEF Lugares
<1>2. QED BY <1>1, OrdenSiempre, InvInductivoSiempre, PTL

===============================================================================
