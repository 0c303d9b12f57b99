------------------------------ MODULE DialFSProofs ------------------------------
(***************************************************************************)
(* What holds of the files of the DialFS interface for any number of       *)
(* files, blocks, sizes and requests.                                      *)
(***************************************************************************)
EXTENDS DialFS, FiniteSetTheorems, SequenceTheorems, WellFoundedInduction, TLAPS

USE DEF enMemoria, enDisco, locales, bloquesDat

-------------------------------------------------------------------------------
(* Numbers *)

\* A set of naturals that is not empty has a least element.
LEMMA HayMenor ==
    ASSUME NEW T \in SUBSET Nat, T # {}
    PROVE  \E x \in T : \A y \in T : x <= y
<1>1. \E x \in T : \A y \in T : ~ (<<y, x>> \in OpToRel(<, Nat))
  <2>1. IsWellFoundedOn(OpToRel(<, Nat), Nat)
    BY NatLessThanWellFounded
  <2>2. QED BY <2>1, WFMin
<1>2. PICK x \in T : \A y \in T : ~ (<<y, x>> \in OpToRel(<, Nat))
  BY <1>1
<1>3. \A y \in T : ~ (y < x)
  BY <1>2 DEF OpToRel
<1>4. QED BY <1>3

\* What is true of 0, and of each number after one of which it is true, is true
\* of all up to n.
LEMMA HastaN ==
    ASSUME NEW n \in Nat, NEW T, 0 \in T, \A k \in 0 .. n - 1 : k \in T => k + 1 \in T
    PROVE  \A k \in 0 .. n : k \in T
<1> DEFINE F == {k \in 0 .. n : k \notin T}
<1>1. SUFFICES ASSUME F # {} PROVE FALSE
  OBVIOUS
<1>2. F \in SUBSET Nat
  OBVIOUS
<1>3. PICK k \in F : \A j \in F : k <= j
  BY <1>1, <1>2, HayMenor
<1>4. k # 0 /\ k - 1 \in 0 .. n - 1
  OBVIOUS
<1>5. k - 1 \in T
  BY <1>3, <1>4
<1>6. (k - 1) + 1 = k
  OBVIOUS
<1>7. QED BY <1>4, <1>5, <1>6

\* How many blocks so many bytes take.
LEMMA Dividir == \A a, b \in Int : a <= b => a \div BlockSize <= b \div BlockSize
BY ConstantesOK, Z3

\* The blocks of a size: more for a larger one, none for 0 and some for any other.
LEMMA Bloques ==
    /\ \A t \in Nat : Necesarios(t) \in Nat
    /\ \A t, u \in Nat : t <= u => Necesarios(t) <= Necesarios(u)
    /\ Necesarios(0) = 0
    /\ \A t \in Nat : t > 0 => Necesarios(t) >= 1
<1>1. BlockSize \in Nat /\ BlockSize > 0
  BY ConstantesOK
<1>2. \A a \in Int : a \div BlockSize \in Int
  BY <1>1
<1>3. (BlockSize - 1) \div BlockSize = 0 /\ BlockSize \div BlockSize = 1
  BY <1>1
<1>4. \A t, u \in Nat : t <= u => Necesarios(t) <= Necesarios(u)
  <2>1. ASSUME NEW t \in Nat, NEW u \in Nat, t <= u
        PROVE  Necesarios(t) <= Necesarios(u)
    <3>1. t + BlockSize - 1 \in Int /\ u + BlockSize - 1 \in Int
          /\ t + BlockSize - 1 <= u + BlockSize - 1
      BY <1>1, <2>1
    <3>2. QED BY <3>1, Dividir DEF Necesarios
  <2>2. QED BY <2>1
<1>5. Necesarios(0) = 0
  <2>1. 0 + BlockSize - 1 = BlockSize - 1
    BY <1>1
  <2>2. QED BY <1>3, <2>1 DEF Necesarios
<1>6. Necesarios(1) = 1
  <2>1. 1 + BlockSize - 1 = BlockSize
    BY <1>1
  <2>2. QED BY <1>3, <2>1 DEF Necesarios
<1>7. \A t \in Nat : Necesarios(t) \in Int
  <2>1. \A t \in Nat : t + BlockSize - 1 \in Int
    BY <1>1
  <2>2. QED BY <1>2, <2>1 DEF Necesarios
<1>8. \A t \in Nat : Necesarios(t) >= 0 /\ (t > 0 => Necesarios(t) >= 1)
  <2>1. \A t \in Nat : 0 <= t /\ (t > 0 => 1 <= t)
    OBVIOUS
  <2>2. QED BY <1>4, <1>5, <1>6, <1>7, <2>1
<1>9. QED BY <1>4, <1>5, <1>7, <1>8

\* The blocks that an access touches are among those of the file.
LEMMA Tocados ==
    ASSUME NEW puntero \in Nat, NEW tamanio \in Nat \ {0}, NEW t \in Nat,
           puntero + tamanio <= t
    PROVE  /\ puntero \div BlockSize \in Nat
           /\ (puntero + tamanio - 1) \div BlockSize \in Int
           /\ (puntero + tamanio - 1) \div BlockSize < Necesarios(t)
<1>1. BlockSize \in Nat /\ BlockSize > 0
  BY ConstantesOK
<1>2. puntero \div BlockSize \in Nat /\ (puntero + tamanio - 1) \div BlockSize \in Int
      /\ (t - 1) \div BlockSize \in Int
  BY <1>1
<1>3. (puntero + tamanio - 1) \div BlockSize <= (t - 1) \div BlockSize
  <2>1. puntero + tamanio - 1 \in Int /\ t - 1 \in Int /\ puntero + tamanio - 1 <= t - 1
    OBVIOUS
  <2>2. QED BY <2>1, Dividir
<1>4. Necesarios(t) = (t - 1) \div BlockSize + 1
  <2>1. t + BlockSize - 1 = (t - 1) + BlockSize
    BY <1>1
  <2>2. ((t - 1) + BlockSize) \div BlockSize = (t - 1) \div BlockSize + 1
    BY <1>1
  <2>3. QED BY <2>1, <2>2 DEF Necesarios
<1>5. QED BY <1>2, <1>3, <1>4

\* No file of the sizes that programs ask for goes beyond the cells.
LEMMA Tope ==
    /\ MaxBloques \in Nat
    /\ \A t \in Tamanios \cup {0} : t \in Nat /\ Necesarios(t) <= MaxBloques
<1> DEFINE m == CHOOSE t \in Tamanios : \A u \in Tamanios : u <= t
<1>1. m \in Tamanios /\ \A u \in Tamanios : u <= m
  BY ConstantesOK
<1>2. m \in Nat /\ Tamanios \subseteq Nat /\ MaxBloques = Necesarios(m)
  BY <1>1, ConstantesOK DEF MaxBloques
<1> HIDE DEF m
<1>3. \A t \in Tamanios \cup {0} : t \in Nat /\ t <= m
  BY <1>1, <1>2
<1>4. QED BY <1>2, <1>3, Bloques

-------------------------------------------------------------------------------
(* mover_archivo *)

\* The turns of its loop.
LEMMA Movidos ==
    ASSUME NEW destino, NEW ini, NEW n \in Nat
    PROVE  \E g : /\ g[0] = AntesDeMover
                  /\ \A k \in 1 .. n : g[k] = MoverBloque(g[k - 1], ini + k - 1, destino + k - 1)
                  /\ MoverArchivo(destino, ini, n) = g[n]
<1> DEFINE Bucle(g, m) == g = [k \in 0 .. m |->
                                 IF k = 0 THEN {AntesDeMover}
                                 ELSE {MoverBloque(d, ini + k - 1, destino + k - 1) : d \in g[k - 1]}]
           T == {m \in Nat : \E g : Bucle(g, m)}
<1>1. 0 \in T
  <2>1. Bucle([k \in 0 .. 0 |-> {AntesDeMover}], 0)
    OBVIOUS
  <2>2. QED BY <2>1
<1>2. ASSUME NEW m \in 0 .. n - 1, m \in T
      PROVE  m + 1 \in T
  <2>1. PICK g : Bucle(g, m)
    BY <1>2
  <2> DEFINE sigue == {MoverBloque(d, ini + (m + 1) - 1, destino + (m + 1) - 1) : d \in g[m]}
             h == [k \in 0 .. m + 1 |-> IF k = m + 1 THEN sigue ELSE g[k]]
  <2>2. \A k \in 0 .. m : h[k] = g[k] /\ k \in 0 .. m + 1
    OBVIOUS
  <2>3. ASSUME NEW k \in 0 .. m + 1
        PROVE  h[k] = IF k = 0 THEN {AntesDeMover}
                      ELSE {MoverBloque(d, ini + k - 1, destino + k - 1) : d \in h[k - 1]}
    <3>1. CASE k = m + 1
      <4>1. k # 0 /\ k - 1 = m /\ h[k - 1] = g[m] /\ h[k] = sigue
        BY <2>2, <3>1
      <4>2. QED BY <3>1, <4>1
    <3>2. CASE k # m + 1
      <4>1. k \in 0 .. m /\ (k # 0 => k - 1 \in 0 .. m)
        BY <3>2
      <4>2. g[k] = IF k = 0 THEN {AntesDeMover}
                   ELSE {MoverBloque(d, ini + k - 1, destino + k - 1) : d \in g[k - 1]}
        BY <2>1, <4>1
      <4>3. QED BY <2>2, <4>1, <4>2
    <3>3. QED BY <3>1, <3>2
  <2>4. Bucle(h, m + 1)
    BY <2>3
  <2>5. m + 1 \in Nat
    OBVIOUS
  <2>6. QED BY <2>4, <2>5
<1>3. n \in T
  <2> HIDE DEF T
  <2>1. \A k \in 0 .. n : k \in T
    BY <1>1, <1>2, HastaN
  <2>2. QED BY <2>1
<1> DEFINE g == CHOOSE g : Bucle(g, n)
<1>4. Bucle(g, n)
  BY <1>3
<1>5. MoverArchivo(destino, ini, n) = CHOOSE d \in g[n] : TRUE
  BY DEF MoverArchivo
<1> HIDE DEF g
<1>6. g[0] = {AntesDeMover}
      /\ \A k \in 1 .. n :
            g[k] = {MoverBloque(d, ini + k - 1, destino + k - 1) : d \in g[k - 1]}
  <2>1. 0 \in 0 .. n /\ \A k \in 1 .. n : k \in 0 .. n /\ k # 0
    OBVIOUS
  <2>2. g[0] = {AntesDeMover}
    BY <1>4, <2>1
  <2>3. ASSUME NEW k \in 1 .. n
        PROVE  g[k] = {MoverBloque(d, ini + k - 1, destino + k - 1) : d \in g[k - 1]}
    BY <1>4, <2>1
  <2>4. QED BY <2>2, <2>3
\* each of these sets has one element
<1> DEFINE h == [k \in 0 .. n |-> CHOOSE d \in g[k] : TRUE]
           U == {k \in Nat : \E d : g[k] = {d}}
<1>7. 0 \in U
  BY <1>6
<1>8. ASSUME NEW k \in 0 .. n - 1, k \in U
      PROVE  k + 1 \in U
  <2>1. k + 1 \in 1 .. n /\ (k + 1) - 1 = k
    OBVIOUS
  <2>2. PICK d : g[k] = {d}
    BY <1>8
  <2>3. g[k + 1] = {MoverBloque(d, ini + (k + 1) - 1, destino + (k + 1) - 1)}
    BY <1>6, <2>1, <2>2
  <2>4. \E x : g[k + 1] = {x}
    BY <2>3
  <2>5. k + 1 \in Nat
    OBVIOUS
  <2>6. QED BY <2>4, <2>5
<1>9. \A k \in 0 .. n : \E d : g[k] = {d}
  <2>1. \A k \in 0 .. n : k \in U
    <3> HIDE DEF U
    <3>1. QED BY <1>7, <1>8, HastaN
  <2>2. QED BY <2>1
<1>10. \A k \in 0 .. n : g[k] = {h[k]}
  BY <1>9
<1> HIDE DEF h, U
<1>11. 0 \in 0 .. n /\ n \in 0 .. n /\ \A k \in 1 .. n : k \in 0 .. n /\ k - 1 \in 0 .. n
  OBVIOUS
<1>12. h[0] = AntesDeMover
  BY <1>6, <1>10, <1>11
<1>13. ASSUME NEW k \in 1 .. n
       PROVE  h[k] = MoverBloque(h[k - 1], ini + k - 1, destino + k - 1)
  BY <1>6, <1>10, <1>11
<1>14. MoverArchivo(destino, ini, n) = h[n]
  BY <1>5, <1>10, <1>11
<1>15. QED BY <1>12, <1>13, <1>14

\* Wherever it moves, no bit appears beyond the disk.
LEMMA MoverTipos ==
    ASSUME NEW destino \in Int, NEW ini, NEW n \in Nat, bitmap \subseteq Disco,
           DOMAIN contenido = Celdas, enteros \in Nat
    PROVE  LET d == MoverArchivo(destino, ini, n)
           IN  d.bits \subseteq Disco /\ DOMAIN d.datos = Celdas /\ d.enteros \in Nat
<1>1. PICK g : /\ g[0] = AntesDeMover
               /\ \A k \in 1 .. n : g[k] = MoverBloque(g[k - 1], ini + k - 1, destino + k - 1)
               /\ MoverArchivo(destino, ini, n) = g[n]
  BY Movidos
<1> DEFINE Bien(d) == d.bits \subseteq Disco /\ DOMAIN d.datos = Celdas /\ d.enteros \in Nat
           T == {k \in Nat : Bien(g[k])}
<1>2. 0 \in T
  <2>1. Bien(AntesDeMover)
    BY DEF AntesDeMover
  <2>2. QED BY <1>1, <2>1
<1>3. ASSUME NEW k \in 0 .. n - 1, k \in T
      PROVE  k + 1 \in T
  <2>1. k + 1 \in 1 .. n /\ (k + 1) - 1 = k /\ destino + (k + 1) - 1 \in Int
    OBVIOUS
  <2>2. g[k + 1] = MoverBloque(g[k], ini + (k + 1) - 1, destino + (k + 1) - 1)
    BY <1>1, <2>1
  <2>3. ASSUME NEW d, NEW x, NEW y \in Int, Bien(d)
        PROVE  Bien(MoverBloque(d, x, y))
    <3>1. MoverBloque(d, x, y).bits \subseteq Disco
      BY <2>3 DEF MoverBloque, Ocupar
    <3>2. DOMAIN MoverBloque(d, x, y).datos = Celdas
      BY <2>3 DEF MoverBloque
    <3>3. MoverBloque(d, x, y).enteros \in Nat
      BY <2>3 DEF MoverBloque, Mayor
    <3>4. QED BY <3>1, <3>2, <3>3
  <2>4. Bien(g[k])
    BY <1>3
  <2> HIDE DEF Bien
  <2>5. Bien(g[k + 1])
    BY <2>1, <2>2, <2>3, <2>4
  <2>6. QED BY <2>1, <2>5
<1>4. n \in T
  <2> HIDE DEF T
  <2>1. \A k \in 0 .. n : k \in T
    BY <1>2, <1>3, HastaN
  <2>2. QED BY <2>1
<1>5. QED BY <1>1, <1>4

\* n blocks from ini have gone to destino, and their bits with them: of what they
\* hold, as much as bloques.dat had whole.
Movido(d, destino, ini, n) ==
    /\ d.bits = (bitmap \ (ini .. ini + n - 1)) \cup ((destino .. destino + n - 1) \cap Disco)
    /\ \A k \in 0 .. n - 1 : ini + k < enteros => d.datos[destino + k] = contenido[ini + k]
    /\ \A b \in Celdas \ (destino .. destino + n - 1) : d.datos[b] = contenido[b]

\* Towards a lower block, or to where it does not meet itself, nothing that is
\* still to be read is overwritten.
LEMMA MoverBien ==
    ASSUME NEW destino \in Nat, NEW ini \in Nat, NEW n \in Nat, DOMAIN contenido = Celdas,
           enteros \in Nat,
           destino < ini \/ ini + n <= destino,
           ini .. ini + n - 1 \subseteq Celdas, destino .. destino + n - 1 \subseteq Celdas
    PROVE  Movido(MoverArchivo(destino, ini, n), destino, ini, n)
<1>1. PICK g : /\ g[0] = AntesDeMover
               /\ \A k \in 1 .. n : g[k] = MoverBloque(g[k - 1], ini + k - 1, destino + k - 1)
               /\ MoverArchivo(destino, ini, n) = g[n]
  BY Movidos
<1> DEFINE Bits(k) == g[k].bits = (bitmap \ (ini .. ini + k - 1))
                                    \cup ((destino .. destino + k - 1) \cap Disco)
           Datos(k) == /\ DOMAIN g[k].datos = Celdas
                       /\ g[k].enteros \in Nat /\ g[k].enteros >= enteros
                       /\ \A j \in 0 .. k - 1 :
                            ini + j < enteros => g[k].datos[destino + j] = contenido[ini + j]
                       /\ \A b \in Celdas \ (destino .. destino + k - 1) :
                            g[k].datos[b] = contenido[b]
           T == {k \in Nat : Bits(k) /\ Datos(k)}
<1>2. 0 \in T
  <2>1. Bits(0)
    BY <1>1 DEF AntesDeMover
  <2>2. Datos(0)
    BY <1>1 DEF AntesDeMover
  <2>3. QED BY <2>1, <2>2
<1>3. ASSUME NEW k \in 0 .. n - 1, k \in T
      PROVE  k + 1 \in T
  <2>1. /\ k + 1 \in 1 .. n /\ (k + 1) - 1 = k
        /\ ini + (k + 1) - 1 = ini + k /\ destino + (k + 1) - 1 = destino + k
        /\ ini + k \in Nat /\ destino + k \in Nat
    OBVIOUS
  <2>2. g[k + 1] = MoverBloque(g[k], ini + k, destino + k)
    <3>1. g[k + 1] = MoverBloque(g[(k + 1) - 1], ini + (k + 1) - 1, destino + (k + 1) - 1)
      BY <1>1, <2>1
    <3>2. QED BY <2>1, <3>1
  <2>3. /\ g[k + 1].bits = Ocupar(g[k].bits \ {ini + k}, {destino + k})
        /\ g[k + 1].datos = IF ini + k < g[k].enteros
                            THEN [g[k].datos EXCEPT ![destino + k] = g[k].datos[ini + k]]
                            ELSE g[k].datos
        /\ g[k + 1].enteros = IF ini + k < g[k].enteros
                              THEN Mayor(g[k].enteros, destino + k + 1) ELSE g[k].enteros
    BY <2>1, <2>2 DEF MoverBloque
  <2>4. Bits(k) /\ Datos(k)
    BY <1>3
  <2>5. Bits(k + 1)
    <3>1. \A b : b \in ini .. ini + (k + 1) - 1 <=> b \in ini .. ini + k - 1 \/ b = ini + k
      OBVIOUS
    <3>2. \A b : b \in destino .. destino + (k + 1) - 1 <=>
                    b \in destino .. destino + k - 1 \/ b = destino + k
      OBVIOUS
    <3>3. ini + k \notin destino .. destino + k - 1
      OBVIOUS
    <3>4. QED BY <2>3, <2>4, <3>1, <3>2, <3>3 DEF Ocupar
  <2>6. Datos(k + 1)
    <3>1. destino + k \in Celdas /\ ini + k \in Celdas
      <4>1. destino + k \in destino .. destino + n - 1 /\ ini + k \in ini .. ini + n - 1
        OBVIOUS
      <4>2. QED BY <4>1
    <3>2. DOMAIN g[k + 1].datos = Celdas
      BY <2>3, <2>4
    <3>9. g[k + 1].enteros \in Nat /\ g[k + 1].enteros >= enteros
      BY <2>1, <2>3, <2>4 DEF Mayor
    <3>3. g[k].datos[ini + k] = contenido[ini + k]
      <4>1. ini + k \notin destino .. destino + k - 1
        OBVIOUS
      <4>2. QED BY <2>4, <3>1, <4>1
    <3>4. ini + k < enteros => g[k + 1].datos[destino + k] = contenido[ini + k]
      BY <2>1, <2>3, <2>4, <3>1, <3>3
    <3>5. \A b \in Celdas : b # destino + k => g[k + 1].datos[b] = g[k].datos[b]
      BY <2>3, <2>4
    <3>6. ASSUME NEW j \in 0 .. (k + 1) - 1
          PROVE  ini + j < enteros => g[k + 1].datos[destino + j] = contenido[ini + j]
      <4>1. CASE j = k
        BY <3>4, <4>1
      <4>2. CASE j # k
        <5>1. j \in 0 .. k - 1 /\ destino + j # destino + k
              /\ destino + j \in destino .. destino + n - 1
          BY <4>2
        <5>2. ini + j < enteros => g[k].datos[destino + j] = contenido[ini + j]
          BY <2>4, <5>1
        <5>3. QED BY <3>5, <5>1, <5>2
      <4>3. QED BY <4>1, <4>2
    <3>7. ASSUME NEW b \in Celdas \ (destino .. destino + (k + 1) - 1)
          PROVE  g[k + 1].datos[b] = contenido[b]
      <4>1. b # destino + k /\ b \notin destino .. destino + k - 1
        <5>1. b \in Int
          BY DEF Celdas
        <5>2. QED BY <5>1
      <4>2. QED BY <2>4, <3>5, <4>1
    <3>8. QED BY <3>2, <3>6, <3>7, <3>9
  <2>7. QED BY <2>1, <2>5, <2>6
<1>4. n \in T
  <2> HIDE DEF T
  <2>1. \A k \in 0 .. n : k \in T
    BY <1>2, <1>3, HastaN
  <2>2. QED BY <2>1
<1>5. Bits(n) /\ Datos(n)
  BY <1>4
<1>6. QED BY <1>1, <1>5 DEF Movido

-------------------------------------------------------------------------------
(* eliminar_archivo_de_lista *)

Palabra == [nombre : Archivos, espacio : BOOLEAN]

\* The words that stay are words that were there, in the same order.
LEMMA Quedan ==
    ASSUME NEW f, lista \in Seq(Palabra)
    PROVE  \E resto \in Seq(Palabra) :
              /\ EliminarDeLista(f) = IF resto = <<>> THEN resto
                                      ELSE [resto EXCEPT ![Len(resto)].espacio = FALSE]
              /\ \A k \in 1 .. Len(lista) :
                    lista[k] # [nombre |-> f, espacio |-> TRUE] =>
                        \E j \in 1 .. Len(resto) : resto[j] = lista[k]
              /\ \A j \in 1 .. Len(resto) : \E k \in 1 .. Len(lista) :
                    /\ resto[j] = lista[k] /\ lista[k] # [nombre |-> f, espacio |-> TRUE]
                    /\ j < Len(resto) => k < Len(lista)
<1> DEFINE n == Len(lista)
           e == [nombre |-> f, espacio |-> TRUE]
           Bucle(g, m) == g = [k \in 0 .. m |->
                                 IF k = 0 THEN <<>>
                                 ELSE IF lista[k] = e THEN g[k - 1]
                                 ELSE Append(g[k - 1], lista[k])]
           T == {m \in Nat : \E g : Bucle(g, m)}
<1>0. n \in Nat /\ \A k \in 1 .. n : lista[k] \in Palabra
  BY LenProperties, ElementOfSeq
<1> HIDE DEF n
<1>1. 0 \in T
  <2>1. Bucle([k \in 0 .. 0 |-> <<>>], 0)
    OBVIOUS
  <2>2. QED BY <2>1
<1>2. ASSUME NEW m \in 0 .. n - 1, m \in T
      PROVE  m + 1 \in T
  <2>1. PICK g : Bucle(g, m)
    BY <1>2
  <2> DEFINE sigue == IF lista[m + 1] = e THEN g[m] ELSE Append(g[m], lista[m + 1])
  <2> HIDE DEF e
  <2> DEFINE h == [k \in 0 .. m + 1 |-> IF k = m + 1 THEN sigue ELSE g[k]]
  <2>0. m \in Nat /\ m + 1 \in Nat
    BY <1>0
  <2>2. \A k \in 0 .. m : h[k] = g[k] /\ k \in 0 .. m + 1
    BY <2>0
  <2>3. ASSUME NEW k \in 0 .. m + 1
        PROVE  h[k] = IF k = 0 THEN <<>>
                      ELSE IF lista[k] = e THEN h[k - 1]
                      ELSE Append(h[k - 1], lista[k])
    <3>1. CASE k = m + 1
      <4>1. k # 0 /\ k - 1 = m /\ h[k - 1] = g[m]
        BY <2>0, <2>2, <3>1
      <4>2. h[k] = sigue
        BY <3>1
      <4>3. QED BY <3>1, <4>1, <4>2
    <3>2. CASE k # m + 1
      <4>1. k \in 0 .. m /\ (k # 0 => k - 1 \in 0 .. m)
        BY <2>0, <3>2
      <4>2. g[k] = IF k = 0 THEN <<>>
                   ELSE IF lista[k] = e THEN g[k - 1]
                   ELSE Append(g[k - 1], lista[k])
        BY <2>1, <4>1
      <4>3. QED BY <2>2, <4>1, <4>2
    <3>3. QED BY <3>1, <3>2
  <2>4. Bucle(h, m + 1)
    BY <2>3
  <2>5. QED BY <2>0, <2>4
<1>3. n \in T
  <2> HIDE DEF T
  <2>1. \A k \in 0 .. n : k \in T
    BY <1>0, <1>1, <1>2, HastaN
  <2>2. QED BY <1>0, <2>1
<1> DEFINE g == CHOOSE g : Bucle(g, n)
           resto == g[n]
<1>4. Bucle(g, n)
  BY <1>3
<1>5. EliminarDeLista(f) = IF resto = <<>> THEN resto
                           ELSE [resto EXCEPT ![Len(resto)].espacio = FALSE]
  BY DEF EliminarDeLista, n
<1> HIDE DEF g
<1>6. /\ g[0] = <<>>
      /\ \A k \in 1 .. n : g[k] = IF lista[k] = e THEN g[k - 1] ELSE Append(g[k - 1], lista[k])
  <2> HIDE DEF e
  <2>1. 0 \in 0 .. n /\ \A k \in 1 .. n : k \in 0 .. n /\ k # 0
    BY <1>0
  <2>2. g[0] = <<>>
    BY <1>4, <2>1
  <2>3. ASSUME NEW k \in 1 .. n
        PROVE  g[k] = IF lista[k] = e THEN g[k - 1] ELSE Append(g[k - 1], lista[k])
    BY <1>4, <2>1
  <2>4. QED BY <2>2, <2>3
<1> DEFINE Bien(m) == /\ g[m] \in Seq(Palabra)
                      /\ \A k \in 1 .. m : lista[k] # e =>
                            \E j \in 1 .. Len(g[m]) : g[m][j] = lista[k]
                      /\ \A j \in 1 .. Len(g[m]) : \E k \in 1 .. m :
                            /\ g[m][j] = lista[k] /\ lista[k] # e
                            /\ j < Len(g[m]) => k < m
           U == {m \in Nat : Bien(m)}
<1> HIDE DEF e
<1>7. 0 \in U
  <2>1. Bien(0)
    BY <1>6
  <2>2. QED BY <2>1
<1>8. ASSUME NEW m \in 0 .. n - 1, m \in U
      PROVE  m + 1 \in U
  <2>1. m \in Nat /\ m + 1 \in 1 .. n /\ (m + 1) - 1 = m /\ Bien(m)
    <3>1. Bien(m)
      BY <1>8
    <3> HIDE DEF Bien
    <3>2. QED BY <1>0, <3>1
  <2>2. g[m + 1] = IF lista[m + 1] = e THEN g[m] ELSE Append(g[m], lista[m + 1])
    BY <1>6, <2>1
  <2>3. CASE lista[m + 1] = e
    <3>1. g[m + 1] = g[m]
      BY <2>2, <2>3
    <3>2. \A k \in 1 .. m + 1 : lista[k] # e => k \in 1 .. m
      BY <2>1, <2>3
    <3>3. \A k \in 1 .. m : k \in 1 .. m + 1 /\ k < m + 1
      BY <2>1
    <3>4. Bien(m + 1)
      BY <2>1, <3>1, <3>2, <3>3
    <3>5. QED BY <2>1, <3>4
  <2>4. CASE lista[m + 1] # e
    <3> DEFINE s == g[m]
               x == lista[m + 1]
               a == Append(s, x)
    <3>1. g[m + 1] = a /\ s \in Seq(Palabra) /\ x \in Palabra
      BY <1>0, <2>1, <2>2, <2>4
    <3>2. /\ a \in Seq(Palabra) /\ Len(s) \in Nat /\ Len(a) = Len(s) + 1
          /\ \A j \in 1 .. Len(s) : a[j] = s[j]
          /\ a[Len(s) + 1] = x
      BY <3>1, AppendProperties, LenProperties
    <3>3. /\ \A k \in 1 .. m : lista[k] # e => \E j \in 1 .. Len(s) : s[j] = lista[k]
          /\ \A j \in 1 .. Len(s) : \E k \in 1 .. m : s[j] = lista[k] /\ lista[k] # e
      BY <2>1
    <3> HIDE DEF a, s, x
    <3>4. PICK l \in Nat : l = Len(s)
      BY <3>2
    <3>5. ASSUME NEW k \in 1 .. m + 1, lista[k] # e
          PROVE  \E j \in 1 .. l + 1 : a[j] = lista[k]
      <4>1. CASE k = m + 1
        BY <3>2, <3>4, <4>1 DEF x
      <4>2. CASE k # m + 1
        <5>1. k \in 1 .. m
          BY <2>1, <4>2
        <5>2. PICK j \in 1 .. l : s[j] = lista[k]
          BY <3>3, <3>4, <3>5, <5>1
        <5>3. j \in 1 .. l + 1
          OBVIOUS
        <5>4. QED BY <3>2, <3>4, <5>2, <5>3
      <4>3. QED BY <4>1, <4>2
    <3>6. ASSUME NEW j \in 1 .. l + 1
          PROVE  \E k \in 1 .. m + 1 : a[j] = lista[k] /\ lista[k] # e /\ (j < l + 1 => k < m + 1)
      <4>1. CASE j = l + 1
        BY <2>1, <2>4, <3>2, <3>4, <4>1 DEF x
      <4>2. CASE j # l + 1
        <5>1. j \in 1 .. l
          BY <4>2
        <5>2. PICK k \in 1 .. m : s[j] = lista[k] /\ lista[k] # e
          BY <3>3, <3>4, <5>1
        <5>3. k \in 1 .. m + 1 /\ k < m + 1
          BY <2>1
        <5>4. QED BY <3>2, <3>4, <5>1, <5>2, <5>3
      <4>3. QED BY <4>1, <4>2
    <3>7. Len(a) = l + 1
      BY <3>2, <3>4
    <3>8. Bien(m + 1)
      BY <3>1, <3>2, <3>5, <3>6, <3>7
    <3>9. QED BY <2>1, <3>8
  <2>5. QED BY <2>3, <2>4
<1>9. Bien(n)
  <2> HIDE DEF U
  <2>1. \A m \in 0 .. n : m \in U
    BY <1>0, <1>7, <1>8, HastaN
  <2>2. n \in U
    BY <1>0, <2>1
  <2>3. QED BY <2>2 DEF U
<1>10. QED BY <1>5, <1>9 DEF n, e

-------------------------------------------------------------------------------
(* The searches *)

\* encontrar_bloque_libre
LEMMA BloqueLibre ==
    LET b == EncontrarBloqueLibre
    IN  /\ b \in -1 .. BlockCount - 1
        /\ b # -1 => b \in Disco \ bitmap
<1>0. BlockCount \in Nat /\ BlockCount > 0
  BY ConstantesOK
<1>1. CASE Disco \subseteq bitmap
  BY <1>0, <1>1 DEF EncontrarBloqueLibre
<1>2. CASE ~(Disco \subseteq bitmap)
  <2> DEFINE L == Disco \ bitmap
  <2>1. L \in SUBSET Nat /\ L # {}
    BY <1>0, <1>2 DEF Disco
  <2> HIDE DEF L
  <2>2. \E x \in L : \A y \in L : x <= y
    BY <2>1, HayMenor
  <2>3. (CHOOSE b \in L : \A c \in L : b <= c) \in L
    BY <2>2
  <2>4. EncontrarBloqueLibre \in L
    BY <1>2, <2>3 DEF EncontrarBloqueLibre, L
  <2>5. L \subseteq 0 .. BlockCount - 1
    BY DEF L, Disco
  <2>6. QED BY <1>0, <2>4, <2>5 DEF L
<1>3. QED BY <1>1, <1>2

\* existeEspacioContiguo
LEMMA Hueco ==
    ASSUME NEW n \in Nat, ExisteEspacioContiguo(n) # 0
    PROVE  LET b == ExisteEspacioContiguo(n)
           IN  b \in Disco /\ b + n <= BlockCount /\ (b .. b + n - 1) \cap bitmap = {}
<1> DEFINE H == {b \in Disco : b + n <= BlockCount /\ (b .. b + n - 1) \cap bitmap = {}}
<1>1. H # {} /\ ExisteEspacioContiguo(n) = CHOOSE b \in H : \A c \in H : b <= c
  BY DEF ExisteEspacioContiguo
<1>2. H \in SUBSET Nat
  BY ConstantesOK DEF Disco
<1>3. ExisteEspacioContiguo(n) \in H
  <2> HIDE DEF H
  <2>1. \E x \in H : \A y \in H : x <= y
    BY <1>1, <1>2, HayMenor
  <2>2. QED BY <1>1, <2>1
<1>4. QED BY <1>3

\* The search of compactar_fs for the next free block.
LEMMA Siguiente ==
    ASSUME NEW bits, NEW desde \in -1 .. BlockCount, NEW h \in SiguienteLibre(bits, desde)
    PROVE  /\ h \in -1 .. BlockCount
           /\ desde # -1 => /\ h >= 0
                            /\ h < BlockCount => h \in Disco \ bits /\ h >= desde
<1> DEFINE L == {b \in Disco \ bits : b >= desde}
           x == IF L = {} THEN BlockCount ELSE CHOOSE b \in L : \A c \in L : b <= c
<1>0. BlockCount \in Nat
  BY ConstantesOK
<1>1. h \in IF desde = -1 THEN {-1, x} ELSE {x}
  BY DEF SiguienteLibre
<1>2. L \in SUBSET Nat /\ L \subseteq Disco \ bits /\ \A b \in L : b >= desde
  BY <1>0 DEF Disco
<1>3. L # {} => x \in L
  <2> HIDE DEF L
  <2>1. L # {} => \E b \in L : \A c \in L : b <= c
    BY <1>2, HayMenor
  <2>2. QED BY <2>1
<1>4. L = {} => x = BlockCount
  OBVIOUS
<1> HIDE DEF x, L
<1>5. x \in Nat /\ x <= BlockCount /\ (x < BlockCount => x \in Disco \ bits /\ x >= desde)
  <2>1. \A b \in Disco : b \in Nat /\ b <= BlockCount
    BY <1>0 DEF Disco
  <2>2. CASE L = {}
    BY <1>0, <1>4, <2>2
  <2>3. CASE L # {}
    <3>1. x \in Disco \ bits /\ x >= desde
      BY <1>2, <1>3, <2>3
    <3>2. QED BY <2>1, <3>1
  <2>4. QED BY <2>2, <2>3
<1>6. QED BY <1>0, <1>1, <1>5

\* encontrar_archivo_por_bloque, that takes the block after the last for one of
\* the file.
Alcanza(f, b) == b \in metadata[f].ini .. metadata[f].ini + Necesarios(metadata[f].tam)

\* What the search stops at, and what it has seen when it ends without stopping.
LEMMA PorBloque ==
    ASSUME NEW b, Len(lista) \in Nat
    PROVE  LET k == EncontrarArchivoPorBloque(b)
           IN  /\ k \in 0 .. Len(lista)
               /\ k # 0 => Ilegible(k) \/ Alcanza(lista[k].nombre, b)
               /\ k = 0 => \A l \in 1 .. Len(lista) : ~Alcanza(lista[l].nombre, b)
<1> DEFINE P == {k \in 1 .. Len(lista) : Ilegible(k) \/ Alcanza(lista[k].nombre, b)}
           k == EncontrarArchivoPorBloque(b)
<1>1. k = IF P = {} THEN 0 ELSE CHOOSE x \in P : \A y \in P : x <= y
  BY DEF EncontrarArchivoPorBloque, Alcanza
<1>2. P \in SUBSET Nat /\ 0 \notin P /\ P \subseteq 1 .. Len(lista)
  OBVIOUS
<1>3. P # {} => k \in P
  <2> HIDE DEF P, k
  <2>1. P # {} => \E x \in P : \A y \in P : x <= y
    BY <1>2, HayMenor
  <2>2. QED BY <1>1, <2>1
<1>4. P = {} => k = 0
  BY <1>1
<1> HIDE DEF k
<1>5. P = {} => \A l \in 1 .. Len(lista) : ~Alcanza(lista[l].nombre, b)
  OBVIOUS
<1>6. P # {} => k \in 1 .. Len(lista) /\ (Ilegible(k) \/ Alcanza(lista[k].nombre, b))
  BY <1>3
<1> HIDE DEF P
<1>7. 0 \in 0 .. Len(lista) /\ \A l \in 1 .. Len(lista) : l \in 0 .. Len(lista) /\ l # 0
  OBVIOUS
<1>8. /\ k \in 0 .. Len(lista)
      /\ k # 0 => Ilegible(k) \/ Alcanza(lista[k].nombre, b)
      /\ k = 0 => \A l \in 1 .. Len(lista) : ~Alcanza(lista[l].nombre, b)
  BY <1>4, <1>5, <1>6, <1>7
<1>9. QED BY <1>8 DEF k

-------------------------------------------------------------------------------
(* The files *)

\* What the metadata file of f says.
LEMMA Metadatos ==
    ASSUME TypeOK, NEW f \in DOMAIN metadata
    PROVE  /\ f \in Archivos
           /\ metadata[f].ini \in -1 .. BlockCount - 1
           /\ metadata[f].tam \in Tamanios \cup {0} /\ metadata[f].tam \in Nat
           /\ Necesarios(metadata[f].tam) \in Nat /\ Ocupa(f) \in Nat
           /\ Ocupa(f) >= 1 /\ Ocupa(f) >= Necesarios(metadata[f].tam)
           /\ metadata[f].tam # 0 => Ocupa(f) = Necesarios(metadata[f].tam)
           /\ Ocupa(f) <= MaxBloques + 1
<1>1. /\ f \in Archivos /\ metadata[f].ini \in -1 .. BlockCount - 1
      /\ metadata[f].tam \in Tamanios \cup {0}
  BY DEF TypeOK
<1>2. metadata[f].tam \in Nat /\ Necesarios(metadata[f].tam) <= MaxBloques /\ MaxBloques \in Nat
  BY <1>1, Tope
<1>3. PICK n \in Nat : n = Necesarios(metadata[f].tam)
  BY <1>2, Bloques
<1>4. metadata[f].tam # 0 => n >= 1
  BY <1>2, <1>3, Bloques
<1>5. Ocupa(f) = IF 1 > n THEN 1 ELSE n
  BY <1>3 DEF Ocupa, Mayor
<1>6. QED BY <1>1, <1>2, <1>3, <1>4, <1>5

\* The blocks of a file are cells of bloques.dat.
LEMMA EnCeldas ==
    ASSUME TypeOK, NEW f \in DOMAIN metadata, metadata[f].ini >= 0
    PROVE  BloquesDe(f) \subseteq Celdas
<1>1. BlockCount \in Nat /\ MaxBloques \in Nat
  BY ConstantesOK, Tope
<1>2. PICK a \in Int, n \in Nat : /\ a = metadata[f].ini /\ n = Ocupa(f)
                                  /\ a < BlockCount /\ n <= MaxBloques + 1
  BY <1>1, Metadatos
<1>3. a >= 0
  BY <1>2
<1>4. a .. a + n - 1 \subseteq 0 .. BlockCount + MaxBloques
  BY <1>1, <1>2, <1>3
<1>5. QED BY <1>2, <1>4 DEF BloquesDe, Celdas

\* crear_metadata and actualizar_metadata
LEMMA GuardadoBien ==
    ASSUME TypeOK, NEW f \in Archivos, NEW a \in -1 .. BlockCount - 1, NEW t \in Tamanios \cup {0},
           metadata' = Guardado(f, a, t)
    PROVE  /\ DOMAIN metadata' = DOMAIN metadata \cup {f}
           /\ metadata'[f].ini = a /\ metadata'[f].tam = t
           /\ \A g \in DOMAIN metadata : g # f => metadata'[g] = metadata[g]
           /\ DOMAIN metadata' \subseteq Archivos
           /\ \A g \in DOMAIN metadata' :
                metadata'[g] \in [ini : -1 .. BlockCount - 1, tam : Tamanios \cup {0}]
<1>1. /\ DOMAIN metadata' = DOMAIN metadata \cup {f}
      /\ metadata'[f] = [ini |-> a, tam |-> t]
      /\ \A g \in DOMAIN metadata : g # f => metadata'[g] = metadata[g]
  BY DEF Guardado
<1>2. DOMAIN metadata \subseteq Archivos
      /\ \A g \in DOMAIN metadata :
            metadata[g] \in [ini : -1 .. BlockCount - 1, tam : Tamanios \cup {0}]
  BY DEF TypeOK
<1>3. QED BY <1>1, <1>2

-------------------------------------------------------------------------------
(* Types, what is saved and the list of files *)

EnLista == DOMAIN metadata \subseteq {lista[k].nombre : k \in 1 .. Len(lista)}
Base == TypeOK /\ LoGuardado /\ EnCompactacion /\ ListaExacta /\ EnLista

\* eliminar_archivo_de_lista: the list l is this one without the words that are f with its space; only the
\* last word may lose its own.
Sin(f, l) ==
    /\ l \in Seq(Palabra)
    /\ \A k \in 1 .. Len(lista) :
        lista[k] # [nombre |-> f, espacio |-> TRUE] =>
            \E j \in 1 .. Len(l) : l[j].nombre = lista[k].nombre
    /\ \A j \in 1 .. Len(l) : \E k \in 1 .. Len(lista) :
        /\ l[j].nombre = lista[k].nombre /\ lista[k] # [nombre |-> f, espacio |-> TRUE]
        /\ j < Len(l) => k < Len(lista) /\ l[j].espacio = lista[k].espacio

\* eliminar_archivo_de_lista takes those words away, and no other.
LEMMA ListaSin ==
    ASSUME NEW f, NEW l, l = EliminarDeLista(f), lista \in Seq(Palabra)
    PROVE  Sin(f, l)
<1> DEFINE e == [nombre |-> f, espacio |-> TRUE]
<1>1. PICK resto \in Seq(Palabra) :
        /\ l = IF resto = <<>> THEN resto
               ELSE [resto EXCEPT ![Len(resto)].espacio = FALSE]
        /\ \A k \in 1 .. Len(lista) :
              lista[k] # e => \E j \in 1 .. Len(resto) : resto[j] = lista[k]
        /\ \A j \in 1 .. Len(resto) : \E k \in 1 .. Len(lista) :
              resto[j] = lista[k] /\ lista[k] # e /\ (j < Len(resto) => k < Len(lista))
  BY Quedan
<1> HIDE DEF e
<1>2. CASE resto = <<>>
  <2>1. l = resto
    BY <1>1, <1>2
  <2>2. \A j \in 1 .. Len(resto) : FALSE
    BY <1>2
  <2>3. QED BY <1>1, <2>1, <2>2 DEF e, Sin
<1>3. CASE resto # <<>>
  <2>1. PICK n \in Nat : n = Len(resto) /\ n # 0
    BY <1>3, LenProperties, EmptySeq
  <2>2. resto \in [1 .. n -> Palabra]
    BY <2>1, LenProperties
  <2>3. l = [resto EXCEPT ![n].espacio = FALSE]
    BY <1>1, <1>3, <2>1
  <2>4. n \in 1 .. n
    BY <2>1
  <2>5. [resto[n] EXCEPT !.espacio = FALSE] \in Palabra
        /\ [resto[n] EXCEPT !.espacio = FALSE].nombre = resto[n].nombre
    <3>1. PICK w \in Palabra : w = resto[n]
      BY <2>2, <2>4
    <3>2. QED BY <3>1 DEF Palabra
  <2>6. l \in [1 .. n -> Palabra]
    BY <2>2, <2>3, <2>4, <2>5
  <2>7. l \in Seq(Palabra) /\ Len(l) = n
    BY <2>6, <2>1, SeqDef, LenProperties
  <2>8. \A j \in 1 .. n : l[j].nombre = resto[j].nombre /\ (j # n => l[j] = resto[j])
    BY <2>2, <2>3, <2>5
  <2>9. ASSUME NEW k \in 1 .. Len(lista), lista[k] # e
        PROVE  \E j \in 1 .. n : l[j].nombre = lista[k].nombre
    <3>1. PICK j \in 1 .. n : resto[j] = lista[k]
      BY <1>1, <2>1, <2>9
    <3>2. QED BY <2>8, <3>1
  <2>10. ASSUME NEW j \in 1 .. n
         PROVE  \E k \in 1 .. Len(lista) :
                    /\ l[j].nombre = lista[k].nombre /\ lista[k] # e
                    /\ j < n => k < Len(lista) /\ l[j].espacio = lista[k].espacio
    <3>1. PICK k \in 1 .. Len(lista) :
              resto[j] = lista[k] /\ lista[k] # e /\ (j < n => k < Len(lista))
      BY <1>1, <2>1
    <3>2. j < n => j # n
      BY <2>1
    <3>3. QED BY <2>8, <3>1, <3>2
  <2>11. QED BY <2>7, <2>9, <2>10 DEF e, Sin
<1>4. QED BY <1>2, <1>3

\* What leaves the list and the names of the files alone.
LEMMA ListaIgual ==
    ASSUME ListaExacta, EnLista, lista' = lista, DOMAIN metadata' = DOMAIN metadata,
           incidentes \subseteq incidentes'
    PROVE  ListaExacta' /\ EnLista'
<1>1. SinNada({"lista"})' => SinNada({"lista"})
  BY DEF SinNada
<1>2. \A k : Ilegible(k)' <=> Ilegible(k)
  BY DEF Ilegible, Existe
<1>3. QED BY <1>1, <1>2 DEF ListaExacta, EnLista

\* A request, which nothing but Guardar follows.
LEMMA AlGuardar ==
    ASSUME LoGuardado, Recibe, paso' = "pausa", "corte" \in incidentes' => "corte" \in incidentes
    PROVE  LoGuardado' /\ EnCompactacion'
BY DEF LoGuardado, EnCompactacion, Recibe

\* crear_archivo_en_dialfs
LEMMA BaseCrear ==
    ASSUME Base, NEW f \in Archivos, Crear(f)
    PROVE  Base'
<1>1. TypeOK /\ LoGuardado /\ ListaExacta /\ EnLista
  BY DEF Base
<1>2. /\ Recibe /\ bitmap' = Ocupar(bitmap, {EncontrarBloqueLibre})
      /\ metadata' = Guardado(f, EncontrarBloqueLibre, 0)
      /\ lista' = Append(lista, [nombre |-> f, espacio |-> TRUE])
      /\ escrito' = Olvida(f) /\ paso' = "pausa"
      /\ UNCHANGED <<bloquesDat, enDisco, locales>>
  BY DEF Crear
<1>3. incidentes' = incidentes
        \cup Anota("fuga", Existe(f))
        \cup Anota("lista", lista # <<>> /\ ~Last(lista).espacio)
        \cup Anota("sin bloque", EncontrarBloqueLibre = -1)
  BY DEF Crear
<1>4. /\ incidentes \subseteq incidentes' /\ ("corte" \in incidentes' => "corte" \in incidentes)
      /\ "lista" \notin incidentes' => lista = <<>> \/ Last(lista).espacio
  BY <1>3 DEF Anota
<1>5. /\ DOMAIN metadata' = DOMAIN metadata \cup {f}
      /\ DOMAIN metadata' \subseteq Archivos
      /\ \A g \in DOMAIN metadata' :
            metadata'[g] \in [ini : -1 .. BlockCount - 1, tam : Tamanios \cup {0}]
  <2>1. EncontrarBloqueLibre \in -1 .. BlockCount - 1
    BY BloqueLibre
  <2>2. QED BY <1>1, <1>2, <2>1, GuardadoBien
<1>6. PICK n \in Nat : n = Len(lista)
  BY <1>1, LenProperties DEF TypeOK
<1>7. /\ lista' \in Seq(Palabra) /\ Len(lista') = n + 1
      /\ \A k \in 1 .. n : lista'[k] = lista[k]
      /\ lista'[n + 1] = [nombre |-> f, espacio |-> TRUE]
  <2>1. lista \in Seq(Palabra) /\ [nombre |-> f, espacio |-> TRUE] \in Palabra
    BY <1>1 DEF TypeOK, Palabra
  <2>2. QED BY <1>2, <1>6, <2>1, AppendProperties
<1>8. TypeOK'
  <2>1. bitmap' \subseteq Disco /\ escrito' \subseteq escrito
    BY <1>1, <1>2 DEF TypeOK, Ocupar, Olvida
  <2>2. QED BY <1>1, <1>2, <1>5, <1>7, <2>1 DEF TypeOK, Palabra
<1>9. LoGuardado' /\ EnCompactacion'
  BY <1>1, <1>2, <1>4, AlGuardar
<1>10. \A k \in 1 .. n + 1 : k \in 1 .. n \/ k = n + 1
  OBVIOUS
<1>11. n + 1 \in 1 .. n + 1 /\ \A k \in 1 .. n : k \in 1 .. n + 1
  OBVIOUS
<1>12. {lista'[k].nombre : k \in 1 .. n + 1} = {lista[k].nombre : k \in 1 .. n} \cup {f}
  BY <1>7, <1>10, <1>11
<1>13. EnLista'
  BY <1>1, <1>5, <1>6, <1>7, <1>12 DEF EnLista
<1>14. ASSUME SinNada({"lista"})'
       PROVE  /\ {lista'[k].nombre : k \in 1 .. n + 1} = DOMAIN metadata'
              /\ \A k \in 1 .. n + 1 : ~Ilegible(k)'
  <2>1. SinNada({"lista"}) /\ "lista" \notin incidentes'
    BY <1>4, <1>14 DEF SinNada
  <2>2. /\ {lista[k].nombre : k \in 1 .. n} = DOMAIN metadata
        /\ \A k \in 1 .. n : ~Ilegible(k)
    BY <1>1, <1>6, <2>1 DEF ListaExacta
  <2>3. ASSUME NEW k \in 1 .. n
        PROVE  lista[k].espacio /\ lista[k].nombre \in DOMAIN metadata
    <3>1. lista[k].nombre \in DOMAIN metadata /\ (k < n => lista[k].espacio)
      BY <1>6, <2>2 DEF Ilegible, Existe
    <3>2. k = n => lista[k].espacio
      <4>1. lista # <<>>
        BY <1>6
      <4>2. Last(lista).espacio
        BY <1>4, <2>1, <4>1
      <4>3. QED BY <1>6, <4>2 DEF Last
    <3>3. QED BY <3>1, <3>2
  <2>4. ASSUME NEW k \in 1 .. n + 1
        PROVE  ~Ilegible(k)'
    <3>1. CASE k = n + 1
      BY <1>5, <1>7, <3>1 DEF Ilegible, Existe
    <3>2. CASE k \in 1 .. n
      BY <1>5, <1>7, <2>3, <3>2 DEF Ilegible, Existe
    <3>3. QED BY <1>10, <3>1, <3>2
  <2>5. QED BY <1>5, <1>12, <2>2, <2>4
<1>15. ListaExacta'
  BY <1>7, <1>14 DEF ListaExacta
<1>16. QED BY <1>8, <1>9, <1>13, <1>15 DEF Base

\* eliminar_archivo_en_dialfs
LEMMA BaseEliminar ==
    ASSUME Base, NEW f \in Archivos, Eliminar(f)
    PROVE  Base'
<1>1. TypeOK /\ LoGuardado /\ ListaExacta /\ EnLista
  BY DEF Base
<1>2. /\ Recibe /\ Existe(f)
      /\ bitmap' = bitmap \ (metadata[f].ini .. metadata[f].ini + Necesarios(metadata[f].tam) - 1)
      /\ metadata' = [g \in DOMAIN metadata \ {f} |-> metadata[g]]
      /\ lista' = EliminarDeLista(f) /\ escrito' = Olvida(f) /\ paso' = "pausa"
      /\ UNCHANGED <<bloquesDat, enDisco, locales>>
  BY DEF Eliminar
<1>3. incidentes' = incidentes
        \cup Anota("fuga", metadata[f].tam = 0)
        \cup Anota("lista", [nombre |-> f, espacio |-> FALSE] \in ToSet(lista))
  BY DEF Eliminar
<1>4. /\ incidentes \subseteq incidentes' /\ ("corte" \in incidentes' => "corte" \in incidentes)
      /\ "lista" \notin incidentes' => [nombre |-> f, espacio |-> FALSE] \notin ToSet(lista)
  BY <1>3 DEF Anota
<1>5. lista \in Seq(Palabra) /\ Len(lista) \in Nat
      /\ \A k \in 1 .. Len(lista) : lista[k] \in Palabra /\ lista[k] \in ToSet(lista)
  <2>1. lista \in Seq(Palabra)
    BY <1>1 DEF TypeOK, Palabra
  <2>2. QED BY <2>1, LenProperties, ElementOfSeq DEF ToSet
<1> DEFINE e == [nombre |-> f, espacio |-> TRUE]
<1>6. /\ lista' \in Seq(Palabra)
      /\ \A k \in 1 .. Len(lista) : lista[k] # e =>
            \E j \in 1 .. Len(lista') : lista'[j].nombre = lista[k].nombre
      /\ \A j \in 1 .. Len(lista') : \E k \in 1 .. Len(lista) :
            /\ lista'[j].nombre = lista[k].nombre /\ lista[k] # e
            /\ j < Len(lista') => k < Len(lista) /\ lista'[j].espacio = lista[k].espacio
  <2>1. PICK l : l = lista'
    OBVIOUS
  <2>2. l = EliminarDeLista(f)
    BY <1>2, <2>1
  <2>3. Sin(f, l)
    BY <1>5, <2>2, ListaSin
  <2>4. QED BY <2>1, <2>3 DEF Sin
<1>7. TypeOK'
  <2>1. bitmap' \subseteq bitmap /\ escrito' \subseteq escrito
    BY <1>2 DEF Olvida
  <2>2. DOMAIN metadata' \subseteq DOMAIN metadata
        /\ \A g \in DOMAIN metadata' : metadata'[g] = metadata[g]
    BY <1>2
  <2>3. QED BY <1>1, <1>2, <1>6, <2>1, <2>2 DEF TypeOK, Palabra
<1>8. LoGuardado' /\ EnCompactacion'
  BY <1>1, <1>2, <1>4, AlGuardar
<1>9. EnLista'
  <2>1. ASSUME NEW g \in DOMAIN metadata'
        PROVE  g \in {lista'[j].nombre : j \in 1 .. Len(lista')}
    <3>1. g \in DOMAIN metadata /\ g # f
      BY <1>2, <2>1
    <3>2. PICK k \in 1 .. Len(lista) : lista[k].nombre = g
      BY <1>1, <3>1 DEF EnLista
    <3>3. lista[k] # e
      BY <3>1, <3>2
    <3>4. QED BY <1>6, <3>2, <3>3
  <2>2. QED BY <2>1 DEF EnLista
<1>10. ASSUME SinNada({"lista"})'
       PROVE  \A j \in 1 .. Len(lista') :
                lista'[j].nombre \in DOMAIN metadata' /\ ~Ilegible(j)'
  <2>1. SinNada({"lista"}) /\ [nombre |-> f, espacio |-> FALSE] \notin ToSet(lista)
    BY <1>4, <1>10 DEF SinNada
  <2>2. \A k \in 1 .. Len(lista) : ~Ilegible(k)
    BY <1>1, <2>1 DEF ListaExacta
  <2>3. SUFFICES ASSUME NEW j \in 1 .. Len(lista')
                 PROVE  lista'[j].nombre \in DOMAIN metadata' /\ ~Ilegible(j)'
    OBVIOUS
  <2>4. PICK k \in 1 .. Len(lista) :
            /\ lista'[j].nombre = lista[k].nombre /\ lista[k] # e
            /\ j < Len(lista') => k < Len(lista) /\ lista'[j].espacio = lista[k].espacio
    BY <1>6
  <2>5. lista[k].nombre # f
    <3>1. lista[k] # [nombre |-> f, espacio |-> FALSE] /\ lista[k] \in Palabra
      BY <1>5, <2>1
    <3>2. QED BY <2>4, <3>1 DEF Palabra
  <2>6. lista[k].nombre \in DOMAIN metadata /\ (k < Len(lista) => lista[k].espacio)
    BY <2>2 DEF Ilegible, Existe
  <2>7. lista'[j].nombre \in DOMAIN metadata'
    BY <1>2, <2>4, <2>5, <2>6
  <2>8. j < Len(lista') => lista'[j].espacio
    BY <2>4, <2>6
  <2>9. QED BY <2>7, <2>8 DEF Ilegible, Existe
<1>11. ListaExacta'
  BY <1>9, <1>10 DEF ListaExacta, EnLista
<1>12. QED BY <1>7, <1>8, <1>9, <1>11 DEF Base

\* A request that leaves the list as it is.
LEMMA BasePedido ==
    ASSUME Base, TypeOK', Recibe, paso' = "pausa", lista' = lista,
           DOMAIN metadata' = DOMAIN metadata, incidentes \subseteq incidentes',
           "corte" \in incidentes' => "corte" \in incidentes
    PROVE  Base'
BY AlGuardar, ListaIgual DEF Base

\* truncar_archivo_en_dialfs, when the file gets shorter
LEMMA BaseReducir ==
    ASSUME Base, NEW f \in Archivos, NEW t \in Tamanios, Reducir(f, t)
    PROVE  Base'
<1> DEFINE sobran == metadata[f].ini + Necesarios(t) .. metadata[f].ini + Ocupa(f) - 1
<1>1. /\ Recibe /\ bitmap' = bitmap \ sobran
      /\ incidentes' = incidentes \cup Anota("reducido", sobran # {})
      /\ paso' = "pausa"
      /\ UNCHANGED <<lista, metadata, bloquesDat, enDisco, locales, escrito>>
  BY DEF Reducir
<1>2. TypeOK /\ bitmap' \subseteq bitmap
  BY <1>1 DEF Base
<1>3. TypeOK'
  BY <1>1, <1>2 DEF TypeOK
<1>4. incidentes \subseteq incidentes' /\ ("corte" \in incidentes' => "corte" \in incidentes)
  BY <1>1 DEF Anota
<1>5. QED BY <1>1, <1>3, <1>4, BasePedido

\* ... when it stays as it is, ...
LEMMA BaseIgualar ==
    ASSUME Base, NEW f \in Archivos, Igualar(f)
    PROVE  Base'
<1>1. /\ Recibe /\ paso' = "pausa"
      /\ UNCHANGED <<enMemoria, metadata, bloquesDat, enDisco, locales, escrito, incidentes>>
  BY DEF Igualar
<1>2. TypeOK'
  BY <1>1 DEF Base, TypeOK
<1>3. QED BY <1>1, <1>2, BasePedido

\* ... when it grows where it is, ...
LEMMA BaseCrecerEnSuLugar ==
    ASSUME Base, NEW f \in Archivos, NEW t \in Tamanios, CrecerEnSuLugar(f, t)
    PROVE  Base'
<1>1. /\ Recibe /\ Existe(f)
      /\ bitmap' = Ocupar(bitmap, metadata[f].ini .. metadata[f].ini + Necesarios(t) - 1)
      /\ metadata' = Guardado(f, metadata[f].ini, t)
      /\ incidentes' = incidentes \cup Anota("borde", ~(Siguientes(f, t) \subseteq Disco))
      /\ paso' = "pausa"
      /\ UNCHANGED <<lista, bloquesDat, enDisco, locales, escrito>>
  BY DEF CrecerEnSuLugar
<1>2. TypeOK /\ f \in DOMAIN metadata
  BY <1>1 DEF Base, Existe
<1>3. /\ DOMAIN metadata' = DOMAIN metadata \cup {f}
      /\ DOMAIN metadata' \subseteq Archivos
      /\ \A g \in DOMAIN metadata' :
            metadata'[g] \in [ini : -1 .. BlockCount - 1, tam : Tamanios \cup {0}]
  <2>1. metadata[f].ini \in -1 .. BlockCount - 1 /\ t \in Tamanios \cup {0}
    BY <1>2, Metadatos
  <2>2. QED BY <1>1, <1>2, <2>1, GuardadoBien
<1>4. bitmap' \subseteq Disco
  BY <1>1, <1>2 DEF TypeOK, Ocupar
<1>5. TypeOK'
  BY <1>1, <1>2, <1>3, <1>4 DEF TypeOK
<1>6. incidentes \subseteq incidentes' /\ ("corte" \in incidentes' => "corte" \in incidentes)
  BY <1>1 DEF Anota
<1>7. DOMAIN metadata' = DOMAIN metadata
  BY <1>2, <1>3
<1>8. QED BY <1>1, <1>5, <1>6, <1>7, BasePedido

\* What growing elsewhere does to the bitmap, the blocks and the metadata.
LEMMA CrecerEnTipos ==
    ASSUME TypeOK, NEW destino \in Disco, NEW f \in DOMAIN metadata, NEW t \in Tamanios,
           CrecerEn(destino, f, t)
    PROVE  /\ bitmap' \subseteq Disco /\ DOMAIN contenido' = Celdas /\ enteros' \in Nat
           /\ DOMAIN metadata' = DOMAIN metadata
           /\ \A g \in DOMAIN metadata' :
                metadata'[g] \in [ini : -1 .. BlockCount - 1, tam : Tamanios \cup {0}]
<1> DEFINE d == MoverArchivo(destino, metadata[f].ini, Ocupa(f))
<1>1. /\ bitmap' = Ocupar(d.bits, destino .. destino + Necesarios(t) - 1)
      /\ contenido' = d.datos /\ enteros' = d.enteros
      /\ metadata' = Guardado(f, destino, t)
  BY DEF CrecerEn
<1>2. /\ Ocupa(f) \in Nat /\ bitmap \subseteq Disco /\ DOMAIN contenido = Celdas
      /\ enteros \in Nat /\ f \in Archivos /\ destino \in Int
  BY Metadatos, ConstantesOK DEF TypeOK, Disco
<1>3. d.bits \subseteq Disco /\ DOMAIN d.datos = Celdas /\ d.enteros \in Nat
  BY <1>2, MoverTipos
<1> HIDE DEF d
<1>4. destino \in -1 .. BlockCount - 1 /\ t \in Tamanios \cup {0}
  BY ConstantesOK DEF Disco
<1>5. /\ DOMAIN metadata' = DOMAIN metadata \cup {f}
      /\ \A g \in DOMAIN metadata' :
            metadata'[g] \in [ini : -1 .. BlockCount - 1, tam : Tamanios \cup {0}]
  BY <1>1, <1>2, <1>4, GuardadoBien
<1>6. QED BY <1>1, <1>3, <1>5 DEF Ocupar

\* ... when it grows elsewhere, ...
LEMMA BaseCrecerMoviendo ==
    ASSUME Base, NEW f \in Archivos, NEW t \in Tamanios, CrecerMoviendo(f, t)
    PROVE  Base'
<1> DEFINE destino == ExisteEspacioContiguo(Necesarios(t))
<1>1. /\ Recibe /\ Existe(f) /\ destino # 0 /\ CrecerEn(destino, f, t) /\ paso' = "pausa"
      /\ UNCHANGED <<lista, enDisco, locales, escrito>>
  BY DEF CrecerMoviendo, NoCabe
<1>8. incidentes \subseteq incidentes' /\ ("corte" \in incidentes' => "corte" \in incidentes)
  BY <1>1 DEF CrecerEn, Anota
<1>2. TypeOK /\ f \in DOMAIN metadata
  BY <1>1 DEF Base, Existe
<1>3. Necesarios(t) \in Nat
  BY Tope, Bloques
<1>4. destino \in Disco
  BY <1>1, <1>3, Hueco
<1> HIDE DEF destino
<1>5. /\ bitmap' \subseteq Disco /\ DOMAIN contenido' = Celdas /\ enteros' \in Nat
      /\ DOMAIN metadata' = DOMAIN metadata
      /\ \A g \in DOMAIN metadata' :
            metadata'[g] \in [ini : -1 .. BlockCount - 1, tam : Tamanios \cup {0}]
  BY <1>1, <1>2, <1>4, CrecerEnTipos
<1>6. TypeOK'
  BY <1>1, <1>2, <1>5 DEF TypeOK
<1>7. QED BY <1>1, <1>5, <1>6, <1>8, BasePedido

\* ... and when it has to compact first.
LEMMA BaseEmpezar ==
    ASSUME Base, NEW f \in Archivos, NEW t \in Tamanios, EmpezarCompactacion(f, t)
    PROVE  Base'
<1>1. /\ Recibe /\ Existe(f) /\ t > metadata[f].tam
      /\ pedido' = [nombre |-> f, tam |-> t]
      /\ libre' = EncontrarBloqueLibre /\ i' = libre' + 1
      /\ incidentes' = incidentes \cup Anota("lleno", libre' = -1)
      /\ paso' = "compacta"
      /\ UNCHANGED <<enMemoria, metadata, bloquesDat, enDisco, escrito>>
  BY DEF EmpezarCompactacion, NoCabe
<1>2. TypeOK /\ LoGuardado /\ ListaExacta /\ EnLista
  BY DEF Base
<1>3. libre' \in -1 .. BlockCount - 1 /\ BlockCount \in Nat \ {0}
  BY <1>1, BloqueLibre, ConstantesOK
<1>4. libre' \in -1 .. BlockCount /\ i' \in 0 .. 2 * BlockCount /\ libre' < i'
  BY <1>1, <1>3
<1>5. TypeOK'
  BY <1>1, <1>2, <1>4 DEF TypeOK
<1>6. incidentes \subseteq incidentes' /\ ("corte" \in incidentes' => "corte" \in incidentes)
  BY <1>1 DEF Anota
<1>7. LoGuardado'
  BY <1>1, <1>2, <1>6 DEF LoGuardado, Recibe
<1>8. EnCompactacion'
  <2>1. metadata[f].tam < t
    BY <1>1, <1>2, Metadatos, Tope DEF Existe
  <2>2. QED BY <1>1, <1>4, <2>1 DEF EnCompactacion, Existe
<1>9. ListaExacta' /\ EnLista'
  BY <1>1, <1>2, <1>6, ListaIgual
<1>10. QED BY <1>5, <1>7, <1>8, <1>9 DEF Base

\* escribir_en_archivo_dialfs and leer_desde_archivo_dialfs
LEMMA BaseAcceder ==
    ASSUME Base, NEW f \in Archivos, NEW tramo \in Tramos, NEW escribe \in BOOLEAN,
           Acceder(f, tramo[1], tramo[2], escribe)
    PROVE  Base'
<1> DEFINE p == tramo[1]
           n == tramo[2]
           tocados == p \div BlockSize .. (p + n - 1) \div BlockSize
<1>0. p \in Nat /\ n \in Nat \ {0}
  BY ConstantesOK
<1>1. /\ Recibe /\ Existe(f) /\ metadata[f].ini >= 0 /\ p + n <= metadata[f].tam
      /\ paso' = "pausa"
      /\ UNCHANGED <<enMemoria, metadata, enDisco, locales, incidentes>>
  BY DEF Acceder
<1>2. \/ /\ contenido' = [b \in Celdas |-> IF b - metadata[f].ini \in tocados
                                           THEN <<f, b - metadata[f].ini>> ELSE contenido[b]]
         /\ escrito' = escrito \cup {<<f, k>> : k \in tocados}
      \/ UNCHANGED <<bloquesDat, escrito>>
  BY DEF Acceder
<1>3. TypeOK /\ f \in DOMAIN metadata
  BY <1>1 DEF Base, Existe
<1>4. tocados \subseteq 0 .. MaxBloques
  <2>1. metadata[f].tam \in Nat /\ Necesarios(metadata[f].tam) <= MaxBloques
        /\ Necesarios(metadata[f].tam) \in Nat /\ MaxBloques \in Nat
    BY <1>3, Metadatos, Tope
  <2>2. /\ p \div BlockSize \in Nat /\ (p + n - 1) \div BlockSize \in Int
        /\ (p + n - 1) \div BlockSize < Necesarios(metadata[f].tam)
    <3> HIDE DEF p, n
    <3>1. QED BY <1>0, <1>1, <2>1, Tocados
  <2>3. PICK x \in Nat, y \in Int, z \in Nat :
            x = p \div BlockSize /\ y = (p + n - 1) \div BlockSize
            /\ z = Necesarios(metadata[f].tam)
    BY <2>1, <2>2
  <2>4. y < z /\ z <= MaxBloques
    BY <2>1, <2>2, <2>3
  <2>5. x .. y \subseteq 0 .. MaxBloques
    BY <2>1, <2>4
  <2>6. QED BY <2>3, <2>5
<1> HIDE DEF tocados
<1>5. DOMAIN contenido' = Celdas /\ escrito' \subseteq Archivos \X (0 .. MaxBloques)
  BY <1>2, <1>3, <1>4 DEF TypeOK
<1>8. enteros' \in Nat
  <2>1. (p + n) \div BlockSize \in Nat
    <3>1. \A x \in Nat : x \div BlockSize \in Nat
      BY ConstantesOK
    <3> HIDE DEF p, n
    <3>2. QED BY <1>0, <3>1
  <2>2. enteros \in Nat /\ metadata[f].ini \in Int
    BY <1>3, Metadatos DEF TypeOK
  <2>3. PICK x \in Nat, a \in Int, m \in Nat :
            x = (p + n) \div BlockSize /\ a = metadata[f].ini /\ m = enteros
    BY <2>1, <2>2
  <2>4. \/ enteros' = Mayor(m, a + x)
        \/ enteros' = enteros
    BY <2>3 DEF Acceder
  <2>5. QED BY <2>3, <2>4 DEF Mayor
<1>6. TypeOK'
  BY <1>1, <1>3, <1>5, <1>8 DEF TypeOK
<1>7. QED BY <1>1, <1>6, BasePedido

\* exit() in a request
LEMMA BaseAbortar ==
    ASSUME Base, NEW f \in Archivos, Abortar(f)
    PROVE  Base'
<1>1. /\ Recibe /\ paso' = "termino"
      /\ UNCHANGED <<enMemoria, metadata, bloquesDat, enDisco, locales, escrito, incidentes>>
  BY DEF Abortar
<1>2. TypeOK' /\ LoGuardado' /\ EnCompactacion'
  BY <1>1 DEF Base, TypeOK, LoGuardado, EnCompactacion, Recibe
<1>3. ListaExacta' /\ EnLista'
  BY <1>1, ListaIgual DEF Base
<1>4. QED BY <1>2, <1>3 DEF Base

\* A turn of the loop of compactar_fs.
LEMMA BaseTurno ==
    ASSUME Base, Compactando, i' \in 0 .. 2 * BlockCount, libre' \in -1 .. BlockCount, libre' < i',
           bitmap' \subseteq Disco, DOMAIN contenido' = Celdas, enteros' \in Nat,
           DOMAIN metadata' = DOMAIN metadata,
           \A f \in DOMAIN metadata : /\ metadata'[f].tam = metadata[f].tam
                                      /\ metadata'[f] \in [ini : -1 .. BlockCount - 1,
                                                           tam : Tamanios \cup {0}],
           incidentes \subseteq incidentes', "corte" \in incidentes' => "corte" \in incidentes,
           UNCHANGED <<paso, pedido, lista, enDisco, escrito>>
    PROVE  Base'
<1>1. TypeOK /\ LoGuardado /\ EnCompactacion /\ paso = "compacta"
  BY DEF Base, Compactando
<1>2. TypeOK'
  BY <1>1 DEF TypeOK
<1>3. LoGuardado'
  BY <1>1 DEF LoGuardado
<1>4. EnCompactacion'
  BY <1>1 DEF EnCompactacion, Existe
<1>5. ListaExacta' /\ EnLista'
  BY ListaIgual DEF Base
<1>6. QED BY <1>2, <1>3, <1>4, <1>5 DEF Base

\* Where the loop goes on.
LEMMA Avance ==
    ASSUME TypeOK, EnCompactacion, Compactando, NEW h \in -1 .. BlockCount
    PROVE  /\ i + h + 1 \in 0 .. 2 * BlockCount /\ h < i + h + 1
           /\ i \in Disco /\ libre \in -1 .. BlockCount - 1 /\ libre < i
<1>1. PICK n \in Nat, j \in Nat, l \in Int : /\ n = BlockCount /\ j = i /\ l = libre
                                             /\ j < n /\ l < j /\ -1 <= l
  <2>1. i \in 0 .. 2 * BlockCount /\ libre \in -1 .. BlockCount
    BY DEF TypeOK
  <2>2. i < BlockCount /\ libre < i /\ BlockCount \in Nat
    BY ConstantesOK DEF Compactando, EnCompactacion
  <2>3. i \in Nat /\ libre \in Int /\ -1 <= libre
    BY <2>1, <2>2
  <2>4. QED BY <2>2, <2>3
<1>2. j + h + 1 \in 0 .. 2 * n /\ h < j + h + 1 /\ j \in 0 .. n - 1 /\ l \in -1 .. n - 1
  BY <1>1
<1>3. QED BY <1>1, <1>2 DEF Disco

\* A block that is not of a file.
LEMMA BaseSaltar ==
    ASSUME Base, SaltarBloque
    PROVE  Base'
<1>1. /\ Compactando /\ i' = i + libre + 1
      /\ incidentes' = incidentes \cup Anota("salto", Saltea(metadata, i'))
      /\ UNCHANGED <<paso, pedido, enMemoria, metadata, bloquesDat, enDisco, libre, escrito>>
  BY DEF SaltarBloque
<1>2. TypeOK /\ EnCompactacion
  BY DEF Base
<1>3. libre \in -1 .. BlockCount
  BY <1>2 DEF TypeOK
<1>4. i' \in 0 .. 2 * BlockCount /\ libre' \in -1 .. BlockCount /\ libre' < i'
  BY <1>1, <1>2, <1>3, Avance
<1>5. incidentes \subseteq incidentes' /\ ("corte" \in incidentes' => "corte" \in incidentes)
  BY <1>1 DEF Anota
<1>6. /\ bitmap' \subseteq Disco /\ DOMAIN contenido' = Celdas /\ enteros' \in Nat
      /\ \A f \in DOMAIN metadata :
            metadata'[f] \in [ini : -1 .. BlockCount - 1, tam : Tamanios \cup {0}]
  BY <1>1, <1>2 DEF TypeOK
<1>7. QED BY <1>1, <1>4, <1>5, <1>6, BaseTurno

\* What a turn that moves a file does.
LEMMA CompactarPartes ==
    ASSUME TypeOK, EnCompactacion, CompactarArchivo
    PROVE  \E f \in DOMAIN metadata :
              /\ Compactando /\ i \in bitmap /\ Alcanza(f, i)
              /\ LET d == MoverArchivo(libre, metadata[f].ini, Necesarios(metadata[f].tam))
                 IN  bitmap' = d.bits /\ contenido' = d.datos /\ enteros' = d.enteros
              /\ metadata' = Guardado(f, libre, metadata[f].tam)
              /\ libre' \in SiguienteLibre(bitmap', libre) /\ i' = i + libre' + 1
              /\ incidentes' = incidentes
                    \cup Anota("vacio", metadata[f].tam = 0)
                    \cup Anota("trunco", Trunco(f))
                    \cup Anota("salto", Saltea(metadata', i'))
              /\ UNCHANGED <<paso, pedido, lista, enDisco, escrito>>
<1> DEFINE k == EncontrarArchivoPorBloque(i)
           f == lista[k].nombre
<1>1. /\ Compactando /\ i \in bitmap /\ k # 0 /\ ~Ilegible(k)
      /\ LET d == MoverArchivo(libre, metadata[f].ini, Necesarios(metadata[f].tam))
         IN  bitmap' = d.bits /\ contenido' = d.datos /\ enteros' = d.enteros
      /\ metadata' = Guardado(f, libre, metadata[f].tam)
      /\ libre' \in SiguienteLibre(bitmap', libre) /\ i' = i + libre' + 1
      /\ incidentes' = incidentes
            \cup Anota("vacio", metadata[f].tam = 0)
            \cup Anota("trunco", Trunco(f))
            \cup Anota("salto", Saltea(metadata', i'))
      /\ UNCHANGED <<paso, pedido, lista, enDisco, escrito>>
  BY DEF CompactarArchivo
<1>2. Len(lista) \in Nat
  BY LenProperties DEF TypeOK
<1>3. f \in DOMAIN metadata /\ Alcanza(f, i)
  <2>1. k # 0 => Ilegible(k) \/ Alcanza(f, i)
    BY <1>2, PorBloque
  <2>2. f \in DOMAIN metadata
    BY <1>1 DEF Ilegible, Existe
  <2> HIDE DEF k
  <2>3. QED BY <1>1, <2>1, <2>2
<1> HIDE DEF f
<1>4. QED BY <1>1, <1>3

\* A file goes down.
LEMMA BaseCompactar ==
    ASSUME Base, CompactarArchivo
    PROVE  Base'
<1>1. TypeOK /\ EnCompactacion
  BY DEF Base
<1>2. PICK f \in DOMAIN metadata :
              /\ Compactando /\ i \in bitmap /\ Alcanza(f, i)
              /\ LET d == MoverArchivo(libre, metadata[f].ini, Necesarios(metadata[f].tam))
                 IN  bitmap' = d.bits /\ contenido' = d.datos /\ enteros' = d.enteros
              /\ metadata' = Guardado(f, libre, metadata[f].tam)
              /\ libre' \in SiguienteLibre(bitmap', libre) /\ i' = i + libre' + 1
              /\ incidentes' = incidentes
                    \cup Anota("vacio", metadata[f].tam = 0)
                    \cup Anota("trunco", Trunco(f))
                    \cup Anota("salto", Saltea(metadata', i'))
              /\ UNCHANGED <<paso, pedido, lista, enDisco, escrito>>
  BY <1>1, CompactarPartes
<1> DEFINE d == MoverArchivo(libre, metadata[f].ini, Necesarios(metadata[f].tam))
<1>3. /\ f \in Archivos /\ metadata[f].tam \in Tamanios \cup {0}
      /\ Necesarios(metadata[f].tam) \in Nat
  BY <1>1, Metadatos
<1>4. d.bits \subseteq Disco /\ DOMAIN d.datos = Celdas /\ d.enteros \in Nat
  <2>1. /\ bitmap \subseteq Disco /\ DOMAIN contenido = Celdas /\ enteros \in Nat
        /\ libre \in Int
    BY <1>1, ConstantesOK DEF TypeOK
  <2>2. QED BY <1>3, <2>1, MoverTipos
<1>5. bitmap' \subseteq Disco /\ DOMAIN contenido' = Celdas /\ enteros' \in Nat
  BY <1>2, <1>4
<1> HIDE DEF d
<1>6. libre \in -1 .. BlockCount - 1 /\ libre \in -1 .. BlockCount
  BY <1>1, <1>2, Avance DEF TypeOK
<1>7. /\ DOMAIN metadata' = DOMAIN metadata \cup {f}
      /\ metadata'[f].tam = metadata[f].tam
      /\ \A g \in DOMAIN metadata : g # f => metadata'[g] = metadata[g]
      /\ \A g \in DOMAIN metadata' :
            metadata'[g] \in [ini : -1 .. BlockCount - 1, tam : Tamanios \cup {0}]
  BY <1>1, <1>2, <1>3, <1>6, GuardadoBien
<1>8. PICK h \in -1 .. BlockCount : h = libre'
  BY <1>2, <1>6, Siguiente
<1>9. i' \in 0 .. 2 * BlockCount /\ libre' \in -1 .. BlockCount /\ libre' < i'
  BY <1>1, <1>2, <1>8, Avance
<1>10. incidentes \subseteq incidentes' /\ ("corte" \in incidentes' => "corte" \in incidentes)
  BY <1>2 DEF Anota
<1>11. DOMAIN metadata' = DOMAIN metadata
       /\ \A g \in DOMAIN metadata : metadata'[g].tam = metadata[g].tam
  BY <1>7
<1>12. QED BY <1>2, <1>5, <1>7, <1>9, <1>10, <1>11, BaseTurno

\* exit() in a compaction
LEMMA BaseAbortarCompactacion ==
    ASSUME Base, AbortarCompactacion
    PROVE  Base'
<1>1. /\ Compactando /\ incidentes' = incidentes \cup {"corte"} /\ paso' = "termino"
      /\ UNCHANGED <<enMemoria, metadata, bloquesDat, enDisco, locales, escrito>>
  BY DEF AbortarCompactacion
<1>2. TypeOK' /\ LoGuardado' /\ EnCompactacion'
  BY <1>1 DEF Base, TypeOK, LoGuardado, EnCompactacion, Compactando
<1>3. ListaExacta' /\ EnLista'
  BY <1>1, ListaIgual DEF Base
<1>4. QED BY <1>2, <1>3 DEF Base

\* The end of a compaction.
LEMMA BaseTerminar ==
    ASSUME Base, TerminarCompactacion
    PROVE  Base'
<1> DEFINE f == pedido.nombre
           t == pedido.tam
           destino == ExisteEspacioContiguo(Necesarios(t))
<1>1. /\ paso = "compacta"
      /\ IF destino # 0 THEN CrecerEn(destino, f, t)
         ELSE UNCHANGED <<bitmap, bloquesDat, metadata, incidentes>>
      /\ pedido' = Ninguno /\ libre' = 0 /\ i' = 0 /\ paso' = "pausa"
      /\ UNCHANGED <<lista, enDisco, escrito>>
  BY DEF TerminarCompactacion
<1>2. TypeOK /\ LoGuardado /\ EnCompactacion /\ ListaExacta /\ EnLista
  BY DEF Base
<1>3. f \in DOMAIN metadata /\ t \in Tamanios
  <2>1. f \in DOMAIN metadata /\ metadata[f].tam < t
    BY <1>1, <1>2 DEF EnCompactacion, Existe
  <2>2. metadata[f].tam \in Nat
    BY <1>2, <2>1, Metadatos
  <2>3. pedido # Ninguno
    <3>1. SUFFICES ASSUME pedido = Ninguno PROVE FALSE
      OBVIOUS
    <3>2. t = 0
      BY <3>1 DEF Ninguno
    <3>3. PICK n \in Nat : n = metadata[f].tam
      BY <2>2
    <3>4. n < 0
      BY <2>1, <3>2, <3>3
    <3>5. QED BY <3>4
  <2>4. QED BY <1>2, <2>1, <2>3 DEF TypeOK
<1> HIDE DEF f, t
<1>4. /\ bitmap' \subseteq Disco /\ DOMAIN contenido' = Celdas /\ enteros' \in Nat
      /\ DOMAIN metadata' = DOMAIN metadata
      /\ \A g \in DOMAIN metadata' :
            metadata'[g] \in [ini : -1 .. BlockCount - 1, tam : Tamanios \cup {0}]
  <2>1. CASE destino # 0
    <3>1. Necesarios(t) \in Nat
      BY <1>3, Tope, Bloques
    <3>2. destino \in Disco
      BY <2>1, <3>1, Hueco
    <3>3. CrecerEn(destino, f, t)
      BY <1>1, <2>1
    <3> HIDE DEF destino
    <3>4. QED BY <1>2, <1>3, <3>2, <3>3, CrecerEnTipos
  <2>2. CASE destino = 0
    BY <1>1, <1>2, <2>2 DEF TypeOK
  <2>3. QED BY <2>1, <2>2
<1>5. 0 \in -1 .. BlockCount /\ 0 \in 0 .. 2 * BlockCount
  BY ConstantesOK
<1>6. TypeOK'
  BY <1>1, <1>2, <1>4, <1>5 DEF TypeOK
<1>10. incidentes \subseteq incidentes' /\ ("corte" \in incidentes' => "corte" \in incidentes)
  BY <1>1 DEF CrecerEn, Anota
<1>7. LoGuardado' /\ EnCompactacion'
  BY <1>1, <1>2, <1>10 DEF LoGuardado, EnCompactacion
<1>8. ListaExacta' /\ EnLista'
  BY <1>1, <1>2, <1>4, <1>10, ListaIgual
<1>9. QED BY <1>6, <1>7, <1>8 DEF Base

\* guardar_bitmap and guardar_lista_archivos
LEMMA BaseGuardar ==
    ASSUME Base, Guardar
    PROVE  Base'
<1>1. /\ paso = "pausa" /\ bitmapDat' = bitmap /\ listaDat' = lista /\ paso' = "espera"
      /\ UNCHANGED <<enMemoria, metadata, bloquesDat, locales, escrito, incidentes>>
  BY DEF Guardar, GuardarBitmap, GuardarLista
<1>2. TypeOK' /\ LoGuardado' /\ EnCompactacion'
  BY <1>1 DEF Base, TypeOK, LoGuardado, EnCompactacion
<1>3. ListaExacta' /\ EnLista'
  BY <1>1, ListaIgual DEF Base
<1>4. QED BY <1>2, <1>3 DEF Base

\* The module starts again with the list it had.
LEMMA BaseReiniciar ==
    ASSUME Base, Reiniciar
    PROVE  Base'
<1>1. /\ paso \in {"espera", "termino"} /\ bitmap' = bitmapDat /\ lista' = listaDat
      /\ pedido' = Ninguno /\ libre' = 0 /\ i' = 0 /\ paso' = "espera"
      /\ UNCHANGED <<metadata, bloquesDat, enDisco, escrito, incidentes>>
  BY DEF Reiniciar, CargarLista, CargarBitmap, AbrirBloques
<1>2. lista' = lista
  BY <1>1 DEF Base, LoGuardado
<1>3. 0 \in -1 .. BlockCount /\ 0 \in 0 .. 2 * BlockCount
  BY ConstantesOK
<1>4. TypeOK'
  BY <1>1, <1>3 DEF Base, TypeOK
<1>5. LoGuardado' /\ EnCompactacion'
  BY <1>1, <1>2 DEF Base, LoGuardado, EnCompactacion
<1>6. ListaExacta' /\ EnLista'
  BY <1>1, <1>2, ListaIgual DEF Base
<1>7. QED BY <1>4, <1>5, <1>6 DEF Base

\* What every step keeps.
LEMMA BaseSiempre ==
    ASSUME Base, [Next]_vars
    PROVE  Base'
<1>1. CASE UNCHANGED vars
  <2>1. TypeOK' /\ LoGuardado' /\ EnCompactacion'
    BY <1>1 DEF Base, TypeOK, LoGuardado, EnCompactacion, Existe, vars
  <2>2. ListaExacta' /\ EnLista'
    BY <1>1, ListaIgual DEF Base, vars
  <2>3. QED BY <2>1, <2>2 DEF Base
<1>2. ASSUME NEW f \in Archivos, NEW t \in Tamanios, Truncar(f, t)
      PROVE  Base'
  BY <1>2, BaseReducir, BaseCrecerEnSuLugar, BaseCrecerMoviendo, BaseEmpezar DEF Truncar
<1>3. CASE Pedido
  BY <1>2, <1>3, BaseCrear, BaseEliminar, BaseIgualar, BaseAbortar, BaseAcceder DEF Pedido
<1>4. CASE Continua
  BY <1>4, BaseSaltar, BaseCompactar, BaseAbortarCompactacion, BaseTerminar, BaseGuardar
  DEF Continua
<1>5. CASE Reiniciar
  BY <1>5, BaseReiniciar
<1>6. QED BY <1>1, <1>3, <1>4, <1>5 DEF Next

\* A directory without files.
LEMMA BaseAlPrincipio == Init => Base
<1>1. ASSUME Init PROVE Base
  <2>1. /\ paso = "espera" /\ pedido = Ninguno /\ bitmap = {} /\ bitmapDat = {}
        /\ lista = <<>> /\ listaDat = <<>> /\ DOMAIN metadata = {}
        /\ DOMAIN contenido = Celdas /\ enteros = BlockCount /\ libre = 0 /\ i = 0 /\ escrito = {} /\ incidentes = {}
    BY <1>1 DEF Init
  <2>2. 0 \in -1 .. BlockCount /\ 0 \in 0 .. 2 * BlockCount /\ enteros \in Nat
    BY <2>1, ConstantesOK
  <2>3. TypeOK
    BY <2>1, <2>2 DEF TypeOK
  <2>4. Len(lista) = 0
    BY <2>1
  <2>5. \A k \in 1 .. Len(lista) : FALSE
    BY <2>4
  <2>6. ListaExacta /\ EnLista
    BY <2>1, <2>5 DEF ListaExacta, EnLista
  <2>7. LoGuardado /\ EnCompactacion
    BY <2>1 DEF LoGuardado, EnCompactacion
  <2>8. QED BY <2>3, <2>6, <2>7 DEF Base
<1>2. QED BY <1>1

\* The values of every variable stay in their types, whatever programs ask for.
THEOREM Tipos == Spec => []TypeOK
<1>1. Base /\ [Next]_vars => Base'
  BY BaseSiempre
<1>2. Base => TypeOK
  BY DEF Base
<1>3. QED BY <1>1, <1>2, BaseAlPrincipio, PTL DEF Spec

\* archivosMetadata names each file there is and no other, before and after
\* starting again, until a CREATE glues a name to another.
THEOREM ListaExactaSiempre == Spec => []ListaExacta
<1>1. Base /\ [Next]_vars => Base'
  BY BaseSiempre
<1>2. Base => ListaExacta
  BY DEF Base
<1>3. QED BY <1>1, <1>2, BaseAlPrincipio, PTL DEF Spec

-------------------------------------------------------------------------------
(* The blocks of the files *)

\* The blocks of a file of t bytes from block a.
Tira(a, t) == a .. a + Mayor(1, Necesarios(t)) - 1

\* Where a file begins and ends.
LEMMA Extension ==
    ASSUME TypeOK, NEW f \in DOMAIN metadata
    PROVE  \E a \in Int, n \in Nat :
              /\ a = metadata[f].ini /\ n = Ocupa(f) /\ n >= 1 /\ a < BlockCount
              /\ Necesarios(metadata[f].tam) <= n
              /\ BloquesDe(f) = a .. a + n - 1 /\ Ultimo(f) = a + n - 1
              /\ BloquesDe(f) = Tira(metadata[f].ini, metadata[f].tam)
<1>1. metadata[f].ini \in Int /\ metadata[f].ini < BlockCount
  <2>1. metadata[f].ini \in -1 .. BlockCount - 1 /\ BlockCount \in Nat
    BY Metadatos, ConstantesOK
  <2>2. QED BY <2>1
<1>2. Ocupa(f) \in Nat /\ Ocupa(f) >= 1 /\ Necesarios(metadata[f].tam) <= Ocupa(f)
  BY Metadatos
<1>3. /\ BloquesDe(f) = metadata[f].ini .. metadata[f].ini + Ocupa(f) - 1
      /\ Ultimo(f) = metadata[f].ini + Ocupa(f) - 1
      /\ BloquesDe(f) = Tira(metadata[f].ini, metadata[f].tam)
  BY DEF BloquesDe, Ultimo, Tira, Ocupa
<1>4. QED BY <1>1, <1>2, <1>3

\* The blocks of a size that is not 0.
LEMMA TiraDe ==
    /\ \A a, t : t \in Nat /\ t > 0 => Tira(a, t) = a .. a + Necesarios(t) - 1
    /\ \A a \in Int : Tira(a, 0) = {a}
<1>1. ASSUME NEW a, NEW t \in Nat, t > 0
      PROVE  Tira(a, t) = a .. a + Necesarios(t) - 1
  <2>1. PICK n \in Nat : n = Necesarios(t) /\ n >= 1
    BY <1>1, Bloques
  <2>2. Mayor(1, n) = n
    BY <2>1 DEF Mayor
  <2>3. QED BY <2>1, <2>2 DEF Tira
<1>2. ASSUME NEW a \in Int
      PROVE  Tira(a, 0) = {a}
  <2>1. Mayor(1, Necesarios(0)) = 1
    BY Bloques DEF Mayor
  <2>2. QED BY <2>1 DEF Tira
<1>3. QED BY <1>1, <1>2

\* crear_metadata and actualizar_metadata change the blocks of one file.
LEMMA TiraGuardada ==
    ASSUME TypeOK, NEW f \in Archivos, NEW a \in -1 .. BlockCount - 1, NEW t \in Tamanios \cup {0},
           metadata' = Guardado(f, a, t)
    PROVE  /\ DOMAIN metadata' = DOMAIN metadata \cup {f}
           /\ metadata'[f].ini = a /\ metadata'[f].tam = t
           /\ \A g \in DOMAIN metadata : g # f => metadata'[g] = metadata[g]
           /\ BloquesDe(f)' = Tira(a, t)
           /\ \A g \in DOMAIN metadata : g # f => BloquesDe(g)' = BloquesDe(g)
           /\ \A g \in DOMAIN metadata : g # f => Ultimo(g)' = Ultimo(g)
<1>1. /\ DOMAIN metadata' = DOMAIN metadata \cup {f}
      /\ metadata'[f].ini = a /\ metadata'[f].tam = t
      /\ \A g \in DOMAIN metadata : g # f => metadata'[g] = metadata[g]
  BY GuardadoBien
<1>2. BloquesDe(f)' = Tira(a, t)
  BY <1>1 DEF BloquesDe, Ocupa, Tira
<1>3. \A g \in DOMAIN metadata :
        g # f => BloquesDe(g)' = BloquesDe(g) /\ Ultimo(g)' = Ultimo(g)
  BY <1>1 DEF BloquesDe, Ultimo, Ocupa
<1>4. QED BY <1>1, <1>2, <1>3

\* A written block is one of the blocks of its file.
LEMMA EscritoDentro ==
    ASSUME TypeOK, BloquesPropios, NEW e \in escrito
    PROVE  /\ e[1] \in DOMAIN metadata /\ e[2] \in Nat /\ e = <<e[1], e[2]>>
           /\ metadata[e[1]].ini + e[2] \in BloquesDe(e[1])
           /\ BloquesDe(e[1]) \subseteq Celdas
<1>1. /\ e[1] \in DOMAIN metadata /\ e[2] < Necesarios(metadata[e[1]].tam)
      /\ metadata[e[1]].ini >= 0
  BY DEF BloquesPropios, Existe
<1>2. e[2] \in Nat /\ e = <<e[1], e[2]>>
  BY Tope DEF TypeOK
<1>3. PICK a \in Int, n \in Nat :
            /\ a = metadata[e[1]].ini /\ n >= 1 /\ Necesarios(metadata[e[1]].tam) <= n
            /\ BloquesDe(e[1]) = a .. a + n - 1
  BY <1>1, Extension
<1>4. PICK m \in Nat : m = Necesarios(metadata[e[1]].tam)
  BY <1>1, Metadatos
<1>5. PICK k \in Nat : k = e[2] /\ k < m
  BY <1>1, <1>2, <1>4
<1>6. a + k \in a .. a + n - 1
  <2>1. /\ a \in Int /\ n \in Nat /\ m \in Nat /\ k \in Nat
        /\ m <= n /\ k < m
    BY <1>3, <1>4, <1>5
  <2>2. QED BY ONLY <2>1
<1>7. QED BY <1>1, <1>2, <1>3, <1>5, <1>6, EnCeldas

\* The files are as they should when one of them goes where no other is, with
\* what was written in it.
LEMMA PropiosTras ==
    ASSUME TypeOK, BloquesPropios,
           NEW f \in Archivos, NEW a \in Disco, NEW t \in Tamanios \cup {0},
           metadata' = Guardado(f, a, t),
           \A g \in DOMAIN metadata : g # f => Tira(a, t) \cap BloquesDe(g) = {},
           escrito' \subseteq escrito,
           \A g \in DOMAIN metadata : g # f =>
                \A b \in BloquesDe(g) : contenido'[b] = contenido[b],
           \A e \in escrito' : e[1] = f => /\ e[2] < Necesarios(t)
                                           /\ contenido'[a + e[2]] = e
    PROVE  BloquesPropios'
<1>0. a \in -1 .. BlockCount - 1 /\ a \in Nat
  BY ConstantesOK DEF Disco
<1>1. /\ DOMAIN metadata' = DOMAIN metadata \cup {f}
      /\ metadata'[f].ini = a /\ metadata'[f].tam = t
      /\ \A g \in DOMAIN metadata : g # f => metadata'[g] = metadata[g]
      /\ BloquesDe(f)' = Tira(a, t)
      /\ \A g \in DOMAIN metadata : g # f => BloquesDe(g)' = BloquesDe(g)
  BY <1>0, TiraGuardada
<1>2. \A g \in DOMAIN metadata' : metadata'[g].ini >= 0
  BY <1>0, <1>1 DEF BloquesPropios
<1>3. ASSUME NEW g \in DOMAIN metadata', NEW h \in DOMAIN metadata', g # h
      PROVE  BloquesDe(g)' \cap BloquesDe(h)' = {}
  <2>1. CASE g = f
    <3>1. h \in DOMAIN metadata /\ h # f
      BY <1>1, <1>3, <2>1
    <3>2. QED BY <1>1, <2>1, <3>1
  <2>2. CASE h = f
    <3>1. g \in DOMAIN metadata /\ g # f
      BY <1>1, <1>3, <2>2
    <3>2. QED BY <1>1, <2>2, <3>1
  <2>3. CASE g # f /\ h # f
    <3>1. g \in DOMAIN metadata /\ h \in DOMAIN metadata
      BY <1>1, <2>3
    <3>2. BloquesDe(g) \cap BloquesDe(h) = {}
      BY <1>3, <3>1 DEF BloquesPropios
    <3>3. QED BY <1>1, <2>3, <3>1, <3>2
  <2>4. QED BY <2>1, <2>2, <2>3
<1>4. ASSUME NEW e \in escrito'
      PROVE  /\ e[1] \in DOMAIN metadata'
             /\ e[2] < Necesarios(metadata'[e[1]].tam)
             /\ contenido'[metadata'[e[1]].ini + e[2]] = e
  <2>1. CASE e[1] = f
    BY <1>1, <2>1
  <2>2. CASE e[1] # f
    <3>1. e \in escrito
      OBVIOUS
    <3>2. e[1] \in DOMAIN metadata /\ metadata[e[1]].ini + e[2] \in BloquesDe(e[1])
      BY <3>1, EscritoDentro
    <3>3. e[2] < Necesarios(metadata[e[1]].tam) /\ contenido[metadata[e[1]].ini + e[2]] = e
      BY <3>1 DEF BloquesPropios
    <3>4. QED BY <1>1, <2>2, <3>2, <3>3
  <2>3. QED BY <2>1, <2>2
<1>5. QED BY <1>2, <1>3, <1>4 DEF BloquesPropios, Existe

\* Nor is a block of a file taken for free when the bits follow it.
LEMMA SinPisarTras ==
    ASSUME TypeOK, BloquesPropios, SinPisar,
           NEW f \in Archivos, NEW a \in Disco, NEW t \in Tamanios \cup {0},
           metadata' = Guardado(f, a, t),
           NEW deja, \A g \in DOMAIN metadata : g # f => deja \cap BloquesDe(g) = {},
           bitmap' = (bitmap \ deja) \cup (Tira(a, t) \cap Disco)
    PROVE  SinPisar'
<1>0. a \in -1 .. BlockCount - 1
  BY ConstantesOK DEF Disco
<1>1. /\ DOMAIN metadata' = DOMAIN metadata \cup {f}
      /\ BloquesDe(f)' = Tira(a, t)
      /\ \A g \in DOMAIN metadata : g # f => BloquesDe(g)' = BloquesDe(g)
  BY <1>0, TiraGuardada
<1>2. ASSUME NEW g \in DOMAIN metadata'
      PROVE  BloquesDe(g)' \cap Disco \subseteq bitmap'
  <2>1. CASE g = f
    BY <1>1, <2>1
  <2>2. CASE g # f
    <3>1. g \in DOMAIN metadata
      BY <1>1, <2>2
    <3>2. BloquesDe(g) \cap Disco \subseteq bitmap
      BY <3>1 DEF SinPisar
    <3>3. QED BY <1>1, <2>2, <3>1, <3>2
  <2>3. QED BY <2>1, <2>2
<1>3. QED BY <1>2 DEF SinPisar, Disco

\* ... and the bits that are set are those of the files.
LEMMA ExactoTras ==
    ASSUME TypeOK, BloquesPropios,
           NEW f \in Archivos, NEW a \in Disco, NEW t \in Tamanios \cup {0},
           metadata' = Guardado(f, a, t),
           NEW deja, Existe(f) => deja = BloquesDe(f),
           \A g \in DOMAIN metadata : g # f => deja \cap BloquesDe(g) = {},
           bitmap' = (bitmap \ deja) \cup Tira(a, t),
           bitmap = UNION {BloquesDe(g) : g \in DOMAIN metadata}
    PROVE  bitmap' = UNION {BloquesDe(g)' : g \in DOMAIN metadata'}
<1>0. a \in -1 .. BlockCount - 1
  BY ConstantesOK DEF Disco
<1>1. /\ DOMAIN metadata' = DOMAIN metadata \cup {f}
      /\ BloquesDe(f)' = Tira(a, t)
      /\ \A g \in DOMAIN metadata : g # f => BloquesDe(g)' = BloquesDe(g)
  BY <1>0, TiraGuardada
<1>2. ASSUME NEW b \in bitmap'
      PROVE  \E g \in DOMAIN metadata' : b \in BloquesDe(g)'
  <2>1. CASE b \in Tira(a, t)
    BY <1>1, <2>1
  <2>2. CASE b \notin Tira(a, t)
    <3>1. b \in bitmap /\ b \notin deja
      BY <1>2, <2>2
    <3>2. PICK g \in DOMAIN metadata : b \in BloquesDe(g)
      BY <3>1
    <3>3. g # f
      BY <3>1, <3>2 DEF Existe
    <3>4. QED BY <1>1, <3>2, <3>3
  <2>3. QED BY <2>1, <2>2
<1>3. ASSUME NEW g \in DOMAIN metadata', NEW b \in BloquesDe(g)'
      PROVE  b \in bitmap'
  <2>1. CASE g = f
    BY <1>1, <1>3, <2>1
  <2>2. CASE g # f
    <3>1. g \in DOMAIN metadata /\ b \in BloquesDe(g)
      BY <1>1, <1>3, <2>2
    <3>2. b \in bitmap /\ b \notin deja
      BY <2>2, <3>1
    <3>3. QED BY <3>2
  <2>3. QED BY <2>1, <2>2
<1>4. QED BY <1>2, <1>3

Limpio == Sano => BloquesPropios /\ ("corte" \notin incidentes => SinPisar /\ Repartidos)
Tranquilo == SinNada(PisaBloques \cup {"fuga", "borde", "corte"})
Exacto == bitmap = UNION {BloquesDe(f) : f \in DOMAIN metadata}

\* What has happened is not forgotten.
LEMMA Antes ==
    ASSUME incidentes \subseteq incidentes'
    PROVE  /\ Sano' => Sano
           /\ Tranquilo' => Tranquilo
           /\ Tranquilo' => Sano' /\ "corte" \notin incidentes'
BY DEF Sano, Tranquilo, SinNada, PisaBloques

\* What a request can count on: none comes after a compaction that ended in exit().
LEMMA EnPedido ==
    ASSUME Limpio, Recibe, Sano
    PROVE  BloquesPropios /\ SinPisar
BY DEF Limpio, Recibe, Sano

\* What is left to prove of a request.
LEMMA TrasPedido ==
    ASSUME paso' = "pausa", Sano' => BloquesPropios' /\ SinPisar', Tranquilo' => Exacto'
    PROVE  Limpio' /\ BitmapExacto'
BY DEF Limpio, BitmapExacto, Tranquilo, Exacto, Repartidos

\* What leaves the files, their blocks and the bits as they are.
LEMMA DiscoIgual ==
    ASSUME UNCHANGED <<bitmap, metadata, bloquesDat, escrito>>
    PROVE  /\ BloquesPropios => BloquesPropios'
           /\ SinPisar => SinPisar'
           /\ Exacto => Exacto'
<1>1. \A f : BloquesDe(f)' = BloquesDe(f) /\ Ultimo(f)' = Ultimo(f)
  BY DEF BloquesDe, Ultimo, Ocupa
<1>2. BloquesPropios => BloquesPropios'
  BY <1>1 DEF BloquesPropios, Existe
<1>3. QED BY <1>1, <1>2 DEF SinPisar, Exacto, Disco

\* A new file takes a block that no file has.
LEMMA DiscoCrear ==
    ASSUME Base, Limpio, BitmapExacto, NEW f \in Archivos, Crear(f)
    PROVE  Limpio' /\ BitmapExacto'
<1> DEFINE a == EncontrarBloqueLibre
<1>1. /\ Recibe /\ bitmap' = Ocupar(bitmap, {a}) /\ metadata' = Guardado(f, a, 0)
      /\ escrito' = Olvida(f) /\ paso' = "pausa" /\ contenido' = contenido
  BY DEF Crear
<1>2. /\ incidentes \subseteq incidentes'
      /\ "fuga" \notin incidentes' => ~Existe(f)
      /\ "sin bloque" \notin incidentes' => a # -1
  BY DEF Crear, Anota
<1>3. TypeOK
  BY DEF Base
<1>4. a # -1 => a \in Disco \ bitmap
  BY BloqueLibre
<1> HIDE DEF a
<1>5. ASSUME Sano'
      PROVE  BloquesPropios' /\ SinPisar' /\ (Tranquilo' => Exacto')
  <2>1. BloquesPropios /\ SinPisar
    BY <1>1, <1>2, <1>5, Antes, EnPedido
  <2>2. a \in Disco \ bitmap
    BY <1>2, <1>4, <1>5 DEF Sano, SinNada, PisaBloques
  <2>3. Tira(a, 0) = {a} /\ a \in Int /\ 0 \in Tamanios \cup {0}
    BY <2>2, TiraDe DEF Disco
  <2>4. \A g \in DOMAIN metadata : g # f => Tira(a, 0) \cap BloquesDe(g) = {}
    BY <2>1, <2>2, <2>3 DEF SinPisar
  <2>5. escrito' \subseteq escrito /\ \A e \in escrito' : e[1] # f
    BY <1>1 DEF Olvida
  <2>6. BloquesPropios'
    BY <1>1, <1>3, <2>1, <2>2, <2>3, <2>4, <2>5, PropiosTras
  <2>7. bitmap' = (bitmap \ {}) \cup (Tira(a, 0) \cap Disco)
        /\ bitmap' = (bitmap \ {}) \cup Tira(a, 0)
    BY <1>1, <2>2, <2>3 DEF Ocupar
  <2>8. SinPisar'
    <3> DEFINE deja == {}
    <3>1. \A g \in DOMAIN metadata : g # f => deja \cap BloquesDe(g) = {}
      OBVIOUS
    <3>2. bitmap' = (bitmap \ deja) \cup (Tira(a, 0) \cap Disco)
      BY <2>7
    <3> HIDE DEF deja
    <3>3. QED BY <1>1, <1>3, <2>1, <2>2, <2>3, <3>1, <3>2, SinPisarTras
  <2>9. ASSUME Tranquilo'
        PROVE  Exacto'
    <3> DEFINE deja == {}
    <3>1. ~Existe(f) /\ Exacto
      BY <1>2, <2>9, Antes DEF Tranquilo, SinNada, BitmapExacto, Exacto
    <3>2. \A g \in DOMAIN metadata : g # f => deja \cap BloquesDe(g) = {}
      OBVIOUS
    <3>3. bitmap' = (bitmap \ deja) \cup Tira(a, 0)
      BY <2>7
    <3> HIDE DEF deja
    <3>4. bitmap' = UNION {BloquesDe(g)' : g \in DOMAIN metadata'}
      BY <1>1, <1>3, <2>1, <2>2, <2>3, <3>1, <3>2, <3>3, ExactoTras DEF Exacto
    <3>5. QED BY <3>4 DEF Exacto
  <2>10. QED BY <2>6, <2>8, <2>9
<1>6. QED BY <1>1, <1>2, <1>5, Antes, TrasPedido

\* A file that goes leaves its own blocks.
LEMMA DiscoEliminar ==
    ASSUME Base, Limpio, BitmapExacto, NEW f \in Archivos, Eliminar(f)
    PROVE  Limpio' /\ BitmapExacto'
<1> DEFINE deja == metadata[f].ini .. metadata[f].ini + Necesarios(metadata[f].tam) - 1
<1>1. /\ Recibe /\ f \in DOMAIN metadata /\ bitmap' = bitmap \ deja
      /\ metadata' = [g \in DOMAIN metadata \ {f} |-> metadata[g]]
      /\ escrito' = Olvida(f) /\ paso' = "pausa" /\ contenido' = contenido
  BY DEF Eliminar, Existe
<1>2. /\ incidentes \subseteq incidentes'
      /\ "fuga" \notin incidentes' => metadata[f].tam # 0
  BY DEF Eliminar, Anota
<1>3. TypeOK
  BY DEF Base
<1>4. deja \subseteq BloquesDe(f) /\ (metadata[f].tam # 0 => deja = BloquesDe(f))
  <2>1. PICK x \in Int, n \in Nat, m \in Nat :
            /\ x = metadata[f].ini /\ n = Ocupa(f) /\ m = Necesarios(metadata[f].tam)
            /\ m <= n /\ (metadata[f].tam # 0 => m = n)
    BY <1>1, <1>3, Metadatos
  <2>2. BloquesDe(f) = x .. x + n - 1 /\ deja = x .. x + m - 1
    BY <2>1 DEF BloquesDe
  <2>3. x .. x + m - 1 \subseteq x .. x + n - 1
    BY <2>1
  <2>4. QED BY <2>1, <2>2, <2>3
<1> HIDE DEF deja
<1>5. /\ DOMAIN metadata' = DOMAIN metadata \ {f}
      /\ \A g \in DOMAIN metadata' : metadata'[g] = metadata[g] /\ BloquesDe(g)' = BloquesDe(g)
  BY <1>1 DEF BloquesDe, Ocupa
<1>6. ASSUME Sano'
      PROVE  BloquesPropios' /\ SinPisar' /\ (Tranquilo' => Exacto')
  <2>1. BloquesPropios /\ SinPisar
    BY <1>1, <1>2, <1>6, Antes, EnPedido
  <2>2. \A g \in DOMAIN metadata' : BloquesDe(g) \cap BloquesDe(f) = {}
    BY <1>1, <1>5, <2>1 DEF BloquesPropios
  <2>3. BloquesPropios'
    <3>1. \A e \in escrito' : e \in escrito /\ e[1] # f
      BY <1>1 DEF Olvida
    <3>2. \A e \in escrito' : e[1] \in DOMAIN metadata'
      BY <1>5, <2>1, <3>1 DEF BloquesPropios, Existe
    <3>3. QED BY <1>1, <1>5, <2>1, <3>1, <3>2 DEF BloquesPropios, Existe
  <2>4. SinPisar'
    <3>1. \A g \in DOMAIN metadata' : BloquesDe(g) \cap Disco \subseteq bitmap'
      BY <1>1, <1>4, <1>5, <2>1, <2>2 DEF SinPisar
    <3>2. QED BY <1>5, <3>1 DEF SinPisar, Disco
  <2>5. ASSUME Tranquilo'
        PROVE  Exacto'
    <3>1. deja = BloquesDe(f) /\ bitmap = UNION {BloquesDe(g) : g \in DOMAIN metadata}
      BY <1>2, <1>4, <2>5, Antes DEF Tranquilo, SinNada, BitmapExacto
    <3>2. bitmap' = UNION {BloquesDe(g) : g \in DOMAIN metadata'}
      BY <1>1, <1>5, <2>2, <3>1
    <3>3. {BloquesDe(g)' : g \in DOMAIN metadata'} = {BloquesDe(g) : g \in DOMAIN metadata'}
      BY <1>5
    <3>4. QED BY <3>2, <3>3 DEF Exacto
  <2>6. QED BY <2>3, <2>4, <2>5
<1>7. QED BY <1>1, <1>2, <1>6, Antes, TrasPedido

\* A file gets shorter without losing a block, or stays as it is.
LEMMA DiscoReducir ==
    ASSUME Base, Limpio, BitmapExacto, NEW f \in Archivos, NEW t \in Tamanios, Reducir(f, t)
    PROVE  Limpio' /\ BitmapExacto'
<1>1. /\ Recibe /\ paso' = "pausa" /\ incidentes \subseteq incidentes'
      /\ UNCHANGED <<metadata, bloquesDat, escrito>>
      /\ "reducido" \notin incidentes' => bitmap' = bitmap
  BY DEF Reducir, Anota
<1>2. ASSUME Sano'
      PROVE  BloquesPropios' /\ SinPisar' /\ (Tranquilo' => Exacto')
  <2>1. BloquesPropios /\ SinPisar
    BY <1>1, <1>2, Antes, EnPedido
  <2>2. bitmap' = bitmap
    BY <1>1, <1>2 DEF Sano, SinNada, PisaBloques
  <2>3. Tranquilo' => Exacto
    BY <1>1, Antes DEF BitmapExacto, Tranquilo, Exacto
  <2>4. QED BY <1>1, <2>1, <2>2, <2>3, DiscoIgual
<1>3. QED BY <1>1, <1>2, Antes, TrasPedido

\* A file keeps its size.
LEMMA DiscoIgualar ==
    ASSUME Base, Limpio, BitmapExacto, NEW f \in Archivos, Igualar(f)
    PROVE  Limpio' /\ BitmapExacto'
<1>1. /\ Recibe /\ paso' = "pausa"
      /\ UNCHANGED <<bitmap, metadata, bloquesDat, escrito, incidentes>>
  BY DEF Igualar
<1>2. ASSUME Sano'
      PROVE  BloquesPropios' /\ SinPisar' /\ (Tranquilo' => Exacto')
  <2>1. BloquesPropios /\ SinPisar
    BY <1>1, <1>2, Antes, EnPedido
  <2>2. Tranquilo' => Exacto
    BY <1>1, Antes DEF BitmapExacto, Tranquilo, Exacto
  <2>3. QED BY <1>1, <2>1, <2>2, DiscoIgual
<1>3. QED BY <1>1, <1>2, Antes, TrasPedido

\* A file grows over blocks that no other has, beyond the disk too.
LEMMA DiscoCrecerEnSuLugar ==
    ASSUME Base, Limpio, BitmapExacto, NEW f \in Archivos, NEW t \in Tamanios,
           CrecerEnSuLugar(f, t)
    PROVE  Limpio' /\ BitmapExacto'
<1>1. /\ Recibe /\ f \in DOMAIN metadata /\ t > metadata[f].tam
      /\ Siguientes(f, t) \cap bitmap = {}
      /\ bitmap' = Ocupar(bitmap, metadata[f].ini .. metadata[f].ini + Necesarios(t) - 1)
      /\ metadata' = Guardado(f, metadata[f].ini, t)
      /\ paso' = "pausa" /\ UNCHANGED <<bloquesDat, escrito>>
  BY DEF CrecerEnSuLugar, Existe
<1>2. /\ incidentes \subseteq incidentes'
      /\ "borde" \notin incidentes' => Siguientes(f, t) \subseteq Disco
  BY DEF CrecerEnSuLugar, Anota
<1>3. TypeOK
  BY DEF Base
<1>4. PICK a \in Int, n \in Nat :
            /\ a = metadata[f].ini /\ n = Ocupa(f) /\ n >= 1 /\ a < BlockCount
            /\ BloquesDe(f) = a .. a + n - 1
  BY <1>1, <1>3, Extension
<1>5. PICK m \in Nat : m = Necesarios(t) /\ Tira(a, t) = a .. a + m - 1 /\ n <= m
                       /\ Necesarios(metadata[f].tam) <= Necesarios(t)
  <2>1. t \in Nat /\ metadata[f].tam \in Nat
    BY <1>1, <1>3, Metadatos, Tope
  <2>2. t > 0 /\ metadata[f].tam <= t
    BY <1>1, <2>1
  <2>3. Necesarios(t) \in Nat /\ Necesarios(t) >= 1 /\ Necesarios(metadata[f].tam) <= Necesarios(t)
    BY <2>1, <2>2, Bloques
  <2>4. Tira(a, t) = a .. a + Necesarios(t) - 1
    BY <2>1, <2>2, TiraDe
  <2>5. Ocupa(f) <= Necesarios(t)
    BY <1>3, <1>1, <2>1, <2>3, Metadatos DEF Ocupa, Mayor
  <2>6. QED BY <1>4, <2>3, <2>4, <2>5
<1>6. Siguientes(f, t) = a + n .. a + m - 1
  BY <1>4, <1>5 DEF Siguientes
<1>7. \A b : b \in Tira(a, t) <=> b \in BloquesDe(f) \/ b \in Siguientes(f, t)
  <2>1. \A b : b \in a .. a + m - 1 <=> b \in a .. a + n - 1 \/ b \in a + n .. a + m - 1
    <3>1. a \in Int /\ n \in Nat /\ m \in Nat /\ n <= m
      BY <1>4, <1>5
    <3>2. QED BY ONLY <3>1
  <2>2. QED BY <1>4, <1>5, <1>6, <2>1
<1>8. ASSUME Sano'
      PROVE  BloquesPropios' /\ SinPisar' /\ (Tranquilo' => Exacto')
  <2>1. BloquesPropios /\ SinPisar
    BY <1>1, <1>2, <1>8, Antes, EnPedido
  <2>2. a \in Disco /\ t \in Tamanios \cup {0} /\ a >= 0
    BY <1>1, <1>4, <2>1, ConstantesOK DEF BloquesPropios, Disco
  <2>3. ASSUME NEW g \in DOMAIN metadata, g # f
        PROVE  Tira(a, t) \cap BloquesDe(g) = {}
    <3>1. SUFFICES ASSUME NEW b \in Siguientes(f, t), b \in BloquesDe(g) PROVE FALSE
      BY <1>1, <1>7, <2>1, <2>3 DEF BloquesPropios
    <3>2. b \notin Disco
      BY <1>1, <2>1, <3>1 DEF SinPisar
    <3>3. PICK x \in Int, o \in Nat : x < BlockCount /\ BloquesDe(g) = x .. x + o - 1
      BY <1>3, Extension
    <3>4. PICK u \in Nat : u = BlockCount - 1
      BY ConstantesOK
    <3>5. b \in Int /\ a + n <= b /\ b <= a + m - 1 /\ x <= b /\ b <= x + o - 1
      BY <1>6, <3>1, <3>3
    <3>6. b > u /\ x <= u /\ a <= u /\ u \in Disco
      <4>1. b \in Nat
        BY <1>4, <2>2, <3>5
      <4>2. Disco = 0 .. u
        BY <3>4 DEF Disco
      <4>3. b > u
        BY <3>2, <4>1, <4>2
      <4>4. BlockCount = u + 1
        BY <3>4, ConstantesOK
      <4>5. QED BY <1>4, <3>3, <4>2, <4>3, <4>4
    <3>7. u \in BloquesDe(g)
      BY <3>3, <3>5, <3>6
    <3>8. CASE a + n <= u
      <4>1. u \in Siguientes(f, t)
        BY <1>6, <3>5, <3>6, <3>8
      <4>2. u \in bitmap
        BY <2>1, <3>6, <3>7 DEF SinPisar
      <4>3. QED BY <1>1, <4>1, <4>2
    <3>9. CASE ~(a + n <= u)
      <4>1. u \in BloquesDe(f)
        BY <1>4, <3>6, <3>9
      <4>2. QED BY <1>1, <2>1, <2>3, <3>7, <4>1 DEF BloquesPropios
    <3>10. QED BY <3>8, <3>9
  <2>4. ASSUME NEW e \in escrito', e[1] = f
        PROVE  e[2] < Necesarios(t) /\ contenido'[a + e[2]] = e
    <3>1. e \in escrito
      BY <1>1, <2>4
    <3>2. /\ e[2] < Necesarios(metadata[f].tam) /\ contenido[a + e[2]] = e
      BY <1>4, <2>1, <2>4, <3>1 DEF BloquesPropios
    <3>3. PICK k \in Nat : k = e[2]
      BY <1>3, <2>1, <3>1, EscritoDentro
    <3>4. PICK o \in Nat : o = Necesarios(metadata[f].tam)
      BY <1>1, <1>3, Metadatos
    <3>5. k < m
      BY <1>5, <3>2, <3>3, <3>4
    <3>6. QED BY <1>1, <1>5, <3>2, <3>3, <3>5
  <2>5. BloquesPropios'
    <3>1. metadata' = Guardado(f, a, t) /\ escrito' \subseteq escrito
      BY <1>1, <1>4
    <3>2. QED BY <1>1, <1>3, <2>1, <2>2, <2>3, <2>4, <3>1, PropiosTras
  <2>6. bitmap' = bitmap \cup (Tira(a, t) \cap Disco)
    BY <1>1, <1>4, <1>5 DEF Ocupar
  <2>7. SinPisar'
    <3> DEFINE deja == {}
    <3>1. \A g \in DOMAIN metadata : g # f => deja \cap BloquesDe(g) = {}
      OBVIOUS
    <3>2. bitmap' = (bitmap \ deja) \cup (Tira(a, t) \cap Disco)
      BY <2>6
    <3>3. metadata' = Guardado(f, a, t) /\ f \in Archivos
      BY <1>1, <1>4
    <3> HIDE DEF deja
    <3>4. QED BY <1>3, <2>1, <2>2, <3>1, <3>2, <3>3, SinPisarTras
  <2>8. ASSUME Tranquilo'
        PROVE  Exacto'
    <3>1. bitmap = UNION {BloquesDe(g) : g \in DOMAIN metadata}
      BY <1>2, <2>8, Antes DEF BitmapExacto, Tranquilo
    <3>2. BloquesDe(f) \subseteq bitmap /\ bitmap \subseteq Disco
      BY <1>1, <1>3, <3>1 DEF TypeOK
    <3>3. Siguientes(f, t) \subseteq Disco
      BY <1>2, <2>8 DEF Tranquilo, SinNada
    <3>4. bitmap' = (bitmap \ BloquesDe(f)) \cup Tira(a, t)
      BY <1>7, <2>6, <3>2, <3>3
    <3>5. \A g \in DOMAIN metadata : g # f => BloquesDe(f) \cap BloquesDe(g) = {}
      BY <1>1, <2>1 DEF BloquesPropios
    <3>6. metadata' = Guardado(f, a, t)
      BY <1>1, <1>4
    <3> DEFINE deja == BloquesDe(f)
    <3>7. /\ bitmap' = (bitmap \ deja) \cup Tira(a, t)
          /\ \A g \in DOMAIN metadata : g # f => deja \cap BloquesDe(g) = {}
          /\ Existe(f) => deja = BloquesDe(f)
      BY <3>4, <3>5
    <3> HIDE DEF deja
    <3>8. bitmap' = UNION {BloquesDe(g)' : g \in DOMAIN metadata'}
      BY <1>3, <2>1, <2>2, <3>1, <3>6, <3>7, ExactoTras
    <3>9. QED BY <3>8 DEF Exacto
  <2>9. QED BY <2>5, <2>7, <2>8
<1>9. QED BY <1>1, <1>2, <1>8, Antes, TrasPedido

\* A file goes, to grow, to a hole where no other is.
LEMMA DiscoCrecerEn ==
    ASSUME TypeOK, BloquesPropios, SinPisar, NEW f \in DOMAIN metadata, NEW t \in Tamanios,
           metadata[f].tam < t, ExisteEspacioContiguo(Necesarios(t)) # 0, ~Trunco(f),
           CrecerEn(ExisteEspacioContiguo(Necesarios(t)), f, t), escrito' = escrito
    PROVE  BloquesPropios' /\ SinPisar' /\ (Exacto => Exacto')
<1> DEFINE destino == ExisteEspacioContiguo(Necesarios(t))
<1>1. t \in Nat /\ t > 0 /\ metadata[f].tam \in Nat /\ metadata[f].tam <= t
  <2>1. t \in Nat /\ metadata[f].tam \in Nat
    BY Metadatos, Tope
  <2>2. QED BY <2>1
<1>2. PICK m \in Nat : m = Necesarios(t) /\ m >= 1
  BY <1>1, Bloques
<1>3. /\ destino \in Disco /\ destino + m <= BlockCount
      /\ (destino .. destino + m - 1) \cap bitmap = {}
      /\ CrecerEn(destino, f, t)
  BY <1>2, Hueco
<1> HIDE DEF destino
<1>4. PICK a \in Int, n \in Nat :
            /\ a = metadata[f].ini /\ n = Ocupa(f) /\ n >= 1 /\ a < BlockCount
            /\ BloquesDe(f) = a .. a + n - 1
  BY Extension
<1>5. n <= m
  <2>1. Necesarios(metadata[f].tam) <= m
    BY <1>1, <1>2, Bloques
  <2>2. QED BY <1>2, <1>4, <2>1, Metadatos DEF Ocupa, Mayor
<1>6. a >= 0 /\ destino \in Nat /\ BloquesDe(f) \subseteq Celdas
  BY <1>3, <1>4, EnCeldas DEF BloquesPropios, Disco
<1>7. Tira(destino, t) = destino .. destino + m - 1 /\ Tira(destino, t) \subseteq Disco
  <2>1. Tira(destino, t) = destino .. destino + m - 1
    BY <1>1, <1>2, TiraDe
  <2>2. BlockCount \in Nat
    BY ConstantesOK
  <2>3. QED BY <1>3, <1>6, <2>1, <2>2 DEF Disco
<1>8. \A g \in DOMAIN metadata : Tira(destino, t) \cap BloquesDe(g) = {}
  BY <1>3, <1>7 DEF SinPisar
<1>9. destino < a \/ a + n <= destino
  <2>1. destino \in Tira(destino, t)
    BY <1>2, <1>6, <1>7
  <2>2. destino \notin a .. a + n - 1
    BY <1>4, <1>8, <2>1
  <2>3. QED BY <1>6, <2>2
<1>10. destino .. destino + n - 1 \subseteq Tira(destino, t)
  BY <1>5, <1>6, <1>7
<1>11. Disco \subseteq Celdas
  BY ConstantesOK, Tope DEF Disco, Celdas
<1> DEFINE d == MoverArchivo(destino, a, n)
<1>12. Movido(d, destino, a, n)
  <2>1. DOMAIN contenido = Celdas /\ a \in Nat /\ enteros \in Nat
    BY <1>6 DEF TypeOK
  <2>2. a .. a + n - 1 \subseteq Celdas /\ destino .. destino + n - 1 \subseteq Celdas
    BY <1>4, <1>6, <1>7, <1>10, <1>11
  <2>3. QED BY <1>6, <1>9, <2>1, <2>2, MoverBien
<1>13. /\ bitmap' = Ocupar(d.bits, destino .. destino + m - 1)
       /\ contenido' = d.datos /\ metadata' = Guardado(f, destino, t)
  BY <1>2, <1>3, <1>4 DEF CrecerEn
<1> HIDE DEF d
<1>14. bitmap' = (bitmap \ BloquesDe(f)) \cup Tira(destino, t)
  BY <1>4, <1>7, <1>10, <1>12, <1>13 DEF Ocupar, Movido
<1>15. f \in Archivos /\ t \in Tamanios \cup {0}
  BY Metadatos
<1>16. \A g \in DOMAIN metadata : g # f => BloquesDe(f) \cap BloquesDe(g) = {}
  BY DEF BloquesPropios
<1>17. ASSUME NEW g \in DOMAIN metadata, NEW b \in BloquesDe(g)
       PROVE  contenido'[b] = contenido[b]
  <2>1. b \in Celdas /\ b \notin Tira(destino, t)
    BY <1>8, EnCeldas DEF BloquesPropios
  <2>2. QED BY <1>10, <1>12, <1>13, <2>1 DEF Movido
<1>18. ASSUME NEW e \in escrito', e[1] = f
       PROVE  e[2] < Necesarios(t) /\ contenido'[destino + e[2]] = e
  <2>1. e[2] < Necesarios(metadata[f].tam) /\ contenido[a + e[2]] = e
    BY <1>4, <1>18 DEF BloquesPropios
  <2>2. PICK k \in Nat : k = e[2]
    BY EscritoDentro
  <2>3. PICK o \in Nat : o = Necesarios(metadata[f].tam) /\ o <= n
    BY <1>4, Metadatos
  <2>4. k < m /\ k \in 0 .. n - 1
    BY <1>5, <2>1, <2>2, <2>3
  <2>7. a + k < enteros
    BY <1>4, <1>6, <1>18, <2>2 DEF Trunco, TypeOK
  <2>5. contenido'[destino + k] = contenido[a + k]
    BY <1>12, <1>13, <2>4, <2>7 DEF Movido
  <2>6. QED BY <1>2, <2>1, <2>2, <2>4, <2>5
<1>19. BloquesPropios'
  BY <1>3, <1>8, <1>13, <1>15, <1>17, <1>18, PropiosTras
<1> DEFINE deja == BloquesDe(f)
<1>20. /\ \A g \in DOMAIN metadata : g # f => deja \cap BloquesDe(g) = {}
       /\ bitmap' = (bitmap \ deja) \cup (Tira(destino, t) \cap Disco)
       /\ bitmap' = (bitmap \ deja) \cup Tira(destino, t)
       /\ Existe(f) => deja = BloquesDe(f)
  BY <1>7, <1>14, <1>16
<1> HIDE DEF deja
<1>21. SinPisar'
  <2>1. metadata' = Guardado(f, destino, t)
    BY <1>13
  <2>2. /\ \A g \in DOMAIN metadata : g # f => deja \cap BloquesDe(g) = {}
        /\ bitmap' = (bitmap \ deja) \cup (Tira(destino, t) \cap Disco)
    BY <1>20
  <2>3. QED BY <1>3, <1>15, <2>1, <2>2, SinPisarTras
<1>22. ASSUME Exacto
       PROVE  Exacto'
  <2>1. bitmap' = UNION {BloquesDe(g)' : g \in DOMAIN metadata'}
    BY <1>3, <1>13, <1>15, <1>20, <1>22, ExactoTras DEF Exacto
  <2>2. QED BY <2>1 DEF Exacto
<1>23. QED BY <1>19, <1>21, <1>22

\* When a request finds the hole.
LEMMA DiscoCrecerMoviendo ==
    ASSUME Base, Limpio, BitmapExacto, NEW f \in Archivos, NEW t \in Tamanios,
           CrecerMoviendo(f, t)
    PROVE  Limpio' /\ BitmapExacto'
<1>1. /\ Recibe /\ f \in DOMAIN metadata /\ t > metadata[f].tam
      /\ ExisteEspacioContiguo(Necesarios(t)) # 0
      /\ CrecerEn(ExisteEspacioContiguo(Necesarios(t)), f, t)
      /\ paso' = "pausa" /\ escrito' = escrito
      /\ incidentes' = incidentes \cup Anota("trunco", Trunco(f))
  BY DEF CrecerMoviendo, CrecerEn, NoCabe, Existe
<1>5. incidentes \subseteq incidentes' /\ (Sano' => ~Trunco(f))
  BY <1>1 DEF Sano, SinNada, PisaBloques, Anota
<1>2. TypeOK /\ metadata[f].tam < t
  <2>1. TypeOK
    BY DEF Base
  <2>2. PICK x \in Nat, y \in Nat : x = metadata[f].tam /\ y = t
    BY <1>1, <2>1, Metadatos, Tope
  <2>3. QED BY <1>1, <2>1, <2>2
<1>3. ASSUME Sano'
      PROVE  BloquesPropios' /\ SinPisar' /\ (Tranquilo' => Exacto')
  <2>1. BloquesPropios /\ SinPisar
    BY <1>1, <1>3, <1>5, Antes, EnPedido
  <2>2. Tranquilo' => Exacto
    BY <1>5, Antes DEF BitmapExacto, Tranquilo, Exacto
  <2>3. QED BY <1>1, <1>2, <1>3, <1>5, <2>1, <2>2, DiscoCrecerEn
<1>4. QED BY <1>1, <1>3, <1>5, Antes, TrasPedido

\* When it has to be made first.
LEMMA DiscoEmpezar ==
    ASSUME Base, Limpio, BitmapExacto, NEW f \in Archivos, NEW t \in Tamanios,
           EmpezarCompactacion(f, t)
    PROVE  Limpio' /\ BitmapExacto'
<1>1. /\ Recibe /\ libre' = EncontrarBloqueLibre /\ i' = libre' + 1
      /\ UNCHANGED <<bitmap, metadata, bloquesDat, escrito>>
  BY DEF EmpezarCompactacion, NoCabe
<1>2. /\ incidentes \subseteq incidentes'
      /\ "lleno" \notin incidentes' => libre' # -1
  BY DEF EmpezarCompactacion, Anota
<1>3. TypeOK
  BY DEF Base
<1>4. ASSUME Sano'
      PROVE  BloquesPropios' /\ SinPisar' /\ Repartidos'
  <2>1. BloquesPropios /\ SinPisar
    BY <1>1, <1>2, <1>4, Antes, EnPedido
  <2>2. PICK l \in Disco \ bitmap : l = libre'
    <3>1. libre' # -1
      BY <1>2, <1>4 DEF Sano, SinNada, PisaBloques
    <3>2. QED BY <1>1, <3>1, BloqueLibre
  <2>3. l \in Nat
    BY <2>2 DEF Disco
  <2>4. ASSUME NEW g \in DOMAIN metadata
        PROVE  Ultimo(g) < l \/ Ultimo(g) >= l + 1
    <3>1. PICK a \in Int, n \in Nat : n >= 1 /\ BloquesDe(g) = a .. a + n - 1
                                      /\ Ultimo(g) = a + n - 1
      BY <1>3, Extension
    <3>2. l \notin a .. a + n - 1
      BY <2>1, <2>2, <3>1 DEF SinPisar
    <3>3. QED BY <2>3, <3>1, <3>2
  <2>5. \A g : Ultimo(g)' = Ultimo(g)
    BY <1>1 DEF Ultimo, Ocupa
  <2>6. libre' >= 0 /\ libre' \notin bitmap'
    BY <1>1, <2>2, <2>3
  <2>7. \A g \in DOMAIN metadata' : Ultimo(g)' < libre' \/ Ultimo(g)' >= i'
    BY <1>1, <2>2, <2>4, <2>5
  <2>8. Repartidos'
    BY <2>6, <2>7 DEF Repartidos
  <2>9. QED BY <1>1, <2>1, <2>8, DiscoIgual
<1>5. Tranquilo' => Exacto'
  BY <1>1, <1>2, Antes, DiscoIgual DEF BitmapExacto, Tranquilo, Exacto
<1>6. QED BY <1>4, <1>5 DEF Limpio, BitmapExacto, Tranquilo, Exacto

\* IO_FS_WRITE changes blocks of its own file, and no other.
LEMMA DiscoAcceder ==
    ASSUME Base, Limpio, BitmapExacto, NEW f \in Archivos, NEW tramo \in Tramos,
           NEW escribe \in BOOLEAN, Acceder(f, tramo[1], tramo[2], escribe)
    PROVE  Limpio' /\ BitmapExacto'
<1> DEFINE p == tramo[1]
           n == tramo[2]
           tocados == p \div BlockSize .. (p + n - 1) \div BlockSize
           ini == metadata[f].ini
<1>0. p \in Nat /\ n \in Nat \ {0}
  BY ConstantesOK
<1>1. /\ Recibe /\ f \in DOMAIN metadata /\ ini >= 0 /\ p + n <= metadata[f].tam
      /\ paso' = "pausa" /\ UNCHANGED <<bitmap, metadata, incidentes>>
  BY DEF Acceder, Existe
<1>2. \/ /\ contenido' = [b \in Celdas |-> IF b - ini \in tocados THEN <<f, b - ini>>
                                           ELSE contenido[b]]
         /\ escrito' = escrito \cup {<<f, k>> : k \in tocados}
      \/ UNCHANGED <<bloquesDat, escrito>>
  BY DEF Acceder
<1>3. TypeOK
  BY DEF Base
<1>4. \A k \in tocados : k \in Nat /\ k < Necesarios(metadata[f].tam)
  <2>1. metadata[f].tam \in Nat /\ Necesarios(metadata[f].tam) \in Nat
    BY <1>1, <1>3, Metadatos
  <2>2. /\ p \div BlockSize \in Nat /\ (p + n - 1) \div BlockSize \in Int
        /\ (p + n - 1) \div BlockSize < Necesarios(metadata[f].tam)
    <3> HIDE DEF p, n
    <3>1. QED BY <1>0, <1>1, <2>1, Tocados
  <2>3. PICK x \in Nat, y \in Int, z \in Nat :
            x = p \div BlockSize /\ y = (p + n - 1) \div BlockSize
            /\ z = Necesarios(metadata[f].tam)
    BY <2>1, <2>2
  <2>4. \A k \in x .. y : k \in Nat /\ k < z
    BY <2>2, <2>3
  <2>5. QED BY <2>3, <2>4
<1> HIDE DEF tocados
<1>5. PICK a \in Int, o \in Nat : /\ a = ini /\ Necesarios(metadata[f].tam) <= o
                                  /\ BloquesDe(f) = a .. a + o - 1
  BY <1>1, <1>3, Extension
<1>6. ASSUME NEW k \in tocados
      PROVE  a + k \in BloquesDe(f) /\ (a + k) - ini = k
  <2>1. PICK z \in Nat : z = Necesarios(metadata[f].tam)
    BY <1>1, <1>3, Metadatos
  <2>2. k \in Nat /\ k < z /\ z <= o
    BY <1>4, <1>5, <2>1
  <2>3. a + k \in a .. a + o - 1 /\ (a + k) - a = k
    BY <2>2
  <2>4. QED BY <1>5, <2>3
<1>7. \A b \in Celdas : b \in Int
  BY DEF Celdas
<1>8. BloquesDe(f) \subseteq Celdas
  BY <1>1, <1>3, EnCeldas
<1>9. ASSUME NEW b \in Celdas, b - ini \in tocados
      PROVE  b \in BloquesDe(f)
  <2>1. b = a + (b - ini)
    BY <1>5, <1>7
  <2>2. QED BY <1>6, <1>9, <2>1
<1>10. BloquesPropios => BloquesPropios'
  <2>1. CASE UNCHANGED <<bloquesDat, escrito>>
    BY <1>1, <2>1, DiscoIgual
  <2>2. CASE /\ contenido' = [b \in Celdas |-> IF b - ini \in tocados THEN <<f, b - ini>>
                                              ELSE contenido[b]]
             /\ escrito' = escrito \cup {<<f, k>> : k \in tocados}
    <3>1. SUFFICES ASSUME BloquesPropios PROVE BloquesPropios'
      OBVIOUS
    <3>2. \A g : BloquesDe(g)' = BloquesDe(g)
      BY <1>1 DEF BloquesDe, Ocupa
    <3>3. ASSUME NEW e \in escrito'
          PROVE  /\ e[1] \in DOMAIN metadata
                 /\ e[2] < Necesarios(metadata[e[1]].tam)
                 /\ contenido'[metadata[e[1]].ini + e[2]] = e
      <4>1. CASE e \in escrito
        <5>1. /\ e[1] \in DOMAIN metadata /\ e[2] < Necesarios(metadata[e[1]].tam)
              /\ contenido[metadata[e[1]].ini + e[2]] = e
          BY <3>1, <4>1 DEF BloquesPropios, Existe
        <5>2. /\ e[2] \in Nat /\ e = <<e[1], e[2]>>
              /\ metadata[e[1]].ini + e[2] \in BloquesDe(e[1])
              /\ BloquesDe(e[1]) \subseteq Celdas
          BY <1>3, <3>1, <4>1, EscritoDentro
        <5>3. PICK b \in Celdas : b = metadata[e[1]].ini + e[2] /\ b \in BloquesDe(e[1])
          BY <5>2
        <5>4. CASE b - ini \in tocados
          <6>1. b \in BloquesDe(f)
            BY <1>9, <5>4
          <6>2. e[1] = f
            BY <1>1, <3>1, <5>1, <5>3, <6>1 DEF BloquesPropios
          <6>3. b - ini = e[2]
            BY <1>5, <5>2, <5>3, <6>2
          <6>4. QED BY <2>2, <5>1, <5>2, <5>3, <5>4, <6>2, <6>3
        <5>5. CASE b - ini \notin tocados
          BY <2>2, <5>1, <5>3, <5>5
        <5>6. QED BY <5>4, <5>5
      <4>2. CASE e \notin escrito
        <5>1. PICK k \in tocados : e = <<f, k>>
          BY <2>2, <3>3, <4>2
        <5>2. a + k \in Celdas /\ (a + k) - ini = k
          BY <1>6, <1>8
        <5>3. contenido'[a + k] = <<f, k>>
          BY <2>2, <5>2
        <5>4. QED BY <1>1, <1>4, <1>5, <5>1, <5>3
      <4>3. QED BY <4>1, <4>2
    <3>4. QED BY <1>1, <3>1, <3>2, <3>3 DEF BloquesPropios, Existe
  <2>3. QED BY <1>2, <2>1, <2>2
<1>11. (SinPisar => SinPisar') /\ (Exacto => Exacto')
  <2>1. \A g : BloquesDe(g)' = BloquesDe(g)
    BY <1>1 DEF BloquesDe, Ocupa
  <2>2. QED BY <1>1, <2>1 DEF SinPisar, Exacto, Disco
<1>12. ASSUME Sano'
       PROVE  BloquesPropios' /\ SinPisar' /\ (Tranquilo' => Exacto')
  <2>1. BloquesPropios /\ SinPisar
    BY <1>1, <1>12, Antes, EnPedido
  <2>2. Tranquilo' => Exacto
    BY <1>1, Antes DEF BitmapExacto, Tranquilo, Exacto
  <2>3. QED BY <1>10, <1>11, <2>1, <2>2
<1>13. QED BY <1>1, <1>12, Antes, TrasPedido

\* What changes neither the files nor the bits, and is not a turn of the loop.
LEMMA DiscoQuieto ==
    ASSUME Limpio, BitmapExacto, UNCHANGED <<bitmap, metadata, bloquesDat, escrito>>,
           incidentes \subseteq incidentes', paso' # "compacta"
    PROVE  Limpio' /\ BitmapExacto'
<1>1. Limpio'
  <2>1. Sano' => BloquesPropios'
    BY Antes, DiscoIgual DEF Limpio
  <2>2. Sano' /\ "corte" \notin incidentes' => SinPisar' /\ Repartidos'
    BY Antes, DiscoIgual DEF Limpio, Repartidos
  <2>3. QED BY <2>1, <2>2 DEF Limpio
<1>2. BitmapExacto'
  BY Antes, DiscoIgual DEF BitmapExacto, Tranquilo, Exacto
<1>3. QED BY <1>1, <1>2

\* Every file is behind libre or ahead, and the loop passes over none.
LEMMA DiscoSaltar ==
    ASSUME Base, Limpio, BitmapExacto, SaltarBloque
    PROVE  Limpio' /\ BitmapExacto'
<1>1. /\ Compactando /\ i' = i + libre + 1
      /\ i \notin bitmap \/ EncontrarArchivoPorBloque(i) = 0
      /\ incidentes' = incidentes \cup Anota("salto", Saltea(metadata, i'))
      /\ UNCHANGED <<paso, bitmap, metadata, bloquesDat, libre, escrito>>
  BY DEF SaltarBloque
<1>2. /\ incidentes \subseteq incidentes'
      /\ "salto" \notin incidentes' => ~Saltea(metadata, i')
  BY <1>1 DEF Anota
<1>3. TypeOK /\ EnCompactacion /\ EnLista
  BY DEF Base
<1>4. i \in Disco /\ libre \in Int /\ BlockCount \in Nat
  <2>1. libre \in -1 .. BlockCount - 1
    BY <1>1, <1>3, Avance DEF TypeOK
  <2>2. i \in Disco
    BY <1>1, <1>3, Avance DEF TypeOK
  <2>3. QED BY <2>1, <2>2, ConstantesOK
<1>5. Sano' => Sano
  BY <1>2, Antes
<1>6. BloquesPropios => BloquesPropios'
  BY <1>1, DiscoIgual
<1>7. ASSUME Sano', "corte" \notin incidentes'
      PROVE  SinPisar' /\ Repartidos'
  <2>1. SinPisar /\ Repartidos
    BY <1>2, <1>5, <1>7 DEF Limpio
  <2>2. /\ libre >= 0 /\ libre \notin bitmap
        /\ \A f \in DOMAIN metadata : Ultimo(f) < libre \/ Ultimo(f) >= i
    BY <1>1, <2>1 DEF Repartidos, Compactando
  <2>3. ASSUME NEW f \in DOMAIN metadata
        PROVE  Ultimo(f) < libre \/ Ultimo(f) >= i'
    <3>1. PICK a \in Int, n \in Nat :
              /\ a = metadata[f].ini /\ n = Ocupa(f) /\ n >= 1
              /\ Necesarios(metadata[f].tam) <= n
              /\ BloquesDe(f) = a .. a + n - 1 /\ Ultimo(f) = a + n - 1
              /\ BloquesDe(f) = Tira(metadata[f].ini, metadata[f].tam)
      BY <1>3, Extension
    <3>2. i \notin a .. a + n - 1
      <4>1. CASE i \notin bitmap
        BY <1>4, <2>1, <3>1, <4>1 DEF SinPisar
      <4>2. CASE EncontrarArchivoPorBloque(i) = 0
        <5>1. Len(lista) \in Nat
          BY <1>3, LenProperties DEF TypeOK
        <5>2. \A l \in 1 .. Len(lista) : ~Alcanza(lista[l].nombre, i)
          BY <4>2, <5>1, PorBloque
        <5>3. ~Alcanza(f, i)
          BY <1>3, <5>2 DEF EnLista
        <5>4. PICK m \in Nat : m = Necesarios(metadata[f].tam) /\ n <= m + 1
          <6>1. Necesarios(metadata[f].tam) \in Nat
            BY <1>3, Metadatos
          <6>2. QED BY <3>1, <6>1 DEF Ocupa, Mayor
        <5>5. i \notin a .. a + m
          BY <3>1, <5>3, <5>4 DEF Alcanza
        <5>6. a .. a + n - 1 \subseteq a .. a + m
          BY <5>4
        <5>7. QED BY <5>5, <5>6
      <4>3. QED BY <1>1, <4>1, <4>2
    <3>3. ~(a .. a + n - 1 \subseteq i + 1 .. i' - 1)
      <4>1. ~Saltea(metadata, i')
        BY <1>2, <1>7 DEF Sano, SinNada, PisaBloques
      <4>2. ~(Tira(metadata[f].ini, metadata[f].tam) \subseteq i + 1 .. i' - 1)
        BY <4>1 DEF Saltea, Tira
      <4>3. QED BY <3>1, <4>2
    <3>4. PICK j \in Int, s \in Int : j = i /\ s = i'
      BY <1>1, <1>4 DEF Disco
    <3>5. a + n - 1 < libre \/ a + n - 1 >= j
      BY <2>2, <3>1, <3>4
    <3>6. a + n - 1 >= j => a + n - 1 >= s
      BY <3>1, <3>2, <3>3, <3>4
    <3>7. QED BY <3>1, <3>4, <3>5, <3>6
  <2>4. \A f : Ultimo(f)' = Ultimo(f)
    BY <1>1 DEF Ultimo, Ocupa
  <2>5. Repartidos'
    BY <1>1, <2>2, <2>3, <2>4 DEF Repartidos
  <2>6. QED BY <1>1, <2>1, <2>5, DiscoIgual
<1>8. Limpio'
  BY <1>5, <1>6, <1>7 DEF Limpio
<1>9. BitmapExacto'
  BY <1>1, <1>2, Antes, DiscoIgual DEF BitmapExacto, Tranquilo, Exacto
<1>10. QED BY <1>8, <1>9

\* A file goes down to libre, and the free space goes up to what follows it.
LEMMA DiscoCompactar ==
    ASSUME Base, Limpio, BitmapExacto, CompactarArchivo
    PROVE  Limpio' /\ BitmapExacto'
<1>1. TypeOK /\ EnCompactacion
  BY DEF Base
<1>2. PICK f \in DOMAIN metadata :
              /\ Compactando /\ i \in bitmap /\ Alcanza(f, i)
              /\ LET d == MoverArchivo(libre, metadata[f].ini, Necesarios(metadata[f].tam))
                 IN  bitmap' = d.bits /\ contenido' = d.datos /\ enteros' = d.enteros
              /\ metadata' = Guardado(f, libre, metadata[f].tam)
              /\ libre' \in SiguienteLibre(bitmap', libre) /\ i' = i + libre' + 1
              /\ incidentes' = incidentes
                    \cup Anota("vacio", metadata[f].tam = 0)
                    \cup Anota("trunco", Trunco(f))
                    \cup Anota("salto", Saltea(metadata', i'))
              /\ UNCHANGED <<paso, pedido, lista, enDisco, escrito>>
  BY <1>1, CompactarPartes
<1>3. /\ incidentes \subseteq incidentes'
      /\ "corte" \in incidentes' => "corte" \in incidentes
      /\ "vacio" \notin incidentes' => metadata[f].tam # 0
      /\ "trunco" \notin incidentes' => ~Trunco(f)
      /\ "salto" \notin incidentes' => ~Saltea(metadata', i')
  BY <1>2 DEF Anota
<1>4. ASSUME Sano'
      PROVE  BloquesPropios' /\ SinPisar' /\ Repartidos' /\ (Exacto => Exacto')
  <2>1. BloquesPropios /\ SinPisar /\ Repartidos
    <3>1. Sano /\ "corte" \notin incidentes
      BY <1>1, <1>2, <1>3, <1>4, Antes DEF Sano, Base, LoGuardado, Compactando
    <3>2. QED BY <3>1 DEF Limpio
  <2>2. metadata[f].tam # 0 /\ ~Trunco(f) /\ ~Saltea(metadata', i')
    BY <1>3, <1>4 DEF Sano, SinNada, PisaBloques
  <2>3. PICK a \in Nat, n \in Nat :
            /\ a = metadata[f].ini /\ n = Ocupa(f) /\ n >= 1 /\ a < BlockCount
            /\ BloquesDe(f) = a .. a + n - 1 /\ Ultimo(f) = a + n - 1
            /\ Tira(metadata[f].ini, metadata[f].tam) = a .. a + n - 1
            /\ Necesarios(metadata[f].tam) = n
    <3>1. PICK a \in Int, n \in Nat :
            /\ a = metadata[f].ini /\ n = Ocupa(f) /\ n >= 1 /\ a < BlockCount
            /\ BloquesDe(f) = a .. a + n - 1 /\ Ultimo(f) = a + n - 1
            /\ BloquesDe(f) = Tira(metadata[f].ini, metadata[f].tam)
      BY <1>1, Extension
    <3>2. Necesarios(metadata[f].tam) = n
      BY <1>1, <2>2, <3>1, Metadatos
    <3>3. a >= 0
      BY <2>1, <3>1 DEF BloquesPropios
    <3>4. QED BY <3>1, <3>2, <3>3
  <2>4. PICK l \in Nat, j \in Nat : l = libre /\ j = i /\ l < j /\ j \in Disco /\ l \in Disco
    <3>1. libre >= 0
      BY <1>2, <2>1 DEF Repartidos, Compactando
    <3>2. /\ i \in Disco /\ libre \in -1 .. BlockCount - 1 /\ libre < i
      <4>1. 0 \in -1 .. BlockCount
        BY ConstantesOK
      <4>2. QED BY <1>1, <1>2, <4>1, Avance
    <3>3. QED BY <3>1, <3>2, ConstantesOK DEF Disco
  <2>5. /\ l \notin bitmap
        /\ \A g \in DOMAIN metadata : Ultimo(g) < l \/ Ultimo(g) >= j
    BY <1>2, <2>1, <2>4 DEF Repartidos, Compactando
  <2>6. a <= j /\ j <= a + n
    BY <1>2, <2>3, <2>4 DEF Alcanza
  <2>7. a + n - 1 >= j
    <3>1. a + n - 1 < l \/ a + n - 1 >= j
      BY <2>3, <2>5
    <3>2. QED BY <2>4, <2>6, <3>1
  <2>8. l < a
    <3>1. l \notin a .. a + n - 1
      BY <2>1, <2>3, <2>4, <2>5 DEF SinPisar
    <3>2. QED BY <2>4, <2>7, <3>1
  \* the others
  <2>9. ASSUME NEW g \in DOMAIN metadata, g # f
        PROVE  \E x \in Int, o \in Nat :
                  /\ BloquesDe(g) = x .. x + o - 1 /\ Ultimo(g) = x + o - 1 /\ o >= 1
                  /\ x + o - 1 < l \/ x > a + n - 1
    <3>1. PICK x \in Int, o \in Nat :
              BloquesDe(g) = x .. x + o - 1 /\ Ultimo(g) = x + o - 1 /\ o >= 1
      BY <1>1, Extension
    <3>2. x + o - 1 < l \/ x + o - 1 >= j
      BY <2>5, <3>1
    <3>3. \A b \in a .. a + n - 1 : b \notin x .. x + o - 1
      BY <2>1, <2>3, <2>9, <3>1 DEF BloquesPropios
    <3>4. j \in a .. a + n - 1
      BY <2>6, <2>7
    <3>5. x + o - 1 >= j => x > j
      BY <3>3, <3>4
    <3>6. x > j /\ x <= a + n - 1 => x \in a .. a + n - 1 /\ x \in x .. x + o - 1
      BY <2>6, <3>1
    <3>7. x > j => x > a + n - 1
      BY <3>3, <3>6
    <3>8. QED BY <3>1, <3>2, <3>5, <3>7
  <2>10. l .. l + n - 1 \subseteq 0 .. a + n - 1
    BY <2>8
  <2>11. ASSUME NEW g \in DOMAIN metadata, g # f
         PROVE  (l .. l + n - 1) \cap BloquesDe(g) = {}
    <3>1. PICK x \in Int, o \in Nat : /\ BloquesDe(g) = x .. x + o - 1
                                      /\ x + o - 1 < l \/ x > a + n - 1
      BY <2>9, <2>11
    <3>2. \A b \in x .. x + o - 1 : b \notin l .. l + n - 1
      BY <2>8, <3>1
    <3>3. QED BY <3>1, <3>2
  <2>12. BloquesDe(f) \subseteq Celdas /\ l .. l + n - 1 \subseteq Celdas
    <3>1. BloquesDe(f) \subseteq Celdas
      BY <1>1, <2>3, EnCeldas
    <3>2. a + n - 1 \in Celdas
      BY <2>3, <3>1
    <3>3. 0 .. a + n - 1 \subseteq Celdas
      <4>1. PICK z \in Nat : z = BlockCount + MaxBloques
        BY ConstantesOK, Tope
      <4>2. a + n - 1 <= z
        BY <3>2, <4>1 DEF Celdas
      <4>3. 0 .. a + n - 1 \subseteq 0 .. z
        BY <4>2
      <4>4. QED BY <4>1, <4>3 DEF Celdas
    <3>4. QED BY <2>10, <3>1, <3>3
  <2> DEFINE d == MoverArchivo(l, a, n)
  <2>13. Movido(d, l, a, n)
    <3>1. DOMAIN contenido = Celdas /\ enteros \in Nat
      BY <1>1 DEF TypeOK
    <3>2. a .. a + n - 1 \subseteq Celdas
      BY <2>3, <2>12
    <3>3. QED BY <2>8, <2>12, <3>1, <3>2, MoverBien
  <2>14. bitmap' = d.bits /\ contenido' = d.datos
    BY <1>2, <2>3, <2>4
  <2> HIDE DEF d
  <2>15. metadata' = Guardado(f, l, metadata[f].tam)
    BY <1>2, <2>4
  <2>16. /\ Tira(l, metadata[f].tam) = l .. l + n - 1
         /\ f \in Archivos /\ metadata[f].tam \in Tamanios \cup {0}
    <3>1. f \in Archivos /\ metadata[f].tam \in Tamanios \cup {0}
      BY <1>1, Metadatos
    <3>2. Mayor(1, n) = n
      BY <2>3 DEF Mayor
    <3>3. QED BY <2>3, <3>1, <3>2 DEF Tira
  <2>17. ASSUME NEW g \in DOMAIN metadata, g # f, NEW b \in BloquesDe(g)
         PROVE  contenido'[b] = contenido[b]
    <3>1. b \in Celdas
      BY <1>1, <2>1, EnCeldas DEF BloquesPropios
    <3>2. b \notin l .. l + n - 1
      BY <2>11, <2>17
    <3>3. QED BY <2>13, <2>14, <3>1, <3>2 DEF Movido
  <2>18. ASSUME NEW e \in escrito', e[1] = f
         PROVE  e[2] < Necesarios(metadata[f].tam) /\ contenido'[l + e[2]] = e
    <3>1. e \in escrito
      BY <1>2, <2>18
    <3>2. e[2] < n /\ contenido[a + e[2]] = e
      BY <2>1, <2>3, <2>18, <3>1 DEF BloquesPropios
    <3>3. PICK k \in Nat : k = e[2]
      BY <1>1, <2>1, <3>1, EscritoDentro
    <3>4. k \in 0 .. n - 1
      BY <3>2, <3>3
    <3>7. a + k < enteros
      <4>1. ~(metadata[f].ini + e[2] >= enteros)
        BY <2>2, <2>18, <3>1 DEF Trunco
      <4>2. enteros \in Nat
        BY <1>1 DEF TypeOK
      <4>3. QED BY <2>3, <3>3, <4>1, <4>2
    <3>5. contenido'[l + k] = contenido[a + k]
      BY <2>13, <2>14, <3>4, <3>7 DEF Movido
    <3>6. QED BY <2>3, <3>2, <3>3, <3>5
  <2>19. BloquesPropios'
    <3>1. escrito' \subseteq escrito
      BY <1>2
    <3>2. \A g \in DOMAIN metadata : g # f => Tira(l, metadata[f].tam) \cap BloquesDe(g) = {}
      BY <2>11, <2>16
    <3>3. QED BY <1>1, <2>1, <2>4, <2>15, <2>16, <2>17, <2>18, <3>1, <3>2, PropiosTras
  <2> DEFINE deja == BloquesDe(f)
  <2>20. /\ \A g \in DOMAIN metadata : g # f => deja \cap BloquesDe(g) = {}
         /\ bitmap' = (bitmap \ deja) \cup (Tira(l, metadata[f].tam) \cap Disco)
         /\ Existe(f) => deja = BloquesDe(f)
    BY <2>1, <2>3, <2>13, <2>14, <2>16 DEF Movido, BloquesPropios
  <2> HIDE DEF deja
  <2>21. SinPisar'
    BY <1>1, <2>1, <2>4, <2>15, <2>16, <2>20, SinPisarTras
  <2>22. ASSUME Exacto
         PROVE  Exacto'
    <3>1. BloquesDe(f) \subseteq Disco
      BY <1>1, <2>22 DEF Exacto, TypeOK
    <3>2. a + n - 1 \in Disco
      BY <2>3, <3>1
    <3>3. 0 .. a + n - 1 \subseteq Disco
      <4>1. PICK z \in Int : z = BlockCount - 1
        BY ConstantesOK
      <4>2. a + n - 1 <= z
        BY <3>2, <4>1 DEF Disco
      <4>3. 0 .. a + n - 1 \subseteq 0 .. z
        BY <4>2
      <4>4. QED BY <4>1, <4>3 DEF Disco
    <3>4. bitmap' = (bitmap \ deja) \cup Tira(l, metadata[f].tam)
      BY <2>10, <2>16, <2>20, <3>3
    <3>5. bitmap' = UNION {BloquesDe(g)' : g \in DOMAIN metadata'}
      BY <1>1, <2>1, <2>4, <2>15, <2>16, <2>20, <2>22, <3>4, ExactoTras DEF Exacto
    <3>6. QED BY <3>5 DEF Exacto
  <2>23. Repartidos'
    <3>1. SUFFICES ASSUME i' < BlockCount PROVE Repartidos'
      BY DEF Repartidos
    <3>2. PICK h : h = libre'
      OBVIOUS
    <3>3. PICK bits : bits = bitmap'
      OBVIOUS
    <3>4. h \in SiguienteLibre(bits, l) /\ l \in -1 .. BlockCount /\ l # -1
      BY <1>2, <2>4, <3>2, <3>3, ConstantesOK DEF Disco
    <3>5. /\ h \in -1 .. BlockCount /\ h >= 0
          /\ h < BlockCount => h \in Disco \ bits /\ h >= l
      BY <3>4, Siguiente
    <3>6. PICK s \in Int : s = i' /\ s = j + h + 1 /\ s < BlockCount
      <4>1. PICK s \in Int : s = j + h + 1
        BY <3>5
      <4>2. i' = i + libre' + 1
        BY <1>2
      <4>3. s = i'
        BY <2>4, <3>2, <4>1, <4>2
      <4>4. QED BY <3>1, <4>1, <4>3
    <3>7. h \in Disco \ bits /\ h >= l /\ h \in Nat
      BY <3>5, <3>6, ConstantesOK
    <3>8. /\ DOMAIN metadata' = DOMAIN metadata \cup {f}
          /\ metadata'[f].ini = l /\ metadata'[f].tam = metadata[f].tam
          /\ \A g \in DOMAIN metadata : g # f => metadata'[g] = metadata[g]
          /\ \A g \in DOMAIN metadata : g # f => Ultimo(g)' = Ultimo(g)
      <4>1. l \in -1 .. BlockCount - 1
        BY <2>4, ConstantesOK DEF Disco
      <4>2. QED BY <1>1, <2>15, <2>16, <4>1, TiraGuardada
    <3>9. Ultimo(f)' < h
      <4>1. Ultimo(f)' = l + n - 1
        <5>1. Ocupa(f)' = n
          BY <2>3, <3>8 DEF Ocupa
        <5>2. QED BY <3>8, <5>1 DEF Ultimo
      <4>2. h \notin l .. l + n - 1
        BY <2>16, <2>20, <3>3, <3>7
      <4>3. QED BY <3>7, <4>1, <4>2
    <3>10. ASSUME NEW g \in DOMAIN metadata, g # f
           PROVE  Ultimo(g)' < h \/ Ultimo(g)' >= s
      <4>1. PICK x \in Int, o \in Nat :
                /\ BloquesDe(g) = x .. x + o - 1 /\ Ultimo(g) = x + o - 1 /\ o >= 1
                /\ x + o - 1 < l \/ x > a + n - 1
        BY <2>9, <3>10
      <4>2. CASE x + o - 1 < l
        BY <3>7, <3>8, <3>10, <4>1, <4>2
      <4>3. CASE x > a + n - 1
        <5>1. x >= j + 1
          BY <2>7, <4>3
        <5>2. ~(Tira(metadata'[g].ini, metadata'[g].tam) \subseteq j + 1 .. s - 1)
          BY <2>2, <2>4, <3>6, <3>8 DEF Saltea, Tira
        <5>3. Tira(metadata'[g].ini, metadata'[g].tam) = x .. x + o - 1
          BY <1>1, <3>8, <3>10, <4>1, Extension
        <5>4. x + o - 1 >= s
          BY <5>1, <5>2, <5>3
        <5>5. QED BY <3>8, <3>10, <4>1, <5>4
      <4>4. QED BY <4>1, <4>2, <4>3
    <3>11. ASSUME NEW g \in DOMAIN metadata'
           PROVE  Ultimo(g)' < libre' \/ Ultimo(g)' >= i'
      BY <3>2, <3>6, <3>8, <3>9, <3>10
    <3>12. libre' >= 0 /\ libre' \notin bitmap'
      BY <3>2, <3>3, <3>7
    <3>13. QED BY <3>11, <3>12 DEF Repartidos
  <2>24. QED BY <2>19, <2>21, <2>22, <2>23
<1>5. Tranquilo' => Exacto /\ Sano'
  BY <1>3, Antes DEF BitmapExacto, Tranquilo, Exacto
<1>6. QED BY <1>4, <1>5 DEF Limpio, BitmapExacto, Tranquilo, Exacto

\* The request that waited for the compaction, if there is room now.
LEMMA DiscoTerminar ==
    ASSUME Base, Limpio, BitmapExacto, TerminarCompactacion
    PROVE  Limpio' /\ BitmapExacto'
<1> DEFINE f == pedido.nombre
           t == pedido.tam
           destino == ExisteEspacioContiguo(Necesarios(t))
<1>1. /\ paso = "compacta" /\ paso' = "pausa" /\ escrito' = escrito
      /\ IF destino # 0 THEN CrecerEn(destino, f, t)
         ELSE UNCHANGED <<bitmap, bloquesDat, metadata, incidentes>>
  BY DEF TerminarCompactacion
<1>5. /\ incidentes \subseteq incidentes' /\ ("corte" \in incidentes' => "corte" \in incidentes)
      /\ Sano' /\ destino # 0 => ~Trunco(f)
  <2> HIDE DEF f, t, destino
  <2>1. \/ destino = 0 /\ incidentes' = incidentes
        \/ incidentes' = incidentes \cup Anota("trunco", Trunco(f))
    BY <1>1 DEF CrecerEn
  <2>2. QED BY <2>1 DEF Sano, SinNada, PisaBloques, Anota
<1>2. TypeOK /\ f \in DOMAIN metadata /\ metadata[f].tam < t /\ t \in Tamanios
  <2>1. TypeOK /\ f \in DOMAIN metadata /\ metadata[f].tam < t
    BY <1>1 DEF Base, EnCompactacion, Existe
  <2>2. pedido # Ninguno
    <3>1. SUFFICES ASSUME pedido = Ninguno PROVE FALSE
      OBVIOUS
    <3>2. t = 0
      BY <3>1 DEF Ninguno
    <3>3. PICK n \in Nat : n = metadata[f].tam
      BY <2>1, Metadatos
    <3>4. n < 0
      BY <2>1, <3>2, <3>3
    <3>5. QED BY <3>4
  <2>3. QED BY <2>1, <2>2 DEF TypeOK
<1> HIDE DEF f, t
<1>3. ASSUME Sano'
      PROVE  BloquesPropios' /\ SinPisar' /\ (Tranquilo' => Exacto')
  <2>1. BloquesPropios /\ SinPisar
    <3>1. Sano /\ "corte" \notin incidentes
      BY <1>1, <1>3, <1>5, Antes DEF Sano, Base, LoGuardado
    <3>2. QED BY <3>1 DEF Limpio
  <2>2. Tranquilo' => Exacto
    BY <1>5, Antes DEF BitmapExacto, Tranquilo, Exacto
  <2>3. CASE destino # 0
    BY <1>1, <1>2, <1>3, <1>5, <2>1, <2>2, <2>3, DiscoCrecerEn
  <2>4. CASE destino = 0
    BY <1>1, <2>1, <2>2, <2>4, DiscoIgual
  <2>5. QED BY <2>3, <2>4
<1>4. QED BY <1>1, <1>3, <1>5, Antes, TrasPedido

\* The module starts again with the bitmap it had, unless a compaction ended in exit().
LEMMA DiscoReiniciar ==
    ASSUME Base, Limpio, BitmapExacto, Reiniciar
    PROVE  Limpio' /\ BitmapExacto'
<1>1. /\ paso \in {"espera", "termino"} /\ bitmap' = bitmapDat /\ paso' = "espera"
      /\ UNCHANGED <<metadata, bloquesDat, escrito, incidentes>>
  BY DEF Reiniciar, CargarLista, CargarBitmap, AbrirBloques
<1>2. CASE "corte" \notin incidentes
  <2>1. bitmap' = bitmap
    BY <1>1, <1>2 DEF Base, LoGuardado
  <2>2. QED BY <1>1, <2>1, DiscoQuieto
<1>3. CASE "corte" \in incidentes
  <2>1. BloquesPropios => BloquesPropios'
    <3>1. \A f : BloquesDe(f)' = BloquesDe(f)
      BY <1>1 DEF BloquesDe, Ocupa
    <3>2. QED BY <1>1, <3>1 DEF BloquesPropios, Existe
  <2>2. Limpio'
    BY <1>1, <1>3, <2>1, Antes DEF Limpio
  <2>3. BitmapExacto'
    BY <1>1, <1>3 DEF BitmapExacto, SinNada
  <2>4. QED BY <2>2, <2>3
<1>4. QED BY <1>2, <1>3

-------------------------------------------------------------------------------
(* The theorems *)

\* InvDisco is inductive: the parts of it are.
LEMMA DiscoSiempre ==
    ASSUME InvDisco, [Next]_vars
    PROVE  InvDisco'
<1>1. Base /\ Limpio /\ BitmapExacto
  BY DEF InvDisco, Base, Limpio, EnLista
<1>2. Base'
  BY <1>1, BaseSiempre
<1>3. Limpio' /\ BitmapExacto'
  <2>1. CASE UNCHANGED vars
    <3>1. BloquesPropios' = BloquesPropios /\ SinPisar' = SinPisar /\ Repartidos' = Repartidos
          /\ Exacto' = Exacto
      BY <2>1 DEF vars, BloquesPropios, SinPisar, Repartidos, Exacto, BloquesDe, Ultimo, Ocupa,
                  Existe, Disco
    <3>2. QED BY <1>1, <2>1, <3>1, Antes DEF vars, Limpio, BitmapExacto, Sano, SinNada, Exacto
  <2>2. ASSUME NEW f \in Archivos, NEW t \in Tamanios, Truncar(f, t)
        PROVE  Limpio' /\ BitmapExacto'
    BY <1>1, <2>2, DiscoReducir, DiscoCrecerEnSuLugar, DiscoCrecerMoviendo, DiscoEmpezar
    DEF Truncar
  <2>3. ASSUME NEW f \in Archivos, Abortar(f)
        PROVE  Limpio' /\ BitmapExacto'
    BY <1>1, <2>3, DiscoQuieto DEF Abortar
  <2>4. CASE Pedido
    BY <1>1, <2>2, <2>3, <2>4, DiscoCrear, DiscoEliminar, DiscoIgualar, DiscoAcceder DEF Pedido
  <2>5. CASE AbortarCompactacion \/ Guardar
    BY <1>1, <2>5, DiscoQuieto DEF AbortarCompactacion, Guardar
  <2>6. CASE Continua
    BY <1>1, <2>5, <2>6, DiscoSaltar, DiscoCompactar, DiscoTerminar DEF Continua
  <2>7. CASE Reiniciar
    BY <1>1, <2>7, DiscoReiniciar
  <2>8. QED BY <2>1, <2>4, <2>6, <2>7 DEF Next
<1>4. QED BY <1>2, <1>3 DEF InvDisco, Base, Limpio, EnLista

\* A directory without files.
LEMMA DiscoAlPrincipio == Init => InvDisco
<1>1. ASSUME Init PROVE InvDisco
  <2>1. Base
    BY <1>1, BaseAlPrincipio
  <2>2. DOMAIN metadata = {} /\ escrito = {} /\ bitmap = {} /\ paso = "espera"
    BY <1>1 DEF Init
  <2>3. BloquesPropios /\ SinPisar /\ Repartidos /\ BitmapExacto
    BY <2>2 DEF BloquesPropios, SinPisar, Repartidos, BitmapExacto
  <2>4. QED BY <2>1, <2>3 DEF InvDisco, Base, EnLista
<1>2. QED BY <1>1

\* What the files, the bitmap, the list and the loop of compactar_fs keep between
\* them, whatever requests come and whenever the module starts again.
THEOREM InvDiscoSiempre == Spec => []InvDisco
<1>1. InvDisco /\ [Next]_vars => InvDisco'
  BY DiscoSiempre
<1>2. QED BY <1>1, DiscoAlPrincipio, PTL DEF Spec

\* The bits that are set are exactly the blocks of the files, in the middle of a
\* compaction too and after starting again from bitmap.dat.
THEOREM BitmapExactoSiempre == Spec => []BitmapExacto
<1>1. InvDisco => BitmapExacto
  BY DEF InvDisco
<1>2. QED BY <1>1, InvDiscoSiempre, PTL

\* What IO_FS_WRITE left in a file is found where the metadata of the file says,
\* however many times this file and others have been moved, if nothing is asked
\* for after a compaction that ended in exit(). It is said until one of the
\* incidents of PisaBloques, and one of them is the file moved with a written
\* block that bloques.dat has not whole: mover_bloque gives up on that block.
THEOREM LeeLoEscritoSiempre ==
    ASSUME "corte" \notin Tolerados
    PROVE  Spec => []LeeLoEscrito
<1>1. InvDisco => LeeLoEscrito
  BY DEF InvDisco, Sano, LeeLoEscrito, SinNada, BloquesPropios
<1>2. QED BY <1>1, InvDiscoSiempre, PTL

===============================================================================
