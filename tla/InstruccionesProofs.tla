--------------------------- MODULE InstruccionesProofs ---------------------------
(***************************************************************************)
(* What holds of the instructions, the MMU and the TLB for any number of   *)
(* processes, frames and entries, any size of page and any programs.       *)
(***************************************************************************)
EXTENDS Instrucciones, FiniteSetTheorems, SequenceTheorems, WellFoundedInduction, TLAPS

-------------------------------------------------------------------------------
(* Numbers *)

\* A set of naturals that is not empty has a least element.
LEMMA HayMenor ==
    ASSUME NEW T \in SUBSET Nat, T # {}
    PROVE  \E x \in T : \A y \in T : x <= y
<1>1. \E x \in T : \A y \in T : ~ (<<y, x>> \in OpToRel(<, Nat))
  <2>1. IsWellFoundedOn(OpToRel(<, Nat), Nat)
    BY NatLessThanWellFounded
  <2>2. QED BY <2>1, WFMin
<1>2. PICK x \in T : \A y \in T : ~ (<<y, x>> \in OpToRel(<, Nat))
  BY <1>1
<1>3. \A y \in T : ~ (y < x)
  BY <1>2 DEF OpToRel
<1>4. QED BY <1>3

\* What is true of 0, and of each number after one of which it is true, is true
\* of all up to n.
LEMMA HastaN ==
    ASSUME NEW n \in Nat, NEW T, 0 \in T, \A k \in 0 .. n - 1 : k \in T => k + 1 \in T
    PROVE  \A k \in 0 .. n : k \in T
<1> DEFINE F == {k \in 0 .. n : k \notin T}
<1>1. SUFFICES ASSUME F # {} PROVE FALSE
  OBVIOUS
<1>2. F \in SUBSET Nat
  OBVIOUS
<1>3. PICK k \in F : \A j \in F : k <= j
  BY <1>1, <1>2, HayMenor
<1>4. k # 0 /\ k - 1 \in 0 .. n - 1
  OBVIOUS
<1>5. k - 1 \in T
  BY <1>3, <1>4
<1>6. (k - 1) + 1 = k
  OBVIOUS
<1>7. QED BY <1>4, <1>5, <1>6

\* What the constants of the memory are.
LEMMA Constantes ==
    /\ TamPagina \in Nat /\ TamPagina > 0
    /\ CantMarcos \in Nat /\ CantMarcos > 0
    /\ TamMemoria \in Nat
    /\ 0 \in Marcos /\ Marcos \subseteq Nat
<1>1. TamPagina \in Nat /\ TamPagina > 0 /\ CantMarcos \in Nat /\ CantMarcos > 0
  BY ConstantesOK
<1>2. TamMemoria \in Nat
  BY <1>1 DEF TamMemoria
<1>3. QED BY <1>1, <1>2 DEF Marcos

\* Pages and what is left: every address is in one page.
LEMMA Division ==
    /\ \A a \in Nat : /\ a \div TamPagina \in Nat /\ a % TamPagina \in 0 .. TamPagina - 1
                      /\ a = (a \div TamPagina) * TamPagina + (a % TamPagina)
    /\ \A a, b \in Int : a <= b => a \div TamPagina <= b \div TamPagina
BY ConstantesOK, Z3

\* The quotient and what is left are the only ones.
LEMMA UnaDivision ==
    ASSUME NEW q \in Nat, NEW o \in 0 .. TamPagina - 1
    PROVE  /\ (q * TamPagina + o) \div TamPagina = q
           /\ (q * TamPagina + o) % TamPagina = o
BY ConstantesOK, Z3

\* The larger the number of pages, the more they hold.
LEMMA Producto ==
    ASSUME NEW a \in Int, NEW b \in Int, a <= b
    PROVE  a * TamPagina <= b * TamPagina
BY ConstantesOK, Z3

-------------------------------------------------------------------------------
(* Registers and instructions *)

\* Every name that decode knows is one of these.
LEMMA Nombres ==
    Registros = {"AX", "BX", "CX", "DX", "EAX", "EBX", "ECX", "EDX", "SI", "DI", "PC"}
BY DEF Registros, Orden, ToSet

\* A register is a sequence of one byte or of four.
LEMMA Bancos ==
    ASSUME NEW b \in Banco, NEW r \in Registros
    PROVE  /\ b[r] \in Seq(Byte) /\ Len(b[r]) = TamanioRegistro(r)
           /\ TamanioRegistro(r) \in {1, 4}
BY DEF Banco, TamanioRegistro

\* The bytes of a number, whatever it is.
LEMMA BytesTipo ==
    ASSUME NEW v \in Int, NEW n \in {1, 4}
    PROVE  Bytes(v, n) \in Seq(Byte) /\ Len(Bytes(v, n)) = n
<1>1. ASSUME NEW k \in 1 .. n
      PROVE  (v \div Peso[k]) % 256 \in Byte
  <2>1. Peso[k] \in Nat /\ Peso[k] > 0
    BY DEF Peso
  <2>2. v \div Peso[k] \in Int
    BY <2>1
  <2>3. QED BY <2>2 DEF Byte
<1>2. n \in Nat
  OBVIOUS
<1>3. QED BY <1>1, <1>2, IsASeq DEF Bytes

\* The number in a register.
LEMMA ValorTipo ==
    ASSUME NEW bs \in Seq(Byte), Len(bs) \in {1, 4}
    PROVE  Valor(bs) \in Nat
<1>1. \A k \in 1 .. Len(bs) : bs[k] \in Nat
  <2>1. \A k \in 1 .. Len(bs) : bs[k] \in Byte
    BY ElementOfSeq
  <2>2. Byte \subseteq Nat
    BY DEF Byte
  <2>3. QED BY <2>1, <2>2
<1>2. CASE Len(bs) = 1
  BY <1>1, <1>2 DEF Valor
<1>3. CASE Len(bs) = 4
  <2>1. bs[1] \in Nat /\ bs[2] \in Nat /\ bs[3] \in Nat /\ bs[4] \in Nat
    BY <1>1, <1>3
  <2>2. Peso[1] = 1 /\ Peso[2] = 256 /\ Peso[3] = 65536 /\ Peso[4] = 16777216
    BY DEF Peso
  <2>3. Valor(bs) = bs[1] * 1 + bs[2] * 256 + bs[3] * 65536 + bs[4] * 16777216
    BY <1>3, <2>2 DEF Valor
  <2>4. PICK x \in Nat, y \in Nat, z \in Nat, w \in Nat :
            bs[1] = x /\ bs[2] = y /\ bs[3] = z /\ bs[4] = w
    BY <2>1
  <2>5. Valor(bs) = x + y * 256 + z * 65536 + w * 16777216
    BY ONLY <2>3, <2>4
  <2>6. x + y * 256 + z * 65536 + w * 16777216 \in Nat
    OBVIOUS
  <2>7. QED BY ONLY <2>5, <2>6
<1>4. QED BY <1>2, <1>3

\* The number in a register of a bank.
LEMMA ValorBanco ==
    ASSUME NEW b \in Banco, NEW r \in Registros
    PROVE  Valor(b[r]) \in Nat
BY Bancos, ValorTipo

\* What is written in a register has its width.
LEMMA EscribeRegistro ==
    ASSUME NEW b \in Banco, NEW r \in Registros,
           NEW bs \in Seq(Byte), Len(bs) = TamanioRegistro(r)
    PROVE  [b EXCEPT ![r] = bs] \in Banco
BY DEF Banco

\* SET, SUM and SUB leave registers.
LEMMA Aritmetica ==
    ASSUME NEW b \in Banco, NEW r \in Registros, NEW o \in Registros
    PROVE  /\ \A v \in Int : SET(b, r, v) \in Banco
           /\ SUM(b, r, o) \in Banco
           /\ SUB(b, r, o) \in Banco
<1>1. ASSUME NEW v \in Int
      PROVE  SET(b, r, v) \in Banco
  <2>1. TamanioRegistro(r) \in {1, 4}
    BY Bancos
  <2>2. QED BY <2>1, BytesTipo, EscribeRegistro DEF SET
<1>2. Valor(b[r]) \in Nat /\ Valor(b[o]) \in Nat
  BY ValorBanco
<1>3. Valor(b[r]) + Valor(b[o]) \in Int /\ Valor(b[r]) - Valor(b[o]) \in Int
  BY <1>2
<1>4. QED BY <1>1, <1>3 DEF SUM, SUB

\* JNZ too, whatever PC it takes as the register.
LEMMA Salto ==
    ASSUME NEW b \in Banco, NEW r \in Registros, NEW n \in Nat
    PROVE  JNZ(b, r, n) \in Banco
<1>1. "PC" \in Registros
  BY Nombres
<1>2. Valor(b["PC"]) \in Nat
  BY <1>1, ValorBanco
<1>3. Valor(b["PC"]) < Len(Orden) => Orden[Valor(b["PC"]) + 1] \in Registros
  <2>1. Len(Orden) = 11
    BY DEF Orden
  <2>2. \A k \in 1 .. 11 : Orden[k] \in Registros
    BY Nombres DEF Orden
  <2>3. Valor(b["PC"]) < 11 => Valor(b["PC"]) + 1 \in 1 .. 11
    BY <1>2
  <2>4. QED BY <2>1, <2>2, <2>3
<1>4. QED BY <1>3, Aritmetica DEF JNZ

\* What decode finds in the words of each instruction.
LEMMA Palabras ==
    ASSUME NEW ins, EsInstruccion(ins)
    PROVE  /\ ins[1] \in DOMAIN Formato
           /\ ins[1] = "SET" => ins[2] \in Registros /\ ins[3] \in Nat
           /\ ins[1] \in {"SUM", "SUB", "MOV_IN", "MOV_OUT"} =>
                ins[2] \in Registros /\ ins[3] \in Registros
           /\ ins[1] = "JNZ" => ins[2] \in Registros /\ ins[3] \in Nat
           /\ ins[1] \in {"RESIZE", "COPY_STRING"} => ins[2] \in Nat
           /\ ins[1] \in {"IO_STDIN_READ", "IO_STDOUT_WRITE"} =>
                Len(ins) = 4 /\ ins[3] \in Registros /\ ins[4] \in Registros
           /\ ins[1] \in {"IO_FS_READ", "IO_FS_WRITE"} =>
                /\ Len(ins) = 6
                /\ ins[4] \in Registros /\ ins[5] \in Registros /\ ins[6] \in Registros
           /\ ins[1] = "IO_FS_TRUNCATE" => ins[4] \in Registros
<1>1. /\ ins[1] \in DOMAIN Formato
      /\ Len(ins) = Len(Formato[ins[1]]) + 1
      /\ \A k \in DOMAIN Formato[ins[1]] :
            /\ Formato[ins[1]][k] = "r" => ins[k + 1] \in Registros
            /\ Formato[ins[1]][k] = "n" => ins[k + 1] \in Nat
  BY DEF EsInstruccion
<1>2. ASSUME ins[1] \in {"SET", "JNZ"}
      PROVE  ins[2] \in Registros /\ ins[3] \in Nat
  <2>1. Formato[ins[1]] = <<"r", "n">>
    BY <1>2 DEF Formato
  <2>2. ins[1 + 1] \in Registros /\ ins[2 + 1] \in Nat
    BY <1>1, <2>1
  <2>3. QED BY <2>2
<1>3. ASSUME ins[1] \in {"SUM", "SUB", "MOV_IN", "MOV_OUT"}
      PROVE  ins[2] \in Registros /\ ins[3] \in Registros
  <2>1. Formato[ins[1]] = <<"r", "r">>
    BY <1>3 DEF Formato
  <2>2. ins[1 + 1] \in Registros /\ ins[2 + 1] \in Registros
    BY <1>1, <2>1
  <2>3. QED BY <2>2
<1>4. ASSUME ins[1] \in {"RESIZE", "COPY_STRING"}
      PROVE  ins[2] \in Nat
  <2>1. Formato[ins[1]] = <<"n">>
    BY <1>4 DEF Formato
  <2>2. ins[1 + 1] \in Nat
    BY <1>1, <2>1
  <2>3. QED BY <2>2
<1>5. ASSUME ins[1] \in {"IO_STDIN_READ", "IO_STDOUT_WRITE"}
      PROVE  Len(ins) = 4 /\ ins[3] \in Registros /\ ins[4] \in Registros
  <2>1. Formato[ins[1]] = <<"i", "r", "r">>
    BY <1>5 DEF Formato
  <2>2. ins[2 + 1] \in Registros /\ ins[3 + 1] \in Registros /\ Len(ins) = 4
    BY <1>1, <2>1
  <2>3. QED BY <2>2
<1>6. ASSUME ins[1] \in {"IO_FS_READ", "IO_FS_WRITE"}
      PROVE  Len(ins) = 6 /\ ins[4] \in Registros /\ ins[5] \in Registros /\ ins[6] \in Registros
  <2>1. Formato[ins[1]] = <<"i", "f", "r", "r", "r">>
    BY <1>6 DEF Formato
  <2>2. ins[3 + 1] \in Registros /\ ins[4 + 1] \in Registros /\ ins[5 + 1] \in Registros
        /\ Len(ins) = 6
    BY <1>1, <2>1
  <2>3. QED BY <2>2
<1>7. ASSUME ins[1] = "IO_FS_TRUNCATE"
      PROVE  ins[4] \in Registros
  <2>1. Formato[ins[1]] = <<"i", "f", "r">>
    BY <1>7 DEF Formato
  <2>2. ins[3 + 1] \in Registros
    BY <1>1, <2>1
  <2>3. QED BY <2>2
<1>8. QED BY <1>1, <1>2, <1>3, <1>4, <1>5, <1>6, <1>7

\* The instruction that comes next is one that decode accepts, and its registers
\* have numbers.
LEMMA Siguiente ==
    ASSUME TypeOK, ejecuta # Nadie, PC < Len(carga[ejecuta])
    PROVE  /\ ejecuta \in Procesos /\ PC \in Nat /\ R \in Banco
           /\ EsInstruccion(Ins)
           /\ \A k : Ins[k] \in Registros => Reg(k) \in Nat
           /\ \A r \in Registros : Valor(R[r]) \in Nat
<1>1. ejecuta \in Procesos /\ regs[ejecuta] \in Banco
  BY DEF TypeOK
<1>2. "PC" \in Registros
  BY Nombres
<1>3. PC \in Nat
  BY <1>1, <1>2, ValorBanco DEF PC
<1>4. R \in Banco
  BY <1>1, <1>2, <1>3, Aritmetica DEF R
<1>5. EsInstruccion(Ins)
  <2>1. carga \in Cargas
    BY DEF TypeOK
  <2>2. /\ Len(carga[ejecuta]) \in Nat
        /\ DOMAIN carga[ejecuta] = 1 .. Len(carga[ejecuta])
        /\ \A k \in DOMAIN carga[ejecuta] : EsInstruccion(carga[ejecuta][k])
    BY <1>1, <2>1, ConstantesOK
  <2>3. PC + 1 \in 1 .. Len(carga[ejecuta])
    BY <1>3, <2>2
  <2>4. QED BY <2>2, <2>3 DEF Ins
<1>6. QED BY <1>1, <1>3, <1>4, <1>5, ValorBanco DEF Reg

-------------------------------------------------------------------------------
(* The pieces of an access *)

Trozos == [dir : Nat, tam : Nat]

\* The pieces are those of the n bytes from dir, in order.
Cubren(s, dir, n) ==
    /\ s \in Seq(Trozos)
    /\ \A k \in 1 .. Len(s) : dir <= s[k].dir /\ s[k].dir + s[k].tam <= dir + n
    /\ \A a \in dir .. dir + n - 1 :
          \E k \in 1 .. Len(s) : s[k].dir <= a /\ a < s[k].dir + s[k].tam
    /\ \A k, l \in 1 .. Len(s) : k < l => s[k].dir + s[k].tam <= s[l].dir

\* No piece goes out of its page.
EnUnaPagina(s) == \A k \in 1 .. Len(s) : (s[k].dir % TamPagina) + s[k].tam <= TamPagina

\* MOV_IN and MOV_OUT cut at the end of each page.
LEMMA PorPagina ==
    ASSUME NEW dir \in Nat, NEW n \in Nat, n > 0
    PROVE  LET s == CortarPorPagina(dir, n)
           IN  /\ Cubren(s, dir, n)
               /\ EnUnaPagina(s)
               /\ \A k \in 1 .. Len(s) : s[k].tam > 0
<1> DEFINE s == CortarPorPagina(dir, n)
           T == TamPagina
           p == dir \div T
           u == (dir + n - 1) \div T
           desde(k) == Mayor(dir, (p + k - 1) * T)
           hasta(k) == Menor(dir + n, (p + k) * T)
<1>1. T \in Nat /\ T > 0 /\ dir + n - 1 \in Nat /\ p \in Nat /\ u \in Nat /\ p <= u
  BY Constantes, Division
<1>2. p * T <= dir /\ dir < (p + 1) * T /\ u * T <= dir + n - 1 /\ dir + n - 1 < (u + 1) * T
  <2>1. \A a \in Nat : (a \div T) * T <= a /\ a < (a \div T + 1) * T
    <3>1. SUFFICES ASSUME NEW a \in Nat
                   PROVE  (a \div T) * T <= a /\ a < (a \div T + 1) * T
      OBVIOUS
    <3>2. a \div T \in Nat /\ a % T \in 0 .. T - 1 /\ a = (a \div T) * T + (a % T)
      BY Division
    <3>3. (a \div T + 1) * T = (a \div T) * T + T
      BY <1>1, <3>2
    <3>4. (a \div T) * T \in Nat
      BY <1>1, <3>2
    <3>5. QED BY <1>1, <3>2, <3>3, <3>4
  <2>2. QED BY <1>1, <2>1
<1>3. s = [k \in 1 .. u - p + 1 |-> Trozo(desde(k), hasta(k) - desde(k))]
  BY DEF CortarPorPagina
<1>4. ASSUME NEW k \in 1 .. u - p + 1
      PROVE  /\ desde(k) \in Nat /\ hasta(k) \in Nat /\ desde(k) < hasta(k)
             /\ dir <= desde(k) /\ hasta(k) <= dir + n
             /\ (p + k - 1) * T <= desde(k) /\ hasta(k) <= (p + k) * T
             /\ desde(k) = dir \/ desde(k) = (p + k - 1) * T
             /\ hasta(k) = dir + n \/ hasta(k) = (p + k) * T
  <2>1. p + k - 1 \in Nat /\ p + k \in Nat /\ p + k - 1 <= u /\ p + 1 <= p + k
    BY <1>1
  <2>2. (p + k - 1) * T \in Nat /\ (p + k) * T \in Nat /\ (p + k) * T = (p + k - 1) * T + T
    BY <1>1, <2>1
  <2>3. (p + k - 1) * T <= u * T /\ (p + 1) * T <= (p + k) * T
    BY <1>1, <2>1, Producto
  <2>4. u * T \in Nat /\ (p + 1) * T \in Nat
    BY <1>1
  <2>5. QED BY <1>1, <1>2, <2>2, <2>3, <2>4 DEF Mayor, Menor
<1>5. \A k \in 1 .. u - p + 1 : s[k].dir = desde(k) /\ s[k].tam = hasta(k) - desde(k)
  BY <1>3 DEF Trozo
<1>6. s \in Seq(Trozos) /\ Len(s) = u - p + 1
  <2>1. \A k \in 1 .. u - p + 1 : Trozo(desde(k), hasta(k) - desde(k)) \in Trozos
    <3>1. \A k \in 1 .. u - p + 1 : desde(k) \in Nat /\ hasta(k) - desde(k) \in Nat
      BY <1>4
    <3>2. QED BY <3>1 DEF Trozo, Trozos
  <2>2. u - p + 1 \in Nat
    BY <1>1
  <2> HIDE DEF desde, hasta
  <2>3. QED BY <1>3, <2>1, <2>2, IsASeq
<1> HIDE DEF s, desde, hasta
<1>7. \A k \in 1 .. Len(s) : /\ dir <= s[k].dir /\ s[k].dir + s[k].tam <= dir + n
                             /\ s[k].tam > 0
  BY <1>4, <1>5, <1>6
<1>8. ASSUME NEW a \in dir .. dir + n - 1
      PROVE  \E k \in 1 .. Len(s) : s[k].dir <= a /\ a < s[k].dir + s[k].tam
  <2> DEFINE q == a \div T
             k == q - p + 1
  <2>1. a \in Nat /\ q \in Nat /\ p <= q /\ q <= u
    BY <1>1, Division
  <2>2. q * T <= a /\ a < q * T + T /\ q * T \in Nat
    <3>1. a % T \in 0 .. T - 1 /\ a = q * T + (a % T)
      BY <2>1, Division
    <3>2. q * T \in Nat
      BY <1>1, <2>1
    <3>3. QED BY <1>1, <3>1, <3>2
  <2>3. k \in 1 .. u - p + 1 /\ p + k - 1 = q /\ p + k = q + 1
    BY <1>1, <2>1
  <2>4. (q + 1) * T = q * T + T
    BY <1>1, <2>1
  <2>5. /\ desde(k) = dir \/ desde(k) = q * T
        /\ hasta(k) = dir + n \/ hasta(k) = (q + 1) * T
        /\ desde(k) \in Nat /\ hasta(k) \in Nat
    BY <1>4, <2>3
  <2>6. desde(k) <= a /\ a < hasta(k)
    BY <2>1, <2>2, <2>4, <2>5
  <2>7. s[k].dir = desde(k) /\ s[k].tam = hasta(k) - desde(k)
    BY <1>5, <2>3
  <2>8. QED BY <1>6, <2>3, <2>5, <2>6, <2>7
<1>9. ASSUME NEW k \in 1 .. Len(s), NEW l \in 1 .. Len(s), k < l
      PROVE  s[k].dir + s[k].tam <= s[l].dir
  <2>1. p + k \in Int /\ p + l - 1 \in Int /\ p + k <= p + l - 1
    BY <1>1, <1>6, <1>9
  <2>2. (p + k) * T <= (p + l - 1) * T
    BY <2>1, Producto
  <2>3. (p + k) * T \in Int /\ (p + l - 1) * T \in Int
    BY <1>1, <2>1
  <2>4. /\ hasta(k) \in Nat /\ desde(k) \in Nat /\ desde(l) \in Nat
        /\ hasta(k) <= (p + k) * T /\ (p + l - 1) * T <= desde(l)
        /\ s[k].dir = desde(k) /\ s[k].tam = hasta(k) - desde(k) /\ s[l].dir = desde(l)
    BY <1>4, <1>5, <1>6
  <2>5. QED BY <2>2, <2>3, <2>4
<1>10. ASSUME NEW k \in 1 .. Len(s)
       PROVE  (s[k].dir % T) + s[k].tam <= T
  <2> DEFINE q == p + k - 1
             o == desde(k) - q * T
  <2>1. q \in Nat /\ q * T \in Nat /\ (p + k) * T = q * T + T
    BY <1>1, <1>6
  <2>2. /\ desde(k) \in Nat /\ hasta(k) \in Nat /\ desde(k) < hasta(k)
        /\ q * T <= desde(k) /\ hasta(k) <= q * T + T
        /\ s[k].dir = desde(k) /\ s[k].tam = hasta(k) - desde(k)
    BY <1>4, <1>5, <1>6, <2>1
  <2>3. \A d, h, b, m \in Nat : b <= d /\ d < h /\ h <= b + m =>
            d - b \in 0 .. m - 1 /\ d = b + (d - b) /\ (d - b) + (h - d) <= m
    OBVIOUS
  <2>4. o \in 0 .. T - 1 /\ desde(k) = q * T + o /\ o + (hasta(k) - desde(k)) <= T
    BY ONLY <1>1, <2>1, <2>2, <2>3
  <2>5. desde(k) % T = o
    BY ONLY <2>1, <2>4, UnaDivision
  <2>6. QED BY ONLY <2>2, <2>4, <2>5
<1>11. QED BY <1>6, <1>7, <1>8, <1>9, <1>10 DEF Cubren, EnUnaPagina, s

\* The pages of a size: they hold it, and one less would not.
LEMMA Hojas ==
    /\ \A n \in Nat : Paginas(n) \in Nat /\ n <= Paginas(n) * TamPagina
    /\ \A n \in Nat : n > 0 => Paginas(n) >= 1 /\ (Paginas(n) - 1) * TamPagina < n
    /\ \A n, m \in Nat : n <= m => Paginas(n) <= Paginas(m)
    /\ Paginas(0) = 0
<1> DEFINE T == TamPagina
<1>1. T \in Nat /\ T > 0
  BY Constantes
<1>2. ASSUME NEW n \in Nat
      PROVE  /\ Paginas(n) \in Nat /\ n <= Paginas(n) * T
             /\ n > 0 => Paginas(n) >= 1 /\ (Paginas(n) - 1) * T < n
  <2> DEFINE q == (n + T - 1) \div T
             o == (n + T - 1) % T
  <2>1. Paginas(n) = q
    BY DEF Paginas
  <2>2. q \in Nat /\ o \in 0 .. T - 1 /\ n + T - 1 = q * T + o
    <3>1. n + T - 1 \in Nat
      BY <1>1
    <3>2. QED BY <3>1, Division
  <2> HIDE DEF q, o
  <2>3. q * T \in Nat /\ (q - 1) * T = q * T - T
    BY <1>1, <2>2
  <2>4. n <= q * T /\ (n > 0 => (q - 1) * T < n)
    BY <1>1, <2>2, <2>3
  <2>5. n > 0 => q >= 1
    <3>1. q = 0 => q * T = 0
      BY <1>1
    <3>2. QED BY <2>2, <2>4, <3>1
  <2>6. QED BY <2>1, <2>2, <2>4, <2>5
<1>3. ASSUME NEW n \in Nat, NEW m \in Nat, n <= m
      PROVE  Paginas(n) <= Paginas(m)
  <2>1. n + T - 1 \in Int /\ m + T - 1 \in Int /\ n + T - 1 <= m + T - 1
    BY <1>1, <1>3
  <2>2. QED BY <2>1, Division DEF Paginas
<1>4. Paginas(0) = 0
  <2>1. 0 * T + (T - 1) = 0 + T - 1 /\ T - 1 \in 0 .. T - 1
    BY <1>1
  <2>2. (0 * T + (T - 1)) \div T = 0
    BY <2>1, UnaDivision
  <2>3. QED BY <2>1, <2>2 DEF Paginas
<1>5. QED BY <1>2, <1>3, <1>4

\* COPY_STRING and the requests of the devices cut every TamPagina bytes.
LEMMA PorTamanio ==
    ASSUME NEW dir \in Nat, NEW n \in Nat
    PROVE  LET s == CortarPorTamanio(dir, n)
           IN  /\ Cubren(s, dir, n)
               /\ Encaja(dir, n) => EnUnaPagina(s)
               /\ Len(s) = Mayor(1, Paginas(n))
               /\ \A k \in 1 .. Len(s) :
                    /\ s[k].dir = dir + (k - 1) * TamPagina
                    /\ s[k].tam = IF k = Len(s) THEN n - (k - 1) * TamPagina ELSE TamPagina
                    /\ n > 0 => s[k].tam > 0
<1> DEFINE s == CortarPorTamanio(dir, n)
           T == TamPagina
           m == Mayor(1, Paginas(n))
           b(k) == (k - 1) * T
<1>1. T \in Nat /\ T > 0 /\ Paginas(n) \in Nat /\ m \in Nat /\ m >= 1
  <2>1. T \in Nat /\ T > 0
    BY Constantes
  <2>2. Paginas(n) \in Nat
    BY Hojas
  <2>3. QED BY <2>1, <2>2 DEF Mayor
<1>2. /\ n <= m * T /\ m * T \in Nat
      /\ n > 0 => b(m) < n
      /\ n = 0 => m = 1
  <2>1. CASE n = 0
    <3>1. m = 1
      BY <2>1, Hojas DEF Mayor
    <3>2. m * T \in Nat
      BY <1>1
    <3>3. QED BY <2>1, <3>1, <3>2
  <2>2. CASE n > 0
    <3>1. m = Paginas(n)
      BY <1>1, <2>2, Hojas DEF Mayor
    <3>2. m * T \in Nat
      BY <1>1
    <3>3. QED BY <2>2, <3>1, <3>2, Hojas
  <2>3. QED BY <2>1, <2>2
<1>3. s = [k \in 1 .. m |-> Trozo(dir + b(k), Menor(T, n - b(k)))]
  BY DEF CortarPorTamanio
<1>4. ASSUME NEW k \in 1 .. m
      PROVE  /\ b(k) \in Nat /\ b(k) + T <= m * T
             /\ k < m => b(k) + T < n
             /\ k = m => n - b(k) \in 0 .. T
             /\ n > 0 => b(k) < n
  <2>1. b(k) \in Nat /\ k * T = b(k) + T /\ b(m) \in Int /\ m * T = b(m) + T
    BY <1>1
  <2>2. k * T <= m * T
    BY <1>1, Producto
  <2>3. k < m => k * T <= b(m)
    BY <1>1, Producto
  <2>4. n = 0 /\ k = 1 => b(k) = 0
    BY <1>1
  <2> HIDE DEF b, m
  <2>5. n > 0 => b(k) < n
    BY <1>1, <1>2, <2>1, <2>3
  <2>6. k = m => n - b(k) \in 0 .. T
    BY <1>1, <1>2, <2>1, <2>4
  <2>7. k < m => b(k) + T < n
    BY <1>1, <1>2, <2>1, <2>3
  <2>8. QED BY <2>1, <2>2, <2>5, <2>6, <2>7
<1> HIDE DEF m
<1>5. ASSUME NEW k \in 1 .. m
      PROVE  /\ s[k].dir = dir + b(k)
             /\ s[k].tam = IF k = m THEN n - b(k) ELSE T
             /\ s[k].tam \in 0 .. T /\ (n > 0 => s[k].tam > 0)
             /\ b(k) + s[k].tam <= n
  <2>1. s[k].dir = dir + b(k) /\ s[k].tam = Menor(T, n - b(k))
    BY <1>3 DEF Trozo
  <2> HIDE DEF b, s
  <2>2. QED BY <1>1, <1>4, <2>1 DEF Menor
<1>6. s \in Seq(Trozos) /\ Len(s) = m
  <2>1. \A k \in 1 .. m : s[k] \in Trozos
    <3>1. \A k \in 1 .. m : dir + b(k) \in Nat /\ Menor(T, n - b(k)) \in Nat
      BY <1>1, <1>4 DEF Menor
    <3> HIDE DEF b
    <3>2. QED BY <1>3, <3>1 DEF Trozo, Trozos
  <2>2. QED BY <1>1, <1>3, <2>1, IsASeq
<1> HIDE DEF s
<1>7. ASSUME NEW a \in dir .. dir + n - 1
      PROVE  \E k \in 1 .. m : s[k].dir <= a /\ a < s[k].dir + s[k].tam
  <2> DEFINE q == (a - dir) \div T
  <2>1. a - dir \in Nat /\ a - dir < n
    OBVIOUS
  <2>2. q \in Nat /\ (a - dir) % T \in 0 .. T - 1 /\ a - dir = q * T + ((a - dir) % T)
    BY <2>1, Division
  <2> HIDE DEF q
  <2>3. q * T \in Nat /\ q * T <= a - dir /\ a - dir < q * T + T
    BY <1>1, <2>1, <2>2
  <2>4. q < m
    <3>1. CASE m <= q
      <4>1. m * T <= q * T
        BY <1>1, <2>2, <3>1, Producto
      <4>2. QED BY <1>2, <2>1, <2>3, <4>1
    <3>2. QED BY <1>1, <2>2, <3>1
  <2>5. q + 1 \in 1 .. m /\ b(q + 1) = q * T
    BY <1>1, <2>2, <2>4
  <2>6. /\ s[q + 1].dir = dir + q * T
        /\ s[q + 1].tam = IF q + 1 = m THEN n - q * T ELSE T
    BY <1>5, <2>5
  <2>7. s[q + 1].dir <= a /\ a < s[q + 1].dir + s[q + 1].tam
    BY <1>1, <2>1, <2>3, <2>6
  <2>8. QED BY <2>5, <2>7
<1>8. ASSUME NEW k \in 1 .. m, NEW l \in 1 .. m, k < l
      PROVE  s[k].dir + s[k].tam <= s[l].dir
  <2>1. k * T <= b(l) /\ k * T = b(k) + T /\ b(k) \in Nat /\ b(l) \in Nat
    BY <1>1, <1>4, <1>8, Producto
  <2>2. /\ s[k].dir = dir + b(k) /\ s[k].tam \in 0 .. T /\ s[l].dir = dir + b(l)
    BY <1>5
  <2> HIDE DEF b
  <2>3. QED BY <1>1, <2>1, <2>2
<1>9. \A k \in 1 .. m : dir <= s[k].dir /\ s[k].dir + s[k].tam <= dir + n
  <2>1. SUFFICES ASSUME NEW k \in 1 .. m
                 PROVE  dir <= s[k].dir /\ s[k].dir + s[k].tam <= dir + n
    OBVIOUS
  <2>2. b(k) \in Nat /\ s[k].dir = dir + b(k) /\ s[k].tam \in 0 .. T /\ b(k) + s[k].tam <= n
    BY <1>4, <1>5
  <2> HIDE DEF b
  <2>3. QED BY <1>1, <2>2
<1>10. Cubren(s, dir, n)
  BY <1>6, <1>7, <1>8, <1>9 DEF Cubren
<1>11. ASSUME Encaja(dir, n), NEW k \in 1 .. m
       PROVE  (s[k].dir % T) + s[k].tam <= T
  <2>1. dir \div T \in Nat /\ dir % T \in 0 .. T - 1 /\ dir = (dir \div T) * T + (dir % T)
    BY Division
  <2>2. s[k].dir = dir + b(k) /\ s[k].tam \in 0 .. T /\ b(k) + s[k].tam <= n
    BY <1>5
  <2>3. s[k].dir % T = dir % T
    <3>1. dir \div T + (k - 1) \in Nat
      BY <2>1
    <3>2. dir + b(k) = (dir \div T + (k - 1)) * T + (dir % T)
      <4>1. (dir \div T + (k - 1)) * T = (dir \div T) * T + (k - 1) * T
        BY <1>1, <2>1
      <4>2. (dir \div T) * T \in Nat /\ (k - 1) * T \in Nat
        BY <1>1, <2>1
      <4>3. QED BY <2>1, <4>1, <4>2
    <3>3. QED BY <2>1, <2>2, <3>1, <3>2, UnaDivision
  <2>4. CASE dir % T = 0
    BY <1>1, <2>2, <2>3, <2>4
  <2>5. CASE (dir % T) + n <= T
    <3>1. b(k) \in Nat /\ s[k].tam <= n
      BY <1>4, <2>2
    <3>2. QED BY <1>1, <2>1, <2>2, <2>3, <2>5, <3>1
  <2>6. QED BY <1>11, <2>4, <2>5 DEF Encaja
<1>12. QED BY <1>5, <1>6, <1>10, <1>11 DEF EnUnaPagina, m, s

-------------------------------------------------------------------------------
(* The lists of the MMU *)

\* list_remove_element: the first one goes, the rest keep their order.
LEMMA Quitar ==
    ASSUME NEW S, NEW s \in Seq(S), NEW e
    PROVE  /\ RemoveFirst(s, e) \in Seq(S)
           /\ (\A i \in 1 .. Len(s) : s[i] # e) => RemoveFirst(s, e) = s
           /\ \A i \in 1 .. Len(s) :
                s[i] = e /\ (\A j \in 1 .. Len(s) : s[j] = e => i <= j) =>
                    /\ Len(RemoveFirst(s, e)) = Len(s) - 1
                    /\ \A j \in 1 .. Len(s) - 1 :
                         RemoveFirst(s, e)[j] = IF j < i THEN s[j] ELSE s[j + 1]
<1> DEFINE lugares == {i \in 1 .. Len(s) : s[i] = e}
<1>1. Len(s) \in Nat /\ \A i \in 1 .. Len(s) : s[i] \in S
  BY LenProperties, ElementOfSeq
<1>2. CASE lugares = {}
  <2>1. ~ \E i \in 1 .. Len(s) : s[i] = e
    BY <1>2
  <2>2. RemoveFirst(s, e) = s
    BY <2>1 DEF RemoveFirst
  <2>3. QED BY <2>1, <2>2
<1>3. CASE lugares # {}
  <2>1. \E i \in 1 .. Len(s) : s[i] = e
    BY <1>3
  <2>2. PICK m \in lugares : \A j \in lugares : m <= j
    <3>1. lugares \in SUBSET Nat
      BY <1>1
    <3>2. QED BY <1>3, <3>1, HayMenor
  <2>3. Min(lugares) = m
    <3>1. \A x \in lugares : (\A j \in lugares : x <= j) => x = m
      BY <1>1, <2>2
    <3>2. QED BY <2>2, <3>1 DEF Min
  <2>4. SelectInSeq(s, LAMBDA v : v = e) = m
    BY <1>3, <2>3 DEF SelectInSeq
  <2> DEFINE izq == SubSeq(s, 1, m - 1)
             der == SubSeq(s, m + 1, Len(s))
  <2>5. RemoveFirst(s, e) = izq \o der
    BY <2>1, <2>4 DEF RemoveFirst, RemoveAt
  <2>6. m \in Nat /\ m >= 1 /\ m <= Len(s)
    BY <1>1, <2>2
  <2>7. /\ izq \in Seq(S) /\ Len(izq) = m - 1
        /\ \A j \in 1 .. m - 1 : izq[j] = s[j]
    <3>1. \A j \in 1 .. m - 1 : s[j] \in S
      BY <1>1, <2>6
    <3>2. /\ izq \in Seq(S)
          /\ Len(izq) = IF 1 <= m - 1 THEN (m - 1) - 1 + 1 ELSE 0
          /\ \A j \in 1 .. (m - 1) - 1 + 1 : izq[j] = s[1 + j - 1]
      BY <2>6, <3>1, SubSeqProperties
    <3> HIDE DEF izq
    <3>3. \A j \in 1 .. m - 1 : j \in 1 .. (m - 1) - 1 + 1 /\ 1 + j - 1 = j
      BY <2>6
    <3>4. QED BY <2>6, <3>2, <3>3
  <2>8. /\ der \in Seq(S) /\ Len(der) = Len(s) - m
        /\ \A j \in 1 .. Len(s) - m : der[j] = s[m + j]
    <3>1. \A j \in m + 1 .. Len(s) : s[j] \in S
      BY <1>1, <2>6
    <3>2. /\ der \in Seq(S)
          /\ Len(der) = IF m + 1 <= Len(s) THEN Len(s) - (m + 1) + 1 ELSE 0
          /\ \A j \in 1 .. Len(s) - (m + 1) + 1 : der[j] = s[(m + 1) + j - 1]
      BY <1>1, <2>6, <3>1, SubSeqProperties
    <3> HIDE DEF der
    <3>3. \A j \in 1 .. Len(s) - m : j \in 1 .. Len(s) - (m + 1) + 1 /\ (m + 1) + j - 1 = m + j
      BY <1>1, <2>6
    <3>4. QED BY <1>1, <2>6, <3>2, <3>3
  <2> HIDE DEF izq, der
  <2>9. /\ izq \o der \in Seq(S)
        /\ Len(izq \o der) = Len(s) - 1
        /\ \A j \in 1 .. Len(s) - 1 : (izq \o der)[j] = IF j <= m - 1 THEN izq[j] ELSE der[j - (m - 1)]
    <3>1. /\ izq \o der \in Seq(S)
          /\ Len(izq \o der) = Len(izq) + Len(der)
          /\ \A j \in 1 .. Len(izq) + Len(der) :
                (izq \o der)[j] = IF j <= Len(izq) THEN izq[j] ELSE der[j - Len(izq)]
      BY <2>7, <2>8, ConcatProperties
    <3>2. Len(izq) + Len(der) = Len(s) - 1
      BY <1>1, <2>6, <2>7, <2>8
    <3>3. QED BY <2>7, <3>1, <3>2
  <2>10. ASSUME NEW j \in 1 .. Len(s) - 1
         PROVE  RemoveFirst(s, e)[j] = IF j < m THEN s[j] ELSE s[j + 1]
    <3>1. CASE j < m
      <4>1. j <= m - 1 /\ j \in 1 .. m - 1
        BY <2>6, <3>1
      <4>2. QED BY <2>5, <2>7, <2>9, <3>1, <4>1
    <3>2. CASE ~ (j < m)
      <4>1. ~ (j <= m - 1) /\ j - (m - 1) \in 1 .. Len(s) - m /\ m + (j - (m - 1)) = j + 1
        BY <1>1, <2>6, <3>2
      <4>2. der[j - (m - 1)] = s[j + 1]
        BY <2>8, <4>1
      <4>3. QED BY <2>5, <2>9, <3>2, <4>1, <4>2
    <3>3. QED BY <3>1, <3>2
  <2>11. ASSUME NEW i \in 1 .. Len(s), s[i] = e, \A j \in 1 .. Len(s) : s[j] = e => i <= j
         PROVE  i = m
    <3>1. i <= m /\ m <= i
      BY <2>2, <2>11
    <3>2. QED BY <2>6, <3>1
  <2>12. QED BY <2>1, <2>5, <2>9, <2>10, <2>11
<1>4. QED BY <1>2, <1>3

\* The turns of a translation.
LEMMA Turnos ==
    ASSUME NEW s, Len(s) \in Nat
    PROVE  \E g : /\ g[0] = [tlb |-> tlb, dirs |-> <<>>, usos |-> recientes, falta |-> FALSE]
                  /\ \A k \in 1 .. Len(s) : g[k] = Traducir(g[k - 1], s[k].dir)
                  /\ Traduccion(s) = g[Len(s)]
<1> DEFINE n == Len(s)
           base == [tlb |-> tlb, dirs |-> <<>>, usos |-> recientes, falta |-> FALSE]
           Bucle(g, m) == g = [k \in 0 .. m |->
                                 IF k = 0 THEN base ELSE Traducir(g[k - 1], s[k].dir)]
           T == {m \in Nat : \E g : Bucle(g, m)}
<1>1. 0 \in T
  <2>1. Bucle([k \in 0 .. 0 |-> base], 0)
    OBVIOUS
  <2>2. QED BY <2>1
<1>2. ASSUME NEW m \in 0 .. n - 1, m \in T
      PROVE  m + 1 \in T
  <2>1. PICK g : Bucle(g, m)
    BY <1>2
  <2> DEFINE h == [k \in 0 .. m + 1 |->
                      IF k = m + 1 THEN Traducir(g[m], s[m + 1].dir) ELSE g[k]]
  <2>2. \A k \in 0 .. m : h[k] = g[k] /\ k \in 0 .. m + 1
    OBVIOUS
  <2>3. ASSUME NEW k \in 0 .. m + 1
        PROVE  h[k] = IF k = 0 THEN base ELSE Traducir(h[k - 1], s[k].dir)
    <3>1. CASE k = m + 1
      <4>1. k # 0 /\ k - 1 = m /\ h[k - 1] = g[m]
        BY <2>2, <3>1
      <4>2. QED BY <3>1, <4>1
    <3>2. CASE k # m + 1
      <4>1. k \in 0 .. m /\ (k # 0 => k - 1 \in 0 .. m)
        BY <3>2
      <4>2. g[k] = IF k = 0 THEN base ELSE Traducir(g[k - 1], s[k].dir)
        BY <2>1, <4>1
      <4>3. QED BY <2>2, <4>1, <4>2
    <3>3. QED BY <3>1, <3>2
  <2>4. Bucle(h, m + 1)
    BY <2>3
  <2>5. m + 1 \in Nat
    OBVIOUS
  <2>6. QED BY <2>4, <2>5
<1>3. n \in T
  <2> HIDE DEF T
  <2>1. \A k \in 0 .. n : k \in T
    BY <1>1, <1>2, HastaN
  <2>2. QED BY <2>1
<1> DEFINE g == CHOOSE g : Bucle(g, n)
<1>4. Bucle(g, n)
  BY <1>3
<1>5. Traduccion(s) = g[n]
  BY DEF Traduccion
<1> HIDE DEF g
<1>6. g[0] = base /\ \A k \in 1 .. n : g[k] = Traducir(g[k - 1], s[k].dir)
  <2>1. \A k \in 0 .. n : g[k] = IF k = 0 THEN base ELSE Traducir(g[k - 1], s[k].dir)
    BY <1>4
  <2>2. 0 \in 0 .. n /\ \A k \in 1 .. n : k \in 0 .. n /\ k # 0
    OBVIOUS
  <2>3. QED BY <2>1, <2>2
<1>7. QED BY <1>5, <1>6

\* What the TLB has in its places.
LEMMA Lugares ==
    ASSUME NEW S, NEW s \in Seq(S)
    PROVE  /\ Len(s) \in Nat
           /\ ToSet(s) = {s[i] : i \in 1 .. Len(s)}
           /\ ToSet(s) \subseteq S
BY LenProperties, ElementOfSeq DEF ToSet

\* One address, as the MMU translates it: a hit or a miss.
LEMMA UnTurno ==
    ASSUME TypeOK, ejecuta \in Procesos, NEW t, t.tlb \in Seq(Entrada), NEW dir \in Nat
    PROVE  \E e \in Entrada :
             LET u == Traducir(t, dir)
                 q == <<ejecuta, dir \div TamPagina>>
             IN  /\ e.pid = ejecuta /\ e.pagina = dir \div TamPagina
                 /\ u.dirs = Append(t.dirs, e.marco * TamPagina + (dir % TamPagina))
                 /\ u.usos = Append(RemoveFirst(t.usos, q), q)
                 /\ \/ /\ e \in ToSet(t.tlb)
                       /\ u.tlb = MoverAlFrente(t.tlb, e)
                       /\ u.falta <=> t.falta
                    \/ /\ \A x \in ToSet(t.tlb) : ~ (x.pid = ejecuta /\ x.pagina = e.pagina)
                       /\ u.tlb = Agregar(t.tlb, e)
                       /\ e.pagina < Len(tabla[ejecuta]) =>
                            e.marco = tabla[ejecuta][e.pagina + 1] /\ (u.falta <=> t.falta)
                       /\ ~ (e.pagina < Len(tabla[ejecuta])) => u.falta
<1> DEFINE pagina == dir \div TamPagina
           hay == Encontradas(t.tlb, pagina)
           existe == pagina < Len(tabla[ejecuta])
           nueva == [pid |-> ejecuta, pagina |-> pagina,
                     marco |-> IF existe THEN tabla[ejecuta][pagina + 1] ELSE 0]
           entrada == IF hay # {} THEN CHOOSE e \in hay : TRUE ELSE nueva
           u == Traducir(t, dir)
<1>1. pagina \in Nat
  BY Division
<1>2. /\ u.dirs = Append(t.dirs, entrada.marco * TamPagina + (dir % TamPagina))
      /\ u.usos = Append(RemoveFirst(t.usos, <<ejecuta, pagina>>), <<ejecuta, pagina>>)
      /\ u.tlb = IF hay = {} THEN Agregar(t.tlb, entrada) ELSE MoverAlFrente(t.tlb, entrada)
      /\ u.falta = (t.falta \/ (hay = {} /\ ~ existe))
  BY DEF Traducir
<1>3. hay = {e \in ToSet(t.tlb) : e.pid = ejecuta /\ e.pagina = pagina}
  BY DEF Encontradas
<1> HIDE DEF u, hay
<1>4. CASE hay # {}
  <2>1. entrada \in hay
    BY <1>4
  <2>2. entrada \in ToSet(t.tlb) /\ entrada.pid = ejecuta /\ entrada.pagina = pagina
    BY <1>3, <2>1
  <2>3. entrada \in Entrada
    BY <2>2, Lugares
  <2> HIDE DEF entrada
  <2>4. u.tlb = MoverAlFrente(t.tlb, entrada) /\ (u.falta <=> t.falta)
    BY <1>2, <1>4
  <2>5. QED BY <1>2, <2>2, <2>3, <2>4 DEF u
<1>5. CASE hay = {}
  <2>1. entrada = nueva
    BY <1>5
  <2>2. nueva \in Entrada
    <3>1. tabla[ejecuta] \in Seq(Marcos)
      BY DEF TypeOK
    <3>2. existe => tabla[ejecuta][pagina + 1] \in Marcos
      <4>1. Len(tabla[ejecuta]) \in Nat
        BY <3>1, LenProperties
      <4>2. existe => pagina + 1 \in 1 .. Len(tabla[ejecuta])
        BY <1>1, <4>1
      <4>3. QED BY <3>1, <4>2, ElementOfSeq
    <3>3. 0 \in Marcos
      BY Constantes
    <3>4. QED BY <1>1, <3>2, <3>3 DEF Entrada
  <2>3. nueva.pid = ejecuta /\ nueva.pagina = pagina
        /\ (existe => nueva.marco = tabla[ejecuta][pagina + 1])
    OBVIOUS
  <2>4. \A x \in ToSet(t.tlb) : ~ (x.pid = ejecuta /\ x.pagina = pagina)
    BY <1>3, <1>5
  <2>5. /\ u.tlb = Agregar(t.tlb, nueva)
        /\ existe => (u.falta <=> t.falta)
        /\ ~ existe => u.falta
    BY <1>2, <1>5, <2>1
  <2>6. u.dirs = Append(t.dirs, nueva.marco * TamPagina + (dir % TamPagina))
    BY <1>2, <2>1
  <2> HIDE DEF nueva, entrada
  <2>7. PICK e \in Entrada : e = nueva
    BY <2>2
  <2>8. /\ e.pid = ejecuta /\ e.pagina = pagina
        /\ u.dirs = Append(t.dirs, e.marco * TamPagina + (dir % TamPagina))
    BY <2>3, <2>6, <2>7
  <2>9. /\ \A x \in ToSet(t.tlb) : ~ (x.pid = ejecuta /\ x.pagina = e.pagina)
        /\ u.tlb = Agregar(t.tlb, e)
        /\ e.pagina < Len(tabla[ejecuta]) =>
             e.marco = tabla[ejecuta][e.pagina + 1] /\ (u.falta <=> t.falta)
        /\ ~ (e.pagina < Len(tabla[ejecuta])) => u.falta
    BY <2>3, <2>4, <2>5, <2>7, <2>8
  <2>10. QED BY <1>2, <2>8, <2>9 DEF u
<1>6. QED BY <1>4, <1>5

\* What a translation has in hand.
TipoTurno(t) ==
    /\ t.tlb \in Seq(Entrada) /\ Len(t.tlb) <= modo.entradas
    /\ t.dirs \in Seq(Nat)
    /\ t.usos \in Seq(Procesos \X Nat)

\* The TLB keeps its length and what it holds.
LEMMA ListasTipo ==
    ASSUME TypeOK, NEW l \in Seq(Entrada), Len(l) <= modo.entradas, NEW e \in Entrada
    PROVE  /\ Agregar(l, e) \in Seq(Entrada) /\ Len(Agregar(l, e)) <= modo.entradas
           /\ e \in ToSet(l) =>
                MoverAlFrente(l, e) \in Seq(Entrada) /\ Len(MoverAlFrente(l, e)) <= modo.entradas
<1>1. modo.entradas \in Nat /\ Len(l) \in Nat
  BY ConstantesOK, LenProperties DEF TypeOK
<1>2. Agregar(l, e) \in Seq(Entrada) /\ Len(Agregar(l, e)) <= modo.entradas
  <2>1. CASE modo.entradas = 0
    BY <2>1, EmptySeq DEF Agregar
  <2>2. CASE modo.entradas # 0 /\ Len(l) < modo.entradas
    <3>1. Agregar(l, e) = Append(l, e)
      BY <2>2 DEF Agregar
    <3>2. Append(l, e) \in Seq(Entrada) /\ Len(Append(l, e)) = Len(l) + 1
      BY AppendProperties
    <3>3. QED BY <1>1, <2>2, <3>1, <3>2
  <2>3. CASE modo.entradas # 0 /\ ~ (Len(l) < modo.entradas)
    <3>1. Agregar(l, e) = Append(Tail(l), e)
      BY <2>3 DEF Agregar
    <3>2. l # <<>>
      BY <1>1, <2>3, EmptySeq
    <3>3. Tail(l) \in Seq(Entrada) /\ Len(Tail(l)) = Len(l) - 1
      BY <3>2, HeadTailProperties
    <3>4. Append(Tail(l), e) \in Seq(Entrada) /\ Len(Append(Tail(l), e)) = Len(Tail(l)) + 1
      BY <3>3, AppendProperties
    <3>5. QED BY <1>1, <3>1, <3>3, <3>4
  <2>4. QED BY <2>1, <2>2, <2>3
<1>3. ASSUME e \in ToSet(l)
      PROVE  MoverAlFrente(l, e) \in Seq(Entrada) /\ Len(MoverAlFrente(l, e)) <= modo.entradas
  <2> DEFINE lugares == {i \in 1 .. Len(l) : l[i] = e}
  <2>1. PICK m \in lugares : \A j \in lugares : m <= j
    <3>1. lugares \in SUBSET Nat /\ lugares # {}
      BY <1>1, <1>3, Lugares
    <3>2. QED BY <3>1, HayMenor
  <2>2. RemoveFirst(l, e) \in Seq(Entrada) /\ Len(RemoveFirst(l, e)) = Len(l) - 1
    BY <2>1, Quitar
  <2>3. /\ Append(RemoveFirst(l, e), e) \in Seq(Entrada)
        /\ Len(Append(RemoveFirst(l, e), e)) = Len(RemoveFirst(l, e)) + 1
    BY <2>2, AppendProperties
  <2>4. QED BY <1>1, <2>2, <2>3 DEF MoverAlFrente
<1>4. QED BY <1>2, <1>3

\* One address leaves the lists well formed.
LEMMA TurnoTipo ==
    ASSUME TypeOK, ejecuta \in Procesos, NEW t, TipoTurno(t), NEW dir \in Nat
    PROVE  TipoTurno(Traducir(t, dir)) /\ Len(Traducir(t, dir).dirs) = Len(t.dirs) + 1
<1> DEFINE u == Traducir(t, dir)
           q == <<ejecuta, dir \div TamPagina>>
<1>1. PICK e \in Entrada :
        /\ u.dirs = Append(t.dirs, e.marco * TamPagina + (dir % TamPagina))
        /\ u.usos = Append(RemoveFirst(t.usos, q), q)
        /\ \/ e \in ToSet(t.tlb) /\ u.tlb = MoverAlFrente(t.tlb, e)
           \/ u.tlb = Agregar(t.tlb, e)
  BY UnTurno DEF TipoTurno
<1> HIDE DEF u
<1>2. u.tlb \in Seq(Entrada) /\ Len(u.tlb) <= modo.entradas
  BY <1>1, ListasTipo DEF TipoTurno
<1>3. u.dirs \in Seq(Nat) /\ Len(u.dirs) = Len(t.dirs) + 1
  <2>1. e.marco \in Nat /\ dir % TamPagina \in Nat
    <3>1. e.marco \in Marcos
      BY DEF Entrada
    <3>2. dir % TamPagina \in 0 .. TamPagina - 1
      BY Division
    <3>3. Marcos \subseteq Nat /\ 0 .. TamPagina - 1 \subseteq Nat
      BY Constantes
    <3>4. QED BY <3>1, <3>2, <3>3
  <2>2. e.marco * TamPagina + (dir % TamPagina) \in Nat
    BY <2>1, Constantes
  <2>3. QED BY <1>1, <2>2, AppendProperties DEF TipoTurno
<1>4. u.usos \in Seq(Procesos \X Nat)
  <2>1. q \in Procesos \X Nat
    BY Division
  <2>2. RemoveFirst(t.usos, q) \in Seq(Procesos \X Nat)
    BY Quitar DEF TipoTurno
  <2>3. QED BY <1>1, <2>1, <2>2, AppendProperties
<1>5. QED BY <1>2, <1>3, <1>4 DEF TipoTurno, u

\* And so does a whole access.
LEMMA TraduccionTipo ==
    ASSUME TypeOK, ejecuta \in Procesos, NEW s \in Seq(Trozos)
    PROVE  TipoTurno(Traduccion(s)) /\ Len(Traduccion(s).dirs) = Len(s)
<1>1. Len(s) \in Nat /\ \A k \in 1 .. Len(s) : s[k].dir \in Nat
  <2>1. Len(s) \in Nat /\ \A k \in 1 .. Len(s) : s[k] \in Trozos
    BY LenProperties, ElementOfSeq
  <2>2. \A x \in Trozos : x.dir \in Nat
    BY DEF Trozos
  <2>3. QED BY <2>1, <2>2
<1>2. PICK g : /\ g[0] = [tlb |-> tlb, dirs |-> <<>>, usos |-> recientes, falta |-> FALSE]
               /\ \A k \in 1 .. Len(s) : g[k] = Traducir(g[k - 1], s[k].dir)
               /\ Traduccion(s) = g[Len(s)]
  BY <1>1, Turnos
<1> DEFINE T == {k \in Nat : TipoTurno(g[k]) /\ Len(g[k].dirs) = k}
<1>3. 0 \in T
  <2>1. TipoTurno(g[0])
    BY <1>2, EmptySeq DEF TypeOK, TipoTurno
  <2>2. Len(g[0].dirs) = 0
    BY <1>2
  <2>3. QED BY <2>1, <2>2
<1>4. ASSUME NEW k \in 0 .. Len(s) - 1, k \in T
      PROVE  k + 1 \in T
  <2>1. k + 1 \in 1 .. Len(s) /\ (k + 1) - 1 = k
    BY <1>1
  <2>2. g[k + 1] = Traducir(g[k], s[k + 1].dir)
    BY <1>2, <2>1
  <2>3. TipoTurno(g[k + 1]) /\ Len(g[k + 1].dirs) = Len(g[k].dirs) + 1
    BY <1>1, <1>4, <2>1, <2>2, TurnoTipo
  <2>4. QED BY <1>4, <2>3
<1>5. Len(s) \in T
  <2> HIDE DEF T
  <2>1. \A k \in 0 .. Len(s) : k \in T
    BY <1>1, <1>3, <1>4, HastaN
  <2>2. QED BY <1>1, <2>1
<1>6. QED BY <1>2, <1>5

-------------------------------------------------------------------------------
(* The bytes *)

Memorias == [0 .. TamMemoria - 1 -> Byte]

\* Writing bytes leaves a memory, wherever they go; what is read from inside it
\* are bytes.
LEMMA UnAcceso ==
    ASSUME NEW m \in Memorias, NEW dir \in Nat
    PROVE  /\ \A bs \in Seq(Byte) : Escribir(m, dir, bs) \in Memorias
           /\ \A n \in Nat : dir + n <= TamMemoria =>
                Leer(m, dir, n) \in Seq(Byte) /\ Len(Leer(m, dir, n)) = n
<1>1. DOMAIN m = 0 .. TamMemoria - 1 /\ TamMemoria \in Nat
  BY Constantes DEF Memorias
<1>2. ASSUME NEW bs \in Seq(Byte)
      PROVE  Escribir(m, dir, bs) \in Memorias
  <2>1. Len(bs) \in Nat /\ \A k \in 1 .. Len(bs) : bs[k] \in Byte
    BY LenProperties, ElementOfSeq
  <2>2. \A a \in 0 .. TamMemoria - 1 :
            (IF a \in dir .. dir + Len(bs) - 1 THEN bs[a - dir + 1] ELSE m[a]) \in Byte
    <3>1. SUFFICES ASSUME NEW a \in 0 .. TamMemoria - 1, a \in dir .. dir + Len(bs) - 1
                   PROVE  bs[a - dir + 1] \in Byte
      BY DEF Memorias
    <3>2. a - dir + 1 \in 1 .. Len(bs)
      BY <1>1, <2>1, <3>1
    <3>3. QED BY <2>1, <3>2
  <2>3. QED BY <1>1, <2>2 DEF Escribir, Memorias
<1>3. ASSUME NEW n \in Nat, dir + n <= TamMemoria
      PROVE  Leer(m, dir, n) \in Seq(Byte) /\ Len(Leer(m, dir, n)) = n
  <2>1. \A k \in 1 .. n : m[dir + k - 1] \in Byte
    <3>1. \A k \in 1 .. n : dir + k - 1 \in 0 .. TamMemoria - 1
      BY <1>1, <1>3
    <3>2. QED BY <3>1 DEF Memorias
  <2>2. QED BY <2>1, IsASeq DEF Leer
<1>4. QED BY <1>2, <1>3

\* The pieces that are written, one after another.
LEMMA Escrituras ==
    ASSUME NEW dirs, NEW datos, Len(datos) \in Nat
    PROVE  \E g : /\ g[0] = memoria
                  /\ \A k \in 1 .. Len(datos) : g[k] = Escribir(g[k - 1], dirs[k], datos[k])
                  /\ EscribirTrozos(dirs, datos) = g[Len(datos)]
<1> DEFINE n == Len(datos)
           Bucle(g, m) == g = [k \in 0 .. m |->
                                 IF k = 0 THEN memoria ELSE Escribir(g[k - 1], dirs[k], datos[k])]
           T == {m \in Nat : \E g : Bucle(g, m)}
<1>1. 0 \in T
  <2>1. Bucle([k \in 0 .. 0 |-> memoria], 0)
    OBVIOUS
  <2>2. QED BY <2>1
<1>2. ASSUME NEW m \in 0 .. n - 1, m \in T
      PROVE  m + 1 \in T
  <2>1. PICK g : Bucle(g, m)
    BY <1>2
  <2> DEFINE h == [k \in 0 .. m + 1 |->
                      IF k = m + 1 THEN Escribir(g[m], dirs[m + 1], datos[m + 1]) ELSE g[k]]
  <2>2. \A k \in 0 .. m : h[k] = g[k] /\ k \in 0 .. m + 1
    OBVIOUS
  <2>3. ASSUME NEW k \in 0 .. m + 1
        PROVE  h[k] = IF k = 0 THEN memoria ELSE Escribir(h[k - 1], dirs[k], datos[k])
    <3>1. CASE k = m + 1
      <4>1. k # 0 /\ k - 1 = m /\ h[k - 1] = g[m]
        BY <2>2, <3>1
      <4>2. QED BY <3>1, <4>1
    <3>2. CASE k # m + 1
      <4>1. k \in 0 .. m /\ (k # 0 => k - 1 \in 0 .. m)
        BY <3>2
      <4>2. g[k] = IF k = 0 THEN memoria ELSE Escribir(g[k - 1], dirs[k], datos[k])
        BY <2>1, <4>1
      <4>3. QED BY <2>2, <4>1, <4>2
    <3>3. QED BY <3>1, <3>2
  <2>4. Bucle(h, m + 1)
    BY <2>3
  <2>5. m + 1 \in Nat
    OBVIOUS
  <2>6. QED BY <2>4, <2>5
<1>3. n \in T
  <2> HIDE DEF T
  <2>1. \A k \in 0 .. n : k \in T
    BY <1>1, <1>2, HastaN
  <2>2. QED BY <2>1
<1> DEFINE g == CHOOSE g : Bucle(g, n)
<1>4. Bucle(g, n)
  BY <1>3
<1>5. EscribirTrozos(dirs, datos) = g[n]
  BY DEF EscribirTrozos
<1> HIDE DEF g
<1>6. g[0] = memoria /\ \A k \in 1 .. n : g[k] = Escribir(g[k - 1], dirs[k], datos[k])
  <2>1. \A k \in 0 .. n : g[k] = IF k = 0 THEN memoria ELSE Escribir(g[k - 1], dirs[k], datos[k])
    BY <1>4
  <2>2. 0 \in 0 .. n /\ \A k \in 1 .. n : k \in 0 .. n /\ k # 0
    OBVIOUS
  <2>3. QED BY <2>1, <2>2
<1>7. QED BY <1>5, <1>6

\* They leave a memory.
LEMMA EscriturasTipo ==
    ASSUME memoria \in Memorias, NEW dirs, NEW datos, Len(datos) \in Nat,
           \A k \in 1 .. Len(datos) : dirs[k] \in Nat /\ datos[k] \in Seq(Byte)
    PROVE  EscribirTrozos(dirs, datos) \in Memorias
<1>1. PICK g : /\ g[0] = memoria
               /\ \A k \in 1 .. Len(datos) : g[k] = Escribir(g[k - 1], dirs[k], datos[k])
               /\ EscribirTrozos(dirs, datos) = g[Len(datos)]
  BY Escrituras
<1> DEFINE T == {k \in Nat : g[k] \in Memorias}
<1>2. 0 \in T
  BY <1>1
<1>3. ASSUME NEW k \in 0 .. Len(datos) - 1, k \in T
      PROVE  k + 1 \in T
  <2>1. k + 1 \in 1 .. Len(datos) /\ (k + 1) - 1 = k /\ k + 1 \in Nat
    OBVIOUS
  <2>2. g[k + 1] = Escribir(g[k], dirs[k + 1], datos[k + 1])
    BY <1>1, <2>1
  <2>3. QED BY <1>3, <2>1, <2>2, UnAcceso
<1>4. Len(datos) \in T
  <2> HIDE DEF T
  <2>1. \A k \in 0 .. Len(datos) : k \in T
    BY <1>2, <1>3, HastaN
  <2>2. QED BY <2>1
<1>5. QED BY <1>1, <1>4

\* The pieces that are copied, one after another.
LEMMA Copias ==
    ASSUME NEW dirs, NEW s, Len(s) \div 2 \in Nat
    PROVE  \E g : /\ g[0] = memoria
                  /\ \A k \in 1 .. Len(s) \div 2 :
                        g[k] = Escribir(g[k - 1], dirs[2 * k],
                                        Leer(g[k - 1], dirs[2 * k - 1], s[2 * k].tam))
                  /\ CopiarTrozos(dirs, s) = g[Len(s) \div 2]
<1>0. PICK n \in Nat : Len(s) \div 2 = n
  OBVIOUS
<1> DEFINE Paso(m, k) == Escribir(m, dirs[2 * k], Leer(m, dirs[2 * k - 1], s[2 * k].tam))
           Bucle(g, m) == g = [k \in 0 .. m |-> IF k = 0 THEN memoria ELSE Paso(g[k - 1], k)]
           T == {m \in Nat : \E g : Bucle(g, m)}
<1> HIDE DEF Paso
<1>1. 0 \in T
  <2>1. Bucle([k \in 0 .. 0 |-> memoria], 0)
    OBVIOUS
  <2>2. QED BY <2>1
<1>2. ASSUME NEW m \in 0 .. n - 1, m \in T
      PROVE  m + 1 \in T
  <2>1. PICK g : Bucle(g, m)
    BY <1>2
  <2> DEFINE h == [k \in 0 .. m + 1 |-> IF k = m + 1 THEN Paso(g[m], m + 1) ELSE g[k]]
  <2>2. \A k \in 0 .. m : h[k] = g[k] /\ k \in 0 .. m + 1
    OBVIOUS
  <2>3. ASSUME NEW k \in 0 .. m + 1
        PROVE  h[k] = IF k = 0 THEN memoria ELSE Paso(h[k - 1], k)
    <3>1. CASE k = m + 1
      <4>1. k # 0 /\ k - 1 = m /\ h[k - 1] = g[m]
        BY <2>2, <3>1
      <4>2. QED BY <3>1, <4>1
    <3>2. CASE k # m + 1
      <4>1. k \in 0 .. m /\ (k # 0 => k - 1 \in 0 .. m)
        BY <3>2
      <4>2. g[k] = IF k = 0 THEN memoria ELSE Paso(g[k - 1], k)
        BY <2>1, <4>1
      <4>3. QED BY <2>2, <4>1, <4>2
    <3>3. QED BY <3>1, <3>2
  <2>4. Bucle(h, m + 1)
    BY <2>3
  <2>5. m + 1 \in Nat
    OBVIOUS
  <2>6. QED BY <2>4, <2>5
<1>3. n \in T
  <2> HIDE DEF T
  <2>1. \A k \in 0 .. n : k \in T
    BY <1>1, <1>2, HastaN
  <2>2. QED BY <2>1
<1> DEFINE g == CHOOSE g : Bucle(g, n)
<1>4. Bucle(g, n)
  BY <1>3
<1>5. CopiarTrozos(dirs, s) = g[n]
  BY <1>0 DEF CopiarTrozos, Paso
<1> HIDE DEF g
<1>6. g[0] = memoria /\ \A k \in 1 .. n : g[k] = Paso(g[k - 1], k)
  <2>1. \A k \in 0 .. n : g[k] = IF k = 0 THEN memoria ELSE Paso(g[k - 1], k)
    BY <1>4
  <2>2. 0 \in 0 .. n /\ \A k \in 1 .. n : k \in 0 .. n /\ k # 0
    OBVIOUS
  <2>3. QED BY <2>1, <2>2
<1>7. \A k \in 1 .. n : g[k] = Escribir(g[k - 1], dirs[2 * k],
                                        Leer(g[k - 1], dirs[2 * k - 1], s[2 * k].tam))
  BY <1>6 DEF Paso
<1>8. g[0] = memoria
  BY <1>6
<1>9. QED BY <1>0, <1>5, <1>7, <1>8

\* They leave a memory too, when the pieces are inside it.
LEMMA CopiasTipo ==
    ASSUME memoria \in Memorias, NEW dirs, NEW s, NEW n \in Nat, Len(s) \div 2 = n,
           \A k \in 1 .. n :
             /\ dirs[2 * k] \in Nat /\ dirs[2 * k - 1] \in Nat /\ s[2 * k].tam \in Nat
             /\ dirs[2 * k - 1] + s[2 * k].tam <= TamMemoria
    PROVE  CopiarTrozos(dirs, s) \in Memorias
<1>1. PICK g : /\ g[0] = memoria
               /\ \A k \in 1 .. n :
                    g[k] = Escribir(g[k - 1], dirs[2 * k],
                                    Leer(g[k - 1], dirs[2 * k - 1], s[2 * k].tam))
               /\ CopiarTrozos(dirs, s) = g[n]
  <2>1. Len(s) \div 2 \in Nat
    OBVIOUS
  <2>2. \E g : /\ g[0] = memoria
               /\ \A k \in 1 .. Len(s) \div 2 :
                    g[k] = Escribir(g[k - 1], dirs[2 * k],
                                    Leer(g[k - 1], dirs[2 * k - 1], s[2 * k].tam))
               /\ CopiarTrozos(dirs, s) = g[Len(s) \div 2]
    BY <2>1, Copias
  <2>3. QED BY <2>2
<1> DEFINE T == {k \in Nat : g[k] \in Memorias}
<1>2. 0 \in T
  BY <1>1
<1>3. ASSUME NEW k \in 0 .. n - 1, k \in T
      PROVE  k + 1 \in T
  <2> DEFINE l == k + 1
  <2>1. l \in 1 .. n /\ l - 1 = k /\ l \in Nat
    OBVIOUS
  <2> HIDE DEF l
  <2>2. g[l] = Escribir(g[k], dirs[2 * l], Leer(g[k], dirs[2 * l - 1], s[2 * l].tam))
    BY <1>1, <2>1
  <2>3. Leer(g[k], dirs[2 * l - 1], s[2 * l].tam) \in Seq(Byte)
    BY <1>3, <2>1, UnAcceso
  <2>4. g[l] \in Memorias
    <3>1. dirs[2 * l] \in Nat /\ g[k] \in Memorias
      BY <1>3, <2>1
    <3> DEFINE bs == Leer(g[k], dirs[2 * l - 1], s[2 * l].tam)
    <3>2. bs \in Seq(Byte) /\ g[l] = Escribir(g[k], dirs[2 * l], bs)
      BY <2>2, <2>3
    <3> HIDE DEF bs
    <3>3. QED BY <3>1, <3>2, UnAcceso
  <2>5. QED BY <2>1, <2>4 DEF l
<1>4. n \in T
  <2> HIDE DEF T
  <2>1. \A k \in 0 .. n : k \in T
    BY <1>2, <1>3, HastaN
  <2>2. QED BY <2>1
<1>5. QED BY <1>1, <1>4

\* What MOV_IN gathers: as many bytes as it asked for, each of some piece.
LEMMA Lecturas ==
    ASSUME memoria \in Memorias, NEW dir \in Nat, NEW n \in Nat, NEW s, Cubren(s, dir, n), NEW dirs,
           \A k \in 1 .. Len(s) : dirs[k] \in Nat /\ dirs[k] + s[k].tam <= TamMemoria
    PROVE  /\ LeerTrozos(dirs, s, dir, n) \in Seq(Byte)
           /\ Len(LeerTrozos(dirs, s, dir, n)) = n
           /\ \A j \in 1 .. n : \E k \in 1 .. Len(s) :
                /\ s[k].dir <= dir + j - 1 /\ dir + j - 1 < s[k].dir + s[k].tam
                /\ LeerTrozos(dirs, s, dir, n)[j] = memoria[dirs[k] + (dir + j - 1) - s[k].dir]
<1> DEFINE trozo(a) == CHOOSE k \in DOMAIN s : s[k].dir <= a /\ a < s[k].dir + s[k].tam
           fisica(a) == dirs[trozo(a)] + a - s[trozo(a)].dir
<1>1. s \in Seq(Trozos) /\ Len(s) \in Nat /\ DOMAIN s = 1 .. Len(s)
  BY LenProperties DEF Cubren
<1>2. \A k \in 1 .. Len(s) : s[k].dir \in Nat /\ s[k].tam \in Nat
  <2>1. \A k \in 1 .. Len(s) : s[k] \in Trozos
    BY <1>1, ElementOfSeq
  <2>2. QED BY <2>1 DEF Trozos
<1>3. ASSUME NEW j \in 1 .. n
      PROVE  /\ trozo(dir + j - 1) \in 1 .. Len(s)
             /\ s[trozo(dir + j - 1)].dir <= dir + j - 1
             /\ dir + j - 1 < s[trozo(dir + j - 1)].dir + s[trozo(dir + j - 1)].tam
  <2>1. dir + j - 1 \in dir .. dir + n - 1
    OBVIOUS
  <2>2. \E k \in DOMAIN s : s[k].dir <= dir + j - 1 /\ dir + j - 1 < s[k].dir + s[k].tam
    BY <1>1, <2>1 DEF Cubren
  <2>3. QED BY <1>1, <2>2
<1>4. LeerTrozos(dirs, s, dir, n) = [j \in 1 .. n |-> memoria[fisica(dir + j - 1)]]
  BY DEF LeerTrozos
<1> HIDE DEF trozo
<1>5. \A j \in 1 .. n : fisica(dir + j - 1) = dirs[trozo(dir + j - 1)] + (dir + j - 1) - s[trozo(dir + j - 1)].dir
  OBVIOUS
<1> HIDE DEF fisica
<1>6. ASSUME NEW j \in 1 .. n
      PROVE  memoria[fisica(dir + j - 1)] \in Byte
  <2> DEFINE k == trozo(dir + j - 1)
             a == dir + j - 1
  <2>1. /\ k \in 1 .. Len(s) /\ s[k].dir <= a /\ a < s[k].dir + s[k].tam
        /\ fisica(a) = dirs[k] + a - s[k].dir
    BY <1>3, <1>5
  <2> HIDE DEF k
  <2> HIDE DEF a
  <2>2. fisica(a) \in 0 .. TamMemoria - 1
    <3>1. PICK d \in Nat, b \in Nat, m \in Nat : d = dirs[k] /\ b = s[k].dir /\ m = s[k].tam
      BY <1>2, <2>1
    <3>2. d + m <= TamMemoria /\ b <= a /\ a < b + m /\ fisica(a) = d + a - b
      BY <2>1, <3>1
    <3>3. a \in Int
      BY DEF a
    <3>4. TamMemoria \in Nat
      BY Constantes
    <3>5. QED BY ONLY <3>2, <3>3, <3>4, d \in Nat, b \in Nat, m \in Nat
  <2>3. QED BY <2>2 DEF Memorias, a
<1>7. LeerTrozos(dirs, s, dir, n) \in Seq(Byte) /\ Len(LeerTrozos(dirs, s, dir, n)) = n
  BY <1>4, <1>6, IsASeq
<1>8. \A j \in 1 .. n : LeerTrozos(dirs, s, dir, n)[j] = memoria[fisica(dir + j - 1)]
  BY <1>4
<1>9. QED BY <1>3, <1>5, <1>7, <1>8

-------------------------------------------------------------------------------
(* The free frames *)

\* As many free frames as there are can be counted off, each once.
LEMMA Contados ==
    /\ Libres \subseteq Marcos /\ Cardinality(Libres) \in Nat
    /\ \A k \in 1 .. Cardinality(Libres) :
         MarcoLibre(k) \in Libres /\ Cardinality({x \in Libres : x < MarcoLibre(k)}) = k - 1
<1> DEFINE C == Cardinality(Libres)
           antes(m) == {x \in Libres : x < m}
<1>1. Libres \subseteq Marcos /\ Marcos \subseteq Nat /\ CantMarcos \in Nat
  BY Constantes DEF Libres
<1>2. IsFiniteSet(Libres) /\ C \in Nat
  <2>1. IsFiniteSet(Marcos)
    BY <1>1, FS_Interval DEF Marcos
  <2>2. QED BY <1>1, <2>1, FS_Subset, FS_CardinalityType
<1>3. \A m \in Nat : IsFiniteSet(antes(m)) /\ Cardinality(antes(m)) \in Nat
  BY <1>2, FS_Subset, FS_CardinalityType
<1>4. antes(0) = {} /\ antes(CantMarcos) = Libres
  <2>1. \A x \in Libres : x \in Nat /\ ~ (x < 0) /\ x < CantMarcos
    BY <1>1 DEF Marcos
  <2>2. QED BY <2>1
<1>5. ASSUME NEW m \in Nat
      PROVE  /\ m \in Libres => Cardinality(antes(m + 1)) = Cardinality(antes(m)) + 1
             /\ m \notin Libres => Cardinality(antes(m + 1)) = Cardinality(antes(m))
  <2>0. \A x \in Libres : x < m + 1 <=> (x < m \/ x = m)
    <3>1. \A x \in Nat : x < m + 1 <=> (x < m \/ x = m)
      OBVIOUS
    <3>2. QED BY <1>1, <3>1
  <2>1. ASSUME m \in Libres
        PROVE  antes(m + 1) = antes(m) \cup {m}
    BY ONLY <2>0, <2>1, Zenon
  <2>2. ASSUME m \notin Libres
        PROVE  antes(m + 1) = antes(m)
    BY ONLY <2>0, <2>2, Zenon
  <2>3. m \notin antes(m)
    OBVIOUS
  <2> HIDE DEF antes
  <2>4. QED BY <1>3, <2>1, <2>2, <2>3, FS_AddElement
<1>6. ASSUME NEW k \in 1 .. C
      PROVE  \E m \in Libres : Cardinality(antes(m)) = k - 1
  <2> DEFINE F == {m \in Nat : Cardinality(antes(m)) >= k}
  <2>1. CantMarcos \in F /\ F \in SUBSET Nat
    BY <1>1, <1>2, <1>4
  <2>2. PICK m \in F : \A j \in F : m <= j
    <3> HIDE DEF F
    <3>1. QED BY <2>1, HayMenor
  <2>3. m # 0
    BY <1>4, <2>2, FS_EmptySet
  <2> DEFINE l == m - 1
  <2>4. l \in Nat /\ m = l + 1 /\ l \notin F
    BY <2>2, <2>3
  <2>5. Cardinality(antes(l)) < k /\ Cardinality(antes(l + 1)) >= k
    <3> HIDE DEF antes, l
    <3>1. QED BY <1>3, <2>2, <2>4
  <2> HIDE DEF antes, l
  <2>6. l \in Libres /\ Cardinality(antes(l)) = k - 1
    BY <1>3, <1>5, <2>4, <2>5
  <2>7. QED BY <2>6
<1>7. \A k \in 1 .. C : MarcoLibre(k) \in Libres /\ Cardinality(antes(MarcoLibre(k))) = k - 1
  BY <1>6 DEF MarcoLibre
<1>8. QED BY <1>1, <1>2, <1>7

\* What a RESIZE that grows adds to the table: free frames, each once.
LEMMA Agregados ==
    ASSUME AAgregar \in Nat, AAgregar <= Cardinality(Libres)
    PROVE  /\ Asignar \in Seq(Marcos)
           /\ \A k \in 1 .. Len(Asignar) : Asignar[k] \in Libres
           /\ \A k, l \in 1 .. Len(Asignar) : Asignar[k] = Asignar[l] => k = l
           /\ Len(Asignar) \in Nat /\ AAgregar <= Len(Asignar)
<1> DEFINE n == IF AAgregar = 0 THEN Cardinality(Libres) ELSE AAgregar
<1>1. n \in Nat /\ AAgregar <= n /\ n <= Cardinality(Libres) /\ Cardinality(Libres) \in Nat
  BY Contados
<1>2. Asignar = [k \in 1 .. n |-> MarcoLibre(k)]
  BY DEF Asignar
<1> HIDE DEF n
<1>3. \A k \in 1 .. n : k \in 1 .. Cardinality(Libres)
  BY <1>1
<1>4. \A k \in 1 .. n : MarcoLibre(k) \in Libres /\ MarcoLibre(k) \in Marcos
  BY <1>3, Contados
<1>5. Asignar \in Seq(Marcos) /\ Len(Asignar) = n
  BY <1>1, <1>2, <1>4, IsASeq
<1>6. ASSUME NEW k \in 1 .. n, NEW l \in 1 .. n, MarcoLibre(k) = MarcoLibre(l)
      PROVE  k = l
  <2>1. k - 1 = l - 1
    BY <1>3, <1>6, Contados
  <2>2. QED BY <2>1
<1>7. QED BY <1>1, <1>2, <1>4, <1>5, <1>6

-------------------------------------------------------------------------------
(* Types *)

\* The pieces that a device has are inside the memory, and all but the last are
\* a page long.
EnMemoria(ped) ==
    ped.op \in Textos \cup Salidas =>
        LET s == ped.trozos
        IN  /\ Len(s) >= 1
            /\ \A k \in 1 .. Len(s) :
                /\ s[k].dir + s[k].tam <= TamMemoria /\ s[k].tam <= TamPagina
                /\ k < Len(s) => s[k].tam = TamPagina
Pedidos == \A p \in Procesos : EnMemoria(pedido[p])

Tipado == TypeOK /\ Pedidos

\* fetch and decode
LEMMA Decodifica ==
    ASSUME TypeOK, NEW tipos, Fetch(tipos)
    PROVE  /\ ejecuta \in Procesos /\ R \in Banco /\ PC \in Nat
           /\ EsInstruccion(Ins) /\ Ins[1] \in tipos
           /\ \A k : Ins[k] \in Registros => Reg(k) \in Nat
           /\ \A r \in Registros : Valor(R[r]) \in Nat
           /\ ~ detenida
           /\ UNCHANGED <<carga, modo, salida>>
<1>1. ejecuta # Nadie /\ PC < Len(carga[ejecuta])
  BY DEF Fetch
<1>2. QED BY <1>1, Siguiente DEF Fetch

\* What an access leaves in the TLB, in the history and in sight.
LEMMA AccesoTipo ==
    ASSUME TypeOK, ejecuta \in Procesos, NEW s \in Seq(Trozos), Accede(Traduccion(s), s)
    PROVE  /\ tlb' \in Seq(Entrada) /\ Len(tlb') <= modo.entradas
           /\ recientes' \in Seq(Procesos \X Nat)
           /\ tocados' \subseteq Procesos \X Marcos
           /\ \A k \in 1 .. Len(s) : /\ Traduccion(s).dirs[k] \in Nat
                                     /\ Traduccion(s).dirs[k] + s[k].tam <= TamMemoria
<1> DEFINE t == Traduccion(s)
<1>1. TipoTurno(t) /\ Len(t.dirs) = Len(s)
  BY TraduccionTipo
<1>2. Len(s) \in Nat /\ DOMAIN s = 1 .. Len(s) /\ \A k \in 1 .. Len(s) : s[k].tam \in Nat
  <2>1. Len(s) \in Nat /\ DOMAIN s = 1 .. Len(s) /\ \A k \in 1 .. Len(s) : s[k] \in Trozos
    BY LenProperties, ElementOfSeq
  <2>2. \A x \in Trozos : x.tam \in Nat
    BY DEF Trozos
  <2>3. QED BY <2>1, <2>2
<1> HIDE DEF t
<1>3. \A k \in 1 .. Len(s) : t.dirs[k] \in Nat
  BY <1>1, ElementOfSeq DEF TipoTurno
<1>4. \A k \in 1 .. Len(s) : t.dirs[k] + s[k].tam <= TamMemoria
  <2>1. ~ Sobrepasa(t, s)
    BY DEF Accede, t
  <2>2. \A k \in 1 .. Len(s) : ~ (t.dirs[k] + s[k].tam > TamMemoria)
    BY <1>2, <2>1 DEF Sobrepasa
  <2>3. QED BY <1>2, <1>3, <2>2, Constantes
<1>5. MarcosDe(t, s) \subseteq Procesos \X Marcos
  <2>1. ASSUME NEW k \in 1 .. Len(s), NEW a \in t.dirs[k] .. t.dirs[k] + s[k].tam - 1
        PROVE  a \div TamPagina \in Marcos
    <3>1. t.dirs[k] \in Nat /\ s[k].tam \in Nat /\ t.dirs[k] + s[k].tam <= TamMemoria
      BY <1>2, <1>3, <1>4
    <3>2. a \in Nat /\ a < TamMemoria
      BY <3>1, Constantes
    <3>3. \A x, c, q \in Nat : x < c * TamPagina /\ q * TamPagina <= x => q < c
      <4>1. SUFFICES ASSUME NEW x \in Nat, NEW c \in Nat, NEW q \in Nat,
                            x < c * TamPagina, q * TamPagina <= x, c <= q
                     PROVE  FALSE
        OBVIOUS
      <4>2. c * TamPagina <= q * TamPagina
        BY <4>1, Producto
      <4>3. c * TamPagina \in Nat /\ q * TamPagina \in Nat
        BY Constantes
      <4>4. QED BY <4>1, <4>2, <4>3
    <3>4. /\ a \div TamPagina \in Nat /\ a % TamPagina \in 0 .. TamPagina - 1
          /\ a = (a \div TamPagina) * TamPagina + (a % TamPagina)
      BY <3>2, Division
    <3>5. (a \div TamPagina) * TamPagina <= a
      <4>1. \A x, y \in Nat : x <= x + y
        OBVIOUS
      <4>2. (a \div TamPagina) * TamPagina \in Nat /\ a % TamPagina \in Nat
        BY <3>4, Constantes
      <4>3. QED BY <3>4, <4>1, <4>2
    <3>6. a \div TamPagina < CantMarcos
      BY <3>2, <3>3, <3>4, <3>5, Constantes DEF TamMemoria
    <3>7. QED BY <3>4, <3>6, Constantes DEF Marcos
  <2>2. QED BY <1>2, <2>1 DEF MarcosDe
<1>6. tlb' = t.tlb /\ recientes' = t.usos /\ tocados' = MarcosDe(t, s)
  BY DEF Accede, t
<1>7. QED BY <1>1, <1>3, <1>4, <1>5, <1>6 DEF TipoTurno, t

\* The CPU goes on, or the kernel takes the process out.
LEMMA QuedaTipo ==
    ASSUME TypeOK, ejecuta \in Procesos, NEW r \in Banco, Queda(r)
    PROVE  /\ regs' \in [Procesos -> Banco] /\ ejecuta' \in Procesos \cup {Nadie}
           /\ UNCHANGED <<estado, pedido, detenida>>
BY DEF TypeOK, Queda

\* The process leaves the CPU.
LEMMA DejaTipo ==
    ASSUME Tipado, ejecuta \in Procesos, R \in Banco,
           NEW e \in {"bloqueado", "fin"}, NEW ped \in Pedido, Deja(e, ped),
           ped = Ninguno \/ e = "bloqueado", EnMemoria(ped)
    PROVE  /\ regs' \in [Procesos -> Banco] /\ ejecuta' \in Procesos \cup {Nadie}
           /\ estado' \in [Procesos -> {"listo", "bloqueado", "fin"}]
           /\ pedido' \in [Procesos -> Pedido]
           /\ \A p \in Procesos : pedido'[p] # Ninguno => estado'[p] = "bloqueado"
           /\ Pedidos' /\ UNCHANGED detenida
<1>1. /\ regs \in [Procesos -> Banco] /\ estado \in [Procesos -> {"listo", "bloqueado", "fin"}]
      /\ pedido \in [Procesos -> Pedido]
      /\ \A p \in Procesos : pedido[p] # Ninguno => estado[p] = "bloqueado"
      /\ \A p \in Procesos : EnMemoria(pedido[p])
  BY DEF TypeOK, Tipado, Pedidos
<1>2. /\ regs' = [regs EXCEPT ![ejecuta] = R] /\ ejecuta' = Nadie /\ UNCHANGED detenida
      /\ estado' = [estado EXCEPT ![ejecuta] = e] /\ pedido' = [pedido EXCEPT ![ejecuta] = ped]
  BY DEF Deja
<1>3. regs' \in [Procesos -> Banco]
  BY <1>1, <1>2
<1>4. estado' \in [Procesos -> {"listo", "bloqueado", "fin"}]
  BY <1>1, <1>2
<1>5. pedido' \in [Procesos -> Pedido]
  BY <1>1, <1>2
<1>6. ASSUME NEW p \in Procesos
      PROVE  (pedido'[p] # Ninguno => estado'[p] = "bloqueado") /\ EnMemoria(pedido'[p])
  <2>1. CASE p = ejecuta
    <3>1. pedido'[p] = ped /\ estado'[p] = e
      BY <1>1, <1>2, <2>1
    <3>2. QED BY <3>1
  <2>2. CASE p # ejecuta
    <3>1. pedido'[p] = pedido[p] /\ estado'[p] = estado[p]
      BY <1>1, <1>2, <2>2
    <3>2. QED BY <1>1, <3>1
  <2>3. QED BY <2>1, <2>2
<1>7. Pedidos'
  BY <1>6 DEF Pedidos, EnMemoria
<1>8. QED BY <1>2, <1>3, <1>4, <1>5, <1>6, <1>7

\* No request at all.
LEMMA SinPedido ==
    Ninguno \in Pedido /\ EnMemoria(Ninguno)
<1>1. "ninguno" \notin Textos \cup Salidas
  BY DEF Textos, Salidas
<1>2. <<>> \in Seq([dir : Nat, tam : Nat, puntero : Nat])
  BY EmptySeq
<1>3. QED BY <1>1, <1>2 DEF Ninguno, Pedido, EnMemoria

\* The rest of the state, when no device nor the user space is used.
LEMMA SinMemoriaTipo ==
    ASSUME TypeOK, SinMemoria
    PROVE  /\ tabla' \in [Procesos -> Seq(Marcos)] /\ tamanio' \in [Procesos -> 0 .. TamMemoria]
           /\ memoria' \in [0 .. TamMemoria - 1 -> Byte]
           /\ tlb' \in Seq(Entrada) /\ Len(tlb') <= modo.entradas
           /\ recientes' \in Seq(Procesos \X Nat)
           /\ tocados' \subseteq Procesos \X Marcos
BY DEF TypeOK, SinMemoria

\* SET, SUM, SUB and JNZ
LEMMA CalcularTipo ==
    ASSUME Tipado, Calcular
    PROVE  TypeOK' /\ Pedidos'
<1>1. TypeOK /\ Pedidos
  BY DEF Tipado
<1>2. Fetch({"SET", "SUM", "SUB", "JNZ"}) /\ SinMemoria
  BY DEF Calcular
<1>3. /\ ejecuta \in Procesos /\ R \in Banco /\ EsInstruccion(Ins)
      /\ Ins[1] \in {"SET", "SUM", "SUB", "JNZ"}
      /\ UNCHANGED <<carga, modo, salida>>
  BY <1>1, <1>2, Decodifica
<1>4. \E r \in Banco : Queda(r)
  <2>1. ASSUME Ins[1] = "SET"
        PROVE  Queda(SET(R, Ins[2], Ins[3])) /\ SET(R, Ins[2], Ins[3]) \in Banco
    <3>1. Ins[2] \in Registros /\ Ins[3] \in Int
      BY <1>3, <2>1, Palabras
    <3>2. QED BY <1>3, <2>1, <3>1, Aritmetica DEF Calcular
  <2>2. ASSUME Ins[1] = "SUM"
        PROVE  Queda(SUM(R, Ins[2], Ins[3])) /\ SUM(R, Ins[2], Ins[3]) \in Banco
    <3>1. Ins[2] \in Registros /\ Ins[3] \in Registros
      BY <1>3, <2>2, Palabras
    <3>2. QED BY <1>3, <2>2, <3>1, Aritmetica DEF Calcular
  <2>3. ASSUME Ins[1] = "SUB"
        PROVE  Queda(SUB(R, Ins[2], Ins[3])) /\ SUB(R, Ins[2], Ins[3]) \in Banco
    <3>1. Ins[2] \in Registros /\ Ins[3] \in Registros
      BY <1>3, <2>3, Palabras
    <3>2. QED BY <1>3, <2>3, <3>1, Aritmetica DEF Calcular
  <2>4. ASSUME Ins[1] = "JNZ"
        PROVE  Queda(JNZ(R, Ins[2], Ins[3])) /\ JNZ(R, Ins[2], Ins[3]) \in Banco
    <3>1. Ins[2] \in Registros /\ Ins[3] \in Nat
      BY <1>3, <2>4, Palabras
    <3>2. QED BY <1>3, <2>4, <3>1, Salto DEF Calcular
  <2>5. QED BY <1>3, <2>1, <2>2, <2>3, <2>4
<1>5. /\ regs' \in [Procesos -> Banco] /\ ejecuta' \in Procesos \cup {Nadie}
      /\ UNCHANGED <<estado, pedido, detenida>>
  BY <1>1, <1>3, <1>4, QuedaTipo
<1>6. QED BY <1>1, <1>2, <1>3, <1>5, SinMemoriaTipo DEF TypeOK, Pedidos

\* Every access of MOV_IN and MOV_OUT is of some byte.
LEMMA AnchoRegistro ==
    ASSUME NEW r \in Registros, NEW b \in Banco
    PROVE  TamanioRegistro(r) \in Nat /\ TamanioRegistro(r) > 0 /\ Len(b[r]) = TamanioRegistro(r)
BY Bancos

\* MOV_IN reads as many bytes as the register has.
LEMMA MOV_INTipo ==
    ASSUME Tipado, MOV_IN
    PROVE  TypeOK' /\ Pedidos'
<1> DEFINE n == TamanioRegistro(Ins[2])
           dir == Reg(3)
           s == CortarPorPagina(dir, n)
           t == Traduccion(s)
           dato == LeerTrozos(t.dirs, s, dir, n)
<1>1. TypeOK /\ Pedidos
  BY DEF Tipado
<1>2. /\ Fetch({"MOV_IN"}) /\ Accede(t, s) /\ Queda([R EXCEPT ![Ins[2]] = dato])
      /\ UNCHANGED <<tabla, tamanio, memoria>>
  BY DEF MOV_IN
<1>3. /\ ejecuta \in Procesos /\ R \in Banco /\ EsInstruccion(Ins)
      /\ Ins[1] \in {"MOV_IN"} /\ UNCHANGED <<carga, modo, salida>>
      /\ \A k : Ins[k] \in Registros => Reg(k) \in Nat
  BY <1>1, <1>2, Decodifica
<1>4. Ins[2] \in Registros /\ Ins[3] \in Registros
  BY <1>3, Palabras
<1>5. dir \in Nat /\ n \in Nat /\ n > 0
  BY <1>3, <1>4, AnchoRegistro
<1> HIDE DEF n, dir
<1>6. Cubren(s, dir, n) /\ s \in Seq(Trozos)
  <2>1. Cubren(s, dir, n)
    BY <1>5, PorPagina
  <2>2. QED BY <2>1 DEF Cubren
<1> HIDE DEF s
<1>7. /\ tlb' \in Seq(Entrada) /\ Len(tlb') <= modo.entradas
      /\ recientes' \in Seq(Procesos \X Nat) /\ tocados' \subseteq Procesos \X Marcos
      /\ \A k \in 1 .. Len(s) : t.dirs[k] \in Nat /\ t.dirs[k] + s[k].tam <= TamMemoria
  BY <1>1, <1>2, <1>3, <1>6, AccesoTipo
<1> HIDE DEF t
<1>8. memoria \in Memorias
  BY <1>1 DEF TypeOK, Memorias
<1>9. dato \in Seq(Byte) /\ Len(dato) = n
  <2>1. PICK ds : ds = t.dirs
    OBVIOUS
  <2>2. \A k \in 1 .. Len(s) : ds[k] \in Nat /\ ds[k] + s[k].tam <= TamMemoria
    BY <1>7, <2>1
  <2>3. LeerTrozos(ds, s, dir, n) \in Seq(Byte) /\ Len(LeerTrozos(ds, s, dir, n)) = n
    BY ONLY <1>5, <1>6, <1>8, <2>2, Lecturas
  <2>4. QED BY <2>1, <2>3
<1> HIDE DEF dato
<1>10. [R EXCEPT ![Ins[2]] = dato] \in Banco
  BY <1>3, <1>4, <1>9, EscribeRegistro DEF n
<1>11. /\ regs' \in [Procesos -> Banco] /\ ejecuta' \in Procesos \cup {Nadie}
       /\ UNCHANGED <<estado, pedido, detenida>>
  BY <1>1, <1>2, <1>3, <1>10, QuedaTipo
<1>12. QED BY <1>1, <1>2, <1>3, <1>7, <1>11 DEF TypeOK, Pedidos

\* What MOV_OUT writes: the part of the register for each piece.
LEMMA Partes ==
    ASSUME NEW dato \in Seq(Byte), NEW dir \in Nat, NEW s, Cubren(s, dir, Len(dato))
    PROVE  \A k \in 1 .. Len(s) :
             LET parte == [j \in 1 .. s[k].tam |-> dato[s[k].dir - dir + j]]
             IN  parte \in Seq(Byte) /\ Len(parte) = s[k].tam
<1>1. Len(dato) \in Nat /\ \A j \in 1 .. Len(dato) : dato[j] \in Byte
  BY LenProperties, ElementOfSeq
<1>2. SUFFICES ASSUME NEW k \in 1 .. Len(s)
               PROVE  LET parte == [j \in 1 .. s[k].tam |-> dato[s[k].dir - dir + j]]
                      IN  parte \in Seq(Byte) /\ Len(parte) = s[k].tam
  OBVIOUS
<1>3. s[k].dir \in Nat /\ s[k].tam \in Nat
  <2>1. s[k] \in Trozos
    BY ElementOfSeq DEF Cubren
  <2>2. QED BY <2>1 DEF Trozos
<1>4. dir <= s[k].dir /\ s[k].dir + s[k].tam <= dir + Len(dato)
  BY DEF Cubren
<1>5. \A j \in 1 .. s[k].tam : s[k].dir - dir + j \in 1 .. Len(dato)
  BY <1>1, <1>3, <1>4
<1>6. \A j \in 1 .. s[k].tam : dato[s[k].dir - dir + j] \in Byte
  BY <1>1, <1>5
<1> DEFINE parte == [j \in 1 .. s[k].tam |-> dato[s[k].dir - dir + j]]
<1>7. parte \in Seq(Byte)
  BY <1>3, <1>6, IsASeq, SMTT(30)
<1>8. Len(parte) = s[k].tam
  BY <1>3
<1>9. QED BY <1>7, <1>8

\* MOV_OUT writes bytes, and inside the memory.
LEMMA MOV_OUTTipo ==
    ASSUME Tipado, MOV_OUT
    PROVE  TypeOK' /\ Pedidos'
<1> DEFINE dato == R[Ins[3]]
           dir == Reg(2)
           s == CortarPorPagina(dir, Len(dato))
           t == Traduccion(s)
           partes == [k \in DOMAIN s |-> [j \in 1 .. s[k].tam |-> dato[s[k].dir - dir + j]]]
<1>1. TypeOK /\ Pedidos
  BY DEF Tipado
<1>2. /\ Fetch({"MOV_OUT"}) /\ Accede(t, s) /\ Queda(R)
      /\ memoria' = EscribirTrozos(t.dirs, partes)
      /\ UNCHANGED <<tabla, tamanio>>
  BY DEF MOV_OUT
<1>3. /\ ejecuta \in Procesos /\ R \in Banco /\ EsInstruccion(Ins)
      /\ Ins[1] \in {"MOV_OUT"} /\ UNCHANGED <<carga, modo, salida>>
      /\ \A k : Ins[k] \in Registros => Reg(k) \in Nat
  BY <1>1, <1>2, Decodifica
<1>4. Ins[2] \in Registros /\ Ins[3] \in Registros
  BY <1>3, Palabras
<1>5. dir \in Nat /\ dato \in Seq(Byte) /\ Len(dato) \in Nat /\ Len(dato) > 0
  BY <1>3, <1>4, AnchoRegistro, Bancos
<1> HIDE DEF dato, dir
<1>6. Cubren(s, dir, Len(dato)) /\ s \in Seq(Trozos)
  <2>1. Cubren(s, dir, Len(dato))
    BY <1>5, PorPagina
  <2>2. QED BY <2>1 DEF Cubren
<1> HIDE DEF s
<1>7. /\ tlb' \in Seq(Entrada) /\ Len(tlb') <= modo.entradas
      /\ recientes' \in Seq(Procesos \X Nat) /\ tocados' \subseteq Procesos \X Marcos
      /\ \A k \in 1 .. Len(s) : t.dirs[k] \in Nat
  BY <1>1, <1>2, <1>3, <1>6, AccesoTipo
<1> HIDE DEF t
<1>8. memoria' \in Memorias
  <2>1. memoria \in Memorias
    BY <1>1 DEF TypeOK, Memorias
  <2>2. DOMAIN s = 1 .. Len(s) /\ Len(s) \in Nat
    BY <1>6, LenProperties
  <2>3. \A k \in 1 .. Len(s) : partes[k] \in Seq(Byte)
    <3>1. \A k \in 1 .. Len(s) : partes[k] = [j \in 1 .. s[k].tam |-> dato[s[k].dir - dir + j]]
      BY <2>2
    <3>2. \A k \in 1 .. Len(s) : [j \in 1 .. s[k].tam |-> dato[s[k].dir - dir + j]] \in Seq(Byte)
      BY <1>5, <1>6, Partes
    <3> HIDE DEF partes
    <3>3. QED BY <3>1, <3>2
  <2>4. Len(partes) = Len(s)
    BY <2>2
  <2> HIDE DEF partes
  <2>5. QED BY <1>2, <1>7, <2>1, <2>2, <2>3, <2>4, EscriturasTipo
<1>9. /\ regs' \in [Procesos -> Banco] /\ ejecuta' \in Procesos \cup {Nadie}
      /\ UNCHANGED <<estado, pedido, detenida>>
  BY <1>1, <1>2, <1>3, QuedaTipo
<1>10. QED BY <1>1, <1>2, <1>3, <1>7, <1>8, <1>9 DEF TypeOK, Pedidos, Memorias

\* SI and DI take turns, piece by piece.
LEMMA DeAOtra ==
    ASSUME Valor(R["SI"]) \in Nat, Valor(R["DI"]) \in Nat, NEW n \in Nat
    PROVE  LET de == CortarPorTamanio(Valor(R["SI"]), n)
               a == CortarPorTamanio(Valor(R["DI"]), n)
               s == TrozosCopia(n)
           IN  /\ s \in Seq(Trozos) /\ Len(s) = 2 * Len(de) /\ Len(a) = Len(de)
               /\ Len(de) \in Nat /\ Len(s) \div 2 = Len(de)
               /\ \A k \in 1 .. Len(de) :
                    /\ s[2 * k - 1] = de[k] /\ s[2 * k] = a[k] /\ de[k].tam = a[k].tam
                    /\ de[k] \in Trozos /\ a[k] \in Trozos
<1> DEFINE de == CortarPorTamanio(Valor(R["SI"]), n)
           a == CortarPorTamanio(Valor(R["DI"]), n)
           s == TrozosCopia(n)
           m == Len(de)
<1>1. de \in Seq(Trozos) /\ a \in Seq(Trozos) /\ Len(a) = m
  BY PorTamanio DEF Cubren
<1>2. \A k \in 1 .. m : de[k].tam = a[k].tam
  <2> DEFINE ancho(k, l) == IF k = l THEN n - (k - 1) * TamPagina ELSE TamPagina
  <2>1. \A k \in 1 .. m : de[k].tam = ancho(k, m)
    BY PorTamanio
  <2>2. \A k \in 1 .. Len(a) : a[k].tam = ancho(k, Len(a))
    BY PorTamanio
  <2> HIDE DEF ancho, de, a, m
  <2>3. QED BY <1>1, <2>1, <2>2
<1>3. m \in Nat /\ \A k \in 1 .. m : de[k] \in Trozos /\ a[k] \in Trozos
  BY <1>1, LenProperties, ElementOfSeq
<1>4. s = [k \in 1 .. 2 * m |-> IF k % 2 = 1 THEN de[(k + 1) \div 2] ELSE a[k \div 2]]
  BY DEF TrozosCopia
<1> HIDE DEF de, a, s, m
<1>5. \A k \in 1 .. 2 * m : /\ k % 2 = 1 => (k + 1) \div 2 \in 1 .. m
                            /\ k % 2 # 1 => k \div 2 \in 1 .. m
  BY <1>3
<1>6. s \in Seq(Trozos) /\ Len(s) = 2 * m
  <2>1. \A k \in 1 .. 2 * m : (IF k % 2 = 1 THEN de[(k + 1) \div 2] ELSE a[k \div 2]) \in Trozos
    BY <1>3, <1>5
  <2>2. 2 * m \in Nat
    BY <1>3
  <2>3. QED BY <1>4, <2>1, <2>2, IsASeq
<1>7. ASSUME NEW k \in 1 .. m
      PROVE  s[2 * k - 1] = de[k] /\ s[2 * k] = a[k]
  <2>1. /\ 2 * k - 1 \in 1 .. 2 * m /\ (2 * k - 1) % 2 = 1 /\ ((2 * k - 1) + 1) \div 2 = k
        /\ 2 * k \in 1 .. 2 * m /\ (2 * k) % 2 # 1 /\ (2 * k) \div 2 = k
    BY <1>3
  <2>2. QED BY <1>4, <2>1
<1>8. (2 * m) \div 2 = m
  BY <1>3
<1>9. QED BY <1>1, <1>2, <1>3, <1>6, <1>7, <1>8 DEF de, a, s, m

\* So does COPY_STRING, piece by piece.
LEMMA COPY_STRINGTipo ==
    ASSUME Tipado, COPY_STRING
    PROVE  TypeOK' /\ Pedidos'
<1> DEFINE s == TrozosCopia(Ins[2])
           t == Traduccion(s)
<1>1. TypeOK /\ Pedidos
  BY DEF Tipado
<1>2. /\ Fetch({"COPY_STRING"}) /\ Accede(t, s) /\ Queda(R)
      /\ memoria' = CopiarTrozos(t.dirs, s)
      /\ UNCHANGED <<tabla, tamanio>>
  BY DEF COPY_STRING
<1>3. /\ ejecuta \in Procesos /\ R \in Banco /\ EsInstruccion(Ins)
      /\ Ins[1] \in {"COPY_STRING"} /\ UNCHANGED <<carga, modo, salida>>
      /\ \A r \in Registros : Valor(R[r]) \in Nat
  BY <1>1, <1>2, Decodifica
<1>4. Ins[2] \in Nat /\ Valor(R["SI"]) \in Nat /\ Valor(R["DI"]) \in Nat
  BY <1>3, Palabras, Nombres
<1>5. PICK m \in Nat :
        /\ s \in Seq(Trozos) /\ Len(s) = 2 * m /\ Len(s) \div 2 = m
        /\ \A k \in 1 .. m : s[2 * k - 1].tam = s[2 * k].tam /\ s[2 * k].tam \in Nat
  <2> DEFINE de == CortarPorTamanio(Valor(R["SI"]), Ins[2])
             a == CortarPorTamanio(Valor(R["DI"]), Ins[2])
  <2>1. /\ s \in Seq(Trozos) /\ Len(s) = 2 * Len(de) /\ Len(de) \in Nat /\ Len(s) \div 2 = Len(de)
        /\ \A k \in 1 .. Len(de) : /\ s[2 * k - 1] = de[k] /\ s[2 * k] = a[k]
                                   /\ de[k].tam = a[k].tam /\ a[k] \in Trozos
    BY <1>4, DeAOtra
  <2> HIDE DEF de, a, s
  <2>2. \A x \in Trozos : x.tam \in Nat
    BY DEF Trozos
  <2>3. QED BY <2>1, <2>2
<1> HIDE DEF s
<1>6. /\ tlb' \in Seq(Entrada) /\ Len(tlb') <= modo.entradas
      /\ recientes' \in Seq(Procesos \X Nat) /\ tocados' \subseteq Procesos \X Marcos
      /\ \A k \in 1 .. Len(s) : t.dirs[k] \in Nat /\ t.dirs[k] + s[k].tam <= TamMemoria
  BY <1>1, <1>2, <1>3, <1>5, AccesoTipo
<1> HIDE DEF t
<1>7. memoria' \in Memorias
  <2>1. memoria \in Memorias
    BY <1>1 DEF TypeOK, Memorias
  <2>2. \A k \in 1 .. m : 2 * k \in 1 .. Len(s) /\ 2 * k - 1 \in 1 .. Len(s)
    BY <1>5
  <2>3. \A k \in 1 .. m : /\ t.dirs[2 * k] \in Nat /\ t.dirs[2 * k - 1] \in Nat
                          /\ s[2 * k].tam \in Nat
                          /\ t.dirs[2 * k - 1] + s[2 * k].tam <= TamMemoria
    <3>1. SUFFICES ASSUME NEW k \in 1 .. m
                   PROVE  /\ t.dirs[2 * k] \in Nat /\ t.dirs[2 * k - 1] \in Nat
                          /\ s[2 * k].tam \in Nat
                          /\ t.dirs[2 * k - 1] + s[2 * k].tam <= TamMemoria
      OBVIOUS
    <3>2. t.dirs[2 * k] \in Nat
      BY <1>6, <2>2
    <3>3. t.dirs[2 * k - 1] \in Nat /\ t.dirs[2 * k - 1] + s[2 * k - 1].tam <= TamMemoria
      BY <1>6, <2>2
    <3>4. s[2 * k - 1].tam = s[2 * k].tam /\ s[2 * k].tam \in Nat
      BY <1>5
    <3>5. QED BY <3>2, <3>3, <3>4
  <2>4. CopiarTrozos(t.dirs, s) \in Memorias
    BY <1>5, <2>1, <2>3, CopiasTipo
  <2>5. QED BY <1>2, <2>4
<1>8. /\ regs' \in [Procesos -> Banco] /\ ejecuta' \in Procesos \cup {Nadie}
      /\ UNCHANGED <<estado, pedido, detenida>>
  BY <1>1, <1>2, <1>3, QuedaTipo
<1>9. QED BY <1>1, <1>2, <1>3, <1>6, <1>7, <1>8 DEF TypeOK, Pedidos, Memorias

\* What the CPU asks of a device that uses the memory.
Pedir(op, dir, tam, puntero) ==
    LET s == CortarPorTamanio(dir, tam)
    IN  [op |-> op, dir |-> dir, tam |-> tam, puntero |-> puntero,
         trozos |-> [k \in DOMAIN s |->
            [dir |-> Traduccion(s).dirs[k], tam |-> s[k].tam,
             puntero |-> puntero + (k - 1) * TamPagina]]]

\* A request to a device, wherever its words are.
LEMMA UnPedido ==
    ASSUME TypeOK, PedirAcceso
    PROVE  /\ Ins[1] \in Textos \cup Salidas /\ Reg(Donde) \in Nat /\ Reg(Donde + 1) \in Nat
           /\ \E puntero \in Nat :
                /\ Deja("bloqueado", Pedir(Ins[1], Reg(Donde), Reg(Donde + 1), puntero))
                /\ Ins[1] \in {"IO_STDIN_READ", "IO_STDOUT_WRITE"} => puntero = 0
                /\ Ins[1] \in {"IO_FS_READ", "IO_FS_WRITE"} => puntero = Reg(6)
           /\ LET s == CortarPorTamanio(Reg(Donde), Reg(Donde + 1))
              IN  Accede(Traduccion(s), s)
<1>1. Fetch(Textos \cup Salidas)
  BY DEF PedirAcceso
<1>2. /\ EsInstruccion(Ins) /\ Ins[1] \in Textos \cup Salidas
      /\ \A k : Ins[k] \in Registros => Reg(k) \in Nat
  BY <1>1, Decodifica
<1>3. \/ Ins[1] \in {"IO_STDIN_READ", "IO_STDOUT_WRITE"}
      \/ Ins[1] \in {"IO_FS_READ", "IO_FS_WRITE"}
  BY <1>2 DEF Textos, Salidas
<1>4. ASSUME Ins[1] \in {"IO_STDIN_READ", "IO_STDOUT_WRITE"}
      PROVE  /\ Reg(Donde) \in Nat /\ Reg(Donde + 1) \in Nat
             /\ Deja("bloqueado", Pedir(Ins[1], Reg(Donde), Reg(Donde + 1), 0))
             /\ LET s == CortarPorTamanio(Reg(Donde), Reg(Donde + 1))
                IN  Accede(Traduccion(s), s)
  <2>1. Len(Ins) = 4 /\ Ins[3] \in Registros /\ Ins[4] \in Registros
    BY <1>2, <1>4, Palabras
  <2>2. Donde = 3 /\ Donde + 1 = 4
    BY <2>1 DEF Donde
  <2>3. ~ (Ins[1] \in {"IO_FS_READ", "IO_FS_WRITE"})
    BY <1>4
  <2>4. /\ Deja("bloqueado", Pedir(Ins[1], Reg(3), Reg(4), 0))
        /\ LET s == CortarPorTamanio(Reg(3), Reg(4))
           IN  Accede(Traduccion(s), s)
    BY <2>3 DEF PedirAcceso, Pedir
  <2>5. Reg(3) \in Nat /\ Reg(4) \in Nat
    BY <1>2, <2>1
  <2>6. QED BY <2>2, <2>4, <2>5
<1>5. ASSUME Ins[1] \in {"IO_FS_READ", "IO_FS_WRITE"}
      PROVE  /\ Reg(Donde) \in Nat /\ Reg(Donde + 1) \in Nat /\ Reg(6) \in Nat
             /\ Deja("bloqueado", Pedir(Ins[1], Reg(Donde), Reg(Donde + 1), Reg(6)))
             /\ LET s == CortarPorTamanio(Reg(Donde), Reg(Donde + 1))
                IN  Accede(Traduccion(s), s)
  <2>1. Len(Ins) = 6 /\ Ins[4] \in Registros /\ Ins[5] \in Registros /\ Ins[6] \in Registros
    BY <1>2, <1>5, Palabras
  <2>2. Donde = 4 /\ Donde + 1 = 5
    BY <2>1 DEF Donde
  <2>3. /\ Deja("bloqueado", Pedir(Ins[1], Reg(4), Reg(5), Reg(6)))
        /\ LET s == CortarPorTamanio(Reg(4), Reg(5))
           IN  Accede(Traduccion(s), s)
    BY <1>5 DEF PedirAcceso, Pedir
  <2>4. Reg(4) \in Nat /\ Reg(5) \in Nat /\ Reg(6) \in Nat
    BY <1>2, <2>1
  <2>5. QED BY <2>2, <2>3, <2>4
<1>6. CASE Ins[1] \in {"IO_STDIN_READ", "IO_STDOUT_WRITE"}
  <2>1. ~ (Ins[1] \in {"IO_FS_READ", "IO_FS_WRITE"}) /\ 0 \in Nat
    BY <1>6
  <2>2. QED BY <1>2, <1>4, <1>6, <2>1
<1>7. CASE Ins[1] \in {"IO_FS_READ", "IO_FS_WRITE"}
  <2>1. ~ (Ins[1] \in {"IO_STDIN_READ", "IO_STDOUT_WRITE"})
    BY <1>7
  <2>2. QED BY <1>2, <1>5, <1>7, <2>1
<1>8. QED BY <1>3, <1>6, <1>7

\* What a device is asked for names addresses of the memory.
LEMMA PedirAccesoTipo ==
    ASSUME Tipado, PedirAcceso
    PROVE  TypeOK' /\ Pedidos'
<1> DEFINE op == Ins[1]
           dir == Reg(Donde)
           tam == Reg(Donde + 1)
           s == CortarPorTamanio(dir, tam)
           t == Traduccion(s)
<1>1. TypeOK /\ Pedidos
  BY DEF Tipado
<1>2. Fetch(Textos \cup Salidas) /\ UNCHANGED <<tabla, tamanio, memoria>>
  BY DEF PedirAcceso
<1>3. /\ ejecuta \in Procesos /\ R \in Banco /\ EsInstruccion(Ins)
      /\ UNCHANGED <<carga, modo, salida>>
  BY <1>1, <1>2, Decodifica
<1>4. op \in Textos \cup Salidas /\ dir \in Nat /\ tam \in Nat /\ Accede(t, s)
  BY <1>1, UnPedido
<1>5. PICK puntero \in Nat : Deja("bloqueado", Pedir(op, dir, tam, puntero))
  BY <1>1, UnPedido
<1>6. op \in DOMAIN Formato
  BY <1>3, Palabras
<1> DEFINE ped == Pedir(op, dir, tam, puntero)
<1> HIDE DEF op, dir, tam
<1>7. /\ s \in Seq(Trozos) /\ Len(s) = Mayor(1, Paginas(tam))
      /\ \A k \in 1 .. Len(s) :
            s[k].tam = IF k = Len(s) THEN tam - (k - 1) * TamPagina ELSE TamPagina
  BY <1>4, PorTamanio DEF Cubren
<1>8. Len(s) \in Nat /\ Len(s) >= 1 /\ DOMAIN s = 1 .. Len(s)
  <2>1. Paginas(tam) \in Nat
    BY <1>4, Hojas
  <2>2. Len(s) \in Nat /\ DOMAIN s = 1 .. Len(s)
    BY <1>7, LenProperties
  <2> HIDE DEF s
  <2>3. QED BY <1>7, <2>1, <2>2 DEF Mayor
<1>9. \A k \in 1 .. Len(s) : s[k].tam \in Nat
  <2>1. \A k \in 1 .. Len(s) : s[k] \in Trozos
    BY <1>7, ElementOfSeq
  <2>2. QED BY <2>1 DEF Trozos
<1>10. \A k \in 1 .. Len(s) : s[k].tam <= TamPagina
  <2>1. tam <= Len(s) * TamPagina
    <3>1. tam <= Paginas(tam) * TamPagina /\ Paginas(tam) \in Nat
      BY <1>4, Hojas
    <3>2. Paginas(tam) <= Len(s)
      BY <1>7, <3>1 DEF Mayor
    <3>3. Paginas(tam) * TamPagina <= Len(s) * TamPagina
      BY <1>8, <3>1, <3>2, Producto
    <3>4. Paginas(tam) * TamPagina \in Int /\ Len(s) * TamPagina \in Int
      BY <1>8, <3>1, Constantes
    <3>5. QED BY <1>4, <3>1, <3>3, <3>4
  <2>2. Len(s) * TamPagina = (Len(s) - 1) * TamPagina + TamPagina /\ (Len(s) - 1) * TamPagina \in Int
    BY <1>8, Constantes
  <2>3. tam - (Len(s) - 1) * TamPagina <= TamPagina
    BY <1>4, <2>1, <2>2, Constantes
  <2> HIDE DEF s
  <2>4. QED BY <1>7, <2>3, Constantes
<1> HIDE DEF s
<1>11. /\ tlb' \in Seq(Entrada) /\ Len(tlb') <= modo.entradas
       /\ recientes' \in Seq(Procesos \X Nat) /\ tocados' \subseteq Procesos \X Marcos
       /\ \A k \in 1 .. Len(s) : t.dirs[k] \in Nat /\ t.dirs[k] + s[k].tam <= TamMemoria
  BY <1>1, <1>3, <1>4, <1>7, AccesoTipo
<1> HIDE DEF t
<1> DEFINE trozo(k) == [dir |-> t.dirs[k], tam |-> s[k].tam,
                        puntero |-> puntero + (k - 1) * TamPagina]
           trozos == [k \in 1 .. Len(s) |-> trozo(k)]
<1>12. ped = [op |-> op, dir |-> dir, tam |-> tam, puntero |-> puntero, trozos |-> trozos]
  BY <1>8 DEF Pedir, s, t
<1>13. trozos \in Seq([dir : Nat, tam : Nat, puntero : Nat]) /\ Len(trozos) = Len(s)
  <2>1. \A k \in 1 .. Len(s) : puntero + (k - 1) * TamPagina \in Nat
    BY <1>8, Constantes
  <2>2. \A k \in 1 .. Len(s) : trozo(k) \in [dir : Nat, tam : Nat, puntero : Nat]
    BY <1>9, <1>11, <2>1
  <2> HIDE DEF trozo
  <2>3. QED BY <1>8, <2>2, IsASeq
<1>14. ped \in Pedido
  <2> HIDE DEF ped, trozos
  <2>1. QED BY <1>4, <1>5, <1>6, <1>12, <1>13 DEF Pedido
<1>15. EnMemoria(ped)
  <2>1. \A k \in 1 .. Len(s) : trozos[k].dir = t.dirs[k] /\ trozos[k].tam = s[k].tam
    OBVIOUS
  <2>2. \A k \in 1 .. Len(s) : k < Len(s) => s[k].tam = TamPagina
    BY <1>7, <1>8
  <2> HIDE DEF trozos
  <2>3. ped.trozos = trozos
    BY <1>12
  <2> HIDE DEF ped
  <2>4. QED BY <1>8, <1>10, <1>11, <1>13, <2>1, <2>2, <2>3 DEF EnMemoria
<1> HIDE DEF ped
<1>16. /\ regs' \in [Procesos -> Banco] /\ ejecuta' \in Procesos \cup {Nadie}
       /\ estado' \in [Procesos -> {"listo", "bloqueado", "fin"}]
       /\ pedido' \in [Procesos -> Pedido]
       /\ \A p \in Procesos : pedido'[p] # Ninguno => estado'[p] = "bloqueado"
       /\ Pedidos' /\ UNCHANGED detenida
  BY <1>3, <1>5, <1>14, <1>15, DejaTipo DEF ped
<1>17. QED BY <1>1, <1>2, <1>3, <1>11, <1>16 DEF TypeOK

\* The other requests carry no addresses.
LEMMA PedirIOTipo ==
    ASSUME Tipado, PedirIO
    PROVE  TypeOK' /\ Pedidos'
<1> DEFINE tam == IF Ins[1] = "IO_FS_TRUNCATE" THEN Reg(4) ELSE 0
           ped == [op |-> Ins[1], trozos |-> <<>>, dir |-> 0, puntero |-> 0, tam |-> tam]
<1>1. TypeOK /\ Pedidos
  BY DEF Tipado
<1>2. /\ Fetch({"IO_GEN_SLEEP", "IO_FS_CREATE", "IO_FS_DELETE", "IO_FS_TRUNCATE"})
      /\ Deja("bloqueado", ped) /\ SinMemoria
  BY DEF PedirIO
<1>3. /\ ejecuta \in Procesos /\ R \in Banco /\ EsInstruccion(Ins)
      /\ Ins[1] \in {"IO_GEN_SLEEP", "IO_FS_CREATE", "IO_FS_DELETE", "IO_FS_TRUNCATE"}
      /\ \A k : Ins[k] \in Registros => Reg(k) \in Nat
      /\ UNCHANGED <<carga, modo, salida>>
  BY <1>1, <1>2, Decodifica
<1>4. Ins[1] \in DOMAIN Formato /\ tam \in Nat
  BY <1>3, Palabras
<1>5. ~ (Ins[1] \in Textos \cup Salidas)
  BY <1>3 DEF Textos, Salidas
<1> HIDE DEF tam
<1>6. ped \in Pedido /\ ped.op = Ins[1]
  <2>1. <<>> \in Seq([dir : Nat, tam : Nat, puntero : Nat])
    BY EmptySeq
  <2>2. QED BY <1>4, <2>1 DEF Pedido
<1>7. EnMemoria(ped)
  BY <1>5, <1>6 DEF EnMemoria
<1> HIDE DEF ped
<1>8. /\ regs' \in [Procesos -> Banco] /\ ejecuta' \in Procesos \cup {Nadie}
      /\ estado' \in [Procesos -> {"listo", "bloqueado", "fin"}]
      /\ pedido' \in [Procesos -> Pedido]
      /\ \A p \in Procesos : pedido'[p] # Ninguno => estado'[p] = "bloqueado"
      /\ Pedidos' /\ UNCHANGED detenida
  BY <1>2, <1>3, <1>6, <1>7, DejaTipo
<1>9. QED BY <1>1, <1>2, <1>3, <1>8, SinMemoriaTipo DEF TypeOK

\* WAIT and SIGNAL: the process stays, or blocks with nothing to do.
LEMMA RecursoTipo ==
    ASSUME Tipado, Recurso
    PROVE  TypeOK' /\ Pedidos'
<1>1. TypeOK /\ Pedidos
  BY DEF Tipado
<1>2. /\ Fetch({"WAIT", "SIGNAL"}) /\ SinMemoria
      /\ Queda(R) \/ Deja("bloqueado", Ninguno)
  BY DEF Recurso
<1>3. ejecuta \in Procesos /\ R \in Banco /\ UNCHANGED <<carga, modo, salida>>
  BY <1>1, <1>2, Decodifica
<1>4. CASE Queda(R)
  <2>1. /\ regs' \in [Procesos -> Banco] /\ ejecuta' \in Procesos \cup {Nadie}
        /\ UNCHANGED <<estado, pedido, detenida>>
    BY <1>1, <1>3, <1>4, QuedaTipo
  <2>2. QED BY <1>1, <1>2, <1>3, <2>1, SinMemoriaTipo DEF TypeOK, Pedidos
<1>5. CASE Deja("bloqueado", Ninguno)
  <2>1. /\ regs' \in [Procesos -> Banco] /\ ejecuta' \in Procesos \cup {Nadie}
        /\ estado' \in [Procesos -> {"listo", "bloqueado", "fin"}]
        /\ pedido' \in [Procesos -> Pedido]
        /\ \A p \in Procesos : pedido'[p] # Ninguno => estado'[p] = "bloqueado"
        /\ Pedidos' /\ UNCHANGED detenida
    BY <1>3, <1>5, DejaTipo, SinPedido
  <2>2. QED BY <1>1, <1>2, <1>3, <2>1, SinMemoriaTipo DEF TypeOK
<1>6. QED BY <1>2, <1>4, <1>5

\* The process that ends leaves no request and no pages.
LEMMA SalirTipo ==
    ASSUME Tipado, ejecuta \in Procesos, R \in Banco, UNCHANGED <<carga, modo, salida>>, Salir
    PROVE  TypeOK' /\ Pedidos'
<1>1. TypeOK /\ Pedidos
  BY DEF Tipado
<1>2. /\ Deja("fin", Ninguno) /\ UNCHANGED <<memoria, tlb, recientes>> /\ tocados' = {}
      /\ tabla' = [tabla EXCEPT ![ejecuta] = <<>>] /\ tamanio' = [tamanio EXCEPT ![ejecuta] = 0]
  BY DEF Salir
<1>3. /\ regs' \in [Procesos -> Banco] /\ ejecuta' \in Procesos \cup {Nadie}
      /\ estado' \in [Procesos -> {"listo", "bloqueado", "fin"}]
      /\ pedido' \in [Procesos -> Pedido]
      /\ \A p \in Procesos : pedido'[p] # Ninguno => estado'[p] = "bloqueado"
      /\ Pedidos' /\ UNCHANGED detenida
  BY <1>2, DejaTipo, SinPedido
<1>4. tabla' \in [Procesos -> Seq(Marcos)]
  <2>1. <<>> \in Seq(Marcos)
    BY EmptySeq
  <2>2. tabla \in [Procesos -> Seq(Marcos)]
    BY <1>1 DEF TypeOK
  <2>3. QED BY <1>2, <2>1, <2>2
<1>5. tamanio' \in [Procesos -> 0 .. TamMemoria]
  <2>1. 0 \in 0 .. TamMemoria
    BY Constantes
  <2>2. tamanio \in [Procesos -> 0 .. TamMemoria]
    BY <1>1 DEF TypeOK
  <2>3. QED BY <1>2, <2>1, <2>2
<1>6. QED BY <1>1, <1>2, <1>3, <1>4, <1>5 DEF TypeOK

\* EXIT is one way to end.
LEMMA EXITTipo ==
    ASSUME Tipado, EXIT \/ SinEspacio
    PROVE  TypeOK' /\ Pedidos'
<1>1. TypeOK /\ (Fetch({"EXIT"}) \/ Fetch({"RESIZE"})) /\ Salir
  BY DEF Tipado, EXIT, SinEspacio
<1>2. ejecuta \in Procesos /\ R \in Banco /\ UNCHANGED <<carga, modo, salida>>
  BY <1>1, Decodifica
<1>3. QED BY <1>1, <1>2, SalirTipo

\* RESIZE changes the table and the size of one process.
LEMMA RedimensionarTipo ==
    ASSUME Tipado, ejecuta \in Procesos, R \in Banco, UNCHANGED <<carga, modo, salida>>,
           Ins[2] \in 0 .. TamMemoria, NEW nueva \in Seq(Marcos), Redimensionar(nueva)
    PROVE  TypeOK' /\ Pedidos'
<1>1. TypeOK /\ Pedidos
  BY DEF Tipado
<1>2. /\ Queda(R) /\ UNCHANGED <<memoria, tlb, recientes>> /\ tocados' = {}
      /\ tabla' = [tabla EXCEPT ![ejecuta] = nueva]
      /\ tamanio' = [tamanio EXCEPT ![ejecuta] = Ins[2]]
  BY DEF Redimensionar
<1>3. /\ regs' \in [Procesos -> Banco] /\ ejecuta' \in Procesos \cup {Nadie}
      /\ UNCHANGED <<estado, pedido, detenida>>
  BY <1>1, <1>2, QuedaTipo
<1>4. tabla' \in [Procesos -> Seq(Marcos)]
  <2>1. tabla \in [Procesos -> Seq(Marcos)]
    BY <1>1 DEF TypeOK
  <2>2. QED BY <1>2, <2>1
<1>5. tamanio' \in [Procesos -> 0 .. TamMemoria]
  <2>1. tamanio \in [Procesos -> 0 .. TamMemoria]
    BY <1>1 DEF TypeOK
  <2>2. QED BY <1>2, <2>1
<1>6. QED BY <1>1, <1>2, <1>3, <1>4, <1>5 DEF TypeOK, Pedidos

\* The new table of the process, when it grows: its frames and some free ones.
LEMMA Crece ==
    ASSUME TypeOK, Ampliar
    PROVE  /\ Ins[2] \in 0 .. TamMemoria /\ AAgregar \in Nat
           /\ AAgregar = Paginas(Ins[2]) - Paginas(tamanio[ejecuta])
           /\ Asignar \in Seq(Marcos) /\ AAgregar <= Len(Asignar)
           /\ \A k \in 1 .. Len(Asignar) : Asignar[k] \in Libres
           /\ \A k, l \in 1 .. Len(Asignar) : Asignar[k] = Asignar[l] => k = l
           /\ tabla[ejecuta] \in Seq(Marcos)
           /\ Redimensionar(tabla[ejecuta] \o Asignar)
<1>1. /\ Fetch({"RESIZE"}) /\ tamanio[ejecuta] < Ins[2] /\ Ins[2] <= TamMemoria
      /\ AAgregar <= Cardinality(Libres) /\ Redimensionar(tabla[ejecuta] \o Asignar)
  BY DEF Ampliar
<1>2. ejecuta \in Procesos /\ EsInstruccion(Ins) /\ Ins[1] \in {"RESIZE"}
  BY <1>1, Decodifica
<1>3. Ins[2] \in Nat
  BY <1>2, Palabras
<1>4. tamanio[ejecuta] \in 0 .. TamMemoria /\ tabla[ejecuta] \in Seq(Marcos)
  BY <1>2 DEF TypeOK
<1>5. tamanio[ejecuta] \in Nat /\ tamanio[ejecuta] <= Ins[2] /\ Ins[2] \in 0 .. TamMemoria
  BY <1>1, <1>3, <1>4, Constantes
<1>6. AAgregar \in Nat
  <2>1. /\ Paginas(Ins[2]) \in Nat /\ Paginas(tamanio[ejecuta]) \in Nat
        /\ Paginas(tamanio[ejecuta]) <= Paginas(Ins[2])
    BY <1>3, <1>5, Hojas
  <2>2. QED BY <2>1 DEF AAgregar
<1>7. QED BY <1>1, <1>4, <1>5, <1>6, Agregados DEF AAgregar

\* The new table of the process, when it shrinks: the first frames that it had.
LEMMA Encoge ==
    ASSUME TypeOK, Reducir
    PROVE  LET quedan == Len(tabla[ejecuta]) + AAgregar
               nueva == SubSeq(tabla[ejecuta], 1, quedan)
           IN  /\ Ins[2] \in 0 .. TamMemoria
               /\ quedan \in Int /\ quedan <= Len(tabla[ejecuta])
               /\ quedan - Paginas(Ins[2]) = Len(tabla[ejecuta]) - Paginas(tamanio[ejecuta])
               /\ nueva \in Seq(Marcos) /\ Len(nueva) = IF 1 <= quedan THEN quedan ELSE 0
               /\ \A k \in 1 .. quedan : nueva[k] = tabla[ejecuta][k]
               /\ tabla[ejecuta] \in Seq(Marcos)
               /\ Redimensionar(nueva)
<1> DEFINE v == tabla[ejecuta]
           quedan == Len(v) + AAgregar
           nueva == SubSeq(v, 1, quedan)
<1>1. Fetch({"RESIZE"}) /\ Ins[2] < tamanio[ejecuta] /\ Redimensionar(nueva)
  BY DEF Reducir
<1>2. ejecuta \in Procesos /\ EsInstruccion(Ins) /\ Ins[1] \in {"RESIZE"}
  BY <1>1, Decodifica
<1>3. Ins[2] \in Nat
  BY <1>2, Palabras
<1>4. tamanio[ejecuta] \in 0 .. TamMemoria /\ v \in Seq(Marcos)
  BY <1>2 DEF TypeOK
<1>5. /\ tamanio[ejecuta] \in Nat /\ Ins[2] <= tamanio[ejecuta]
      /\ Ins[2] \in 0 .. TamMemoria /\ Len(v) \in Nat
      /\ \A k \in 1 .. Len(v) : v[k] \in Marcos
  <2>1. Len(v) \in Nat /\ \A k \in 1 .. Len(v) : v[k] \in Marcos
    BY <1>4, LenProperties, ElementOfSeq
  <2>2. QED BY <1>1, <1>3, <1>4, <2>1, Constantes
<1>6. AAgregar = Paginas(Ins[2]) - Paginas(tamanio[ejecuta])
  BY DEF AAgregar
<1>7. /\ Paginas(Ins[2]) \in Nat /\ Paginas(tamanio[ejecuta]) \in Nat
      /\ Paginas(Ins[2]) <= Paginas(tamanio[ejecuta])
  BY <1>3, <1>5, Hojas
<1>8. /\ quedan \in Int /\ quedan <= Len(v)
      /\ quedan - Paginas(Ins[2]) = Len(v) - Paginas(tamanio[ejecuta])
  BY <1>5, <1>6, <1>7
<1> HIDE DEF quedan
<1>9. \A k \in 1 .. quedan : v[k] \in Marcos
  BY <1>5, <1>8
<1>10. /\ nueva \in Seq(Marcos) /\ Len(nueva) = IF 1 <= quedan THEN quedan ELSE 0
       /\ \A k \in 1 .. quedan : nueva[k] = v[k]
  <2>1. /\ nueva \in Seq(Marcos) /\ Len(nueva) = IF 1 <= quedan THEN quedan - 1 + 1 ELSE 0
        /\ \A k \in 1 .. quedan - 1 + 1 : nueva[k] = v[1 + k - 1]
    BY <1>8, <1>9, SubSeqProperties
  <2> HIDE DEF nueva, v
  <2>2. quedan - 1 + 1 = quedan /\ \A k \in 1 .. quedan : 1 + k - 1 = k
    BY <1>8
  <2>3. QED BY <2>1, <2>2
<1>11. QED BY <1>1, <1>4, <1>5, <1>8, <1>10 DEF quedan

\* RESIZE: the three answers of the memory.
LEMMA RESIZETipo ==
    ASSUME Tipado, Ampliar \/ Reducir
    PROVE  TypeOK' /\ Pedidos'
<1>1. TypeOK /\ Fetch({"RESIZE"})
  BY DEF Tipado, Ampliar, Reducir
<1>2. ejecuta \in Procesos /\ R \in Banco /\ UNCHANGED <<carga, modo, salida>>
  BY <1>1, Decodifica
<1>3. \E nueva \in Seq(Marcos) : Redimensionar(nueva) /\ Ins[2] \in 0 .. TamMemoria
  <2>1. CASE Ampliar
    <3>1. /\ Ins[2] \in 0 .. TamMemoria /\ Asignar \in Seq(Marcos) /\ tabla[ejecuta] \in Seq(Marcos)
          /\ Redimensionar(tabla[ejecuta] \o Asignar)
      BY <1>1, <2>1, Crece
    <3>2. tabla[ejecuta] \o Asignar \in Seq(Marcos)
      BY <3>1, ConcatProperties
    <3>3. QED BY <3>1, <3>2
  <2>2. CASE Reducir
    BY <1>1, <2>2, Encoge
  <2>3. QED BY <2>1, <2>2
<1>4. QED BY <1>2, <1>3, RedimensionarTipo

\* The CPU that waits for ever changes nothing else.
LEMMA DetenerseTipo ==
    ASSUME Tipado, Detenerse
    PROVE  TypeOK' /\ Pedidos'
<1>1. TypeOK /\ Pedidos
  BY DEF Tipado
<1>2. /\ Fetch({"RESIZE", "MOV_IN", "MOV_OUT", "COPY_STRING"} \cup Textos \cup Salidas)
      /\ detenida' = TRUE /\ UNCHANGED <<estado, ejecuta, regs, pedido>> /\ SinMemoria
  BY DEF Detenerse
<1>3. UNCHANGED <<carga, modo, salida>>
  BY <1>2 DEF Fetch
<1>4. QED BY <1>1, <1>2, <1>3, SinMemoriaTipo DEF TypeOK, Pedidos

\* A dispatch only says who executes.
LEMMA DespacharTipo ==
    ASSUME Tipado, NEW p \in Procesos, Despachar(p)
    PROVE  TypeOK' /\ Pedidos'
BY DEF Tipado, Despachar, Entorno, TypeOK, Pedidos

\* What a device shows are bytes, each with its place.
LEMMA MostradoTipo ==
    ASSUME memoria \in Memorias, NEW ped \in Pedido, EnMemoria(ped), ped.op \in Salidas
    PROVE  Mostrado(ped.trozos) \in Seq(Nat \X Byte)
<1> DEFINE s == ped.trozos
           n == Len(s)
           T == TamPagina
           cuantos == (n - 1) * T + s[n].tam
<1>1. s \in Seq([dir : Nat, tam : Nat, puntero : Nat])
  BY DEF Pedido
<1> HIDE DEF s
<1>2. n \in Nat /\ n >= 1
      /\ \A k \in 1 .. n : s[k].dir \in Nat /\ s[k].tam \in Nat /\ s[k].puntero \in Nat
  <2>1. Len(s) \in Nat /\ \A k \in 1 .. Len(s) : s[k] \in [dir : Nat, tam : Nat, puntero : Nat]
    BY <1>1, LenProperties, ElementOfSeq
  <2>2. Len(s) >= 1
    BY DEF EnMemoria, s
  <2>3. \A x \in [dir : Nat, tam : Nat, puntero : Nat] : x.dir \in Nat /\ x.tam \in Nat /\ x.puntero \in Nat
    OBVIOUS
  <2>4. QED BY <2>1, <2>2, <2>3
<1>3. \A k \in 1 .. n : /\ s[k].dir + s[k].tam <= TamMemoria /\ s[k].tam <= T
                        /\ k < n => s[k].tam = T
  BY DEF EnMemoria, s
<1> HIDE DEF n
<1>4. T \in Nat /\ T > 0 /\ TamMemoria \in Nat
  BY Constantes
<1>5. (n - 1) * T \in Nat /\ s[n].tam \in Nat /\ s[n].tam <= T /\ n * T = (n - 1) * T + T
  BY <1>2, <1>3, <1>4
<1> DEFINE en(j) == s[(j - 1) \div T + 1]
           o(j) == (j - 1) % T
<1>6. Mostrado(s) = [j \in 1 .. cuantos |-> <<en(j).puntero + o(j), memoria[en(j).dir + o(j)]>>]
  BY DEF Mostrado, n
<1>7. ASSUME NEW j \in 1 .. cuantos
      PROVE  <<en(j).puntero + o(j), memoria[en(j).dir + o(j)]>> \in Nat \X Byte
  <2> DEFINE q == (j - 1) \div T
             r == (j - 1) % T
  <2>1. j - 1 \in Nat /\ j - 1 < cuantos
    BY <1>5
  <2>2. q \in Nat /\ r \in 0 .. T - 1 /\ j - 1 = q * T + r
    BY <2>1, Division
  <2> HIDE DEF q, r
  <2>3. q * T \in Nat
    BY <1>4, <2>2
  <2>4. q < n
    <3>1. SUFFICES ASSUME n <= q PROVE FALSE
      BY <1>2, <2>2
    <3>2. n * T <= q * T
      BY <1>2, <2>2, <3>1, Producto
    <3>3. QED BY <1>4, <1>5, <2>1, <2>2, <2>3, <3>2
  <2>5. q + 1 \in 1 .. n
    BY <1>2, <2>2, <2>4
  <2>6. r < s[q + 1].tam
    <3>1. CASE q + 1 < n
      <4>1. s[q + 1].tam = T
        BY <1>3, <2>5, <3>1
      <4>2. QED BY <1>4, <2>2, <4>1
    <3>2. CASE ~ (q + 1 < n)
      <4>1. q + 1 = n /\ q = n - 1
        BY <1>2, <2>2, <2>4, <3>2
      <4>2. j - 1 = (n - 1) * T + r /\ j - 1 < (n - 1) * T + s[n].tam
        BY <2>1, <2>2, <4>1
      <4>3. \A a, b, c \in Nat : a + b < a + c => b < c
        OBVIOUS
      <4>4. r \in Nat
        BY <1>4, <2>2
      <4>5. r < s[n].tam
        BY ONLY <1>5, <4>2, <4>3, <4>4
      <4>6. QED BY <4>1, <4>5
    <3>3. QED BY <3>1, <3>2
  <2>7. r \in Nat /\ s[q + 1].puntero + r \in Nat /\ s[q + 1].dir + r \in 0 .. TamMemoria - 1
    BY <1>2, <1>3, <1>4, <2>2, <2>5, <2>6
  <2>8. memoria[s[q + 1].dir + r] \in Byte
    BY <2>7 DEF Memorias
  <2>9. en(j) = s[q + 1] /\ o(j) = r
    BY DEF q, r
  <2>10. QED BY <2>7, <2>8, <2>9
<1>8. cuantos \in Nat
  BY <1>5
<1> HIDE DEF en, o, cuantos
<1>9. Mostrado(s) \in Seq(Nat \X Byte)
  BY <1>6, <1>7, <1>8, IsASeq
<1>10. QED BY <1>9 DEF s

\* The device that ends writes bytes inside the memory, or shows some.
LEMMA FinIOTipo ==
    ASSUME Tipado, NEW p \in Procesos, FinIO(p)
    PROVE  TypeOK' /\ Pedidos'
<1> DEFINE ped == pedido[p]
           s == ped.trozos
           texto(k) == [j \in 1 .. s[k].tam |-> Texto(s[k].puntero + j - 1)]
           dirs == [k \in DOMAIN s |-> s[k].dir]
           datos == [k \in DOMAIN s |-> texto(k)]
<1>1. TypeOK /\ Pedidos
  BY DEF Tipado
<1>2. /\ UNCHANGED <<carga, modo, regs, tabla, tamanio, tlb, recientes, detenida, ejecuta, tocados>>
      /\ estado' = [estado EXCEPT ![p] = "listo"]
      /\ pedido' = [pedido EXCEPT ![p] = Ninguno]
      /\ memoria' = IF ped.op \notin Textos THEN memoria ELSE EscribirTrozos(dirs, datos)
      /\ salida' = IF ped.op \notin Salidas THEN salida ELSE [salida EXCEPT ![p] = Mostrado(s)]
  BY DEF FinIO, Entorno
<1>3. ped \in Pedido /\ EnMemoria(ped) /\ memoria \in Memorias
  BY <1>1 DEF TypeOK, Pedidos, Memorias
<1>4. memoria' \in Memorias
  <2>1. s \in Seq([dir : Nat, tam : Nat, puntero : Nat])
    BY <1>3 DEF Pedido
  <2> HIDE DEF s
  <2>2. /\ Len(s) \in Nat /\ DOMAIN s = 1 .. Len(s)
        /\ \A k \in 1 .. Len(s) : s[k].dir \in Nat /\ s[k].tam \in Nat /\ s[k].puntero \in Nat
    <3>1. /\ Len(s) \in Nat /\ DOMAIN s = 1 .. Len(s)
          /\ \A k \in 1 .. Len(s) : s[k] \in [dir : Nat, tam : Nat, puntero : Nat]
      BY <2>1, LenProperties, ElementOfSeq
    <3>2. \A x \in [dir : Nat, tam : Nat, puntero : Nat] : x.dir \in Nat /\ x.tam \in Nat /\ x.puntero \in Nat
      OBVIOUS
    <3>3. QED BY <3>1, <3>2
  <2>3. \A k \in 1 .. Len(s) : texto(k) \in Seq(Byte)
    <3>1. SUFFICES ASSUME NEW k \in 1 .. Len(s) PROVE texto(k) \in Seq(Byte)
      OBVIOUS
    <3>2. \A j \in 1 .. s[k].tam : Texto(s[k].puntero + j - 1) \in Byte
      <4>1. \A x \in Int : Texto(x) \in Byte
        BY DEF Texto, Byte
      <4>2. \A j \in 1 .. s[k].tam : s[k].puntero + j - 1 \in Int
        BY <2>2
      <4>3. QED BY <4>1, <4>2
    <3>3. QED BY <2>2, <3>2, IsASeq
  <2> HIDE DEF texto
  <2>4. /\ Len(datos) = Len(s)
        /\ \A k \in 1 .. Len(s) : dirs[k] = s[k].dir /\ datos[k] = texto(k)
    BY <2>2
  <2> HIDE DEF dirs, datos
  <2>5. EscribirTrozos(dirs, datos) \in Memorias
    BY <1>3, <2>2, <2>3, <2>4, EscriturasTipo
  <2>6. QED BY <1>2, <1>3, <2>5
<1>5. salida' \in [Procesos -> Seq(Nat \X Byte)]
  <2>1. salida \in [Procesos -> Seq(Nat \X Byte)]
    BY <1>1 DEF TypeOK
  <2>2. ped.op \in Salidas => Mostrado(s) \in Seq(Nat \X Byte)
    BY <1>3, MostradoTipo
  <2>3. QED BY <1>2, <2>1, <2>2
<1>6. /\ estado \in [Procesos -> {"listo", "bloqueado", "fin"}] /\ pedido \in [Procesos -> Pedido]
      /\ \A q \in Procesos : pedido[q] # Ninguno => estado[q] = "bloqueado"
  BY <1>1 DEF TypeOK
<1>7. estado' \in [Procesos -> {"listo", "bloqueado", "fin"}] /\ pedido' \in [Procesos -> Pedido]
  BY <1>2, <1>6, SinPedido
<1>8. \A q \in Procesos : /\ pedido'[q] # Ninguno => estado'[q] = "bloqueado"
                          /\ pedido'[q] = Ninguno \/ pedido'[q] = pedido[q]
  BY <1>2, <1>6
<1>9. Pedidos'
  BY <1>1, <1>8, SinPedido DEF Pedidos, EnMemoria
<1>10. QED BY <1>1, <1>2, <1>4, <1>5, <1>7, <1>8, <1>9 DEF TypeOK, Memorias

\* At the start.
LEMMA InicioTipado ==
    ASSUME Init
    PROVE  Tipado
<1>1. regs \in [Procesos -> Banco]
  <2>1. [r \in Registros |-> Bytes(0, TamanioRegistro(r))] \in Banco
    <3>1. \A r \in Registros : /\ Bytes(0, TamanioRegistro(r)) \in Seq(Byte)
                               /\ Len(Bytes(0, TamanioRegistro(r))) = TamanioRegistro(r)
      <4>1. \A r : TamanioRegistro(r) \in {1, 4}
        BY DEF TamanioRegistro
      <4>2. \A n \in {1, 4} : Bytes(0, n) \in Seq(Byte) /\ Len(Bytes(0, n)) = n
        <5>1. 0 \in Int
          OBVIOUS
        <5>2. \A v \in Int : \A n \in {1, 4} : Bytes(v, n) \in Seq(Byte) /\ Len(Bytes(v, n)) = n
          BY BytesTipo
        <5>3. QED BY <5>1, <5>2, Zenon
      <4>3. QED BY <4>1, <4>2
    <3>2. QED BY <3>1 DEF Banco
  <2>2. QED BY <2>1 DEF Init
<1>2. memoria \in [0 .. TamMemoria - 1 -> Byte]
  BY DEF Init, Byte
<1>3. tabla \in [Procesos -> Seq(Marcos)] /\ salida \in [Procesos -> Seq(Nat \X Byte)]
  BY EmptySeq DEF Init
<1>4. tamanio \in [Procesos -> 0 .. TamMemoria]
  BY Constantes DEF Init
<1>5. /\ pedido \in [Procesos -> Pedido] /\ Pedidos
      /\ \A p \in Procesos : pedido[p] # Ninguno => estado[p] = "bloqueado"
  BY SinPedido DEF Init, Pedidos
<1>6. tlb \in Seq(Entrada) /\ Len(tlb) <= modo.entradas
  <2>1. modo.entradas \in Nat
    BY ConstantesOK DEF Init
  <2>2. tlb = <<>>
    BY DEF Init
  <2>3. QED BY <2>1, <2>2, EmptySeq
<1>7. recientes \in Seq(Procesos \X Nat)
  BY EmptySeq DEF Init
<1>8. QED BY <1>1, <1>2, <1>3, <1>4, <1>5, <1>6, <1>7 DEF Init, Tipado, TypeOK

\* Every step.
LEMMA PasoTipado ==
    ASSUME Tipado, [Next]_vars
    PROVE  Tipado'
<1>1. CASE Next
  BY <1>1, CalcularTipo, MOV_INTipo, MOV_OUTTipo, COPY_STRINGTipo, RESIZETipo, EXITTipo,
     DetenerseTipo, PedirAccesoTipo, PedirIOTipo, RecursoTipo, DespacharTipo, FinIOTipo
     DEF Next, Tipado
<1>2. CASE UNCHANGED vars
  BY <1>2 DEF vars, Tipado, TypeOK, Pedidos
<1>3. QED BY <1>1, <1>2

\* Registers keep their width, tables hold frames, the TLB does not grow beyond
\* its entries, and only a blocked process has a request, whatever the programs.
THEOREM Tipos ==
    Spec => []TypeOK
<1>1. Init => Tipado
  BY InicioTipado
<1>2. Tipado /\ [Next]_vars => Tipado'
  BY PasoTipado
<1>3. Tipado => TypeOK
  BY DEF Tipado
<1>4. QED BY <1>1, <1>2, <1>3, PTL DEF Spec

-------------------------------------------------------------------------------
(* What the TLB holds *)

Unicas(s) == \A i, j \in 1 .. Len(s) : s[i] = s[j] => i = j

\* What is used goes to the end of the list, once, and the rest keep their order.
LEMMA AlFrente ==
    ASSUME NEW S, NEW s \in Seq(S), NEW e \in S, Unicas(s)
    PROVE  LET u == Append(RemoveFirst(s, e), e)
           IN  /\ u \in Seq(S) /\ Unicas(u) /\ Len(s) \in Nat
               /\ (\A i \in 1 .. Len(s) : s[i] # e) =>
                    /\ Len(u) = Len(s) + 1 /\ u[Len(s) + 1] = e
                    /\ \A k \in 1 .. Len(s) : u[k] = s[k]
               /\ \A i \in 1 .. Len(s) : s[i] = e =>
                    /\ Len(u) = Len(s) /\ u[Len(s)] = e
                    /\ \A k \in 1 .. Len(s) - 1 : u[k] = IF k < i THEN s[k] ELSE s[k + 1]
<1> DEFINE r == RemoveFirst(s, e)
           u == Append(r, e)
           n == Len(s)
<1>1. n \in Nat /\ \A i \in 1 .. n : s[i] \in S
  BY LenProperties, ElementOfSeq
<1>2. r \in Seq(S)
  BY Quitar
<1>3. /\ u \in Seq(S) /\ Len(u) = Len(r) + 1 /\ Len(r) \in Nat /\ u[Len(r) + 1] = e
      /\ \A k \in 1 .. Len(r) : u[k] = r[k]
  BY <1>2, AppendProperties, LenProperties
<1> HIDE DEF u
<1>4. CASE \A i \in 1 .. n : s[i] # e
  <2>1. r = s
    BY <1>4, Quitar
  <2>2. Len(u) = n + 1 /\ u[n + 1] = e /\ \A k \in 1 .. n : u[k] = s[k]
    BY <1>3, <2>1
  <2>3. Unicas(u)
    <3>1. ASSUME NEW i \in 1 .. n + 1, NEW j \in 1 .. n + 1, u[i] = u[j]
          PROVE  i = j
      <4>1. i \in 1 .. n \/ i = n + 1
        BY <1>1
      <4>2. j \in 1 .. n \/ j = n + 1
        BY <1>1
      <4>3. CASE i \in 1 .. n /\ j \in 1 .. n
        BY <2>2, <3>1, <4>3 DEF Unicas
      <4>4. CASE i = n + 1 /\ j \in 1 .. n
        BY <1>4, <2>2, <3>1, <4>4
      <4>5. CASE i \in 1 .. n /\ j = n + 1
        BY <1>4, <2>2, <3>1, <4>5
      <4>6. QED BY <4>1, <4>2, <4>3, <4>4, <4>5
    <3>2. QED BY <2>2, <3>1 DEF Unicas
  <2>4. QED BY <1>1, <1>3, <1>4, <2>2, <2>3 DEF u
<1>5. ASSUME NEW i \in 1 .. n, s[i] = e
      PROVE  /\ Len(u) = n /\ u[n] = e /\ Unicas(u)
             /\ \A k \in 1 .. n - 1 : u[k] = IF k < i THEN s[k] ELSE s[k + 1]
  <2>1. \A j \in 1 .. n : s[j] = e => i <= j
    BY <1>1, <1>5 DEF Unicas
  <2>2. Len(r) = n - 1 /\ \A k \in 1 .. n - 1 : r[k] = IF k < i THEN s[k] ELSE s[k + 1]
    BY <1>5, <2>1, Quitar
  <2>3. /\ Len(u) = n /\ u[n] = e
        /\ \A k \in 1 .. n - 1 : u[k] = IF k < i THEN s[k] ELSE s[k + 1]
    <3>1. Len(r) + 1 = n
      BY <1>1, <2>2
    <3> HIDE DEF r
    <3>2. QED BY <1>3, <2>2, <3>1
  <2> DEFINE de(k) == IF k = n THEN i ELSE IF k < i THEN k ELSE k + 1
  <2>4. \A k \in 1 .. n : de(k) \in 1 .. n /\ u[k] = s[de(k)]
    <3>1. SUFFICES ASSUME NEW k \in 1 .. n PROVE de(k) \in 1 .. n /\ u[k] = s[de(k)]
      OBVIOUS
    <3>2. CASE k = n
      BY <1>5, <2>3, <3>2
    <3>3. CASE k # n
      <4>1. k \in 1 .. n - 1
        BY <1>1, <3>3
      <4>2. QED BY <1>1, <2>3, <3>3, <4>1
    <3>4. QED BY <3>2, <3>3
  <2>5. \A k, l \in 1 .. n : de(k) = de(l) => k = l
    BY <1>1
  <2>6. Unicas(u)
    <3> HIDE DEF de
    <3>1. ASSUME NEW k \in 1 .. n, NEW l \in 1 .. n, u[k] = u[l]
          PROVE  k = l
      <4>1. de(k) = de(l)
        BY <2>4, <3>1 DEF Unicas
      <4>2. QED BY <2>5, <4>1
    <3>2. QED BY <2>3, <3>1 DEF Unicas
  <2>7. QED BY <2>3, <2>6
<1>6. CASE \E i \in 1 .. n : s[i] = e
  <2>1. Unicas(u)
    BY <1>5, <1>6
  <2>2. QED BY <1>1, <1>3, <1>5, <1>6, <2>1 DEF u
<1>7. QED BY <1>4, <1>6

\* With LRU, the TLB holds the last pages of the history, in its order.
Cola(l, usos) ==
    modo.algoritmo = "LRU" =>
        LET m == Menor(modo.entradas, Len(usos))
        IN  /\ Len(l) = m
            /\ \A k \in 1 .. m : <<l[k].pid, l[k].pagina>> = usos[Len(usos) - m + k]

\* So it is after one address.
LEMMA TurnoUsos ==
    ASSUME TypeOK, ejecuta \in Procesos, NEW t, TipoTurno(t), NEW dir \in Nat,
           Unicas(t.usos), Cola(t.tlb, t.usos)
    PROVE  LET u == Traducir(t, dir) IN Unicas(u.usos) /\ Cola(u.tlb, u.usos)
<1> DEFINE u == Traducir(t, dir)
           q == <<ejecuta, dir \div TamPagina>>
           l == t.tlb
           us == t.usos
           n == Len(us)
           N == modo.entradas
           clave(x) == <<x.pid, x.pagina>>
<1>1. l \in Seq(Entrada) /\ us \in Seq(Procesos \X Nat) /\ q \in Procesos \X Nat
  BY Division DEF TipoTurno
<1>2. PICK e \in Entrada :
        /\ clave(e) = q
        /\ u.usos = Append(RemoveFirst(us, q), q)
        /\ \/ e \in ToSet(l) /\ u.tlb = MoverAlFrente(l, e)
           \/ /\ \A x \in ToSet(l) : clave(x) # q
              /\ u.tlb = Agregar(l, e)
  <2>1. PICK e \in Entrada :
          /\ e.pid = ejecuta /\ e.pagina = dir \div TamPagina
          /\ u.usos = Append(RemoveFirst(us, q), q)
          /\ \/ e \in ToSet(l) /\ u.tlb = MoverAlFrente(l, e)
             \/ /\ \A x \in ToSet(l) : ~ (x.pid = ejecuta /\ x.pagina = e.pagina)
                /\ u.tlb = Agregar(l, e)
    BY <1>1, UnTurno
  <2> HIDE DEF u
  <2>2. QED BY <2>1
<1> HIDE DEF u, q, l, us, clave
<1>3. /\ u.usos \in Seq(Procesos \X Nat) /\ Unicas(u.usos) /\ n \in Nat
      /\ (\A i \in 1 .. n : us[i] # q) =>
            /\ Len(u.usos) = n + 1 /\ u.usos[n + 1] = q
            /\ \A k \in 1 .. n : u.usos[k] = us[k]
      /\ \A i \in 1 .. n : us[i] = q =>
            /\ Len(u.usos) = n /\ u.usos[n] = q
            /\ \A k \in 1 .. n - 1 : u.usos[k] = IF k < i THEN us[k] ELSE us[k + 1]
  <2>1. Unicas(us)
    BY DEF us
  <2> DEFINE Usos == Procesos \X Nat
  <2>2. us \in Seq(Usos) /\ q \in Usos
    BY <1>1
  <2> HIDE DEF Usos
  <2>3. PICK x \in Usos : x = q
    BY <2>2
  <2> DEFINE v == Append(RemoveFirst(us, x), x)
  <2>4. /\ v \in Seq(Usos) /\ Unicas(v) /\ Len(us) \in Nat
        /\ (\A i \in 1 .. Len(us) : us[i] # x) =>
            /\ Len(v) = Len(us) + 1 /\ v[Len(us) + 1] = x
            /\ \A k \in 1 .. Len(us) : v[k] = us[k]
        /\ \A i \in 1 .. Len(us) : us[i] = x =>
            /\ Len(v) = Len(us) /\ v[Len(us)] = x
            /\ \A k \in 1 .. Len(us) - 1 : v[k] = IF k < i THEN us[k] ELSE us[k + 1]
    BY <2>1, <2>2, AlFrente
  <2>5. u.usos = v
    BY <1>2, <2>3
  <2> HIDE DEF v
  <2>6. QED BY <2>3, <2>4, <2>5 DEF Usos
<1>4. Len(l) \in Nat /\ N \in Nat /\ (\A i \in 1 .. Len(l) : l[i] \in ToSet(l))
  BY <1>1, Lugares, ConstantesOK DEF TypeOK
<1> HIDE DEF n, N
<1>5. ASSUME modo.algoritmo = "LRU"
      PROVE  Cola(u.tlb, u.usos)
  <2> DEFINE m == Menor(N, n)
  <2>1. Len(l) = m /\ \A k \in 1 .. m : clave(l[k]) = us[n - m + k]
    BY <1>5 DEF Cola, l, us, clave, n, N
  <2>2. m \in Nat /\ m <= N /\ m <= n /\ (m = N \/ m = n)
    BY <1>3, <1>4 DEF Menor
  <2> HIDE DEF m
  <2> SUFFICES /\ Len(u.tlb) = Menor(N, Len(u.usos))
               /\ \A k \in 1 .. Len(u.tlb) :
                    clave(u.tlb[k]) = u.usos[Len(u.usos) - Len(u.tlb) + k]
    BY <1>5 DEF Cola, clave, N
  <2>3. ASSUME u.tlb = Agregar(l, e), N > 0, m = n, n < N,
               \A i \in 1 .. n : us[i] # q
        PROVE  /\ Len(u.tlb) = Menor(N, Len(u.usos))
               /\ \A k \in 1 .. Len(u.tlb) :
                    clave(u.tlb[k]) = u.usos[Len(u.usos) - Len(u.tlb) + k]
    <3>1. u.tlb = Append(l, e)
      BY <2>1, <2>3 DEF Agregar, N
    <3>2. Len(u.tlb) = n + 1 /\ u.tlb[n + 1] = e /\ \A k \in 1 .. n : u.tlb[k] = l[k]
      BY <1>1, <2>1, <2>3, <3>1, AppendProperties
    <3>3. /\ Len(u.usos) = n + 1 /\ u.usos[n + 1] = q
          /\ \A k \in 1 .. n : u.usos[k] = us[k]
      BY <1>3, <2>3
    <3>4. \A k \in 1 .. n : clave(l[k]) = us[k]
      BY <1>3, <2>1, <2>3
    <3>5. \A k \in 1 .. n + 1 : clave(u.tlb[k]) = u.usos[k]
      <4>1. \A k \in 1 .. n + 1 : k \in 1 .. n \/ k = n + 1
        BY <1>3
      <4>2. QED BY <1>2, <3>2, <3>3, <3>4, <4>1
    <3>6. Menor(N, n + 1) = n + 1
      BY <1>3, <1>4, <2>3 DEF Menor
    <3>7. \A k \in 1 .. n + 1 : (n + 1) - (n + 1) + k = k
      BY <1>3
    <3>8. QED BY <3>2, <3>3, <3>5, <3>6, <3>7
  <2>4. ASSUME u.tlb = Agregar(l, e), N > 0, m = N, NEW c \in {0, 1}, Len(u.usos) = n + c,
               u.usos[n + c] = q,
               \A k \in n - N + 1 .. n - 1 : u.usos[k + c] = us[k + 1]
        PROVE  /\ Len(u.tlb) = Menor(N, Len(u.usos))
               /\ \A k \in 1 .. Len(u.tlb) :
                    clave(u.tlb[k]) = u.usos[Len(u.usos) - Len(u.tlb) + k]
    <3>1. u.tlb = Append(Tail(l), e)
      BY <1>4, <2>1, <2>4 DEF Agregar, N
    <3>2. l # <<>>
      BY <1>1, <1>4, <2>1, <2>4, EmptySeq
    <3>3. Tail(l) \in Seq(Entrada) /\ Len(Tail(l)) = N - 1
          /\ \A k \in 1 .. N - 1 : Tail(l)[k] = l[k + 1]
      BY <1>1, <2>1, <2>4, <3>2, HeadTailProperties
    <3>4. Len(u.tlb) = N /\ u.tlb[N] = e /\ \A k \in 1 .. N - 1 : u.tlb[k] = l[k + 1]
      <4>1. /\ Len(u.tlb) = (N - 1) + 1 /\ u.tlb[(N - 1) + 1] = e
            /\ \A k \in 1 .. N - 1 : u.tlb[k] = Tail(l)[k]
        BY <3>1, <3>3, AppendProperties
      <4>2. (N - 1) + 1 = N
        BY <1>4
      <4>3. QED BY <3>3, <4>1, <4>2
    <3>5. Menor(N, n + c) = N
      BY <1>3, <1>4, <2>2, <2>4 DEF Menor
    <3>6. ASSUME NEW k \in 1 .. N - 1
          PROVE  clave(u.tlb[k]) = u.usos[n + c - N + k]
      <4>1. clave(l[k + 1]) = us[n - N + (k + 1)]
        BY <1>4, <2>1, <2>4
      <4>2. /\ n - N + k \in n - N + 1 .. n - 1
            /\ (n - N + k) + c = n + c - N + k /\ (n - N + k) + 1 = n - N + (k + 1)
        BY <1>3, <1>4
      <4>3. QED BY <2>4, <3>4, <4>1, <4>2
    <3>7. n + c - N + N = n + c
      BY <1>3, <1>4
    <3>8. \A k \in 1 .. N : k \in 1 .. N - 1 \/ k = N
      BY <1>4
    <3>9. \A k \in 1 .. N : clave(u.tlb[k]) = u.usos[n + c - N + k]
      BY <1>2, <2>4, <3>4, <3>6, <3>7, <3>8
    <3>10. Len(u.usos) = n + c /\ Len(u.tlb) = N
      BY <2>4, <3>4
    <3>11. \A k \in 1 .. N : Len(u.usos) - Len(u.tlb) + k = n + c - N + k
      BY ONLY <3>10, <1>3, <1>4
    <3>12. QED BY ONLY <3>5, <3>9, <3>10, <3>11, Zenon
  <2>5. ASSUME u.tlb = Agregar(l, e), N = 0
        PROVE  /\ Len(u.tlb) = Menor(N, Len(u.usos))
               /\ \A k \in 1 .. Len(u.tlb) :
                    clave(u.tlb[k]) = u.usos[Len(u.usos) - Len(u.tlb) + k]
    <3>1. u.tlb = <<>>
      BY <2>5 DEF Agregar, N
    <3>2. Len(u.tlb) = 0
      BY <3>1
    <3>3. Len(u.usos) \in Nat
      BY <1>3, LenProperties
    <3>4. QED BY <2>5, <3>2, <3>3 DEF Menor
  <2>6. CASE \A i \in 1 .. n : us[i] # q
    <3>1. u.tlb = Agregar(l, e)
      <4>1. \A i \in 1 .. m : n - m + i \in 1 .. n
        BY <1>3, <2>2
      <4>2. \A i \in 1 .. m : clave(l[i]) # q
        BY <2>1, <2>6, <4>1
      <4>3. e \notin ToSet(l)
        BY <1>1, <1>2, <2>1, <4>2, Lugares
      <4>4. QED BY <1>2, <4>3
    <3>2. CASE N = 0
      BY <2>5, <3>1, <3>2
    <3>3. CASE N > 0 /\ n < N
      <4>1. m = n
        BY <1>3, <1>4, <2>2, <3>3
      <4>2. QED BY <2>3, <2>6, <3>1, <3>3, <4>1
    <3>4. CASE N > 0 /\ N <= n
      <4>1. m = N
        BY <1>3, <1>4, <2>2, <3>4
      <4>2. \A k \in n - N + 1 .. n - 1 : k + 1 \in 1 .. n
        BY <1>3, <1>4, <3>4
      <4>3. /\ Len(u.usos) = n + 1 /\ u.usos[n + 1] = q
            /\ \A k \in n - N + 1 .. n - 1 : u.usos[k + 1] = us[k + 1]
        BY <1>3, <2>6, <4>2
      <4>4. QED BY <2>4, <3>1, <3>4, <4>1, <4>3
    <3>5. N = 0 \/ (N > 0 /\ n < N) \/ (N > 0 /\ N <= n)
      BY <1>3, <1>4
    <3>6. QED BY <3>2, <3>3, <3>4, <3>5
  <2>7. ASSUME NEW i \in 1 .. n, us[i] = q
        PROVE  /\ Len(u.tlb) = Menor(N, Len(u.usos))
               /\ \A k \in 1 .. Len(u.tlb) :
                    clave(u.tlb[k]) = u.usos[Len(u.usos) - Len(u.tlb) + k]
    <3>1. /\ Len(u.usos) = n /\ u.usos[n] = q
          /\ \A k \in 1 .. n - 1 : u.usos[k] = IF k < i THEN us[k] ELSE us[k + 1]
      BY <1>3, <2>7
    <3>2. CASE e \in ToSet(l) /\ u.tlb = MoverAlFrente(l, e)
      <4>1. PICK j \in 1 .. m : l[j] = e
        BY <1>1, <2>1, <3>2, Lugares
      <4>2. us[n - m + j] = q /\ n - m + j \in 1 .. n
        BY <1>2, <1>3, <2>1, <2>2, <4>1
      <4>3. i = n - m + j
        <5>1. Unicas(us)
          BY DEF us
        <5>2. QED BY <2>7, <4>2, <5>1 DEF Unicas, n
      <4>4. Unicas(l)
        <5>1. ASSUME NEW a \in 1 .. m, NEW b \in 1 .. m, l[a] = l[b]
              PROVE  a = b
          <6>1. n - m + a \in 1 .. n /\ n - m + b \in 1 .. n
            BY <1>3, <2>2
          <6>2. us[n - m + a] = us[n - m + b]
            BY <2>1, <5>1
          <6>3. n - m + a = n - m + b
            BY <6>1, <6>2 DEF Unicas, us, n
          <6>4. QED BY <1>3, <2>2, <6>3
        <5>2. QED BY <2>1, <5>1 DEF Unicas
      <4>5. u.tlb = Append(RemoveFirst(l, e), e)
        BY <1>5, <3>2 DEF MoverAlFrente
      <4>6. /\ Len(u.tlb) = m /\ u.tlb[m] = e
            /\ \A k \in 1 .. m - 1 : u.tlb[k] = IF k < j THEN l[k] ELSE l[k + 1]
        <5> DEFINE v == Append(RemoveFirst(l, e), e)
        <5>1. j \in 1 .. Len(l) /\ l[j] = e
          BY <2>1, <4>1
        <5>2. /\ Len(v) = Len(l) /\ v[Len(l)] = e
              /\ \A k \in 1 .. Len(l) - 1 : v[k] = IF k < j THEN l[k] ELSE l[k + 1]
          BY <1>1, <4>4, <5>1, AlFrente, SMTT(30)
        <5> HIDE DEF v
        <5>3. u.tlb = v
          BY <4>5 DEF v
        <5>4. QED BY <2>1, <5>2, <5>3
      <4>7. ASSUME NEW k \in 1 .. m - 1
            PROVE  clave(u.tlb[k]) = u.usos[n - m + k]
        <5>1. n - m + k \in 1 .. n - 1 /\ (n - m + k) + 1 = n - m + (k + 1)
          BY <1>3, <2>2
        <5>2. CASE k < j
          <6>1. k \in 1 .. m /\ n - m + k < i
            <7>1. n \in Nat /\ m \in Nat /\ j \in Nat
              BY <1>3, <2>2
            <7>2. QED BY ONLY <4>3, <5>2, <7>1, k \in 1 .. m - 1
          <6>2. QED BY <2>1, <3>1, <4>6, <5>1, <5>2, <6>1
        <5>3. CASE ~ (k < j)
          <6>1. k + 1 \in 1 .. m /\ ~ (n - m + k < i)
            <7>1. k \in Nat /\ j \in Nat /\ j <= k /\ k <= m - 1
              BY <2>2, <5>3
            <7>2. QED BY <1>3, <2>2, <4>3, <7>1
          <6>2. QED BY <2>1, <3>1, <4>6, <5>1, <5>3, <6>1
        <5>4. QED BY <5>2, <5>3
      <4>8. Menor(N, n) = m /\ n - m + m = n
        BY <1>3, <2>2 DEF m
      <4>9. \A k \in 1 .. m : k \in 1 .. m - 1 \/ k = m
        BY <2>2
      <4>10. \A k \in 1 .. m : clave(u.tlb[k]) = u.usos[n - m + k]
        BY <1>2, <3>1, <4>6, <4>7, <4>8, <4>9
      <4>11. QED BY <3>1, <4>6, <4>8, <4>10
    <3>3. CASE (\A x \in ToSet(l) : clave(x) # q) /\ u.tlb = Agregar(l, e)
      <4>1. i <= n - m
        <5>1. SUFFICES ASSUME n - m < i PROVE FALSE
          BY <1>3, <2>2
        <5>2. i - (n - m) \in 1 .. m /\ n - m + (i - (n - m)) = i
          BY <1>3, <2>2, <5>1
        <5>3. clave(l[i - (n - m)]) = q
          BY <2>1, <2>7, <5>2
        <5>4. QED BY <1>4, <2>1, <3>3, <5>2, <5>3
      <4>2. m = N
        BY <1>3, <2>2, <4>1
      <4>3. CASE N = 0
        BY <2>5, <3>3, <4>3
      <4>4. CASE N # 0
        <5>1. \A k \in n - N + 1 .. n - 1 : k \in 1 .. n - 1 /\ ~ (k < i) /\ k + 0 = k
          BY <1>3, <1>4, <2>2, <4>1, <4>2
        <5>2. \A k \in n - N + 1 .. n - 1 : u.usos[k + 0] = us[k + 1]
          BY <3>1, <5>1
        <5>3. n + 0 = n /\ 0 \in {0, 1} /\ N > 0
          BY <1>3, <1>4, <4>4
        <5>4. QED BY <2>4, <3>1, <3>3, <4>2, <5>2, <5>3
      <4>5. QED BY <4>3, <4>4
    <3>4. QED BY <1>2, <3>2, <3>3
  <2>8. QED BY <2>6, <2>7
<1>6. QED BY <1>3, <1>5 DEF Cola, u

\* And after a whole access.
LEMMA TraduccionUsos ==
    ASSUME TypeOK, ejecuta \in Procesos, NEW s \in Seq(Trozos),
           Unicas(recientes), Cola(tlb, recientes)
    PROVE  Unicas(Traduccion(s).usos) /\ Cola(Traduccion(s).tlb, Traduccion(s).usos)
<1>1. Len(s) \in Nat /\ \A k \in 1 .. Len(s) : s[k].dir \in Nat
  <2>1. Len(s) \in Nat /\ \A k \in 1 .. Len(s) : s[k] \in Trozos
    BY LenProperties, ElementOfSeq
  <2>2. \A x \in Trozos : x.dir \in Nat
    BY DEF Trozos
  <2>3. QED BY <2>1, <2>2
<1>2. PICK g : /\ g[0] = [tlb |-> tlb, dirs |-> <<>>, usos |-> recientes, falta |-> FALSE]
               /\ \A k \in 1 .. Len(s) : g[k] = Traducir(g[k - 1], s[k].dir)
               /\ Traduccion(s) = g[Len(s)]
  BY <1>1, Turnos
<1> DEFINE T == {k \in Nat : TipoTurno(g[k]) /\ Unicas(g[k].usos) /\ Cola(g[k].tlb, g[k].usos)}
<1>3. 0 \in T
  <2>1. TipoTurno(g[0])
    BY <1>2, EmptySeq DEF TypeOK, TipoTurno
  <2>2. g[0].usos = recientes /\ g[0].tlb = tlb
    BY <1>2
  <2>3. QED BY <2>1, <2>2
<1>4. ASSUME NEW k \in 0 .. Len(s) - 1, k \in T
      PROVE  k + 1 \in T
  <2>1. k + 1 \in 1 .. Len(s) /\ (k + 1) - 1 = k
    BY <1>1
  <2>2. g[k + 1] = Traducir(g[k], s[k + 1].dir)
    BY <1>2, <2>1
  <2>3. TipoTurno(g[k + 1])
    BY <1>1, <1>4, <2>1, <2>2, TurnoTipo
  <2>4. Unicas(g[k + 1].usos) /\ Cola(g[k + 1].tlb, g[k + 1].usos)
    BY <1>1, <1>4, <2>1, <2>2, TurnoUsos
  <2>5. QED BY <2>3, <2>4
<1>5. Len(s) \in T
  <2> HIDE DEF T
  <2>1. \A k \in 0 .. Len(s) : k \in T
    BY <1>1, <1>3, <1>4, HastaN
  <2>2. QED BY <1>1, <2>1
<1>6. QED BY <1>2, <1>5

\* The instructions that use the user space, and how they cut what they ask for.
Accesos == MOV_IN \/ MOV_OUT \/ COPY_STRING \/ PedirAcceso

\* An instruction that uses the user space translates some list of pieces, and
\* with EnSuPagina each of them is in one page.
LEMMA CadaAcceso ==
    ASSUME TypeOK, Accesos
    PROVE  /\ ejecuta \in Procesos /\ ~ detenida
           /\ UNCHANGED <<carga, modo, tabla, tamanio>>
           /\ \E s \in Seq(Trozos) :
                Accede(Traduccion(s), s) /\ (EnSuPagina => EnUnaPagina(s))
<1>1. CASE MOV_IN
  <2> DEFINE s == CortarPorPagina(Reg(3), TamanioRegistro(Ins[2]))
  <2>1. Fetch({"MOV_IN"}) /\ Accede(Traduccion(s), s) /\ UNCHANGED <<tabla, tamanio>>
    BY <1>1 DEF MOV_IN
  <2>2. /\ ejecuta \in Procesos /\ ~ detenida /\ R \in Banco /\ EsInstruccion(Ins)
        /\ Ins[1] \in {"MOV_IN"} /\ UNCHANGED <<carga, modo>>
        /\ \A k : Ins[k] \in Registros => Reg(k) \in Nat
    BY <2>1, Decodifica
  <2>3. Ins[2] \in Registros /\ Ins[3] \in Registros
    BY <2>2, Palabras
  <2>4. Reg(3) \in Nat /\ TamanioRegistro(Ins[2]) \in Nat /\ TamanioRegistro(Ins[2]) > 0
    BY <2>2, <2>3, AnchoRegistro
  <2>5. s \in Seq(Trozos) /\ EnUnaPagina(s)
    BY <2>4, PorPagina DEF Cubren
  <2>6. QED BY <2>1, <2>2, <2>5
<1>2. CASE MOV_OUT
  <2> DEFINE s == CortarPorPagina(Reg(2), Len(R[Ins[3]]))
  <2>1. Fetch({"MOV_OUT"}) /\ Accede(Traduccion(s), s) /\ UNCHANGED <<tabla, tamanio>>
    BY <1>2 DEF MOV_OUT
  <2>2. /\ ejecuta \in Procesos /\ ~ detenida /\ R \in Banco /\ EsInstruccion(Ins)
        /\ Ins[1] \in {"MOV_OUT"} /\ UNCHANGED <<carga, modo>>
        /\ \A k : Ins[k] \in Registros => Reg(k) \in Nat
    BY <2>1, Decodifica
  <2>3. Ins[2] \in Registros /\ Ins[3] \in Registros
    BY <2>2, Palabras
  <2>4. Reg(2) \in Nat /\ Len(R[Ins[3]]) \in Nat /\ Len(R[Ins[3]]) > 0
    BY <2>2, <2>3, AnchoRegistro
  <2>5. s \in Seq(Trozos) /\ EnUnaPagina(s)
    BY <2>4, PorPagina DEF Cubren
  <2>6. QED BY <2>1, <2>2, <2>5
<1>3. CASE COPY_STRING
  <2> DEFINE s == TrozosCopia(Ins[2])
             de == CortarPorTamanio(Valor(R["SI"]), Ins[2])
             a == CortarPorTamanio(Valor(R["DI"]), Ins[2])
  <2>1. Fetch({"COPY_STRING"}) /\ Accede(Traduccion(s), s) /\ UNCHANGED <<tabla, tamanio>>
    BY <1>3 DEF COPY_STRING
  <2>2. /\ ejecuta \in Procesos /\ ~ detenida /\ R \in Banco /\ EsInstruccion(Ins)
        /\ Ins[1] \in {"COPY_STRING"} /\ UNCHANGED <<carga, modo>>
        /\ \A r \in Registros : Valor(R[r]) \in Nat
    BY <2>1, Decodifica
  <2>3. Ins[2] \in Nat /\ Valor(R["SI"]) \in Nat /\ Valor(R["DI"]) \in Nat
    BY <2>2, Palabras, Nombres
  <2>4. /\ s \in Seq(Trozos) /\ Len(s) = 2 * Len(de) /\ Len(a) = Len(de) /\ Len(de) \in Nat
        /\ \A k \in 1 .. Len(de) : s[2 * k - 1] = de[k] /\ s[2 * k] = a[k]
    BY <2>3, DeAOtra
  <2>5. EnSuPagina => EnUnaPagina(de) /\ EnUnaPagina(a)
    <3>1. EnSuPagina => Encaja(Valor(R["SI"]), Ins[2]) /\ Encaja(Valor(R["DI"]), Ins[2])
      BY <2>1 DEF EnSuPagina, Sigue, Fetch
    <3>2. QED BY <2>3, <3>1, PorTamanio
  <2> HIDE DEF de, a, s
  <2>6. ASSUME EnUnaPagina(de), EnUnaPagina(a)
        PROVE  EnUnaPagina(s)
    <3>1. \A k \in 1 .. Len(s) : \E j \in 1 .. Len(de) : k = 2 * j - 1 \/ k = 2 * j
      <4>1. SUFFICES ASSUME NEW k \in 1 .. Len(s)
                     PROVE  \E j \in 1 .. Len(de) : k = 2 * j - 1 \/ k = 2 * j
        OBVIOUS
      <4>2. (k + 1) \div 2 \in 1 .. Len(de) /\ (k = 2 * ((k + 1) \div 2) - 1 \/ k = 2 * ((k + 1) \div 2))
        BY <2>4
      <4>3. QED BY <4>2
    <3>2. \A k \in 1 .. Len(s) : \E j \in 1 .. Len(de) : s[k] = de[j] \/ s[k] = a[j]
      <4>1. SUFFICES ASSUME NEW k \in 1 .. Len(s)
                     PROVE  \E j \in 1 .. Len(de) : s[k] = de[j] \/ s[k] = a[j]
        OBVIOUS
      <4>2. PICK j \in 1 .. Len(de) : k = 2 * j - 1 \/ k = 2 * j
        BY <3>1
      <4>3. s[2 * j - 1] = de[j] /\ s[2 * j] = a[j]
        BY <2>4
      <4>4. QED BY <4>2, <4>3
    <3>3. QED BY <2>4, <2>6, <3>2 DEF EnUnaPagina
  <2>7. QED BY <2>1, <2>2, <2>4, <2>5, <2>6
<1>4. CASE PedirAcceso
  <2> DEFINE dir == Reg(Donde)
             tam == Reg(Donde + 1)
             s == CortarPorTamanio(dir, tam)
  <2>1. Fetch(Textos \cup Salidas) /\ UNCHANGED <<tabla, tamanio>>
    BY <1>4 DEF PedirAcceso
  <2>2. ejecuta \in Procesos /\ ~ detenida /\ UNCHANGED <<carga, modo>>
    BY <2>1, Decodifica
  <2>3. dir \in Nat /\ tam \in Nat /\ Accede(Traduccion(s), s)
    BY <1>4, UnPedido
  <2>4. EnSuPagina => Encaja(dir, tam)
    BY <2>1 DEF EnSuPagina, Sigue, Fetch
  <2> HIDE DEF dir, tam
  <2>5. s \in Seq(Trozos) /\ (EnSuPagina => EnUnaPagina(s))
    BY <2>3, <2>4, PorTamanio DEF Cubren
  <2>6. QED BY <2>1, <2>2, <2>3, <2>5
<1>5. QED BY <1>1, <1>2, <1>3, <1>4 DEF Accesos

\* No other step touches the TLB or the history of the pages.
LEMMA SinAcceso ==
    ASSUME [Next]_vars, ~ Accesos
    PROVE  UNCHANGED <<carga, modo, tlb, recientes>>
<1>1. CASE Calcular
  BY <1>1 DEF Calcular, Fetch, SinMemoria
<1>2. CASE Ampliar \/ Reducir
  BY <1>2 DEF Ampliar, Reducir, Fetch, Redimensionar
<1>3. CASE SinEspacio \/ EXIT
  BY <1>3 DEF SinEspacio, EXIT, Fetch, Salir
<1>4. CASE Detenerse
  BY <1>4 DEF Detenerse, Fetch, SinMemoria
<1>5. CASE PedirIO
  BY <1>5 DEF PedirIO, Fetch, SinMemoria
<1>6. CASE Recurso
  BY <1>6 DEF Recurso, Fetch, SinMemoria
<1>7. ASSUME NEW p \in Procesos, Despachar(p) \/ FinIO(p)
      PROVE  UNCHANGED <<carga, modo, tlb, recientes>>
  BY <1>7 DEF Despachar, FinIO, Entorno
<1>8. CASE UNCHANGED vars
  BY <1>8 DEF vars
<1>9. QED BY <1>1, <1>2, <1>3, <1>4, <1>5, <1>6, <1>7, <1>8 DEF Next, Accesos

Usadas == Tipado /\ Unicas(recientes) /\ Cola(tlb, recientes)

\* Each step keeps the TLB as the last pages used.
LEMMA PasoUsadas ==
    ASSUME Usadas, [Next]_vars
    PROVE  Usadas'
<1>1. TypeOK /\ Tipado'
  BY PasoTipado DEF Usadas, Tipado
<1>2. CASE Accesos
  <2>1. PICK s \in Seq(Trozos) : Accede(Traduccion(s), s)
    BY <1>1, <1>2, CadaAcceso
  <2>2. ejecuta \in Procesos /\ UNCHANGED modo
    BY <1>1, <1>2, CadaAcceso
  <2>3. tlb' = Traduccion(s).tlb /\ recientes' = Traduccion(s).usos
    BY <2>1 DEF Accede
  <2>4. Unicas(recientes') /\ Cola(tlb', recientes')
    BY <1>1, <2>2, <2>3, TraduccionUsos DEF Usadas
  <2>5. QED BY <1>1, <2>2, <2>4 DEF Usadas, Unicas, Cola
<1>3. CASE ~ Accesos
  <2>1. UNCHANGED <<modo, tlb, recientes>>
    BY <1>3, SinAcceso
  <2>2. QED BY <1>1, <2>1 DEF Usadas, Unicas, Cola
<1>4. QED BY <1>2, <1>3

\* The list in the TLB is what UltimasUsadas says.
LEMMA DeLaCola ==
    ASSUME TypeOK, Cola(tlb, recientes)
    PROVE  UltimasUsadas
<1> DEFINE n == Len(recientes)
           m == Menor(modo.entradas, n)
           ultimas == SubSeq(recientes, n - m + 1, n)
<1>1. SUFFICES ASSUME modo.algoritmo = "LRU"
               PROVE  [k \in DOMAIN tlb |-> <<tlb[k].pid, tlb[k].pagina>>] = ultimas
  BY DEF UltimasUsadas
<1>2. /\ n \in Nat /\ modo.entradas \in Nat /\ DOMAIN tlb = 1 .. Len(tlb)
      /\ \A k \in 1 .. n : recientes[k] \in Procesos \X Nat
  BY LenProperties, ElementOfSeq, ConstantesOK DEF TypeOK
<1>3. Len(tlb) = m /\ \A k \in 1 .. m : <<tlb[k].pid, tlb[k].pagina>> = recientes[n - m + k]
  BY <1>1 DEF Cola
<1>4. m \in Nat /\ m <= n
  BY <1>2 DEF Menor
<1> HIDE DEF m, n
<1>5. \A k \in n - m + 1 .. n : recientes[k] \in Procesos \X Nat
  <2>1. \A k \in n - m + 1 .. n : k \in 1 .. n
    BY <1>2, <1>4
  <2>2. QED BY <1>2, <2>1
<1>6. /\ ultimas \in Seq(Procesos \X Nat)
      /\ Len(ultimas) = IF n - m + 1 <= n THEN n - (n - m + 1) + 1 ELSE 0
      /\ \A k \in 1 .. n - (n - m + 1) + 1 : ultimas[k] = recientes[(n - m + 1) + k - 1]
  BY <1>2, <1>4, <1>5, SubSeqProperties
<1> HIDE DEF ultimas
<1>7. Len(ultimas) = m /\ \A k \in 1 .. m : ultimas[k] = recientes[n - m + k]
  <2>1. /\ n - (n - m + 1) + 1 = m /\ (n - m + 1 <= n <=> m # 0)
        /\ \A k \in 1 .. m : (n - m + 1) + k - 1 = n - m + k
    BY <1>2, <1>4
  <2>2. QED BY <1>6, <2>1
<1>8. ultimas = [k \in 1 .. m |-> ultimas[k]]
  BY <1>6, <1>7, LenProperties
<1>9. QED BY <1>2, <1>3, <1>7, <1>8

\* With LRU, the TLB holds exactly the pages used last, in the order in which
\* they will be replaced, whatever the processes do with their memory.
THEOREM UltimasUsadasSiempre ==
    Spec => []UltimasUsadas
<1>1. Init => Usadas
  <2>1. SUFFICES ASSUME Init PROVE Usadas
    OBVIOUS
  <2>2. Tipado /\ tlb = <<>> /\ recientes = <<>> /\ modo.entradas \in Nat
    <3>1. TypeOK /\ Tipado
      BY <2>1, InicioTipado DEF Tipado
    <3>2. modo.entradas \in Nat
      BY <3>1, ConstantesOK DEF TypeOK
    <3>3. QED BY <2>1, <3>1, <3>2 DEF Init
  <2>3. Len(<<>>) = 0 /\ Menor(modo.entradas, 0) = 0
    BY <2>2 DEF Menor
  <2>4. QED BY <2>2, <2>3 DEF Usadas, Unicas, Cola
<1>2. Usadas /\ [Next]_vars => Usadas'
  BY PasoUsadas
<1>3. Usadas => UltimasUsadas
  BY DeLaCola DEF Usadas, Tipado
<1>4. QED BY <1>1, <1>2, <1>3, PTL DEF Spec

-------------------------------------------------------------------------------
(* Whose the frames are *)

\* Each frame is of one page of one process.
MarcosPropios ==
    \A p, q \in Procesos : \A k \in 1 .. Len(tabla[p]), l \in 1 .. Len(tabla[q]) :
        tabla[p][k] = tabla[q][l] => p = q /\ k = l

\* The process in the CPU is ready, the tables have the pages that the sizes ask
\* for, and what has ended has no pages.
Repartidos ==
    /\ ejecuta # Nadie => estado[ejecuta] = "listo"
    /\ MarcosPropios
    /\ \A p \in Procesos : Paginas(tamanio[p]) <= Len(tabla[p])

Propias == Tipado /\ Repartidos

\* What each step may do with who executes, and with the tables.
LEMMA Cambios ==
    ASSUME Tipado, [Next]_vars
    PROVE  /\ \/ UNCHANGED <<tabla, tamanio>>
              \/ /\ ejecuta \in Procesos /\ Ins[2] \in Nat /\ UNCHANGED estado
                 /\ tamanio' = [tamanio EXCEPT ![ejecuta] = Ins[2]]
                 /\ \/ Ampliar /\ tabla' = [tabla EXCEPT ![ejecuta] = tabla[ejecuta] \o Asignar]
                    \/ /\ Reducir
                       /\ tabla' = [tabla EXCEPT ![ejecuta] =
                                       SubSeq(tabla[ejecuta], 1, Len(tabla[ejecuta]) + AAgregar)]
              \/ /\ ejecuta \in Procesos /\ estado' = [estado EXCEPT ![ejecuta] = "fin"]
                 /\ tabla' = [tabla EXCEPT ![ejecuta] = <<>>]
                 /\ tamanio' = [tamanio EXCEPT ![ejecuta] = 0]
           /\ \/ UNCHANGED estado /\ ejecuta' \in {ejecuta, Nadie}
              \/ UNCHANGED estado /\ estado[ejecuta'] = "listo"
              \/ /\ ejecuta \in Procesos /\ ejecuta' = Nadie
                 /\ estado' \in {[estado EXCEPT ![ejecuta] = "bloqueado"],
                                 [estado EXCEPT ![ejecuta] = "fin"]}
              \/ /\ UNCHANGED ejecuta
                 /\ \E p \in Procesos : /\ estado[p] = "bloqueado"
                                        /\ estado' = [estado EXCEPT ![p] = "listo"]
<1>1. TypeOK
  BY DEF Tipado
<1>2. CASE Calcular
  <2>1. SinMemoria
    BY <1>2 DEF Calcular
  <2>2. \E r : Queda(r)
    <3>1. PICK r : Queda(r)
      BY <1>2 DEF Calcular
    <3>2. QED BY <3>1
  <2>3. QED BY <2>1, <2>2 DEF SinMemoria, Queda
<1>3. CASE MOV_IN
  BY <1>3 DEF MOV_IN, Queda
<1>4. CASE MOV_OUT
  BY <1>4 DEF MOV_OUT, Queda
<1>5. CASE COPY_STRING
  BY <1>5 DEF COPY_STRING, Queda
<1>6. CASE PedirAcceso
  <2>1. ejecuta \in Procesos /\ \E ped : Deja("bloqueado", ped)
    BY <1>1, <1>6, UnPedido, CadaAcceso DEF Accesos
  <2>2. UNCHANGED <<tabla, tamanio>>
    BY <1>6 DEF PedirAcceso
  <2>3. QED BY <2>1, <2>2 DEF Deja
<1>7. CASE PedirIO
  <2>1. Fetch({"IO_GEN_SLEEP", "IO_FS_CREATE", "IO_FS_DELETE", "IO_FS_TRUNCATE"})
    BY <1>7 DEF PedirIO
  <2>2. ejecuta \in Procesos
    BY <1>1, <2>1, Decodifica
  <2>3. QED BY <1>7, <2>2 DEF PedirIO, Deja, SinMemoria
<1>8. CASE Recurso
  <2>1. Fetch({"WAIT", "SIGNAL"})
    BY <1>8 DEF Recurso
  <2>2. ejecuta \in Procesos
    BY <1>1, <2>1, Decodifica
  <2>3. CASE Queda(R)
    BY <1>8, <2>3 DEF Recurso, SinMemoria, Queda
  <2>4. CASE Deja("bloqueado", Ninguno)
    BY <1>8, <2>2, <2>4 DEF Recurso, SinMemoria, Deja
  <2>5. QED BY <1>8, <2>3, <2>4 DEF Recurso
<1>9. CASE SinEspacio \/ EXIT
  <2>1. (Fetch({"EXIT"}) \/ Fetch({"RESIZE"})) /\ Salir
    BY <1>9 DEF SinEspacio, EXIT
  <2>2. ejecuta \in Procesos
    BY <1>1, <2>1, Decodifica
  <2>3. QED BY <2>1, <2>2 DEF Salir, Deja
<1>10. CASE Ampliar
  <2>1. Fetch({"RESIZE"}) /\ Redimensionar(tabla[ejecuta] \o Asignar)
    BY <1>10 DEF Ampliar
  <2>2. ejecuta \in Procesos /\ Ins[2] \in Nat
    <3>1. Ins[2] \in 0 .. TamMemoria
      BY <1>1, <1>10, Crece
    <3>2. QED BY <1>1, <2>1, <3>1, Decodifica, Constantes
  <2>3. QED BY <1>10, <2>1, <2>2 DEF Redimensionar, Queda
<1>11. CASE Reducir
  <2>1. /\ Fetch({"RESIZE"})
        /\ Redimensionar(SubSeq(tabla[ejecuta], 1, Len(tabla[ejecuta]) + AAgregar))
    BY <1>11 DEF Reducir
  <2>2. ejecuta \in Procesos /\ Ins[2] \in Nat
    <3>1. Ins[2] \in 0 .. TamMemoria
      BY <1>1, <1>11, Encoge
    <3>2. QED BY <1>1, <2>1, <3>1, Decodifica, Constantes
  <2>3. QED BY <1>11, <2>1, <2>2 DEF Redimensionar, Queda
<1>12. CASE Detenerse
  BY <1>12 DEF Detenerse, SinMemoria
<1>13. ASSUME NEW p \in Procesos, Despachar(p)
       PROVE  /\ UNCHANGED <<tabla, tamanio, estado>> /\ estado[ejecuta'] = "listo"
  BY <1>13 DEF Despachar, Entorno
<1>14. ASSUME NEW p \in Procesos, FinIO(p)
       PROVE  /\ UNCHANGED <<tabla, tamanio, ejecuta>> /\ estado[p] = "bloqueado"
              /\ estado' = [estado EXCEPT ![p] = "listo"]
  BY <1>14 DEF FinIO, Entorno
<1>15. CASE UNCHANGED vars
  BY <1>15 DEF vars
<1>16. CASE \E p \in Procesos : Despachar(p)
  BY <1>13, <1>16
<1>17. CASE \E p \in Procesos : FinIO(p)
  BY <1>14, <1>17
<1>18. QED BY <1>2, <1>3, <1>4, <1>5, <1>6, <1>7, <1>8, <1>9, <1>10, <1>11, <1>12, <1>15,
          <1>16, <1>17 DEF Next

\* The table that grows has its frames, and others that nobody had.
LEMMA TablaCrece ==
    ASSUME Tipado, Repartidos, Ampliar, ejecuta \in Procesos
    PROVE  LET nueva == tabla[ejecuta] \o Asignar
           IN  /\ nueva \in Seq(Marcos) /\ Unicas(nueva)
               /\ Paginas(Ins[2]) <= Len(nueva) /\ Len(tabla[ejecuta]) <= Len(nueva)
               /\ \A k \in 1 .. Len(tabla[ejecuta]) : nueva[k] = tabla[ejecuta][k]
               /\ \A q \in Procesos \ {ejecuta} : \A k \in 1 .. Len(nueva), l \in 1 .. Len(tabla[q]) :
                    nueva[k] # tabla[q][l]
<1> DEFINE v == tabla[ejecuta]
           nueva == v \o Asignar
           n == Len(v)
           m == Len(Asignar)
<1>1. /\ v \in Seq(Marcos) /\ Asignar \in Seq(Marcos)
      /\ AAgregar \in Nat /\ AAgregar <= m
      /\ AAgregar = Paginas(Ins[2]) - Paginas(tamanio[ejecuta])
      /\ \A k \in 1 .. m : Asignar[k] \in Libres
      /\ \A k, l \in 1 .. m : Asignar[k] = Asignar[l] => k = l
      /\ Ins[2] \in 0 .. TamMemoria
  BY Crece DEF Tipado
<1>2. n \in Nat /\ m \in Nat
  BY <1>1, LenProperties
<1>3. /\ nueva \in Seq(Marcos) /\ Len(nueva) = n + m
      /\ \A k \in 1 .. n + m : nueva[k] = IF k <= n THEN v[k] ELSE Asignar[k - n]
  BY <1>1, ConcatProperties
<1>4. \A q \in Procesos : \A l \in 1 .. Len(tabla[q]) : \A k \in 1 .. m : tabla[q][l] # Asignar[k]
  <2>1. ASSUME NEW q \in Procesos, NEW l \in 1 .. Len(tabla[q])
        PROVE  tabla[q][l] \notin Libres
    <3>1. tabla[q] \in Seq(Marcos)
      BY DEF Tipado, TypeOK
    <3>2. tabla[q][l] \in ToSet(tabla[q])
      BY <3>1, Lugares
    <3>3. QED BY <3>2 DEF Libres
  <2>2. QED BY <1>1, <2>1
<1>5. Unicas(v)
  BY DEF Repartidos, MarcosPropios, Unicas
<1> HIDE DEF nueva, n, m
<1>6. Unicas(nueva)
  <2>1. ASSUME NEW i \in 1 .. n + m, NEW j \in 1 .. n + m, nueva[i] = nueva[j]
        PROVE  i = j
    <3>1. CASE i <= n /\ j <= n
      <4>1. i \in 1 .. n /\ j \in 1 .. n
        BY <1>2, <3>1
      <4>2. v[i] = v[j]
        BY <1>3, <2>1, <3>1
      <4>3. QED BY <1>5, <4>1, <4>2 DEF Unicas, n
    <3>2. CASE i <= n /\ ~ (j <= n)
      <4>1. i \in 1 .. n /\ j - n \in 1 .. m
        BY <1>2, <3>2
      <4>2. nueva[i] = v[i] /\ nueva[j] = Asignar[j - n]
        BY <1>3, <3>2
      <4>3. QED BY <1>4, <2>1, <4>1, <4>2 DEF n
    <3>3. CASE ~ (i <= n) /\ j <= n
      <4>1. j \in 1 .. n /\ i - n \in 1 .. m
        BY <1>2, <3>3
      <4>2. nueva[j] = v[j] /\ nueva[i] = Asignar[i - n]
        BY <1>3, <3>3
      <4>3. QED BY <1>4, <2>1, <4>1, <4>2 DEF n
    <3>4. CASE ~ (i <= n) /\ ~ (j <= n)
      <4>1. i - n \in 1 .. m /\ j - n \in 1 .. m
        BY <1>2, <3>4
      <4>2. Asignar[i - n] = Asignar[j - n]
        BY <1>3, <2>1, <3>4
      <4>3. i - n = j - n
        BY <1>1, <4>1, <4>2 DEF m
      <4>4. QED BY <1>2, <4>3
    <3>5. QED BY <3>1, <3>2, <3>3, <3>4
  <2>2. QED BY <1>3, <2>1 DEF Unicas
<1>7. Paginas(Ins[2]) <= n + m /\ n <= n + m
  <2>1. Paginas(tamanio[ejecuta]) <= n
    BY DEF Repartidos, n
  <2>2. Ins[2] \in Nat /\ tamanio[ejecuta] \in Nat
    BY <1>1, Constantes DEF Tipado, TypeOK
  <2>3. Paginas(tamanio[ejecuta]) \in Nat /\ Paginas(Ins[2]) \in Nat
    BY <2>2, Hojas
  <2>4. AAgregar <= m
    BY <1>1 DEF m
  <2>5. QED BY <1>1, <1>2, <2>1, <2>3, <2>4
<1>8. \A k \in 1 .. n : nueva[k] = v[k]
  <2>1. \A k \in 1 .. n : k \in 1 .. n + m /\ k <= n
    BY <1>2
  <2>2. QED BY <1>3, <2>1
<1>9. ASSUME NEW q \in Procesos \ {ejecuta}, NEW k \in 1 .. n + m, NEW l \in 1 .. Len(tabla[q])
      PROVE  nueva[k] # tabla[q][l]
  <2>1. CASE k <= n
    <3>1. k \in 1 .. n /\ nueva[k] = v[k]
      BY <1>2, <1>3, <2>1
    <3>2. QED BY <1>9, <3>1 DEF Repartidos, MarcosPropios, n
  <2>2. CASE ~ (k <= n)
    <3>1. k - n \in 1 .. m /\ nueva[k] = Asignar[k - n]
      BY <1>2, <1>3, <2>2
    <3>2. QED BY <1>4, <1>9, <3>1
  <2>3. QED BY <2>1, <2>2
<1>10. QED BY <1>3, <1>6, <1>7, <1>8, <1>9 DEF nueva, n

\* The table that shrinks has the first of its frames.
LEMMA TablaEncoge ==
    ASSUME Tipado, Repartidos, Reducir, ejecuta \in Procesos
    PROVE  LET nueva == SubSeq(tabla[ejecuta], 1, Len(tabla[ejecuta]) + AAgregar)
           IN  /\ nueva \in Seq(Marcos)
               /\ Len(nueva) = Len(tabla[ejecuta]) + AAgregar
               /\ Paginas(Ins[2]) <= Len(nueva) /\ Len(nueva) <= Len(tabla[ejecuta])
               /\ \A k \in 1 .. Len(nueva) : nueva[k] = tabla[ejecuta][k]
<1> DEFINE v == tabla[ejecuta]
           quedan == Len(v) + AAgregar
           nueva == SubSeq(v, 1, quedan)
<1>1. /\ Ins[2] \in 0 .. TamMemoria /\ quedan \in Int /\ quedan <= Len(v)
      /\ quedan - Paginas(Ins[2]) = Len(v) - Paginas(tamanio[ejecuta])
      /\ nueva \in Seq(Marcos) /\ Len(nueva) = IF 1 <= quedan THEN quedan ELSE 0
      /\ \A k \in 1 .. quedan : nueva[k] = v[k]
      /\ v \in Seq(Marcos)
  BY Encoge DEF Tipado
<1>2. Paginas(tamanio[ejecuta]) <= Len(v) /\ Len(v) \in Nat
  BY <1>1, LenProperties DEF Repartidos
<1>3. Paginas(tamanio[ejecuta]) \in Nat /\ Paginas(Ins[2]) \in Nat
  <2>1. Ins[2] \in Nat /\ tamanio[ejecuta] \in Nat
    BY <1>1, Constantes DEF Tipado, TypeOK
  <2>2. QED BY <2>1, Hojas
<1> HIDE DEF v, quedan, nueva
<1>4. quedan \in Nat /\ Paginas(Ins[2]) <= quedan
  BY <1>1, <1>2, <1>3
<1>5. Len(nueva) = quedan
  BY <1>1, <1>4
<1>6. QED BY <1>1, <1>4, <1>5 DEF v, quedan, nueva

\* Each step keeps the frames apart.
LEMMA PasoPropias ==
    ASSUME Propias, [Next]_vars
    PROVE  Propias'
<1>1. Tipado' /\ Tipado
  BY PasoTipado DEF Propias
<1>2. /\ tabla \in [Procesos -> Seq(Marcos)] /\ tamanio \in [Procesos -> 0 .. TamMemoria]
      /\ estado \in [Procesos -> {"listo", "bloqueado", "fin"}]
      /\ ejecuta \in Procesos \cup {Nadie} /\ ejecuta' \in Procesos \cup {Nadie}
      /\ Nadie \notin Procesos
  BY <1>1, ConstantesOK DEF Tipado, TypeOK
<1>3. ejecuta' # Nadie => estado'[ejecuta'] = "listo"
  <2>1. ejecuta # Nadie => estado[ejecuta] = "listo"
    BY DEF Propias, Repartidos
  <2>2. CASE UNCHANGED estado
    BY <1>1, <1>2, <2>1, <2>2, Cambios
  <2>3. CASE ejecuta' = Nadie
    BY <2>3
  <2>4. ASSUME NEW p \in Procesos, UNCHANGED ejecuta,
               estado[p] = "bloqueado", estado' = [estado EXCEPT ![p] = "listo"], ejecuta' # Nadie
        PROVE  estado'[ejecuta'] = "listo"
    BY <1>2, <2>1, <2>4
  <2>5. \/ UNCHANGED estado \/ ejecuta' = Nadie
        \/ \E p \in Procesos : /\ UNCHANGED ejecuta /\ estado[p] = "bloqueado"
                               /\ estado' = [estado EXCEPT ![p] = "listo"]
    BY <1>1, Cambios
  <2>6. QED BY <2>2, <2>3, <2>4, <2>5
<1>4. \A p, q \in Procesos : \A k \in 1 .. Len(tabla[p]), l \in 1 .. Len(tabla[q]) :
            tabla[p][k] = tabla[q][l] => p = q /\ k = l
  BY DEF Propias, Repartidos, MarcosPropios
<1>5. \A p \in Procesos : Paginas(tamanio[p]) <= Len(tabla[p])
  BY DEF Propias, Repartidos
<1>6. ASSUME NEW nueva \in Seq(Marcos), Unicas(nueva), NEW t \in 0 .. TamMemoria,
             ejecuta \in Procesos, Paginas(t) <= Len(nueva),
             tabla' = [tabla EXCEPT ![ejecuta] = nueva],
             tamanio' = [tamanio EXCEPT ![ejecuta] = t],
             \A q \in Procesos \ {ejecuta} : \A k \in 1 .. Len(nueva), l \in 1 .. Len(tabla[q]) :
                nueva[k] # tabla[q][l]
      PROVE  MarcosPropios' /\ \A p \in Procesos : Paginas(tamanio'[p]) <= Len(tabla'[p])
  <2>1. ASSUME NEW p \in Procesos, NEW q \in Procesos,
               NEW k \in 1 .. Len(tabla'[p]), NEW l \in 1 .. Len(tabla'[q]),
               tabla'[p][k] = tabla'[q][l]
        PROVE  p = q /\ k = l
    <3>1. CASE p = ejecuta /\ q = ejecuta
      <4>1. tabla'[p] = nueva /\ tabla'[q] = nueva
        BY <1>2, <1>6, <3>1
      <4>2. QED BY <1>6, <2>1, <3>1, <4>1 DEF Unicas
    <3>2. CASE p = ejecuta /\ q # ejecuta
      <4>1. tabla'[p] = nueva /\ tabla'[q] = tabla[q]
        BY <1>2, <1>6, <3>2
      <4>2. QED BY <1>6, <2>1, <3>2, <4>1
    <3>3. CASE p # ejecuta /\ q = ejecuta
      <4>1. tabla'[p] = tabla[p] /\ tabla'[q] = nueva
        BY <1>2, <1>6, <3>3
      <4>2. QED BY <1>6, <2>1, <3>3, <4>1
    <3>4. CASE p # ejecuta /\ q # ejecuta
      <4>1. tabla'[p] = tabla[p] /\ tabla'[q] = tabla[q]
        BY <1>2, <1>6, <3>4
      <4>2. QED BY <1>4, <2>1, <4>1
    <3>5. QED BY <3>1, <3>2, <3>3, <3>4
  <2>2. \A p \in Procesos : Paginas(tamanio'[p]) <= Len(tabla'[p])
    <3>1. SUFFICES ASSUME NEW p \in Procesos PROVE Paginas(tamanio'[p]) <= Len(tabla'[p])
      OBVIOUS
    <3>2. CASE p = ejecuta
      <4>1. tamanio'[p] = t /\ tabla'[p] = nueva
        BY <1>2, <1>6, <3>2
      <4>2. QED BY <1>6, <4>1
    <3>3. CASE p # ejecuta
      <4>1. tamanio'[p] = tamanio[p] /\ tabla'[p] = tabla[p]
        BY <1>2, <1>6, <3>3
      <4>2. QED BY <1>5, <4>1
    <3>4. QED BY <3>2, <3>3
  <2>3. MarcosPropios'
    BY <2>1 DEF MarcosPropios
  <2>4. QED BY <2>2, <2>3
<1>7. MarcosPropios' /\ \A p \in Procesos : Paginas(tamanio'[p]) <= Len(tabla'[p])
  <2>1. CASE UNCHANGED <<tabla, tamanio>>
    BY <1>4, <1>5, <2>1 DEF MarcosPropios
  <2>2. CASE /\ Ampliar /\ ejecuta \in Procesos
             /\ tabla' = [tabla EXCEPT ![ejecuta] = tabla[ejecuta] \o Asignar]
             /\ tamanio' = [tamanio EXCEPT ![ejecuta] = Ins[2]]
    <3> DEFINE nueva == tabla[ejecuta] \o Asignar
    <3>1. /\ nueva \in Seq(Marcos) /\ Unicas(nueva) /\ Paginas(Ins[2]) <= Len(nueva)
          /\ \A q \in Procesos \ {ejecuta} : \A k \in 1 .. Len(nueva), l \in 1 .. Len(tabla[q]) :
                nueva[k] # tabla[q][l]
      BY <2>2, TablaCrece DEF Propias
    <3>2. Ins[2] \in 0 .. TamMemoria
      BY <1>1, <2>2, Crece DEF Tipado
    <3>3. tabla' = [tabla EXCEPT ![ejecuta] = nueva]
      BY <2>2
    <3> HIDE DEF nueva
    <3>4. QED BY <1>6, <2>2, <3>1, <3>2, <3>3
  <2>3. CASE /\ Reducir /\ ejecuta \in Procesos
             /\ tabla' = [tabla EXCEPT ![ejecuta] =
                             SubSeq(tabla[ejecuta], 1, Len(tabla[ejecuta]) + AAgregar)]
             /\ tamanio' = [tamanio EXCEPT ![ejecuta] = Ins[2]]
    <3> DEFINE nueva == SubSeq(tabla[ejecuta], 1, Len(tabla[ejecuta]) + AAgregar)
    <3>1. /\ nueva \in Seq(Marcos) /\ Paginas(Ins[2]) <= Len(nueva)
          /\ Len(nueva) <= Len(tabla[ejecuta])
          /\ \A k \in 1 .. Len(nueva) : nueva[k] = tabla[ejecuta][k]
      BY <2>3, TablaEncoge DEF Propias
    <3>2. Ins[2] \in 0 .. TamMemoria
      BY <1>1, <2>3, Encoge DEF Tipado
    <3>3. tabla' = [tabla EXCEPT ![ejecuta] = nueva]
      BY <2>3
    <3> HIDE DEF nueva
    <3>4. \A k \in 1 .. Len(nueva) : k \in 1 .. Len(tabla[ejecuta])
      <4>1. Len(nueva) \in Nat
        BY <3>1, LenProperties
      <4>2. Len(tabla[ejecuta]) \in Nat
        BY <1>2, <2>3, LenProperties
      <4>3. QED BY <3>1, <4>1, <4>2
    <3>5. Unicas(nueva)
      BY <1>4, <2>3, <3>1, <3>4 DEF Unicas
    <3>6. ASSUME NEW q \in Procesos \ {ejecuta}, NEW k \in 1 .. Len(nueva), NEW l \in 1 .. Len(tabla[q])
          PROVE  nueva[k] # tabla[q][l]
      <4>1. k \in 1 .. Len(tabla[ejecuta]) /\ nueva[k] = tabla[ejecuta][k]
        BY <3>1, <3>4
      <4>2. ejecuta \in Procesos /\ q \in Procesos /\ q # ejecuta
        BY <2>3
      <4>3. tabla[ejecuta][k] # tabla[q][l]
        BY <1>4, <4>1, <4>2
      <4>4. QED BY <4>1, <4>3
    <3>7. QED BY <1>6, <2>3, <3>1, <3>2, <3>3, <3>5, <3>6
  <2>4. CASE /\ ejecuta \in Procesos /\ tabla' = [tabla EXCEPT ![ejecuta] = <<>>]
             /\ tamanio' = [tamanio EXCEPT ![ejecuta] = 0]
    <3>1. <<>> \in Seq(Marcos) /\ Len(<<>>) = 0
      BY EmptySeq
    <3>2. 0 \in 0 .. TamMemoria /\ Paginas(0) <= 0
      BY Constantes, Hojas
    <3>3. Unicas(<<>>)
      BY <3>1 DEF Unicas
    <3>4. \A k \in 1 .. Len(<<>>) : FALSE
      BY <3>1
    <3>5. Paginas(0) <= Len(<<>>)
      BY <3>1, <3>2
    <3>6. QED BY <1>6, <2>4, <3>1, <3>2, <3>3, <3>4, <3>5
  <2>5. \/ UNCHANGED <<tabla, tamanio>>
        \/ /\ Ampliar /\ ejecuta \in Procesos
           /\ tabla' = [tabla EXCEPT ![ejecuta] = tabla[ejecuta] \o Asignar]
           /\ tamanio' = [tamanio EXCEPT ![ejecuta] = Ins[2]]
        \/ /\ Reducir /\ ejecuta \in Procesos
           /\ tabla' = [tabla EXCEPT ![ejecuta] =
                           SubSeq(tabla[ejecuta], 1, Len(tabla[ejecuta]) + AAgregar)]
           /\ tamanio' = [tamanio EXCEPT ![ejecuta] = Ins[2]]
        \/ /\ ejecuta \in Procesos /\ tabla' = [tabla EXCEPT ![ejecuta] = <<>>]
           /\ tamanio' = [tamanio EXCEPT ![ejecuta] = 0]
    BY <1>1, Cambios
  <2>6. QED BY <2>1, <2>2, <2>3, <2>4, <2>5
<1>8. QED BY <1>1, <1>3, <1>7 DEF Propias, Repartidos

\* At the start no process has frames.
LEMMA InicioPropias ==
    ASSUME Init
    PROVE  Propias
<1>1. \A p \in Procesos : tabla[p] = <<>> /\ tamanio[p] = 0
  BY DEF Init
<1>2. Len(<<>>) = 0 /\ Paginas(0) <= 0
  BY Hojas
<1>3. MarcosPropios
  BY <1>1, <1>2 DEF MarcosPropios
<1>4. QED BY <1>1, <1>2, <1>3, InicioTipado DEF Init, Propias, Repartidos

\* No frame is given to two processes, nor twice to one, and the tables have the
\* pages that the sizes ask for, however the processes grow, shrink and end.
THEOREM MarcosPropiosSiempre ==
    Spec => [](MarcosPropios /\ \A p \in Procesos : Paginas(tamanio[p]) <= Len(tabla[p]))
<1>1. Init => Propias
  BY InicioPropias
<1>2. Propias /\ [Next]_vars => Propias'
  BY PasoPropias
<1>3. Propias => MarcosPropios /\ \A p \in Procesos : Paginas(tamanio[p]) <= Len(tabla[p])
  BY DEF Propias, Repartidos
<1>4. QED BY <1>1, <1>2, <1>3, PTL DEF Spec

-------------------------------------------------------------------------------
(* What the MMU answers *)

\* An entry of the TLB that says what the table says.
Vigente(e) == e.pagina < Len(tabla[e.pid]) /\ tabla[e.pid][e.pagina + 1] = e.marco

\* The entries of the processes that have not ended do.
Vigentes == \A e \in ToSet(tlb) : estado[e.pid] # "fin" => Vigente(e)

\* The page that an address is in, and where the table of the process has it.
Existe(a) == a \div TamPagina < Len(tabla[ejecuta])
Fisica(a) == tabla[ejecuta][a \div TamPagina + 1] * TamPagina + (a % TamPagina)

\* The empty list has no elements.
LEMMA Vacia ==
    ToSet(<<>>) = {}
<1>1. DOMAIN <<>> = 1 .. Len(<<>>) /\ Len(<<>>) = 0
  OBVIOUS
<1>2. 1 .. 0 = {}
  OBVIOUS
<1>3. DOMAIN <<>> = {}
  BY <1>1, <1>2
<1>4. QED BY <1>3 DEF ToSet

\* What goes to the end of the list was there, or is new.
LEMMA Quedan ==
    ASSUME TypeOK, NEW l \in Seq(Entrada), NEW e \in Entrada
    PROVE  /\ ToSet(Agregar(l, e)) \subseteq ToSet(l) \cup {e}
           /\ e \in ToSet(l) => ToSet(MoverAlFrente(l, e)) \subseteq ToSet(l)
<1>1. Len(l) \in Nat /\ \A i \in 1 .. Len(l) : l[i] \in ToSet(l) /\ l[i] \in Entrada
  BY Lugares, ElementOfSeq
<1>2. ASSUME NEW s \in Seq(Entrada)
      PROVE  \A x \in ToSet(Append(s, e)) : x = e \/ \E i \in 1 .. Len(s) : x = s[i]
  <2>1. /\ Append(s, e) \in Seq(Entrada) /\ Len(Append(s, e)) = Len(s) + 1 /\ Len(s) \in Nat
        /\ Append(s, e)[Len(s) + 1] = e
        /\ \A i \in 1 .. Len(s) : Append(s, e)[i] = s[i]
    BY AppendProperties, LenProperties
  <2>2. ToSet(Append(s, e)) = {Append(s, e)[i] : i \in 1 .. Len(s) + 1}
    BY <2>1, Lugares
  <2>3. \A i \in 1 .. Len(s) + 1 : i \in 1 .. Len(s) \/ i = Len(s) + 1
    BY <2>1
  <2>4. QED BY <2>1, <2>2, <2>3
<1>3. ToSet(Agregar(l, e)) \subseteq ToSet(l) \cup {e}
  <2>1. CASE modo.entradas = 0
    <3>1. Agregar(l, e) = <<>>
      BY <2>1 DEF Agregar
    <3>2. QED BY <3>1, Vacia
  <2>2. CASE modo.entradas # 0 /\ Len(l) < modo.entradas
    <3>1. Agregar(l, e) = Append(l, e)
      BY <2>2 DEF Agregar
    <3>2. QED BY <1>1, <1>2, <3>1
  <2>3. CASE modo.entradas # 0 /\ ~ (Len(l) < modo.entradas)
    <3>1. Agregar(l, e) = Append(Tail(l), e)
      BY <2>3 DEF Agregar
    <3>2. l # <<>>
      BY <1>1, <2>3, EmptySeq, ConstantesOK DEF TypeOK
    <3>3. /\ Tail(l) \in Seq(Entrada) /\ Len(Tail(l)) = Len(l) - 1
          /\ \A i \in 1 .. Len(l) - 1 : Tail(l)[i] = l[i + 1]
      BY <3>2, HeadTailProperties
    <3>4. \A i \in 1 .. Len(l) - 1 : i + 1 \in 1 .. Len(l)
      BY <1>1
    <3>5. \A i \in 1 .. Len(Tail(l)) : Tail(l)[i] \in ToSet(l)
      BY <1>1, <3>3, <3>4
    <3>6. \A x \in ToSet(Append(Tail(l), e)) : x = e \/ x \in ToSet(l)
      <4> DEFINE c == Tail(l)
      <4>1. c \in Seq(Entrada) /\ \A i \in 1 .. Len(c) : c[i] \in ToSet(l)
        BY <3>3, <3>5
      <4> HIDE DEF c
      <4>2. \A x \in ToSet(Append(c, e)) : x = e \/ \E i \in 1 .. Len(c) : x = c[i]
        BY <1>2, <4>1
      <4>3. \A x \in ToSet(Append(c, e)) : x = e \/ x \in ToSet(l)
        BY <4>1, <4>2
      <4>4. QED BY <4>3 DEF c
    <3>7. QED BY <3>1, <3>6
  <2>4. \/ modo.entradas = 0
        \/ modo.entradas # 0 /\ Len(l) < modo.entradas
        \/ modo.entradas # 0 /\ ~ (Len(l) < modo.entradas)
    OBVIOUS
  <2>5. QED BY <2>1, <2>2, <2>3, <2>4
<1>4. ASSUME e \in ToSet(l)
      PROVE  ToSet(MoverAlFrente(l, e)) \subseteq ToSet(l)
  <2> DEFINE lugares == {i \in 1 .. Len(l) : l[i] = e}
             r == RemoveFirst(l, e)
  <2>1. PICK m \in lugares : \A j \in lugares : m <= j
    <3>1. lugares \in SUBSET Nat /\ lugares # {}
      BY <1>1, <1>4, Lugares
    <3>2. QED BY <3>1, HayMenor
  <2>2. /\ r \in Seq(Entrada) /\ Len(r) = Len(l) - 1
        /\ \A j \in 1 .. Len(l) - 1 : r[j] = IF j < m THEN l[j] ELSE l[j + 1]
    BY <2>1, Quitar
  <2> HIDE DEF r
  <2>3. \A j \in 1 .. Len(r) : r[j] \in ToSet(l)
    <3>1. \A j \in 1 .. Len(l) - 1 : j \in 1 .. Len(l) /\ j + 1 \in 1 .. Len(l)
      BY <1>1
    <3>2. QED BY <1>1, <2>2, <3>1
  <2>4. ToSet(Append(r, e)) \subseteq ToSet(l)
    BY <1>2, <1>4, <2>2, <2>3
  <2>5. QED BY <2>4 DEF MoverAlFrente, r
<1>5. QED BY <1>3, <1>4

\* What a translation knows: if it has had an answer for every address, the TLB
\* is as it should be and the addresses are those of the table.
Respondida(t, s, k) ==
    IF t.falta
    THEN \E j \in 1 .. k : ~ Existe(s[j].dir)
    ELSE /\ \A e \in ToSet(t.tlb) : estado[e.pid] # "fin" => Vigente(e)
         /\ \A j \in 1 .. k : Existe(s[j].dir) /\ t.dirs[j] = Fisica(s[j].dir)

\* The same of a turn, without what only the history of the TLB needs.
LEMMA TurnoPagina ==
    ASSUME TypeOK, ejecuta \in Procesos, NEW t, t.tlb \in Seq(Entrada), NEW dir \in Nat
    PROVE  \E e \in Entrada :
             LET u == Traducir(t, dir)
             IN  /\ e.pid = ejecuta /\ e.pagina = dir \div TamPagina
                 /\ u.dirs = Append(t.dirs, e.marco * TamPagina + (dir % TamPagina))
                 /\ \/ /\ e \in ToSet(t.tlb)
                       /\ u.tlb = MoverAlFrente(t.tlb, e)
                       /\ u.falta <=> t.falta
                    \/ /\ u.tlb = Agregar(t.tlb, e)
                       /\ e.pagina < Len(tabla[ejecuta]) =>
                            e.marco = tabla[ejecuta][e.pagina + 1] /\ (u.falta <=> t.falta)
                       /\ ~ (e.pagina < Len(tabla[ejecuta])) => u.falta
<1> DEFINE u == Traducir(t, dir)
<1>1. PICK e \in Entrada :
        /\ e.pid = ejecuta /\ e.pagina = dir \div TamPagina
        /\ u.dirs = Append(t.dirs, e.marco * TamPagina + (dir % TamPagina))
        /\ u.usos = Append(RemoveFirst(t.usos, <<ejecuta, dir \div TamPagina>>),
                           <<ejecuta, dir \div TamPagina>>)
        /\ \/ /\ e \in ToSet(t.tlb)
              /\ u.tlb = MoverAlFrente(t.tlb, e)
              /\ u.falta <=> t.falta
           \/ /\ \A x \in ToSet(t.tlb) : ~ (x.pid = ejecuta /\ x.pagina = e.pagina)
              /\ u.tlb = Agregar(t.tlb, e)
              /\ e.pagina < Len(tabla[ejecuta]) =>
                   e.marco = tabla[ejecuta][e.pagina + 1] /\ (u.falta <=> t.falta)
              /\ ~ (e.pagina < Len(tabla[ejecuta])) => u.falta
  BY UnTurno
<1> HIDE DEF u
<1>2. QED BY <1>1 DEF u

\* A turn of the translation keeps what it knows.
LEMMA TurnoRespondido ==
    ASSUME TypeOK, ejecuta \in Procesos, estado[ejecuta] # "fin",
           NEW t, TipoTurno(t), NEW k \in Nat, Len(t.dirs) = k,
           NEW s, NEW dir \in Nat, s[k + 1].dir = dir, Respondida(t, s, k)
    PROVE  Respondida(Traducir(t, dir), s, k + 1)
<1> DEFINE u == Traducir(t, dir)
<1>1. t.tlb \in Seq(Entrada) /\ t.dirs \in Seq(Nat)
  BY DEF TipoTurno
<1>2. PICK e \in Entrada :
        /\ e.pid = ejecuta /\ e.pagina = dir \div TamPagina
        /\ u.dirs = Append(t.dirs, e.marco * TamPagina + (dir % TamPagina))
        /\ \/ /\ e \in ToSet(t.tlb)
              /\ u.tlb = MoverAlFrente(t.tlb, e)
              /\ u.falta <=> t.falta
           \/ /\ u.tlb = Agregar(t.tlb, e)
              /\ e.pagina < Len(tabla[ejecuta]) =>
                    e.marco = tabla[ejecuta][e.pagina + 1] /\ (u.falta <=> t.falta)
              /\ ~ (e.pagina < Len(tabla[ejecuta])) => u.falta
  <2>1. QED BY <1>1, TurnoPagina
<1> HIDE DEF u
<1>3. \A j \in 1 .. k + 1 : j \in 1 .. k \/ j = k + 1
  OBVIOUS
<1>4. k + 1 \in 1 .. k + 1 /\ \A j \in 1 .. k : j \in 1 .. k + 1
  OBVIOUS
<1>5. CASE t.falta
  <2>1. \E j \in 1 .. k : ~ Existe(s[j].dir)
    BY <1>5 DEF Respondida
  <2>2. \E j \in 1 .. k + 1 : ~ Existe(s[j].dir)
    BY <1>4, <2>1
  <2>3. u.falta
    BY <1>2, <1>5
  <2>4. QED BY <2>2, <2>3 DEF Respondida, u
<1>6. CASE ~ t.falta
  <2>1. /\ \A x \in ToSet(t.tlb) : estado[x.pid] # "fin" => Vigente(x)
        /\ \A j \in 1 .. k : Existe(s[j].dir) /\ t.dirs[j] = Fisica(s[j].dir)
    BY <1>6 DEF Respondida
  <2>2. CASE u.falta
    <3>1. ~ Existe(dir)
      BY <1>2, <1>6, <2>2 DEF Existe
    <3>2. \E j \in 1 .. k + 1 : ~ Existe(s[j].dir)
      BY <1>4, <3>1
    <3>3. QED BY <2>2, <3>2 DEF Respondida, u
  <2>3. CASE ~ u.falta
    <3>1. Vigente(e)
      <4>1. CASE e \in ToSet(t.tlb)
        BY <1>2, <2>1, <4>1
      <4>2. CASE e \notin ToSet(t.tlb)
        BY <1>2, <2>3, <4>2 DEF Vigente
      <4>3. QED BY <4>1, <4>2
    <3>2. ToSet(u.tlb) \subseteq ToSet(t.tlb) \cup {e}
      <4>1. CASE e \in ToSet(t.tlb) /\ u.tlb = MoverAlFrente(t.tlb, e)
        <5>1. ToSet(MoverAlFrente(t.tlb, e)) \subseteq ToSet(t.tlb)
          BY <1>1, <4>1, Quedan
        <5>2. QED BY <4>1, <5>1
      <4>2. CASE u.tlb = Agregar(t.tlb, e)
        <5>1. ToSet(Agregar(t.tlb, e)) \subseteq ToSet(t.tlb) \cup {e}
          BY <1>1, Quedan
        <5>2. QED BY <4>2, <5>1
      <4>3. QED BY <1>2, <4>1, <4>2
    <3>3. \A x \in ToSet(u.tlb) : estado[x.pid] # "fin" => Vigente(x)
      BY <2>1, <3>1, <3>2
    <3>4. Existe(dir) /\ e.marco = tabla[ejecuta][dir \div TamPagina + 1]
      BY <1>2, <3>1 DEF Vigente, Existe
    <3>5. /\ u.dirs[k + 1] = e.marco * TamPagina + (dir % TamPagina)
          /\ \A j \in 1 .. k : u.dirs[j] = t.dirs[j]
      <4>1. e.marco * TamPagina + (dir % TamPagina) \in Nat
        <5>1. e.marco \in Marcos
          BY DEF Entrada
        <5>2. dir % TamPagina \in 0 .. TamPagina - 1
          BY <1>1, Division
        <5>3. Marcos \subseteq Nat /\ 0 .. TamPagina - 1 \subseteq Nat /\ TamPagina \in Nat
          BY Constantes
        <5>4. e.marco \in Nat /\ dir % TamPagina \in Nat
          BY <5>1, <5>2, <5>3
        <5>5. QED BY <5>3, <5>4
      <4>2. QED BY <1>1, <1>2, <4>1, AppendProperties
    <3>6. u.dirs[k + 1] = Fisica(dir)
      BY <3>4, <3>5 DEF Fisica
    <3>7. \A j \in 1 .. k + 1 : Existe(s[j].dir) /\ u.dirs[j] = Fisica(s[j].dir)
      BY <1>3, <2>1, <3>4, <3>5, <3>6
    <3>8. QED BY <2>3, <3>3, <3>7 DEF Respondida, u
  <2>4. QED BY <2>2, <2>3
<1>7. QED BY <1>5, <1>6

\* A process gets the addresses that its table gives, and an answer is missing
\* only for a page that it does not have.
LEMMA TraduccionRespondida ==
    ASSUME TypeOK, ejecuta \in Procesos, estado[ejecuta] # "fin", Vigentes, NEW s \in Seq(Trozos)
    PROVE  Respondida(Traduccion(s), s, Len(s))
<1>1. Len(s) \in Nat /\ \A k \in 1 .. Len(s) : s[k].dir \in Nat
  <2>1. Len(s) \in Nat /\ \A k \in 1 .. Len(s) : s[k] \in Trozos
    BY LenProperties, ElementOfSeq
  <2>2. \A x \in Trozos : x.dir \in Nat
    BY DEF Trozos
  <2>3. QED BY <2>1, <2>2
<1>2. PICK g : /\ g[0] = [tlb |-> tlb, dirs |-> <<>>, usos |-> recientes, falta |-> FALSE]
               /\ \A k \in 1 .. Len(s) : g[k] = Traducir(g[k - 1], s[k].dir)
               /\ Traduccion(s) = g[Len(s)]
  BY <1>1, Turnos
<1> DEFINE T == {k \in Nat : TipoTurno(g[k]) /\ Len(g[k].dirs) = k /\ Respondida(g[k], s, k)}
<1>3. 0 \in T
  <2>1. TipoTurno(g[0])
    BY <1>2, EmptySeq DEF TypeOK, TipoTurno
  <2>2. Len(g[0].dirs) = 0
    BY <1>2
  <2>3. g[0].tlb = tlb /\ ~ g[0].falta
    BY <1>2
  <2>4. Respondida(g[0], s, 0)
    BY <2>3 DEF Respondida, Vigentes
  <2>5. QED BY <2>1, <2>2, <2>4
<1>4. ASSUME NEW k \in 0 .. Len(s) - 1, k \in T
      PROVE  k + 1 \in T
  <2>1. k + 1 \in 1 .. Len(s) /\ (k + 1) - 1 = k /\ k \in Nat
    BY <1>1
  <2>2. g[k + 1] = Traducir(g[k], s[k + 1].dir) /\ s[k + 1].dir \in Nat
    BY <1>1, <1>2, <2>1
  <2>3. TipoTurno(g[k + 1]) /\ Len(g[k + 1].dirs) = Len(g[k].dirs) + 1
    BY <1>4, <2>1, <2>2, TurnoTipo
  <2>4. Respondida(g[k + 1], s, k + 1)
    <3>1. TipoTurno(g[k]) /\ Len(g[k].dirs) = k /\ Respondida(g[k], s, k)
      BY <1>4
    <3>2. Respondida(Traducir(g[k], s[k + 1].dir), s, k + 1)
      BY <2>1, <2>2, <3>1, TurnoRespondido
    <3>3. QED BY <2>2, <3>2
  <2>5. QED BY <1>4, <2>3, <2>4
<1>5. Len(s) \in T
  <2> HIDE DEF T
  <2>1. \A k \in 0 .. Len(s) : k \in T
    BY <1>1, <1>3, <1>4, HastaN
  <2>2. QED BY <1>1, <2>1
<1>6. QED BY <1>2, <1>5

\* A piece that does not go out of its page does not go out of its frame.
LEMMA EnSuMarco ==
    ASSUME TypeOK, ejecuta \in Procesos, NEW dir \in Nat, NEW tam \in Nat,
           Existe(dir), (dir % TamPagina) + tam <= TamPagina
    PROVE  LET m == tabla[ejecuta][dir \div TamPagina + 1]
           IN  /\ m \in ToSet(tabla[ejecuta]) /\ m \in Marcos
               /\ Fisica(dir) \in Nat /\ Fisica(dir) + tam <= TamMemoria
               /\ \A j \in 0 .. tam - 1 :
                    /\ (dir + j) \div TamPagina = dir \div TamPagina
                    /\ (dir + j) % TamPagina = (dir % TamPagina) + j
                    /\ Fisica(dir) + j = m * TamPagina + ((dir % TamPagina) + j)
                    /\ (Fisica(dir) + j) \div TamPagina = m
<1> DEFINE T == TamPagina
           q == dir \div T
           o == dir % T
           m == tabla[ejecuta][q + 1]
<1>1. T \in Nat /\ T > 0 /\ q \in Nat /\ o \in 0 .. T - 1 /\ dir = q * T + o
  BY Constantes, Division
<1>2. tabla[ejecuta] \in Seq(Marcos)
  BY DEF TypeOK
<1>3. q < Len(tabla[ejecuta]) /\ o + tam <= T
  BY DEF Existe
<1>4. Fisica(dir) = m * T + o
  BY DEF Fisica
<1>5. q + 1 \in 1 .. Len(tabla[ejecuta])
  BY <1>1, <1>2, <1>3, LenProperties
<1>6. m \in ToSet(tabla[ejecuta]) /\ m \in Marcos
  BY <1>2, <1>5, Lugares, ElementOfSeq
<1> HIDE DEF q, o, m
<1>7. m \in Nat /\ m + 1 <= CantMarcos /\ CantMarcos \in Nat
  BY <1>6, Constantes DEF Marcos
<1>8. Fisica(dir) \in Nat /\ Fisica(dir) + tam <= TamMemoria
  <2>1. (m + 1) * T <= CantMarcos * T
    BY <1>7, Producto
  <2>2. m * T \in Nat /\ (m + 1) * T = m * T + T /\ CantMarcos * T \in Nat
    BY <1>1, <1>7
  <2>3. QED BY <1>1, <1>3, <1>4, <2>1, <2>2 DEF TamMemoria
<1>9. ASSUME NEW j \in 0 .. tam - 1
      PROVE  /\ (dir + j) \div T = q /\ (dir + j) % T = o + j
             /\ Fisica(dir) + j = m * T + (o + j) /\ (Fisica(dir) + j) \div T = m
  <2>1. o + j \in 0 .. T - 1
    BY <1>1, <1>3
  <2>2. q * T \in Nat /\ m * T \in Nat
    BY <1>1, <1>7
  <2>3. dir + j = q * T + (o + j) /\ Fisica(dir) + j = m * T + (o + j)
    BY <1>1, <1>4, <2>1, <2>2
  <2>4. (q * T + (o + j)) \div T = q /\ (q * T + (o + j)) % T = o + j
    BY <1>1, <2>1, UnaDivision
  <2>5. (m * T + (o + j)) \div T = m
    BY <1>7, <2>1, UnaDivision
  <2>6. QED BY <2>3, <2>4, <2>5
<1>10. QED BY <1>6, <1>8, <1>9 DEF q, o, m

Servidas == Propias /\ Vigentes /\ AccesoPropio

\* An access leaves the entries as the table has them, and is of the process's
\* own frames.
LEMMA AccesoServido ==
    ASSUME Servidas, Accesos, EnSuPagina
    PROVE  (\A e \in ToSet(tlb') : estado[e.pid] # "fin" => Vigente(e)) /\ AccesoPropio'
<1>1. TypeOK /\ ejecuta \in Procesos /\ UNCHANGED tabla
  BY CadaAcceso DEF Servidas, Propias, Tipado
<1>2. estado[ejecuta] # "fin" /\ Vigentes
  BY <1>1, ConstantesOK DEF Servidas, Propias, Repartidos
<1>3. PICK s \in Seq(Trozos) : Accede(Traduccion(s), s) /\ EnUnaPagina(s)
  BY <1>1, CadaAcceso
<1> DEFINE t == Traduccion(s)
<1>4. Respondida(t, s, Len(s))
  BY <1>1, <1>2, TraduccionRespondida
<1>5. ~ t.falta /\ tlb' = t.tlb /\ tocados' = MarcosDe(t, s)
  BY <1>3 DEF Accede
<1> HIDE DEF t
<1>6. /\ \A e \in ToSet(tlb') : estado[e.pid] # "fin" => Vigente(e)
      /\ \A k \in 1 .. Len(s) : Existe(s[k].dir) /\ t.dirs[k] = Fisica(s[k].dir)
  BY <1>4, <1>5 DEF Respondida
<1>7. /\ DOMAIN s = 1 .. Len(s)
      /\ \A k \in 1 .. Len(s) : s[k].dir \in Nat /\ s[k].tam \in Nat
  <2>1. DOMAIN s = 1 .. Len(s) /\ \A k \in 1 .. Len(s) : s[k] \in Trozos
    BY LenProperties, ElementOfSeq
  <2>2. \A x \in Trozos : x.dir \in Nat /\ x.tam \in Nat
    BY DEF Trozos
  <2>3. QED BY <2>1, <2>2
<1>8. ASSUME NEW k \in 1 .. Len(s), NEW a \in t.dirs[k] .. t.dirs[k] + s[k].tam - 1
      PROVE  a \div TamPagina \in ToSet(tabla[ejecuta])
  <2> DEFINE dir == s[k].dir
             tam == s[k].tam
  <2>1. dir \in Nat /\ tam \in Nat /\ Existe(dir) /\ (dir % TamPagina) + tam <= TamPagina
        /\ t.dirs[k] = Fisica(dir)
    BY <1>3, <1>6, <1>7 DEF EnUnaPagina
  <2> HIDE DEF dir, tam
  <2>2. /\ tabla[ejecuta][dir \div TamPagina + 1] \in ToSet(tabla[ejecuta])
        /\ Fisica(dir) \in Nat
        /\ \A j \in 0 .. tam - 1 :
              (Fisica(dir) + j) \div TamPagina = tabla[ejecuta][dir \div TamPagina + 1]
    BY <1>1, <2>1, EnSuMarco
  <2>3. a \in Fisica(dir) .. Fisica(dir) + tam - 1
    BY <2>1 DEF tam
  <2>4. a - Fisica(dir) \in 0 .. tam - 1 /\ Fisica(dir) + (a - Fisica(dir)) = a
    BY <2>1, <2>2, <2>3
  <2>5. QED BY <2>2, <2>4
<1>9. \A x \in tocados' : x[1] = ejecuta /\ x[2] \in ToSet(tabla[ejecuta])
  BY <1>5, <1>7, <1>8 DEF MarcosDe
<1>10. AccesoPropio'
  BY <1>1, <1>9 DEF AccesoPropio
<1>11. QED BY <1>6, <1>10

\* No other step leaves a frame in sight that was not, nor changes the TLB.
LEMMA SinTocar ==
    ASSUME [Next]_vars, ~ Accesos
    PROVE  tocados' = {} \/ UNCHANGED <<tocados, tabla>>
<1>1. CASE Calcular
  BY <1>1 DEF Calcular, SinMemoria
<1>2. CASE Ampliar \/ Reducir
  BY <1>2 DEF Ampliar, Reducir, Redimensionar
<1>3. CASE SinEspacio \/ EXIT
  BY <1>3 DEF SinEspacio, EXIT, Salir
<1>4. CASE Detenerse
  BY <1>4 DEF Detenerse, SinMemoria
<1>5. CASE PedirIO
  BY <1>5 DEF PedirIO, SinMemoria
<1>6. CASE Recurso
  BY <1>6 DEF Recurso, SinMemoria
<1>7. ASSUME NEW p \in Procesos, Despachar(p) \/ FinIO(p)
      PROVE  UNCHANGED <<tocados, tabla>>
  BY <1>7 DEF Despachar, FinIO, Entorno
<1>8. CASE UNCHANGED vars
  BY <1>8 DEF vars
<1>9. QED BY <1>1, <1>2, <1>3, <1>4, <1>5, <1>6, <1>7, <1>8 DEF Next, Accesos

\* Each step keeps the TLB true and the accesses inside their process.
LEMMA PasoServidas ==
    ASSUME Servidas, SinRestos, EnSuPagina, [Next]_vars
    PROVE  Servidas'
<1>1. Propias' /\ Propias /\ Tipado /\ TypeOK
  BY PasoPropias DEF Servidas, Propias, Tipado
<1>2. /\ tabla \in [Procesos -> Seq(Marcos)] /\ estado \in [Procesos -> {"listo", "bloqueado", "fin"}]
      /\ tlb \in Seq(Entrada) /\ tlb' \in Seq(Entrada) /\ ejecuta \in Procesos \cup {Nadie}
      /\ Nadie \notin Procesos
  BY <1>1, ConstantesOK DEF Propias, Tipado, TypeOK
<1>3. ejecuta \in Procesos => estado[ejecuta] = "listo"
  BY <1>1, <1>2 DEF Propias, Repartidos
<1>4. \A p \in Procesos : estado'[p] # "fin" => estado[p] # "fin"
  <2>1. CASE UNCHANGED estado
    BY <2>1
  <2>2. CASE /\ ejecuta \in Procesos
             /\ estado' \in {[estado EXCEPT ![ejecuta] = "bloqueado"],
                             [estado EXCEPT ![ejecuta] = "fin"]}
    BY <1>2, <1>3, <2>2
  <2>3. CASE \E p \in Procesos : /\ estado[p] = "bloqueado"
                                 /\ estado' = [estado EXCEPT ![p] = "listo"]
    BY <1>2, <2>3
  <2>4. QED BY <1>1, <2>1, <2>2, <2>3, Cambios
<1>5. \A e \in ToSet(tlb') : e.pid \in Procesos /\ e.pagina \in Nat
  <2>1. ToSet(tlb') \subseteq Entrada
    BY <1>2, Lugares
  <2>2. QED BY <2>1 DEF Entrada
<1>6. CASE Accesos
  <2>1. (\A e \in ToSet(tlb') : estado[e.pid] # "fin" => Vigente(e)) /\ AccesoPropio'
    BY <1>6, AccesoServido
  <2>2. UNCHANGED tabla
    BY <1>1, <1>6, CadaAcceso
  <2>3. Vigentes'
    BY <1>4, <1>5, <2>1, <2>2 DEF Vigentes, Vigente
  <2>4. QED BY <1>1, <2>1, <2>3 DEF Servidas
<1>7. CASE ~ Accesos
  <2>1. UNCHANGED tlb
    BY <1>7, SinAcceso
  <2>2. AccesoPropio'
    BY <1>7, SinTocar DEF AccesoPropio, Servidas
  <2>3. ASSUME NEW e \in ToSet(tlb), e.pid \in Procesos, e.pagina \in Nat, estado'[e.pid] # "fin"
        PROVE  e.pagina < Len(tabla'[e.pid]) /\ tabla'[e.pid][e.pagina + 1] = e.marco
    <3>1. e.pagina < Len(tabla[e.pid]) /\ tabla[e.pid][e.pagina + 1] = e.marco
      BY <1>4, <2>3 DEF Servidas, Vigentes, Vigente
    <3>2. tabla[e.pid] \in Seq(Marcos) /\ Len(tabla[e.pid]) \in Nat
      BY <1>2, <2>3, LenProperties
    <3>3. e.pagina + 1 \in 1 .. Len(tabla[e.pid])
      BY <2>3, <3>1, <3>2
    <3>4. CASE UNCHANGED tabla
      BY <3>1, <3>4
    <3>5. CASE /\ Ampliar /\ ejecuta \in Procesos
               /\ tabla' = [tabla EXCEPT ![ejecuta] = tabla[ejecuta] \o Asignar]
      <4> DEFINE nueva == tabla[ejecuta] \o Asignar
      <4>1. /\ Len(tabla[ejecuta]) <= Len(nueva) /\ nueva \in Seq(Marcos)
            /\ \A k \in 1 .. Len(tabla[ejecuta]) : nueva[k] = tabla[ejecuta][k]
        BY <1>1, <3>5, TablaCrece DEF Propias
      <4>2. Len(nueva) \in Nat
        BY <4>1, LenProperties
      <4>3. tabla' = [tabla EXCEPT ![ejecuta] = nueva]
        BY <3>5
      <4> HIDE DEF nueva
      <4>4. CASE e.pid = ejecuta
        <5>1. tabla'[e.pid] = nueva
          BY <1>2, <2>3, <4>3, <4>4
        <5>2. nueva[e.pagina + 1] = tabla[ejecuta][e.pagina + 1]
          BY <3>3, <4>1, <4>4
        <5>3. e.pagina < Len(nueva)
          BY <2>3, <3>1, <3>2, <4>1, <4>2, <4>4
        <5>4. QED BY <3>1, <4>4, <5>1, <5>2, <5>3
      <4>5. CASE e.pid # ejecuta
        <5>1. tabla'[e.pid] = tabla[e.pid]
          BY <1>2, <2>3, <4>3, <4>5
        <5>2. QED BY <3>1, <5>1
      <4>6. QED BY <4>4, <4>5
    <3>6. CASE /\ Reducir /\ ejecuta \in Procesos
               /\ tabla' = [tabla EXCEPT ![ejecuta] =
                               SubSeq(tabla[ejecuta], 1, Len(tabla[ejecuta]) + AAgregar)]
      <4> DEFINE nueva == SubSeq(tabla[ejecuta], 1, Len(tabla[ejecuta]) + AAgregar)
      <4>1. /\ nueva \in Seq(Marcos) /\ Len(nueva) = Len(tabla[ejecuta]) + AAgregar
            /\ \A k \in 1 .. Len(nueva) : nueva[k] = tabla[ejecuta][k]
        BY <1>1, <3>6, TablaEncoge DEF Propias
      <4>2. Len(nueva) \in Nat
        BY <4>1, LenProperties
      <4>3. tabla' = [tabla EXCEPT ![ejecuta] = nueva]
        BY <3>6
      <4>4. Sigue({"RESIZE"}) /\ Ins[2] < tamanio[ejecuta]
        BY <3>6 DEF Reducir, Fetch, Sigue
      <4>5. e.pid = ejecuta => e.pagina < Len(tabla[ejecuta]) + AAgregar
        BY <4>4 DEF SinRestos
      <4> HIDE DEF nueva
      <4>6. CASE e.pid = ejecuta
        <5>1. tabla'[e.pid] = nueva
          BY <1>2, <2>3, <4>3, <4>6
        <5>2. e.pagina < Len(nueva)
          BY <4>1, <4>5, <4>6
        <5>3. e.pagina + 1 \in 1 .. Len(nueva)
          BY <2>3, <4>2, <5>2
        <5>4. nueva[e.pagina + 1] = tabla[ejecuta][e.pagina + 1]
          BY <4>1, <5>3
        <5>5. QED BY <3>1, <4>6, <5>1, <5>2, <5>4
      <4>7. CASE e.pid # ejecuta
        <5>1. tabla'[e.pid] = tabla[e.pid]
          BY <1>2, <2>3, <4>3, <4>7
        <5>2. QED BY <3>1, <5>1
      <4>8. QED BY <4>6, <4>7
    <3>7. CASE /\ ejecuta \in Procesos /\ estado' = [estado EXCEPT ![ejecuta] = "fin"]
               /\ tabla' = [tabla EXCEPT ![ejecuta] = <<>>]
      <4>1. e.pid # ejecuta
        BY <1>2, <2>3, <3>7
      <4>2. tabla'[e.pid] = tabla[e.pid]
        BY <1>2, <2>3, <3>7, <4>1
      <4>3. QED BY <3>1, <4>2
    <3>8. \/ UNCHANGED tabla
          \/ /\ Ampliar /\ ejecuta \in Procesos
             /\ tabla' = [tabla EXCEPT ![ejecuta] = tabla[ejecuta] \o Asignar]
          \/ /\ Reducir /\ ejecuta \in Procesos
             /\ tabla' = [tabla EXCEPT ![ejecuta] =
                             SubSeq(tabla[ejecuta], 1, Len(tabla[ejecuta]) + AAgregar)]
          \/ /\ ejecuta \in Procesos /\ estado' = [estado EXCEPT ![ejecuta] = "fin"]
             /\ tabla' = [tabla EXCEPT ![ejecuta] = <<>>]
      BY <1>1, Cambios
    <3>9. QED BY <3>4, <3>5, <3>6, <3>7, <3>8
  <2>4. Vigentes'
    BY <1>5, <2>1, <2>3 DEF Vigentes, Vigente
  <2>5. QED BY <1>1, <2>2, <2>4 DEF Servidas
<1>8. QED BY <1>6, <1>7

\* At the start the TLB is empty.
LEMMA InicioServidas ==
    ASSUME Init
    PROVE  Servidas
<1>1. tlb = <<>> /\ tocados = {}
  BY DEF Init
<1>2. QED BY <1>1, Vacia, InicioPropias DEF Servidas, Vigentes, AccesoPropio

\* As long as no RESIZE takes away a page that the TLB still holds, and what is
\* cut every TamPagina bytes fits its pages, every byte that an instruction
\* reads, writes or hands to a device is in a frame of its own process.
THEOREM AccesoPropioSiempre ==
    Spec /\ []SinRestos /\ []EnSuPagina => []AccesoPropio
<1>1. Init => Servidas
  BY InicioServidas
<1>2. Servidas /\ SinRestos /\ EnSuPagina /\ [Next]_vars => Servidas'
  BY PasoServidas
<1>3. Servidas => AccesoPropio
  BY DEF Servidas
<1>4. QED BY <1>1, <1>2, <1>3, PTL DEF Spec

-------------------------------------------------------------------------------
(* The space of a process *)

\* How many addresses a process has, and where each of them is.
Hasta(p) == Len(tabla[p]) * TamPagina
Lugar(p, a) == tabla[p][a \div TamPagina + 1] * TamPagina + (a % TamPagina)

\* An address is of the process if its page is in the table.
LEMMA EnTabla ==
    ASSUME TypeOK, NEW p \in Procesos, NEW a \in Nat
    PROVE  /\ Len(tabla[p]) \in Nat /\ Hasta(p) \in Nat
           /\ a < Hasta(p) <=> a \div TamPagina < Len(tabla[p])
           /\ a < Hasta(p) => /\ tabla[p][a \div TamPagina + 1] \in Marcos
                              /\ Lugar(p, a) \in 0 .. TamMemoria - 1
<1> DEFINE T == TamPagina
           q == a \div T
           o == a % T
           L == Len(tabla[p])
<1>1. T \in Nat /\ T > 0 /\ q \in Nat /\ o \in 0 .. T - 1 /\ a = q * T + o
  BY Constantes, Division
<1>2. tabla[p] \in Seq(Marcos) /\ L \in Nat /\ \A k \in 1 .. L : tabla[p][k] \in Marcos
  <2>1. tabla[p] \in Seq(Marcos)
    BY DEF TypeOK
  <2>2. QED BY <2>1, LenProperties, ElementOfSeq
<1>3. Hasta(p) = L * T
  BY DEF Hasta
<1> HIDE DEF q, o, L, T
<1>4. L * T \in Nat /\ q * T \in Nat
  BY <1>1, <1>2
<1>5. ASSUME q < L
      PROVE  /\ a < L * T
             /\ tabla[p][q + 1] \in Marcos
             /\ tabla[p][q + 1] * T + o \in 0 .. TamMemoria - 1
  <2>1. q + 1 <= L /\ q + 1 \in 1 .. L
    BY <1>1, <1>2, <1>5
  <2>2. (q + 1) * T <= L * T /\ (q + 1) * T = q * T + T
    BY <1>1, <1>2, <2>1, Producto DEF T
  <2>3. a < L * T
    BY <1>1, <1>4, <2>2
  <2> DEFINE m == tabla[p][q + 1]
  <2>4. m \in Marcos
    BY <1>2, <2>1
  <2>5. m \in Nat /\ m + 1 <= CantMarcos /\ CantMarcos \in Nat
    BY <2>4, Constantes DEF Marcos
  <2> HIDE DEF m
  <2>6. (m + 1) * T <= CantMarcos * T /\ (m + 1) * T = m * T + T /\ m * T \in Nat
        /\ CantMarcos * T \in Nat
    BY <1>1, <2>5, Producto DEF T
  <2>7. m * T + o \in 0 .. TamMemoria - 1
    BY <1>1, <2>6 DEF TamMemoria, T
  <2>8. QED BY <2>3, <2>4, <2>7 DEF m
<1>6. ASSUME ~ (q < L)
      PROVE  ~ (a < L * T)
  <2>1. L * T <= q * T
    BY <1>1, <1>2, <1>6, Producto DEF T
  <2>2. QED BY <1>1, <1>4, <2>1
<1>7. Lugar(p, a) = tabla[p][q + 1] * T + o
  BY DEF Lugar, q, o, T
<1>8. (a < L * T <=> q < L) /\ (a < L * T => tabla[p][q + 1] \in Marcos
                                            /\ tabla[p][q + 1] * T + o \in 0 .. TamMemoria - 1)
  BY <1>5, <1>6
<1>9. QED BY <1>2, <1>3, <1>4, <1>7, <1>8 DEF q, L, T

\* The addresses of a page are together.
LEMMA Seguidas ==
    ASSUME TypeOK, NEW p \in Procesos, NEW a \in Nat, a < Hasta(p),
           NEW j \in Nat, (a % TamPagina) + j < TamPagina
    PROVE  /\ a + j \in Nat /\ a + j < Hasta(p)
           /\ Lugar(p, a) \in Nat /\ Lugar(p, a + j) = Lugar(p, a) + j
<1> DEFINE T == TamPagina
           q == a \div T
           o == a % T
           m == tabla[p][q + 1]
<1>1. T \in Nat /\ T > 0 /\ q \in Nat /\ o \in 0 .. T - 1 /\ a = q * T + o
  BY Constantes, Division
<1>2. q < Len(tabla[p]) /\ m \in Nat /\ Lugar(p, a) = m * T + o /\ Lugar(p, a) \in Nat
  <2>1. q < Len(tabla[p]) /\ m \in Marcos /\ Lugar(p, a) \in 0 .. TamMemoria - 1
    BY EnTabla
  <2>2. Marcos \subseteq Nat /\ TamMemoria \in Nat
    BY Constantes
  <2>3. Lugar(p, a) = m * T + o
    BY DEF Lugar
  <2> HIDE DEF m
  <2>4. QED BY <2>1, <2>2, <2>3
<1> HIDE DEF q, o
<1>3. o + j \in 0 .. T - 1 /\ q * T \in Nat
  BY <1>1 DEF o
<1>4. a + j = q * T + (o + j)
  BY <1>1, <1>3
<1>5. (a + j) \div T = q /\ (a + j) % T = o + j
  BY <1>1, <1>3, <1>4, UnaDivision
<1>6. a + j \in Nat
  OBVIOUS
<1>7. a + j < Hasta(p)
  BY <1>2, <1>5, <1>6, EnTabla
<1>8. Lugar(p, a + j) = m * T + (o + j)
  BY <1>5 DEF Lugar
<1> HIDE DEF m
<1>9. m * T \in Nat
  BY <1>1, <1>2
<1>10. m * T + (o + j) = (m * T + o) + j
  BY <1>1, <1>9
<1>11. QED BY <1>2, <1>6, <1>7, <1>8, <1>10

\* Each place of the memory is one address of one process.
LEMMA UnLugar ==
    ASSUME TypeOK, MarcosPropios, NEW p \in Procesos, NEW q \in Procesos,
           NEW a \in Nat, NEW b \in Nat, a < Hasta(p), b < Hasta(q),
           Lugar(p, a) = Lugar(q, b)
    PROVE  p = q /\ a = b
<1> DEFINE T == TamPagina
           m == tabla[p][a \div T + 1]
           n == tabla[q][b \div T + 1]
<1>1. /\ T \in Nat /\ T > 0 /\ a \div T \in Nat /\ a % T \in 0 .. T - 1
      /\ b \div T \in Nat /\ b % T \in 0 .. T - 1
      /\ a = (a \div T) * T + (a % T) /\ b = (b \div T) * T + (b % T)
  BY Constantes, Division
<1>2. /\ a \div T < Len(tabla[p]) /\ b \div T < Len(tabla[q]) /\ m \in Nat /\ n \in Nat
      /\ Len(tabla[p]) \in Nat /\ Len(tabla[q]) \in Nat
  BY EnTabla, Constantes
<1>3. m * T + (a % T) = n * T + (b % T)
  BY DEF Lugar
<1>4. m = n /\ a % T = b % T
  <2>1. \A k \in Nat : \A o \in 0 .. T - 1 : (k * T + o) \div T = k /\ (k * T + o) % T = o
    BY UnaDivision
  <2> HIDE DEF m, n
  <2>2. (m * T + (a % T)) \div T = m /\ (m * T + (a % T)) % T = a % T
    BY <1>1, <1>2, <2>1
  <2>3. (n * T + (b % T)) \div T = n /\ (n * T + (b % T)) % T = b % T
    BY <1>1, <1>2, <2>1
  <2>4. QED BY <1>3, <2>2, <2>3
<1>5. a \div T + 1 \in 1 .. Len(tabla[p]) /\ b \div T + 1 \in 1 .. Len(tabla[q])
  <2> DEFINE x == a \div T
             y == b \div T
  <2>1. x \in Nat /\ y \in Nat /\ x < Len(tabla[p]) /\ y < Len(tabla[q])
    BY <1>1, <1>2
  <2> HIDE DEF x, y
  <2>2. x + 1 \in 1 .. Len(tabla[p]) /\ y + 1 \in 1 .. Len(tabla[q])
    BY <1>2, <2>1
  <2>3. QED BY <2>2 DEF x, y
<1>6. p = q /\ a \div T + 1 = b \div T + 1
  BY <1>4, <1>5 DEF MarcosPropios
<1>7. a \div T = b \div T
  BY <1>1, <1>6
<1>8. QED BY <1>1, <1>4, <1>6, <1>7

\* Registers are the same for the machine and for the CPU.
LEMMA MismosRegistros ==
    /\ \A v, n : M!Bytes(v, n) = Bytes(v, n)
    /\ \A bs : M!Valor(bs) = Valor(bs)
    /\ \A r : M!TamanioRegistro(r) = TamanioRegistro(r)
    /\ \A b, r, v : M!SET(b, r, v) = SET(b, r, v)
    /\ \A b, d, o : M!SUM(b, d, o) = SUM(b, d, o) /\ M!SUB(b, d, o) = SUB(b, d, o)
<1>1. \A v, n : M!Bytes(v, n) = Bytes(v, n)
  BY DEF M!Bytes, Bytes, M!Peso, Peso
<1>2. \A bs : M!Valor(bs) = Valor(bs)
  BY DEF M!Valor, Valor, M!Peso, Peso
<1>3. \A r : M!TamanioRegistro(r) = TamanioRegistro(r)
  BY DEF M!TamanioRegistro, TamanioRegistro
<1>4. \A b, r, v : M!SET(b, r, v) = SET(b, r, v)
  BY <1>1, <1>3 DEF M!SET, SET
<1>5. \A b, d, o : M!SUM(b, d, o) = SUM(b, d, o) /\ M!SUB(b, d, o) = SUB(b, d, o)
  BY <1>2, <1>4 DEF M!SUM, SUM, M!SUB, SUB
<1>6. QED BY <1>1, <1>2, <1>3, <1>4, <1>5

\* So are the program counter, the instruction and its operands.
LEMMA MismoCiclo ==
    /\ M!PC = PC /\ M!Ins = Ins /\ M!R = R /\ \A k : M!Reg(k) = Reg(k)
    /\ M!Nada = [op |-> "ninguno", dir |-> 0, tam |-> 0, puntero |-> 0]
BY MismosRegistros DEF M!PC, PC, M!Ins, Ins, M!R, R, M!Reg, Reg, M!Nada

\* The addresses of a process, and what its device has to do.
Espacios == [p \in Procesos |-> Espacio(p)]
De(ped) == [op |-> ped.op, dir |-> ped.dir, tam |-> ped.tam, puntero |-> ped.puntero]
Pendientes == [p \in Procesos |-> De(pedido[p])]

\* An instruction that leaves the process in the CPU does so for the machine.
LEMMA PasoQueda ==
    ASSUME NEW tipos, NEW r, Fetch(tipos), Queda(r)
    PROVE  M!Paso(tipos) /\ M!Queda(r)
BY MismoCiclo DEF Fetch, Queda, M!Paso, M!Queda, M!PC, PC, M!Ins, Ins

\* One that takes it out leaves what the device has to do, without the frames.
LEMMA PasoDeja ==
    ASSUME TypeOK, ejecuta \in Procesos, NEW tipos, NEW e, NEW ped, Fetch(tipos), Deja(e, ped)
    PROVE  M!Paso(tipos) /\ M!Deja(e, De(ped))
<1>1. pedido \in [Procesos -> Pedido]
  BY DEF TypeOK
<1>2. Pendientes' = [Pendientes EXCEPT ![ejecuta] = De(ped)]
  <2>1. pedido' = [pedido EXCEPT ![ejecuta] = ped]
    BY DEF Deja
  <2>2. QED BY <1>1, <2>1 DEF Pendientes
<1>3. QED BY <1>2, MismoCiclo DEF Fetch, Deja, M!Paso, M!Deja, Pendientes, De

\* If no page and no byte changes, no space does.
LEMMA MismoEspacio ==
    ASSUME UNCHANGED <<tabla, memoria>>
    PROVE  UNCHANGED Espacios
BY DEF Espacios, Espacio

-------------------------------------------------------------------------------
(* Bytes of a page, and of several *)

Memoria0 == 0 .. TamMemoria - 1

\* Writing inside a page changes those addresses of that process and no others.
LEMMA UnaEscritura ==
    ASSUME TypeOK, MarcosPropios, NEW p \in Procesos, NEW dir \in Nat, NEW n \in Nat,
           dir < Hasta(p), (dir % TamPagina) + n <= TamPagina,
           NEW m, DOMAIN m = Memoria0, NEW bs, Len(bs) = n
    PROVE  /\ DOMAIN Escribir(m, Lugar(p, dir), bs) = Memoria0
           /\ \A q \in Procesos : \A b \in 0 .. Hasta(q) - 1 :
                Escribir(m, Lugar(p, dir), bs)[Lugar(q, b)] =
                    IF q = p /\ b \in dir .. dir + n - 1 THEN bs[b - dir + 1] ELSE m[Lugar(q, b)]
<1> DEFINE l == Lugar(p, dir)
           w == Escribir(m, l, bs)
<1>1. w = [a \in Memoria0 |-> IF a \in l .. l + n - 1 THEN bs[a - l + 1] ELSE m[a]]
  BY DEF Escribir
<1>2. \A j \in 0 .. n - 1 : /\ dir + j \in Nat /\ dir + j < Hasta(p)
                            /\ l \in Nat /\ Lugar(p, dir + j) = l + j
  <2>1. TamPagina \in Nat /\ dir % TamPagina \in Nat
    BY Constantes, Division
  <2>2. SUFFICES ASSUME NEW j \in 0 .. n - 1
                 PROVE  /\ dir + j \in Nat /\ dir + j < Hasta(p)
                        /\ l \in Nat /\ Lugar(p, dir + j) = l + j
    OBVIOUS
  <2>3. j \in Nat /\ (dir % TamPagina) + j < TamPagina
    BY <2>1
  <2>4. QED BY <2>3, Seguidas
<1> HIDE DEF w
<1>3. l \in Nat
  BY EnTabla, Constantes
<1>4. ASSUME NEW q \in Procesos, NEW b \in 0 .. Hasta(q) - 1
      PROVE  w[Lugar(q, b)] =
               IF q = p /\ b \in dir .. dir + n - 1 THEN bs[b - dir + 1] ELSE m[Lugar(q, b)]
  <2>1. b \in Nat /\ b < Hasta(q) /\ Lugar(q, b) \in Memoria0 /\ Lugar(q, b) \in Nat
    <3>1. Hasta(q) \in Nat
      <4>1. 0 \in Nat
        OBVIOUS
      <4>2. QED BY <4>1, EnTabla
    <3>2. b \in Nat /\ b < Hasta(q)
      BY <3>1
    <3>3. Lugar(q, b) \in 0 .. TamMemoria - 1
      BY <3>2, EnTabla
    <3>4. QED BY <3>2, <3>3, Constantes DEF Memoria0
  <2>2. CASE q = p /\ b \in dir .. dir + n - 1
    <3>1. b - dir \in 0 .. n - 1 /\ dir + (b - dir) = b
      BY <2>1, <2>2
    <3>2. Lugar(q, b) = l + (b - dir)
      BY <1>2, <2>2, <3>1
    <3> HIDE DEF l
    <3>3. Lugar(q, b) \in l .. l + n - 1 /\ Lugar(q, b) - l + 1 = b - dir + 1
      BY <1>3, <3>1, <3>2
    <3>4. QED BY <1>1, <2>1, <2>2, <3>3
  <2>3. CASE ~ (q = p /\ b \in dir .. dir + n - 1)
    <3>1. Lugar(q, b) \notin l .. l + n - 1
      <4>1. SUFFICES ASSUME Lugar(q, b) \in l .. l + n - 1 PROVE FALSE
        OBVIOUS
      <4> DEFINE x == Lugar(q, b)
                 j == x - l
      <4>2. j \in 0 .. n - 1 /\ l + j = x
        <5>1. x \in Nat /\ x \in l .. l + n - 1
          BY <2>1, <4>1
        <5> HIDE DEF x, l
        <5>2. QED BY <1>3, <5>1
      <4> HIDE DEF j
      <4>3. dir + j \in Nat /\ dir + j < Hasta(p) /\ Lugar(p, dir + j) = Lugar(q, b)
        BY <1>2, <4>2
      <4>4. p = q /\ dir + j = b
        BY <2>1, <4>3, UnLugar
      <4>5. QED BY <2>3, <4>2, <4>4
    <3> HIDE DEF l
    <3>2. QED BY <1>1, <2>1, <2>3, <3>1
  <2>4. QED BY <2>2, <2>3
<1>5. DOMAIN w = Memoria0
  BY <1>1
<1>6. QED BY <1>4, <1>5 DEF w

\* Reading inside a page.
LEMMA UnaLectura ==
    ASSUME TypeOK, NEW p \in Procesos, NEW dir \in Nat, NEW n \in Nat,
           dir < Hasta(p), (dir % TamPagina) + n <= TamPagina, NEW m
    PROVE  /\ Len(Leer(m, Lugar(p, dir), n)) = n
           /\ \A j \in 1 .. n : /\ dir + (j - 1) \in 0 .. Hasta(p) - 1
                                /\ Leer(m, Lugar(p, dir), n)[j] = m[Lugar(p, dir + (j - 1))]
<1> DEFINE l == Lugar(p, dir)
<1>1. Leer(m, l, n) = [k \in 1 .. n |-> m[l + k - 1]]
  BY DEF Leer
<1>2. ASSUME NEW j \in 1 .. n
      PROVE  /\ dir + (j - 1) \in 0 .. Hasta(p) - 1
             /\ Leer(m, l, n)[j] = m[Lugar(p, dir + (j - 1))]
  <2>1. TamPagina \in Nat /\ dir % TamPagina \in Nat
    BY Constantes, Division
  <2>2. j - 1 \in Nat /\ (dir % TamPagina) + (j - 1) < TamPagina
    BY <2>1
  <2>3. /\ dir + (j - 1) \in Nat /\ dir + (j - 1) < Hasta(p)
        /\ l \in Nat /\ Lugar(p, dir + (j - 1)) = l + (j - 1)
    BY <2>2, Seguidas
  <2>4. Hasta(p) \in Nat
    BY EnTabla
  <2> HIDE DEF l
  <2>5. l + (j - 1) = l + j - 1
    BY <2>3
  <2>6. QED BY <1>1, <2>3, <2>4, <2>5
<1>3. Len(Leer(m, l, n)) = n
  BY <1>1
<1>4. QED BY <1>2, <1>3

\* The pieces of an access that are in the table of the process.
EnElEspacio(p, s) == \A k \in 1 .. Len(s) : s[k].dir < Hasta(p)

\* If each piece begins in the space of the process, every byte is in it.
LEMMA Abarcan ==
    ASSUME TypeOK, NEW p \in Procesos, NEW dir \in Nat, NEW n \in Nat, NEW s,
           Cubren(s, dir, n), EnUnaPagina(s), EnElEspacio(p, s)
    PROVE  /\ Hasta(p) \in Nat /\ Len(s) \in Nat
           /\ \A k \in 1 .. Len(s) :
                /\ s[k].dir \in Nat /\ s[k].tam \in Nat /\ s[k].dir < Hasta(p)
                /\ (s[k].dir % TamPagina) + s[k].tam <= TamPagina
           /\ \A a \in dir .. dir + n - 1 : a \in 0 .. Hasta(p) - 1
<1>1. Len(s) \in Nat /\ \A k \in 1 .. Len(s) : s[k].dir \in Nat /\ s[k].tam \in Nat
  <2>1. Len(s) \in Nat /\ \A k \in 1 .. Len(s) : s[k] \in Trozos
    BY LenProperties, ElementOfSeq DEF Cubren
  <2>2. \A x \in Trozos : x.dir \in Nat /\ x.tam \in Nat
    BY DEF Trozos
  <2>3. QED BY <2>1, <2>2
<1>2. \A k \in 1 .. Len(s) : /\ s[k].dir < Hasta(p)
                             /\ (s[k].dir % TamPagina) + s[k].tam <= TamPagina
  BY DEF EnElEspacio, EnUnaPagina
<1>3. Hasta(p) \in Nat
  BY EnTabla
<1>4. ASSUME NEW a \in dir .. dir + n - 1
      PROVE  a \in 0 .. Hasta(p) - 1
  <2>1. PICK k \in 1 .. Len(s) : s[k].dir <= a /\ a < s[k].dir + s[k].tam
    BY DEF Cubren
  <2> DEFINE d == s[k].dir
             t == s[k].tam
  <2>2. d \in Nat /\ t \in Nat /\ d < Hasta(p) /\ (d % TamPagina) + t <= TamPagina
    BY <1>1, <1>2
  <2>3. d <= a /\ a < d + t
    BY <2>1
  <2> HIDE DEF d, t
  <2>4. TamPagina \in Nat /\ d % TamPagina \in Nat
    BY <2>2, Constantes, Division
  <2>5. a - d \in Nat /\ d + (a - d) = a /\ (d % TamPagina) + (a - d) < TamPagina
    BY <2>2, <2>3, <2>4
  <2>6. a \in Nat /\ a < Hasta(p)
    BY <2>2, <2>5, Seguidas
  <2>7. QED BY <1>3, <2>6
<1>5. QED BY <1>1, <1>2, <1>3, <1>4

\* Where each piece is in the memory.
Puestos(p, s, dirs) == \A k \in 1 .. Len(s) : dirs[k] = Lugar(p, s[k].dir)

\* The bytes of each piece.
PorPartes(s, dir, bs, datos) ==
    /\ Len(datos) = Len(s)
    /\ \A k \in 1 .. Len(s) :
        /\ Len(datos[k]) = s[k].tam
        /\ \A j \in 1 .. s[k].tam : datos[k][j] = bs[s[k].dir - dir + j]

\* The memory, when n bytes of a process from dir are those and no other changes.
Cambiada(m, p, dir, n, bs) ==
    \A q \in Procesos : \A b \in 0 .. Hasta(q) - 1 :
        m[Lugar(q, b)] = IF q = p /\ b \in dir .. dir + n - 1
                         THEN bs[b - dir + 1] ELSE memoria[Lugar(q, b)]

\* Writing the pieces one after another writes the bytes of the process.
LEMMA Escrito ==
    ASSUME TypeOK, MarcosPropios, NEW p \in Procesos, NEW dir \in Nat, NEW n \in Nat, NEW s,
           Cubren(s, dir, n), EnUnaPagina(s), EnElEspacio(p, s),
           NEW bs, NEW dirs, NEW datos, Puestos(p, s, dirs), PorPartes(s, dir, bs, datos)
    PROVE  Cambiada(EscribirTrozos(dirs, datos), p, dir, n, bs)
<1>0. /\ Len(datos) = Len(s)
      /\ \A k \in 1 .. Len(s) :
           /\ dirs[k] = Lugar(p, s[k].dir) /\ Len(datos[k]) = s[k].tam
           /\ \A j \in 1 .. s[k].tam : datos[k][j] = bs[s[k].dir - dir + j]
  BY DEF Puestos, PorPartes
<1>1. /\ Hasta(p) \in Nat /\ Len(s) \in Nat
      /\ \A k \in 1 .. Len(s) :
            /\ s[k].dir \in Nat /\ s[k].tam \in Nat /\ s[k].dir < Hasta(p)
            /\ (s[k].dir % TamPagina) + s[k].tam <= TamPagina
      /\ \A a \in dir .. dir + n - 1 : a \in 0 .. Hasta(p) - 1
  BY Abarcan
<1>2. PICK g : /\ g[0] = memoria
               /\ \A k \in 1 .. Len(datos) : g[k] = Escribir(g[k - 1], dirs[k], datos[k])
               /\ EscribirTrozos(dirs, datos) = g[Len(datos)]
  <2>1. Len(datos) \in Nat
    BY <1>0, <1>1
  <2>2. QED BY ONLY <2>1, Escrituras
<1> DEFINE en(b, i) == s[i].dir <= b /\ b < s[i].dir + s[i].tam
           Bien(k) ==
             /\ DOMAIN g[k] = Memoria0
             /\ \A q \in Procesos : \A b \in 0 .. Hasta(q) - 1 :
                  g[k][Lugar(q, b)] = IF q = p /\ \E i \in 1 .. k : en(b, i)
                                      THEN bs[b - dir + 1] ELSE memoria[Lugar(q, b)]
           T == {k \in Nat : Bien(k)}
<1>3. 0 \in T
  <2>1. DOMAIN memoria = Memoria0
    BY DEF TypeOK, Memoria0
  <2>2. \A b : ~ \E i \in 1 .. 0 : en(b, i)
    OBVIOUS
  <2> HIDE DEF en
  <2>3. QED BY <1>2, <2>1, <2>2
<1>4. ASSUME NEW k \in 0 .. Len(s) - 1, k \in T
      PROVE  k + 1 \in T
  <2> DEFINE d == s[k + 1].dir
             t == s[k + 1].tam
             dato == datos[k + 1]
  <2>1. k \in Nat /\ k + 1 \in 1 .. Len(s) /\ (k + 1) - 1 = k
    BY <1>1
  <2>2. /\ d \in Nat /\ t \in Nat /\ d < Hasta(p) /\ (d % TamPagina) + t <= TamPagina
        /\ Len(dato) = t /\ \A j \in 1 .. t : dato[j] = bs[d - dir + j]
        /\ g[k + 1] = Escribir(g[k], Lugar(p, d), dato)
    BY <1>0, <1>1, <1>2, <2>1
  <2>3. Bien(k)
    BY <1>4
  <2>4. dir \in Nat /\ \A b : en(b, k + 1) <=> d <= b /\ b < d + t
    OBVIOUS
  <2> HIDE DEF d, t, dato
  <2>5. /\ DOMAIN g[k + 1] = Memoria0
        /\ \A q \in Procesos : \A b \in 0 .. Hasta(q) - 1 :
              g[k + 1][Lugar(q, b)] =
                IF q = p /\ b \in d .. d + t - 1 THEN dato[b - d + 1] ELSE g[k][Lugar(q, b)]
    <3>1. DOMAIN g[k] = Memoria0
      BY <2>3
    <3> DEFINE h == g[k]
    <3> HIDE DEF h
    <3>2. DOMAIN h = Memoria0
      BY <3>1 DEF h
    <3>3. /\ DOMAIN Escribir(h, Lugar(p, d), dato) = Memoria0
          /\ \A q \in Procesos : \A b \in 0 .. Hasta(q) - 1 :
                Escribir(h, Lugar(p, d), dato)[Lugar(q, b)] =
                  IF q = p /\ b \in d .. d + t - 1 THEN dato[b - d + 1] ELSE h[Lugar(q, b)]
      BY <2>2, <3>2, UnaEscritura
    <3>4. QED BY <2>2, <3>3 DEF h
  <2>6. \A b : (\E i \in 1 .. k + 1 : en(b, i)) <=> (\E i \in 1 .. k : en(b, i)) \/ en(b, k + 1)
    <3> HIDE DEF en
    <3>1. \A i \in 1 .. k + 1 : i \in 1 .. k \/ i = k + 1
      BY <2>1
    <3>2. k + 1 \in 1 .. k + 1 /\ \A i \in 1 .. k : i \in 1 .. k + 1
      BY <2>1
    <3>3. QED BY <3>1, <3>2
  <2> HIDE DEF en
  <2>7. ASSUME NEW q \in Procesos, NEW b \in 0 .. Hasta(q) - 1
        PROVE  g[k + 1][Lugar(q, b)] = IF q = p /\ \E i \in 1 .. k + 1 : en(b, i)
                                       THEN bs[b - dir + 1] ELSE memoria[Lugar(q, b)]
    <3>1. b \in Int
      OBVIOUS
    <3>2. CASE q = p /\ en(b, k + 1)
      <4>1. b \in d .. d + t - 1 /\ b - d + 1 \in 1 .. t /\ d - dir + (b - d + 1) = b - dir + 1
        <5>1. d <= b /\ b < d + t
          BY <2>4, <3>2
        <5>2. d \in Nat /\ t \in Nat
          BY <2>2
        <5>3. QED BY ONLY <3>1, <5>1, <5>2, dir \in Nat
      <4>2. g[k + 1][Lugar(q, b)] = dato[b - d + 1]
        BY <2>5, <3>2, <4>1
      <4>3. dato[b - d + 1] = bs[d - dir + (b - d + 1)]
        BY <2>2, <4>1
      <4>4. QED BY <2>6, <3>2, <4>1, <4>2, <4>3
    <3>3. CASE ~ (q = p /\ en(b, k + 1))
      <4>1. ~ (q = p /\ b \in d .. d + t - 1)
        BY <2>2, <2>4, <3>1, <3>3
      <4>2. g[k + 1][Lugar(q, b)] = g[k][Lugar(q, b)]
        BY <2>5, <4>1
      <4>3. g[k][Lugar(q, b)] = IF q = p /\ \E i \in 1 .. k : en(b, i)
                                THEN bs[b - dir + 1] ELSE memoria[Lugar(q, b)]
        BY <2>3
      <4>4. QED BY <2>6, <3>3, <4>2, <4>3
    <3>4. QED BY <3>2, <3>3
  <2>8. QED BY <2>1, <2>5, <2>7
<1>5. Bien(Len(s))
  <2> HIDE DEF T
  <2>1. \A k \in 0 .. Len(s) : k \in T
    BY <1>1, <1>3, <1>4, HastaN
  <2>2. Len(s) \in T
    BY <1>1, <2>1
  <2>3. QED BY <2>2 DEF T
<1>6. \A b \in Nat : (\E i \in 1 .. Len(s) : en(b, i)) <=> b \in dir .. dir + n - 1
  <2>1. SUFFICES ASSUME NEW b \in Nat
                 PROVE  (\E i \in 1 .. Len(s) : en(b, i)) <=> b \in dir .. dir + n - 1
    OBVIOUS
  <2>2. ASSUME NEW i \in 1 .. Len(s), en(b, i)
        PROVE  b \in dir .. dir + n - 1
    <3>1. dir <= s[i].dir /\ s[i].dir + s[i].tam <= dir + n /\ s[i].dir \in Nat /\ s[i].tam \in Nat
      BY <1>1 DEF Cubren
    <3>2. QED BY <2>2, <3>1
  <2>3. b \in dir .. dir + n - 1 => \E i \in 1 .. Len(s) : en(b, i)
    BY DEF Cubren
  <2> HIDE DEF en
  <2>4. QED BY <2>2, <2>3
<1> HIDE DEF en
<1>7. \A q \in Procesos : \A b \in 0 .. Hasta(q) - 1 : b \in Nat
  OBVIOUS
<1>8. EscribirTrozos(dirs, datos) = g[Len(s)]
  BY <1>0, <1>2
<1>9. QED BY <1>5, <1>6, <1>7, <1>8 DEF Cambiada

\* Reading the pieces gives the bytes of the process.
LEMMA Leido ==
    ASSUME TypeOK, NEW p \in Procesos, NEW dir \in Nat, NEW n \in Nat, NEW s,
           Cubren(s, dir, n), EnUnaPagina(s), EnElEspacio(p, s),
           NEW dirs, Puestos(p, s, dirs)
    PROVE  LeerTrozos(dirs, s, dir, n) = [j \in 1 .. n |-> memoria[Lugar(p, dir + j - 1)]]
<1>1. /\ Hasta(p) \in Nat /\ Len(s) \in Nat
      /\ \A k \in 1 .. Len(s) :
            /\ s[k].dir \in Nat /\ s[k].tam \in Nat /\ s[k].dir < Hasta(p)
            /\ (s[k].dir % TamPagina) + s[k].tam <= TamPagina
  BY Abarcan
<1>2. ASSUME NEW k \in 1 .. Len(s), NEW a \in Nat, s[k].dir <= a, a < s[k].dir + s[k].tam
      PROVE  Lugar(p, a) = dirs[k] + a - s[k].dir
  <2> DEFINE d == s[k].dir
             t == s[k].tam
  <2>1. /\ d \in Nat /\ t \in Nat /\ d < Hasta(p) /\ (d % TamPagina) + t <= TamPagina
        /\ d <= a /\ a < d + t /\ dirs[k] = Lugar(p, d)
    BY <1>1, <1>2 DEF Puestos
  <2> HIDE DEF d, t
  <2>2. TamPagina \in Nat /\ d % TamPagina \in Nat
    BY <2>1, Constantes, Division
  <2>3. a - d \in Nat /\ d + (a - d) = a /\ (d % TamPagina) + (a - d) < TamPagina
    BY <2>1, <2>2
  <2>4. Lugar(p, d + (a - d)) = Lugar(p, d) + (a - d) /\ Lugar(p, d) \in Nat
    BY <2>1, <2>3, Seguidas
  <2>5. Lugar(p, d) + (a - d) = Lugar(p, d) + a - d
    BY <2>1, <2>4
  <2>6. QED BY <2>1, <2>3, <2>4, <2>5 DEF d
<1> DEFINE trozo(a) == CHOOSE k \in DOMAIN s : s[k].dir <= a /\ a < s[k].dir + s[k].tam
<1>3. DOMAIN s = 1 .. Len(s)
  BY LenProperties DEF Cubren
<1>4. ASSUME NEW j \in 1 .. n
      PROVE  dirs[trozo(dir + j - 1)] + (dir + j - 1) - s[trozo(dir + j - 1)].dir =
                Lugar(p, dir + j - 1)
  <2> DEFINE a == dir + j - 1
  <2>1. a \in Nat /\ a \in dir .. dir + n - 1
    OBVIOUS
  <2> HIDE DEF a
  <2>2. \E k \in 1 .. Len(s) : s[k].dir <= a /\ a < s[k].dir + s[k].tam
    BY <2>1 DEF Cubren
  <2>3. trozo(a) \in 1 .. Len(s) /\ s[trozo(a)].dir <= a /\ a < s[trozo(a)].dir + s[trozo(a)].tam
    BY <1>3, <2>2
  <2> HIDE DEF trozo
  <2>4. Lugar(p, a) = dirs[trozo(a)] + a - s[trozo(a)].dir
    BY <1>2, <2>1, <2>3
  <2>5. QED BY <2>4 DEF a
<1>5. LeerTrozos(dirs, s, dir, n) =
        [j \in 1 .. n |-> memoria[dirs[trozo(dir + j - 1)] + (dir + j - 1) - s[trozo(dir + j - 1)].dir]]
  BY DEF LeerTrozos
<1> HIDE DEF trozo
<1>6. QED BY <1>4, <1>5

\* The places of the pieces of a copy, from where it reads and where it writes.
DeAqui(p, s, dirs, de, a) ==
    /\ Len(s) \div 2 = Len(de)
    /\ \A k \in 1 .. Len(de) :
        /\ dirs[2 * k - 1] = Lugar(p, de[k].dir) /\ dirs[2 * k] = Lugar(p, a[k].dir)
        /\ s[2 * k].tam = a[k].tam

\* Copying piece by piece copies the bytes of the process, if what is still to
\* be read is not written before.
LEMMA Copiado ==
    ASSUME TypeOK, MarcosPropios, NEW p \in Procesos,
           NEW si \in Nat, NEW di \in Nat, NEW n \in Nat, n > 0,
           di <= si \/ si + n <= di, Encaja(si, n), Encaja(di, n),
           EnElEspacio(p, CortarPorTamanio(si, n)), EnElEspacio(p, CortarPorTamanio(di, n)),
           NEW s, NEW dirs, DeAqui(p, s, dirs, CortarPorTamanio(si, n), CortarPorTamanio(di, n)),
           NEW leidos, leidos = [k \in 1 .. n |-> memoria[Lugar(p, si + k - 1)]]
    PROVE  Cambiada(CopiarTrozos(dirs, s), p, di, n, leidos)
<1>0. PICK m \in Nat :
        /\ m = Len(CortarPorTamanio(si, n)) /\ Len(s) \div 2 = m
        /\ \A k \in 1 .. m :
             /\ dirs[2 * k - 1] = Lugar(p, CortarPorTamanio(si, n)[k].dir)
             /\ dirs[2 * k] = Lugar(p, CortarPorTamanio(di, n)[k].dir)
             /\ s[2 * k].tam = CortarPorTamanio(di, n)[k].tam
  <2> DEFINE de == CortarPorTamanio(si, n)
             a == CortarPorTamanio(di, n)
  <2>1. Len(de) \in Nat
    BY PorTamanio, LenProperties DEF Cubren
  <2> HIDE DEF de, a
  <2>2. QED BY <2>1 DEF DeAqui, de, a
<1> DEFINE T == TamPagina
           de == CortarPorTamanio(si, n)
           a == CortarPorTamanio(di, n)
           w(k) == IF k = m THEN n - (k - 1) * T ELSE T
           antes(k) == (k - 1) * T
<1>1. T \in Nat /\ T > 0 /\ \A k \in 1 .. m : antes(k) \in Nat
  BY Constantes
<1>2. /\ Cubren(de, si, n) /\ EnUnaPagina(de) /\ Len(de) = m
      /\ \A k \in 1 .. m : de[k].dir = si + antes(k) /\ de[k].tam = w(k)
  <2>1. /\ Cubren(de, si, n) /\ EnUnaPagina(de)
        /\ \A k \in 1 .. Len(de) :
              /\ de[k].dir = si + (k - 1) * T
              /\ de[k].tam = IF k = Len(de) THEN n - (k - 1) * T ELSE T
    BY PorTamanio
  <2> HIDE DEF de
  <2>2. QED BY <1>0, <2>1 DEF de
<1>3. /\ Cubren(a, di, n) /\ EnUnaPagina(a) /\ Len(a) = m
      /\ \A k \in 1 .. m : a[k].dir = di + antes(k) /\ a[k].tam = w(k)
  <2>1. /\ Cubren(a, di, n) /\ EnUnaPagina(a) /\ Len(a) = Mayor(1, Paginas(n))
        /\ \A k \in 1 .. Len(a) :
              /\ a[k].dir = di + (k - 1) * T
              /\ a[k].tam = IF k = Len(a) THEN n - (k - 1) * T ELSE T
    BY PorTamanio
  <2>2. Len(de) = Mayor(1, Paginas(n))
    BY PorTamanio
  <2>3. Len(a) = m
    BY <1>0, <2>1, <2>2
  <2> HIDE DEF a, de
  <2>4. QED BY <2>1, <2>3
<1>4. /\ Hasta(p) \in Nat
      /\ \A k \in 1 .. m :
            /\ w(k) \in Nat /\ w(k) <= T
            /\ si + antes(k) < Hasta(p) /\ ((si + antes(k)) % T) + w(k) <= T
            /\ di + antes(k) < Hasta(p) /\ ((di + antes(k)) % T) + w(k) <= T
            /\ antes(k) + w(k) <= n
  <2>1. /\ Hasta(p) \in Nat
        /\ \A k \in 1 .. Len(de) :
              /\ de[k].tam \in Nat /\ de[k].dir < Hasta(p) /\ (de[k].dir % T) + de[k].tam <= T
    BY <1>2, Abarcan
  <2>2. \A k \in 1 .. Len(a) : a[k].dir < Hasta(p) /\ (a[k].dir % T) + a[k].tam <= T
    BY <1>3, Abarcan
  <2>3. \A k \in 1 .. m : de[k].dir + de[k].tam <= si + n
    BY <1>2 DEF Cubren
  <2> HIDE DEF de, a, w, antes
  <2>4. SUFFICES ASSUME NEW k \in 1 .. m
                 PROVE  /\ w(k) \in Nat /\ w(k) <= T
                        /\ si + antes(k) < Hasta(p) /\ ((si + antes(k)) % T) + w(k) <= T
                        /\ di + antes(k) < Hasta(p) /\ ((di + antes(k)) % T) + w(k) <= T
                        /\ antes(k) + w(k) <= n
    BY <2>1
  <2>5. /\ w(k) \in Nat /\ antes(k) \in Nat
        /\ si + antes(k) < Hasta(p) /\ ((si + antes(k)) % T) + w(k) <= T
        /\ di + antes(k) < Hasta(p) /\ ((di + antes(k)) % T) + w(k) <= T
        /\ si + antes(k) + w(k) <= si + n
    BY <1>1, <1>2, <1>3, <2>1, <2>2, <2>3
  <2> DEFINE o == (si + antes(k)) % T
             u == (di + antes(k)) % T
  <2>6. o \in Nat
    <3>1. \A x \in Nat : x % T \in Nat
      BY <1>1, Division
    <3>2. si + antes(k) \in Nat
      BY <2>5
    <3>3. QED BY <3>1, <3>2
  <2>7. /\ w(k) \in Nat /\ antes(k) \in Nat
        /\ si + antes(k) < Hasta(p) /\ o + w(k) <= T
        /\ di + antes(k) < Hasta(p) /\ u + w(k) <= T
        /\ si + antes(k) + w(k) <= si + n
    BY <2>5
  <2> HIDE DEF o, u
  <2>8. w(k) <= T /\ antes(k) + w(k) <= n
    BY <1>1, <2>6, <2>7
  <2>9. QED BY <2>7, <2>8 DEF o, u
<1>5. PICK g : /\ g[0] = memoria
               /\ \A k \in 1 .. m : g[k] = Escribir(g[k - 1], dirs[2 * k],
                                             Leer(g[k - 1], dirs[2 * k - 1], s[2 * k].tam))
               /\ CopiarTrozos(dirs, s) = g[m]
  <2>1. Len(s) \div 2 \in Nat
    OBVIOUS
  <2>2. \E g : /\ g[0] = memoria
               /\ \A k \in 1 .. Len(s) \div 2 :
                     g[k] = Escribir(g[k - 1], dirs[2 * k],
                                     Leer(g[k - 1], dirs[2 * k - 1], s[2 * k].tam))
               /\ CopiarTrozos(dirs, s) = g[Len(s) \div 2]
    BY <2>1, Copias
  <2>3. QED BY <1>0, <2>2
<1>6. \A k \in 1 .. m : g[k] = Escribir(g[k - 1], Lugar(p, di + antes(k)),
                                 Leer(g[k - 1], Lugar(p, si + antes(k)), w(k)))
  <2> HIDE DEF antes, w
  <2>1. QED BY <1>0, <1>2, <1>3, <1>5
<1> DEFINE en(b, i) == di + antes(i) <= b /\ b < di + antes(i) + w(i)
           Bien(k) ==
             /\ DOMAIN g[k] = Memoria0
             /\ \A q \in Procesos : \A b \in 0 .. Hasta(q) - 1 :
                  g[k][Lugar(q, b)] = IF q = p /\ \E i \in 1 .. k : en(b, i)
                                      THEN memoria[Lugar(p, si + (b - di))] ELSE memoria[Lugar(q, b)]
           K == {k \in Nat : Bien(k)}
<1>7. 0 \in K
  <2>1. DOMAIN memoria = Memoria0
    BY DEF TypeOK, Memoria0
  <2>2. \A b : ~ \E i \in 1 .. 0 : en(b, i)
    OBVIOUS
  <2> HIDE DEF en
  <2>3. QED BY <1>5, <2>1, <2>2
<1>8. ASSUME NEW k \in 0 .. m - 1, k \in K
      PROVE  k + 1 \in K
  <2> DEFINE d == antes(k + 1)
             t == w(k + 1)
             h == g[k]
             bs == Leer(h, Lugar(p, si + d), t)
  <2>1. k \in Nat /\ k + 1 \in 1 .. m /\ (k + 1) - 1 = k
    OBVIOUS
  <2>2. /\ d \in Nat /\ t \in Nat /\ d + t <= n
        /\ si + d < Hasta(p) /\ ((si + d) % T) + t <= T
        /\ di + d < Hasta(p) /\ ((di + d) % T) + t <= T
        /\ g[k + 1] = Escribir(h, Lugar(p, di + d), bs)
    <3> HIDE DEF antes, w
    <3>1. QED BY <1>1, <1>4, <1>6, <2>1
  <2>3. Bien(k)
    BY <1>8
  <2>4. \A i \in 1 .. k : antes(i) \in Nat /\ w(i) \in Nat /\ antes(i) + w(i) <= d
    <3>1. SUFFICES ASSUME NEW i \in 1 .. k
                   PROVE  antes(i) \in Nat /\ w(i) \in Nat /\ antes(i) + w(i) <= d
      OBVIOUS
    <3>2. i \in 1 .. m /\ antes(i) \in Nat /\ w(i) \in Nat /\ w(i) <= T
      <4>1. i \in 1 .. m
        OBVIOUS
      <4> HIDE DEF antes, w
      <4>2. QED BY <1>1, <1>4, <4>1
    <3>3. i * T <= k * T
      BY <2>1, Producto
    <3>4. i * T = antes(i) + T /\ d = k * T /\ k * T \in Nat
      BY <1>1, <2>1, <3>2
    <3> HIDE DEF antes, w, d
    <3>5. QED BY <1>1, <3>2, <3>3, <3>4
  <2>5. \A b : en(b, k + 1) <=> di + d <= b /\ b < di + d + t
    OBVIOUS
  <2>6. \A b \in Int : ~ ((\E i \in 1 .. k : en(b, i)) /\ (b < di \/ di + d <= b))
    <3>1. SUFFICES ASSUME NEW b \in Int, NEW i \in 1 .. k, en(b, i)
                   PROVE  ~ (b < di \/ di + d <= b)
      OBVIOUS
    <3>2. antes(i) \in Nat /\ w(i) \in Nat /\ antes(i) + w(i) <= d
      BY <2>4
    <3>3. di + antes(i) <= b /\ b < di + antes(i) + w(i)
      BY <3>1
    <3>4. b \in Int /\ d \in Nat
      BY <2>2, <3>1
    <3> HIDE DEF antes, w, d
    <3>5. QED BY ONLY <3>2, <3>3, <3>4, di \in Nat
  <2> HIDE DEF en, d, t, h, bs
  <2>7. /\ Len(bs) = t
        /\ \A j \in 1 .. t : /\ (si + d) + (j - 1) \in 0 .. Hasta(p) - 1
                             /\ bs[j] = h[Lugar(p, (si + d) + (j - 1))]
    <3> DEFINE x == si + d
    <3>1. x \in Nat /\ t \in Nat /\ x < Hasta(p) /\ (x % TamPagina) + t <= TamPagina
      BY <2>2
    <3> HIDE DEF x
    <3>2. /\ Len(Leer(h, Lugar(p, x), t)) = t
          /\ \A j \in 1 .. t : /\ x + (j - 1) \in 0 .. Hasta(p) - 1
                               /\ Leer(h, Lugar(p, x), t)[j] = h[Lugar(p, x + (j - 1))]
      BY ONLY <3>1, TypeOK, p \in Procesos, UnaLectura
    <3>3. QED BY <3>2 DEF bs, x
  <2>8. \A j \in 1 .. t : bs[j] = memoria[Lugar(p, (si + d) + (j - 1))]
    <3>1. SUFFICES ASSUME NEW j \in 1 .. t
                   PROVE  bs[j] = memoria[Lugar(p, (si + d) + (j - 1))]
      OBVIOUS
    <3> DEFINE b == (si + d) + (j - 1)
    <3>2. b \in Int /\ (b < di \/ di + d <= b)
      BY <2>2
    <3>3. b \in 0 .. Hasta(p) - 1 /\ bs[j] = h[Lugar(p, b)]
      BY <2>7
    <3> HIDE DEF b
    <3>4. ~ \E i \in 1 .. k : en(b, i)
      BY <2>6, <3>2
    <3>5. g[k][Lugar(p, b)] = memoria[Lugar(p, b)]
      BY <2>3, <3>3, <3>4
    <3>6. QED BY <3>3, <3>5 DEF h, b
  <2>9. /\ DOMAIN g[k + 1] = Memoria0
        /\ \A q \in Procesos : \A b \in 0 .. Hasta(q) - 1 :
              g[k + 1][Lugar(q, b)] =
                IF q = p /\ b \in di + d .. di + d + t - 1 THEN bs[b - (di + d) + 1]
                ELSE g[k][Lugar(q, b)]
    <3>1. DOMAIN h = Memoria0
      BY <2>3 DEF h
    <3>2. di + d \in Nat
      BY <2>2
    <3>3. /\ DOMAIN Escribir(h, Lugar(p, di + d), bs) = Memoria0
          /\ \A q \in Procesos : \A b \in 0 .. Hasta(q) - 1 :
                Escribir(h, Lugar(p, di + d), bs)[Lugar(q, b)] =
                  IF q = p /\ b \in di + d .. di + d + t - 1 THEN bs[b - (di + d) + 1]
                  ELSE h[Lugar(q, b)]
      BY <2>2, <2>7, <3>1, <3>2, UnaEscritura
    <3>4. QED BY <2>2, <3>3 DEF h
  <2>10. \A b : (\E i \in 1 .. k + 1 : en(b, i)) <=> (\E i \in 1 .. k : en(b, i)) \/ en(b, k + 1)
    <3>1. \A i \in 1 .. k + 1 : i \in 1 .. k \/ i = k + 1
      BY <2>1
    <3>2. k + 1 \in 1 .. k + 1 /\ \A i \in 1 .. k : i \in 1 .. k + 1
      BY <2>1
    <3>3. QED BY <3>1, <3>2
  <2>11. ASSUME NEW q \in Procesos, NEW b \in 0 .. Hasta(q) - 1
         PROVE  g[k + 1][Lugar(q, b)] =
                  IF q = p /\ \E i \in 1 .. k + 1 : en(b, i)
                  THEN memoria[Lugar(p, si + (b - di))] ELSE memoria[Lugar(q, b)]
    <3>1. b \in Int
      OBVIOUS
    <3>2. CASE q = p /\ en(b, k + 1)
      <4>1. /\ b \in di + d .. di + d + t - 1 /\ b - (di + d) + 1 \in 1 .. t
            /\ (si + d) + ((b - (di + d) + 1) - 1) = si + (b - di)
        <5>1. di + d <= b /\ b < di + d + t /\ d \in Nat /\ t \in Nat
          BY <2>2, <2>5, <3>2
        <5>2. QED BY ONLY <3>1, <5>1, di \in Nat, si \in Nat
      <4>2. g[k + 1][Lugar(q, b)] = bs[b - (di + d) + 1]
        BY <2>9, <3>2, <4>1
      <4>3. bs[b - (di + d) + 1] = memoria[Lugar(p, (si + d) + ((b - (di + d) + 1) - 1))]
        BY <2>8, <4>1
      <4>4. QED BY <2>10, <3>2, <4>1, <4>2, <4>3
    <3>3. CASE ~ (q = p /\ en(b, k + 1))
      <4>1. ~ (q = p /\ b \in di + d .. di + d + t - 1)
        <5>1. d \in Nat /\ t \in Nat /\ ~ (q = p /\ di + d <= b /\ b < di + d + t)
          BY <2>2, <2>5, <3>3
        <5>2. QED BY ONLY <3>1, <5>1, di \in Nat
      <4>2. g[k + 1][Lugar(q, b)] = g[k][Lugar(q, b)]
        BY <2>9, <4>1
      <4>3. g[k][Lugar(q, b)] = IF q = p /\ \E i \in 1 .. k : en(b, i)
                                THEN memoria[Lugar(p, si + (b - di))] ELSE memoria[Lugar(q, b)]
        BY <2>3
      <4>4. QED BY <2>10, <3>3, <4>2, <4>3
    <3>4. QED BY <3>2, <3>3
  <2>12. Bien(k + 1)
    BY <2>9, <2>11
  <2> HIDE DEF Bien
  <2>13. QED BY <2>1, <2>12
<1>9. Bien(m)
  <2> HIDE DEF K
  <2>1. \A k \in 0 .. m : k \in K
    BY <1>7, <1>8, HastaN
  <2>2. m \in K
    BY <2>1
  <2>3. QED BY <2>2 DEF K
<1>10. \A b \in Nat : (\E i \in 1 .. m : en(b, i)) <=> b \in di .. di + n - 1
  <2>1. SUFFICES ASSUME NEW b \in Nat
                 PROVE  (\E i \in 1 .. m : en(b, i)) <=> b \in di .. di + n - 1
    OBVIOUS
  <2>2. ASSUME NEW i \in 1 .. m, en(b, i)
        PROVE  b \in di .. di + n - 1
    <3>1. antes(i) \in Nat /\ w(i) \in Nat /\ antes(i) + w(i) <= n
      <4> HIDE DEF antes, w
      <4>1. QED BY <1>1, <1>4
    <3>2. di + antes(i) <= b /\ b < di + antes(i) + w(i)
      BY <2>2
    <3> HIDE DEF antes, w
    <3>3. QED BY <3>1, <3>2
  <2>3. ASSUME b \in di .. di + n - 1
        PROVE  \E i \in 1 .. m : en(b, i)
    <3>1. PICK i \in 1 .. Len(a) : a[i].dir <= b /\ b < a[i].dir + a[i].tam
      BY <1>3, <2>3 DEF Cubren
    <3> HIDE DEF a, antes, w
    <3>2. QED BY <1>3, <3>1
  <2> HIDE DEF en
  <2>4. QED BY <2>2, <2>3
<1> HIDE DEF en
<1>11. \A q \in Procesos : \A b \in 0 .. Hasta(q) - 1 : b \in Nat
  OBVIOUS
<1>12. \A b \in di .. di + n - 1 : leidos[b - di + 1] = memoria[Lugar(p, si + (b - di))]
  <2>1. SUFFICES ASSUME NEW b \in di .. di + n - 1
                 PROVE  leidos[b - di + 1] = memoria[Lugar(p, si + (b - di))]
    OBVIOUS
  <2>2. b - di + 1 \in 1 .. n /\ si + (b - di + 1) - 1 = si + (b - di)
    OBVIOUS
  <2>3. leidos[b - di + 1] = memoria[Lugar(p, si + (b - di + 1) - 1)]
    BY <2>2
  <2>4. QED BY <2>2, <2>3
<1>13. ASSUME NEW q \in Procesos, NEW b \in 0 .. Hasta(q) - 1
       PROVE  CopiarTrozos(dirs, s)[Lugar(q, b)] =
                IF q = p /\ b \in di .. di + n - 1 THEN leidos[b - di + 1] ELSE memoria[Lugar(q, b)]
  <2>1. b \in Nat
    BY <1>11
  <2>2. CopiarTrozos(dirs, s)[Lugar(q, b)] =
           IF q = p /\ \E i \in 1 .. m : en(b, i)
           THEN memoria[Lugar(p, si + (b - di))] ELSE memoria[Lugar(q, b)]
    BY <1>5, <1>9
  <2>3. (\E i \in 1 .. m : en(b, i)) <=> b \in di .. di + n - 1
    BY <1>10, <2>1
  <2>4. b \in di .. di + n - 1 => leidos[b - di + 1] = memoria[Lugar(p, si + (b - di))]
    BY <1>12
  <2>5. QED BY <2>2, <2>3, <2>4
<1>14. QED BY <1>13 DEF Cambiada

\* The addresses and the bytes that Maquina sees.
LEMMA LoQueVe ==
    ASSUME NEW p \in Procesos
    PROVE  /\ Espacios[p] = [a \in 0 .. Hasta(p) - 1 |-> memoria[Lugar(p, a)]]
           /\ \A dir, n : M!Tiene(p, dir, n) <=> \A a \in dir .. dir + n - 1 : a \in 0 .. Hasta(p) - 1
           /\ \A dir \in Nat, n \in Nat : M!Tiene(p, dir, n) =>
                M!Leer(p, dir, n) = [k \in 1 .. n |-> memoria[Lugar(p, dir + k - 1)]]
<1>1. Espacio(p) = [a \in 0 .. Hasta(p) - 1 |-> memoria[Lugar(p, a)]]
  BY DEF Espacio, Hasta, Lugar
<1>2. Espacios[p] = Espacio(p)
  BY DEF Espacios
<1>3. \A dir, n : M!Tiene(p, dir, n) <=> dir .. dir + n - 1 \subseteq 0 .. Hasta(p) - 1
  BY <1>1 DEF M!Tiene
<1>4. ASSUME NEW dir \in Nat, NEW n \in Nat, M!Tiene(p, dir, n)
      PROVE  M!Leer(p, dir, n) = [k \in 1 .. n |-> memoria[Lugar(p, dir + k - 1)]]
  <2>1. M!Leer(p, dir, n) = [k \in 1 .. n |-> Espacio(p)[dir + k - 1]]
    BY DEF M!Leer
  <2>2. \A k \in 1 .. n : dir + k - 1 \in dir .. dir + n - 1
    OBVIOUS
  <2>3. \A k \in 1 .. n : dir + k - 1 \in 0 .. Hasta(p) - 1
    BY <1>3, <1>4, <2>2
  <2>4. \A k \in 1 .. n : Espacio(p)[dir + k - 1] = memoria[Lugar(p, dir + k - 1)]
    BY <1>1, <2>3
  <2>5. QED BY <2>1, <2>4
<1>5. QED BY <1>1, <1>2, <1>3, <1>4

\* If only those bytes of that process change, the step writes them in its space.
LEMMA NuevoEspacio ==
    ASSUME UNCHANGED tabla, NEW p \in Procesos, NEW dir, NEW bs,
           Cambiada(memoria', p, dir, Len(bs), bs)
    PROVE  M!Escribir(p, dir, bs)
<1> DEFINE nuevo(q) == [b \in 0 .. Hasta(q) - 1 |-> memoria'[Lugar(q, b)]]
           viejo(q) == [b \in 0 .. Hasta(q) - 1 |-> memoria[Lugar(q, b)]]
           escrito == [b \in 0 .. Hasta(p) - 1 |->
                         IF b \in dir .. dir + Len(bs) - 1 THEN bs[b - dir + 1] ELSE viejo(p)[b]]
<1>0. \A q \in Procesos : \A b \in 0 .. Hasta(q) - 1 :
         memoria'[Lugar(q, b)] = IF q = p /\ b \in dir .. dir + Len(bs) - 1
                                 THEN bs[b - dir + 1] ELSE memoria[Lugar(q, b)]
  BY DEF Cambiada
<1>1. \A q \in Procesos : Espacio(q) = viejo(q) /\ (Espacio(q))' = nuevo(q)
  BY DEF Espacio, Hasta, Lugar
<1>2. \A q \in Procesos \ {p} : nuevo(q) = viejo(q)
  BY <1>0
<1>3. nuevo(p) = escrito
  BY <1>0
<1>4. Espacios' = [q \in Procesos |-> nuevo(q)] /\ Espacios = [q \in Procesos |-> viejo(q)]
  BY <1>1 DEF Espacios
<1>5. DOMAIN viejo(p) = 0 .. Hasta(p) - 1
  OBVIOUS
<1> HIDE DEF nuevo, viejo
<1>6. Espacios' = [Espacios EXCEPT ![p] = escrito]
  BY <1>2, <1>3, <1>4
<1>7. escrito = [b \in DOMAIN Espacios[p] |->
                    IF b \in dir .. dir + Len(bs) - 1 THEN bs[b - dir + 1] ELSE Espacios[p][b]]
  BY <1>4, <1>5
<1> HIDE DEF escrito
<1>8. Espacios' = [Espacios EXCEPT ![p] =
         [b \in DOMAIN @ |-> IF b \in dir .. dir + Len(bs) - 1 THEN bs[b - dir + 1] ELSE @[b]]]
  BY <1>6, <1>7
<1>9. QED BY <1>8 DEF M!Escribir, Espacios

\* With PC at 10, what JNZ takes as the register is PC.
LEMMA DiezEsPC ==
    ASSUME NEW b \in Banco, NEW r \in Registros, NEW n
    PROVE  LET c == SET(b, "PC", 10)
           IN  JNZ(c, r, n) = M!SaltoA(c, r, n)
<1> DEFINE c == SET(b, "PC", 10)
<1>1. c["PC"] = Bytes(10, 4)
  BY Nombres DEF SET, TamanioRegistro, Banco
<1>2. Bytes(10, 4) = [k \in 1 .. 4 |-> (10 \div Peso[k]) % 256]
  BY DEF Bytes
<1>3. Len(Bytes(10, 4)) = 4
  BY BytesTipo
<1>4. /\ Peso[1] = 1 /\ Peso[2] = 256 /\ Peso[3] = 65536 /\ Peso[4] = 16777216
  BY DEF Peso
<1>5. /\ Bytes(10, 4)[1] = 10 /\ Bytes(10, 4)[2] = 0
      /\ Bytes(10, 4)[3] = 0 /\ Bytes(10, 4)[4] = 0
  <2>1. (10 \div 1) % 256 = 10 /\ (10 \div 256) % 256 = 0
        /\ (10 \div 65536) % 256 = 0 /\ (10 \div 16777216) % 256 = 0
    OBVIOUS
  <2>2. QED BY <1>2, <1>4, <2>1
<1>6. Valor(Bytes(10, 4)) = 10
  <2>1. Valor(Bytes(10, 4)) = 10 * 1 + 0 * 256 + 0 * 65536 + 0 * 16777216
    BY <1>3, <1>4, <1>5 DEF Valor
  <2>2. QED BY <2>1
<1>7. Valor(c["PC"]) = 10
  BY <1>1, <1>6
<1>8. Len(Orden) = 11 /\ Orden[11] = "PC"
  BY DEF Orden
<1> HIDE DEF c
<1>9. JNZ(c, r, n) = IF Valor(c[r]) # 0 THEN SET(c, "PC", n) ELSE c
  BY <1>7, <1>8 DEF JNZ
<1>10. M!SaltoA(c, r, n) = IF Valor(c[r]) # 0 THEN SET(c, "PC", n) ELSE c
  BY MismosRegistros DEF M!SaltoA
<1>11. QED BY <1>9, <1>10 DEF c

\* SET, SUM, SUB and JNZ.
LEMMA VeCalcular ==
    ASSUME TypeOK, Calcular, ComoSeEspera
    PROVE  M!Calcular
<1> DEFINE tipos == {"SET", "SUM", "SUB", "JNZ"}
           nuevo == CASE Ins[1] = "SET" -> SET(R, Ins[2], Ins[3])
                      [] Ins[1] = "SUM" -> SUM(R, Ins[2], Ins[3])
                      [] Ins[1] = "SUB" -> SUB(R, Ins[2], Ins[3])
                      [] Ins[1] = "JNZ" -> JNZ(R, Ins[2], Ins[3])
           visto == CASE Ins[1] = "SET" -> SET(R, Ins[2], Ins[3])
                      [] Ins[1] = "SUM" -> SUM(R, Ins[2], Ins[3])
                      [] Ins[1] = "SUB" -> SUB(R, Ins[2], Ins[3])
                      [] Ins[1] = "JNZ" -> M!SaltoA(R, Ins[2], Ins[3])
<1>1. Fetch(tipos) /\ Queda(nuevo) /\ SinMemoria
  BY DEF Calcular
<1>2. /\ ejecuta \in Procesos /\ R \in Banco /\ PC \in Nat /\ EsInstruccion(Ins)
      /\ Ins[1] \in {"SET", "SUM", "SUB", "JNZ"}
  BY <1>1, Decodifica
<1>3. Ins[1] = "JNZ" => JNZ(R, Ins[2], Ins[3]) = M!SaltoA(R, Ins[2], Ins[3])
  <2>1. SUFFICES ASSUME Ins[1] = "JNZ"
                 PROVE  JNZ(R, Ins[2], Ins[3]) = M!SaltoA(R, Ins[2], Ins[3])
    OBVIOUS
  <2>2. Sigue({"JNZ"})
    BY <1>1, <2>1 DEF Fetch, Sigue
  <2>3. Valor(R[Ins[2]]) = 0 \/ PC + 1 = 10
    BY <2>2 DEF ComoSeEspera, Reg
  <2>4. CASE Valor(R[Ins[2]]) = 0
    BY <2>4, MismosRegistros DEF JNZ, M!SaltoA
  <2>5. CASE PC + 1 = 10
    <3>1. R = SET(regs[ejecuta], "PC", 10)
      BY <2>5 DEF R
    <3>2. regs[ejecuta] \in Banco /\ Ins[2] \in Registros
      BY <1>2, <2>1, Palabras DEF TypeOK
    <3>3. QED BY <3>1, <3>2, DiezEsPC
  <2>6. QED BY <2>3, <2>4, <2>5
<1>4. nuevo = visto
  BY <1>3
<1>5. M!Paso(tipos) /\ M!Queda(nuevo)
  BY <1>1, PasoQueda
<1>6. UNCHANGED Espacios
  BY <1>1, MismoEspacio DEF SinMemoria
<1>7. visto = CASE M!Ins[1] = "SET" -> M!SET(M!R, M!Ins[2], M!Ins[3])
                [] M!Ins[1] = "SUM" -> M!SUM(M!R, M!Ins[2], M!Ins[3])
                [] M!Ins[1] = "SUB" -> M!SUB(M!R, M!Ins[2], M!Ins[3])
                [] M!Ins[1] = "JNZ" -> M!SaltoA(M!R, M!Ins[2], M!Ins[3])
  <2>1. M!Ins = Ins /\ M!R = R
    BY MismoCiclo
  <2>2. \A x, y, z : M!SET(x, y, z) = SET(x, y, z) /\ M!SUM(x, y, z) = SUM(x, y, z)
                     /\ M!SUB(x, y, z) = SUB(x, y, z)
    BY MismosRegistros
  <2>3. QED BY <2>1, <2>2
<1> HIDE DEF nuevo, visto
<1>8. QED BY <1>4, <1>5, <1>6, <1>7 DEF M!Calcular, Espacios

\* What the MMU answers is where the process has it.
LEMMA AccesoVisto ==
    ASSUME Servidas, ejecuta \in Procesos, NEW s \in Seq(Trozos)
    PROVE  LET t == Traduccion(s)
           IN  /\ Accede(t, s) =>
                    EnElEspacio(ejecuta, s) /\ \A k \in 1 .. Len(s) : t.dirs[k] = Lugar(ejecuta, s[k].dir)
               /\ (t.falta \/ Sobrepasa(t, s)) /\ EnUnaPagina(s) => ~ EnElEspacio(ejecuta, s)
<1> DEFINE t == Traduccion(s)
<1>1. TypeOK /\ Vigentes /\ estado[ejecuta] # "fin"
  BY ConstantesOK DEF Servidas, Propias, Tipado, Repartidos
<1>2. Respondida(t, s, Len(s))
  BY <1>1, TraduccionRespondida
<1>3. /\ DOMAIN s = 1 .. Len(s) /\ \A k \in 1 .. Len(s) : s[k].dir \in Nat /\ s[k].tam \in Nat
  <2>1. DOMAIN s = 1 .. Len(s) /\ \A k \in 1 .. Len(s) : s[k] \in Trozos
    BY LenProperties, ElementOfSeq
  <2>2. \A x \in Trozos : x.dir \in Nat /\ x.tam \in Nat
    BY DEF Trozos
  <2>3. QED BY <2>1, <2>2
<1>4. \A a \in Nat : Existe(a) <=> a < Hasta(ejecuta)
  BY <1>1, EnTabla DEF Existe
<1>5. \A a : Fisica(a) = Lugar(ejecuta, a)
  BY DEF Fisica, Lugar
<1> HIDE DEF t
<1>6. ASSUME ~ t.falta
      PROVE  EnElEspacio(ejecuta, s) /\ \A k \in 1 .. Len(s) : t.dirs[k] = Lugar(ejecuta, s[k].dir)
  <2>1. \A k \in 1 .. Len(s) : Existe(s[k].dir) /\ t.dirs[k] = Fisica(s[k].dir)
    BY <1>2, <1>6 DEF Respondida
  <2>2. QED BY <1>3, <1>4, <1>5, <2>1 DEF EnElEspacio
<1>7. Accede(t, s) => ~ t.falta
  BY DEF Accede
<1>8. ASSUME t.falta
      PROVE  ~ EnElEspacio(ejecuta, s)
  <2>1. \E j \in 1 .. Len(s) : ~ Existe(s[j].dir)
    BY <1>2, <1>8 DEF Respondida
  <2>2. QED BY <1>3, <1>4, <2>1 DEF EnElEspacio
<1>9. ASSUME ~ t.falta, Sobrepasa(t, s), EnUnaPagina(s)
      PROVE  FALSE
  <2>1. PICK k \in 1 .. Len(s) : t.dirs[k] + s[k].tam > TamMemoria
    BY <1>3, <1>9 DEF Sobrepasa
  <2> DEFINE dir == s[k].dir
             tam == s[k].tam
  <2>2. /\ dir \in Nat /\ tam \in Nat /\ t.dirs[k] = Lugar(ejecuta, dir) /\ Existe(dir)
        /\ (dir % TamPagina) + tam <= TamPagina
    BY <1>2, <1>3, <1>6, <1>9 DEF Respondida, EnUnaPagina
  <2>3. Fisica(dir) \in Nat /\ Fisica(dir) + tam <= TamMemoria
    <3> HIDE DEF dir, tam
    <3>1. QED BY <1>1, <2>2, EnSuMarco
  <2>4. Fisica(dir) + tam > TamMemoria
    BY <1>5, <2>1, <2>2
  <2>5. TamMemoria \in Nat
    BY Constantes
  <2> HIDE DEF dir, tam
  <2>6. QED BY <2>2, <2>3, <2>4, <2>5
<1>10. QED BY <1>6, <1>7, <1>8, <1>9 DEF t

\* If a piece of some byte is out of the space, so is the access.
LEMMA FueraDeSuEspacio ==
    ASSUME TypeOK, NEW p \in Procesos, NEW dir \in Nat, NEW n \in Nat, NEW s,
           Cubren(s, dir, n), \A k \in 1 .. Len(s) : s[k].tam > 0, ~ EnElEspacio(p, s)
    PROVE  ~ M!Tiene(p, dir, n)
<1>1. PICK k \in 1 .. Len(s) : ~ (s[k].dir < Hasta(p))
  BY DEF EnElEspacio
<1>2. s[k].dir \in Nat /\ s[k].tam \in Nat /\ s[k].tam > 0
  <2>1. s[k] \in Trozos
    BY ElementOfSeq DEF Cubren
  <2>2. \A x \in Trozos : x.dir \in Nat /\ x.tam \in Nat
    BY DEF Trozos
  <2>3. QED BY <2>1, <2>2
<1>3. dir <= s[k].dir /\ s[k].dir + s[k].tam <= dir + n
  BY DEF Cubren
<1>4. s[k].dir \in dir .. dir + n - 1
  BY <1>2, <1>3
<1>5. Hasta(p) \in Nat
  BY EnTabla
<1>6. s[k].dir \notin 0 .. Hasta(p) - 1
  BY <1>1, <1>2, <1>5
<1>7. QED BY <1>4, <1>6, LoQueVe

\* MOV_IN reads the bytes of the process.
LEMMA VeMOV_IN ==
    ASSUME Servidas, MOV_IN
    PROVE  M!MOV_IN
<1> DEFINE n == TamanioRegistro(Ins[2])
           dir == Reg(3)
           s == CortarPorPagina(dir, n)
           t == Traduccion(s)
           leido == LeerTrozos(t.dirs, s, dir, n)
<1>1. TypeOK
  BY DEF Servidas, Propias, Tipado
<1>2. /\ Fetch({"MOV_IN"}) /\ Accede(t, s) /\ Queda([R EXCEPT ![Ins[2]] = leido])
      /\ UNCHANGED <<tabla, tamanio, memoria>>
  BY DEF MOV_IN
<1>3. dir \in Nat /\ n \in Nat /\ n > 0 /\ ejecuta \in Procesos
  <2>1. /\ ejecuta \in Procesos /\ R \in Banco /\ EsInstruccion(Ins) /\ Ins[1] \in {"MOV_IN"}
        /\ \A k : Ins[k] \in Registros => Reg(k) \in Nat
    BY <1>1, <1>2, Decodifica
  <2>2. Ins[2] \in Registros /\ Ins[3] \in Registros
    BY <2>1, Palabras
  <2>3. QED BY <2>1, <2>2, AnchoRegistro
<1>4. Cubren(s, dir, n) /\ EnUnaPagina(s) /\ s \in Seq(Trozos)
  <2> HIDE DEF dir, n
  <2>1. Cubren(s, dir, n) /\ EnUnaPagina(s)
    BY <1>3, PorPagina
  <2>2. QED BY <2>1 DEF Cubren
<1>5. EnElEspacio(ejecuta, s) /\ \A k \in 1 .. Len(s) : t.dirs[k] = Lugar(ejecuta, s[k].dir)
  <2> HIDE DEF s
  <2>1. QED BY <1>2, <1>3, <1>4, AccesoVisto
<1> HIDE DEF t, s, n, dir
<1>6. M!Tiene(ejecuta, dir, n)
  <2>1. \A a \in dir .. dir + n - 1 : a \in 0 .. Hasta(ejecuta) - 1
    BY <1>1, <1>3, <1>4, <1>5, Abarcan
  <2>2. QED BY <1>3, <2>1, LoQueVe
<1>7. leido = M!Leer(ejecuta, dir, n)
  <2> DEFINE ds == t.dirs
  <2>1. Puestos(ejecuta, s, ds)
    BY <1>5 DEF Puestos
  <2> HIDE DEF ds
  <2>2. LeerTrozos(ds, s, dir, n) = [j \in 1 .. n |-> memoria[Lugar(ejecuta, dir + j - 1)]]
    BY <1>1, <1>3, <1>4, <1>5, <2>1, Leido
  <2>3. M!Leer(ejecuta, dir, n) = [j \in 1 .. n |-> memoria[Lugar(ejecuta, dir + j - 1)]]
    BY <1>3, <1>6, LoQueVe
  <2>4. QED BY <2>2, <2>3 DEF ds
<1> HIDE DEF leido
<1>8. M!Paso({"MOV_IN"}) /\ M!Queda([R EXCEPT ![Ins[2]] = leido])
  BY <1>2, PasoQueda
<1>9. UNCHANGED Espacios
  BY <1>2, MismoEspacio
<1>10. M!Ins = Ins /\ M!R = R /\ M!Reg(3) = dir /\ M!TamanioRegistro(M!Ins[2]) = n
  BY MismoCiclo, MismosRegistros DEF n, dir
<1>11. QED BY <1>6, <1>7, <1>8, <1>9, <1>10 DEF M!MOV_IN, Espacios

\* MOV_OUT writes them.
LEMMA VeMOV_OUT ==
    ASSUME Servidas, MOV_OUT
    PROVE  M!MOV_OUT
<1> DEFINE dato == R[Ins[3]]
           dir == Reg(2)
           n == Len(dato)
           s == CortarPorPagina(dir, n)
           t == Traduccion(s)
           parte(k) == [j \in 1 .. s[k].tam |-> dato[s[k].dir - dir + j]]
           partes == [k \in DOMAIN s |-> parte(k)]
<1>1. TypeOK /\ MarcosPropios
  BY DEF Servidas, Propias, Tipado, Repartidos
<1>2. /\ Fetch({"MOV_OUT"}) /\ Accede(t, s) /\ Queda(R)
      /\ memoria' = EscribirTrozos(t.dirs, partes) /\ UNCHANGED <<tabla, tamanio>>
  BY DEF MOV_OUT
<1>3. /\ dir \in Nat /\ dato \in Seq(Byte) /\ n \in Nat /\ n > 0 /\ ejecuta \in Procesos
      /\ n = TamanioRegistro(Ins[3])
  <2>1. /\ ejecuta \in Procesos /\ R \in Banco /\ EsInstruccion(Ins) /\ Ins[1] \in {"MOV_OUT"}
        /\ \A k : Ins[k] \in Registros => Reg(k) \in Nat
    BY <1>1, <1>2, Decodifica
  <2>2. Ins[2] \in Registros /\ Ins[3] \in Registros
    BY <2>1, Palabras
  <2>3. QED BY <2>1, <2>2, AnchoRegistro, Bancos
<1> HIDE DEF dato, dir, n
<1>4. Cubren(s, dir, n) /\ EnUnaPagina(s) /\ s \in Seq(Trozos)
  <2>1. Cubren(s, dir, n) /\ EnUnaPagina(s)
    BY <1>3, PorPagina
  <2>2. QED BY <2>1 DEF Cubren
<1> HIDE DEF s
<1>5. EnElEspacio(ejecuta, s) /\ \A k \in 1 .. Len(s) : t.dirs[k] = Lugar(ejecuta, s[k].dir)
  BY <1>2, <1>3, <1>4, AccesoVisto
<1> HIDE DEF t
<1>6. M!Tiene(ejecuta, dir, n)
  <2>1. \A a \in dir .. dir + n - 1 : a \in 0 .. Hasta(ejecuta) - 1
    BY <1>1, <1>3, <1>4, <1>5, Abarcan
  <2>2. QED BY <1>3, <2>1, LoQueVe
<1>7. /\ Len(partes) = Len(s)
      /\ \A k \in 1 .. Len(s) : /\ Len(partes[k]) = s[k].tam
                                /\ \A j \in 1 .. s[k].tam : partes[k][j] = dato[s[k].dir - dir + j]
  <2>1. DOMAIN s = 1 .. Len(s) /\ Len(s) \in Nat
    BY <1>4, LenProperties
  <2>2. ASSUME NEW k \in 1 .. Len(s)
        PROVE  Len(parte(k)) = s[k].tam
    <3>1. s[k] \in Trozos
      BY <1>4, ElementOfSeq
    <3>2. s[k].tam \in Nat
      BY <3>1 DEF Trozos
    <3>3. QED BY <3>2
  <2>3. \A k \in 1 .. Len(s) : \A j \in 1 .. s[k].tam : parte(k)[j] = dato[s[k].dir - dir + j]
    OBVIOUS
  <2> HIDE DEF parte
  <2>4. QED BY <2>1, <2>2, <2>3
<1> HIDE DEF partes
<1>8. Cambiada(memoria', ejecuta, dir, n, dato)
  <2> DEFINE ds == t.dirs
  <2>1. Puestos(ejecuta, s, ds)
    BY <1>5 DEF Puestos
  <2>2. memoria' = EscribirTrozos(ds, partes)
    BY <1>2
  <2>3. PorPartes(s, dir, dato, partes)
    BY <1>7 DEF PorPartes
  <2>4. EnElEspacio(ejecuta, s)
    BY <1>5
  <2> HIDE DEF ds
  <2>5. Cambiada(EscribirTrozos(ds, partes), ejecuta, dir, n, dato)
    BY <1>1, <1>3, <1>4, <2>1, <2>3, <2>4, Escrito
  <2>6. QED BY <2>2, <2>5
<1>9. M!Escribir(ejecuta, dir, dato)
  BY <1>2, <1>3, <1>8, NuevoEspacio DEF n
<1>10. M!Paso({"MOV_OUT"}) /\ M!Queda(R)
  BY <1>2, PasoQueda
<1>11. /\ M!Ins = Ins /\ M!R = R /\ M!Reg(2) = dir /\ M!TamanioRegistro(M!Ins[3]) = n
       /\ M!R[M!Ins[3]] = dato
  BY <1>3, MismoCiclo, MismosRegistros DEF dato, dir
<1>12. QED BY <1>6, <1>9, <1>10, <1>11 DEF M!MOV_OUT

\* COPY_STRING copies them, unless it overtakes itself.
LEMMA VeCOPY_STRING ==
    ASSUME Servidas, EnSuPagina, ComoSeEspera, COPY_STRING
    PROVE  M!COPY_STRING
<1> DEFINE n == Ins[2]
           si == Valor(R["SI"])
           di == Valor(R["DI"])
           de == CortarPorTamanio(si, n)
           a == CortarPorTamanio(di, n)
           s == TrozosCopia(n)
           t == Traduccion(s)
<1>1. TypeOK /\ MarcosPropios
  BY DEF Servidas, Propias, Tipado, Repartidos
<1>2. /\ Fetch({"COPY_STRING"}) /\ Accede(t, s) /\ Queda(R)
      /\ memoria' = CopiarTrozos(t.dirs, s) /\ UNCHANGED <<tabla, tamanio>>
  BY DEF COPY_STRING
<1>3. n \in Nat /\ si \in Nat /\ di \in Nat /\ ejecuta \in Procesos
  <2>1. /\ ejecuta \in Procesos /\ EsInstruccion(Ins) /\ Ins[1] \in {"COPY_STRING"}
        /\ \A r \in Registros : Valor(R[r]) \in Nat
    BY <1>1, <1>2, Decodifica
  <2>2. QED BY <2>1, Palabras, Nombres
<1>4. n > 0 /\ (di <= si \/ si + n <= di) /\ Encaja(si, n) /\ Encaja(di, n)
  <2>1. Sigue({"COPY_STRING"})
    BY <1>2 DEF Fetch, Sigue
  <2>2. QED BY <2>1 DEF EnSuPagina, ComoSeEspera
<1>5. /\ s \in Seq(Trozos) /\ Len(s) = 2 * Len(de) /\ Len(a) = Len(de)
      /\ Len(de) \in Nat /\ Len(s) \div 2 = Len(de)
      /\ \A k \in 1 .. Len(de) : s[2 * k - 1] = de[k] /\ s[2 * k] = a[k]
  BY <1>3, DeAOtra
<1> HIDE DEF n, si, di
<1>6. Cubren(de, si, n) /\ EnUnaPagina(de) /\ Cubren(a, di, n) /\ EnUnaPagina(a)
  BY <1>3, <1>4, PorTamanio
<1> HIDE DEF s, t
<1>7. EnElEspacio(ejecuta, s) /\ \A k \in 1 .. Len(s) : t.dirs[k] = Lugar(ejecuta, s[k].dir)
  BY <1>2, <1>3, <1>5, AccesoVisto DEF t
<1>8. /\ EnElEspacio(ejecuta, de) /\ EnElEspacio(ejecuta, a)
      /\ \A k \in 1 .. Len(de) :
           /\ t.dirs[2 * k - 1] = Lugar(ejecuta, de[k].dir)
           /\ t.dirs[2 * k] = Lugar(ejecuta, a[k].dir)
           /\ s[2 * k].tam = a[k].tam
  <2> HIDE DEF de, a
  <2>1. \A k \in 1 .. Len(de) : 2 * k \in 1 .. Len(s) /\ 2 * k - 1 \in 1 .. Len(s)
    BY <1>5
  <2>2. \A k \in 1 .. Len(de) : de[k].dir < Hasta(ejecuta) /\ a[k].dir < Hasta(ejecuta)
    BY <1>5, <1>7, <2>1 DEF EnElEspacio
  <2>3. QED BY <1>5, <1>7, <2>1, <2>2 DEF EnElEspacio
<1>9. M!Tiene(ejecuta, si, n) /\ M!Tiene(ejecuta, di, n)
  <2> HIDE DEF de, a
  <2>1. /\ \A b \in si .. si + n - 1 : b \in 0 .. Hasta(ejecuta) - 1
        /\ \A b \in di .. di + n - 1 : b \in 0 .. Hasta(ejecuta) - 1
    BY <1>1, <1>3, <1>6, <1>8, Abarcan
  <2>2. QED BY <1>3, <2>1, LoQueVe
<1> DEFINE bs == M!Leer(ejecuta, si, n)
<1>10. bs = [k \in 1 .. n |-> memoria[Lugar(ejecuta, si + k - 1)]]
  BY <1>3, <1>9, LoQueVe
<1> HIDE DEF bs
<1>11. Cambiada(memoria', ejecuta, di, n, bs)
  <2> DEFINE ds == t.dirs
  <2>1. DeAqui(ejecuta, s, ds, de, a)
    BY <1>5, <1>8 DEF DeAqui
  <2>2. memoria' = CopiarTrozos(ds, s)
    BY <1>2
  <2> HIDE DEF ds
  <2>3. Cambiada(CopiarTrozos(ds, s), ejecuta, di, n, bs)
    BY <1>1, <1>3, <1>4, <1>8, <1>10, <2>1, Copiado
  <2>4. QED BY <2>2, <2>3
<1>12. Len(bs) = n
  BY <1>3, <1>10
<1>13. M!Escribir(ejecuta, di, bs)
  BY <1>2, <1>3, <1>11, <1>12, NuevoEspacio
<1>14. M!Paso({"COPY_STRING"}) /\ M!Queda(R)
  BY <1>2, PasoQueda
<1>15. /\ M!Ins[2] = n /\ M!R = R /\ M!Valor(M!R["SI"]) = si /\ M!Valor(M!R["DI"]) = di
  BY MismoCiclo, MismosRegistros DEF n, si, di
<1>16. QED BY <1>9, <1>13, <1>14, <1>15 DEF M!COPY_STRING, bs

\* The addresses of the pages are those below the end of the last one.
LEMMA EnPaginas ==
    ASSUME NEW n \in Nat, NEW a \in Nat
    PROVE  n * TamPagina \in Nat /\ (a < n * TamPagina <=> a \div TamPagina < n)
<1> DEFINE T == TamPagina
           q == a \div T
           o == a % T
<1>1. T \in Nat /\ T > 0 /\ q \in Nat /\ o \in 0 .. T - 1 /\ a = q * T + o
  BY Constantes, Division
<1> HIDE DEF q, o, T
<1>2. n * T \in Nat /\ q * T \in Nat
  BY <1>1
<1>3. ASSUME q < n
      PROVE  a < n * T
  <2>1. (q + 1) * T <= n * T /\ (q + 1) * T = q * T + T
    BY <1>1, <1>3, Producto DEF T
  <2>2. QED BY <1>1, <1>2, <2>1
<1>4. ASSUME ~ (q < n)
      PROVE  ~ (a < n * T)
  <2>1. n * T <= q * T
    BY <1>1, <1>4, Producto DEF T
  <2>2. QED BY <1>1, <1>2, <2>1
<1>5. QED BY <1>2, <1>3, <1>4 DEF q, T

\* A step that changes the pages of the process that executes leaves the others alone.
LEMMA LosDemas ==
    ASSUME TypeOK, NEW nueva, tabla' = [tabla EXCEPT ![ejecuta] = nueva], UNCHANGED memoria
    PROVE  \A p \in Procesos \ {ejecuta} : Espacios'[p] = Espacios[p]
<1>1. \A p \in Procesos \ {ejecuta} : tabla'[p] = tabla[p]
  BY DEF TypeOK
<1>2. \A p \in Procesos \ {ejecuta} : (Espacio(p))' = Espacio(p)
  BY <1>1 DEF Espacio
<1>3. QED BY <1>2 DEF Espacios

\* With as many pages as the size asks for, and the ones there were first, the
\* process has the addresses that it asked for, and the bytes that it had.
LEMMA Redimensionado ==
    ASSUME TypeOK, ejecuta \in Procesos, NEW n \in Nat, NEW nueva \in Seq(Marcos),
           tabla' = [tabla EXCEPT ![ejecuta] = nueva], UNCHANGED memoria,
           Paginas(n) <= Len(nueva),
           \A k \in 1 .. Len(nueva) : k <= Len(tabla[ejecuta]) => nueva[k] = tabla[ejecuta][k]
    PROVE  /\ 0 .. n - 1 \subseteq DOMAIN Espacios'[ejecuta]
           /\ \A a \in DOMAIN Espacios[ejecuta] :
                a < n => Espacios'[ejecuta][a] = Espacios[ejecuta][a]
<1> DEFINE v == tabla[ejecuta]
           T == TamPagina
<1>1. /\ tabla'[ejecuta] = nueva /\ Len(nueva) \in Nat /\ Len(v) \in Nat
      /\ v \in Seq(Marcos)
  <2>1. v \in Seq(Marcos)
    BY DEF TypeOK
  <2>2. QED BY <2>1, LenProperties DEF TypeOK
<1>2. Espacios[ejecuta] = [a \in 0 .. Len(v) * T - 1 |-> memoria[v[a \div T + 1] * T + (a % T)]]
  BY DEF Espacios, Espacio
<1>3. Espacios'[ejecuta] =
        [a \in 0 .. Len(nueva) * T - 1 |-> memoria[nueva[a \div T + 1] * T + (a % T)]]
  BY <1>1 DEF Espacios, Espacio
<1>4. \A a \in 0 .. n - 1 : a \in 0 .. Len(nueva) * T - 1
  <2>1. n <= Paginas(n) * T /\ Paginas(n) \in Nat
    BY Hojas
  <2>2. Paginas(n) * T <= Len(nueva) * T
    BY <1>1, <2>1, Producto
  <2>3. T \in Nat /\ Paginas(n) * T \in Nat /\ Len(nueva) * T \in Nat
    BY <1>1, <2>1, Constantes
  <2> HIDE DEF T
  <2>4. QED BY <2>1, <2>2, <2>3
<1>5. ASSUME NEW a \in 0 .. Len(v) * T - 1, a < n
      PROVE  Espacios'[ejecuta][a] = Espacios[ejecuta][a]
  <2>1. a \in Nat /\ a \in 0 .. n - 1 /\ a \in 0 .. Len(nueva) * T - 1
    BY <1>4, <1>5
  <2>2. a < Len(v) * T /\ a < Len(nueva) * T
    <3>1. Len(v) * T \in Nat /\ Len(nueva) * T \in Nat
      BY <1>1, Constantes
    <3> HIDE DEF T, v
    <3>2. QED BY <2>1, <3>1
  <2>3. a \div T < Len(v) /\ a \div T < Len(nueva) /\ a \div T \in Nat
    <3>1. a \div T < Len(v) /\ a \div T < Len(nueva)
      BY <1>1, <2>1, <2>2, EnPaginas
    <3>2. QED BY <2>1, <3>1, Division
  <2> DEFINE k == a \div T + 1
  <2>4. k \in 1 .. Len(nueva) /\ k <= Len(v)
    BY <1>1, <2>3
  <2>5. nueva[k] = v[k]
    BY <2>4
  <2> HIDE DEF v
  <2>6. QED BY <1>2, <1>3, <1>5, <2>1, <2>5
<1> HIDE DEF v, T
<1>6. DOMAIN Espacios[ejecuta] = 0 .. Len(v) * T - 1
      /\ DOMAIN Espacios'[ejecuta] = 0 .. Len(nueva) * T - 1
  BY <1>2, <1>3
<1>7. QED BY <1>4, <1>5, <1>6

\* A RESIZE, of more pages or of less.
LEMMA VeRESIZE ==
    ASSUME Servidas, Ampliar \/ Reducir
    PROVE  M!RESIZE
<1>1. Tipado /\ TypeOK /\ Repartidos /\ Fetch({"RESIZE"})
  BY DEF Servidas, Propias, Tipado, Ampliar, Reducir
<1>2. ejecuta \in Procesos
  BY <1>1, Decodifica
<1>3. PICK nueva \in Seq(Marcos) :
        /\ Redimensionar(nueva) /\ Ins[2] \in Nat /\ Paginas(Ins[2]) <= Len(nueva)
        /\ \A k \in 1 .. Len(nueva) : k <= Len(tabla[ejecuta]) => nueva[k] = tabla[ejecuta][k]
  <2>1. CASE Ampliar
    <3> DEFINE nueva == tabla[ejecuta] \o Asignar
    <3>1. /\ nueva \in Seq(Marcos) /\ Paginas(Ins[2]) <= Len(nueva)
          /\ \A k \in 1 .. Len(tabla[ejecuta]) : nueva[k] = tabla[ejecuta][k]
      BY <1>1, <1>2, <2>1, TablaCrece
    <3>2. Redimensionar(nueva) /\ Ins[2] \in 0 .. TamMemoria
      BY <1>1, <2>1, Crece
    <3>3. tabla[ejecuta] \in Seq(Marcos)
      BY <1>1, <1>2 DEF TypeOK
    <3>4. Len(tabla[ejecuta]) \in Nat /\ Len(nueva) \in Nat
      BY <3>1, <3>3, LenProperties
    <3> HIDE DEF nueva
    <3>5. \A k \in 1 .. Len(nueva) : k <= Len(tabla[ejecuta]) => k \in 1 .. Len(tabla[ejecuta])
      BY <3>4
    <3>6. QED BY <3>1, <3>2, <3>5
  <2>2. CASE Reducir
    <3> DEFINE nueva == SubSeq(tabla[ejecuta], 1, Len(tabla[ejecuta]) + AAgregar)
    <3>1. /\ nueva \in Seq(Marcos) /\ Paginas(Ins[2]) <= Len(nueva)
          /\ \A k \in 1 .. Len(nueva) : nueva[k] = tabla[ejecuta][k]
      BY <1>1, <1>2, <2>2, TablaEncoge
    <3>2. Redimensionar(nueva) /\ Ins[2] \in 0 .. TamMemoria
      BY <1>1, <2>2, Encoge
    <3> HIDE DEF nueva
    <3>3. QED BY <3>1, <3>2
  <2>3. QED BY <2>1, <2>2
<1>4. tabla' = [tabla EXCEPT ![ejecuta] = nueva] /\ UNCHANGED memoria /\ Queda(R)
  BY <1>3 DEF Redimensionar
<1>5. M!Paso({"RESIZE"}) /\ M!Queda(R)
  BY <1>1, <1>4, PasoQueda
<1>6. \A p \in Procesos \ {ejecuta} : Espacios'[p] = Espacios[p]
  BY <1>1, <1>4, LosDemas
<1>7. /\ 0 .. Ins[2] - 1 \subseteq DOMAIN Espacios'[ejecuta]
      /\ \A a \in DOMAIN Espacios[ejecuta] :
           a < Ins[2] => Espacios'[ejecuta][a] = Espacios[ejecuta][a]
  BY <1>1, <1>2, <1>3, <1>4, Redimensionado
<1>8. M!R = R /\ M!Ins = Ins /\ DOMAIN Espacios = Procesos
  BY MismoCiclo DEF Espacios
<1>9. QED BY <1>5, <1>6, <1>7, <1>8 DEF M!RESIZE, Espacios

\* EXIT, and a RESIZE that asks for more than the memory has.
LEMMA VeTerminar ==
    ASSUME TypeOK, SinEspacio \/ EXIT
    PROVE  M!Terminar
<1>1. PICK tipos \in {{"RESIZE"}, {"EXIT"}} : Fetch(tipos) /\ Salir
  BY DEF SinEspacio, EXIT
<1>2. ejecuta \in Procesos
  BY <1>1, Decodifica
<1>3. Deja("fin", Ninguno) /\ tabla' = [tabla EXCEPT ![ejecuta] = <<>>] /\ UNCHANGED memoria
  BY <1>1 DEF Salir
<1>4. M!Paso(tipos) /\ M!Deja("fin", De(Ninguno))
  BY <1>1, <1>2, <1>3, PasoDeja
<1>5. M!Paso({"EXIT", "RESIZE"})
  BY <1>1, <1>4 DEF M!Paso
<1>6. De(Ninguno) = M!Nada
  BY MismoCiclo DEF De, Ninguno
<1>7. \A p \in Procesos \ {ejecuta} : Espacios'[p] = Espacios[p]
  BY <1>3, LosDemas
<1>8. DOMAIN Espacios = Procesos
  BY DEF Espacios
<1>9. QED BY <1>4, <1>5, <1>6, <1>7, <1>8 DEF M!Terminar, Espacios

\* What asks a device for bytes asks for those of the process.
LEMMA VePedirAcceso ==
    ASSUME Servidas, EnSuPagina, PedirAcceso
    PROVE  M!PedirAcceso
<1> DEFINE tipos == Textos \cup Salidas
           l == Donde
           dir == Reg(l)
           n == Reg(l + 1)
           s == CortarPorTamanio(dir, n)
           t == Traduccion(s)
<1>1. TypeOK /\ Fetch(tipos) /\ UNCHANGED <<tabla, tamanio, memoria>>
  BY DEF Servidas, Propias, Tipado, PedirAcceso
<1>2. ejecuta \in Procesos /\ Ins[1] \in tipos /\ EsInstruccion(Ins)
  BY <1>1, Decodifica
<1>3. dir \in Nat /\ n \in Nat /\ Accede(t, s)
  BY <1>1, UnPedido
<1>4. PICK puntero \in Nat :
        /\ Deja("bloqueado", Pedir(Ins[1], dir, n, puntero))
        /\ Ins[1] \in {"IO_STDIN_READ", "IO_STDOUT_WRITE"} => puntero = 0
        /\ Ins[1] \in {"IO_FS_READ", "IO_FS_WRITE"} => puntero = Reg(6)
  BY <1>1, UnPedido
<1>5. Encaja(dir, n)
  <2>1. Sigue(tipos)
    BY <1>1 DEF Fetch, Sigue
  <2>2. QED BY <2>1 DEF EnSuPagina
<1>6. puntero = IF Len(Ins) = 6 THEN Reg(6) ELSE 0
  <2>1. \/ Ins[1] \in {"IO_STDIN_READ", "IO_STDOUT_WRITE"}
        \/ Ins[1] \in {"IO_FS_READ", "IO_FS_WRITE"}
    BY <1>2 DEF Textos, Salidas
  <2>2. ASSUME Ins[1] \in {"IO_STDIN_READ", "IO_STDOUT_WRITE"}
        PROVE  puntero = IF Len(Ins) = 6 THEN Reg(6) ELSE 0
    <3>1. Len(Ins) = 4
      BY <1>2, <2>2, Palabras
    <3>2. QED BY <1>4, <2>2, <3>1
  <2>3. ASSUME Ins[1] \in {"IO_FS_READ", "IO_FS_WRITE"}
        PROVE  puntero = IF Len(Ins) = 6 THEN Reg(6) ELSE 0
    <3>1. Len(Ins) = 6
      BY <1>2, <2>3, Palabras
    <3>2. QED BY <1>4, <2>3, <3>1
  <2>4. QED BY <2>1, <2>2, <2>3
<1> HIDE DEF dir, n
<1>7. Cubren(s, dir, n) /\ EnUnaPagina(s) /\ s \in Seq(Trozos)
  <2>1. Cubren(s, dir, n) /\ EnUnaPagina(s)
    BY <1>3, <1>5, PorTamanio
  <2>2. QED BY <2>1 DEF Cubren
<1>8. De(Pedir(Ins[1], dir, n, puntero)) =
        [op |-> Ins[1], dir |-> dir, tam |-> n, puntero |-> puntero]
  BY DEF De, Pedir
<1> HIDE DEF s, t
<1>9. M!Tiene(ejecuta, dir, n)
  <2>1. EnElEspacio(ejecuta, s)
    BY <1>2, <1>3, <1>7, AccesoVisto DEF t
  <2>2. \A a \in dir .. dir + n - 1 : a \in 0 .. Hasta(ejecuta) - 1
    BY <1>1, <1>2, <1>3, <1>7, <2>1, Abarcan
  <2>3. QED BY <1>2, <2>2, LoQueVe
<1>10. PICK ped : ped = Pedir(Ins[1], dir, n, puntero)
  OBVIOUS
<1>11. M!Paso(tipos) /\ M!Deja("bloqueado", De(ped))
  <2>1. Deja("bloqueado", ped)
    BY <1>4, <1>10
  <2> HIDE DEF tipos
  <2>2. QED BY <1>1, <1>2, <2>1, PasoDeja
<1>12. M!Paso({"IO_STDIN_READ", "IO_STDOUT_WRITE", "IO_FS_READ", "IO_FS_WRITE"})
  BY <1>11 DEF M!Paso, Textos, Salidas
<1>13. UNCHANGED Espacios
  BY <1>1, MismoEspacio
<1> DEFINE k == IF Len(M!Ins) = 6 THEN 4 ELSE 3
           p == IF Len(M!Ins) = 6 THEN M!Reg(6) ELSE 0
<1>14. M!Ins = Ins /\ \A i : M!Reg(i) = Reg(i)
  BY MismoCiclo
<1>15. k = l /\ M!Reg(k) = dir /\ M!Reg(k + 1) = n /\ p = puntero
  BY <1>6, <1>14 DEF Donde, dir, n
<1>16. De(ped) = [op |-> M!Ins[1], dir |-> M!Reg(k), tam |-> M!Reg(k + 1), puntero |-> p]
  BY <1>8, <1>10, <1>14, <1>15
<1>17. M!Tiene(ejecuta, M!Reg(k), M!Reg(k + 1))
  BY <1>9, <1>15
<1> DEFINE pide == [op |-> M!Ins[1], dir |-> M!Reg(k), tam |-> M!Reg(k + 1), puntero |-> p]
<1>18. M!Deja("bloqueado", pide)
  <2> HIDE DEF pide
  <2>1. De(ped) = pide
    BY <1>16 DEF pide
  <2>2. QED BY <1>11, <2>1 DEF M!Deja
<1>19. QED BY <1>12, <1>13, <1>17, <1>18 DEF M!PedirAcceso, Espacios

\* The rest of what the process asks of the kernel.
LEMMA VePedirOtro ==
    ASSUME TypeOK, PedirIO \/ Recurso
    PROVE  M!PedirOtro
<1> DEFINE tipos == {"IO_GEN_SLEEP", "IO_FS_CREATE", "IO_FS_DELETE", "IO_FS_TRUNCATE", "WAIT", "SIGNAL"}
<1>1. UNCHANGED Espacios
  <2>1. UNCHANGED <<tabla, memoria>>
    BY DEF PedirIO, Recurso, SinMemoria
  <2>2. QED BY <2>1, MismoEspacio
<1>2. M!Ins = Ins /\ M!R = R /\ \A k : M!Reg(k) = Reg(k)
  BY MismoCiclo
<1>3. CASE PedirIO
  <2> DEFINE deIO == {"IO_GEN_SLEEP", "IO_FS_CREATE", "IO_FS_DELETE", "IO_FS_TRUNCATE"}
             largo == IF Ins[1] = "IO_FS_TRUNCATE" THEN Reg(4) ELSE 0
  <2>1. Fetch(deIO)
    BY <1>3 DEF PedirIO
  <2>2. PICK ped : ped = [op |-> Ins[1], trozos |-> <<>>, dir |-> 0, puntero |-> 0, tam |-> largo]
    OBVIOUS
  <2>3. Deja("bloqueado", ped)
    BY <1>3, <2>2 DEF PedirIO
  <2>4. ejecuta \in Procesos /\ Ins[1] \in deIO
    BY <2>1, Decodifica
  <2>5. M!Paso(deIO) /\ M!Deja("bloqueado", De(ped))
    <3> HIDE DEF deIO
    <3>1. QED BY <2>1, <2>3, <2>4, PasoDeja
  <2>6. M!Paso(tipos)
    BY <2>5 DEF M!Paso
  <2> DEFINE pide == [op |-> M!Ins[1], dir |-> 0, puntero |-> 0,
                      tam |-> IF M!Ins[1] = "IO_FS_TRUNCATE" THEN M!Reg(4) ELSE 0]
  <2>7. De(ped) = pide
    BY <1>2, <2>2 DEF De
  <2>8. M!Deja("bloqueado", pide)
    <3> HIDE DEF pide
    <3>1. QED BY <2>5, <2>7 DEF M!Deja
  <2>9. M!Ins[1] \notin {"WAIT", "SIGNAL"}
    BY <1>2, <2>4
  <2> HIDE DEF tipos
  <2>10. QED BY <1>1, <2>6, <2>8, <2>9 DEF M!PedirOtro, Espacios, tipos
<1>4. CASE Recurso
  <2>1. Fetch({"WAIT", "SIGNAL"})
    BY <1>4 DEF Recurso
  <2>2. ejecuta \in Procesos /\ Ins[1] \in {"WAIT", "SIGNAL"}
    BY <2>1, Decodifica
  <2>3. CASE Queda(R)
    <3>1. M!Paso({"WAIT", "SIGNAL"}) /\ M!Queda(R)
      BY <2>1, <2>3, PasoQueda
    <3>2. M!Paso(tipos)
      BY <3>1 DEF M!Paso
    <3>3. M!Queda(M!R) /\ M!Ins[1] \in {"WAIT", "SIGNAL"}
      BY <1>2, <2>2, <3>1
    <3>4. QED BY <1>1, <3>2, <3>3 DEF M!PedirOtro, Espacios
  <2>4. CASE Ins[1] = "WAIT" /\ Deja("bloqueado", Ninguno)
    <3>1. M!Paso({"WAIT", "SIGNAL"}) /\ M!Deja("bloqueado", De(Ninguno))
      BY <2>1, <2>2, <2>4, PasoDeja
    <3>2. M!Paso(tipos)
      BY <3>1 DEF M!Paso
    <3>3. De(Ninguno) = M!Nada
      BY MismoCiclo DEF De, Ninguno
    <3>4. M!Deja("bloqueado", M!Nada)
      BY <3>1, <3>3 DEF M!Deja
    <3>5. M!Ins[1] = "WAIT"
      BY <1>2, <2>4
    <3>6. QED BY <1>1, <3>2, <3>4, <3>5 DEF M!PedirOtro, Espacios
  <2>5. QED BY <1>4, <2>3, <2>4 DEF Recurso
<1>5. QED BY <1>3, <1>4

\* The MMU gets no answer only for what is out of the space of the process.
LEMMA FueraPorPagina ==
    ASSUME Servidas, ejecuta \in Procesos, NEW dir \in Nat, NEW n \in Nat, n > 0,
           LET s == CortarPorPagina(dir, n)
               t == Traduccion(s)
           IN  t.falta \/ Sobrepasa(t, s)
    PROVE  ~ M!Tiene(ejecuta, dir, n)
<1> DEFINE s == CortarPorPagina(dir, n)
<1>1. TypeOK
  BY DEF Servidas, Propias, Tipado
<1>2. Cubren(s, dir, n) /\ EnUnaPagina(s) /\ \A k \in 1 .. Len(s) : s[k].tam > 0
  BY PorPagina
<1>3. Traduccion(s).falta \/ Sobrepasa(Traduccion(s), s)
  OBVIOUS
<1> HIDE DEF s
<1>4. s \in Seq(Trozos)
  BY <1>2 DEF Cubren
<1>5. ~ EnElEspacio(ejecuta, s)
  BY <1>2, <1>3, <1>4, AccesoVisto
<1>6. QED BY <1>1, <1>2, <1>5, FueraDeSuEspacio

\* The same for what is cut every TamPagina bytes, ...
LEMMA FueraPorTamanio ==
    ASSUME Servidas, ejecuta \in Procesos, NEW dir \in Nat, NEW n \in Nat, n > 0, Encaja(dir, n),
           LET s == CortarPorTamanio(dir, n)
               t == Traduccion(s)
           IN  t.falta \/ Sobrepasa(t, s)
    PROVE  ~ M!Tiene(ejecuta, dir, n)
<1> DEFINE s == CortarPorTamanio(dir, n)
<1>1. TypeOK
  BY DEF Servidas, Propias, Tipado
<1>2. Cubren(s, dir, n) /\ EnUnaPagina(s) /\ \A k \in 1 .. Len(s) : s[k].tam > 0
  BY PorTamanio
<1>3. Traduccion(s).falta \/ Sobrepasa(Traduccion(s), s)
  OBVIOUS
<1> HIDE DEF s
<1>4. s \in Seq(Trozos)
  BY <1>2 DEF Cubren
<1>5. ~ EnElEspacio(ejecuta, s)
  BY <1>2, <1>3, <1>4, AccesoVisto
<1>6. QED BY <1>1, <1>2, <1>5, FueraDeSuEspacio

\* ... and for the two sides of a copy.
LEMMA FueraCopia ==
    ASSUME Servidas, ejecuta \in Procesos, Valor(R["SI"]) \in Nat, Valor(R["DI"]) \in Nat,
           NEW n \in Nat, n > 0, Encaja(Valor(R["SI"]), n), Encaja(Valor(R["DI"]), n),
           LET s == TrozosCopia(n)
               t == Traduccion(s)
           IN  t.falta \/ Sobrepasa(t, s)
    PROVE  ~ M!Tiene(ejecuta, Valor(R["SI"]), n) \/ ~ M!Tiene(ejecuta, Valor(R["DI"]), n)
<1> DEFINE si == Valor(R["SI"])
           di == Valor(R["DI"])
           de == CortarPorTamanio(si, n)
           a == CortarPorTamanio(di, n)
           s == TrozosCopia(n)
<1>1. TypeOK
  BY DEF Servidas, Propias, Tipado
<1>2. /\ Cubren(de, si, n) /\ EnUnaPagina(de) /\ \A k \in 1 .. Len(de) : de[k].tam > 0
      /\ Cubren(a, di, n) /\ EnUnaPagina(a) /\ \A k \in 1 .. Len(a) : a[k].tam > 0
  BY PorTamanio
<1>3. Traduccion(s).falta \/ Sobrepasa(Traduccion(s), s)
  OBVIOUS
<1>4. /\ s \in Seq(Trozos) /\ Len(s) = 2 * Len(de) /\ Len(a) = Len(de) /\ Len(de) \in Nat
      /\ \A k \in 1 .. Len(de) : s[2 * k - 1] = de[k] /\ s[2 * k] = a[k]
  BY DeAOtra
<1> HIDE DEF s, de, a
<1>5. ASSUME NEW k \in 1 .. Len(s)
      PROVE  \E j \in 1 .. Len(de) : s[k] = de[j] \/ s[k] = a[j]
  <2>1. CASE k % 2 = 1
    <3>1. Len(de) \in Nat /\ k \in 1 .. 2 * Len(de)
      BY <1>4
    <3>2. \A m \in Nat : \A i \in 1 .. 2 * m :
             i % 2 = 1 => (i + 1) \div 2 \in 1 .. m /\ 2 * ((i + 1) \div 2) - 1 = i
      OBVIOUS
    <3>3. (k + 1) \div 2 \in 1 .. Len(de) /\ 2 * ((k + 1) \div 2) - 1 = k
      BY <2>1, <3>1, <3>2
    <3>4. QED BY <1>4, <3>3
  <2>2. CASE k % 2 # 1
    <3>1. k \div 2 \in 1 .. Len(de) /\ 2 * (k \div 2) = k
      BY <1>4, <2>2
    <3>2. QED BY <1>4, <3>1
  <2>3. QED BY <2>1, <2>2
<1>6. EnUnaPagina(s)
  BY <1>2, <1>4, <1>5 DEF EnUnaPagina
<1>7. ~ EnElEspacio(ejecuta, s)
  BY <1>3, <1>4, <1>6, AccesoVisto
<1>8. ~ EnElEspacio(ejecuta, de) \/ ~ EnElEspacio(ejecuta, a)
  BY <1>4, <1>5, <1>7 DEF EnElEspacio
<1> HIDE DEF si, di
<1>9. si \in Nat /\ di \in Nat
  BY DEF si, di
<1>10. ~ M!Tiene(ejecuta, si, n) \/ ~ M!Tiene(ejecuta, di, n)
  BY <1>1, <1>2, <1>8, <1>9, FueraDeSuEspacio
<1>11. QED BY <1>10 DEF si, di

\* So the CPU waits only in a RESIZE, or out of the space of the process.
LEMMA VeDetenerse ==
    ASSUME Servidas, EnSuPagina, ComoSeEspera, Detenerse
    PROVE  M!Detenerse
<1> DEFINE tipos == {"RESIZE", "MOV_IN", "MOV_OUT", "COPY_STRING"} \cup Textos \cup Salidas
<1>1. /\ TypeOK /\ Fetch(tipos) /\ detenida' = TRUE /\ SinMemoria
      /\ UNCHANGED <<estado, ejecuta, regs, pedido>>
  BY DEF Servidas, Propias, Tipado, Detenerse
<1>2. /\ ejecuta \in Procesos /\ R \in Banco /\ EsInstruccion(Ins) /\ Ins[1] \in tipos
      /\ \A k : Ins[k] \in Registros => Reg(k) \in Nat
      /\ \A r \in Registros : Valor(R[r]) \in Nat
      /\ ~ detenida /\ UNCHANGED <<carga, salida>>
  BY <1>1, Decodifica
<1>3. Sigue({Ins[1]})
  BY <1>1 DEF Fetch, Sigue
<1>4. ASSUME Ins[1] = "MOV_IN"
      PROVE  ~ M!Tiene(ejecuta, Reg(3), TamanioRegistro(Ins[2]))
  <2>1. Reg(3) \in Nat /\ TamanioRegistro(Ins[2]) \in Nat /\ TamanioRegistro(Ins[2]) > 0
    BY <1>2, <1>4, Palabras, AnchoRegistro
  <2>2. LET s == CortarPorPagina(Reg(3), TamanioRegistro(Ins[2]))
            t == Traduccion(s)
        IN  t.falta \/ Sobrepasa(t, s)
    BY <1>4 DEF Detenerse
  <2>3. QED BY <1>2, <2>1, <2>2, FueraPorPagina
<1>5. ASSUME Ins[1] = "MOV_OUT"
      PROVE  ~ M!Tiene(ejecuta, Reg(2), TamanioRegistro(Ins[3]))
  <2>1. /\ Reg(2) \in Nat /\ TamanioRegistro(Ins[3]) \in Nat /\ TamanioRegistro(Ins[3]) > 0
        /\ Len(R[Ins[3]]) = TamanioRegistro(Ins[3])
    BY <1>2, <1>5, Palabras, AnchoRegistro
  <2>2. LET s == CortarPorPagina(Reg(2), TamanioRegistro(Ins[3]))
            t == Traduccion(s)
        IN  t.falta \/ Sobrepasa(t, s)
    BY <1>5, <2>1 DEF Detenerse
  <2>3. QED BY <1>2, <2>1, <2>2, FueraPorPagina
<1>6. ASSUME Ins[1] = "COPY_STRING"
      PROVE  ~ M!Tiene(ejecuta, Valor(R["SI"]), Ins[2]) \/ ~ M!Tiene(ejecuta, Valor(R["DI"]), Ins[2])
  <2>1. Sigue({"COPY_STRING"})
    BY <1>3, <1>6
  <2>2. Ins[2] > 0 /\ Encaja(Valor(R["SI"]), Ins[2]) /\ Encaja(Valor(R["DI"]), Ins[2])
    BY <2>1 DEF EnSuPagina, ComoSeEspera
  <2>3. Ins[2] \in Nat /\ Valor(R["SI"]) \in Nat /\ Valor(R["DI"]) \in Nat
    BY <1>2, <1>6, Palabras, Nombres
  <2>4. LET s == TrozosCopia(Ins[2])
            t == Traduccion(s)
        IN  t.falta \/ Sobrepasa(t, s)
    BY <1>6 DEF Detenerse
  <2>5. QED BY <1>2, <2>2, <2>3, <2>4, FueraCopia
<1>7. ASSUME Ins[1] \in Textos \cup Salidas
      PROVE  ~ M!Tiene(ejecuta, Reg(Donde), Reg(Donde + 1))
  <2>1. Sigue(Textos \cup Salidas)
    BY <1>3, <1>7 DEF Sigue
  <2>2. Reg(Donde + 1) > 0 /\ Encaja(Reg(Donde), Reg(Donde + 1))
    BY <2>1 DEF EnSuPagina, ComoSeEspera
  <2>3. /\ Reg(Donde) \in Nat /\ Reg(Donde + 1) \in Nat
        /\ LET s == CortarPorTamanio(Reg(Donde), Reg(Donde + 1))
               t == Traduccion(s)
           IN  t.falta \/ Sobrepasa(t, s)
    <3>1. ASSUME Ins[1] \in {"IO_STDIN_READ", "IO_STDOUT_WRITE"}
          PROVE  /\ Reg(Donde) \in Nat /\ Reg(Donde + 1) \in Nat
                 /\ LET s == CortarPorTamanio(Reg(Donde), Reg(Donde + 1))
                        t == Traduccion(s)
                    IN  t.falta \/ Sobrepasa(t, s)
      <4>1. Len(Ins) = 4 /\ Ins[3] \in Registros /\ Ins[4] \in Registros
        BY <1>2, <3>1, Palabras
      <4>2. Donde = 3 /\ Donde + 1 = 4 /\ Len(Ins) - (IF Len(Ins) = 6 THEN 1 ELSE 0) = 4
        BY <4>1 DEF Donde
      <4>3. LET s == CortarPorTamanio(Reg(3), Reg(4))
                t == Traduccion(s)
            IN  t.falta \/ Sobrepasa(t, s)
        BY <3>1, <4>2 DEF Detenerse
      <4>4. QED BY <1>2, <4>1, <4>2, <4>3
    <3>2. ASSUME Ins[1] \in {"IO_FS_READ", "IO_FS_WRITE"}
          PROVE  /\ Reg(Donde) \in Nat /\ Reg(Donde + 1) \in Nat
                 /\ LET s == CortarPorTamanio(Reg(Donde), Reg(Donde + 1))
                        t == Traduccion(s)
                    IN  t.falta \/ Sobrepasa(t, s)
      <4>1. Len(Ins) = 6 /\ Ins[4] \in Registros /\ Ins[5] \in Registros
        BY <1>2, <3>2, Palabras
      <4>2. Donde = 4 /\ Donde + 1 = 5 /\ Len(Ins) - (IF Len(Ins) = 6 THEN 1 ELSE 0) = 5
        BY <4>1 DEF Donde
      <4>3. LET s == CortarPorTamanio(Reg(4), Reg(5))
                t == Traduccion(s)
            IN  t.falta \/ Sobrepasa(t, s)
        BY <3>2, <4>2 DEF Detenerse
      <4>4. QED BY <1>2, <4>1, <4>2, <4>3
    <3>3. \/ Ins[1] \in {"IO_STDIN_READ", "IO_STDOUT_WRITE"}
          \/ Ins[1] \in {"IO_FS_READ", "IO_FS_WRITE"}
      BY <1>7 DEF Textos, Salidas
    <3>4. QED BY <3>1, <3>2, <3>3
  <2>4. QED BY <1>2, <2>2, <2>3, FueraPorTamanio
<1>8. M!Ins = Ins /\ M!R = R /\ \A k : M!Reg(k) = Reg(k)
  BY MismoCiclo
<1>9. UNCHANGED Espacios
  BY <1>1, MismoEspacio DEF SinMemoria
<1>10. UNCHANGED Pendientes
  BY <1>1 DEF Pendientes
<1>11. CASE Ins[1] = "RESIZE"
  BY <1>1, <1>2, <1>8, <1>9, <1>10, <1>11 DEF M!Detenerse, Espacios, Pendientes, De
<1>12. CASE Ins[1] = "MOV_IN"
  <2>1. M!Fuera(M!Reg(3), M!TamanioRegistro(M!Ins[2]))
    BY <1>4, <1>8, <1>12, MismosRegistros DEF M!Fuera
  <2>2. QED BY <1>1, <1>2, <1>8, <1>9, <1>10, <1>12, <2>1 DEF M!Detenerse, Espacios, Pendientes, De
<1>13. CASE Ins[1] = "MOV_OUT"
  <2>1. M!Fuera(M!Reg(2), M!TamanioRegistro(M!Ins[3]))
    BY <1>5, <1>8, <1>13, MismosRegistros DEF M!Fuera
  <2>2. QED BY <1>1, <1>2, <1>8, <1>9, <1>10, <1>13, <2>1 DEF M!Detenerse, Espacios, Pendientes, De
<1>14. CASE Ins[1] = "COPY_STRING"
  <2>1. M!Fuera(M!Valor(M!R["SI"]), M!Ins[2]) \/ M!Fuera(M!Valor(M!R["DI"]), M!Ins[2])
    BY <1>6, <1>8, <1>14, MismosRegistros DEF M!Fuera
  <2>2. QED BY <1>1, <1>2, <1>8, <1>9, <1>10, <1>14, <2>1 DEF M!Detenerse, Espacios, Pendientes, De
<1>15. CASE Ins[1] \in Textos \cup Salidas
  <2>1. M!Ins[1] \notin {"RESIZE", "MOV_IN", "MOV_OUT", "COPY_STRING"}
    BY <1>8, <1>15 DEF Textos, Salidas
  <2> DEFINE l == IF Len(M!Ins) = 6 THEN 4 ELSE 3
  <2>2. l = Donde
    BY <1>8 DEF Donde
  <2> HIDE DEF l
  <2>3. M!Fuera(M!Reg(l), M!Reg(l + 1))
    BY <1>7, <1>8, <1>15, <2>2 DEF M!Fuera
  <2>4. QED BY <1>1, <1>2, <1>9, <1>10, <2>1, <2>3 DEF M!Detenerse, Espacios, Pendientes, De, l
<1>16. QED BY <1>2, <1>11, <1>12, <1>13, <1>14, <1>15

\* A dispatch.
LEMMA VeDespachar ==
    ASSUME NEW p \in Procesos, Despachar(p)
    PROVE  M!Despachar(p)
<1>1. UNCHANGED Espacios
  BY MismoEspacio DEF Despachar, Entorno
<1>2. UNCHANGED Pendientes
  BY DEF Despachar, Pendientes
<1>3. QED BY <1>1, <1>2 DEF Despachar, Entorno, M!Despachar, Espacios, Pendientes, De

-------------------------------------------------------------------------------
(* What the devices have to do *)

\* A request of bytes of a process, where they are, piece by piece.
EsDe(p, x, s) ==
    /\ x.dir \in Nat /\ x.tam \in Nat /\ x.puntero \in Nat
    /\ x.tam > 0 /\ Encaja(x.dir, x.tam)
    /\ s = CortarPorTamanio(x.dir, x.tam) /\ EnElEspacio(p, s)
    /\ Len(x.trozos) = Len(s) /\ DOMAIN x.trozos = 1 .. Len(s)
    /\ \A k \in 1 .. Len(s) :
        x.trozos[k] = [dir |-> Lugar(p, s[k].dir), tam |-> s[k].tam,
                       puntero |-> x.puntero + (k - 1) * TamPagina]

\* The devices that use the memory do what their process asked for.
Acordado(p) ==
    LET x == pedido[p]
    IN  x.op \in Textos \cup Salidas => EsDe(p, x, CortarPorTamanio(x.dir, x.tam))
Acordadas == Servidas /\ \A p \in Procesos : Acordado(p)

\* Nothing is asked for a process in the CPU, nor when it leaves without a device.
LEMMA NadaQueHacer ==
    /\ Ninguno.op \notin Textos \cup Salidas
    /\ Servidas /\ ejecuta \in Procesos => pedido[ejecuta] = Ninguno
<1>1. Ninguno.op \notin Textos \cup Salidas
  BY DEF Ninguno, Textos, Salidas
<1>2. Servidas /\ ejecuta \in Procesos => pedido[ejecuta] = Ninguno
  <2>1. SUFFICES ASSUME Servidas, ejecuta \in Procesos, pedido[ejecuta] # Ninguno
                 PROVE  FALSE
    OBVIOUS
  <2>2. estado[ejecuta] = "bloqueado"
    BY <2>1 DEF Servidas, Propias, Tipado, TypeOK
  <2>3. estado[ejecuta] = "listo"
    BY <2>1, ConstantesOK DEF Servidas, Propias, Repartidos
  <2>4. QED BY <2>2, <2>3
<1>3. QED BY <1>1, <1>2

\* A step keeps the request and the table of a process, or leaves it without a
\* request, or makes one.
LEMMA CambiosDePedido ==
    ASSUME Servidas, [Next]_vars, NEW p \in Procesos
    PROVE  \/ pedido'[p] = pedido[p] /\ tabla'[p] = tabla[p]
           \/ pedido'[p].op \notin Textos \cup Salidas
           \/ p = ejecuta /\ PedirAcceso
<1>1. TypeOK /\ pedido \in [Procesos -> Pedido] /\ tabla \in [Procesos -> Seq(Marcos)]
  BY DEF Servidas, Propias, Tipado, TypeOK
<1>2. CASE Calcular
  <2>1. \E r : Queda(r)
    <3>1. PICK r : Queda(r)
      BY <1>2 DEF Calcular
    <3>2. QED BY <3>1
  <2>2. UNCHANGED <<tabla, pedido>>
    BY <1>2, <2>1 DEF Calcular, SinMemoria, Queda
  <2>3. QED BY <2>2
<1>3. CASE MOV_IN
  BY <1>3 DEF MOV_IN, Queda
<1>4. CASE MOV_OUT
  BY <1>4 DEF MOV_OUT, Queda
<1>5. CASE COPY_STRING
  BY <1>5 DEF COPY_STRING, Queda
<1>6. CASE Ampliar \/ Reducir
  <2>1. PICK nueva : Redimensionar(nueva) /\ Fetch({"RESIZE"})
    BY <1>6 DEF Ampliar, Reducir
  <2>2. tabla' = [tabla EXCEPT ![ejecuta] = nueva] /\ UNCHANGED pedido
    BY <2>1 DEF Redimensionar, Queda
  <2>3. CASE p = ejecuta
    BY <2>2, <2>3, NadaQueHacer
  <2>4. CASE p # ejecuta
    BY <1>1, <2>2, <2>4
  <2>5. QED BY <2>3, <2>4
<1>7. CASE SinEspacio \/ EXIT
  <2>1. /\ tabla' = [tabla EXCEPT ![ejecuta] = <<>>]
        /\ pedido' = [pedido EXCEPT ![ejecuta] = Ninguno]
    BY <1>7 DEF SinEspacio, EXIT, Salir, Deja
  <2>2. CASE p = ejecuta
    BY <1>1, <2>1, <2>2, NadaQueHacer
  <2>3. CASE p # ejecuta
    BY <1>1, <2>1, <2>3
  <2>4. QED BY <2>2, <2>3
<1>8. CASE Detenerse
  BY <1>8 DEF Detenerse, SinMemoria
<1>9. CASE PedirAcceso
  <2>1. PICK ped : Deja("bloqueado", ped)
    BY <1>1, <1>9, UnPedido
  <2>2. pedido' = [pedido EXCEPT ![ejecuta] = ped] /\ UNCHANGED tabla
    BY <1>9, <2>1 DEF Deja, PedirAcceso
  <2>3. QED BY <1>1, <1>9, <2>2
<1>10. CASE PedirIO
  <2>1. Fetch({"IO_GEN_SLEEP", "IO_FS_CREATE", "IO_FS_DELETE", "IO_FS_TRUNCATE"})
    BY <1>10 DEF PedirIO
  <2>2. Ins[1] \in {"IO_GEN_SLEEP", "IO_FS_CREATE", "IO_FS_DELETE", "IO_FS_TRUNCATE"}
    BY <1>1, <2>1, Decodifica
  <2>3. PICK ped : ped.op = Ins[1] /\ Deja("bloqueado", ped)
    BY <1>10 DEF PedirIO
  <2>4. pedido' = [pedido EXCEPT ![ejecuta] = ped] /\ UNCHANGED tabla
    BY <1>10, <2>3 DEF Deja, PedirIO, SinMemoria
  <2>5. ped.op \notin Textos \cup Salidas
    BY <2>2, <2>3 DEF Textos, Salidas
  <2>6. CASE p = ejecuta
    BY <1>1, <2>4, <2>5, <2>6
  <2>7. CASE p # ejecuta
    BY <1>1, <2>4, <2>7
  <2>8. QED BY <2>6, <2>7
<1>11. CASE Recurso
  <2>1. UNCHANGED tabla /\ (UNCHANGED pedido \/ pedido' = [pedido EXCEPT ![ejecuta] = Ninguno])
    BY <1>11 DEF Recurso, Queda, Deja, SinMemoria
  <2>2. CASE p = ejecuta
    BY <1>1, <2>1, <2>2, NadaQueHacer
  <2>3. CASE p # ejecuta
    BY <1>1, <2>1, <2>3
  <2>4. QED BY <2>2, <2>3
<1>12. ASSUME NEW q \in Procesos, Despachar(q) \/ FinIO(q)
       PROVE  \/ pedido'[p] = pedido[p] /\ tabla'[p] = tabla[p]
              \/ pedido'[p].op \notin Textos \cup Salidas
  <2>1. UNCHANGED tabla /\ (UNCHANGED pedido \/ pedido' = [pedido EXCEPT ![q] = Ninguno])
    BY <1>12 DEF Despachar, FinIO, Entorno
  <2>2. CASE p = q
    BY <1>1, <2>1, <2>2, NadaQueHacer
  <2>3. CASE p # q
    BY <1>1, <2>1, <2>3
  <2>4. QED BY <2>2, <2>3
<1>13. CASE UNCHANGED vars
  BY <1>13 DEF vars
<1>14. QED BY <1>2, <1>3, <1>4, <1>5, <1>6, <1>7, <1>8, <1>9, <1>10, <1>11, <1>12, <1>13 DEF Next

\* What PedirAcceso asks for is so.
LEMMA PedidoAcordado ==
    ASSUME Servidas, EnSuPagina, ComoSeEspera, PedirAcceso, NEW p \in Procesos, p = ejecuta
    PROVE  Acordado(p)'
<1> DEFINE tipos == Textos \cup Salidas
           dir == Reg(Donde)
           n == Reg(Donde + 1)
           s == CortarPorTamanio(dir, n)
           t == Traduccion(s)
<1>1. TypeOK /\ Fetch(tipos) /\ UNCHANGED tabla
  BY DEF Servidas, Propias, Tipado, PedirAcceso
<1>2. ejecuta \in Procesos
  BY <1>1, Decodifica
<1>3. dir \in Nat /\ n \in Nat /\ Accede(t, s)
  BY <1>1, UnPedido
<1>4. PICK puntero \in Nat : Deja("bloqueado", Pedir(Ins[1], dir, n, puntero))
  BY <1>1, UnPedido
<1>5. Encaja(dir, n) /\ n > 0
  <2>1. Sigue(tipos)
    BY <1>1 DEF Fetch, Sigue
  <2>2. QED BY <2>1 DEF EnSuPagina, ComoSeEspera
<1> HIDE DEF dir, n
<1>6. PICK d \in Nat, m \in Nat : d = dir /\ m = n
  BY <1>3
<1>7. PICK c : c = CortarPorTamanio(d, m)
  OBVIOUS
<1>8. c = s
  BY <1>6, <1>7
<1>9. c \in Seq(Trozos)
  BY <1>6, <1>7, PorTamanio DEF Cubren
<1> HIDE DEF s
<1>10. EnElEspacio(ejecuta, c) /\ \A k \in 1 .. Len(c) : t.dirs[k] = Lugar(ejecuta, c[k].dir)
  <2>1. EnElEspacio(ejecuta, s) /\ \A k \in 1 .. Len(s) : t.dirs[k] = Lugar(ejecuta, s[k].dir)
    BY <1>2, <1>3, <1>8, <1>9, AccesoVisto
  <2>2. QED BY <1>8, <2>1
<1>11. DOMAIN c = 1 .. Len(c) /\ Len(c) \in Nat
  BY <1>9, LenProperties
<1>12. PICK x : x = Pedir(Ins[1], dir, n, puntero)
  OBVIOUS
<1>13. x = [op |-> Ins[1], dir |-> d, tam |-> m, puntero |-> puntero,
            trozos |-> [k \in 1 .. Len(c) |->
               [dir |-> Lugar(ejecuta, c[k].dir), tam |-> c[k].tam,
                puntero |-> puntero + (k - 1) * TamPagina]]]
  <2>1. x = [op |-> Ins[1], dir |-> d, tam |-> m, puntero |-> puntero,
             trozos |-> [k \in DOMAIN c |->
               [dir |-> t.dirs[k], tam |-> c[k].tam, puntero |-> puntero + (k - 1) * TamPagina]]]
    BY <1>6, <1>8, <1>12 DEF Pedir, s, t
  <2> HIDE DEF t
  <2>2. [k \in DOMAIN c |->
            [dir |-> t.dirs[k], tam |-> c[k].tam, puntero |-> puntero + (k - 1) * TamPagina]] =
        [k \in 1 .. Len(c) |->
            [dir |-> Lugar(ejecuta, c[k].dir), tam |-> c[k].tam,
             puntero |-> puntero + (k - 1) * TamPagina]]
    BY <1>10, <1>11
  <2>3. QED BY <2>1, <2>2
<1>14. pedido'[p] = x /\ tabla'[p] = tabla[p]
  BY <1>1, <1>2, <1>4, <1>12 DEF Deja, TypeOK
<1>15. /\ x.dir = d /\ x.tam = m /\ x.puntero = puntero
       /\ Len(x.trozos) = Len(c) /\ DOMAIN x.trozos = 1 .. Len(c)
       /\ \A k \in 1 .. Len(c) :
            x.trozos[k] = [dir |-> Lugar(p, c[k].dir), tam |-> c[k].tam,
                           puntero |-> x.puntero + (k - 1) * TamPagina]
  BY <1>11, <1>13
<1>16. \A a : (Lugar(p, a))' = Lugar(p, a)
  BY <1>14 DEF Lugar
<1>17. (EnElEspacio(p, c))'
  BY <1>10, <1>14 DEF EnElEspacio, Hasta
<1>18. Encaja(d, m) /\ m > 0 /\ d \in Nat /\ m \in Nat /\ puntero \in Nat
  BY <1>5, <1>6
<1>19. QED BY <1>7, <1>14, <1>15, <1>16, <1>17, <1>18 DEF Acordado, EsDe

\* What stays the same stays so.
LEMMA SigueAcordado ==
    ASSUME NEW p \in Procesos, Acordado(p), pedido'[p] = pedido[p], tabla'[p] = tabla[p]
    PROVE  Acordado(p)'
<1>1. PICK x : x = pedido[p]
  OBVIOUS
<1>2. PICK s : s = CortarPorTamanio(x.dir, x.tam)
  OBVIOUS
<1>3. \A a : (Lugar(p, a))' = Lugar(p, a)
  BY DEF Lugar
<1>4. (EnElEspacio(p, s))' <=> EnElEspacio(p, s)
  BY DEF EnElEspacio, Hasta
<1>5. QED BY <1>1, <1>2, <1>3, <1>4 DEF Acordado, EsDe

\* Every step keeps the requests so.
LEMMA PasoAcordadas ==
    ASSUME Acordadas, SinRestos, EnSuPagina, ComoSeEspera, [Next]_vars
    PROVE  Acordadas'
<1>1. Servidas /\ Servidas'
  BY PasoServidas DEF Acordadas
<1>2. ASSUME NEW p \in Procesos
      PROVE  Acordado(p)'
  <2>1. CASE pedido'[p] = pedido[p] /\ tabla'[p] = tabla[p]
    BY <2>1, SigueAcordado DEF Acordadas
  <2>2. CASE pedido'[p].op \notin Textos \cup Salidas
    BY <2>2 DEF Acordado
  <2>3. CASE p = ejecuta /\ PedirAcceso
    BY <1>1, <2>3, PedidoAcordado
  <2>4. QED BY <1>1, <2>1, <2>2, <2>3, CambiosDePedido
<1>3. QED BY <1>1, <1>2 DEF Acordadas

\* At the start there are none.
LEMMA InicioAcordadas == Init => Acordadas
<1>1. SUFFICES ASSUME Init PROVE Acordadas
  OBVIOUS
<1>2. \A p \in Procesos : pedido[p] = Ninguno
  BY <1>1 DEF Init
<1>3. QED BY <1>1, <1>2, InicioServidas, NadaQueHacer DEF Acordadas, Acordado

\* Its pieces are of its process, and each but the last is as long as a page.
LEMMA Trozado ==
    ASSUME NEW p, NEW x, NEW s, EsDe(p, x, s)
    PROVE  /\ x.dir \in Nat /\ x.tam \in Nat /\ x.puntero \in Nat /\ x.tam > 0
           /\ Cubren(s, x.dir, x.tam) /\ EnUnaPagina(s) /\ EnElEspacio(p, s)
           /\ Len(s) \in Nat /\ Len(s) = Paginas(x.tam) /\ Len(s) >= 1
           /\ Len(x.trozos) = Len(s) /\ DOMAIN x.trozos = 1 .. Len(s)
           /\ \A k \in 1 .. Len(s) :
                /\ s[k].dir = x.dir + (k - 1) * TamPagina /\ s[k].dir \in Nat
                /\ s[k].tam = IF k = Len(s) THEN x.tam - (k - 1) * TamPagina ELSE TamPagina
                /\ s[k].tam \in Nat
                /\ (s[k].dir % TamPagina) + s[k].tam <= TamPagina
                /\ (k - 1) * TamPagina \in Nat
                /\ (k - 1) * TamPagina + s[k].tam <= x.tam
                /\ x.trozos[k].dir = Lugar(p, s[k].dir) /\ x.trozos[k].tam = s[k].tam
                /\ x.trozos[k].puntero = x.puntero + (k - 1) * TamPagina
<1>1. /\ x.dir \in Nat /\ x.tam \in Nat /\ x.puntero \in Nat /\ x.tam > 0
      /\ Encaja(x.dir, x.tam) /\ EnElEspacio(p, s) /\ Len(x.trozos) = Len(s)
      /\ DOMAIN x.trozos = 1 .. Len(s) /\ s = CortarPorTamanio(x.dir, x.tam)
  BY DEF EsDe
<1>2. /\ Cubren(s, x.dir, x.tam) /\ EnUnaPagina(s) /\ Len(s) = Mayor(1, Paginas(x.tam))
      /\ \A k \in 1 .. Len(s) :
           /\ s[k].dir = x.dir + (k - 1) * TamPagina
           /\ s[k].tam = IF k = Len(s) THEN x.tam - (k - 1) * TamPagina ELSE TamPagina
  <2>1. PICK d \in Nat, n \in Nat : d = x.dir /\ n = x.tam
    BY <1>1
  <2> DEFINE c == CortarPorTamanio(d, n)
  <2>2. Encaja(d, n) /\ s = c
    BY <1>1, <2>1
  <2>3. /\ Cubren(c, d, n) /\ EnUnaPagina(c) /\ Len(c) = Mayor(1, Paginas(n))
        /\ \A k \in 1 .. Len(c) :
             /\ c[k].dir = d + (k - 1) * TamPagina
             /\ c[k].tam = IF k = Len(c) THEN n - (k - 1) * TamPagina ELSE TamPagina
    BY ONLY <2>2, d \in Nat, n \in Nat, PorTamanio
  <2> HIDE DEF c
  <2>4. QED BY <2>1, <2>2, <2>3
<1>3. Paginas(x.tam) \in Nat /\ Paginas(x.tam) >= 1
  BY <1>1, Hojas
<1>4. Len(s) \in Nat /\ Len(s) = Paginas(x.tam) /\ Len(s) >= 1
  BY <1>2, <1>3 DEF Mayor
<1>5. DOMAIN x.trozos = 1 .. Len(s)
  BY <1>1
<1>6. \A k \in 1 .. Len(s) :
        /\ x.trozos[k].dir = Lugar(p, s[k].dir) /\ x.trozos[k].tam = s[k].tam
        /\ x.trozos[k].puntero = x.puntero + (k - 1) * TamPagina
  <2>1. \A k \in 1 .. Len(s) :
           x.trozos[k] = [dir |-> Lugar(p, s[k].dir), tam |-> s[k].tam,
                          puntero |-> x.puntero + (k - 1) * TamPagina]
    BY DEF EsDe
  <2>2. ASSUME NEW k \in 1 .. Len(s)
        PROVE  /\ x.trozos[k].dir = Lugar(p, s[k].dir) /\ x.trozos[k].tam = s[k].tam
               /\ x.trozos[k].puntero = x.puntero + (k - 1) * TamPagina
    <3> DEFINE l == Lugar(p, s[k].dir)
               m == s[k].tam
               q == x.puntero + (k - 1) * TamPagina
    <3>1. x.trozos[k] = [dir |-> l, tam |-> m, puntero |-> q]
      BY <2>1, <2>2
    <3> HIDE DEF l, m, q
    <3>2. x.trozos[k].dir = l /\ x.trozos[k].tam = m /\ x.trozos[k].puntero = q
      BY ONLY <3>1
    <3>3. QED BY <3>2 DEF l, m, q
  <2>3. QED BY <2>2
<1>7. ASSUME NEW k \in 1 .. Len(s)
      PROVE  /\ s[k].dir \in Nat /\ s[k].tam \in Nat
             /\ (s[k].dir % TamPagina) + s[k].tam <= TamPagina
             /\ (k - 1) * TamPagina \in Nat
             /\ (k - 1) * TamPagina + s[k].tam <= x.tam
  <2>1. s[k] \in Trozos
    BY <1>2, <1>7, ElementOfSeq DEF Cubren
  <2>2. s[k].dir \in Nat /\ s[k].tam \in Nat
    BY <2>1 DEF Trozos
  <2>3. (s[k].dir % TamPagina) + s[k].tam <= TamPagina
    BY <1>2 DEF EnUnaPagina
  <2>4. s[k].dir + s[k].tam <= x.dir + x.tam
    BY <1>2 DEF Cubren
  <2>5. (k - 1) * TamPagina \in Nat
    BY <1>4, Constantes
  <2>6. s[k].dir = x.dir + (k - 1) * TamPagina
    BY <1>2
  <2> DEFINE b == (k - 1) * TamPagina
  <2>7. s[k].dir = x.dir + b /\ b \in Nat
    BY <2>5, <2>6
  <2> HIDE DEF b
  <2>8. b + s[k].tam <= x.tam
    <3>1. \A d, e, t, n \in Nat : e = d + b /\ e + t <= d + n => b + t <= n
      BY <2>7
    <3>2. x.dir \in Nat /\ x.tam \in Nat
      BY <1>1
    <3>3. QED BY ONLY <2>2, <2>4, <2>7, <3>1, <3>2
  <2>9. QED BY <2>2, <2>3, <2>7, <2>8 DEF b
<1>8. QED BY <1>1, <1>2, <1>4, <1>5, <1>6, <1>7

\* The device that reads a text leaves it in the bytes of the process.
LEMMA VeTexto ==
    ASSUME TypeOK, MarcosPropios, NEW p \in Procesos, NEW x, NEW s, EsDe(p, x, s),
           UNCHANGED tabla,
           memoria' = EscribirTrozos(
                [k \in DOMAIN x.trozos |-> x.trozos[k].dir],
                [k \in DOMAIN x.trozos |->
                    [j \in 1 .. x.trozos[k].tam |-> Texto(x.trozos[k].puntero + j - 1)]])
    PROVE  M!Escribir(p, x.dir, [k \in 1 .. x.tam |-> Texto(x.puntero + k - 1)])
<1> DEFINE dirs == [k \in DOMAIN x.trozos |-> x.trozos[k].dir]
           datos == [k \in DOMAIN x.trozos |->
                        [j \in 1 .. x.trozos[k].tam |-> Texto(x.trozos[k].puntero + j - 1)]]
           bs == [k \in 1 .. x.tam |-> Texto(x.puntero + k - 1)]
<1>1. /\ x.dir \in Nat /\ x.tam \in Nat /\ x.puntero \in Nat
      /\ Cubren(s, x.dir, x.tam) /\ EnUnaPagina(s) /\ EnElEspacio(p, s)
      /\ Len(s) \in Nat /\ DOMAIN x.trozos = 1 .. Len(s)
      /\ \A k \in 1 .. Len(s) :
           /\ s[k].dir = x.dir + (k - 1) * TamPagina /\ s[k].tam \in Nat
           /\ (k - 1) * TamPagina \in Nat
           /\ (k - 1) * TamPagina + s[k].tam <= x.tam
           /\ x.trozos[k].dir = Lugar(p, s[k].dir) /\ x.trozos[k].tam = s[k].tam
           /\ x.trozos[k].puntero = x.puntero + (k - 1) * TamPagina
  <2>1. /\ x.dir \in Nat /\ x.tam \in Nat /\ x.puntero \in Nat
        /\ Cubren(s, x.dir, x.tam) /\ EnUnaPagina(s) /\ EnElEspacio(p, s)
        /\ Len(s) \in Nat /\ DOMAIN x.trozos = 1 .. Len(s)
    BY Trozado
  <2>2. \A k \in 1 .. Len(s) :
           /\ s[k].dir = x.dir + (k - 1) * TamPagina /\ s[k].tam \in Nat
           /\ (k - 1) * TamPagina \in Nat
           /\ (k - 1) * TamPagina + s[k].tam <= x.tam
    BY Trozado
  <2>3. \A k \in 1 .. Len(s) :
           /\ x.trozos[k].dir = Lugar(p, s[k].dir) /\ x.trozos[k].tam = s[k].tam
           /\ x.trozos[k].puntero = x.puntero + (k - 1) * TamPagina
    BY Trozado
  <2>4. QED BY <2>1, <2>2, <2>3
<1>2. Puestos(p, s, dirs)
  BY <1>1 DEF Puestos
<1>3. PorPartes(s, x.dir, bs, datos)
  <2>1. Len(datos) = Len(s)
    BY <1>1
  <2>2. ASSUME NEW k \in 1 .. Len(s)
        PROVE  /\ Len(datos[k]) = s[k].tam
               /\ \A j \in 1 .. s[k].tam : datos[k][j] = bs[s[k].dir - x.dir + j]
    <3>1. PICK b \in Nat : b = (k - 1) * TamPagina
      BY <1>1, <2>2
    <3>2. PICK t \in Nat : t = s[k].tam
      BY <1>1, <2>2
    <3>3. PICK d \in Nat, m \in Nat, q \in Nat : d = x.dir /\ m = x.tam /\ q = x.puntero
      BY <1>1
    <3>4. /\ s[k].dir = d + b /\ b + t <= m /\ k \in DOMAIN x.trozos
          /\ x.trozos[k].tam = t /\ x.trozos[k].puntero = q + b
      BY <1>1, <2>2, <3>1, <3>2, <3>3
    <3>5. datos[k] = [j \in 1 .. t |-> Texto(q + b + j - 1)]
      BY <3>4
    <3> HIDE DEF datos
    <3>6. Len(datos[k]) = t
      <4>1. PICK y : y = datos[k]
        OBVIOUS
      <4>2. y = [j \in 1 .. t |-> Texto(q + b + j - 1)]
        BY <3>5, <4>1
      <4>3. Len(y) = t
        BY ONLY <4>2, t \in Nat
      <4>4. QED BY <4>1, <4>3
    <3>7. \A j \in 1 .. t : /\ s[k].dir - d + j = b + j /\ b + j \in 1 .. m
                            /\ q + (b + j) - 1 = q + b + j - 1
      BY ONLY <3>4
    <3>8. \A j \in 1 .. t : bs[b + j] = Texto(q + (b + j) - 1)
      BY <3>3, <3>7
    <3> HIDE DEF bs
    <3>9. ASSUME NEW j \in 1 .. t
          PROVE  datos[k][j] = bs[s[k].dir - d + j]
      <4>1. datos[k][j] = Texto(q + b + j - 1)
        BY <3>5
      <4>2. bs[s[k].dir - d + j] = bs[b + j]
        BY <3>7
      <4>3. bs[b + j] = Texto(q + b + j - 1)
        BY <3>7, <3>8
      <4>4. QED BY <4>1, <4>2, <4>3
    <3>10. QED BY <3>2, <3>3, <3>6, <3>9
  <2>3. QED BY <2>1, <2>2 DEF PorPartes
<1>4. Len(bs) = x.tam
  BY <1>1
<1> HIDE DEF dirs, datos, bs
<1>5. Cambiada(EscribirTrozos(dirs, datos), p, x.dir, x.tam, bs)
  BY <1>1, <1>2, <1>3, Escrito
<1>6. memoria' = EscribirTrozos(dirs, datos)
  BY DEF dirs, datos
<1>7. Cambiada(memoria', p, x.dir, Len(bs), bs)
  BY <1>4, <1>5, <1>6
<1>8. M!Escribir(p, x.dir, bs)
  BY <1>7, NuevoEspacio
<1>9. QED BY <1>8 DEF bs

\* The device that shows shows the bytes of the process, in order.
LEMMA VeMostrado ==
    ASSUME TypeOK, NEW p \in Procesos, NEW x, NEW s, EsDe(p, x, s)
    PROVE  Mostrado(x.trozos) =
             [k \in 1 .. x.tam |-> <<x.puntero + k - 1, Espacios[p][x.dir + k - 1]>>]
<1> DEFINE z == x.trozos
           T == TamPagina
           n == Len(s)
           cuantos == (Len(z) - 1) * T + z[Len(z)].tam
           en(j) == z[(j - 1) \div T + 1]
           o(j) == (j - 1) % T
<1>1. /\ x.dir \in Nat /\ x.tam \in Nat /\ x.puntero \in Nat
      /\ Cubren(s, x.dir, x.tam) /\ EnUnaPagina(s) /\ EnElEspacio(p, s)
      /\ n \in Nat /\ n = Paginas(x.tam) /\ n >= 1 /\ Len(z) = n
      /\ \A k \in 1 .. n :
           /\ s[k].dir = x.dir + (k - 1) * T /\ s[k].dir \in Nat
           /\ s[k].tam = IF k = n THEN x.tam - (k - 1) * T ELSE T
           /\ s[k].tam \in Nat
           /\ (s[k].dir % T) + s[k].tam <= T
           /\ (k - 1) * T \in Nat
           /\ z[k].dir = Lugar(p, s[k].dir) /\ z[k].tam = s[k].tam
           /\ z[k].puntero = x.puntero + (k - 1) * T
  BY Trozado
<1>2. /\ Espacios[p] = [a \in 0 .. Hasta(p) - 1 |-> memoria[Lugar(p, a)]]
      /\ \A a \in x.dir .. x.dir + x.tam - 1 : a \in 0 .. Hasta(p) - 1
  BY <1>1, LoQueVe, Abarcan
<1>3. Mostrado(z) = [j \in 1 .. cuantos |-> <<en(j).puntero + o(j), memoria[en(j).dir + o(j)]>>]
  BY DEF Mostrado
<1>4. cuantos = x.tam
  <2>1. n \in 1 .. n
    BY <1>1
  <2>2. z[n].tam = x.tam - (n - 1) * T /\ (n - 1) * T \in Nat
    BY <1>1, <2>1
  <2>3. \A a, b, c \in Int : b = c - a => a + b = c
    OBVIOUS
  <2> DEFINE b == (n - 1) * T
  <2>4. cuantos = b + z[n].tam
    BY <1>1
  <2> HIDE DEF n, z, b
  <2>5. z[n].tam = x.tam - b /\ b \in Nat
    BY <2>2 DEF b
  <2>6. QED BY <1>1, <2>4, <2>5
<1> HIDE DEF cuantos
<1>5. ASSUME NEW j \in 1 .. x.tam
      PROVE  /\ en(j).puntero + o(j) = x.puntero + j - 1
             /\ memoria[en(j).dir + o(j)] = Espacios[p][x.dir + j - 1]
  <2> DEFINE q == (j - 1) \div T
             r == (j - 1) % T
  <2>1. j - 1 \in Nat /\ j - 1 < x.tam
    BY <1>1, <1>5
  <2>2. q \in Nat /\ r \in 0 .. T - 1 /\ j - 1 = q * T + r
    BY <2>1, Division
  <2>3. q < n
    <3>1. x.tam <= n * T
      BY <1>1, Hojas
    <3>2. n * T \in Nat /\ (j - 1 < n * T <=> q < n)
      BY <1>1, <2>1, EnPaginas
    <3> HIDE DEF q, n, T
    <3>3. j - 1 < n * T
      BY <1>1, <2>1, <3>1, <3>2
    <3>4. QED BY <3>2, <3>3
  <2>4. PICK k \in 1 .. n : k = q + 1
    BY <1>1, <2>2, <2>3
  <2>5. k - 1 = q
    BY <2>2, <2>4
  <2>6. PICK b \in Nat : b = (k - 1) * T
    BY <1>1
  <2>7. j - 1 = b + r /\ r \in Nat /\ r < T
    <3>1. T \in Nat
      BY Constantes
    <3>2. q * T = b /\ j - 1 = q * T + r
      BY <2>2, <2>5, <2>6
    <3>3. j - 1 = b + r
      BY <3>2
    <3> HIDE DEF r, T
    <3>4. QED BY <2>2, <3>1, <3>3
  <2>8. en(j) = z[k] /\ o(j) = r
    BY <2>4
  <2>9. PICK d \in Nat : d = s[k].dir
    BY <1>1, <2>4
  <2>10. /\ d = x.dir + b /\ (d % T) + s[k].tam <= T /\ s[k].tam \in Nat
         /\ s[k].tam = IF k = n THEN x.tam - b ELSE T
         /\ z[k].dir = Lugar(p, d) /\ z[k].puntero = x.puntero + b
    BY <1>1, <2>6, <2>9
  <2>11. r < s[k].tam
    <3> HIDE DEF n, T, r, q
    <3>1. PICK m \in Nat, t \in Nat : m = x.tam /\ t = s[k].tam
      BY <1>1, <2>10
    <3>2. t = IF k = n THEN m - b ELSE T
      BY <2>10, <3>1
    <3>3. j - 1 < m
      BY <2>1, <3>1
    <3>4. r < t
      BY ONLY <2>7, <3>2, <3>3, m \in Nat, t \in Nat, b \in Nat
    <3>5. QED BY <3>1, <3>4
  <2>12. d < Hasta(p)
    BY <1>1, <2>4, <2>9 DEF EnElEspacio
  <2>13. d % T \in Nat /\ T \in Nat
    BY Division, Constantes
  <2>14. (d % T) + r < T
    <3> DEFINE g == d % T
    <3>1. g + s[k].tam <= T /\ g \in Nat
      BY <2>10, <2>13
    <3> HIDE DEF g, r, T
    <3>2. g + r < T
      BY <2>7, <2>10, <2>11, <2>13, <3>1
    <3>3. QED BY <3>2 DEF g
  <2> HIDE DEF r, q
  <2>15. Lugar(p, d + r) = Lugar(p, d) + r
    BY <2>7, <2>12, <2>14, Seguidas
  <2>16. d + r = x.dir + j - 1
    <3>1. PICK e \in Nat : e = x.dir
      BY <1>1
    <3>2. d = e + b
      BY <2>10, <3>1
    <3>3. d + r = e + j - 1
      BY ONLY <2>7, <3>2, e \in Nat, b \in Nat, d \in Nat, j \in 1 .. x.tam
    <3>4. QED BY <3>1, <3>3
  <2>17. x.dir + j - 1 \in x.dir .. x.dir + x.tam - 1
    <3>1. \A e, m \in Nat : \A i \in 1 .. m : e + i - 1 \in e .. e + m - 1
      OBVIOUS
    <3>2. x.dir \in Nat /\ x.tam \in Nat
      BY <1>1
    <3>3. QED BY ONLY <3>1, <3>2, j \in 1 .. x.tam
  <2>18. Espacios[p][x.dir + j - 1] = memoria[Lugar(p, x.dir + j - 1)]
    BY <1>2, <2>17
  <2>19. x.puntero + b + r = x.puntero + j - 1
    BY <1>1, <2>7
  <2> HIDE DEF en, o
  <2>20. QED BY <2>8, <2>10, <2>15, <2>16, <2>18, <2>19
<1> HIDE DEF en, o
<1>6. QED BY <1>3, <1>4, <1>5

\* What a device does for a process.
LEMMA VeFinIO ==
    ASSUME Acordadas, NEW p \in Procesos, FinIO(p)
    PROVE  M!FinIO(p)
<1>1. TypeOK /\ MarcosPropios /\ Acordado(p)
  BY DEF Acordadas, Servidas, Propias, Tipado, Repartidos
<1>2. PICK x \in Pedido : x = pedido[p]
  BY <1>1 DEF TypeOK
<1> DEFINE dirs == [k \in DOMAIN x.trozos |-> x.trozos[k].dir]
           datos == [k \in DOMAIN x.trozos |->
                        [j \in 1 .. x.trozos[k].tam |-> Texto(x.trozos[k].puntero + j - 1)]]
<1>3. /\ ~ detenida /\ UNCHANGED <<carga, regs, tabla, detenida, ejecuta>>
      /\ estado[p] = "bloqueado" /\ estado' = [estado EXCEPT ![p] = "listo"]
      /\ pedido' = [pedido EXCEPT ![p] = Ninguno]
      /\ memoria' = IF x.op \notin Textos THEN memoria ELSE EscribirTrozos(dirs, datos)
      /\ salida' = IF x.op \notin Salidas THEN salida
                   ELSE [salida EXCEPT ![p] = Mostrado(x.trozos)]
  BY <1>2 DEF FinIO, Entorno
<1>4. x.op \in Textos \cup Salidas => EsDe(p, x, CortarPorTamanio(x.dir, x.tam))
  BY <1>1, <1>2 DEF Acordado
<1>5. PICK s : s = CortarPorTamanio(x.dir, x.tam)
  OBVIOUS
<1> DEFINE texto == [k \in 1 .. x.tam |-> Texto(x.puntero + k - 1)]
           visto == [k \in 1 .. x.tam |-> <<x.puntero + k - 1, Espacios[p][x.dir + k - 1]>>]
<1>6. x.op \in Textos => M!Escribir(p, x.dir, texto)
  BY <1>1, <1>3, <1>4, <1>5, VeTexto
<1>7. x.op \notin Textos => UNCHANGED Espacios
  BY <1>3, MismoEspacio
<1>8. x.op \in Salidas => salida' = [salida EXCEPT ![p] = visto]
  <2>1. x.op \in Salidas => Mostrado(x.trozos) = visto
    BY <1>1, <1>4, <1>5, VeMostrado
  <2> HIDE DEF visto
  <2>2. QED BY <1>3, <2>1
<1>9. Pendientes[p] = De(x) /\ Pendientes' = [Pendientes EXCEPT ![p] = De(Ninguno)]
  <2>1. pedido \in [Procesos -> Pedido]
    BY <1>1 DEF TypeOK
  <2>2. QED BY <1>2, <1>3, <2>1 DEF Pendientes
<1>10. De(Ninguno) = M!Nada
  BY MismoCiclo DEF De, Ninguno
<1>11. Pendientes' = [Pendientes EXCEPT ![p] = M!Nada]
  BY <1>9, <1>10
<1>12. De(x).op = x.op /\ De(x).dir = x.dir /\ De(x).tam = x.tam /\ De(x).puntero = x.puntero
  BY DEF De
<1>13. PICK q : q = Pendientes[p]
  OBVIOUS
<1>14. q.op = x.op /\ q.dir = x.dir /\ q.tam = x.tam /\ q.puntero = x.puntero
  BY <1>9, <1>12, <1>13
<1>15. \A k : M!Texto(k) = Texto(k)
  BY DEF M!Texto, Texto
<1> DEFINE deQ == [k \in 1 .. q.tam |-> M!Texto(q.puntero + k - 1)]
           vistoQ == [k \in 1 .. q.tam |-> <<q.puntero + k - 1, Espacios[p][q.dir + k - 1]>>]
<1>16. deQ = texto /\ vistoQ = visto
  BY <1>14, <1>15
<1> HIDE DEF deQ, vistoQ, texto, visto
<1>17. IF q.op \in {"IO_STDIN_READ", "IO_FS_READ"} THEN M!Escribir(p, q.dir, deQ)
       ELSE UNCHANGED Espacios
  <2>1. PICK c : c = texto
    OBVIOUS
  <2>2. deQ = c /\ q.dir = x.dir /\ (x.op \in Textos => M!Escribir(p, x.dir, c))
    BY <1>6, <1>14, <1>16, <2>1
  <2>3. x.op \in Textos => M!Escribir(p, q.dir, deQ)
    BY <2>2
  <2>4. QED BY <1>7, <1>14, <2>3 DEF Textos
<1>18. IF q.op \in {"IO_STDOUT_WRITE", "IO_FS_WRITE"} THEN salida' = [salida EXCEPT ![p] = vistoQ]
       ELSE UNCHANGED salida
  BY <1>3, <1>8, <1>14, <1>16 DEF Salidas
<1>19. QED
  BY <1>3, <1>11, <1>13, <1>17, <1>18 DEF M!FinIO, Pendientes, De, Espacios, deQ, vistoQ

\* At the start nobody has an address.
LEMMA VeInicio ==
    ASSUME Init
    PROVE  M!Init
<1>1. \A p \in Procesos : Espacio(p) = <<>>
  <2>1. SUFFICES ASSUME NEW p \in Procesos PROVE Espacio(p) = <<>>
    OBVIOUS
  <2>2. tabla[p] = <<>>
    BY DEF Init
  <2>3. Len(tabla[p]) * TamPagina = 0
    BY <2>2, Constantes
  <2> DEFINE f(a) == memoria[tabla[p][a \div TamPagina + 1] * TamPagina + (a % TamPagina)]
  <2>4. Espacio(p) = [a \in 1 .. 0 |-> f(a)]
    <3>1. 0 .. Len(tabla[p]) * TamPagina - 1 = 1 .. 0
      BY <2>3
    <3>2. QED BY <3>1 DEF Espacio
  <2> HIDE DEF f
  <2>5. [a \in 1 .. 0 |-> f(a)] = <<>>
    OBVIOUS
  <2>6. QED BY <2>4, <2>5
<1>2. Espacios = [p \in Procesos |-> <<>>]
  BY <1>1 DEF Espacios
<1>3. Pendientes = [p \in Procesos |-> M!Nada]
  <2>1. \A p \in Procesos : pedido[p] = Ninguno
    BY DEF Init
  <2>2. De(Ninguno) = M!Nada
    BY MismoCiclo DEF De, Ninguno
  <2>3. QED BY <2>1, <2>2 DEF Pendientes
<1>4. regs = [p \in Procesos |-> [r \in Registros |-> M!Bytes(0, M!TamanioRegistro(r))]]
  BY MismosRegistros DEF Init
<1>5. M!Registros = Registros
  BY DEF M!Registros, Registros, M!Orden, Orden, M!ToSet, ToSet
<1>6. regs = [p \in Procesos |-> [r \in M!Registros |-> M!Bytes(0, M!TamanioRegistro(r))]]
  BY <1>4, <1>5
<1>7. QED BY <1>2, <1>3, <1>6 DEF Init, M!Init, Espacios, Pendientes, De

\* Each step of the system is one of the machine, or nothing that it sees.
LEMMA PasoMaquina ==
    ASSUME Acordadas, EnSuPagina, ComoSeEspera, [Next]_vars
    PROVE  [M!Next]_M!vars
<1>1. Servidas /\ TypeOK
  BY DEF Acordadas, Servidas, Propias, Tipado
<1>2. CASE Calcular
  <2>1. M!Calcular
    BY <1>1, <1>2, VeCalcular
  <2>2. QED BY <2>1 DEF M!Next
<1>3. CASE MOV_IN
  <2>1. M!MOV_IN
    BY <1>1, <1>3, VeMOV_IN
  <2>2. QED BY <2>1 DEF M!Next
<1>4. CASE MOV_OUT
  <2>1. M!MOV_OUT
    BY <1>1, <1>4, VeMOV_OUT
  <2>2. QED BY <2>1 DEF M!Next
<1>5. CASE COPY_STRING
  <2>1. M!COPY_STRING
    BY <1>1, <1>5, VeCOPY_STRING
  <2>2. QED BY <2>1 DEF M!Next
<1>6. CASE Ampliar \/ Reducir
  <2>1. M!RESIZE
    BY <1>1, <1>6, VeRESIZE
  <2>2. QED BY <2>1 DEF M!Next
<1>7. CASE SinEspacio \/ EXIT
  <2>1. M!Terminar
    BY <1>1, <1>7, VeTerminar
  <2>2. QED BY <2>1 DEF M!Next
<1>8. CASE Detenerse
  <2>1. M!Detenerse
    BY <1>1, <1>8, VeDetenerse
  <2>2. QED BY <2>1 DEF M!Next
<1>9. CASE PedirAcceso
  <2>1. M!PedirAcceso
    BY <1>1, <1>9, VePedirAcceso
  <2>2. QED BY <2>1 DEF M!Next
<1>10. CASE PedirIO \/ Recurso
  <2>1. M!PedirOtro
    BY <1>1, <1>10, VePedirOtro
  <2>2. QED BY <2>1 DEF M!Next
<1>11. ASSUME NEW p \in Procesos, Despachar(p)
       PROVE  M!Next
  <2>1. M!Despachar(p)
    BY <1>11, VeDespachar
  <2>2. QED BY <2>1 DEF M!Next
<1>12. ASSUME NEW p \in Procesos, FinIO(p)
       PROVE  M!Next
  <2>1. M!FinIO(p)
    BY <1>12, VeFinIO
  <2>2. QED BY <2>1 DEF M!Next
<1>13. CASE UNCHANGED vars
  <2>1. UNCHANGED Espacios /\ UNCHANGED Pendientes
    BY <1>13, MismoEspacio DEF vars, Pendientes
  <2>2. QED BY <1>13, <2>1 DEF vars, M!vars, Espacios, Pendientes, De
<1>14. QED
  BY <1>2, <1>3, <1>4, <1>5, <1>6, <1>7, <1>8, <1>9, <1>10, <1>11, <1>12, <1>13 DEF Next

\* As long as no RESIZE takes away a page that the TLB still holds, what is cut
\* every TamPagina bytes fits its pages, and programs are as the code expects
\* them, pages, frames and the TLB cannot be seen: every process computes, and
\* every device reads and shows, as if each process had a space of its own.
THEOREM ImplementaMaquina ==
    Spec /\ []SinRestos /\ []EnSuPagina /\ []ComoSeEspera => EsMaquina
<1>1. Init => Acordadas
  BY InicioAcordadas
<1>2. Acordadas /\ SinRestos /\ EnSuPagina /\ ComoSeEspera /\ [Next]_vars => Acordadas'
  BY PasoAcordadas
<1>3. Init => M!Init
  BY VeInicio
<1>4. Acordadas /\ EnSuPagina /\ ComoSeEspera /\ [Next]_vars => [M!Next]_M!vars
  BY PasoMaquina
<1>5. QED BY <1>1, <1>2, <1>3, <1>4, PTL DEF Spec, M!Spec, EsMaquina

===============================================================================
