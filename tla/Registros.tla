------------------------------- MODULE Registros -------------------------------
(***************************************************************************)
(* The registers of the CPU and what its arithmetic does with them. A      *)
(* register is the sequence of its bytes, the lowest first, as it is in    *)
(* memory: a uint8_t has one and a uint32_t four.                          *)
(***************************************************************************)
EXTENDS Integers, SequencesExt

Byte == 0 .. 255

\* the order of the enum registrosCPU, from 0
Orden == <<"AX", "BX", "CX", "DX", "EAX", "EBX", "ECX", "EDX", "SI", "DI", "PC">>
Registros == ToSet(Orden)
TamanioRegistro(r) == IF r \in {"AX", "BX", "CX", "DX"} THEN 1 ELSE 4

Peso == <<1, 256, 65536, 16777216>>
Bytes(v, n) == [k \in 1 .. n |-> (v \div Peso[k]) % 256]
\* *(uint8_t*) or *(uint32_t*)
Valor(bs) ==
    IF Len(bs) = 1 THEN bs[1]
    ELSE bs[1] * Peso[1] + bs[2] * Peso[2] + bs[3] * Peso[3] + bs[4] * Peso[4]
Banco == {f \in [Registros -> Seq(Byte)] : \A r \in Registros : Len(f[r]) = TamanioRegistro(r)}

\* (uint8_t) valor, (uint32_t) valor
SET(regs, r, v) == [regs EXCEPT ![r] = Bytes(v, TamanioRegistro(r))]

\* as wide as the destination: what does not fit is lost
SUM(regs, d, o) == SET(regs, d, Valor(regs[d]) + Valor(regs[o]))
SUB(regs, d, o) == SET(regs, d, Valor(regs[d]) - Valor(regs[o]))

\* What decode takes from each word of an instruction: "r" a register, "n" a
\* number, "i" an interface, "f" a file, "s" a resource.
Formato == [
    SET |-> <<"r", "n">>, SUM |-> <<"r", "r">>, SUB |-> <<"r", "r">>,
    JNZ |-> <<"r", "n">>, RESIZE |-> <<"n">>, MOV_IN |-> <<"r", "r">>,
    MOV_OUT |-> <<"r", "r">>, COPY_STRING |-> <<"n">>, WAIT |-> <<"s">>,
    SIGNAL |-> <<"s">>, IO_GEN_SLEEP |-> <<"i", "n">>,
    IO_STDIN_READ |-> <<"i", "r", "r">>, IO_STDOUT_WRITE |-> <<"i", "r", "r">>,
    IO_FS_CREATE |-> <<"i", "f">>, IO_FS_DELETE |-> <<"i", "f">>,
    IO_FS_TRUNCATE |-> <<"i", "f", "r">>,
    IO_FS_WRITE |-> <<"i", "f", "r", "r", "r">>,
    IO_FS_READ |-> <<"i", "f", "r", "r", "r">>, EXIT |-> <<>>]

\* tipo first, then the words: a register has to be one, decode exits otherwise
EsInstruccion(ins) ==
    /\ ins[1] \in DOMAIN Formato
    /\ Len(ins) = Len(Formato[ins[1]]) + 1 /\ DOMAIN ins = 1 .. Len(ins)
    /\ \A k \in DOMAIN Formato[ins[1]] :
        /\ Formato[ins[1]][k] = "r" => ins[k + 1] \in Registros
        /\ Formato[ins[1]][k] = "n" => ins[k + 1] \in Nat
=============================================================================
