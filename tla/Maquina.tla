-------------------------------- MODULE Maquina --------------------------------
(***************************************************************************)
(* What the assignment promises a program (C - Comenta- v1.3.pdf, pages    *)
(* 17 to 20): registers and a space of addresses from 0 that are its own,  *)
(* and that only its instructions and the devices it asks for change.      *)
(* There are no pages, frames or TLB. Used as a property: it says what a   *)
(* step may do with variables whose next values are given.                 *)
(***************************************************************************)
EXTENDS Registros

CONSTANTS Procesos, Nadie

VARIABLES carga, estado, ejecuta, regs, espacio, pendiente, salida, detenida

vars == <<carga, estado, ejecuta, regs, espacio, pendiente, salida, detenida>>

PC == Valor(regs[ejecuta]["PC"])
Ins == carga[ejecuta][PC + 1]
R == SET(regs[ejecuta], "PC", PC + 1)
Reg(k) == Valor(R[Ins[k]])
Nada == [op |-> "ninguno", dir |-> 0, tam |-> 0, puntero |-> 0]
Texto(k) == (65 + k) % 256

Paso(tipos) ==
    /\ ~detenida /\ ejecuta # Nadie /\ PC < Len(carga[ejecuta]) /\ Ins[1] \in tipos
    /\ UNCHANGED <<carga, salida, detenida>>
Queda(r) ==
    /\ regs' = [regs EXCEPT ![ejecuta] = r]
    /\ ejecuta' \in {ejecuta, Nadie}
    /\ UNCHANGED <<estado, pendiente>>
Deja(e, ped) ==
    /\ regs' = [regs EXCEPT ![ejecuta] = R]
    /\ estado' = [estado EXCEPT ![ejecuta] = e]
    /\ pendiente' = [pendiente EXCEPT ![ejecuta] = ped]
    /\ ejecuta' = Nadie

Tiene(p, dir, n) == dir .. dir + n - 1 \subseteq DOMAIN espacio[p]
Leer(p, dir, n) == [k \in 1 .. n |-> espacio[p][dir + k - 1]]
Escribir(p, dir, bs) ==
    espacio' = [espacio EXCEPT ![p] =
        [a \in DOMAIN @ |-> IF a \in dir .. dir + Len(bs) - 1 THEN bs[a - dir + 1] ELSE @[a]]]

SaltoA(r, reg, n) == IF Valor(r[reg]) # 0 THEN SET(r, "PC", n) ELSE r

Calcular ==
    /\ Paso({"SET", "SUM", "SUB", "JNZ"})
    /\ Queda(CASE Ins[1] = "SET" -> SET(R, Ins[2], Ins[3])
               [] Ins[1] = "SUM" -> SUM(R, Ins[2], Ins[3])
               [] Ins[1] = "SUB" -> SUB(R, Ins[2], Ins[3])
               [] Ins[1] = "JNZ" -> SaltoA(R, Ins[2], Ins[3]))
    /\ UNCHANGED espacio

MOV_IN ==
    /\ Paso({"MOV_IN"})
    /\ Tiene(ejecuta, Reg(3), TamanioRegistro(Ins[2]))
    /\ Queda([R EXCEPT ![Ins[2]] = Leer(ejecuta, Reg(3), TamanioRegistro(Ins[2]))])
    /\ UNCHANGED espacio

MOV_OUT ==
    /\ Paso({"MOV_OUT"})
    /\ Tiene(ejecuta, Reg(2), TamanioRegistro(Ins[3]))
    /\ Escribir(ejecuta, Reg(2), R[Ins[3]])
    /\ Queda(R)

COPY_STRING ==
    /\ Paso({"COPY_STRING"})
    /\ Tiene(ejecuta, Valor(R["SI"]), Ins[2]) /\ Tiene(ejecuta, Valor(R["DI"]), Ins[2])
    /\ Escribir(ejecuta, Valor(R["DI"]), Leer(ejecuta, Valor(R["SI"]), Ins[2]))
    /\ Queda(R)

\* at least as many bytes as asked for, the old ones as they were
RESIZE ==
    /\ Paso({"RESIZE"})
    /\ Queda(R)
    /\ \A p \in DOMAIN espacio \ {ejecuta} : espacio'[p] = espacio[p]
    /\ 0 .. Ins[2] - 1 \subseteq DOMAIN espacio'[ejecuta]
    /\ \A a \in DOMAIN espacio[ejecuta] :
        a < Ins[2] => espacio'[ejecuta][a] = espacio[ejecuta][a]

\* EXIT, or a RESIZE beyond all the memory: the space is given back
Terminar ==
    /\ Paso({"EXIT", "RESIZE"})
    /\ Deja("fin", Nada)
    /\ \A p \in DOMAIN espacio \ {ejecuta} : espacio'[p] = espacio[p]

PedirAcceso ==
    /\ Paso({"IO_STDIN_READ", "IO_STDOUT_WRITE", "IO_FS_READ", "IO_FS_WRITE"})
    /\ LET l == IF Len(Ins) = 6 THEN 4 ELSE 3
       IN  /\ Tiene(ejecuta, Reg(l), Reg(l + 1))
           /\ Deja("bloqueado", [op |-> Ins[1], dir |-> Reg(l), tam |-> Reg(l + 1),
                                 puntero |-> IF Len(Ins) = 6 THEN Reg(6) ELSE 0])
    /\ UNCHANGED espacio

PedirOtro ==
    /\ Paso({"IO_GEN_SLEEP", "IO_FS_CREATE", "IO_FS_DELETE", "IO_FS_TRUNCATE", "WAIT", "SIGNAL"})
    /\ \/ Ins[1] \in {"WAIT", "SIGNAL"} /\ Queda(R)
       \/ Ins[1] = "WAIT" /\ Deja("bloqueado", Nada)
       \/ Ins[1] \notin {"WAIT", "SIGNAL"}
            /\ Deja("bloqueado", [op |-> Ins[1], dir |-> 0, puntero |-> 0,
                                  tam |-> IF Ins[1] = "IO_FS_TRUNCATE" THEN Reg(4) ELSE 0])
    /\ UNCHANGED espacio

\* Only a RESIZE, or an access outside its own space, may leave the CPU waiting.
Fuera(dir, n) == ~Tiene(ejecuta, dir, n)
Detenerse ==
    /\ ~detenida /\ detenida' = TRUE
    /\ LET l == IF Len(Ins) = 6 THEN 4 ELSE 3
       IN  CASE Ins[1] = "RESIZE" -> TRUE
             [] Ins[1] = "MOV_IN" -> Fuera(Reg(3), TamanioRegistro(Ins[2]))
             [] Ins[1] = "MOV_OUT" -> Fuera(Reg(2), TamanioRegistro(Ins[3]))
             [] Ins[1] = "COPY_STRING" ->
                    Fuera(Valor(R["SI"]), Ins[2]) \/ Fuera(Valor(R["DI"]), Ins[2])
             [] OTHER -> Fuera(Reg(l), Reg(l + 1))
    /\ UNCHANGED <<carga, estado, ejecuta, regs, espacio, pendiente, salida>>

Despachar(p) ==
    /\ ejecuta = Nadie /\ estado[p] = "listo"
    /\ ejecuta' = p
    /\ UNCHANGED <<carga, estado, regs, espacio, pendiente, salida, detenida>>

FinIO(p) ==
    /\ estado[p] = "bloqueado"
    /\ estado' = [estado EXCEPT ![p] = "listo"]
    /\ pendiente' = [pendiente EXCEPT ![p] = Nada]
    /\ LET q == pendiente[p]
       IN  /\ IF q.op \in {"IO_STDIN_READ", "IO_FS_READ"}
              THEN Escribir(p, q.dir, [k \in 1 .. q.tam |-> Texto(q.puntero + k - 1)])
              ELSE UNCHANGED espacio
           /\ IF q.op \in {"IO_STDOUT_WRITE", "IO_FS_WRITE"}
              THEN salida' = [salida EXCEPT ![p] =
                        [k \in 1 .. q.tam |-> <<q.puntero + k - 1, espacio[p][q.dir + k - 1]>>]]
              ELSE UNCHANGED salida
    /\ UNCHANGED <<carga, ejecuta, regs, detenida>>

Init ==
    /\ estado = [p \in Procesos |-> "listo"]
    /\ ejecuta = Nadie
    /\ regs = [p \in Procesos |-> [r \in Registros |-> Bytes(0, TamanioRegistro(r))]]
    /\ espacio = [p \in Procesos |-> <<>>]
    /\ pendiente = [p \in Procesos |-> Nada]
    /\ salida = [p \in Procesos |-> <<>>]
    /\ detenida = FALSE

Next ==
    \/ Calcular \/ MOV_IN \/ MOV_OUT \/ COPY_STRING \/ RESIZE
    \/ Terminar \/ PedirAcceso \/ PedirOtro \/ Detenerse
    \/ \E p \in Procesos : Despachar(p) \/ FinIO(p)

Spec == Init /\ [][Next]_vars
=============================================================================
