---------------------------- MODULE CPUHilosProofs ----------------------------
(***************************************************************************)
(* What holds of the two threads of the CPU for any number of processes    *)
(* and of interrupts.                                                      *)
(***************************************************************************)
EXTENDS CPUHilos, TLAPS

USE DEF dispatch, interrupt, kernel

-------------------------------------------------------------------------------
(* Types *)

\* What a queue_push or a read from a socket does to what is in it.
LEMMA Sockets ==
    ASSUME NEW S
    PROVE  /\ <<>> \in Seq(S)
           /\ \A q \in Seq(S) : q # <<>> => Head(q) \in S /\ Tail(q) \in Seq(S)
           /\ \A q \in Seq(S), e \in S : Append(q, e) \in Seq(S)
OBVIOUS

\* A PCB is in the CPU from the moment it is received until it is freed.
Presente ==
    paso \in {"ejecuta", "limpia", "espera", "revisa", "corta", "libera"} => pcb \in Procesos

\* An interrupt is only marked after one has been read.
Leida == pasoInt # "lee" \/ hay_interrupcion \/ paso = "corta" => cod_op_int \in Interrupciones

Tipo == TypeOK /\ Presente /\ Leida

\* The message that carries a PCB names its process.
LEMMA EnvioTipo ==
    ASSUME TypeOK, pcb \in Procesos, NEW op \in Operaciones, EnviarPCB(op)
    PROVE  /\ deCPU' \in Seq([pid : Procesos, op : Operaciones])
           /\ vueltas' \in Nat
<1> DEFINE mensaje == [pid |-> pcb, op |-> op]
<1>1. mensaje \in [pid : Procesos, op : Operaciones]
  OBVIOUS
<1>2. deCPU' = Append(deCPU, mensaje) /\ deCPU \in Seq([pid : Procesos, op : Operaciones])
  BY DEF TypeOK, EnviarPCB
<1> HIDE DEF mensaje
<1>3. deCPU' \in Seq([pid : Procesos, op : Operaciones])
  BY <1>1, <1>2, Sockets
<1>4. QED BY <1>3 DEF TypeOK, EnviarPCB

\* Every action of the CPU and of its environment keeps the types.
LEMMA TipoPaso == Tipo /\ [Next]_vars => Tipo'
<1> SUFFICES ASSUME Tipo, [Next]_vars
             PROVE  Tipo'
  OBVIOUS
<1> USE ConstantesOK
<1>1. CASE Recibir
  <2>1. pcb' \in Procesos /\ aCPU' \in Seq(Procesos)
    BY <1>1, Sockets DEF Tipo, TypeOK, Recibir, RecibirPCB
  <2>2. QED BY <1>1, <2>1 DEF Tipo, TypeOK, Presente, Leida, Recibir, RecibirPCB
<1>2. CASE EjecutarComun
  BY <1>2 DEF Tipo, TypeOK, Presente, Leida, EjecutarComun
<1>3. ASSUME NEW op \in Cesiones, EjecutarCesion(op)
      PROVE  Tipo'
  <2>1. /\ deCPU' \in Seq([pid : Procesos, op : Operaciones])
        /\ vueltas' \in Nat
    BY <1>3, EnvioTipo DEF Tipo, Presente, EjecutarCesion, Operaciones
  <2>2. QED BY <1>3, <2>1 DEF Tipo, TypeOK, Presente, Leida, EjecutarCesion
<1>4. CASE LimpiarInterrupcion
  BY <1>4 DEF Tipo, TypeOK, Presente, Leida, LimpiarInterrupcion
<1>5. CASE EjecutarResize
  <2>1. /\ deCPU' \in Seq([pid : Procesos, op : Operaciones])
        /\ vueltas' \in Nat
    BY <1>5, EnvioTipo DEF Tipo, Presente, EjecutarResize, Operaciones, Finales
  <2>2. QED BY <1>5, <2>1 DEF Tipo, TypeOK, Presente, Leida, EjecutarResize
<1>6. ASSUME NEW op \in Recursos, EjecutarRecurso(op)
      PROVE  Tipo'
  <2>1. /\ deCPU' \in Seq([pid : Procesos, op : Operaciones])
        /\ vueltas' \in Nat
    BY <1>6, EnvioTipo DEF Tipo, Presente, EjecutarRecurso, Operaciones
  <2>2. QED BY <1>6, <2>1 DEF Tipo, TypeOK, Presente, Leida, EjecutarRecurso
<1>7. CASE RecibirTrasRecurso
  <2>1. pcb' \in Procesos /\ aCPU' \in Seq(Procesos)
    BY <1>7, Sockets DEF Tipo, TypeOK, RecibirTrasRecurso, RecibirPCB
  <2>2. QED
    BY <1>7, <2>1 DEF Tipo, TypeOK, Presente, Leida, RecibirTrasRecurso, RecibirPCB
<1>8. CASE Revisar
  <2>1. /\ paso' \in {"corta", "libera", "ejecuta"}
        /\ paso' = "corta" => hay_interrupcion
        /\ ~ hay_interrupcion'
    BY <1>8 DEF Revisar
  <2>2. /\ paso = "revisa"
        /\ UNCHANGED <<interrupt, kernel, terminar, vueltas, pcb, pcbLiberado, hayPCB,
                       aCPU, deCPU, aInterrupt>>
        /\ hay_interrupcion' \in BOOLEAN
    BY <1>8 DEF Revisar
  <2>3. TypeOK'
    BY <2>1, <2>2 DEF Tipo, TypeOK
  <2>4. Presente' /\ Leida'
    BY <2>1, <2>2 DEF Tipo, Presente, Leida
  <2>5. QED BY <2>3, <2>4 DEF Tipo
<1>9. CASE Cortar
  <2>1. pcb \in Procesos /\ cod_op_int \in Operaciones
    BY <1>9 DEF Tipo, Presente, Leida, Cortar, Operaciones, Finales
  <2>2. /\ deCPU' \in Seq([pid : Procesos, op : Operaciones])
        /\ vueltas' \in Nat
    BY <1>9, <2>1, EnvioTipo DEF Tipo, Cortar
  <2>3. QED BY <1>9, <2>2 DEF Tipo, TypeOK, Presente, Leida, Cortar
<1>10. CASE Liberar
  BY <1>10 DEF Tipo, TypeOK, Presente, Leida, Liberar
<1>11. CASE LeerInterrupcion
  <2>1. /\ Head(aInterrupt) \in [pid : Procesos, op : Interrupciones]
        /\ Tail(aInterrupt) \in Seq([pid : Procesos, op : Interrupciones])
    BY <1>11, Sockets DEF Tipo, TypeOK, LeerInterrupcion
  <2>2. QED BY <1>11, <2>1 DEF Tipo, TypeOK, Presente, Leida, LeerInterrupcion
<1>12. CASE Comparar
  BY <1>12 DEF Tipo, TypeOK, Presente, Leida, Comparar
<1>13. CASE Marcar
  BY <1>13 DEF Tipo, TypeOK, Presente, Leida, Marcar
<1>14. ASSUME NEW p \in Procesos, Despachar(p)
       PROVE  Tipo'
  <2>1. aCPU' \in Seq(Procesos)
    BY <1>14, Sockets DEF Tipo, TypeOK, Despachar
  <2>2. QED BY <1>14, <2>1 DEF Tipo, TypeOK, Presente, Leida, Despachar
<1>15. ASSUME NEW ops, Planificar(ops)
       PROVE  /\ Mensaje.pid \in Procesos
              /\ deCPU' \in Seq([pid : Procesos, op : Operaciones])
  <2>1. /\ deCPU # <<>>
        /\ deCPU' = Tail(deCPU)
        /\ deCPU \in Seq([pid : Procesos, op : Operaciones])
    BY <1>15 DEF Tipo, TypeOK, Planificar
  <2>2. /\ Head(deCPU) \in [pid : Procesos, op : Operaciones]
        /\ Tail(deCPU) \in Seq([pid : Procesos, op : Operaciones])
    BY <2>1, Sockets
  <2>3. QED BY <2>1, <2>2 DEF Mensaje
<1>16. CASE DevolverACPU
  <2>1. /\ Mensaje.pid \in Procesos
        /\ deCPU' \in Seq([pid : Procesos, op : Operaciones])
    BY <1>15, <1>16 DEF DevolverACPU
  <2>2. aCPU' \in Seq(Procesos)
    BY <1>16, <2>1, Sockets DEF Tipo, TypeOK, DevolverACPU
  <2>3. QED
    BY <1>16, <2>1, <2>2 DEF Tipo, TypeOK, Presente, Leida, DevolverACPU, Planificar
<1>17. CASE DejarCPU
  <2>1. deCPU' \in Seq([pid : Procesos, op : Operaciones])
    BY <1>15, <1>17 DEF DejarCPU
  <2>2. QED
    BY <1>17, <2>1 DEF Tipo, TypeOK, Presente, Leida, DejarCPU, Planificar
<1>18. CASE EnviarAExit
  <2>1. deCPU' \in Seq([pid : Procesos, op : Operaciones])
    BY <1>15, <1>18 DEF EnviarAExit
  <2>2. QED
    BY <1>18, <2>1 DEF Tipo, TypeOK, Presente, Leida, EnviarAExit, Planificar
<1>19. ASSUME NEW op \in Interrupciones, Interrumpir(op)
       PROVE  Tipo'
  <2> DEFINE mensaje == [pid |-> enExec, op |-> op]
  <2>1. /\ mensaje \in [pid : Procesos, op : Interrupciones]
        /\ enExec \in Procesos
    BY <1>19 DEF Tipo, TypeOK, Interrumpir
  <2>2. /\ aInterrupt' = Append(aInterrupt, mensaje)
        /\ aInterrupt \in Seq([pid : Procesos, op : Interrupciones])
    BY <1>19 DEF Tipo, TypeOK, Interrumpir
  <2> HIDE DEF mensaje
  <2>3. aInterrupt' \in Seq([pid : Procesos, op : Interrupciones])
    BY <2>1, <2>2, Sockets
  <2>4. /\ enviadas' \in 0 .. MaxInterrupciones
        /\ finalizados' \subseteq Procesos
    BY <1>19, <2>1 DEF Tipo, TypeOK, Interrumpir
  <2>5. QED BY <1>19, <2>3, <2>4 DEF Tipo, TypeOK, Presente, Leida, Interrumpir
<1>20. CASE UNCHANGED vars
  BY <1>20 DEF vars, Tipo, TypeOK, Presente, Leida
<1>21. QED
  BY <1>1, <1>2, <1>3, <1>4, <1>5, <1>6, <1>7, <1>8, <1>9, <1>10, <1>11, <1>12,
     <1>13, <1>14, <1>16, <1>17, <1>18, <1>19, <1>20
     DEF Next, HiloDispatch, HiloInterrupt, HilosKernel

\* The inductive form of the types.
LEMMA TipoSiempre == Spec => []Tipo
<1>1. Init => Tipo
  <2>1. /\ <<>> \in Seq(Procesos)
        /\ <<>> \in Seq([pid : Procesos, op : Operaciones])
        /\ <<>> \in Seq([pid : Procesos, op : Interrupciones])
    BY Sockets
  <2>2. 0 \in Nat /\ 0 \in 0 .. MaxInterrupciones
    BY ConstantesOK
  <2>3. Init => TypeOK
    BY <2>1, <2>2, ZenonT(60) DEF Init, TypeOK
  <2>4. Init => Presente /\ Leida
    BY DEF Init, Presente, Leida
  <2>5. QED BY <2>3, <2>4 DEF Tipo
<1>2. QED BY <1>1, TipoPaso, PTL DEF Spec

\* Every variable of the two threads keeps its type; in particular the code
\* that goes back with an interrupted PCB (enviar_pcb(cod_op_int)) is one the
\* kernel sent.
THEOREM Tipos == Spec => []TypeOK
<1>1. Tipo => TypeOK
  BY DEF Tipo
<1>2. QED BY <1>1, TipoSiempre, PTL

\* The kernel touches only the sockets and what is its own.
LEMMA PasoKernel ==
    HilosKernel => UNCHANGED <<dispatch, interrupt, hay_interrupcion>>
BY DEF HilosKernel, Despachar, Planificar, DevolverACPU, DejarCPU, EnviarAExit, Interrumpir

-------------------------------------------------------------------------------
(* The PCB in the CPU *)

\* hayPCB tells whether pcb points to a PCB that exists. It is what the
\* interrupt thread trusts before it reads pcb->PID.
Tenencia ==
    /\ hayPCB <=> paso # "recibe"
    /\ pcbLiberado => paso = "recibe"
    /\ paso # "espera"
    /\ ~ leyoLiberado

\* Where no program uses WAIT or SIGNAL, every action keeps Tenencia: the only
\* place that frees the PCB also clears hayPCB (main.c:51-54).
LEMMA TenenciaPaso ==
    ASSUME Clases \cap Recursos = {}
    PROVE  Tenencia /\ [Next]_vars => Tenencia'
<1> SUFFICES ASSUME Tenencia, [Next]_vars
             PROVE  Tenencia'
  OBVIOUS
<1>1. CASE Recibir
  BY <1>1 DEF Tenencia, Recibir, RecibirPCB
<1>2. CASE EjecutarComun
  BY <1>2 DEF Tenencia, EjecutarComun
<1>3. ASSUME NEW op \in Cesiones, EjecutarCesion(op)
      PROVE  Tenencia'
  BY <1>3 DEF Tenencia, EjecutarCesion
<1>4. CASE LimpiarInterrupcion
  BY <1>4 DEF Tenencia, LimpiarInterrupcion
<1>5. CASE EjecutarResize
  BY <1>5 DEF Tenencia, EjecutarResize
<1>6. ASSUME NEW op \in Recursos, EjecutarRecurso(op)
      PROVE  FALSE
  BY <1>6 DEF EjecutarRecurso
<1>7. CASE RecibirTrasRecurso
  BY <1>7 DEF Tenencia, RecibirTrasRecurso
<1>8. CASE Revisar
  BY <1>8 DEF Tenencia, Revisar
<1>9. CASE Cortar
  BY <1>9 DEF Tenencia, Cortar
<1>10. CASE Liberar
  BY <1>10 DEF Tenencia, Liberar
<1>11. CASE LeerInterrupcion
  BY <1>11 DEF Tenencia, LeerInterrupcion
<1>12. CASE Comparar
  BY <1>12 DEF Tenencia, Comparar
<1>13. CASE Marcar
  BY <1>13 DEF Tenencia, Marcar
<1>14. CASE HilosKernel \/ UNCHANGED vars
  BY <1>14, PasoKernel DEF Tenencia, vars
<1>15. QED
  BY <1>1, <1>2, <1>3, <1>4, <1>5, <1>6, <1>7, <1>8, <1>9, <1>10, <1>11, <1>12,
     <1>13, <1>14
     DEF Next, HiloDispatch, HiloInterrupt

\* Without WAIT and SIGNAL the interrupt thread never reads a freed PCB, however
\* many interrupts come and whenever they come.
THEOREM SinRecursosNoLeeLiberada ==
    ASSUME Clases \cap Recursos = {}
    PROVE  Spec => []SinLecturaLiberada
<1>1. Init => Tenencia
  BY DEF Init, Tenencia
<1>2. Tenencia /\ [Next]_vars => Tenencia'
  BY TenenciaPaso
<1>3. Tenencia => SinLecturaLiberada
  BY DEF Tenencia, SinLecturaLiberada
<1>4. QED BY <1>1, <1>2, <1>3, PTL DEF Spec

\* A cycle that is about to end has sent its PCB at least once, and one that is
\* about to run an instruction has not been told to end.
Devuelta ==
    /\ paso \in {"limpia", "libera", "espera"} => vueltas > 0
    /\ paso = "revisa" /\ terminar => vueltas > 0
    /\ paso \in {"ejecuta", "espera"} => ~ terminar

\* Every action keeps Devuelta.
LEMMA DevueltaPaso == Tipo /\ Devuelta /\ [Next]_vars => Devuelta'
<1> SUFFICES ASSUME vueltas \in Nat, Devuelta, [Next]_vars
             PROVE  Devuelta'
  BY DEF Tipo, TypeOK
<1>1. CASE Recibir
  BY <1>1 DEF Devuelta, Recibir
<1>2. CASE EjecutarComun
  BY <1>2 DEF Devuelta, EjecutarComun
<1>3. ASSUME NEW op \in Cesiones, EjecutarCesion(op)
      PROVE  Devuelta'
  BY <1>3 DEF Devuelta, EjecutarCesion, EnviarPCB
<1>4. CASE LimpiarInterrupcion
  BY <1>4 DEF Devuelta, LimpiarInterrupcion
<1>5. CASE EjecutarResize
  BY <1>5 DEF Devuelta, EjecutarResize, EnviarPCB
<1>6. ASSUME NEW op \in Recursos, EjecutarRecurso(op)
      PROVE  Devuelta'
  BY <1>6 DEF Devuelta, EjecutarRecurso, EnviarPCB
<1>7. CASE RecibirTrasRecurso
  BY <1>7 DEF Devuelta, RecibirTrasRecurso
<1>8. CASE Revisar
  BY <1>8 DEF Devuelta, Revisar
<1>9. CASE Cortar
  BY <1>9 DEF Devuelta, Cortar, EnviarPCB
<1>10. CASE Liberar
  BY <1>10 DEF Devuelta, Liberar
<1>11. CASE HiloInterrupt
  BY <1>11 DEF Devuelta, HiloInterrupt, LeerInterrupcion, Comparar, Marcar
<1>12. CASE HilosKernel \/ UNCHANGED vars
  BY <1>12, PasoKernel DEF Devuelta, vars
<1>13. QED
  BY <1>1, <1>2, <1>3, <1>4, <1>5, <1>6, <1>7, <1>8, <1>9, <1>10, <1>11, <1>12
     DEF Next, HiloDispatch

\* No PCB is freed without having been sent to the kernel, in any program and
\* under any interrupts.
THEOREM NuncaSePierde == Spec => []NoSePierde
<1>1. Init => Devuelta
  BY DEF Init, Devuelta
<1>2. Devuelta => NoSePierde
  BY DEF Devuelta, NoSePierde
<1>3. QED BY <1>1, <1>2, DevueltaPaso, TipoSiempre, PTL DEF Spec

-------------------------------------------------------------------------------
(* The contract with the scheduler *)

\* Where nothing interrupts, check_interrupt finds nothing, and a cycle has been
\* told to end exactly when its PCB has left.
Quieto ==
    /\ aInterrupt = <<>>
    /\ pasoInt = "lee"
    /\ ~ hay_interrupcion
    /\ paso # "corta"
    /\ paso \in {"ejecuta", "espera"} => ~ terminar
    /\ paso = "limpia" => terminar

\* Every action keeps Quieto.
LEMMA QuietoPaso ==
    ASSUME Interrupciones = {}
    PROVE  Quieto /\ [Next]_vars => Quieto'
<1> SUFFICES ASSUME Quieto, [Next]_vars
             PROVE  Quieto'
  OBVIOUS
<1>1. CASE Recibir
  BY <1>1 DEF Quieto, Recibir
<1>2. CASE EjecutarComun
  BY <1>2 DEF Quieto, EjecutarComun
<1>3. ASSUME NEW op \in Cesiones, EjecutarCesion(op)
      PROVE  Quieto'
  BY <1>3 DEF Quieto, EjecutarCesion
<1>4. CASE LimpiarInterrupcion
  BY <1>4 DEF Quieto, LimpiarInterrupcion
<1>5. CASE EjecutarResize
  BY <1>5 DEF Quieto, EjecutarResize
<1>6. ASSUME NEW op \in Recursos, EjecutarRecurso(op)
      PROVE  Quieto'
  BY <1>6 DEF Quieto, EjecutarRecurso
<1>7. CASE RecibirTrasRecurso
  BY <1>7 DEF Quieto, RecibirTrasRecurso
<1>8. CASE Revisar
  BY <1>8 DEF Quieto, Revisar
<1>9. CASE Cortar
  BY <1>9 DEF Quieto, Cortar
<1>10. CASE Liberar
  BY <1>10 DEF Quieto, Liberar
<1>11. CASE HiloInterrupt
  BY <1>11 DEF Quieto, HiloInterrupt, LeerInterrupcion, Comparar, Marcar
<1>12. CASE HilosKernel
  <2>1. aInterrupt' = aInterrupt
    BY <1>12 DEF HilosKernel, Despachar, Planificar, DevolverACPU, DejarCPU, EnviarAExit
  <2>2. QED BY <1>12, <2>1, PasoKernel DEF Quieto
<1>13. CASE UNCHANGED vars
  BY <1>13 DEF Quieto, vars
<1>14. QED
  BY <1>1, <1>2, <1>3, <1>4, <1>5, <1>6, <1>7, <1>8, <1>9, <1>10, <1>11, <1>12,
     <1>13
     DEF Next, HiloDispatch

\* Every step of the threads and of the kernel is one of the contract, or none.
LEMMA PasoContrato ==
    Tipo /\ Quieto /\ [Next]_vars
      => [Contrato!NextCon]_<<TieneCPU, aCPU, deCPU>>
<1> SUFFICES ASSUME Tipo, Quieto, [Next]_vars
             PROVE  Contrato!NextCon \/ UNCHANGED <<TieneCPU, aCPU, deCPU>>
  OBVIOUS
<1>1. CASE Recibir
  <2>1. Contrato!Tomar
    BY <1>1 DEF Contrato!Tomar, TieneCPU, Recibir, RecibirPCB
  <2>2. QED BY <2>1 DEF Contrato!NextCon
<1>2. CASE EjecutarComun
  BY <1>2 DEF Quieto, TieneCPU, EjecutarComun
<1>3. ASSUME NEW op \in Operaciones, EnviarPCB(op),
             paso = "ejecuta", aCPU' = aCPU, TieneCPU' = Nadie
      PROVE  Contrato!NextCon
  <2>1. pcb \in Procesos /\ pcb # Nadie
    BY <1>3, ConstantesOK DEF Tipo, Presente
  <2>2. Contrato!Devolver(op)
    BY <1>3, <2>1 DEF Contrato!Devolver, TieneCPU, EnviarPCB
  <2>3. QED BY <2>2 DEF Contrato!NextCon
<1>4. ASSUME NEW op \in Cesiones, EjecutarCesion(op)
      PROVE  Contrato!NextCon
  BY <1>3, <1>4 DEF EjecutarCesion, TieneCPU, Operaciones
<1>5. CASE LimpiarInterrupcion
  BY <1>5 DEF Quieto, TieneCPU, LimpiarInterrupcion
<1>6. CASE EjecutarResize
  BY <1>3, <1>6 DEF EjecutarResize, TieneCPU, Operaciones, Finales
<1>7. ASSUME NEW op \in Recursos, EjecutarRecurso(op)
      PROVE  Contrato!NextCon
  BY <1>3, <1>7 DEF EjecutarRecurso, TieneCPU, Operaciones
<1>8. CASE RecibirTrasRecurso
  <2>1. Contrato!Tomar
    BY <1>8 DEF Contrato!Tomar, Quieto, TieneCPU, RecibirTrasRecurso, RecibirPCB
  <2>2. QED BY <2>1 DEF Contrato!NextCon
<1>9. CASE Revisar
  BY <1>9 DEF Quieto, TieneCPU, Revisar
<1>10. CASE Cortar
  BY <1>10 DEF Quieto, Cortar
<1>11. CASE Liberar
  BY <1>11 DEF TieneCPU, Liberar
<1>12. CASE HiloInterrupt
  BY <1>12 DEF TieneCPU, HiloInterrupt, LeerInterrupcion, Comparar, Marcar
<1>13. CASE HilosKernel
  <2>1. TieneCPU' = TieneCPU
    BY <1>13, PasoKernel DEF TieneCPU
  <2>2. ASSUME NEW p \in Procesos, Despachar(p)
        PROVE  Contrato!Kernel
    BY <2>1, <2>2 DEF Despachar, Contrato!Kernel
  <2>3. CASE DevolverACPU
    <3>1. Mensaje.pid \in Procesos
      <4>1. deCPU # <<>> /\ deCPU \in Seq([pid : Procesos, op : Operaciones])
        BY <2>3 DEF Tipo, TypeOK, DevolverACPU, Planificar
      <4>2. Head(deCPU) \in [pid : Procesos, op : Operaciones]
        BY <4>1, Sockets
      <4>3. QED BY <4>2 DEF Mensaje
    <3>2. deCPU # <<>> /\ deCPU' = Tail(deCPU) /\ aCPU' = Append(aCPU, Mensaje.pid)
      BY <2>3 DEF DevolverACPU, Planificar
    <3>3. Contrato!Kernel
      BY ONLY <2>1, <3>1, <3>2 DEF Contrato!Kernel
    <3>4. QED BY <3>3 DEF Contrato!NextCon
  <2>4. CASE DejarCPU \/ EnviarAExit
    <3>1. deCPU # <<>> /\ deCPU' = Tail(deCPU) /\ aCPU' = aCPU
      BY <2>4 DEF DejarCPU, EnviarAExit, Planificar
    <3>2. Contrato!Kernel
      BY ONLY <2>1, <3>1 DEF Contrato!Kernel
    <3>3. QED BY <3>2 DEF Contrato!NextCon
  <2>5. ASSUME NEW op \in Interrupciones, Interrumpir(op)
        PROVE  UNCHANGED <<TieneCPU, aCPU, deCPU>>
    BY <2>1, <2>5 DEF Interrumpir
  <2>6. QED
    BY <1>13, <2>2, <2>3, <2>4, <2>5 DEF HilosKernel, Contrato!NextCon
<1>14. CASE UNCHANGED vars
  BY <1>14 DEF TieneCPU, vars
<1>15. QED
  BY <1>1, <1>2, <1>4, <1>5, <1>6, <1>7, <1>8, <1>9, <1>10, <1>11, <1>12, <1>13,
     <1>14
     DEF Next, HiloDispatch

\* Without interrupts the CPU keeps the contract the scheduler is written
\* against: one PCB at a time, each given back once before the next is taken.
THEOREM SinInterrupcionesCumpleContrato ==
    ASSUME Interrupciones = {}
    PROVE  Spec => CumpleContrato
<1>1. Init => Quieto /\ Contrato!InitCon
  BY DEF Init, Quieto, Contrato!InitCon, TieneCPU
<1>2. Quieto /\ [Next]_vars => Quieto'
  BY QuietoPaso
<1>3. QED
  BY <1>1, <1>2, PasoContrato, TipoSiempre, PTL DEF Spec, CumpleContrato, Contrato!SpecCon

===============================================================================
