-------------------------- MODULE PlanificadorEstados --------------------------
(***************************************************************************)
(* How the processes change state under the FIFO scheduler: the semaphores *)
(* of the queues, the degree of multiprogramming and the five-state        *)
(* diagram; then the resources: what their balance is, that they are never *)
(* given twice, and that no thread of the kernel stops on an invalid       *)
(* pointer. For any number of processes, resources and interfaces, and any *)
(* program but where a theorem asks for disciplined ones.                  *)
(***************************************************************************)
EXTENDS PlanificadorLugares

USE DEF varsLP, varsGrado, varsExit, varsRec, varsIO, varsSalida, varsCPU, varsEnvio

-------------------------------------------------------------------------------
(* The state changes of each thread *)

\* What a step may do to the state of a process that it neither admits nor
\* frees.
PasoDentro(a, b) ==
    \/ a = b
    \/ a = "SIN_CREAR" /\ b = "NEW"
    \/ a = "READY" /\ b = "EXEC"
    \/ a = "EXEC" /\ b \in {"BLOCKED", "EXIT"}
    \/ a = "BLOCKED" /\ b \in {"READY", "EXEC"}
    \/ a \in Finalizables \cap {"NEW", "READY"} /\ b = "EXIT"

Camina == \A p \in Procesos : PasoDentro(estado[p], estado'[p])

Admite ==
    \E h \in Procesos :
      /\ estado[h] = "NEW" /\ estado'[h] \in {"READY", "EXEC"}
      /\ \A p \in Procesos \ {h} : PasoDentro(estado[p], estado'[p])

Suelta ==
    \E h \in Procesos :
      /\ estado[h] = "EXIT" /\ estado'[h] = "LIBERADO"
      /\ \A p \in Procesos \ {h} : estado'[p] = estado[p]

\* A step that leaves the states alone is within.
LEMMA Quieto ==
    ASSUME estado' = estado
    PROVE  Camina
BY DEF Camina, PasoDentro

\* criterioEnvio turns at most one process from READY to EXEC, and uses no
\* freed PCB, if whoever it may take is READY.
LEMMA EnvioMueve ==
    ASSUME NEW libre \in BOOLEAN, NEW listos \in Seq(Procesos),
           NEW est \in [Procesos -> Estados], NEW canal, NEW danio,
           CriterioEnvio(libre, listos, est, canal, danio),
           \A x \in ToSet(listos) : est[x] = "READY"
    PROVE  /\ caido' => danio
           /\ \A p \in Procesos : \/ estado'[p] = est[p]
                                  \/ (est[p] = "READY" /\ estado'[p] = "EXEC")
<1>1. CASE libre /\ listos # <<>>
  <2>1. PICK h \in Procesos : h = Head(listos)
    BY <1>1, Colas
  <2>2. h \in ToSet(listos)
    <3>1. listos[1] = Head(listos) /\ 1 \in 1 .. Len(listos)
      BY <1>1, Colas
    <3>2. QED BY <2>1, <3>1, Contenido
  <2>3. est[h] = "READY"
    BY <2>2
  <2>4. estado' = [est EXCEPT ![h] = "EXEC"] /\ caido' = (danio \/ est[h] = "LIBERADO")
    BY <1>1, <2>1 DEF CriterioEnvio
  <2>5. QED BY <2>3, <2>4
<1>2. CASE ~ (libre /\ listos # <<>>)
  BY <1>2 DEF CriterioEnvio
<1>3. QED BY <1>1, <1>2

\* Only the processes of colaReady are READY in it, and the process that is
\* there may be dispatched.
LEMMA EnReady ==
    ASSUME Orden, TypeOK, NEW x \in ToSet(colaReady)
    PROVE  x \in Procesos /\ estado[x] = "READY" /\ x # saliente
<1>1. x \in Procesos
  BY Contenido DEF TypeOK
<1>2. QED BY <1>1 DEF Orden, Ubicados

\* procesoNewAReady admits the process it takes out of colaNew.
LEMMA AdmiteNew ==
    ASSUME TypeOK, Turno, Orden, NewAReady
    PROVE  Admite /\ ~ caido'
<1>1. /\ colaNew # <<>> /\ colaNew \in Seq(Procesos) /\ IsInjective(colaNew)
      /\ colaReady \in Seq(Procesos) /\ estado \in [Procesos -> Estados]
      /\ cpuLibre \in BOOLEAN
  BY DEF NewAReady, TypeOK, Orden, SinCopias
<1>2. PICK h \in Procesos : h = Head(colaNew) /\ h \in ToSet(colaNew)
  BY <1>1, Desencola
<1> DEFINE est == [estado EXCEPT ![h] = "READY"]
           listos == Append(colaReady, h)
<1>3. estado[h] = "NEW"
  BY <1>2 DEF Orden, Ubicados
<1>4. listos \in Seq(Procesos) /\ ToSet(listos) = ToSet(colaReady) \cup {h}
  BY <1>1, Encola
<1>5. est \in [Procesos -> Estados] /\ Pasa(h, "READY", estado, est)
  BY <1>1 DEF Estados, Pasa
<1>6. \A x \in ToSet(listos) : est[x] = "READY"
  BY <1>4, <1>5, EnReady DEF Pasa
<1>7. CriterioEnvio(cpuLibre, listos, est, aCPU, FALSE)
  BY <1>2 DEF NewAReady
<1> HIDE DEF est, listos
<1>8. /\ ~ caido'
      /\ \A p \in Procesos : \/ estado'[p] = est[p]
                             \/ (est[p] = "READY" /\ estado'[p] = "EXEC")
  <2>1. /\ cpuLibre \in BOOLEAN /\ listos \in Seq(Procesos)
        /\ est \in [Procesos -> Estados]
    BY <1>1, <1>4, <1>5
  <2>2. /\ caido' => FALSE
        /\ \A p \in Procesos : \/ estado'[p] = est[p]
                               \/ (est[p] = "READY" /\ estado'[p] = "EXEC")
    BY ONLY <2>1, <1>6, <1>7, EnvioMueve
  <2>3. QED BY <2>2
<1>9. QED BY <1>3, <1>5, <1>8 DEF Admite, PasoDentro, Pasa

\* signalRecurso wakes a BLOCKED process, whose PCB exists.
LEMMA DespiertaVivo ==
    ASSUME TypeOK, Orden, NEW r \in Recursos
    PROVE  /\ ~ DespiertaLiberado(r)
           /\ \A p \in Procesos : LET e == EstadoTrasSignal(r, estado)[p]
                                  IN  e = estado[p] \/ (estado[p] = "BLOCKED" /\ e = "READY")
<1>1. CASE bloqueados[r] = <<>>
  BY <1>1 DEF EstadoTrasSignal, DespiertaLiberado
<1>2. CASE bloqueados[r] # <<>>
  <2>1. bloqueados[r] \in Seq(Procesos) /\ IsInjective(bloqueados[r])
    BY DEF TypeOK, Orden, SinCopias
  <2>2. PICK w \in Procesos : w = Head(bloqueados[r]) /\ w \in ToSet(bloqueados[r])
    BY <1>2, <2>1, Desencola
  <2>3. <<"recurso", r>> \in Filas /\ w \in Esperas[<<"recurso", r>>]
    BY <2>2, Renglones
  <2>4. estado[w] = "BLOCKED"
    BY <2>2, <2>3 DEF Orden, Ubicados
  <2>5. EstadoTrasSignal(r, estado) = [estado EXCEPT ![w] = "READY"]
    BY <1>2, <2>2 DEF EstadoTrasSignal
  <2>6. estado \in [Procesos -> Estados]
    BY DEF TypeOK
  <2>7. QED BY <1>2, <2>2, <2>4, <2>5, <2>6 DEF DespiertaLiberado, Liberado
<1>3. QED BY <1>1, <1>2

\* recibirDeCPU takes the process of the message out of EXEC, or lets it go on,
\* and may wake another one.
LEMMA CaminaRecibir ==
    ASSUME TypeOK, Turno, UnaCPU, Orden, ~ caido, HiloRecibir
    PROVE  Camina /\ ~ caido'
<1> DEFINE h == Mensaje.pid
<1>0. /\ colaReady \in Seq(Procesos) /\ estado \in [Procesos -> Estados]
      /\ \A x \in ToSet(colaReady) : x \in Procesos /\ estado[x] = "READY"
  BY EnReady DEF TypeOK
<1>1. CASE RecibirIO \/ RecibirWaitBloqueante
  <2> DEFINE est == [estado EXCEPT ![h] = "BLOCKED"]
  <2>1. h \in Procesos /\ estado[h] = "EXEC"
    BY <1>1, DelMensaje DEF RecibirIO, RecibirWaitBloqueante
  <2>2. est \in [Procesos -> Estados] /\ Pasa(h, "BLOCKED", estado, est)
    BY <1>0, <2>1 DEF Estados, Pasa
  <2>3. \A x \in ToSet(colaReady) : est[x] = "READY"
    BY <1>0, <2>1, <2>2 DEF Pasa
  <2>4. CriterioEnvio(TRUE, colaReady, est, aCPU, FALSE)
    BY <1>1 DEF RecibirIO, RecibirWaitBloqueante
  <2> HIDE DEF est
  <2>5. /\ ~ caido'
        /\ \A p \in Procesos : \/ estado'[p] = est[p]
                               \/ (est[p] = "READY" /\ estado'[p] = "EXEC")
    BY <1>0, <2>2, <2>3, <2>4, EnvioMueve
  <2>6. QED BY <2>1, <2>2, <2>5 DEF Camina, PasoDentro, Pasa
<1>2. CASE RecibirWait
  <2>1. EstadoRecibido = estado
    BY <1>2, DelMensaje DEF RecibirWait
  <2>2. CriterioEnvio(FALSE, colaReady, estado, Append(aCPU, h), FALSE)
    BY <1>2, <2>1 DEF RecibirWait
  <2>3. estado' = estado /\ ~ caido'
    BY <2>2 DEF CriterioEnvio
  <2>4. QED BY <2>3, Quieto
<1>3. CASE RecibirSignal
  <2> DEFINE r == Mensaje.arg
             est == EstadoTrasSignal(r, estado)
  <2>1. EstadoRecibido = estado /\ r \in Recursos
    BY <1>3, DelMensaje DEF RecibirSignal
  <2>2. CriterioEnvio(FALSE, ListosTrasSignal(r), est, Append(aCPU, h), DespiertaLiberado(r))
    BY <1>3, <2>1 DEF RecibirSignal
  <2>3. estado' = est /\ caido' = DespiertaLiberado(r)
    BY <2>2 DEF CriterioEnvio
  <2>4. QED BY <2>1, <2>3, DespiertaVivo DEF Camina, PasoDentro
<1>4. CASE RecibirIOInvalida \/ RecibirRecursoInvalido \/ RecibirFin
  <2>1. EstadoRecibido = estado
    BY <1>4, DelMensaje DEF RecibirIOInvalida, RecibirRecursoInvalido, RecibirFin
  <2>2. estado' = estado /\ caido' = caido
    BY <1>4, <2>1 DEF RecibirIOInvalida, RecibirRecursoInvalido, RecibirFin, SaleElDelMensaje
  <2>3. QED BY <2>2, Quieto
<1>5. ~ CaerSinPCB
  <2>1. SUFFICES ASSUME deCPU # <<>> PROVE Listado(Mensaje.pid)
    BY DEF CaerSinPCB
  <2>2. Mensaje.pid \in Procesos /\ DelVuelo = {Mensaje.pid}
    BY <2>1, MensajeTipo, VueloUnico
  <2>3. estado[Mensaje.pid] = "EXEC" /\ Mensaje.pid \notin EnSalida
    BY <2>2 DEF Orden, Ubicados
  <2>4. QED BY <2>2, <2>3, PIDs DEF Listado, EnSalida
<1>6. QED BY <1>1, <1>2, <1>3, <1>4, <1>5 DEF HiloRecibir

\* enviarAExit wakes processes and ends the one it holds.
LEMMA CaminaSalida ==
    ASSUME TypeOK, Orden, ~ caido, Salida, ~ CaerLiberando
    PROVE  Camina /\ ~ caido'
<1>0. /\ saliente # Nadie => saliente \in Procesos
      /\ saliente # Nadie => estado[saliente] = "EXEC" \/ estado[saliente] \in Finalizables \cap {"NEW", "READY"}
      /\ saliente # Nadie => ~ Liberado(saliente)
  <2>1. saliente # Nadie => saliente \in Procesos
    BY DEF TypeOK
  <2>2. saliente # Nadie => estado[saliente] = "EXEC"
                              \/ estado[saliente] \in Finalizables \cap {"NEW", "READY"}
    BY DEF Orden, SalientePosible
  <2>3. QED BY <2>1, <2>2 DEF Liberado
<1>1. ASSUME NEW r \in Recursos, LiberarRecurso(r)
      PROVE  Camina /\ ~ caido'
  <2>1. /\ saliente # Nadie /\ estado' = EstadoTrasSignal(r, estado)
        /\ caido' = (Liberado(saliente) \/ DespiertaLiberado(r))
    BY <1>1 DEF LiberarRecurso
  <2>2. QED BY <1>0, <2>1, DespiertaVivo DEF Camina, PasoDentro
<1>2. CASE TerminarSalida
  <2> DEFINE s == saliente
             est == [estado EXCEPT ![s] = "EXIT"]
             libre == cpuLibre \/ liberaCPU
  <2>1. s # Nadie /\ CriterioEnvio(libre, colaReady, est, aCPU, Liberado(s))
    BY <1>2 DEF TerminarSalida
  <2>2. /\ colaReady \in Seq(Procesos) /\ estado \in [Procesos -> Estados]
        /\ cpuLibre \in BOOLEAN /\ liberaCPU \in BOOLEAN
    BY DEF TypeOK
  <2>3. libre \in BOOLEAN
    BY <2>2
  <2>4. est \in [Procesos -> Estados] /\ Pasa(s, "EXIT", estado, est)
    BY <2>2 DEF Estados, Pasa
  <2>5. ~ Liberado(s)
    BY <1>0, <2>1
  <2> HIDE DEF est, libre
  <2>6. \A x \in ToSet(colaReady) : est[x] = "READY"
    BY <2>4, EnReady DEF Pasa
  <2>7. /\ ~ caido'
        /\ \A p \in Procesos : \/ estado'[p] = est[p]
                               \/ (est[p] = "READY" /\ estado'[p] = "EXEC")
    <3>1. /\ CriterioEnvio(libre, colaReady, est, aCPU, Liberado(s))
          /\ colaReady \in Seq(Procesos) /\ est \in [Procesos -> Estados]
      BY <2>1, <2>2, <2>4
    <3>2. /\ caido' => Liberado(s)
          /\ \A p \in Procesos : \/ estado'[p] = est[p]
                                 \/ (est[p] = "READY" /\ estado'[p] = "EXEC")
      BY ONLY <2>3, <2>6, <3>1, EnvioMueve
    <3>3. QED BY <2>5, <3>2
  <2>8. QED BY <1>0, <2>1, <2>4, <2>7 DEF Camina, PasoDentro, Pasa
<1>3. QED BY <1>1, <1>2 DEF Salida

\* vaciarExit frees the PCB of a process in EXIT.
LEMMA SueltaExit ==
    ASSUME TypeOK, Orden, LiberarPCB
    PROVE  Suelta /\ caido' = caido
<1>1. /\ hiloExit \in Procesos /\ estado \in [Procesos -> Estados]
      /\ estado' = [estado EXCEPT ![hiloExit] = "LIBERADO"] /\ caido' = caido
  BY DEF TypeOK, LiberarPCB
<1>2. estado[hiloExit] = "EXIT"
  BY <1>1, PIDs DEF Orden, Ubicados, EnSalida
<1>3. QED BY <1>1, <1>2 DEF Suelta

\* ... and takes off colaExit a PCB that exists.
LEMMA SacaVivo ==
    ASSUME TypeOK, ExitContado, Orden, SacarDeExit
    PROVE  estado' = estado /\ ~ caido'
<1>1. colaExit # <<>> /\ colaExit \in Seq(Procesos) /\ IsInjective(colaExit)
  BY Colas DEF TypeOK, ExitContado, SacarDeExit, Orden, SinCopias
<1>2. PICK h \in Procesos : h = Head(colaExit) /\ h \in ToSet(colaExit)
  BY <1>1, Desencola
<1>3. estado[h] = "EXIT"
  BY <1>2 DEF Orden, Ubicados, EnSalida
<1>4. QED BY <1>2, <1>3 DEF SacarDeExit, Liberado

\* The thread of an interface returns a BLOCKED process to READY.
LEMMA CaminaIO ==
    ASSUME TypeOK, Turno, Orden, ~ caido, NEW i \in Interfaces, HiloIO(i)
    PROVE  Camina /\ ~ caido'
<1>0. /\ colaIO[i] \in Seq(Procesos) /\ IsInjective(colaIO[i])
      /\ enServicio[i] \in Procesos \cup {Nadie}
      /\ <<"interfaz", i>> \in Filas
      /\ Esperas[<<"interfaz", i>>] = ToSet(colaIO[i]) \cup ({enServicio[i]} \ {Nadie})
      /\ estado \in [Procesos -> Estados] /\ colaReady \in Seq(Procesos)
      /\ cpuLibre \in BOOLEAN
  BY Renglones DEF TypeOK, Orden, SinCopias
<1>1. CASE AtenderIO(i)
  <2>1. /\ colaIO[i] # <<>> /\ estado' = estado
        /\ caido' => Liberado(Head(colaIO[i]))
    BY <1>1 DEF AtenderIO
  <2>2. PICK h \in Procesos : h = Head(colaIO[i]) /\ h \in ToSet(colaIO[i])
    BY <1>0, <2>1, Desencola
  <2>3. estado[h] = "BLOCKED"
    BY <1>0, <2>2 DEF Orden, Ubicados
  <2>4. QED BY <2>1, <2>2, <2>3, Quieto DEF Liberado
<1>2. CASE TerminarIO(i)
  <2> DEFINE w == enServicio[i]
             listos == Append(colaReady, w)
             est == [estado EXCEPT ![w] = "READY"]
  <2>1. w \in Procesos /\ CriterioEnvio(cpuLibre, listos, est, aCPU, Liberado(w))
    BY <1>0, <1>2 DEF TerminarIO
  <2>2. estado[w] = "BLOCKED" /\ ~ Liberado(w)
    BY <1>0, <2>1, PIDs DEF Orden, Ubicados, Liberado
  <2>3. listos \in Seq(Procesos) /\ ToSet(listos) = ToSet(colaReady) \cup {w}
    BY <1>0, <2>1, Encola
  <2>4. est \in [Procesos -> Estados] /\ Pasa(w, "READY", estado, est)
    BY <1>0 DEF Estados, Pasa
  <2> HIDE DEF est, listos
  <2>5. \A x \in ToSet(listos) : est[x] = "READY"
    BY <2>1, <2>3, <2>4, EnReady DEF Pasa
  <2>6. /\ ~ caido'
        /\ \A p \in Procesos : \/ estado'[p] = est[p]
                               \/ (est[p] = "READY" /\ estado'[p] = "EXEC")
    <3>1. /\ cpuLibre \in BOOLEAN /\ listos \in Seq(Procesos)
          /\ est \in [Procesos -> Estados]
      BY <1>0, <2>3, <2>4
    <3>2. /\ caido' => Liberado(w)
          /\ \A p \in Procesos : \/ estado'[p] = est[p]
                                 \/ (est[p] = "READY" /\ estado'[p] = "EXEC")
      BY ONLY <3>1, <2>1, <2>5, EnvioMueve
    <3>3. QED BY <2>2, <3>2
  <2>7. QED BY <2>2, <2>4, <2>6 DEF Camina, PasoDentro, Pasa
<1>3. QED BY <1>1, <1>2 DEF HiloIO

\* The console creates processes; it finalises none by itself.
LEMMA CaminaConsola ==
    ASSUME TypeOK, Orden, HiloConsola
    PROVE  /\ Camina
           /\ \A p \in Procesos : estado[p] # "SIN_CREAR" => estado'[p] = estado[p]
           /\ caido' => caido \/ "AUSENTE" \in Finalizables
<1>1. CASE IniciarProceso
  <2>1. /\ siguientePID \in Procesos /\ estado \in [Procesos -> Estados]
        /\ estado' = [estado EXCEPT ![siguientePID] = "NEW"] /\ caido' = caido
    BY <1>1, PIDs DEF IniciarProceso, TypeOK
  <2>2. estado[siguientePID] = "SIN_CREAR"
    <3>1. siguientePID \in Nat /\ siguientePID >= siguientePID
      BY DEF TypeOK
    <3>2. QED BY <2>1, <3>1 DEF Orden, PIDsEnOrden
  <2>3. QED BY <2>1, <2>2 DEF Camina, PasoDentro
<1>2. CASE ~ IniciarProceso
  <2>1. estado' = estado
    BY <1>2 DEF HiloConsola, SubirGrado, BajarGrado, PedirGrado, DetenerPlanificacion,
       IniciarPlanificacion, FinalizarNew, FinalizarReady, FinalizarBlocked, FinalizarExec,
       FinalizarExit, FinalizarAusente, Caer
  <2>2. caido' => caido \/ "AUSENTE" \in Finalizables
    BY <1>2 DEF HiloConsola, SubirGrado, BajarGrado, PedirGrado, DetenerPlanificacion,
       IniciarPlanificacion, FinalizarNew, FinalizarReady, FinalizarBlocked, FinalizarExec,
       FinalizarExit, FinalizarAusente, Caer
  <2>3. QED BY <2>1, <2>2, Quieto
<1>3. QED BY <1>1, <1>2

\* The CPU changes no state of the kernel, and connecting an interface none either.
LEMMA QuietoCPU ==
    ASSUME \/ HiloDispatch \/ HiloInterrupt
           \/ \E i \in Interfaces : ConectarInterfaz(i)
    PROVE  UNCHANGED <<estado, caido, colaNew, procesosEnNew, hiloNew,
                       gradoMultiprogramacion, gradoVigente>>
BY DEF HiloDispatch, HiloInterrupt, ConectarInterfaz, RecibirPCB, EjecutarExit,
   AtenderInterrupcion, EjecutarLlamada, DevolverPCB, DescartarInterrupcion, NoKernel

\* All the threads together.
LEMMA PasoDeEstados ==
    ASSUME Orden, InvInductivo, ~ caido, Next, ~ NewAReady, ~ LiberarPCB, ~ CaerLiberando
    PROVE  Camina
<1>1. TypeOK /\ ExitContado /\ Turno /\ UnaCPU
  BY DEF InvInductivo
<1>2. CASE HiloNew
  <2>1. estado' = estado
    BY <1>2 DEF HiloNew, TomarGrado, TomarNew, CaerSinNew, Caer
  <2>2. QED BY <2>1, Quieto
<1>3. CASE HiloExit
  BY <1>1, <1>3, SacaVivo, Quieto DEF HiloExit
<1>4. CASE Terminado
  BY <1>4, Quieto DEF Terminado, vars
<1>5. QED
  BY <1>1, <1>2, <1>3, <1>4, CaminaRecibir, CaminaSalida, CaminaIO, CaminaConsola,
     QuietoCPU, Quieto DEF Next

-------------------------------------------------------------------------------
(* The semaphores of the queues *)

NewContado == Len(colaNew) = procesosEnNew + (IF hiloNew = "listo" THEN 1 ELSE 0)

\* Only iniciarProceso and procesoNewAReady touch colaNew, its semaphore and
\* what the thread waits for, if the console finalises nobody in NEW.
LEMMA AjenoANew ==
    ASSUME "NEW" \notin Finalizables, Next, ~ HiloNew, ~ IniciarProceso
    PROVE  UNCHANGED <<colaNew, procesosEnNew, hiloNew>>
<1>1. CASE HiloRecibir
  <2>1. CASE CaerSinPCB
    BY <2>1 DEF CaerSinPCB, Caer
  <2>2. CASE \E ops : RecibirDeCPU(ops)
    BY <2>2 DEF RecibirDeCPU
  <2>3. QED BY <1>1, <2>1, <2>2 DEF HiloRecibir, RecibirIO, RecibirIOInvalida, RecibirWait,
      RecibirWaitBloqueante, RecibirSignal, RecibirRecursoInvalido, RecibirFin
<1>2. CASE Salida
  BY <1>2 DEF Salida, TerminarSalida, CaerLiberando, Caer, LiberarRecurso
<1>3. CASE HiloExit
  BY <1>3 DEF HiloExit, SacarDeExit, LiberarPCB
<1>4. CASE HiloConsola
  <2>1. \A p \in Procesos : ~ FinalizarNew(p)
    BY DEF FinalizarNew, Finalizar
  <2>2. QED BY <1>4, <2>1 DEF HiloConsola, SubirGrado, BajarGrado, PedirGrado,
      DetenerPlanificacion, IniciarPlanificacion, FinalizarReady, FinalizarBlocked,
      FinalizarExec, FinalizarExit, FinalizarAusente, Caer
<1>5. CASE \E i \in Interfaces : HiloIO(i)
  BY <1>5 DEF HiloIO, AtenderIO, TerminarIO
<1>6. CASE Terminado
  BY <1>6 DEF Terminado, vars
<1>7. QED BY <1>1, <1>2, <1>3, <1>4, <1>5, <1>6, QuietoCPU DEF Next

\* The counting semaphores count the queues they guard, so a thread that has
\* passed its sem_wait finds its process.
THEOREM SemaforosDeColasSiempre ==
    ASSUME "NEW" \notin Finalizables
    PROVE  Spec => []SemaforosDeColas
<1>1. Init => NewContado
  <2>1. Len(<<>>) = 0
    OBVIOUS
  <2>2. QED BY <2>1 DEF Init, NewContado
<1>2. TypeOK /\ NewContado /\ [Next]_vars => NewContado'
  <2> SUFFICES ASSUME TypeOK, NewContado, [Next]_vars
               PROVE  NewContado'
    OBVIOUS
  <2>1. /\ colaNew \in Seq(Procesos) /\ procesosEnNew \in Nat
        /\ Len(colaNew) = procesosEnNew + (IF hiloNew = "listo" THEN 1 ELSE 0)
    BY DEF TypeOK, NewContado
  <2>2. CASE UNCHANGED <<colaNew, procesosEnNew, hiloNew>>
    BY <2>2 DEF NewContado
  <2>3. CASE TomarGrado
    <3>1. /\ hiloNew # "listo" /\ hiloNew' # "listo"
          /\ UNCHANGED <<colaNew, procesosEnNew>>
      BY <2>3 DEF TomarGrado
    <3>2. QED BY <2>1, <3>1 DEF NewContado
  <2>4. CASE TomarNew
    <3>1. /\ hiloNew # "listo" /\ hiloNew' = "listo" /\ colaNew' = colaNew
          /\ procesosEnNew' = procesosEnNew - 1
      BY <2>4 DEF TomarNew
    <3>2. PICK n \in Nat : n = Len(colaNew)
      BY <2>1, Colas
    <3>3. QED BY <2>1, <3>1, <3>2 DEF NewContado
  <2>5. CASE NewAReady
    <3>1. /\ hiloNew = "listo" /\ hiloNew' # "listo" /\ colaNew' = Tail(colaNew)
          /\ procesosEnNew' = procesosEnNew /\ colaNew # <<>>
      BY <2>5 DEF NewAReady
    <3>2. PICK n \in Nat : n = Len(colaNew) /\ Len(colaNew') = n - 1
      BY <2>1, <3>1, Colas
    <3>3. QED BY <2>1, <3>1, <3>2 DEF NewContado
  <2>6. CASE IniciarProceso
    <3>1. /\ hiloNew' = hiloNew /\ colaNew' = Append(colaNew, siguientePID)
          /\ procesosEnNew' = procesosEnNew + 1 /\ siguientePID \in Procesos
      BY <2>6, PIDs DEF IniciarProceso, TypeOK
    <3>2. PICK n \in Nat : n = Len(colaNew) /\ Len(colaNew') = n + 1
      BY <2>1, <3>1, Colas
    <3>3. QED BY <2>1, <3>1, <3>2 DEF NewContado
  <2>7. CASE CaerSinNew
    BY <2>2, <2>7 DEF CaerSinNew, Caer
  <2>8. QED BY <2>2, <2>3, <2>4, <2>5, <2>6, <2>7, AjenoANew DEF HiloNew, vars
<1>3. Spec => []NewContado
  BY <1>1, <1>2, Tipos, PTL DEF Spec
<1>4. NewContado /\ ExitContado <=> SemaforosDeColas
  BY DEF NewContado, SemaforosDeColas
<1>5. QED BY <1>3, <1>4, Tipos, PTL

-------------------------------------------------------------------------------
(* The degree of multiprogramming *)

\* The admitted processes, counted: a step within leaves them alone, the
\* admission of one adds it and vaciarExit takes it away.
LEMMA CuentaAdmitidos ==
    /\ IsFiniteSet(Admitidos) /\ Cardinality(Admitidos) \in Nat
    /\ "NEW" \notin Finalizables /\ Camina => Admitidos' = Admitidos
    /\ "NEW" \notin Finalizables /\ Admite =>
         Cardinality(Admitidos') = Cardinality(Admitidos) + 1
    /\ Suelta => Cardinality(Admitidos') = Cardinality(Admitidos) - 1
<1>1. IsFiniteSet(Procesos)
  BY ConstantesOK, FS_Interval DEF Procesos
<1>2. IsFiniteSet(Admitidos) /\ Cardinality(Admitidos) \in Nat
  <2>1. Admitidos \subseteq Procesos
    BY DEF Admitidos
  <2>2. QED BY <1>1, <2>1, FS_Subset, FS_CardinalityType
<1> DEFINE Adm(e) == e \in {"READY", "EXEC", "BLOCKED", "EXIT"}
<1>3. \A a, b : "NEW" \notin Finalizables /\ PasoDentro(a, b) => (Adm(a) <=> Adm(b))
  BY DEF PasoDentro
<1>4. /\ \A p : p \in Admitidos <=> p \in Procesos /\ Adm(estado[p])
      /\ \A p : p \in Admitidos' <=> p \in Procesos /\ Adm(estado'[p])
  BY DEF Admitidos
<1>5. ~ Adm("NEW") /\ Adm("READY") /\ Adm("EXEC") /\ Adm("EXIT") /\ ~ Adm("LIBERADO")
  OBVIOUS
<1> HIDE DEF Adm
<1>6. ASSUME "NEW" \notin Finalizables, Camina
      PROVE  Admitidos' = Admitidos
  BY <1>3, <1>4, <1>6 DEF Camina
<1>7. ASSUME "NEW" \notin Finalizables, Admite
      PROVE  Cardinality(Admitidos') = Cardinality(Admitidos) + 1
  <2>1. PICK h \in Procesos :
          /\ estado[h] = "NEW" /\ estado'[h] \in {"READY", "EXEC"}
          /\ \A p \in Procesos \ {h} : PasoDentro(estado[p], estado'[p])
    BY <1>7 DEF Admite
  <2>2. h \notin Admitidos /\ h \in Admitidos'
    BY <1>4, <1>5, <2>1
  <2>3. \A p : p # h => (p \in Admitidos <=> p \in Admitidos')
    BY <1>3, <1>4, <1>7, <2>1
  <2>4. Admitidos' = Admitidos \cup {h}
    BY <2>2, <2>3
  <2>5. QED BY <1>2, <2>2, <2>4, FS_AddElement
<1>8. ASSUME Suelta
      PROVE  Cardinality(Admitidos') = Cardinality(Admitidos) - 1
  <2>1. PICK h \in Procesos :
          /\ estado[h] = "EXIT" /\ estado'[h] = "LIBERADO"
          /\ \A p \in Procesos \ {h} : estado'[p] = estado[p]
    BY <1>8 DEF Suelta
  <2>2. h \in Admitidos /\ h \notin Admitidos'
    BY <1>4, <1>5, <2>1
  <2>3. \A p : p # h => (p \in Admitidos <=> p \in Admitidos')
    BY <1>4, <2>1
  <2>4. Admitidos' = Admitidos \ {h}
    BY <2>2, <2>3
  <2>5. QED BY <1>2, <2>2, <2>4, FS_RemoveElement
<1>9. QED BY <1>2, <1>6, <1>7, <1>8

\* Only procesoNewAReady, vaciarExit and the console handle the degree.
LEMMA AjenoAlGrado ==
    ASSUME Next, ~ HiloNew, ~ LiberarPCB, ~ SubirGrado, ~ BajarGrado
    PROVE  UNCHANGED <<gradoMultiprogramacion, gradoVigente, hiloNew>>
<1>1. CASE HiloRecibir
  <2>1. CASE CaerSinPCB
    BY <2>1 DEF CaerSinPCB, Caer
  <2>2. CASE \E ops : RecibirDeCPU(ops)
    BY <2>2 DEF RecibirDeCPU
  <2>3. QED BY <1>1, <2>1, <2>2 DEF HiloRecibir, RecibirIO, RecibirIOInvalida, RecibirWait,
      RecibirWaitBloqueante, RecibirSignal, RecibirRecursoInvalido, RecibirFin
<1>2. CASE Salida
  BY <1>2 DEF Salida, TerminarSalida, CaerLiberando, Caer, LiberarRecurso
<1>3. CASE SacarDeExit
  BY <1>3 DEF SacarDeExit
<1>4. CASE HiloConsola
  BY <1>4 DEF HiloConsola, IniciarProceso, PedirGrado, DetenerPlanificacion,
     IniciarPlanificacion, FinalizarNew, FinalizarReady, FinalizarBlocked, FinalizarExec,
     FinalizarExit, FinalizarAusente, Caer
<1>5. CASE \E i \in Interfaces : HiloIO(i)
  BY <1>5 DEF HiloIO, AtenderIO, TerminarIO
<1>6. CASE Terminado
  BY <1>6 DEF Terminado, vars
<1>7. QED BY <1>1, <1>2, <1>3, <1>4, <1>5, <1>6, QuietoCPU DEF Next, HiloExit

\* Every unit of the degree is free, held by procesoNewAReady or taken by an
\* admitted process, also while the console is changing the degree, if it
\* finalises nobody who is NEW, BLOCKED or in EXIT.
THEOREM GradoContadoSiempre ==
    ASSUME Finalizables \cap {"NEW", "BLOCKED", "EXIT"} = {}
    PROVE  Spec => []GradoContado
<1> DEFINE tiene == IF hiloNew = "grado" THEN 0 ELSE 1
           c == Cardinality(Admitidos)
<1>1. Init => GradoContado
  <2> SUFFICES ASSUME Init PROVE GradoContado
    OBVIOUS
  <2>1. Admitidos = {}
    BY DEF Init, Admitidos
  <2>2. /\ gradoMultiprogramacion = gradoVigente /\ hiloNew = "grado"
        /\ gradoVigente \in Nat
    BY ConstantesOK DEF Init
  <2>3. Cardinality(Admitidos) = 0
    BY <2>1, FS_EmptySet
  <2>4. QED BY <2>2, <2>3 DEF GradoContado
<1>2. Orden /\ InvInductivo /\ GradoContado /\ [Next]_vars => GradoContado'
  <2> SUFFICES ASSUME Orden, InvInductivo, GradoContado, [Next]_vars
               PROVE  GradoContado'
    OBVIOUS
  <2>0. TypeOK /\ Turno /\ "NEW" \notin Finalizables
    BY DEF InvInductivo
  <2>1. /\ gradoMultiprogramacion \in Nat /\ gradoVigente \in Nat /\ c \in Nat
        /\ tiene \in {0, 1}
        /\ gradoMultiprogramacion + tiene + c = gradoVigente
    BY <2>0, CuentaAdmitidos DEF TypeOK, GradoContado
  <2>2. ASSUME Admitidos' = Admitidos,
               UNCHANGED <<gradoMultiprogramacion, gradoVigente, hiloNew>>
        PROVE  GradoContado'
    BY <2>2 DEF GradoContado
  <2>3. CASE UNCHANGED vars
    BY <2>2, <2>3 DEF vars, Admitidos
  <2>4. CASE TomarGrado
    <3>1. /\ hiloNew = "grado" /\ hiloNew' = "new" /\ Admitidos' = Admitidos
          /\ gradoMultiprogramacion' = gradoMultiprogramacion - 1
          /\ gradoVigente' = gradoVigente
      BY <2>4 DEF TomarGrado, Admitidos
    <3>2. QED BY <2>1, <3>1 DEF GradoContado
  <2>5. CASE TomarNew
    <3>1. /\ hiloNew # "grado" /\ hiloNew' # "grado" /\ Admitidos' = Admitidos
          /\ UNCHANGED <<gradoMultiprogramacion, gradoVigente>>
      BY <2>5 DEF TomarNew, Admitidos
    <3>2. QED BY <2>1, <3>1 DEF GradoContado
  <2>6. CASE NewAReady
    <3>1. /\ hiloNew # "grado" /\ hiloNew' = "grado"
          /\ UNCHANGED <<gradoMultiprogramacion, gradoVigente>>
      BY <2>6 DEF NewAReady
    <3>2. Cardinality(Admitidos') = c + 1
      BY <2>0, <2>6, AdmiteNew, CuentaAdmitidos
    <3> HIDE DEF c
    <3>3. QED BY <2>1, <3>1, <3>2 DEF GradoContado
  <2>7. CASE CaerSinNew
    BY <2>2, <2>7 DEF CaerSinNew, Caer, Admitidos
  <2>8. CASE LiberarPCB
    <3>1. /\ gradoMultiprogramacion' = gradoMultiprogramacion + 1
          /\ UNCHANGED <<hiloNew, gradoVigente>>
      BY <2>8 DEF LiberarPCB, DevolverGrado
    <3>2. Cardinality(Admitidos') = c - 1
      BY <2>0, <2>8, SueltaExit, CuentaAdmitidos
    <3> HIDE DEF c
    <3>3. QED BY <2>1, <3>1, <3>2 DEF GradoContado
  <2>9. CASE SubirGrado \/ BajarGrado
    <3>1. /\ \/ /\ gradoMultiprogramacion' = gradoMultiprogramacion + 1
                /\ gradoVigente' = gradoVigente + 1
             \/ /\ gradoMultiprogramacion' = gradoMultiprogramacion - 1
                /\ gradoVigente' = gradoVigente - 1
          /\ hiloNew' = hiloNew /\ Admitidos' = Admitidos
      BY <2>9 DEF SubirGrado, BajarGrado, Admitidos
    <3>2. QED BY <2>1, <3>1 DEF GradoContado
  <2>10. CASE CaerLiberando
    BY <2>2, <2>10 DEF CaerLiberando, Caer, Admitidos
  <2>11. ASSUME Next, ~ HiloNew, ~ LiberarPCB, ~ SubirGrado, ~ BajarGrado, ~ CaerLiberando
         PROVE  GradoContado'
    <3>1. ~ caido /\ ~ NewAReady
      BY <2>11 DEF Next, HiloNew
    <3>2. Admitidos' = Admitidos
      BY <2>0, <2>11, <3>1, PasoDeEstados, CuentaAdmitidos
    <3>3. QED BY <2>2, <2>11, <3>2, AjenoAlGrado
  <2>12. QED BY <2>3, <2>4, <2>5, <2>6, <2>7, <2>8, <2>9, <2>10, <2>11 DEF HiloNew
<1>3. Finalizables \cap {"BLOCKED", "EXIT"} = {}
  OBVIOUS
<1>4. QED BY <1>1, <1>2, <1>3, OrdenSiempre, InvInductivoSiempre, PTL DEF Spec

-------------------------------------------------------------------------------
(* The five-state diagram *)

\* At most one PCB is out.
LEMMA VueloUno ==
    ASSUME TypeOK, UnaCPU, NEW p \in DelVuelo, NEW q \in DelVuelo
    PROVE  p = q
<1>1. CASE aCPU # <<>> \/ deCPU # <<>> \/ enCPU # Nadie \/ liberaCPU
  <2>1. \E x : DelVuelo = {x}
    BY <1>1, VueloUnico
  <2>2. QED BY <2>1
<1>2. CASE aCPU = <<>> /\ deCPU = <<>> /\ enCPU = Nadie /\ ~ liberaCPU
  <2>1. DelVuelo = {}
    BY <1>2, ColaVacia DEF DelVuelo
  <2>2. QED BY <2>1
<1>3. QED BY <1>1, <1>2

\* What the diagram permits, of the state the kernel is in.
Permite == Abstracto!Permitido(estado, gradoVigente)

\* The kernel is always in a state that the diagram of five states permits.
LEMMA PermiteSiempre ==
    ASSUME Finalizables \cap {"NEW", "BLOCKED", "EXIT"} = {}
    PROVE  Spec => []Permite
<1>1. EjecutaElDelVuelo /\ GradoContado /\ InvInductivo => Permite
  <2> SUFFICES ASSUME EjecutaElDelVuelo, GradoContado, InvInductivo
               PROVE  Permite
    OBVIOUS
  <2>1. TypeOK /\ UnaCPU
    BY DEF InvInductivo
  <2>2. \A p, q \in Abstracto!Ejecutando(estado) : p = q
    BY <2>1, VueloUno DEF EjecutaElDelVuelo, EnEjecucion, Abstracto!Ejecutando,
       Abstracto!EnEstado
  <2>3. Cardinality(Admitidos) <= gradoVigente
    <3>1. /\ gradoMultiprogramacion \in Nat /\ Cardinality(Admitidos) \in Nat
          /\ gradoVigente \in Nat
      BY <2>1, CuentaAdmitidos DEF TypeOK
    <3>2. QED BY <3>1 DEF GradoContado
  <2>4. Abstracto!AdmitidosAbs(estado) = Admitidos
    BY DEF Abstracto!AdmitidosAbs, Abstracto!EnEstado, Admitidos
  <2>5. Abstracto!Cardinality(Admitidos) = Cardinality(Admitidos)
    BY DEF Abstracto!Cardinality, Cardinality
  <2>6. QED BY <2>2, <2>3, <2>4, <2>5 DEF Permite, Abstracto!Permitido
<1>2. Finalizables \cap {"BLOCKED", "EXIT"} = {}
  OBVIOUS
<1>3. QED BY <1>1, <1>2, EjecutaElDelVueloSiempre, GradoContadoSiempre, InvInductivoSiempre, PTL

\* The changes of state of the threads are arcs of the diagram.
LEMMA PorArcos ==
    /\ \A a, b : PasoDentro(a, b) /\ a # b => <<a, b>> \in Abstracto!Arcos
    /\ <<"NEW", "READY">> \in Abstracto!Arcos
    /\ <<"NEW", "EXEC">> \in Abstracto!Arcos
    /\ <<"EXIT", "LIBERADO">> \in Abstracto!Arcos
<1>1. /\ Abstracto!Diagrama \subseteq Abstracto!Arcos
      /\ \A e \in Finalizables : <<e, "EXIT">> \in Abstracto!Arcos
  BY DEF Abstracto!Arcos
<1>2. /\ <<"SIN_CREAR", "NEW">> \in Abstracto!Diagrama
      /\ <<"NEW", "READY">> \in Abstracto!Diagrama
      /\ <<"NEW", "EXEC">> \in Abstracto!Diagrama
      /\ <<"READY", "EXEC">> \in Abstracto!Diagrama
      /\ <<"EXEC", "BLOCKED">> \in Abstracto!Diagrama
      /\ <<"BLOCKED", "READY">> \in Abstracto!Diagrama
      /\ <<"BLOCKED", "EXEC">> \in Abstracto!Diagrama
      /\ <<"EXEC", "EXIT">> \in Abstracto!Diagrama
      /\ <<"EXIT", "LIBERADO">> \in Abstracto!Diagrama
  BY DEF Abstracto!Diagrama
<1>3. QED BY <1>1, <1>2 DEF PasoDentro

\* The console asks for a degree, and reaches it one unit at a time.
LEMMA PasoDeGrado ==
    ASSUME TypeOK, SubirGrado \/ BajarGrado
    PROVE  /\ gradoVigente' \in {gradoVigente - 1, gradoVigente + 1} \cap Nat
           /\ estado' = estado
<1>1. gradoVigente \in Nat /\ gradoNuevo \in Nat
  BY DEF TypeOK
<1>2. /\ gradoVigente' = gradoVigente + 1
         \/ (gradoVigente' = gradoVigente - 1 /\ gradoNuevo < gradoVigente)
      /\ estado' = estado
  BY DEF SubirGrado, BajarGrado
<1>3. QED BY ONLY <1>1, <1>2

\* The threads of the scheduler together implement the five-state diagram with
\* one CPU and a bounded number of admitted processes, if the console finalises
\* only processes that are in READY or executing.
THEOREM CumpleCincoEstadosSiempre ==
    ASSUME Finalizables \cap {"NEW", "BLOCKED", "EXIT"} = {}
    PROVE  Spec => CumpleCincoEstados
<1>1. Init => Abstracto!InitAbs
  BY ConstantesOK DEF Init, Abstracto!InitAbs
<1>2. /\ Orden /\ InvInductivo /\ InvInductivo' /\ Permite' /\ [Next]_vars
      => [Abstracto!NextAbs]_<<estado, gradoVigente>>
  <2> SUFFICES ASSUME Orden, InvInductivo, InvInductivo', Permite', [Next]_vars
               PROVE  Abstracto!NextAbs \/ UNCHANGED <<estado, gradoVigente>>
    BY Zenon
  <2>1. TypeOK /\ Turno /\ Abstracto!Permitido(estado', gradoVigente')
    BY DEF InvInductivo, Permite, Abstracto!Permitido, Abstracto!Ejecutando,
       Abstracto!AdmitidosAbs, Abstracto!EnEstado
  <2>2. estado' \in [Procesos -> Abstracto!EstadosAbs]
    BY DEF InvInductivo, TypeOK, Estados, Abstracto!EstadosAbs
  <2>3. CASE UNCHANGED <<estado, gradoVigente>>
    BY <2>3
  <2>4. ASSUME \A p \in Procesos :
                 estado'[p] # estado[p] => <<estado[p], estado'[p]>> \in Abstracto!Arcos,
               gradoVigente' = gradoVigente
        PROVE  Abstracto!NextAbs
    BY <2>1, <2>2, <2>4 DEF Abstracto!NextAbs, Abstracto!MoverProcesos
  <2>5. CASE SubirGrado \/ BajarGrado
    BY <2>1, <2>5, PasoDeGrado DEF Abstracto!NextAbs, Abstracto!CambiarGrado
  <2>6. CASE NewAReady
    <3>1. Admite /\ gradoVigente' = gradoVigente
      BY <2>1, <2>6, AdmiteNew DEF NewAReady
    <3>2. \A p \in Procesos :
            estado'[p] # estado[p] => <<estado[p], estado'[p]>> \in Abstracto!Arcos
      BY <3>1, PorArcos DEF Admite
    <3>3. QED BY <2>4, <3>1, <3>2
  <2>7. CASE LiberarPCB
    <3>1. Suelta /\ gradoVigente' = gradoVigente
      BY <2>1, <2>7, SueltaExit DEF LiberarPCB
    <3>2. \A p \in Procesos :
            estado'[p] # estado[p] => <<estado[p], estado'[p]>> \in Abstracto!Arcos
      BY <3>1, PorArcos DEF Suelta
    <3>3. QED BY <2>4, <3>1, <3>2
  <2>8. CASE CaerLiberando
    BY <2>3, <2>8 DEF CaerLiberando, Caer
  <2>9. CASE UNCHANGED vars
    BY <2>3, <2>9 DEF vars
  <2>10. ASSUME Next, ~ NewAReady, ~ LiberarPCB, ~ SubirGrado, ~ BajarGrado, ~ CaerLiberando
         PROVE  Abstracto!NextAbs
    <3>1. ~ caido
      BY <2>10 DEF Next
    <3>2. Camina
      BY <2>10, <3>1, PasoDeEstados
    <3>3. gradoVigente' = gradoVigente
      <4>1. CASE HiloNew
        BY <2>10, <4>1 DEF HiloNew, TomarGrado, TomarNew, CaerSinNew, Caer
      <4>2. QED BY <2>10, <4>1, AjenoAlGrado
    <3>4. QED BY <2>4, <3>2, <3>3, PorArcos DEF Camina
  <2>11. QED BY <2>3, <2>5, <2>6, <2>7, <2>8, <2>9, <2>10
<1>3. Finalizables \cap {"BLOCKED", "EXIT"} = {}
  OBVIOUS
<1>4. QED BY <1>1, <1>2, <1>3, OrdenSiempre, InvInductivoSiempre, PermiteSiempre, PTL
      DEF Spec, CumpleCincoEstados, Abstracto!SpecAbs

-------------------------------------------------------------------------------
(* Who handles the resources *)

\* The resources change hands in the rounds of WAIT and SIGNAL, in
\* liberarRecursos and when the console finalises a BLOCKED process.
LEMMA AjenoARecursos ==
    ASSUME Finalizables \cap {"BLOCKED", "EXIT"} = {}, Next,
           ~ RecibirWait, ~ RecibirWaitBloqueante, ~ RecibirSignal,
           \A r \in Recursos : ~ LiberarRecurso(r)
    PROVE  UNCHANGED <<instancias, bloqueados, recursosAsignados>>
<1>1. CASE HiloRecibir
  BY <1>1 DEF HiloRecibir, RecibirIO, RecibirIOInvalida, RecibirRecursoInvalido, RecibirFin,
     SaleElDelMensaje, CaerSinPCB, Caer
<1>2. CASE Salida
  BY <1>2 DEF Salida, TerminarSalida, CaerLiberando, Caer
<1>3. CASE HiloExit
  BY <1>3 DEF HiloExit, SacarDeExit, LiberarPCB
<1>4. CASE HiloConsola
  <2>1. \A p \in Procesos : ~ FinalizarBlocked(p)
    BY DEF FinalizarBlocked, Finalizar
  <2>2. QED BY <1>4, <2>1 DEF HiloConsola, IniciarProceso, SubirGrado, BajarGrado, PedirGrado,
      DetenerPlanificacion, IniciarPlanificacion, FinalizarNew, FinalizarReady,
      FinalizarExec, FinalizarExit, FinalizarAusente, Caer
<1>5. CASE \E i \in Interfaces : HiloIO(i) \/ ConectarInterfaz(i)
  BY <1>5 DEF HiloIO, AtenderIO, TerminarIO, ConectarInterfaz
<1>6. CASE HiloDispatch \/ HiloInterrupt
  BY <1>6 DEF HiloDispatch, HiloInterrupt, RecibirPCB, EjecutarExit, AtenderInterrupcion,
     EjecutarLlamada, DevolverPCB, DescartarInterrupcion, NoKernel
<1>7. CASE HiloNew
  BY <1>7 DEF HiloNew, TomarGrado, TomarNew, NewAReady, CaerSinNew, Caer
<1>8. CASE Terminado
  BY <1>8 DEF Terminado, vars
<1>9. QED BY <1>1, <1>2, <1>3, <1>4, <1>5, <1>6, <1>7, <1>8 DEF Next

\* The channel to the kernel changes when a message is read or sent.
LEMMA AjenoADeCPU ==
    ASSUME Next, ~ HiloRecibir, ~ HiloDispatch
    PROVE  deCPU' = deCPU
<1>1. CASE Salida
  BY <1>1 DEF Salida, TerminarSalida, LiberarRecurso, CaerLiberando, Caer
<1>2. CASE HiloExit
  BY <1>2 DEF HiloExit, SacarDeExit, LiberarPCB
<1>3. CASE HiloConsola
  BY <1>3 DEF HiloConsola, IniciarProceso, SubirGrado, BajarGrado, PedirGrado,
     DetenerPlanificacion, IniciarPlanificacion, FinalizarNew, FinalizarReady,
     FinalizarBlocked, FinalizarExec, FinalizarExit, FinalizarAusente, Caer
<1>4. CASE \E i \in Interfaces : HiloIO(i) \/ ConectarInterfaz(i)
  BY <1>4 DEF HiloIO, AtenderIO, TerminarIO, ConectarInterfaz
<1>5. CASE HiloInterrupt
  BY <1>5 DEF HiloInterrupt, DescartarInterrupcion, NoKernel
<1>6. CASE HiloNew
  BY <1>6 DEF HiloNew, TomarGrado, TomarNew, NewAReady, CaerSinNew, Caer
<1>7. CASE Terminado
  BY <1>7 DEF Terminado, vars
<1>8. QED BY <1>1, <1>2, <1>3, <1>4, <1>5, <1>6, <1>7 DEF Next

\* enviarAExit is the only one that may find a repeated resource.
LEMMA AjenoARepetido ==
    ASSUME Next, ~ repetido, \A r \in Recursos : ~ LiberarRecurso(r)
    PROVE  ~ repetido'
<1>1. CASE HiloRecibir
  BY <1>1 DEF HiloRecibir, RecibirIO, RecibirIOInvalida, RecibirWait, RecibirWaitBloqueante,
     RecibirSignal, RecibirRecursoInvalido, RecibirFin, SaleElDelMensaje, EmpezarSalida,
     CaerSinPCB, Caer
<1>2. CASE Salida
  BY <1>2 DEF Salida, TerminarSalida, CaerLiberando, Caer
<1>3. CASE HiloExit
  BY <1>3 DEF HiloExit, SacarDeExit, LiberarPCB
<1>4. CASE HiloConsola
  BY <1>4 DEF HiloConsola, IniciarProceso, SubirGrado, BajarGrado, PedirGrado,
     DetenerPlanificacion, IniciarPlanificacion, FinalizarNew, FinalizarReady,
     FinalizarBlocked, FinalizarExec, FinalizarExit, FinalizarAusente, Caer, EmpezarSalida
<1>5. CASE \E i \in Interfaces : HiloIO(i) \/ ConectarInterfaz(i)
  BY <1>5 DEF HiloIO, AtenderIO, TerminarIO, ConectarInterfaz
<1>6. CASE HiloDispatch \/ HiloInterrupt
  BY <1>6 DEF HiloDispatch, HiloInterrupt, RecibirPCB, EjecutarExit, AtenderInterrupcion,
     EjecutarLlamada, DevolverPCB, DescartarInterrupcion, NoKernel
<1>7. CASE HiloNew
  BY <1>7 DEF HiloNew, TomarGrado, TomarNew, NewAReady, CaerSinNew, Caer
<1>8. CASE Terminado
  BY <1>8 DEF Terminado, vars
<1>9. QED BY <1>1, <1>2, <1>3, <1>4, <1>5, <1>6, <1>7, <1>8 DEF Next

-------------------------------------------------------------------------------
(* Disciplined programs *)

\* Nobody holds or waits for a resource twice.
UnaVez == \A p \in Procesos, r \in Recursos : recursosAsignados[p][r] <= 1

\* The message m may be read now as when it was sent.
Legal(m) ==
    m.arg \in Recursos =>
      /\ m.op = "INSTRUCCION_WAIT" => recursosAsignados[m.pid][m.arg] = 0
      /\ m.op = "INSTRUCCION_SIGNAL" => recursosAsignados[m.pid][m.arg] > 0

\* UsoDisciplinado in terms of the two.
LEMMA PorPartes == UsoDisciplinado <=> UnaVez /\ ~ repetido /\ \A k \in DOMAIN deCPU : Legal(deCPU[k])
BY DEF UsoDisciplinado, UnaVez, Legal

\* The message that recibirDeCPU reads is legal.
LEMMA MensajeLegal ==
    ASSUME TypeOK, UsoDisciplinado, deCPU # <<>>
    PROVE  Legal(Mensaje)
<1>1. 1 \in DOMAIN deCPU /\ deCPU[1] = Mensaje
  <2>1. DOMAIN deCPU = 1 .. Len(deCPU) /\ Len(deCPU) \in Nat /\ Len(deCPU) # 0
    BY Colas, LenProperties DEF TypeOK
  <2>2. QED BY <2>1 DEF Mensaje
<1>2. QED BY <1>1, PorPartes

\* waitRecurso notes one more instance, the first of its process.
LEMMA Toma ==
    ASSUME TypeOK, Mensaje.pid \in Procesos, Mensaje.arg \in Recursos, TomarInstancia,
           recursosAsignados[Mensaje.pid][Mensaje.arg] = 0
    PROVE  /\ instancias'[Mensaje.arg] = instancias[Mensaje.arg] - 1
           /\ \A r \in Recursos : r # Mensaje.arg => instancias'[r] = instancias[r]
           /\ \A p \in Procesos, r \in Recursos :
                recursosAsignados'[p][r] =
                  IF p = Mensaje.pid /\ r = Mensaje.arg THEN 1 ELSE recursosAsignados[p][r]
<1>1. /\ instancias \in [Recursos -> Int]
      /\ recursosAsignados \in [Procesos -> [Recursos -> Nat]]
      /\ instancias' = [instancias EXCEPT ![Mensaje.arg] = @ - 1]
      /\ recursosAsignados' =
           [recursosAsignados EXCEPT ![Mensaje.pid][Mensaje.arg] = @ + 1]
  BY DEF TypeOK, TomarInstancia
<1>2. QED BY <1>1

\* signalRecurso gives back every occurrence of the name.
LEMMA Devuelve ==
    ASSUME TypeOK, NEW s \in Recursos, NEW q \in Procesos, SignalRecurso(s, q)
    PROVE  /\ instancias'[s] = instancias[s] + 1
           /\ bloqueados'[s] = IF bloqueados[s] = <<>> THEN <<>> ELSE Tail(bloqueados[s])
           /\ \A r \in Recursos : r # s => /\ instancias'[r] = instancias[r]
                                           /\ bloqueados'[r] = bloqueados[r]
           /\ \A p \in Procesos, r \in Recursos :
                recursosAsignados'[p][r] =
                  IF p = q /\ r = s THEN 0 ELSE recursosAsignados[p][r]
<1>1. /\ instancias \in [Recursos -> Int]
      /\ recursosAsignados \in [Procesos -> [Recursos -> Nat]]
      /\ bloqueados \in [Recursos -> Seq(Procesos)]
      /\ instancias' = [instancias EXCEPT ![s] = @ + 1]
      /\ recursosAsignados' = [recursosAsignados EXCEPT ![q][s] = 0]
      /\ bloqueados' = [bloqueados EXCEPT ![s] = IF @ = <<>> THEN @ ELSE Tail(@)]
  BY DEF TypeOK, SignalRecurso
<1>2. QED BY <1>1

\* The process of enviarAExit is not the one of a message.
LEMMA SalienteSinMensaje ==
    ASSUME TypeOK, UnaCPU, Turno, Orden, NEW k \in DOMAIN deCPU, saliente # Nadie
    PROVE  deCPU[k].pid \in Procesos /\ deCPU[k].pid # saliente
<1>1. deCPU[k].pid \in DelVuelo /\ deCPU # <<>>
  BY DEF DelVuelo
<1>2. deCPU[k].pid \in Procesos
  BY <1>1, VueloTipo
<1>3. estado[deCPU[k].pid] = "EXEC"
  BY <1>1, <1>2 DEF Orden, Ubicados
<1>4. ~ liberaCPU
  BY <1>1, VueloUnico
<1>5. estado[saliente] # "EXEC"
  BY <1>4 DEF Orden, SalientePosible
<1>6. QED BY <1>2, <1>3, <1>5

\* What a disciplined program sends is legal when it is sent.
LEMMA EnviaLegal ==
    ASSUME Disciplinados, TypeOK, UnaCPU, Orden, HiloDispatch, UsoDisciplinado
    PROVE  UsoDisciplinado'
<1>1. UNCHANGED <<recursosAsignados, repetido>>
  BY DEF HiloDispatch, RecibirPCB, EjecutarExit, AtenderInterrupcion, EjecutarLlamada,
     DevolverPCB, NoKernel
<1>2. CASE RecibirPCB
  BY <1>1, <1>2 DEF UsoDisciplinado, RecibirPCB
<1>3. ASSUME NEW h, h = enCPU, h # Nadie, NEW op, NEW arg, DevolverPCB(op, arg),
             Legal([pid |-> h, op |-> op, arg |-> arg])
      PROVE  UsoDisciplinado'
  <2> DEFINE m == [pid |-> h, op |-> op, arg |-> arg]
  <2>1. deCPU = <<>> /\ deCPU' = Append(deCPU, m)
    BY <1>3, VueloUnico DEF DevolverPCB
  <2>2. DOMAIN deCPU' = {1} /\ deCPU'[1] = m
    BY <2>1
  <2>3. /\ m.arg \in Recursos =>
             /\ m.op = "INSTRUCCION_WAIT" => recursosAsignados'[m.pid][m.arg] = 0
             /\ m.op = "INSTRUCCION_SIGNAL" => recursosAsignados'[m.pid][m.arg] > 0
    BY <1>1, <1>3 DEF Legal
  <2> HIDE DEF m
  <2>4. QED BY <1>1, <2>2, <2>3 DEF UsoDisciplinado
<1>4. CASE EjecutarExit
  <2>1. Legal([pid |-> enCPU, op |-> "INSTRUCCION_EXIT", arg |-> "ninguno"])
    BY DEF Legal
  <2>2. QED BY <1>3, <1>4, <2>1 DEF EjecutarExit
<1>5. CASE AtenderInterrupcion
  <2>1. Legal([pid |-> enCPU, op |-> "FINALIZAR_PROCESO", arg |-> "ninguno"])
    BY DEF Legal
  <2>2. enCPU # Nadie
    BY <1>5, PIDs DEF AtenderInterrupcion, TypeOK
  <2>3. QED BY <1>3, <1>5, <2>1, <2>2 DEF AtenderInterrupcion
<1>6. ASSUME NEW c \in Llamadas, EjecutarLlamada(c)
      PROVE  UsoDisciplinado'
  <2>1. Permitida(c) /\ enCPU # Nadie /\ DevolverPCB(c.op, c.arg)
    BY <1>6 DEF EjecutarLlamada
  <2>2. Legal([pid |-> enCPU, op |-> c.op, arg |-> c.arg])
    BY <2>1 DEF Legal, Permitida
  <2>3. QED BY <1>3, <2>1, <2>2
<1>7. QED BY <1>2, <1>4, <1>5, <1>6 DEF HiloDispatch

\* waitRecurso and signalRecurso on behalf of the CPU.
LEMMA RecibeDisciplinado ==
    ASSUME TypeOK, Turno, UnaCPU, Orden, UsoDisciplinado,
           RecibirWait \/ RecibirWaitBloqueante \/ RecibirSignal
    PROVE  UsoDisciplinado'
<1>1. /\ deCPU # <<>> /\ Mensaje.pid \in Procesos /\ Mensaje.arg \in Recursos
      /\ deCPU' = <<>> /\ repetido' = repetido
  BY DelMensaje DEF RecibirWait, RecibirWaitBloqueante, RecibirSignal, RecibirDeCPU
<1>2. Legal(Mensaje) /\ UnaVez /\ ~ repetido
  BY <1>1, MensajeLegal, PorPartes
<1>3. UnaVez'
  <2>1. CASE RecibirWait \/ RecibirWaitBloqueante
    <3>1. TomarInstancia /\ recursosAsignados[Mensaje.pid][Mensaje.arg] = 0
      BY <1>1, <1>2, <2>1 DEF Legal, RecibirWait, RecibirWaitBloqueante, RecibirDeCPU
    <3>2. \A p \in Procesos, r \in Recursos :
             recursosAsignados'[p][r] =
               IF p = Mensaje.pid /\ r = Mensaje.arg THEN 1 ELSE recursosAsignados[p][r]
      BY <1>1, <3>1, Toma
    <3>3. QED BY <1>2, <3>2 DEF UnaVez
  <2>2. CASE RecibirSignal
    <3>1. SignalRecurso(Mensaje.arg, Mensaje.pid)
      BY <2>2 DEF RecibirSignal
    <3>2. \A p \in Procesos, r \in Recursos :
             recursosAsignados'[p][r] =
               IF p = Mensaje.pid /\ r = Mensaje.arg THEN 0 ELSE recursosAsignados[p][r]
      BY ONLY <1>1, <3>1, TypeOK, Devuelve
    <3>3. QED BY <1>2, <3>2 DEF UnaVez
  <2>3. QED BY <2>1, <2>2
<1>4. DOMAIN deCPU' = {}
  BY <1>1
<1>5. QED BY <1>1, <1>2, <1>3, <1>4 DEF UsoDisciplinado, UnaVez

\* One iteration of liberarRecursos.
LEMMA LiberaDisciplinado ==
    ASSUME TypeOK, UnaCPU, Turno, Orden, UsoDisciplinado, NEW s \in Recursos,
           LiberarRecurso(s)
    PROVE  UsoDisciplinado'
<1>1. /\ saliente \in Procesos /\ saliente # Nadie /\ SignalRecurso(s, saliente)
      /\ repetido' = (repetido \/ recursosAsignados[saliente][s] > 1)
      /\ deCPU' = deCPU
  BY DEF LiberarRecurso, TypeOK
<1>2. UnaVez /\ ~ repetido /\ \A k \in DOMAIN deCPU : Legal(deCPU[k])
  BY PorPartes
<1>3. \A p \in Procesos, r \in Recursos :
         recursosAsignados'[p][r] =
           IF p = saliente /\ r = s THEN 0 ELSE recursosAsignados[p][r]
  BY ONLY <1>1, TypeOK, Devuelve
<1>4. UnaVez'
  BY <1>2, <1>3 DEF UnaVez
<1>5. ~ repetido'
  <2>1. recursosAsignados[saliente][s] \in Nat /\ recursosAsignados[saliente][s] <= 1
    BY <1>1, <1>2 DEF UnaVez, TypeOK
  <2>2. ~ (recursosAsignados[saliente][s] > 1)
    BY <2>1
  <2>3. QED BY <1>1, <1>2, <2>2
<1>6. ASSUME NEW k \in DOMAIN deCPU, deCPU[k].arg \in Recursos
      PROVE  recursosAsignados'[deCPU[k].pid][deCPU[k].arg] =
               recursosAsignados[deCPU[k].pid][deCPU[k].arg]
  <2>1. deCPU[k].pid \in Procesos /\ deCPU[k].pid # saliente
    BY <1>1, SalienteSinMensaje
  <2>2. QED BY <1>3, <1>6, <2>1
<1>7. QED BY <1>1, <1>2, <1>4, <1>5, <1>6 DEF UsoDisciplinado, UnaVez, Legal

\* recibirDeCPU takes the only message of the socket.
LEMMA RecibeOtro ==
    ASSUME TypeOK, Turno, UnaCPU, Orden, HiloRecibir
    PROVE  deCPU' = <<>> \/ deCPU' = deCPU
<1>1. CASE CaerSinPCB
  BY <1>1 DEF CaerSinPCB, Caer
<1>2. CASE \E ops : RecibirDeCPU(ops)
  BY <1>2, DelMensaje
<1>3. QED BY <1>1, <1>2 DEF HiloRecibir, RecibirIO, RecibirIOInvalida, RecibirWait,
    RecibirWaitBloqueante, RecibirSignal, RecibirRecursoInvalido, RecibirFin

\* A program that WAITs on what it lacks and SIGNALs what it holds keeps to it
\* although its messages wait in the socket while others are finalised: nobody
\* holds a name twice, so liberarRecursos never meets a repeated one
\* (recursos.c:62-93).
THEOREM UsoDisciplinadoSiempre ==
    ASSUME Disciplinados, Finalizables \cap {"BLOCKED", "EXIT"} = {}
    PROVE  Spec => []UsoDisciplinado
<1>1. Init => UsoDisciplinado
  <2> SUFFICES ASSUME Init PROVE UsoDisciplinado
    OBVIOUS
  <2>1. DOMAIN deCPU = {}
    BY DEF Init
  <2>2. QED BY <2>1 DEF Init, UsoDisciplinado
<1>2. InvInductivo /\ Orden /\ UsoDisciplinado /\ [Next]_vars => UsoDisciplinado'
  <2> SUFFICES ASSUME InvInductivo, Orden, UsoDisciplinado, [Next]_vars
               PROVE  UsoDisciplinado'
    OBVIOUS
  <2>1. TypeOK /\ Turno /\ UnaCPU
    BY DEF InvInductivo
  <2>2. CASE UNCHANGED vars
    BY <2>2 DEF vars, UsoDisciplinado
  <2>3. CASE HiloDispatch
    BY <2>1, <2>3, EnviaLegal
  <2>4. CASE RecibirWait \/ RecibirWaitBloqueante \/ RecibirSignal
    BY <2>1, <2>4, RecibeDisciplinado
  <2>5. CASE \E r \in Recursos : LiberarRecurso(r)
    BY <2>1, <2>5, LiberaDisciplinado
  <2>6. ASSUME Next, ~ HiloDispatch, ~ RecibirWait, ~ RecibirWaitBloqueante,
               ~ RecibirSignal, \A r \in Recursos : ~ LiberarRecurso(r)
        PROVE  UsoDisciplinado'
    <3>1. recursosAsignados' = recursosAsignados
      BY <2>6, AjenoARecursos
    <3>2. ~ repetido'
      BY <2>6, AjenoARepetido DEF UsoDisciplinado
    <3>3. deCPU' = deCPU \/ deCPU' = <<>>
      BY <2>1, <2>6, AjenoADeCPU, RecibeOtro
    <3>4. QED BY <3>1, <3>2, <3>3 DEF UsoDisciplinado
  <2>7. QED BY <2>2, <2>3, <2>4, <2>5, <2>6
<1>3. QED BY <1>1, <1>2, InvInductivoSiempre, OrdenSiempre, PTL DEF Spec

-------------------------------------------------------------------------------
(* The balance of the resources *)

\* The balance of one resource.
Cuadra(r) ==
    /\ instancias[r] = Instancias[r] - Cardinality(Piden(r))
    /\ Len(bloqueados[r]) = (IF instancias[r] < 0 THEN - instancias[r] ELSE 0)
    /\ ToSet(bloqueados[r]) \subseteq Piden(r)

\* The processes that have or wait for a resource can be counted.
LEMMA PidenFinito ==
    \A r \in Recursos : IsFiniteSet(Piden(r)) /\ Cardinality(Piden(r)) \in Nat
<1>1. IsFiniteSet(Procesos)
  BY ConstantesOK, FS_Interval DEF Procesos
<1>2. \A r \in Recursos : Piden(r) \subseteq Procesos
  BY DEF Piden
<1>3. QED BY <1>1, <1>2, FS_Subset, FS_CardinalityType

\* The balance of a resource depends on its own row of the tables.
LEMMA CuadraIgual ==
    ASSUME NEW r \in Recursos, Cuadra(r),
           instancias'[r] = instancias[r], bloqueados'[r] = bloqueados[r],
           \A p \in Procesos : recursosAsignados'[p][r] = recursosAsignados[p][r]
    PROVE  Cuadra(r)'
<1>1. Piden(r)' = Piden(r)
  BY DEF Piden
<1>2. QED BY <1>1 DEF Cuadra

\* One more process asks: it is granted an instance, or queued.
LEMMA CuadraAlTomar ==
    ASSUME TypeOK, NEW r \in Recursos, Cuadra(r), NEW h \in Procesos,
           recursosAsignados[h][r] = 0,
           instancias'[r] = instancias[r] - 1,
           \A p \in Procesos : recursosAsignados'[p][r] =
             IF p = h THEN 1 ELSE recursosAsignados[p][r],
           \/ instancias[r] > 0 /\ bloqueados'[r] = bloqueados[r]
           \/ ~ (instancias[r] > 0) /\ bloqueados'[r] = Append(bloqueados[r], h)
    PROVE  Cuadra(r)'
<1>1. Piden(r)' = Piden(r) \cup {h} /\ h \notin Piden(r)
  BY DEF Piden
<1>2. Cardinality(Piden(r)') = Cardinality(Piden(r)) + 1
  BY <1>1, PidenFinito, FS_AddElement
<1>3. PICK c \in Nat : c = Cardinality(Piden(r))
  BY PidenFinito
<1>4. PICK n \in Int : n = instancias[r]
  BY DEF TypeOK
<1>5. bloqueados[r] \in Seq(Procesos) /\ Instancias[r] \in Nat
  BY ConstantesOK DEF TypeOK
<1>6. PICK l \in Nat : l = Len(bloqueados[r])
  BY <1>5, Colas
<1>7. instancias'[r] = Instancias[r] - Cardinality(Piden(r)')
  BY <1>2, <1>3, <1>4, <1>5 DEF Cuadra
<1>8. l = (IF n < 0 THEN - n ELSE 0) /\ instancias'[r] = n - 1
  BY <1>4, <1>6 DEF Cuadra
<1>9. CASE n > 0 /\ bloqueados'[r] = bloqueados[r]
  <2>0. l = 0 /\ 0 = (IF n - 1 < 0 THEN - (n - 1) ELSE 0)
    BY <1>8, <1>9
  <2>1. Len(bloqueados'[r]) = (IF n - 1 < 0 THEN - (n - 1) ELSE 0)
    BY <1>6, <1>9, <2>0
  <2>2. ToSet(bloqueados'[r]) \subseteq Piden(r)'
    BY <1>1, <1>9 DEF Cuadra
  <2>3. QED BY <1>7, <1>8, <2>1, <2>2 DEF Cuadra
<1>10. CASE ~ (n > 0) /\ bloqueados'[r] = Append(bloqueados[r], h)
  <2>1. Len(bloqueados'[r]) = l + 1 /\ ToSet(bloqueados'[r]) = ToSet(bloqueados[r]) \cup {h}
    BY <1>5, <1>6, <1>10, Colas, Encola
  <2>2. l + 1 = (IF n - 1 < 0 THEN - (n - 1) ELSE 0)
    BY <1>8, <1>10
  <2>3. ToSet(bloqueados'[r]) \subseteq Piden(r)'
    BY <1>1, <2>1 DEF Cuadra
  <2>4. QED BY <1>7, <1>8, <2>1, <2>2, <2>3 DEF Cuadra
<1>11. QED BY <1>4, <1>9, <1>10

\* A holder gives the resource back: an instance is free, or a waiter has it.
LEMMA CuadraAlDevolver ==
    ASSUME TypeOK, NEW r \in Recursos, Cuadra(r), NEW q \in Procesos,
           recursosAsignados[q][r] > 0, q \notin ToSet(bloqueados[r]),
           IsInjective(bloqueados[r]),
           instancias'[r] = instancias[r] + 1,
           bloqueados'[r] = IF bloqueados[r] = <<>> THEN <<>> ELSE Tail(bloqueados[r]),
           \A p \in Procesos : recursosAsignados'[p][r] =
             IF p = q THEN 0 ELSE recursosAsignados[p][r]
    PROVE  Cuadra(r)'
<1>1. Piden(r)' = Piden(r) \ {q} /\ q \in Piden(r)
  BY DEF Piden
<1>2. Cardinality(Piden(r)') = Cardinality(Piden(r)) - 1
  BY <1>1, PidenFinito, FS_RemoveElement
<1>3. PICK c \in Nat : c = Cardinality(Piden(r))
  BY PidenFinito
<1>4. PICK n \in Int : n = instancias[r]
  BY DEF TypeOK
<1>5. bloqueados[r] \in Seq(Procesos) /\ Instancias[r] \in Nat
  BY ConstantesOK DEF TypeOK
<1>6. PICK l \in Nat : l = Len(bloqueados[r])
  BY <1>5, Colas
<1>7. instancias'[r] = Instancias[r] - Cardinality(Piden(r)')
  BY <1>2, <1>3, <1>4, <1>5 DEF Cuadra
<1>8. l = (IF n < 0 THEN - n ELSE 0) /\ instancias'[r] = n + 1
  BY <1>4, <1>6 DEF Cuadra
<1>9. CASE bloqueados[r] = <<>>
  <2>1. l = 0 /\ Len(bloqueados'[r]) = 0 /\ ToSet(bloqueados'[r]) = {}
    BY <1>5, <1>6, <1>9, Colas, ColaVacia
  <2>2. 0 = (IF n + 1 < 0 THEN - (n + 1) ELSE 0)
    BY <1>8, <2>1
  <2>3. QED BY <1>7, <1>8, <2>1, <2>2 DEF Cuadra
<1>10. CASE bloqueados[r] # <<>>
  <2>1. /\ l # 0 /\ Len(bloqueados'[r]) = l - 1
        /\ ToSet(bloqueados'[r]) \subseteq ToSet(bloqueados[r])
    BY <1>5, <1>6, <1>10, Colas, Desencola
  <2>2. l - 1 = (IF n + 1 < 0 THEN - (n + 1) ELSE 0)
    BY <1>8, <2>1
  <2>3. ToSet(bloqueados'[r]) \subseteq Piden(r)'
    BY <1>1, <2>1 DEF Cuadra
  <2>4. QED BY <1>7, <1>8, <2>1, <2>2, <2>3 DEF Cuadra
<1>11. QED BY <1>9, <1>10

\* Only a BLOCKED process waits for a resource.
LEMMA QuienEspera ==
    ASSUME Orden, NEW r \in Recursos, NEW q \in Procesos,
           estado[q] # "BLOCKED" \/ q = saliente
    PROVE  q \notin ToSet(bloqueados[r])
<1>1. /\ <<"recurso", r>> \in Filas
      /\ Esperas[<<"recurso", r>>] = ToSet(bloqueados[r])
  BY Renglones
<1>2. (\E f \in Filas : q \in Esperas[f]) <=> estado[q] = "BLOCKED" /\ q # saliente
  BY DEF Orden, Ubicados
<1>3. QED BY <1>1, <1>2

\* The rounds of WAIT and SIGNAL keep the balance;
LEMMA CuentaRecibe ==
    ASSUME TypeOK, Turno, UnaCPU, Orden, UsoDisciplinado, RecursosContados,
           RecibirWait \/ RecibirWaitBloqueante \/ RecibirSignal
    PROVE  RecursosContados'
<1>1. /\ deCPU # <<>> /\ Mensaje.pid \in Procesos /\ Mensaje.arg \in Recursos
      /\ estado[Mensaje.pid] = "EXEC"
  BY DelMensaje DEF RecibirWait, RecibirWaitBloqueante, RecibirSignal, RecibirDeCPU
<1>2. PICK h \in Procesos, s \in Recursos : h = Mensaje.pid /\ s = Mensaje.arg
  BY <1>1
<1>3. Legal(Mensaje) /\ \A r \in Recursos : Cuadra(r)
  BY <1>1, MensajeLegal DEF RecursosContados, Cuadra
<1>4. ASSUME NEW r \in Recursos PROVE Cuadra(r)'
  <2>1. CASE RecibirWait \/ RecibirWaitBloqueante
    <3>1. /\ TomarInstancia /\ recursosAsignados[h][s] = 0
          /\ \/ instancias[s] > 0 /\ bloqueados' = bloqueados
             \/ /\ ~ (instancias[s] > 0)
                /\ bloqueados' = [bloqueados EXCEPT ![s] = Append(@, h)]
      BY <1>1, <1>2, <1>3, <2>1 DEF Legal, RecibirWait, RecibirWaitBloqueante,
         RecibirDeCPU, HayInstancia
    <3>2. /\ instancias'[s] = instancias[s] - 1
          /\ r # s => instancias'[r] = instancias[r]
          /\ \A p \in Procesos, t \in Recursos : recursosAsignados'[p][t] =
               IF p = h /\ t = s THEN 1 ELSE recursosAsignados[p][t]
      BY <1>1, <1>2, <3>1, Toma
    <3>3. /\ r # s => bloqueados'[r] = bloqueados[r]
          /\ \/ instancias[s] > 0 /\ bloqueados'[s] = bloqueados[s]
             \/ ~ (instancias[s] > 0) /\ bloqueados'[s] = Append(bloqueados[s], h)
      BY <3>1 DEF TypeOK
    <3>4. CASE r # s
      BY <1>3, <3>2, <3>3, <3>4, CuadraIgual
    <3>5. CASE r = s
      <4>1. \A p \in Procesos : recursosAsignados'[p][s] =
               IF p = h THEN 1 ELSE recursosAsignados[p][s]
        BY <3>2
      <4>2. Cuadra(s)'
        BY ONLY <1>3, <3>1, <3>2, <3>3, <4>1, TypeOK, CuadraAlTomar
      <4>3. QED BY <3>5, <4>2
    <3>6. QED BY <3>4, <3>5
  <2>2. CASE RecibirSignal
    <3>1. SignalRecurso(s, h) /\ recursosAsignados[h][s] > 0
      BY <1>1, <1>2, <1>3, <2>2 DEF Legal, RecibirSignal, RecibirDeCPU
    <3>2. h \notin ToSet(bloqueados[s]) /\ IsInjective(bloqueados[s])
      BY <1>1, <1>2, QuienEspera DEF Orden, SinCopias
    <3>3. /\ instancias'[s] = instancias[s] + 1
          /\ bloqueados'[s] = IF bloqueados[s] = <<>> THEN <<>> ELSE Tail(bloqueados[s])
          /\ r # s => instancias'[r] = instancias[r] /\ bloqueados'[r] = bloqueados[r]
          /\ \A p \in Procesos, t \in Recursos : recursosAsignados'[p][t] =
               IF p = h /\ t = s THEN 0 ELSE recursosAsignados[p][t]
      BY <3>1, Devuelve
    <3>4. CASE r # s
      BY <1>3, <3>3, <3>4, CuadraIgual
    <3>5. CASE r = s
      <4>1. \A p \in Procesos : recursosAsignados'[p][s] =
               IF p = h THEN 0 ELSE recursosAsignados[p][s]
        BY <3>3
      <4>2. Cuadra(s)'
        BY ONLY <1>3, <3>1, <3>2, <3>3, <4>1, TypeOK, CuadraAlDevolver
      <4>3. QED BY <3>5, <4>2
    <3>6. QED BY <3>4, <3>5
  <2>3. QED BY <2>1, <2>2
<1>5. QED BY <1>4 DEF RecursosContados, Cuadra

\* ... and so does each iteration of liberarRecursos.
LEMMA CuentaLibera ==
    ASSUME TypeOK, Orden, RecursosContados, NEW s \in Recursos, LiberarRecurso(s)
    PROVE  RecursosContados'
<1>1. PICK h \in Procesos : h = saliente
  BY DEF LiberarRecurso, TypeOK
<1>2. SignalRecurso(s, h) /\ recursosAsignados[h][s] > 0
  BY <1>1 DEF LiberarRecurso
<1>3. \A r \in Recursos : Cuadra(r)
  BY DEF RecursosContados, Cuadra
<1>4. h \notin ToSet(bloqueados[s]) /\ IsInjective(bloqueados[s])
  BY <1>1, QuienEspera DEF Orden, SinCopias
<1>5. /\ instancias'[s] = instancias[s] + 1
      /\ bloqueados'[s] = IF bloqueados[s] = <<>> THEN <<>> ELSE Tail(bloqueados[s])
      /\ \A r \in Recursos : r # s => instancias'[r] = instancias[r] /\ bloqueados'[r] = bloqueados[r]
      /\ \A p \in Procesos, t \in Recursos : recursosAsignados'[p][t] =
           IF p = h /\ t = s THEN 0 ELSE recursosAsignados[p][t]
  BY <1>2, Devuelve
<1>6. ASSUME NEW r \in Recursos, r # s PROVE Cuadra(r)'
  BY <1>3, <1>5, <1>6, CuadraIgual
<1>7. Cuadra(s)'
  <2>1. \A p \in Procesos : recursosAsignados'[p][s] =
           IF p = h THEN 0 ELSE recursosAsignados[p][s]
    BY <1>5
  <2>2. QED BY ONLY <1>2, <1>3, <1>4, <1>5, <2>1, TypeOK, CuadraAlDevolver
<1>8. QED BY <1>6, <1>7 DEF RecursosContados, Cuadra

\* With disciplined programs the instances of a resource are always the
\* configured ones less those taken or waited for, and a negative value counts
\* the waiters, also while the resources of a finished process are being given
\* back (recursos.c:39-93).
THEOREM RecursosContadosSiempre ==
    ASSUME Disciplinados, Finalizables \cap {"BLOCKED", "EXIT"} = {}
    PROVE  Spec => []RecursosContados
<1>1. Init => RecursosContados
  <2> SUFFICES ASSUME Init, NEW r \in Recursos PROVE Cuadra(r)
    BY DEF RecursosContados, Cuadra
  <2>1. Piden(r) = {} /\ bloqueados[r] = <<>> /\ instancias[r] = Instancias[r]
    BY DEF Init, Piden
  <2>2. Instancias[r] \in Nat /\ Cardinality({}) = 0 /\ Len(<<>>) = 0 /\ ToSet(<<>>) = {}
    BY ConstantesOK, FS_EmptySet, ColaVacia
  <2>3. QED BY <2>1, <2>2 DEF Cuadra
<1>2. /\ InvInductivo /\ Orden /\ UsoDisciplinado /\ RecursosContados /\ [Next]_vars
      => RecursosContados'
  <2> SUFFICES ASSUME InvInductivo, Orden, UsoDisciplinado, RecursosContados, [Next]_vars
               PROVE  RecursosContados'
    OBVIOUS
  <2>1. TypeOK /\ Turno /\ UnaCPU
    BY DEF InvInductivo
  <2>2. CASE UNCHANGED <<instancias, bloqueados, recursosAsignados>>
    BY <2>2 DEF RecursosContados, Piden
  <2>3. CASE RecibirWait \/ RecibirWaitBloqueante \/ RecibirSignal
    BY <2>1, <2>3, CuentaRecibe
  <2>4. CASE \E r \in Recursos : LiberarRecurso(r)
    BY <2>1, <2>4, CuentaLibera
  <2>5. CASE UNCHANGED vars
    BY <2>2, <2>5 DEF vars
  <2>6. QED BY <2>2, <2>3, <2>4, <2>5, AjenoARecursos
<1>3. QED BY <1>1, <1>2, InvInductivoSiempre, OrdenSiempre, UsoDisciplinadoSiempre,
    PTL DEF Spec

\* waitRecurso never lets a resource have more holders than instances
\* (recursos.h:29), whoever is finalised while holding it.
THEOREM ExclusionMutuaSiempre ==
    ASSUME Disciplinados, Finalizables \cap {"BLOCKED", "EXIT"} = {}
    PROVE  Spec => []ExclusionMutua
<1>1. TypeOK /\ Orden /\ RecursosContados => ExclusionMutua
  <2> SUFFICES ASSUME TypeOK, Orden, RecursosContados, NEW r \in Recursos
               PROVE  Cardinality(Tienen(r)) <= Instancias[r]
    BY DEF ExclusionMutua
  <2>1. /\ bloqueados[r] \in Seq(Procesos) /\ IsInjective(bloqueados[r])
        /\ instancias[r] \in Int /\ Instancias[r] \in Nat
    BY ConstantesOK DEF TypeOK, Orden, SinCopias
  <2>2. /\ IsFiniteSet(ToSet(bloqueados[r]))
        /\ Cardinality(ToSet(bloqueados[r])) = Len(bloqueados[r])
    BY <2>1, SinCopiasCuenta
  <2>3. IsFiniteSet(Piden(r)) /\ Cardinality(Piden(r)) \in Nat
    BY PidenFinito
  <2>4. Piden(r) \cap ToSet(bloqueados[r]) = ToSet(bloqueados[r])
    BY DEF RecursosContados
  <2>5. Cardinality(Tienen(r)) = Cardinality(Piden(r)) - Len(bloqueados[r])
    <3>1. Cardinality(Piden(r) \ ToSet(bloqueados[r])) =
            Cardinality(Piden(r)) - Cardinality(Piden(r) \cap ToSet(bloqueados[r]))
      BY <2>2, <2>3, FS_Difference
    <3>2. QED BY ONLY <2>2, <2>4, <3>1 DEF Tienen
  <2>6. PICK n \in Int : n = instancias[r]
    BY <2>1
  <2>7. /\ n = Instancias[r] - Cardinality(Piden(r))
        /\ Len(bloqueados[r]) = (IF n < 0 THEN - n ELSE 0)
    BY <2>6 DEF RecursosContados
  <2>8. QED BY <2>1, <2>3, <2>5, <2>7
<1>2. QED BY <1>1, Tipos, OrdenSiempre, RecursosContadosSiempre, PTL

-------------------------------------------------------------------------------
(* No thread stops *)

\* What queue_pop finds: procesoNewAReady passes its semaphore only when there
\* is a process in colaNew.
LEMMA HayNuevo ==
    ASSUME TypeOK, SemaforosDeColas
    PROVE  ~ CaerSinNew
<1> SUFFICES ASSUME CaerSinNew PROVE FALSE
  OBVIOUS
<1>1. hiloNew = "listo" /\ Len(colaNew) = 0 /\ procesosEnNew \in Nat
  BY DEF CaerSinNew, TypeOK
<1>2. Len(colaNew) = procesosEnNew + 1
  BY <1>1 DEF SemaforosDeColas
<1>3. QED BY <1>1, <1>2

\* With disciplined programs and a console that finalises only processes in
\* READY or executing, no thread of the kernel dereferences a NULL or freed PCB.
THEOREM SinCaidaSiempre ==
    ASSUME Disciplinados, Finalizables \subseteq {"READY", "EXEC"}
    PROVE  Spec => []SinCaida
<1>0. /\ Finalizables \cap {"BLOCKED", "EXIT"} = {}
      /\ "NEW" \notin Finalizables /\ "AUSENTE" \notin Finalizables
  OBVIOUS
<1>1. Init => SinCaida
  BY DEF Init, SinCaida
<1>2. /\ InvInductivo /\ Orden /\ SemaforosDeColas /\ UsoDisciplinado /\ SinCaida
      /\ [Next]_vars
      => SinCaida'
  <2> SUFFICES ASSUME InvInductivo, Orden, SemaforosDeColas, UsoDisciplinado, SinCaida,
                      [Next]_vars
               PROVE  ~ caido'
    BY DEF SinCaida
  <2>1. TypeOK /\ ExitContado /\ Turno /\ UnaCPU /\ ~ caido
    BY DEF InvInductivo, SinCaida
  <2>2. CASE HiloNew
    <3>1. ~ CaerSinNew
      BY <2>1, HayNuevo
    <3>2. QED BY <2>1, <2>2, <3>1, AdmiteNew DEF HiloNew, TomarGrado, TomarNew
  <2>3. CASE HiloRecibir
    BY <2>1, <2>3, CaminaRecibir
  <2>4. CASE Salida
    <3>1. ~ CaerLiberando
      BY DEF CaerLiberando, UsoDisciplinado
    <3>2. QED BY <2>1, <2>4, <3>1, CaminaSalida
  <2>5. CASE HiloExit
    BY <2>1, <2>5, SacaVivo, SueltaExit DEF HiloExit
  <2>6. CASE HiloConsola
    BY <1>0, <2>1, <2>6, CaminaConsola
  <2>7. CASE HiloDispatch \/ HiloInterrupt \/ \E i \in Interfaces : ConectarInterfaz(i)
    BY <2>1, <2>7, QuietoCPU
  <2>8. CASE \E i \in Interfaces : HiloIO(i)
    BY <2>1, <2>8, CaminaIO
  <2>9. CASE UNCHANGED vars \/ Terminado
    BY <2>1, <2>9 DEF vars, Terminado
  <2>10. QED BY <2>2, <2>3, <2>4, <2>5, <2>6, <2>7, <2>8, <2>9 DEF Next
<1>3. QED BY <1>0, <1>1, <1>2, InvInductivoSiempre, OrdenSiempre, SemaforosDeColasSiempre,
    UsoDisciplinadoSiempre, PTL DEF Spec

===============================================================================
