---------------------------- MODULE MCPlanificador ----------------------------
(* Instances of PlanificadorPropiedades for TLC. *)
EXTENDS PlanificadorPropiedades

\* One resource with one instance, two with one each, one with two.
UnaInstancia == [r \in Recursos |-> 1]
DosInstancias == [r \in Recursos |-> 2]

\* ESPERA is the generic interface of the test plan; TECLADO its stdin.
TiposMC == [i \in Interfaces |-> IF i = "ESPERA" THEN OperacionesGenerica
                                 ELSE OperacionesSTDIN]

Wait(r) == [op |-> "INSTRUCCION_WAIT", arg |-> r]
Signal(r) == [op |-> "INSTRUCCION_SIGNAL", arg |-> r]
Sleep(i) == [op |-> "ENVIAR_IO_GEN_SLEEP", arg |-> i]
Leer(i) == [op |-> "ENVIAR_IO_STDIN_READ", arg |-> i]
SinMemoria == [op |-> "OUT_OF_MEMORY", arg |-> "ninguno"]

LlamadasRec == {Wait(r) : r \in Recursos} \cup {Signal(r) : r \in Recursos}

LlamadasRecIO == LlamadasRec \cup {Sleep(i) : i \in Interfaces}

\* Also the calls that end in an error: unknown resource, operation that the
\* interface does not accept, resize refused by memory.
LlamadasTodas == LlamadasRecIO
                   \cup {Leer("ESPERA"), Wait("OTRO"), SinMemoria}

===============================================================================
