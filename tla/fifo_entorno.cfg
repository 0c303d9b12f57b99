\* Any program and FINALIZAR_PROCESO in any state, also for absent PIDs: the
\* kernel may crash, and programs may block for ever, so deadlock is not checked.
CONSTANTS
    MaxProcesos = 2
    MaxLlamadas = 2
    Recursos = {"RA"}
    Instancias <- UnaInstancia
    Interfaces = {"ESPERA"}
    TipoInterfaz <- TiposMC
    GradoInicial = 2
    Grados = {}
    Llamadas <- LlamadasRecIO
    Disciplinados = FALSE
    Finalizables = {"NEW", "READY", "EXEC", "BLOCKED", "EXIT", "AUSENTE"}
    Detenible = FALSE
SPECIFICATION Spec
INVARIANTS TypeOK UnaCPU SinOcio
CHECK_DEADLOCK FALSE
