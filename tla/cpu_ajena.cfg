\* One FINALIZAR_PROCESO, two processes without WAIT or SIGNAL.
CONSTANTS
    Procesos = {1, 2}
    Nadie = 0
    Clases <- ClasesSinRecursos
    Interrupciones = {"FINALIZAR_PROCESO"}
    MaxInterrupciones = 1
SPECIFICATION Spec
INVARIANT FinalizaAlPedido
CHECK_DEADLOCK FALSE
