\* Interrupts of both kinds at any moment. No WAIT or SIGNAL: those free the PCB
\* in the middle of an instruction. The system stops when every process has ended.
CONSTANTS
    Procesos = {1, 2}
    Nadie = 0
    Clases <- ClasesSinRecursos
    Interrupciones <- TodasLasInterrupciones
    MaxInterrupciones = 2
SPECIFICATION SpecJusta
INVARIANTS TypeOK SinLecturaLiberada NoSePierde
PROPERTY InterrupcionAtendida
CHECK_DEADLOCK FALSE
