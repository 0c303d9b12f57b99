\* Every instruction, no interrupts. The system stops when every process has ended.
CONSTANTS
    Procesos = {1, 2, 3}
    Nadie = 0
    Clases <- TodasLasClases
    Interrupciones = {}
    MaxInterrupciones = 0
SPECIFICATION Spec
PROPERTY CumpleContrato
CHECK_DEADLOCK FALSE
