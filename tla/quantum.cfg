SPECIFICATION Spec
CONSTANTS
    Procesos = {1, 2}
    Algoritmos <- AmbosAlgoritmos
    QuantumInicial = 2
    Hilos = 2
    MaxInterrupciones = 1
    MaxPosts = 1
INVARIANTS TypeOK TurnoConReloj
PROPERTIES PlanificadorAvanza ReadySinHambre
\* all processes may end
CHECK_DEADLOCK FALSE
