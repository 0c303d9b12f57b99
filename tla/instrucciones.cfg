SPECIFICATION Spec
CONSTANTS
    p1 = p1
    p2 = p2
    Procesos = {p1, p2}
    Nadie = Nadie
    CantMarcos = 8
    TamPagina = 2
    Cargas <- MCCargas
    Modos <- MCModos
INVARIANTS TypeOK AccesoPropio UltimasUsadas
PROPERTIES EsMaquina
\* the CPU may wait for an answer that does not come, or all processes may end
CHECK_DEADLOCK FALSE
