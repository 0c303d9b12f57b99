SPECIFICATION Spec
CONSTANTS
    p1 = p1
    p2 = p2
    Procesos = {p1, p2}
    Nadie = Nadie
    CantMarcos = 8
    TamPagina = 2
    Cargas <- MCVueltas
    Modos <- MCUnModo
INVARIANT AccesoPropio
\* the CPU may wait for an answer that does not come
CHECK_DEADLOCK FALSE
