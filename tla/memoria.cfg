\* Two processes, three frames of two bytes. The sizes ask for half a page, for
\* the rest of it, for every frame and for more than there are; with them a RESIZE
\* grows and shrinks by none, one or two pages. One device that reads: its writes,
\* of which no property speaks, multiply the states by five.
CONSTANTS
    Procesos = {1, 2}
    Nadie = 0
    CantMarcos = 3
    TamPagina = 2
    Tamanios = {1, 2, 5, 8}
    AccesosIO <- SoloLecturas
    MaxIO = 1
SPECIFICATION SpecJusta
INVARIANTS TypeOK MapaExacto Respaldado SinCaida AccesoPropio
PROPERTIES PedidoRespondido FinDevuelve CumpleMarcos
CHECK_DEADLOCK FALSE
