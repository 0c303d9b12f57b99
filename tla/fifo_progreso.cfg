\* The same system under weak fairness per thread. The degree moves between 1 and
\* 2. One resource only: with two, programs may deadlock by themselves.
CONSTANTS
    MaxProcesos = 3
    MaxLlamadas = 2
    Recursos = {"RA"}
    Instancias <- UnaInstancia
    Interfaces = {"ESPERA"}
    TipoInterfaz <- TiposMC
    GradoInicial = 2
    Grados = {1, 2}
    Llamadas <- LlamadasRecIO
    Disciplinados = TRUE
    Finalizables = {"READY"}
    Detenible = FALSE
SPECIFICATION SpecJusta
PROPERTIES ReadyAvanza TodosTerminan ComandoTermina CumpleCincoEstados
