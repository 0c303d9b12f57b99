\* Three processes, one resource of one instance and a generic interface, a
\* degree that goes from 2 to 3, planning that stops and starts. Processes are
\* finalised in READY or EXEC: in the other states what is checked here fails (README).
CONSTANTS
    MaxProcesos = 3
    MaxLlamadas = 2
    Recursos = {"RA"}
    Instancias <- UnaInstancia
    Interfaces = {"ESPERA"}
    TipoInterfaz <- TiposMC
    GradoInicial = 2
    Grados = {3}
    Llamadas <- LlamadasTodas
    Disciplinados = TRUE
    Finalizables = {"READY", "EXEC"}
    Detenible = TRUE
SPECIFICATION Spec
INVARIANTS EjecutaElDelVuelo EnSuLugar SemaforosDeColas SinCaida GradoContado RecursosContados ExclusionMutua
