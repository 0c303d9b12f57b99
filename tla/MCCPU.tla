--------------------------------- MODULE MCCPU ---------------------------------
(* Instances of CPUHilos for TLC. *)
EXTENDS CPUHilos

TodasLasClases == {"comun", "OUT_OF_MEMORY"} \cup Cesiones \cup Recursos
ClasesSinRecursos == TodasLasClases \ Recursos
TodasLasInterrupciones == {"FINALIZAR_PROCESO", "FIN_DE_Q"}

===============================================================================
