----------------------------- MODULE MCInstrucciones -----------------------------
(* Programs for two processes, and the ways in which the TLB may be set.          *)
EXTENDS Instrucciones

CONSTANTS p1, p2

\* 4 bytes across pages that need not be together, a copy, and a jump that is
\* the tenth instruction
MemoriaYSalida == <<
    <<"RESIZE", 4>>, <<"SET", "DI", 3>>, <<"RESIZE", 7>>, <<"SET", "EAX", 772>>,
    <<"MOV_OUT", "DI", "EAX">>, <<"MOV_IN", "EBX", "DI">>, <<"SET", "DI", 4>>, <<"COPY_STRING", 3>>,
    <<"IO_STDOUT_WRITE", "PANTALLA", "SI", "DI">>, <<"JNZ", "DI", 11>>, <<"SUM", "AX", "AX">>,
    <<"EXIT">> >>

\* grows with what it had read before, copies it over, and then gives a page back
EntradaYAjuste == <<
    <<"SET", "EDX", 4>>, <<"RESIZE", 4>>, <<"IO_STDIN_READ", "TECLADO", "SI", "EDX">>,
    <<"MOV_IN", "AX", "SI">>, <<"RESIZE", 12>>, <<"SET", "DI", 4>>, <<"COPY_STRING", 4>>,
    <<"WAIT", "RA">>, <<"SIGNAL", "RA">>, <<"RESIZE", 8>>, <<"MOV_IN", "EBX", "DI">>,
    <<"SUB", "EDX", "EBX">>, <<"SUM", "EAX", "AX">>, <<"JNZ", "CX", 0>>, <<"RESIZE", 8>> >>

\* a file, and at last more memory than there is
Archivos == <<
    <<"IO_FS_CREATE", "FS", "notas">>, <<"SET", "CX", 6>>, <<"IO_FS_TRUNCATE", "FS", "notas", "CX">>,
    <<"RESIZE", 8>>, <<"SET", "EBX", 3>>, <<"IO_FS_READ", "FS", "notas", "SI", "CX", "EBX">>,
    <<"SET", "EAX", 1000>>, <<"SUB", "AX", "EAX">>, <<"IO_FS_WRITE", "FS", "notas", "SI", "CX", "PC">>,
    <<"IO_GEN_SLEEP", "RELOJ", 1>>, <<"IO_FS_DELETE", "FS", "notas">>, <<"RESIZE", 17>> >>

\* all the memory there is, and a byte more
Todo == << <<"RESIZE", 16>>, <<"SET", "SI", 12>>, <<"SET", "EAX", 999>>, <<"MOV_OUT", "SI", "EAX">>,
           <<"SET", "AX", 14>>, <<"MOV_OUT", "AX", "EAX">> >>

\* scripts_memoria/SQUARE and TRIANGLE: they give back all their memory and begin again
Vueltas == << <<"RESIZE", 4>>, <<"SET", "AX", 7>>, <<"MOV_OUT", "SI", "AX">>, <<"RESIZE", 0>>,
              <<"SET", "PC", 0>> >>

Programas == {MemoriaYSalida, EntradaYAjuste, Archivos, Todo}
MCCargas == [{p1, p2} -> Programas]
MCVueltas == {[p \in {p1, p2} |-> Vueltas]}
MCModos == {[algoritmo |-> "FIFO", entradas |-> 0], [algoritmo |-> "FIFO", entradas |-> 2],
            [algoritmo |-> "LRU", entradas |-> 2], [algoritmo |-> "LRU", entradas |-> 3]}
MCUnModo == {[algoritmo |-> "FIFO", entradas |-> 4]}
=============================================================================
