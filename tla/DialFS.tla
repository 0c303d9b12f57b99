--------------------------------- MODULE DialFS ---------------------------------
(***************************************************************************)
(* The DialFS interface (interfazFs.c): a directory with one metadata file *)
(* per file, bloques.dat, and bitmap.dat and archivosMetadata, which are   *)
(* kept in memory and saved after every operation. The kernel sends one    *)
(* request at a time and waits. A compaction goes one turn of its loop per *)
(* action. Names are atoms: none is the tail of another, which             *)
(* string_replace would not tell apart. The contents of a block are the    *)
(* file and the position it was written for. The module stops in an        *)
(* orderly way, when the kernel goes or in exit(): bloques.dat is a FILE   *)
(* with a buffer of its own, and of a crash nothing is said.               *)
(***************************************************************************)
EXTENDS Integers, FiniteSets, SequencesExt

CONSTANTS
    Archivos,       \* the names that programs use
    BlockCount,     \* block_count
    BlockSize,      \* block_size
    Tamanios,       \* sizes that programs ask for in IO_FS_TRUNCATE
    MaxLista,       \* bound: names in the list
    Tramos,         \* <<puntero, tamanio>> of IO_FS_WRITE and IO_FS_READ
    Tolerados       \* bound: no more requests after any other incident

ASSUME ConstantesOK ==
    /\ BlockCount \in Nat \ {0} /\ BlockCount % 8 = 0     \* bitmap.dat has whole bytes
    /\ BlockSize \in Nat \ {0}
    /\ Tamanios \subseteq Nat
    /\ \E mayor \in Tamanios : \A t \in Tamanios : t <= mayor
    /\ Tramos \subseteq Nat \X (Nat \ {0})
    /\ MaxLista \in Nat
    /\ Tolerados \subseteq STRING

VARIABLES
    paso,           \* "espera" a request, "compacta", "pausa" before saving, "termino"
    pedido,         \* the IO_FS_TRUNCATE that is compacting, or Ninguno
    bitmap,         \* the blocks whose bit is set
    lista,          \* archivos_metadata: the names, each with or without its space
    metadata,       \* the metadata files: BLOQUE_INICIAL and TAMANIO_ARCHIVO
    contenido,      \* bloques.dat, which may grow beyond block_count
    enteros,        \* blocks that it has whole: its size \div block_size
    bitmapDat, listaDat,    \* what is saved of bitmap and lista
    libre, i,       \* locals of compactar_fs
    escrito,        \* history: <<f, k>>, the k-th block of f has been written
    incidentes      \* history: what has gone wrong so far

enMemoria == <<bitmap, lista>>
enDisco == <<bitmapDat, listaDat>>
bloquesDat == <<contenido, enteros>>
locales == <<pedido, libre, i>>
vars == <<paso, bitmap, lista, metadata, bloquesDat, bitmapDat, listaDat, pedido,
          libre, i, escrito, incidentes>>

Ninguno == [nombre |-> "", tam |-> 0]
Disco == 0 .. BlockCount - 1
Necesarios(t) == (t + BlockSize - 1) \div BlockSize
Mayor(a, b) == IF a > b THEN a ELSE b
MaxBloques == Necesarios(CHOOSE t \in Tamanios : \A u \in Tamanios : u <= t)
Celdas == 0 .. BlockCount + MaxBloques
Existe(f) == f \in DOMAIN metadata
Ocupa(f) == Mayor(1, Necesarios(metadata[f].tam))
BloquesDe(f) == metadata[f].ini .. metadata[f].ini + Ocupa(f) - 1

TypeOK ==
    /\ paso \in {"espera", "compacta", "pausa", "termino"}
    /\ pedido \in {Ninguno} \cup [nombre : Archivos, tam : Tamanios]
    /\ bitmap \subseteq Disco /\ bitmapDat \subseteq Disco
    /\ lista \in Seq([nombre : Archivos, espacio : BOOLEAN])
    /\ listaDat \in Seq([nombre : Archivos, espacio : BOOLEAN])
    /\ DOMAIN metadata \subseteq Archivos
    /\ \A f \in DOMAIN metadata :
        metadata[f] \in [ini : -1 .. BlockCount - 1, tam : Tamanios \cup {0}]
    /\ DOMAIN contenido = Celdas /\ enteros \in Nat
    /\ libre \in -1 .. BlockCount /\ i \in 0 .. 2 * BlockCount
    /\ escrito \subseteq Archivos \X (0 .. MaxBloques)

-----------------------------------------------------------------------------
(* The helpers of interfazFs.c *)

EncontrarBloqueLibre ==
    IF Disco \subseteq bitmap THEN -1
    ELSE CHOOSE b \in Disco \ bitmap : \A c \in Disco \ bitmap : b <= c

\* first block of the first hole of n blocks, and 0 if there is none
ExisteEspacioContiguo(n) ==
    LET huecos == {b \in Disco : b + n <= BlockCount /\ (b .. b + n - 1) \cap bitmap = {}}
    IN  IF huecos = {} THEN 0 ELSE CHOOSE b \in huecos : \A c \in huecos : b <= c

\* seeded error: marcar_bloque does not look at the range
MalOcupar(bits, bloques) == bits \cup bloques

\* out of the disk, marcar_bloque only prints an error
Ocupar(bits, bloques) == bits \cup (bloques \cap Disco)

AntesDeMover == [bits |-> bitmap, datos |-> contenido, enteros |-> enteros]

\* mover_bloque and the two marcar_bloque of one turn. A block below 0 is not
\* there to be read or written, and one that bloques.dat has not whole cannot be
\* read: nothing is written then, and the bits change all the same.
MoverBloque(d, de, a) ==
    LET mueve == de >= 0 /\ de < d.enteros /\ a >= 0
    IN  [bits |-> Ocupar(d.bits \ {de}, {a}),
         datos |-> IF mueve THEN [d.datos EXCEPT ![a] = d.datos[de]] ELSE d.datos,
         enteros |-> IF mueve THEN Mayor(d.enteros, a + 1) ELSE d.enteros]

\* seeded error: from the last block to the first
MalMoverArchivo(destino, ini, n) ==
    LET movidos[k \in 0 .. n] ==
            IF k = 0 THEN {AntesDeMover}
            ELSE {MoverBloque(d, ini + n - k, destino + n - k) : d \in movidos[k - 1]}
    IN  CHOOSE d \in movidos[n] : TRUE

\* Block by block, from the first: what a turn writes a later one may read. What
\* a turn leaves is in a set of one, for TLC to evaluate it once.
MoverArchivo(destino, ini, n) ==
    LET movidos[k \in 0 .. n] ==
            IF k = 0 THEN {AntesDeMover}
            ELSE {MoverBloque(d, ini + k - 1, destino + k - 1) : d \in movidos[k - 1]}
    IN  CHOOSE d \in movidos[n] : TRUE

Guardado(f, ini, tam) ==
    [g \in DOMAIN metadata \cup {f} |->
        IF g = f THEN [ini |-> ini, tam |-> tam] ELSE metadata[g]]

\* A word of the list that is not the name of a file: leer_metadata exits.
Ilegible(k) ==
    ~Existe(lista[k].nombre) \/ (~lista[k].espacio /\ k < Len(lista))

\* up to ini + n and not ini + n - 1; where the search ends, or 0
EncontrarArchivoPorBloque(b) ==
    LET alcanza(k) ==
            LET m == metadata[lista[k].nombre]
            IN  b \in m.ini .. m.ini + Necesarios(m.tam)
        paran == {k \in 1 .. Len(lista) : Ilegible(k) \/ alcanza(k)}
    IN  IF paran = {} THEN 0 ELSE CHOOSE k \in paran : \A l \in paran : k <= l

\* seeded error: the name stays in the list
MalEliminarDeLista(f) == IF lista = <<>> THEN lista ELSE [lista EXCEPT ![Len(lista)].espacio = FALSE]

\* string_replace takes "f " away wherever it is; string_trim, the last space
EliminarDeLista(f) ==
    LET queda[k \in 0 .. Len(lista)] ==
            IF k = 0 THEN <<>>
            ELSE IF lista[k] = [nombre |-> f, espacio |-> TRUE] THEN queda[k - 1]
            ELSE Append(queda[k - 1], lista[k])
        resto == queda[Len(lista)]
    IN  IF resto = <<>> THEN resto ELSE [resto EXCEPT ![Len(resto)].espacio = FALSE]

Olvida(f) == {e \in escrito : e[1] # f}
Anota(nombre, cuando) == IF cuando THEN {nombre} ELSE {}

-----------------------------------------------------------------------------
(* The requests *)

\* the step of the loop goes beyond a file without looking at any of its blocks
Saltea(archivos, sigue) ==
    \E f \in DOMAIN archivos :
        archivos[f].ini .. archivos[f].ini + Mayor(1, Necesarios(archivos[f].tam)) - 1
            \subseteq i + 1 .. sigue - 1

\* a block of f that has been written is not whole in bloques.dat
Trunco(f) == \E e \in escrito : e[1] = f /\ metadata[f].ini + e[2] >= enteros

Recibe == paso = "espera" /\ incidentes \subseteq Tolerados

Crear(f) ==
    /\ Recibe /\ Len(lista) < MaxLista
    /\ bitmap' = Ocupar(bitmap, {EncontrarBloqueLibre})
    /\ metadata' = Guardado(f, EncontrarBloqueLibre, 0)
    /\ lista' = Append(lista, [nombre |-> f, espacio |-> TRUE])
    /\ escrito' = Olvida(f)
    /\ incidentes' = incidentes
        \cup Anota("fuga", Existe(f))
        \cup Anota("lista", lista # <<>> /\ ~Last(lista).espacio)
        \cup Anota("sin bloque", EncontrarBloqueLibre = -1)
    /\ paso' = "pausa"
    /\ UNCHANGED <<bloquesDat, enDisco, locales>>

Eliminar(f) ==
    /\ Recibe /\ Existe(f)
    /\ bitmap' = bitmap \ (metadata[f].ini .. metadata[f].ini + Necesarios(metadata[f].tam) - 1)
    /\ metadata' = [g \in DOMAIN metadata \ {f} |-> metadata[g]]
    /\ lista' = EliminarDeLista(f)
    /\ escrito' = Olvida(f)
    /\ incidentes' = incidentes
        \cup Anota("fuga", metadata[f].tam = 0)
        \cup Anota("lista", [nombre |-> f, espacio |-> FALSE] \in ToSet(lista))
    /\ paso' = "pausa"
    /\ UNCHANGED <<bloquesDat, enDisco, locales>>

\* blocks are freed and the size stays as it was
Reducir(f, t) ==
    /\ Recibe /\ Existe(f) /\ t < metadata[f].tam
    /\ LET sobran == metadata[f].ini + Necesarios(t) .. metadata[f].ini + Ocupa(f) - 1
       IN  /\ bitmap' = bitmap \ sobran
           /\ incidentes' = incidentes \cup Anota("reducido", sobran # {})
    /\ paso' = "pausa"
    /\ UNCHANGED <<lista, metadata, bloquesDat, enDisco, locales, escrito>>

Igualar(f) ==
    /\ Recibe /\ Existe(f) /\ metadata[f].tam \in Tamanios
    /\ paso' = "pausa"
    /\ UNCHANGED <<enMemoria, metadata, bloquesDat, enDisco, locales, escrito, incidentes>>

\* the blocks that a file has to find free to grow where it is
Siguientes(f, t) ==
    metadata[f].ini + Ocupa(f) .. metadata[f].ini + Necesarios(t) - 1

\* Their bits, beyond the disk, are whatever follows the bitmap in memory: clear
\* here, and set in NoCabe.
CrecerEnSuLugar(f, t) ==
    /\ Recibe /\ Existe(f) /\ t > metadata[f].tam
    /\ Siguientes(f, t) \cap bitmap = {}
    /\ bitmap' = Ocupar(bitmap, metadata[f].ini .. metadata[f].ini + Necesarios(t) - 1)
    /\ metadata' = Guardado(f, metadata[f].ini, t)
    /\ incidentes' = incidentes \cup Anota("borde", ~(Siguientes(f, t) \subseteq Disco))
    /\ paso' = "pausa"
    /\ UNCHANGED <<lista, bloquesDat, enDisco, locales, escrito>>

NoCabe(f, t) ==
    /\ Recibe /\ Existe(f) /\ t > metadata[f].tam
    /\ Siguientes(f, t) \cap bitmap # {} \/ ~(Siguientes(f, t) \subseteq Disco)

CrecerEn(destino, f, t) ==
    LET d == MoverArchivo(destino, metadata[f].ini, Ocupa(f))
    IN  /\ bitmap' = Ocupar(d.bits, destino .. destino + Necesarios(t) - 1)
        /\ contenido' = d.datos /\ enteros' = d.enteros
        /\ metadata' = Guardado(f, destino, t)
        /\ incidentes' = incidentes \cup Anota("trunco", Trunco(f))

CrecerMoviendo(f, t) ==
    /\ NoCabe(f, t)
    /\ ExisteEspacioContiguo(Necesarios(t)) # 0
    /\ CrecerEn(ExisteEspacioContiguo(Necesarios(t)), f, t)
    /\ paso' = "pausa"
    /\ UNCHANGED <<lista, enDisco, locales, escrito>>

EmpezarCompactacion(f, t) ==
    /\ NoCabe(f, t)
    /\ ExisteEspacioContiguo(Necesarios(t)) = 0
    /\ pedido' = [nombre |-> f, tam |-> t]
    /\ libre' = EncontrarBloqueLibre
    /\ i' = libre' + 1
    /\ incidentes' = incidentes \cup Anota("lleno", libre' = -1)
    /\ paso' = "compacta"
    /\ UNCHANGED <<enMemoria, metadata, bloquesDat, enDisco, escrito>>

\* IO_FS_WRITE and IO_FS_READ, of a tramo that the file has: only the first
\* changes something here. A file without a first block is left out.
Acceder(f, puntero, tamanio, escribe) ==
    /\ Recibe /\ Existe(f) /\ metadata[f].ini >= 0
    /\ puntero + tamanio <= metadata[f].tam
    /\ LET tocados == puntero \div BlockSize .. (puntero + tamanio - 1) \div BlockSize
           ini == metadata[f].ini
       IN  IF escribe
           THEN /\ contenido' = [b \in Celdas |->
                                    IF b - ini \in tocados THEN <<f, b - ini>> ELSE contenido[b]]
                /\ enteros' = Mayor(enteros, ini + (puntero + tamanio) \div BlockSize)
                /\ escrito' = escrito \cup {<<f, k>> : k \in tocados}
           ELSE UNCHANGED <<bloquesDat, escrito>>
    /\ paso' = "pausa"
    /\ UNCHANGED <<enMemoria, metadata, enDisco, locales, incidentes>>

\* exit(): the file of a request is not there, or is too short
Abortar(f) ==
    /\ Recibe
    /\ Existe(f) => \E tramo \in Tramos : tramo[1] + tramo[2] > metadata[f].tam
    /\ paso' = "termino"
    /\ UNCHANGED <<enMemoria, metadata, bloquesDat, enDisco, locales, escrito, incidentes>>

-----------------------------------------------------------------------------
(* compactar_fs, and what follows an operation *)

\* below the disk, the bit is whatever precedes the bitmap in memory
SiguienteLibre(bits, desde) ==
    LET libres == {b \in Disco \ bits : b >= desde}
        hallado == IF libres = {} THEN BlockCount
                   ELSE CHOOSE b \in libres : \A c \in libres : b <= c
    IN  IF desde = -1 THEN {-1, hallado} ELSE {hallado}

Compactando == paso = "compacta" /\ i < BlockCount

\* seeded error: the loop goes forward by libre and not by libre + 1
MalSaltarBloque ==
    /\ Compactando
    /\ i \notin bitmap \/ EncontrarArchivoPorBloque(i) = 0
    /\ i' = i + libre
    /\ incidentes' = incidentes \cup Anota("salto", Saltea(metadata, i'))
    /\ UNCHANGED <<paso, pedido, enMemoria, metadata, bloquesDat, enDisco, libre, escrito>>

SaltarBloque ==
    /\ Compactando
    /\ i \notin bitmap \/ EncontrarArchivoPorBloque(i) = 0
    /\ i' = i + libre + 1
    /\ incidentes' = incidentes \cup Anota("salto", Saltea(metadata, i'))
    /\ UNCHANGED <<paso, pedido, enMemoria, metadata, bloquesDat, enDisco, libre, escrito>>

CompactarArchivo ==
    /\ Compactando /\ i \in bitmap
    /\ LET k == EncontrarArchivoPorBloque(i)
           f == lista[k].nombre
           d == MoverArchivo(libre, metadata[f].ini, Necesarios(metadata[f].tam))
       IN  /\ k # 0 /\ ~Ilegible(k)
           /\ bitmap' = d.bits
           /\ contenido' = d.datos /\ enteros' = d.enteros
           /\ metadata' = Guardado(f, libre, metadata[f].tam)
           /\ libre' \in SiguienteLibre(bitmap', libre)
           /\ i' = i + libre' + 1
           /\ incidentes' = incidentes
                \cup Anota("vacio", metadata[f].tam = 0)
                \cup Anota("trunco", Trunco(f))
                \cup Anota("salto", Saltea(metadata', i'))
    /\ UNCHANGED <<paso, pedido, lista, enDisco, escrito>>

\* exit() in leer_metadata, in the middle
AbortarCompactacion ==
    /\ Compactando /\ i \in bitmap
    /\ LET k == EncontrarArchivoPorBloque(i) IN k # 0 /\ Ilegible(k)
    /\ incidentes' = incidentes \cup {"corte"}
    /\ paso' = "termino"
    /\ UNCHANGED <<enMemoria, metadata, bloquesDat, enDisco, locales, escrito>>

\* without room even so, an error is logged and the operation ends well
TerminarCompactacion ==
    /\ paso = "compacta" /\ i >= BlockCount
    /\ LET espacio == ExisteEspacioContiguo(Necesarios(pedido.tam))
       IN  IF espacio # 0 THEN CrecerEn(espacio, pedido.nombre, pedido.tam)
           ELSE UNCHANGED <<bitmap, bloquesDat, metadata, incidentes>>
    /\ pedido' = Ninguno /\ libre' = 0 /\ i' = 0
    /\ paso' = "pausa"
    /\ UNCHANGED <<lista, enDisco, escrito>>

\* seeded error: the bitmap is not saved
MalGuardarBitmap == UNCHANGED bitmapDat

GuardarBitmap == bitmapDat' = bitmap
GuardarLista == listaDat' = lista

\* and OPERACION_FINALIZADA
Guardar ==
    /\ paso = "pausa"
    /\ GuardarBitmap
    /\ GuardarLista
    /\ paso' = "espera"
    /\ UNCHANGED <<enMemoria, metadata, bloquesDat, locales, escrito, incidentes>>

CargarLista == lista' = listaDat
CargarBitmap == bitmap' = bitmapDat
AbrirBloques == UNCHANGED bloquesDat

\* The module is started again on the same directory, after an orderly stop: the
\* buffer of bloques.dat is written in fclose or in exit().
Reiniciar ==
    /\ paso \in {"espera", "termino"}
    /\ CargarLista
    /\ AbrirBloques
    /\ CargarBitmap
    /\ pedido' = Ninguno /\ libre' = 0 /\ i' = 0
    /\ paso' = "espera"
    /\ UNCHANGED <<metadata, enDisco, escrito, incidentes>>

-----------------------------------------------------------------------------
Init ==
    /\ paso = "espera"
    /\ pedido = Ninguno
    /\ bitmap = {} /\ bitmapDat = {}
    /\ lista = <<>> /\ listaDat = <<>>
    /\ metadata = [f \in {} |-> Ninguno]
    /\ contenido = [b \in Celdas |-> <<>>] /\ enteros = BlockCount
    /\ libre = 0 /\ i = 0
    /\ escrito = {}
    /\ incidentes = {}

Truncar(f, t) ==
    \/ Reducir(f, t)
    \/ CrecerEnSuLugar(f, t)
    \/ CrecerMoviendo(f, t)
    \/ EmpezarCompactacion(f, t)

Pedido ==
    \E f \in Archivos :
        \/ Crear(f)
        \/ Eliminar(f)
        \/ Igualar(f)
        \/ Abortar(f)
        \/ \E t \in Tamanios : Truncar(f, t)
        \/ \E tramo \in Tramos, escribe \in BOOLEAN :
            Acceder(f, tramo[1], tramo[2], escribe)

Continua ==
    \/ SaltarBloque
    \/ CompactarArchivo
    \/ AbortarCompactacion
    \/ TerminarCompactacion
    \/ Guardar

Next == Pedido \/ Continua \/ Reiniciar

\* one thread, that nothing stops between a request and its answer
Spec == Init /\ [][Next]_vars /\ WF_vars(Continua)

-----------------------------------------------------------------------------
(* Properties. An incident is a place where the code does what nobody means *)
(* it to do; each property says which ones it needs to be absent:           *)
(*   "reducido"   a shorter file loses blocks and keeps its size            *)
(*   "fuga"       CREATE of a name in use, DELETE of a file of size 0       *)
(*   "lista"      a name glued to the one before, or left in the list       *)
(*   "sin bloque" CREATE with the disk full                                 *)
(*   "borde"      a file grows in place beyond the disk                     *)
(*   "lleno"      a compaction without one free block                       *)
(*   "vacio"      a compaction moves a file of size 0, which has a block    *)
(*   "salto"      a compaction passes over a whole file                     *)
(*   "trunco"     a file is moved with a written block that bloques.dat has *)
(*                not whole, and loses it: only beyond the disk             *)
(*   "corte"      a compaction ends in exit()                               *)

SinNada(peligros) == incidentes \cap peligros = {}
PisaBloques == {"reducido", "sin bloque", "lleno", "vacio", "salto", "trunco"}

\* The bits that are set are the blocks of the files, in every state between
\* two steps and also after the module starts again from bitmap.dat.
BitmapExacto ==
    SinNada(PisaBloques \cup {"fuga", "borde", "corte"}) =>
        bitmap = UNION {BloquesDe(f) : f \in DOMAIN metadata}

\* What IO_FS_WRITE left in a file is where its metadata says, after any number
\* of moves of this file and of others, and of orderly restarts: IO_FS_READ
\* gives it back, even from blocks beyond the disk.
LeeLoEscrito ==
    SinNada(PisaBloques) =>
        \A e \in escrito : contenido[metadata[e[1]].ini + e[2]] = e

\* The words of archivosMetadata are the names of the files that there are, and
\* each can be told from the next: a compaction, before or after starting again,
\* finds every file. How many times it finds one is not said.
ListaExacta ==
    SinNada({"lista"}) =>
        /\ {lista[k].nombre : k \in 1 .. Len(lista)} = DOMAIN metadata
        /\ \A k \in 1 .. Len(lista) : ~Ilegible(k)

\* Every request is answered, or the module exits: the loop of compactar_fs,
\* whose step depends on a variable that it changes, ends.
PedidoTermina ==
    paso \in {"compacta", "pausa"} ~> (paso \in {"espera", "termino"} \/ ~SinNada({"lleno"}))

\* The blocks of the files, as the metadata files say: inside bloques.dat, of one
\* file each, and with what was written in them.
BloquesPropios ==
    /\ \A f \in DOMAIN metadata : metadata[f].ini >= 0
    /\ \A f, g \in DOMAIN metadata : f # g => BloquesDe(f) \cap BloquesDe(g) = {}
    /\ \A e \in escrito : /\ Existe(e[1])
                          /\ e[2] < Necesarios(metadata[e[1]].tam)
                          /\ contenido[metadata[e[1]].ini + e[2]] = e

\* No block of a file is taken for free.
SinPisar == \A f \in DOMAIN metadata : BloquesDe(f) \cap Disco \subseteq bitmap

\* The loop of compactar_fs has every file behind libre, or still ahead.
Ultimo(f) == metadata[f].ini + Ocupa(f) - 1
Repartidos ==
    paso = "compacta" /\ i < BlockCount =>
        /\ libre >= 0 /\ libre \notin bitmap
        /\ \A f \in DOMAIN metadata : Ultimo(f) < libre \/ Ultimo(f) >= i

\* What is saved is what is in memory; a compaction that ended in exit() has
\* moved files that bitmap.dat does not know of.
LoGuardado ==
    /\ paso # "pausa" => listaDat = lista
    /\ paso \in {"espera", "termino"} /\ "corte" \notin incidentes => bitmapDat = bitmap
    /\ "corte" \in incidentes \ Tolerados => paso \in {"espera", "termino"}

\* The request that a compaction attends is of a file that there is, and grows it.
EnCompactacion ==
    paso = "compacta" =>
        /\ Existe(pedido.nombre) /\ metadata[pedido.nombre].tam < pedido.tam
        /\ libre < i

\* Nothing has happened that puts two files on one block, and after a compaction
\* that ended in exit() no request comes.
Sano == SinNada(PisaBloques) /\ "corte" \notin incidentes \cap Tolerados

\* No property above is inductive: where a file goes depends on the bitmap, what
\* the bitmap says on where the files have been, and both on the loop.
InvDisco ==
    /\ TypeOK /\ LoGuardado /\ EnCompactacion /\ ListaExacta /\ BitmapExacto
    /\ DOMAIN metadata \subseteq {lista[k].nombre : k \in 1 .. Len(lista)}
    /\ Sano => BloquesPropios /\ ("corte" \notin incidentes => SinPisar /\ Repartidos)

\* A compaction leaves the free space in one piece, as the assignment asks for
\* (C - Comenta- v1.3.pdf, page 27), when nothing else has gone wrong before.
CompactaContiguo ==
    (paso = "compacta" /\ i >= BlockCount /\ incidentes \subseteq {"salto"}) =>
        \A a, b \in Disco \ bitmap : a .. b \subseteq Disco \ bitmap
=============================================================================
