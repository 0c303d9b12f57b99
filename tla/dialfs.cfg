\* Two files on a disk of eight blocks of two bytes: sizes of two, five and seven
\* blocks grow in place, also beyond the disk, move, compact and leave no room.
\* The accesses go across the first two blocks of a file.
CONSTANTS
    Archivos = {"a", "b"}
    BlockCount = 8
    BlockSize = 2
    Tamanios = {3, 9, 13}
    MaxLista = 2
    Tramos <- TramosFS
    Tolerados = {"borde", "lista"}
SPECIFICATION Spec
INVARIANTS TypeOK BitmapExacto LeeLoEscrito ListaExacta
PROPERTY PedidoTermina
