\* Three files: one that is compacted and one that the loop jumps over.
CONSTANTS
    Archivos = {"a", "b", "c"}
    BlockCount = 8
    BlockSize = 2
    Tamanios = {1, 3}
    MaxLista = 3
    Tramos <- TramosFS
    Tolerados = {}
SPECIFICATION Spec
INVARIANT CompactaContiguo
