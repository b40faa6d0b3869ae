CONSTANTS
    Client = {c1, c2}
    Id = {i1, i2}
    Ver = {v1, v2}
    NoRec = NoRec
    Garbled = Garbled
    NoId = NoId
    Faults = {"crash", "keystore", "corrupt", "secureRead", "secureWrite", "mirrorRead", "mirrorWrite"}
SPECIFICATION Spec
SYMMETRY Sym
CONSTRAINT SomeCovered
INVARIANTS
    TypeOK
    Durable
    AdoptedOnce
PROPERTIES
    CorruptPreserved
