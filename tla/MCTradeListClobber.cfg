CONSTANTS
    Client = {c1, c2}
    Id = {i1, i2}
    Ver = {v1, v2}
    NoRec = NoRec
    Garbled = Garbled
    NoId = NoId
    Faults = {"keystore", "mirrorRead"}
SPECIFICATION Spec
SYMMETRY Sym
INVARIANTS
    MirrorNeverClobbered
