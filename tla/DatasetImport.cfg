SPECIFICATION Spec
CONSTANTS
    None = None
    Legacy = Legacy
    v1 = v1
    v2 = v2
    i1 = i1
    i2 = i2
    r1 = r1
    r2 = r2
    s1 = s1
    s2 = s2
    Importers = {i1, i2}
    Readers = {r1, r2}
    Sessions = {s1}
    Versions = {v1, v2}
    Years = {1, 2, 3}
    Source <- Imports
    Start = 3
    Limit = 2
    Capacity <- OneEach
    MaxStamp <- Rewritten
    Upgrades = {v1}
SYMMETRY Alike
INVARIANTS
    VersionsStayWhole
    AnswersAreExact
PROPERTIES
    ImplementsVersionedData
