CONSTANTS
    a = a  b = b  colon = colon
    v1 = v1  v2 = v2
    Absent = Absent
    Chars = {a, b, colon}
    Separator = colon
    Origins <- MCOrigins
    KeyNames <- MCKeyNames
    Values = {v1, v2}
SPECIFICATION Spec
INVARIANTS TypeOK
PROPERTIES ImplementsPrivateStores
