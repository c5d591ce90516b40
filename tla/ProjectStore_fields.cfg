SPECIFICATION Spec
CONSTANTS
    a = a
    b = b
    c = c
    d = d
    f = f
    g = g
    Writers = {a, b}
    Fields = {f, g}
    FieldOf <- Apart
    Mixes <- FieldMeetsCheck
    Retries = 2
INVARIANTS
    FieldsIndependent
CHECK_DEADLOCK FALSE
