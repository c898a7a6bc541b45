SPECIFICATION Spec
CONSTANTS
    a = a
    b = b
    c1 = c1
    j1 = j1
    j2 = j2
    Clients = {c1, c2}
    Fences = {a, b}
    Arrays = {j1, j2}
    Kids <- MCKids
    Owner <- MCOwner
    Waiters = {c2}
    Home <- MCHome
    TableSize = 3
    MaxParents = 2
    MaxResets = 1
    NoOne = NoOne
INVARIANTS TypeOK  
PROPERTY JoinNotEarly
