CONSTANTS
    w1 = w1
    w2 = w2
    w3 = w3
    w4 = w4
    Work = {w1, w2, w3, w4}
    Key <- Keys
    Producer = {p1, p2}
    Consumer = {c1}
    Mortal = {p1, c1}
    Count = 2

SPECIFICATION Spec

PROPERTIES
    ImplementsWorkQueue

CHECK_DEADLOCK FALSE
