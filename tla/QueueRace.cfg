CONSTANTS
    w1 = w1
    w2 = w2
    w3 = w3
    w4 = w4
    Work = {w1, w2, w3}
    Key <- KeysOfThree
    Producer = {p1, p2}
    Consumer = {c1, c2}
    Mortal = {p1, c1}
    Count = 2

SPECIFICATION FairSpec

INVARIANTS
    HandedOutOnce
    NoOvertaking

PROPERTIES
    EverythingTaken
