CONSTANTS
    Null = Null
    Objects = {o1, o2, o3, o4, o5}
SPECIFICATION Spec
INVARIANT Inv
PROPERTIES
    RefinesTriColour
    SweepEnds
