SPECIFICATION Spec
CONSTANTS
    Pids = {p1, p2}
    Nodes = {n1, n2}
    LineNodes = {n2}
    NoNode = NoNode
    Behind = NoNode
    MAXTASKS = 2
    PAUSETIME = 0
    TOSSWAIT_TIME = 1
    max_tcp = 1
    Lines = 1
    Asked = {"mailin"}
    Changing = {"internet"}
    MaxStops = 1
    MaxFails = 0
SYMMETRY Symmetry
VIEW View
INVARIANTS CallsTracked OneTosser NoneOverlooked
CHECK_DEADLOCK FALSE
