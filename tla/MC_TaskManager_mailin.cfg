SPECIFICATION FairSpec
CONSTANTS
    Pids = {p1}
    Nodes = {n1}
    LineNodes = {}
    NoNode = NoNode
    Behind = NoNode
    MAXTASKS = 1
    PAUSETIME = 0
    TOSSWAIT_TIME = 2
    max_tcp = 1
    Lines = 0
    Asked = {"mailin"}
    Changing = {}
    MaxStops = 0
    MaxFails = 0
PROPERTY MailIsTossed
CHECK_DEADLOCK FALSE
