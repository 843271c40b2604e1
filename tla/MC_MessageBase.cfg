SPECIFICATION Spec
CONSTANTS
    Users = {ann}
    Writers = {tosser, news}
    First = 1
    MaxPosts = 2
    MaxPacks = 1
SYMMETRY Symmetric
CHECK_DEADLOCK FALSE
INVARIANTS
    CountsAddUp
    NumbersArePlaces
    NewStaysNew
    NothingLost
