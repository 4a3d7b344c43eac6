\* Two texts, two messages, no folder of the users' own; any folder type is a
\* target of a move.
CONSTANTS
    Users = {u1, u2}
    MsgIds = {m1, m2}
    ThreadIds = {}
    CustomIds = {}
    CustomNames = {}
    Texts = {x1, x2}
    MovableTypes <- AllTypes
    MaxFiles = 0
    NoRow = NoRow
    Null = Null
SPECIFICATION Spec
SYMMETRY Interchangeable
PROPERTIES
    DeliveredIsSettled
