SPECIFICATION Spec
CONSTANTS
    Users = {ann, bob}
    Events = {e1}
    Sessions = {s1, s2}
INVARIANTS
    BlockLocksPair
