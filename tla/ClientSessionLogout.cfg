SPECIFICATION Spec
CONSTANTS
    Users = {ann}
    Tokens = {t1}
    Calls = {c1, c2}
    None = none
    MaxAuth = 2
    MaxEvents = 1
    MaxKills = 0
    RetryLimit = 1
PROPERTIES
    RemovalRevokes
CHECK_DEADLOCK FALSE
