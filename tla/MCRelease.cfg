SPECIFICATION MCSpec
CONSTANTS
    Workflows = {"mobile_ci", "staging_e2e", "staging_load", "mobile_release"}
    MaxReruns = 1
INVARIANTS
    VerifiedIsBacked
    EvidenceExtracts
CHECK_DEADLOCK FALSE
