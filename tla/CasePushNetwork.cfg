\* The only fault is a connection error towards Salesforce.
SPECIFICATION FairSpec
CONSTANTS
    NULL = NULL
    Cases = {c1}
    High = {c1}
    Passes = {p1, p2}
    SfIds = {i1}
    MAX_ATTEMPTS = 2
    Limit = 1
    Faults = {"network"}
    MaxLockLosses = 0
PROPERTY RetriesAreBounded
