\* Up to three rows, of the same table or of several.
SPECIFICATION Spec
CONSTANTS
    Id = {1, 2, 3}
    Garbage = 99
    Isbn = {1, 2}
    Title = {1, 2}
    Email = {1, 2}
    Name <- MCName
    Prefix <- MCPrefix
    Ref = {1, 2}
    Time = {2, 3, 4}
    Micro <- MCMicro
    MaxPrefixResults = 1
INVARIANTS
    SameContract
    GuardsSuffice
CHECK_DEADLOCK FALSE
