\* Two uploads, one of them replaced later, and two overlapping commands that
\* may delete one file each, one of which may die.
CONSTANTS
    Documents = {d1, d2}
    Replaced = {d1}
    Sweepers = {s1, s2}
    SweepLimit = 1
    Fragile = {s2}
    UploadFaults = {"storage", "database", "crash"}
    Slow = {}
SPECIFICATION UploadSpec
INVARIANTS
    UploadTypeOK
    NamedFileIsWhole
PROPERTIES
    OrphansRemoved
