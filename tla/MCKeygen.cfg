\* Three keygen processes that race, fail and die, an operator, a witness that loads.
SPECIFICATION KeygenSpec
CONSTANTS
    Runs = {r1, r2, r3}
    Names = {n1, n2}
    ConfigName = n1
    Foreign = foreign
    NoFile = NoFile
    NoComment = NoComment
    Touches = {"remove", "copy", "chmod", "damage", "edit", "strip"}
    MaxTouches = 2
    Faults = {"kill", "power_loss", "disk_full"}
    MaxFaults = 2
SYMMETRY Symmetry
INVARIANTS KeygenTypeOK PrintedIsLoadable RefusedMintsNothing OwnIdentity
PROPERTIES NeverOverwritten
\* Every run has ended and the witness is stopped by nobody.
CHECK_DEADLOCK FALSE
