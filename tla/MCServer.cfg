\* Three requests, two workers, one permit per endpoint.
SPECIFICATION MCServerSpec
CONSTANTS
    Requests = {1, 2, 3}
    Mounts = {root}
    Workers = 2
    Width = 1
    Nobody = Nobody
INVARIANTS ServerTypeOK PermitsAccounted UnansweredIsUnrecorded
PROPERTIES Served
\* Every request has ended, or the process has.
CHECK_DEADLOCK FALSE
