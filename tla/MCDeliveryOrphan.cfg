SPECIFICATION FairSpec
CONSTANTS
    p1 = p1
    p2 = p2
    Processes = {p1, p2}
    Launches <- Prod
    Calls = {ready}
    Ready = ready
    Nobody = nobody
    Jobs = {e1}
    NoJob = nojob
    Attackers = {e1}
    Echoes = {}
    Flagged = {401, 500}
    Limit <- Never
    MaxKinds = 0
PROPERTY QueuedTasksAreConsumed
CHECK_DEADLOCK FALSE
