SPECIFICATION FairSpec
CONSTANTS
    p1 = p1
    p2 = p2
    Processes = {p1, p2}
    Launches <- Dev
    Calls = {ready, again}
    Ready = ready
    Nobody = nobody
    Jobs = {e1, x1, x2}
    NoJob = nojob
    Attackers = {e1}
    Echoes = {x1, x2}
    Flagged = {401, 500}
    Limit <- Once
    MaxKinds = 2
INVARIANTS TypeOK OneLoopPerProcess WantedHasWorker SentIsSettled EchoesAreBounded
PROPERTY ResponsesAreClaimed
CHECK_DEADLOCK FALSE
