SPECIFICATION FairSpec
CONSTANTS
    s1 = s1
    s2 = s2
    N = 2
    Submitters = {s1, s2}
    Reaper = reaper
    Ends = {"completed"}
    MaxSubmits = 1
    MaxFaults = 2
    None = None
INVARIANTS TypeOK AcceptedAdmitted DeletedRetained
PROPERTIES OutcomeKept  
CHECK_DEADLOCK FALSE
