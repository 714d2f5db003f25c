SPECIFICATION FairSpec
CONSTANTS
    j1 = j1
    g1 = g1
    g2 = g2
    o1 = o1
    JobIds <- MCJobIds
    Runs <- MCRuns
    Others <- MCOthers
    Callers <- MCCallers
    SequenceSize = 2
    MaxMillis = 1
    MaxCalls = 3
    NotCalling = NotCalling
    NoJob = NoJob
    NoId = NoId
INVARIANTS
    TypeOK
    IdsRepeatOnlyByMishap
    RunningHasRun
PROPERTIES
    FinalStaysFinal
    RunEnds
