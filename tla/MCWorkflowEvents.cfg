SPECIFICATION Spec
CONSTANTS
    ctx = ctx
    dflt = dflt
    thr = thr
    Context = {ctx, dflt}
    Default = dflt
    Events <- Sent
    Extract <- Extractor
    Broadcast = Broadcast
    Fails = Fails
    InitialRules <- Rules
    Requests <- Changes
    Thread = {thr}
    Answers = {"created", "none", "raises"}
    MaxEvents = 3
    MaxRequests = 1
    MaxCrashes = 1
    None = None
CHECK_DEADLOCK FALSE
INVARIANTS RunsPerContext  NoEventIgnored StoppedIsStopped
