\* Two runs of one submission, two pods in turn, two failing calls or restarts.
CONSTANTS
    r1 = r1
    r2 = r2
    s1 = s1
    fix = fix
    rest = rest
    Runs <- MCRuns
    Submissions <- MCSubmissions
    SubmissionOf <- MCSubmissionOf
    Protocols <- MCProtocols
    Declares <- MCDeclares
    NoPod = NoPod
    NoEntry = NoEntry
    MaxPods = 2
    MaxFaults = 2
SPECIFICATION Spec
SYMMETRY Symmetry
INVARIANTS ClusterConsistent IsolatedOnceAcknowledged ServedWhereProbed
\* Every sandbox settles, after which only its pod may still end.
CHECK_DEADLOCK FALSE
