\* Two requests and one scrape, and a time limit of two ticks, under fairness of main and time.
SPECIFICATION FairSpec
CONSTANTS
    Configs <- MCConfigs
    Requests = {r1, r2}
    Scrapes = {s1}
    Limit = 2
INVARIANTS TypeOK ServedByReadyEngine CleanExit
PROPERTIES CutOnlyAtLimit SignalEnds
\* A process that has ended does nothing more.
CHECK_DEADLOCK FALSE
