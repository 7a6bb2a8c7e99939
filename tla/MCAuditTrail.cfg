SPECIFICATION TrailSpec
CONSTANTS
    Ids = {1, 2, 3}
    Ours = {1, 3}
    Limit = 1
    Retention = 1
    Period = 2
    Delay = 1
    MaxLag = 1
    MaxFailures = 1
    MaxTime = 6
INVARIANTS
    PagesAreExact
    WindowIsKept
