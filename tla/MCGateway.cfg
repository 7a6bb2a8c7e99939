SPECIFICATION GatewaySpec
CONSTANTS
    r1 = r1  r2 = r2  a1 = a1  wA = wA  wB = wB
    reader = reader  writer = writer
    Reqs = {r1, r2}
    Addresses = {a1}
    Workspaces = {wA, wB}
    Credentials = {reader, writer}
    Bound <- CredentialBound
    Granted <- CredentialScopes
    Mixes <- FourMixes
    EdgeRate = 1
    EdgeBurst = 2
    CredentialRate = 1
    CredentialBurst = 1
    StaleAfter = 4
    MaxWait = 1
    MaxTicks = 5
SYMMETRY Slots
INVARIANTS
    FloodIsMetered
    AuthorityHolds
    TrailTellsTheTruth
    FailureMeansUnchanged
PROPERTIES
    EdgeIsABucket
