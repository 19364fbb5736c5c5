CONSTANTS
    r1 = r1
    r2 = r2
    p1 = p1
    q1 = q1
    k1 = k1
    Request = {r1, r2}
    Provider = {p1, q1}
    Pool = {p1, q1}
    Key = {k1}
    EnvKeys <- MCEnvKeys
    Models <- MCModels
    Quota = {}
    UseMax = 0
    AdminMax = 0
    StartMax = 0
    failure_threshold = 1
    success_threshold = 1
    CallMax = 2
    max_retries = 1
    ChunkMax <- MCChunkMax
    BlackoutMax = 1
    FailMax = 4
SPECIFICATION FairSpec
INVARIANTS EndsWithWholeAttempt AccountsAgree
PROPERTIES EveryRequestEnds
CHECK_DEADLOCK FALSE
