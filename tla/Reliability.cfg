CONSTANTS
    r1 = r1
    r2 = r2
    a = a
    b = b
    p = p
    k1 = k1
    k2 = k2
    k3 = k3
    None = None
    Producer = Producer
    Reader = {r1, r2}
    Payload = {a, b}
    hash_request <- MCHash
    max_size = 1
    Asks <- MCAsks
    StreamMax <- MCStreamMax
    Provider = {p}
    failure_threshold = 2
    success_threshold = 2
    CallMax = 2
    Pool = {p}
    Key = {k1, k2, k3}
    EnvKeys <- MCEnvKeys
    Quota = {1}
    UseMax = 1
    AdminMax = 2
    StartMax = 1
SPECIFICATION MCSpec
INVARIANTS AnswersAreWhole
PROPERTIES EveryReaderIsTold BreakerKeepsCount 
CHECK_DEADLOCK FALSE
