\* Two workers for Qiita and one for Zenn, two days of up to two pages and two
\* topics: a stop finds the other worker anywhere, and the limit of the calls is
\* reached in the middle of a day, or while a call is repeated.
SPECIFICATION FairSpec
CONSTANTS
    QiitaWorkers = {q1, q2}
    ZennWorkers = {z1}
    Days = 2
    Topics = 2
    MaxPage = 2
    MaxRetries = 1
    QiitaMaxRequests = 4
    ZennMaxFailures = 1
    q1 = q1
    q2 = q2
    z1 = z1
INVARIANTS
    TypeOK
    CallsWithinLimit
    SucceededMeansComplete
    ProblemSaid
    LateCallsBounded
PROPERTIES JobEnds
