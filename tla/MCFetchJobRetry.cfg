\* Two workers for Qiita: one waits to retry while the other one stops.
CONSTANTS
    QiitaWorkers = {q1, q2}
    ZennWorkers = {z1}
    Days = 2
    Topics = 0
    MaxPage = 1
    MaxRetries = 1
    QiitaMaxRequests = 0
    ZennMaxFailures = 1
    q1 = q1
    q2 = q2
    z1 = z1
SPECIFICATION Spec
PROPERTIES NoCallAfterStop
