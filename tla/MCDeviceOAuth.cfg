\* Two registered clients of three, one enrollment, two forms and two token
\* requests in flight, and one failed registration or restart.
CONSTANTS
    Clients = {c1, c2, c3}
    Forms = {f1, f2}
    Requests = {r1, r2}
    MaxClients = 2
    MaxAttempts = 3
    TxnTTL = 1
    CodeTTL = 1
    RefreshTTL = 1
    MaxTxns = 2
    MaxClock = 2
    MaxMishaps = 2
SYMMETRY Symmetry
SPECIFICATION Spec
INVARIANTS TypeOK SubmissionsBounded OneGrantPerEnrollment RegistrySurvives
