\* A tracked email or an account email, which the SDK may request twice, and two
\* notifications of it.
CONSTANTS
    e1 = e1
    e2 = e2
    a1 = a1
    a2 = a2
    Emails = {e1, e2}
    System = {e2}
    Copies = {}
    Topical = {}
    Addresses = {a1}
    RetryLimit = 0
    SdkAttempts = 2
    MaxReschedules = 0
    Kinds = {"SEND", "COMPLAINT"}
    Tracked = {e1}
    ProjectRetries = 1
    MaxStored = 2
    MaxPosts = 2

SPECIFICATION FSpec
CONSTRAINT OneEmail
CHECK_DEADLOCK FALSE

INVARIANTS
    FeedbackTypeOK
    FeedbackCounted
    EvidenceIsReal
    ContentKept
PROPERTIES
    NothingTakenBack
