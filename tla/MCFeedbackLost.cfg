\* An email the SDK never repeats, whose run dies after SES accepted it.
CONSTANTS
    e1 = e1
    e2 = e2
    a1 = a1
    a2 = a2
    Emails = {e1}
    System = {}
    Copies = {}
    Topical = {}
    Addresses = {a1}
    RetryLimit = 0
    SdkAttempts = 1
    MaxReschedules = 0
    Kinds = {"COMPLAINT"}
    Tracked = {e1}
    ProjectRetries = 1
    MaxStored = 1
    MaxPosts = 1

SPECIFICATION FSpec
CHECK_DEADLOCK FALSE

INVARIANT FeedbackKept
