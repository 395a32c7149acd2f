SPECIFICATION MCSpec
CONSTANTS
    n1 = n1
    c1 = c1
    c2 = c2
    t1 = t1
    t2 = t2
    None = None
    Ids = {n1}
    Tenants = {t1, t2}
    Clients = {c1, c2}
    TenantOf <- MCOneTenant
    SenderDisabled = {}
    MaxRetries = 2
    Backoff <- MCBackoff
    Delays = {0, 1}
    MaxEdits = 2
    MaxFaults = 1
    Waiter = c1
    PollTimeout = 2
    Command = c2
    maxNotificationAttachmentCount = 2
    maxNotificationAttachmentSizeBytes = 2
    maxNotificationAttachmentsTotalBytes = 3
    MaxMessageSizeBytes = 6
    MaxText = 3
INVARIANTS
    WaitTellsTruth
    CommandMeetsServer
PROPERTIES
    EventuallySettled
    WaitEnds
