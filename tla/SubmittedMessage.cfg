SPECIFICATION FairSpec
CONSTANTS
    BufferSize = 3
    MaxMessageBytes = 7
    MailHosts = {2, 3}
    DomainHost = 4
    Preferences = {1, 2}
    Texts <- MCTexts
    MaxRecords = 2
    MaxFaults = 2
INVARIANTS
    DataRoundTrips
    DeliveredAsAnswered
    PreferredFirst

    
CHECK_DEADLOCK FALSE
