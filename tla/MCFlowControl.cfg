SPECIFICATION FairSpec
CONSTANTS
    BufferSize = 3
    Writers = {"send", "feed", "async_write"}
    Parallel = {"server"}
    OtherTraffic = TRUE
    MaxAccepted = 7
INVARIANTS TypeOK LossExplained AdvertisedSpace CreditReturns NoSleepWithCredit
 
