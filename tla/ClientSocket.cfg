SPECIFICATION FairSpec
CONSTANTS
    Descriptors = {3, 4}
    Hosts = {"NULL", "v4", "v6", "name"}
    MaxAddrs = 2
INVARIANTS
    TypeOK
    ResourcesAccounted
    AddressIsSockets
    DomainHonoured
PROPERTIES
    CreateAnswers
