SPECIFICATION Spec
CONSTANTS
    Descriptors = {3, 4}
    Hosts = {"NULL", "v4", "v6", "name"}
    MaxAddrs = 2
INVARIANTS
    EveryAddressTried
