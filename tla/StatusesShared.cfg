SPECIFICATION Spec
CONSTANTS
    c1 = c1
    c2 = c2
    Calls <- TwoCalls
    Environments <- AllEnvironments
    Options <- AllOptions
    CallOptions <- AllCallOptions
    Arguments <- AllArguments
    UnusableURLs = {"ftp"}
    InvalidPolicies = {"broken"}
    ListedPolicies = {"named"}
    MaxOptions = 2
    MaxAttempts = 1
SYMMETRY Symmetry
PROPERTY
    PolicyImmutable
CHECK_DEADLOCK FALSE
