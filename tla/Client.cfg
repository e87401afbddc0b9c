SPECIFICATION Spec
CONSTANTS
    c1 = c1
    c2 = c2
    Calls <- TwoCalls
    Environments <- AllEnvironments
    Options <- AllOptions
    CallOptions <- AllCallOptions
    Arguments <- AllArguments
    UnusableURLs = {"ftp"}
    InvalidPolicies = {"broken"}
    ListedPolicies = {"named"}
    MaxOptions = 2
    MaxAttempts = 2
SYMMETRY Symmetry
INVARIANTS
    TypeOK
    SettingsPrecedence
    EnvironmentURLOutweighed
    RequestsCarryTheirHeaders
    RequestsCarryTheirBody
    CallSettingsOwn
PROPERTY
    ConfigImmutable
CHECK_DEADLOCK FALSE
