SPECIFICATION PolledSpec
CONSTANTS
    Operations = {op1}
    Consumers = {alice, bob}
    Pollers = {p1, p2}
    None = None
    Ttl = 3
    BankWindow = 2
    Grace = 1
    MaxTime = 4
    OnePollAtATime = TRUE
PROPERTIES
    ImplementsApi
    SettledIsFinal
    ApprovedIsSettled
