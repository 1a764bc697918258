SPECIFICATION Spec
CONSTANTS
    Operations = {op1}
    Consumers = {alice}
    Pollers = {p1, p2}
    None = None
    Ttl = 2
    BankWindow = 3
    Grace = 1
    MaxTime = 4
    OnePollAtATime = FALSE
PROPERTIES
    TerminalStaysTerminal
