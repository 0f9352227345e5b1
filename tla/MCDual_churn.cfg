CONSTANTS
    n1 = n1
    n2 = n2
    n3 = n3
    Self = Self
    None = None
    Nbr <- TwoNbrs
    Cost <- LinkCost
    IfOf <- SharedIf
    Inf = 15
    WideMetric = TRUE
    Variance = 2
    SplitHorizon = {1}
    QueryBoundary = {}
    ActiveTime = TRUE
    Advertised = {8, 15}
    ExtKinds = {FALSE}
    Features = {"late", "delete", "restart", "kmismatch", "sia"}
    MaxBacklog = 1
SPECIFICATION Spec
INVARIANTS
    NoQueryLost
    TimerOwned
PROPERTIES
    FdRaisedByComputation
