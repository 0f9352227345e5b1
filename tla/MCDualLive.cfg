CONSTANTS
    n1 = n1
    n2 = n2
    n3 = n3
    Self = Self
    None = None
    Nbr <- TwoNbrs
    Cost <- LinkCost
    IfOf <- OwnIfs
    Inf = 15
    WideMetric = TRUE
    Variance = 1
    SplitHorizon = {1, 2}
    QueryBoundary = {}
    ActiveTime = FALSE
    Advertised = {8, 15}
    ExtKinds = {FALSE}
    Features = {"delete", "restart", "connected"}
    MaxBacklog = 2
    MaxDisturbance = 5
SPECIFICATION LiveSpec
PROPERTIES
    ComputationEnds
    QueryAnswered
CHECK_DEADLOCK FALSE
