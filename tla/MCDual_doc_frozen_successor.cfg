CONSTANTS
    n1 = n1
    n2 = n2
    n3 = n3
    Self = Self
    None = None
    Nbr <- TwoNbrs
    Cost <- LinkCost
    IfOf <- OwnIfs
    Inf = 15
    WideMetric = FALSE
    Variance = 1
    SplitHorizon = {1, 2}
    QueryBoundary = {}
    ActiveTime = FALSE
    Advertised = {2, 8, 15}
    ExtKinds = {FALSE}
    Features = {"connected"}
    MaxBacklog = 1
SPECIFICATION Spec
PROPERTIES
    FrozenWhileActive
