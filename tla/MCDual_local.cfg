CONSTANTS
    n1 = n1
    n2 = n2
    n3 = n3
    Self = Self
    None = None
    Nbr <- TwoNbrs
    Cost <- LinkCost
    IfOf <- OwnIfs
    Inf = 15
    WideMetric = TRUE
    Variance = 2
    SplitHorizon = {1, 2}
    QueryBoundary = {2}
    ActiveTime = FALSE
    Advertised = {2, 8, 15}
    ExtKinds = {FALSE}
    Features = {"late", "delete", "restart", "connected", "clear"}
    MaxBacklog = 1
SPECIFICATION Spec
INVARIANTS
    SuccessorInv
    NotStranded
    WorkPending
    OriginExists
