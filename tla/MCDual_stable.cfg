CONSTANTS
    n1 = n1
    n2 = n2
    n3 = n3
    Self = Self
    None = None
    Nbr <- ThreeNbrs
    Cost <- LinkCost3
    IfOf <- OwnIfs3
    Inf = 15
    WideMetric = FALSE
    Variance = 2
    SplitHorizon = {1, 2, 3}
    QueryBoundary = {}
    ActiveTime = FALSE
    Advertised = {2, 8, 15}
    ExtKinds = {FALSE, TRUE}
    Features = {}
    MaxBacklog = 1
SPECIFICATION Spec
INVARIANTS
    TypeOK
    ReplyStatusExact
    UniqueSuccessor
    NoQueryLost
    SuccessorsFeasible
    PassiveSuccessor
PROPERTIES
    FrozenWhileActive
    FdRaisedByComputation
