CONSTANTS
    Label <- SomeLabels
    Empty = ""
    Domain <- DefaultDomain
    Context <- SomeContexts
    Current <- SomeCurrent
    MaxLabels = 7
SPECIFICATION Spec
INVARIANTS
    ParseExact
    RoutesAgree
    TargetLeadsBack
CHECK_DEADLOCK FALSE
