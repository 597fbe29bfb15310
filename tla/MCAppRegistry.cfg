\* Two queues; the method needs a name of its own to be registered too.
CONSTANTS
    Saga = saga
    Copy = copy
    Step = step
    Proxy = proxy
    Host = host
    Other = other
    Workflows <- SagaAndCopy
    Activities <- StepAndProxy
    Methods = {proxy}
    Instances <- TwoInstances
    Provides <- ProvidesOfTwo
    Hidden <- HiddenOfTwo
    OwnName <- Names
    TypeNames = {"move", "step"}
    Queues = {q1, q2}
    Options = {o1}
SPECIFICATION Spec
INVARIANTS
    RegistryTypeOK
    RoutedWorkIsHosted
    MethodsHaveOneInstance
PROPERTIES
    RoutesNeverMove
CHECK_DEADLOCK FALSE
