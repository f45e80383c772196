CONSTANTS
    DCEIds = {0}
    VRIds = {1}
    Values <- MCValues
    Strategies = {FunctionCall, AsmComment}
    FunctionCall = FunctionCall
    Runs <- MCRuns
    Arguments <- MCArguments
SPECIFICATION Spec
INVARIANTS
    TypeOK
    Consistent
    VerdictsSound
    RefinementCoversRun
    AnswersAreUsable
PROPERTIES
    Irrevocable
    LifecycleSpec
