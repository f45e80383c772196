CONSTANTS
    DCEIds = {0}
    VRIds = {1}
    Values <- MCValues
    Strategies = {FunctionCall, AsmComment}
    FunctionCall = FunctionCall
    Runs <- MCRuns
    Arguments <- MCArguments
SPECIFICATION Spec
PROPERTY FindingMarkersAnswers
