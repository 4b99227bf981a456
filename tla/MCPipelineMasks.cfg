SPECIFICATION Spec
CONSTANTS
    HeaderNames = {"h", "H", "k"}
    KeyOf <- MCKeyOf
    HeaderValues <- MCHeaderValues
    VarNames = {"v"}
    VarValues <- MCVarValues
    MaxCalls = 3
    Reserved = {"q"}
    SecretNames = {"s", "t"}
    SecretValues <- MCSecretValues
    SensitiveHeaders = {"k"}
    ContentType = "h"
    Requests <- MCRequests
    JsValues <- MCJsValues
    Infinity = 2
    DepthLimit = 2
    MaxPuts = 1
    BodyCap = 4
    HistoryCap = 3
INVARIANTS
    EveryStringIsMasked
CHECK_DEADLOCK FALSE
