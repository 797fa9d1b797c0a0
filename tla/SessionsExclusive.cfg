CONSTANTS
    Payments <- MCTwoPayments
    Cases <- MCTwoCases
    Actions <- MCTwoActions
    HighValue <- MCHighValue
    Provider = "razorpay"
    RetryDelay = 1
    IngestReasons = {"NETWORK_ERROR"}
    OpenOnIngest = {TRUE}
    AttemptCap = 2
    DetectCap = 1
    OrderCap = 1
    MaxAutomaticRetries = 2
    RepeatedFailureLimit = 1
    AllowHumanEscalation = TRUE
    SupportedActions = {"RETRY_NOW", "RETRY_LATER", "SEND_PAYMENT_LINK", "CHANGE_PAYMENT_METHOD", "SEND_REMINDER", "ESCALATE_HUMAN", "STOP"}
    s1 = s1
    s2 = s2
    Sessions = {s1, s2}
    Batch = {}
    Exclusive = TRUE
SYMMETRY MCSessionSymmetry
SPECIFICATION SSpec
CHECK_DEADLOCK FALSE
PROPERTY ExclusiveRunsAreAtomic NoWayOutOfTerminal NoOrderForCaptured
