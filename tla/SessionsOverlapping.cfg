CONSTANTS
    Payments <- MCPayments
    Cases <- MCOneCase
    Actions <- MCTwoActions
    HighValue = {}
    Provider = "simulator"
    RetryDelay = 1
    IngestReasons = {"NETWORK_ERROR"}
    OpenOnIngest = {TRUE}
    AttemptCap = 2
    DetectCap = 1
    OrderCap = 1
    MaxAutomaticRetries = 2
    RepeatedFailureLimit = 1
    AllowHumanEscalation = TRUE
    SupportedActions = {"RETRY_NOW", "RETRY_LATER", "SEND_PAYMENT_LINK", "CHANGE_PAYMENT_METHOD", "SEND_REMINDER", "ESCALATE_HUMAN", "STOP"}
    s1 = s1
    s2 = s2
    Sessions = {s1, s2}
    Batch = {s1}
    Exclusive = FALSE
SPECIFICATION SSpec
CHECK_DEADLOCK FALSE
INVARIANTS SessionsTypeOK CommittedCaseRunnable
PROPERTIES RecoveredIsCaptured
