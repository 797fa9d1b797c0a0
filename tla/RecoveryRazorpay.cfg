CONSTANTS
    Payments <- MCPayments
    Cases <- MCThreeCases
    Actions <- MCActions5
    HighValue = {}
    Provider = "razorpay"
    RetryDelay = 1
    IngestReasons = {"BANK_TIMEOUT", "INSUFFICIENT_FUNDS"}
    OpenOnIngest = {TRUE, FALSE}
    AttemptCap = 4
    DetectCap = 2
    OrderCap = 2
    MaxAutomaticRetries = 3
    RepeatedFailureLimit = 2
    AllowHumanEscalation = TRUE
    SupportedActions = {"RETRY_NOW", "RETRY_LATER", "SEND_PAYMENT_LINK", "CHANGE_PAYMENT_METHOD", "SEND_REMINDER", "ESCALATE_HUMAN", "STOP"}
SPECIFICATION Spec
CHECK_DEADLOCK FALSE
INVARIANTS OpenCaseMatchesPayment FailuresWithinLimit
PROPERTIES ChargeOnlyOpenFailed EveryCaseResolves
