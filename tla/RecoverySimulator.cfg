CONSTANTS
    Payments <- MCTwoPayments
    Cases <- MCThreeCases
    Actions <- MCActions4
    HighValue <- MCHighValue
    Provider = "simulator"
    RetryDelay = 1
    IngestReasons = {"BANK_TIMEOUT", "EXPIRED_CARD"}
    OpenOnIngest = {TRUE}
    AttemptCap = 2
    DetectCap = 1
    OrderCap = 2
    MaxAutomaticRetries = 2
    RepeatedFailureLimit = 3
    AllowHumanEscalation = TRUE
    SupportedActions = {"RETRY_NOW", "RETRY_LATER", "SEND_PAYMENT_LINK", "CHANGE_PAYMENT_METHOD", "SEND_REMINDER", "ESCALATE_HUMAN", "STOP"}
SPECIFICATION Spec
CHECK_DEADLOCK FALSE
INVARIANTS TypeOK OneOpenCase ScheduledCaseAwaitsOne OpenCaseMatchesPayment RecoveredOnce ExecutionsWithinBudget
PROPERTIES TerminalAbsorbing ChargeOnlyOpenFailed EveryCaseResolves
