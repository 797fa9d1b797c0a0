CONSTANTS
    Payments <- MCPayments
    Cases <- MCCases
    Actions <- MCActions
    HighValue <- MCHighValue
    Seeds <- MCSeeds
    Clocks = {"virtual", "wall"}
    Provider = "simulator"
    RetryDelay = 1
    Limits = {2}
    Outside = {1}
    IngestReasons = {"BANK_TIMEOUT"}
    OpenOnIngest = {TRUE}
    AttemptCap = 3
    DetectCap = 1
    OrderCap = 0
    MaxAutomaticRetries = 3
    RepeatedFailureLimit = 2
    AllowHumanEscalation = TRUE
    HighValueThreshold = 50000
    SupportedActions = {"RETRY_NOW", "RETRY_LATER", "SEND_PAYMENT_LINK", "CHANGE_PAYMENT_METHOD", "SEND_REMINDER", "ESCALATE_HUMAN", "STOP"}
SPECIFICATION ASpec
INVARIANT AutopilotTypeOK
PROPERTY BatchClosesAll
INVARIANT DemoGuaranteed
PROPERTY BatchEnds
INVARIANT MoneyKeepsItsCause
INVARIANT HonestRates
INVARIANT SelectionsAccounted
PROPERTY FiguresOnlyGrow
PROPERTY LabPermitsWhatRunsDo
INVARIANT LooserNeverForbids
INVARIANT BenchmarkStable
INVARIANT FirstActionAsProjected
INVARIANT UpliftNotNegative
