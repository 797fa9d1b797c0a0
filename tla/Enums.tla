-------------------------------- MODULE Enums --------------------------------
(***************************************************************************)
(* The vocabulary every module shares: the enumerations of                 *)
(* app/core/enums.py, the candidate table of the candidate generator and   *)
(* the two markers used for values a row does not have.                    *)
(***************************************************************************)

\* A nullable column that is NULL, and a row that was never inserted.
None   == "NONE"
Absent == "ABSENT"

PaymentStatus == {"CREATED", "PENDING", "SUCCEEDED", "FAILED", "ABANDONED"}
Unsuccessful  == {"FAILED", "ABANDONED"}

FailureReason == {"BANK_TIMEOUT", "INSUFFICIENT_FUNDS", "EXPIRED_CARD", "NETWORK_ERROR",
                  "CHECKOUT_ABANDONMENT", "SUBSCRIPTION_FAILURE", "UNKNOWN"}

ActionType == {"RETRY_NOW", "RETRY_LATER", "SEND_PAYMENT_LINK", "CHANGE_PAYMENT_METHOD",
               "SEND_REMINDER", "ESCALATE_HUMAN", "STOP"}
RetryActions    == {"RETRY_NOW", "RETRY_LATER", "CHANGE_PAYMENT_METHOD"}
TerminalActions == {"ESCALATE_HUMAN", "STOP"}

ActionStatus == {"PROPOSED", "APPROVED", "BLOCKED", "ESCALATED", "SCHEDULED", "EXECUTED", "FAILED"}

PolicyOutcome == {"APPROVED", "BLOCKED", "ESCALATED"}

CaseState == {"DETECTED", "DIAGNOSING", "DIAGNOSED", "EVALUATING", "DECISION_READY",
              "POLICY_CHECK", "APPROVED", "BLOCKED", "SCHEDULED", "EXECUTING", "VERIFYING",
              "RECOVERED", "FAILED", "ESCALATED", "STOPPED"}
TerminalStates == {"RECOVERED", "ESCALATED", "STOPPED"}

RunnableEscalated == {"DETECTED", "FAILED", "SCHEDULED", "ESCALATED"}   \* mutant of RunnableStates
\* States a workflow run may start from; every run also ends in one of these
\* or in a terminal state.
RunnableStates == {"DETECTED", "FAILED", "SCHEDULED"}

AuditEventType ==
    {"REVENUE_RISK_DETECTED", "DIAGNOSIS_COMPLETED", "RECOVERY_OPTIONS_EVALUATED",
     "RECOVERY_DECISION_SELECTED", "POLICY_APPROVED", "POLICY_BLOCKED", "POLICY_ESCALATED",
     "ACTION_SCHEDULED", "ACTION_EXECUTED", "ACTION_FAILED", "OUTCOME_VERIFIED",
     "REVENUE_RECOVERED", "WORKFLOW_STOPPED"}

\* The actions considered for each failure reason, as sets: their order in the
\* source decides nothing, although a comment there says that it breaks ties.  The
\* ranking breaks them by the declaration of ActionType (Before in Scoring).
CandidatesByReason ==
    [r \in FailureReason |->
        CASE r = "BANK_TIMEOUT"         -> {"RETRY_NOW", "RETRY_LATER", "SEND_PAYMENT_LINK"}
          [] r = "EXPIRED_CARD"         -> {"CHANGE_PAYMENT_METHOD", "SEND_PAYMENT_LINK", "ESCALATE_HUMAN"}
          [] r = "INSUFFICIENT_FUNDS"   -> {"RETRY_LATER", "SEND_PAYMENT_LINK", "SEND_REMINDER"}
          [] r = "CHECKOUT_ABANDONMENT" -> {"SEND_REMINDER", "SEND_PAYMENT_LINK"}
          [] r = "NETWORK_ERROR"        -> {"RETRY_NOW", "RETRY_LATER"}
          [] r = "SUBSCRIPTION_FAILURE" -> {"RETRY_LATER", "SEND_REMINDER", "SEND_PAYMENT_LINK"}
          [] r = "UNKNOWN"              -> {"ESCALATE_HUMAN", "STOP"}]
==============================================================================
