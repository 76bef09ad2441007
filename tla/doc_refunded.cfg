SPECIFICATION Spec
CONSTANTS
    Admins = {a1}
    Workers = {w1}
    MaxAttempts = 1
    Paid = 1
    StaffStatuses <- CancelOnly
    FirstStatuses <- PaidStatuses
    MaxRequests = 1
    MaxCrashes = 0
    NoRefund = NoRefund
INVARIANT RefundedIsPaidBack
CHECK_DEADLOCK FALSE
