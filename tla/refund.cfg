SPECIFICATION MCSpec
CONSTANTS
    Admins = {a1, a2}
    Workers = {w1}
    MaxAttempts = 2
    Paid = 2
    StaffStatuses <- PickUpOrCancel
    FirstStatuses <- ReadyOnly
    MaxRequests = 2
    MaxCrashes = 1
    NoRefund = NoRefund
    Clerks = {c1, c2}
    Tabs = {t1}
    Asks = {1}
    FoundStatuses <- InHand
    FoundPayments <- SessionOnly
    HandStatuses <- CancelOnly
    MaxSheets = 2
    MaxBroken = 1
    NoAsk = NoAsk
SYMMETRY Alike
INVARIANTS TypeOK OneActiveOperation SuccessIsReal BooksAgree
    ApprovedIsActedOn AnswersAgree CounterRecordsAgree
PROPERTIES KeepsPromise CounterKeepsPromise
CHECK_DEADLOCK FALSE
