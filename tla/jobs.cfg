CONSTANTS
    pickup = pickup
    confirmation = confirmation
    run1 = run1
    run2 = run2
    byHand = byHand
    booking = booking
    insurance = insurance
    scratch = scratch
    check1 = check1
    desk1 = desk1
    NoRun = NoRun
    Keys <- KeysDef
    Runs = {run1, run2, check1}
    Jobs = {run1, run2}
    Reminders = {pickup}
    Confirmations = {confirmation}
    Admins = {byHand}
    Requests = {booking}
    Limit = 2
    MaxFaults = 1
    Papers = {insurance}
    Damages = {scratch}
    Checks = {check1}
    Desks = {desk1}
    MaxChanges = 3
    MaxAlertFaults = 1
SPECIFICATION FairSpec
INVARIANTS TypeOK NeverMailedAgain ClaimsHaveOwners SentHasLeft
PROPERTIES NoticesSettle AlertsSettle RightAlertsStay
CHECK_DEADLOCK FALSE
