SPECIFICATION FairSpec
CONSTANTS
    Users = {u1, u2}
    OrderIds = {o1, o2}
    Outcomes = {"Succeeded", "Failed"}
    None = None
CHECK_DEADLOCK FALSE
INVARIANTS
    OutboxTellsPaymentHistory
    CancellationsNeverLost
PROPERTIES
    CanceledOrderIsNotPaid
    PaymentsAreResolved
