SPECIFICATION Spec
CONSTANTS
    User = {u1, u2}
    Worker = {w1, w2}
    Checkout = {k1, k2}
    None = None
    CheckoutTTL = 1
    Month = 2
    MaxClock = 3
    MaxRequests = 5
SYMMETRY Symmetry
INVARIANTS
    OptOutHolds
    HiddenStaysPrivate
    MirrorWasGranted
    SubscriptionIsPaid
    PaidLabsArePaid
PROPERTIES
    OneGrantPerCheckout
CHECK_DEADLOCK FALSE
