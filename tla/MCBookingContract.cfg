\* Two tokens, so the admin can repoint the contract while escrows are open.
SPECIFICATION Spec
CONSTANTS
    Vault = Vault
    None = None
    Accounts = {ann, bob, cal}
    Tokens = {usdc, eurc}
    EscrowIds = {e1}
    PriceInputs = {0, 1}
    Days = {0, 1, 2}
    MaxListings = 1
    MaxBookings = 2
    InitialBalance = 2
CHECK_DEADLOCK FALSE
SYMMETRY Symmetry
INVARIANTS
    TypeOK
    NoDoubleBooking
    EscrowFollowsStatus
    EscrowExact
PROPERTIES
    OutcomeIsFinal
    EscrowPromise
