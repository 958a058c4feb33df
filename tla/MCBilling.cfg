SPECIFICATION Spec
CONSTANTS
    Orders = {o1}
    Flushes = {f1, f2}
    MaxTries = 2
    Faults = {"erp", "restart", "outbox", "worker", "broker", "mark", "db"}
    MaxFaults = 1
    MaxRuns = 2
    None = None
SYMMETRY Same
INVARIANTS
    ProofInvariants
    BilledIsInvoiced
    InvoicedOnce
    DeadLettersAreEarned
    RetriesAreNotMultiplied
    ReconcileFindsInvoices
PROPERTIES
    ImplementsInvoiceDesk
CHECK_DEADLOCK FALSE
