CONSTANTS
    a = a
    q1 = q1
    d1 = d1
    d2 = d2
    d3 = d3
    d4 = d4
    x1 = x1
    p = p
    q = q
    r = r
    succeeded = succeeded
    o1 = o1
    own = own
    Products <- MCProducts
    Price <- MCPrice
    Payments <- MCPayments
    Deliveries <- MCDeliveries
    Deletions <- MCDeletions
    PaymentOf <- MCPaymentOf
    Past <- MCPast
    MaxQuantity = 2
    MaxVisits = 2
    MaxFailures = 1
    MaxRecords = 2
    MaxActs = 4
    Graphs <- MCGraphs
    Spots <- MCSpots
    MaxGraphs = 2
    MaxExports = 1
    Workers = 2
    MaxPolls = 2
    MaxClicks = 2
    MaxFaults = 3
    Events = {succeeded}
    Sendable = {succeeded}
    Occasions = {o1}
    EventOf <- MCEventOf
    Mailboxes = {own}
    Own = own
    Limits = {1}
    MaxSaves = 1
    MaxScanFaults = 1
SPECIFICATION Spec
INVARIANTS OrderIsWhatWasCharged RecordsAreUnique RestoredAsLeft DownloadIsThere MailedOnce
PROPERTIES TerminalIsShown ExportEndIsShown MailEnds
CHECK_DEADLOCK FALSE
