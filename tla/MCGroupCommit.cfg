\* One LF work unit (monthly, quarterly, annual), three faults anywhere.
SPECIFICATION FairSpec
CONSTANTS
    NumSiblings = 3
    MaxAttempts = 4
    MaxFaults = 3
INVARIANTS ReceiptCoversGroup OneAttemptAtATime
PROPERTIES ImplementsWorkUnit CommittedUnlessHalfLinked
CHECK_DEADLOCK FALSE
