SPECIFICATION Spec
CONSTANTS
    Requests = {r1, r2}
    r1 = r1
    r2 = r2
    ann = ann
    bob = bob
    offer = offer
    hello = hello
    Persons <- MCPersons
    Messages <- MCMessages
    Sources <- MCSources
    Payloads <- Mixed
    FaultBudget <- NoFaults
INVARIANTS
    RejectedStored
CHECK_DEADLOCK FALSE
