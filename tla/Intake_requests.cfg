SPECIFICATION FairSpec
CONSTANTS
    Requests = {r1, r2}
    r1 = r1
    r2 = r2
    ann = ann
    bob = bob
    offer = offer
    hello = hello
    Persons <- MCPersons
    Messages <- MCMessages
    Sources <- MCSources
    Payloads <- Mixed
    FaultBudget <- AllFaults
INVARIANTS
    TypeOK
    OneLeadPerHash
    ResponseTrue
    OriginalStored
PROPERTIES
    ContractKept
    EveryRequestAnswered
CHECK_DEADLOCK FALSE
