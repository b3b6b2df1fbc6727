CONSTANTS
    Clients <- MCClients
    Models  <- MCModels
SPECIFICATION Spec
INVARIANTS SavedReadsBack ValidIsUsable
