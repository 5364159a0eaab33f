SPECIFICATION Spec
CONSTANTS
  Call = {c1, c2}
INVARIANTS AppliedOnce OutcomeIsTrue LeavingIsNoNetworkError
PROPERTIES EveryCallSettles
