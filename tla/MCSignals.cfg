SPECIFICATION FairSpec
CONSTANTS
  UserSigs = {20}
  Handlers = {100}
  Dispositions <- MCDispositions
  Settable <- MCSettableNotKill
  Masks <- MCMasksKill
  MainCalls <- MCMainCalls
  HandlerCalls = {"signal"}
  Nested = {"check"}
  Concurrent = FALSE
INVARIANTS
  PendingExact
  MaskRestored
  HandlerExclusive
PROPERTIES
  KillDelivered
  
