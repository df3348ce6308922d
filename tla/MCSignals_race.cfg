SPECIFICATION FairSpec
CONSTANTS
  UserSigs = {20}
  Handlers = {100}
  Dispositions <- MCDispositions
  Settable <- MCSettableUser
  Masks <- MCMasksKill
  MainCalls <- MCMainCalls
  HandlerCalls = {}
  Nested = {}
  Concurrent = TRUE
PROPERTIES
  KillDelivered
