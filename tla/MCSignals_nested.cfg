SPECIFICATION Spec
CONSTANTS
  UserSigs = {4}
  Handlers = {100}
  Dispositions <- MCDispositions
  Settable <- MCSettableUser
  Masks <- MCMasks
  MainCalls = {"signal", "sigprocmask"}
  HandlerCalls = {}
  Nested = {"check", "loop", "backup", "clear"}
  Concurrent = FALSE
INVARIANTS
  MaskRestored
