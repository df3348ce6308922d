SPECIFICATION Spec
INVARIANTS
  ContentExact
  MemoryExact
  HeapTiled
  SpinSafe
  ConsoleExact
  ParsesGrammar
  TextExact
CHECK_DEADLOCK FALSE
