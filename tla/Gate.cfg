SPECIFICATION FairSpec
CONSTANTS
  Client = {c1, c2, c3}
  Finalizer = {f1}
INVARIANTS TypeOK CounterExact
PROPERTIES KeepsPromise WaitEnds
