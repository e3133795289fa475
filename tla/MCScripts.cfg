CONSTANTS
  Configured <- MCConfigured
  Programs = {p1}
  Concurrency <- MCZero
  NumCpus = 2
  MaxPermits = 100

SPECIFICATION Spec
CONSTRAINT WithinBounds

INVARIANT RunningWithinConcurrency
PROPERTY EveryScriptRuns
PROPERTY ImplementsHookScripts
