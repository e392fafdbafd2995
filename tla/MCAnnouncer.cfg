SPECIFICATION FairSpec
CONSTANTS
  Relays = {r1, r2}
  Unreliable = {r2}
  MaxPick = 1
  MinActive = 1
  PingRounds = 2
  Suspends = {s1, s2}
CHECK_DEADLOCK FALSE
INVARIANTS UnannounceExcludesUpdate KnowsItsRelays SuspendedIsUnannounced
PROPERTIES StopTerminates RefreshServed
