SPECIFICATION Spec
CONSTANTS
 p1 = p1
 p2 = p2
 p3 = p3
 id1 = id1
 id2 = id2
 Nobody = Nobody
 Callers <- MCCallers
 KindOf <- MCKindOf
 Limit <- MCLimit
 WorkerIds = {id1, id2}
 Cost = 2
 Capacity = 2
 MaxSubagentCalls = 3
 MaxTicks = 4
 Checkers = {"ticker", "host"}
 Ticker = "ticker"
 Sweep <- MCSweep
 Checkouts = {"c1", "c2"}
 RootOf <- MCRootOf
 MaxEdits = 2
 MaxFailures = 0
 MaxRequests = 1
 WatchedProfiles <- MCWatched
 Debounce = 2
 MaxWait = 3
 MaxHubCrashes = 1
 Harness <- MCHarnessClash
 Missing = "none"
 EnvValues = {"v1"}
 Requests <- MCRequestsClash
 MaxWrites = 2
 Chars = {"{", "}", "[", "]", "quote", "backslash", "comma", "x"}
 MaxText = 5
 MaxStackDepth = 3
CHECK_DEADLOCK FALSE
\* TLC stops at the first invariant that is violated; without it, it finds the next.
INVARIANT RestoredStaysClosed
INVARIANT RepairParses
INVARIANT RateHeld
INVARIANT PoolKeptApart
