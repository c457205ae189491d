CONSTANTS
    r1 = r1
    r2 = r2
    r3 = r3
    Requests = {r1, r2, r3}
    providerOf <- Providers
    projectOf <- Projects
    cpuOf <- Cpus
    globalConcurrency = 2
    providerConcurrency = 1
    projectConcurrency = 1
    cpuMillis = 2
    Ttl = 2
    MaxClock = 4
    MaxFence = 4
    Owned = {"src", "test"}
    Foreign = {"other"}
    MaxCommits = 3
SPECIFICATION Spec
INVARIANTS LeasesAreBacked PublishedOnce
CHECK_DEADLOCK FALSE
