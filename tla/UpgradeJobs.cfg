CONSTANTS
    r1 = r1
    docs = docs
    dev = dev
    r2 = r2
    Commits <- MCCommits
    Releases <- MCReleases
    Version <- MCVersion
    Neutral <- MCNeutral
    NoSha = NoSha
    None = None
    MaxJobs = 2
    MaxFaults = 1
SPECIFICATION Spec
CHECK_DEADLOCK FALSE
INVARIANTS TypeOK MarkerIsTrue RecordedIsInstalled AppliedIsLive FlagCovers
