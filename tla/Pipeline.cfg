SPECIFICATION FairSpec
CONSTANTS
    Files = {"cp1", "cp2", "cp.tmpl"}
    Templates = {"cp.tmpl"}
    Commits <- SomeCommits
    MaxPolls = 4
    MaxRuns = 2
PROPERTIES OnlyDeprovisioned GreenMeansDone RunsEnd
CHECK_DEADLOCK FALSE
