SPECIFICATION Spec
CONSTANTS
    Warmer = {w1}
    Executor = {x1}
    t = t
    d1 = d1
    d2 = d2
    mirror = mirror
    Tag = {t}
    Digest = {d1, d2}
    Mirrors <- MCMirrors
    Default = default
    ImageDownloadRetry = 1
    WarmerRun <- MCWarmerRun
    ExecutorRun <- MCExecutorRun
    None = None
    Part = Part
INVARIANTS OneNameOneImage FilesAreWhole MissingIsCounted
CHECK_DEADLOCK FALSE
PROPERTY RunsEnd
