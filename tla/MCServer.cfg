SPECIFICATION MCSpec
CONSTANTS
    Tasks = {t1, t2, t3}
    NoTask = NoTask
    ConfigServer = TRUE
    MaxContexts = 3
    MaxTasks = 3
    Channels = {c1, c2}
    Feeds = {f1}
    NoFeed = NoFeed
    MaxChanges = 1
    MaxUserChanges = 1
CHECK_DEADLOCK FALSE
INVARIANTS ContextsSafe EndsForAReason
PROPERTY ServerProgress
