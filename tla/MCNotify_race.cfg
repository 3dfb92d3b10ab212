CONSTANTS
    People = {o, p, q}
    Owner = o
    Starter = p
    Flaky = {p}
    QueueSize = 1
    Attempts = 2
    UserTTL = 2
    MissingTTL = 1
    MaxComments = 3
    MaxActs = 2
    MaxTime = 2
    MaxFlips = 1
    None = None
SPECIFICATION NotifySpec
CHECK_DEADLOCK FALSE
INVARIANTS ToldRight NobodyForgotten
PROPERTIES GivenUpWasGone Drains
