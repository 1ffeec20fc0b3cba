SPECIFICATION Spec
CONSTANTS
    Grace = 2
    BackoffUnit = 1
    BackoffCap = 3
    RetryAfters = {0, 4}
    MaxGeneration = 1
    MaxEvents = 6
INVARIANT TimerMatchesRequest
INVARIANT FinishIsNeverForgotten
PROPERTY CooldownHonoured
PROPERTY RequestIsServed
PROPERTY ShutdownDrains
