CONSTANTS
    Percent <- Percent64
    WindowSizes <- MCWindowSizes
    Minima <- MCMinima
SPECIFICATION Spec
INVARIANTS
    RecoversWithinOne
    DefaultWindowExact
\* The climb ends with a window full of successes.
CHECK_DEADLOCK FALSE
