SPECIFICATION Spec
CONSTANTS
    FirstDay = 2
    MaxDay = 4
    Session = {1, 3, 4}
    Lookback = 2
    Window = 1
    Forward = {1}
    Kind = {"bullish", "bearish"}
    Exchange = {"nyse"}
    MaxFault = 1
    MaxCrash = 1
INVARIANTS EpisodesDisjoint EventHasEpisode TrackingAgrees ReadingHasNoHole FollowThroughIsExact CrashCostsOneEvent
CHECK_DEADLOCK FALSE
