CONSTANTS
    Segment = {a, b}
    Reader = {r}
    Window <- Nights
    Cooldown = 2
    Ttl = 1
    MaxClock = 1
    MaxRefreshes = 1
    Changing = {a}
    Env = {"build_fails", "db_fails", "crash", "delete"}
SPECIFICATION Spec
CHECK_DEADLOCK FALSE
INVARIANTS PassExact StaleIsOverlapped
PROPERTIES LastGoodKept PassesEnd DueIsBuilt
