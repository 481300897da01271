SPECIFICATION TickSpec
VIEW Relative
CONSTANTS
    a = a
    b = b
    s = s
    Idle = Idle
    Tasks = {a, b}
    Timers = {s}
    Interval <- IntervalOf
    Periodic = {s}
    Waits = {1}
    Never = 1000000
    CyclesPerTick = 6
    MinPeriod = 3
    Precision = 2
    Slice = 4
    SliceMin = 0
    PeriodMax = 10
    MaskMax = 1
    CallsInOverrun = FALSE
    CallsOverTick = FALSE
INVARIANTS
    LinksOrdered
    ClockTrue
    TimeoutsInTime
    SlicesEnd
