SPECIFICATION TourSpec
CONSTANT MaxClock = 8
PROPERTY PatchesWhatItRead
CHECK_DEADLOCK FALSE
