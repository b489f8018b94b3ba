SPECIFICATION Spec
CONSTANTS
    Tasks = {t1, t2}
    Lengths = {2}
    Pages = {page}
    MaxFetches = 2
    MaxEvents = 3
    MaxFaults = 1
INVARIANTS BoardFollows
PROPERTIES OnlyControlReopens StudioConverges
