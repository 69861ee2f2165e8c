\* Every utilization function of 2 Ps up to a duration, in up to 3 bands.
CONSTANTS
    One = 2
    bandsPerSeries = 3
    MaxTime = 6
    MaxWorst = 2
SPECIFICATION FairSpec
INVARIANTS
    Disjoint
