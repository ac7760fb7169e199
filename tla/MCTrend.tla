------------------------------- MODULE MCTrend -------------------------------
\* Instances of Trend for TLC.
EXTENDS Trend

Healthy == [EmptyReading EXCEPT !.sources = TRUE, !.temperature = 35]
\* Only an estimate of its wear, and a spare.
Guessed == [Healthy EXCEPT !.estimated = 90, !.spare = 90, !.spareMin = 10]
\* A measured wear, and too hot.
Hot     == [Healthy EXCEPT !.remaining = 25, !.temperature = 72]

Everything == {Guessed, Hot}

Defaults == [lifeWarn |-> 20, lifeCrit |-> 10, tempWarn |-> 60, tempCrit |-> 70,
             useDriveLimit |-> TRUE, reallocated |-> 2]
=============================================================================
