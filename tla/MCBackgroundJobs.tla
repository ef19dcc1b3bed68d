-------------------------- MODULE MCBackgroundJobs --------------------------
EXTENDS BackgroundJobs, TLC

\* A schedule that is due at every tick of the clock and one at every second.
MCPeriod == 1 :> 1 @@ 2 :> 2
MCAnchor == 1 :> 0 @@ 2 :> 1
MCFirstRun == MCAnchor
=============================================================================
