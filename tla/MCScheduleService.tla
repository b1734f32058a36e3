------------------------- MODULE MCScheduleService -------------------------
(* A small instance of ScheduleService: two names, each of which may be    *)
(* registered again, and two callers that delete cron jobs.                *)
EXTENDS ScheduleService

CONSTANTS n1, n2, i1, i2, i3, d1, d2

TwoNames == {n1, n2}
ThreeRegistrations == {i1, i2, i3}
TwoCallers == {d1, d2}
=============================================================================
