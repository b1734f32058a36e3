----------------------- MODULE MCApplicationShutdown -----------------------
(* A small instance of ApplicationShutdown: budgets of a few ticks in the  *)
(* order of the code's (5, 10 and 2 seconds), so that every phase may end  *)
(* early, on time, or with no time left.                                   *)
EXTENDS ApplicationShutdown

Propagation == 2
Close == 3
Telemetry == 1
=============================================================================
