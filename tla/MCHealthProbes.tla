--------------------------- MODULE MCHealthProbes ---------------------------
(* A small instance of HealthProbes: three probes, and room for more       *)
(* database attempts than may ever be open.                                *)
EXTENDS HealthProbes

CONSTANTS p1, p2, p3, a1, a2

ThreeProbes == {p1, p2, p3}
TwoAttempts == {a1, a2}
=============================================================================
