-------------------------- MODULE MCQueueAdmission --------------------------
(* A small instance of QueueAdmission: three calls, each of one or two jobs. *)
EXTENDS QueueAdmission

CONSTANTS c1, c2, c3

ThreeCalls == {c1, c2, c3}
OneOrTwoJobs == [c \in Calls |-> IF c = c2 THEN 1 ELSE 2]
=============================================================================
