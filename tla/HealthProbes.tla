---------------------------- MODULE HealthProbes ----------------------------
(***************************************************************************)
(* Readiness probes of one process: GET /health/ready asks the database    *)
(* and Redis at once.  Concurrent probes share one database ping and one   *)
(* Redis ping.  A ping that waits for a pooled connection cannot be        *)
(* cancelled: it gives its result when its time is up, and is kept until   *)
(* the pool answers.  Each report of a dependency goes to the diagnostics, *)
(* which log an outage at most once a minute.                              *)
(*                                                                         *)
(* The pool, the database and Redis are external: they answer at any time  *)
(* or never.  Liveness probes answer at once and change nothing.           *)
(***************************************************************************)
EXTENDS Naturals, FiniteSets

CONSTANTS Probes, Attempts, NoAttempt

ASSUME AttemptAssumption == NoAttempt \notin Attempts

VARIABLES
  isDraining,           \* ApplicationReadinessService
  probe,                \* what each probe knows of its two dependencies
  databasePingAttempt,  \* the attempt new probes join
  attempt,              \* every attempt whose connection is not settled yet
  isPingingRedis,       \* redisPing is set
  dependency            \* dependencyStates, and what was logged of the last outage

vars == <<isDraining, probe, databasePingAttempt, attempt, isPingingRedis, dependency>>

Dependencies == {"database", "redis"}
NoPing == [connection |-> "none", result |-> "none"]
Healthy == [isFailing |-> FALSE, hasLogged |-> FALSE, recent |-> FALSE,
            failures |-> 0, recoveries |-> 0]
Idle == [d \in Dependencies |-> "idle"]

Init ==
  /\ isDraining = FALSE
  /\ probe = [p \in Probes |-> Idle]
  /\ databasePingAttempt = NoAttempt
  /\ attempt = [a \in Attempts |-> NoPing]
  /\ isPingingRedis = FALSE
  /\ dependency = [d \in Dependencies |-> Healthy]

-----------------------------------------------------------------------------
(* Diagnostics                                                             *)

\* recent: the last failure was logged less than a minute ago.  failures and
\* recoveries count what was logged of the current outage, up to 2.
Count(n) == IF n < 2 THEN n + 1 ELSE n

ReportFailure(state) ==
  LET shouldLog == ~state.recent IN
  [isFailing |-> TRUE,
   hasLogged |-> (state.isFailing /\ state.hasLogged) \/ shouldLog,
   recent |-> TRUE,
   failures |-> IF shouldLog THEN Count(IF state.isFailing THEN state.failures ELSE 0)
                             ELSE IF state.isFailing THEN state.failures ELSE 0,
   recoveries |-> IF state.isFailing THEN state.recoveries ELSE 0]

ReportRecovery_AlwaysLogs(state) ==
  IF ~state.isFailing THEN state
  ELSE [state EXCEPT !.isFailing = FALSE, !.hasLogged = FALSE, !.recoveries = Count(@)]

ReportRecovery(state) ==
  IF ~state.isFailing THEN state
  ELSE [state EXCEPT !.isFailing = FALSE, !.hasLogged = FALSE,
                     !.recoveries = IF state.hasLogged THEN Count(@) ELSE @]

WindowPasses(d) ==
  /\ dependency[d].recent
  /\ dependency' = [dependency EXCEPT ![d].recent = FALSE]
  /\ UNCHANGED <<isDraining, probe, databasePingAttempt, attempt, isPingingRedis>>

\* The probes that waited for d get its result, and each of them reports it:
\* the reports after the first find the state the first one left and change
\* only the failure count.  A probe that has both results answers.
Report(d, result) == IF result = "up" THEN ReportRecovery(dependency[d])
                                      ELSE ReportFailure(dependency[d])

Told(p, d, result) ==
  LET other == CHOOSE o \in Dependencies : o # d IN
  IF probe[p][other] = "waiting" THEN [probe[p] EXCEPT ![d] = result] ELSE Idle

Deliver(d, result) ==
  LET waiting == {p \in Probes : probe[p][d] = "waiting"} IN
  /\ probe' = [p \in Probes |-> IF p \in waiting THEN Told(p, d, result) ELSE probe[p]]
  /\ dependency' = IF waiting = {} THEN dependency
                   ELSE [dependency EXCEPT ![d] = Report(d, result)]

-----------------------------------------------------------------------------
(* The database ping                                                       *)

\* Attempt a has its result and its connection is released or destroyed:
\* cleanup forgets it before another probe gets a turn.
Settle(a, result) ==
  /\ attempt' = [attempt EXCEPT ![a] = NoPing]
  /\ databasePingAttempt' = IF databasePingAttempt = a THEN NoAttempt ELSE databasePingAttempt
  /\ Deliver("database", result)
  /\ UNCHANGED <<isDraining, isPingingRedis>>

PoolGrants(a) ==
  /\ attempt[a].connection = "asked"
  /\ attempt[a].result = "pending"
  /\ attempt' = [attempt EXCEPT ![a].connection = "held"]
  /\ UNCHANGED <<isDraining, probe, databasePingAttempt, isPingingRedis, dependency>>

PoolRefuses(a) ==
  /\ attempt[a].connection = "asked"
  /\ attempt[a].result = "pending"
  /\ Settle(a, "down")

\* The connection comes, or is refused, after the time was up: it goes
\* straight back and the attempt ends.
Cleanup(a) ==
  /\ attempt[a].connection = "asked"
  /\ attempt[a].result = "down"
  /\ attempt' = [attempt EXCEPT ![a] = NoPing]
  /\ databasePingAttempt' = IF databasePingAttempt = a THEN NoAttempt ELSE databasePingAttempt
  /\ UNCHANGED <<isDraining, probe, isPingingRedis, dependency>>

\* The query of a held connection succeeds or fails.
QueryEnds(a) ==
  /\ attempt[a].connection = "held"
  /\ \E result \in {"up", "down"} : Settle(a, result)

TimerFires_OnlyWhenHeld(a) ==
  /\ attempt[a].connection = "held"
  /\ Settle(a, "down")

TimerFires_ForgetsPending(a) ==
  /\ attempt[a].result = "pending"
  /\ \/ attempt[a].connection = "held" /\ Settle(a, "down")
     \/ /\ attempt[a].connection = "asked"
        /\ attempt' = [attempt EXCEPT ![a].result = "down"]
        /\ databasePingAttempt' = NoAttempt
        /\ Deliver("database", "down")
        /\ UNCHANGED <<isDraining, isPingingRedis>>

\* A held connection is destroyed, whatever its query does; an acquisition
\* goes on without the result.
TimerFires(a) ==
  /\ attempt[a].result = "pending"
  /\ \/ attempt[a].connection = "held" /\ Settle(a, "down")
     \/ /\ attempt[a].connection = "asked"
        /\ attempt' = [attempt EXCEPT ![a].result = "down"]
        /\ Deliver("database", "down")
        /\ UNCHANGED <<isDraining, databasePingAttempt, isPingingRedis>>

-----------------------------------------------------------------------------
(* The probes                                                              *)

\* A probe joins the attempt there is, and gets a settled failure at once.
JoinDatabase(p) ==
  \/ /\ databasePingAttempt = NoAttempt
     /\ \E a \in Attempts :
          /\ attempt[a] = NoPing
          /\ databasePingAttempt' = a
          /\ attempt' = [attempt EXCEPT ![a].connection = "asked", ![a].result = "pending"]
     /\ probe' = [probe EXCEPT ![p] = [d \in Dependencies |-> "waiting"]]
     /\ UNCHANGED dependency
  \/ /\ databasePingAttempt # NoAttempt
     /\ IF attempt[databasePingAttempt].result = "pending"
        THEN /\ probe' = [probe EXCEPT ![p] = [d \in Dependencies |-> "waiting"]]
             /\ UNCHANGED dependency
        ELSE /\ probe' = [probe EXCEPT ![p] = [d \in Dependencies |->
                            IF d = "database" THEN "down" ELSE "waiting"]]
             /\ dependency' = [dependency EXCEPT !["database"] = ReportFailure(@)]
     /\ UNCHANGED <<databasePingAttempt, attempt>>

CheckReadiness(p) ==
  /\ ~isDraining
  /\ probe[p] = Idle
  /\ JoinDatabase(p)
  /\ isPingingRedis' = TRUE
  /\ UNCHANGED isDraining

\* The ping answers, fails, or runs out of time.
RedisPingSettles(result) ==
  /\ isPingingRedis
  /\ isPingingRedis' = FALSE
  /\ Deliver("redis", result)
  /\ UNCHANGED <<isDraining, databasePingAttempt, attempt>>

RedisTimerFires == RedisPingSettles("down")

StartDraining ==
  /\ ~isDraining
  /\ isDraining' = TRUE
  /\ UNCHANGED <<probe, databasePingAttempt, attempt, isPingingRedis, dependency>>

-----------------------------------------------------------------------------
Next ==
  \/ \E p \in Probes : CheckReadiness(p)
  \/ \E a \in Attempts : PoolGrants(a) \/ PoolRefuses(a) \/ Cleanup(a) \/ QueryEnds(a) \/ TimerFires(a)
  \/ RedisTimerFires \/ RedisPingSettles("up")
  \/ \E d \in Dependencies : WindowPasses(d)
  \/ StartDraining

Spec == Init /\ [][Next]_vars

\* Node's timers fire.  Nothing is assumed of the pool or of a dependency.
FairSpec ==
  /\ Spec
  /\ \A a \in Attempts : WF_vars(TimerFires(a))
  /\ WF_vars(RedisTimerFires)

-----------------------------------------------------------------------------
TypeOK ==
  /\ isDraining \in BOOLEAN /\ isPingingRedis \in BOOLEAN
  /\ probe \in [Probes -> [Dependencies -> {"idle", "waiting", "up", "down"}]]
  /\ databasePingAttempt \in Attempts \cup {NoAttempt}
  /\ attempt \in [Attempts -> [connection : {"none", "asked", "held"},
                               result : {"none", "pending", "down"}]]
  /\ dependency \in [Dependencies ->
       [isFailing : BOOLEAN, hasLogged : BOOLEAN, recent : BOOLEAN,
        failures : 0..2, recoveries : 0..2]]

\* However many probes run, time out and run again while the database hangs,
\* they hold or wait for one pooled connection at most (getDatabasePing's
\* comment), and every probe that waits has an attempt that can answer it.
Open == {a \in Attempts : attempt[a].connection # "none"}
ProbesSpareThePool ==
  /\ Cardinality(Open) <= 1
  /\ Open = {databasePingAttempt} \ {NoAttempt}
  /\ (\E p \in Probes : probe[p]["database"] = "waiting")
       => \E a \in Open : attempt[a].result = "pending"

\* Of each outage: a recovery is logged exactly when the outage is over and
\* its failure was logged, however failures and recoveries alternate within
\* the minute in which failures are not logged again.
OutageLogsPair ==
  \A d \in Dependencies :
    dependency[d].recoveries =
      (IF ~dependency[d].isFailing /\ dependency[d].failures > 0 THEN 1 ELSE 0)

\* A probe is answered although the pool, the database and Redis never are.
ProbesAreAnswered == \A p \in Probes : probe[p] # Idle ~> probe[p] = Idle
=============================================================================
