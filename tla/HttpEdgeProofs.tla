--------------------------- MODULE HttpEdgeProofs ---------------------------
(***************************************************************************)
(* That readiness probes spare the pool and that the outage log pairs its  *)
(* records, for any number of probes and attempts; that a client that      *)
(* seeded its cookies alone is admitted, for any number of seedings; and   *)
(* that every answer is in the language its request rates highest, for     *)
(* every header.                                                           *)
(***************************************************************************)
EXTENDS HealthProbes, HttpRequests, FiniteSetTheorems, WellFoundedInduction, TLAPS

Results == {"up", "down"}
ProbeStates == [Dependencies -> {"idle", "waiting", "up", "down"}]
Pings == [connection : {"none", "asked", "held"}, result : {"none", "pending", "down"}]
States == [isFailing : BOOLEAN, hasLogged : BOOLEAN, recent : BOOLEAN,
           failures : 0..2, recoveries : 0..2]

Waiting(p) == probe[p]["database"] = "waiting"

(***************************************************************************)
(* The one attempt with a connection, asked for or held, is the one probes *)
(* join; while a probe waits for it, it has no result yet.                 *)
(***************************************************************************)
PingInv ==
  /\ databasePingAttempt \in Attempts \cup {NoAttempt}
  /\ attempt \in [Attempts -> Pings]
  /\ \A a \in Attempts :
       /\ attempt[a].connection # "none" <=> a = databasePingAttempt
       /\ attempt[a].connection = "none" => attempt[a] = NoPing
       /\ attempt[a].connection # "none" => attempt[a].result # "none"
       /\ attempt[a].connection = "held" => attempt[a].result = "pending"
  /\ (\E p \in Probes : Waiting(p)) =>
       databasePingAttempt # NoAttempt /\ attempt[databasePingAttempt].result = "pending"

(***************************************************************************)
(* While a dependency fails nothing of its outage is recovered, and the    *)
(* flag says whether any of its failures was logged.                       *)
(***************************************************************************)
Paired(s) ==
  /\ s \in States
  /\ s.isFailing => s.recoveries = 0 /\ (s.hasLogged <=> s.failures > 0)
  /\ ~s.isFailing /\ s.failures > 0 => s.recoveries = 1
  /\ ~s.isFailing /\ s.failures = 0 => s.recoveries = 0

LogInv == dependency \in [Dependencies -> States] /\ \A d \in Dependencies : Paired(dependency[d])

HInv ==
  /\ isDraining \in BOOLEAN /\ isPingingRedis \in BOOLEAN
  /\ probe \in [Probes -> ProbeStates]
  /\ PingInv
  /\ LogInv

-----------------------------------------------------------------------------
(* The outage log. *)

LEMMA CountType == ASSUME NEW n \in 0..2 PROVE Count(n) \in 0..2 /\ Count(n) > 0
  BY DEF Count

LEMMA FirstCount == Count(0) = 1
  BY DEF Count

LEMMA FailureIsPaired ==
  ASSUME NEW s, Paired(s)
  PROVE  Paired(ReportFailure(s))
<1> DEFINE t == ReportFailure(s)
<1>1. s \in States
  BY DEF Paired
<1>2. t.isFailing = TRUE /\ t.recent = TRUE
  BY DEF ReportFailure
<1>3. t.recoveries = 0
  BY DEF ReportFailure, Paired
<1>4. CASE ~s.recent
  <2>1. t.hasLogged = TRUE
    BY <1>4 DEF ReportFailure
  <2>2. t.failures \in 0..2 /\ t.failures > 0
    BY <1>1, <1>4, CountType DEF ReportFailure, States
  <2>3. t \in States
    BY <1>2, <1>3, <2>1, <2>2 DEF ReportFailure, States
  <2> QED BY <1>2, <1>3, <2>1, <2>2, <2>3 DEF Paired
<1>5. CASE s.recent
  <2>1. CASE s.isFailing
    <3>1. t.hasLogged = s.hasLogged /\ t.failures = s.failures
      BY <1>1, <1>5, <2>1 DEF ReportFailure, States
    <3>2. s.hasLogged <=> s.failures > 0
      BY <2>1 DEF Paired
    <3>3. t \in States
      BY <1>1, <1>2, <1>3, <3>1 DEF ReportFailure, States
    <3> QED BY <1>2, <1>3, <3>1, <3>2, <3>3 DEF Paired
  <2>2. CASE ~s.isFailing
    <3>1. t.hasLogged = FALSE /\ t.failures = 0
      BY <1>1, <1>5, <2>2 DEF ReportFailure, States
    <3>2. t \in States
      BY <1>2, <1>3, <3>1 DEF ReportFailure, States
    <3> QED BY <1>2, <1>3, <3>1, <3>2 DEF Paired
  <2> QED BY <2>1, <2>2
<1> QED BY <1>4, <1>5

LEMMA RecoveryIsPaired ==
  ASSUME NEW s, Paired(s)
  PROVE  Paired(ReportRecovery(s))
<1>1. CASE ~s.isFailing
  BY <1>1 DEF ReportRecovery
<1>2. CASE s.isFailing
  <2> DEFINE t == ReportRecovery(s)
  <2>1. s \in States /\ s.recoveries = 0 /\ (s.hasLogged <=> s.failures > 0)
    BY <1>2 DEF Paired
  <2>2. t.isFailing = FALSE /\ t.hasLogged = FALSE /\ t.recent = s.recent
        /\ t.failures = s.failures
    BY <1>2, <2>1 DEF ReportRecovery, States
  <2>3. CASE s.hasLogged
    <3>1. t.recoveries = 1 /\ s.failures > 0
      BY <1>2, <2>1, <2>3, FirstCount DEF ReportRecovery, States
    <3>2. t = [s EXCEPT !.isFailing = FALSE, !.hasLogged = FALSE, !.recoveries = 1]
      BY <1>2, <2>3, <2>1, FirstCount DEF ReportRecovery
    <3>3. t = [isFailing |-> FALSE, hasLogged |-> FALSE, recent |-> s.recent,
               failures |-> s.failures, recoveries |-> 1]
      BY <2>1, <3>2 DEF States
    <3>4. s.recent \in BOOLEAN /\ s.failures \in 0..2 /\ 1 \in 0..2
      BY <2>1 DEF States
    <3>5. t \in States
      BY <3>3, <3>4 DEF States
    <3> QED BY <2>2, <3>1, <3>5 DEF Paired
  <2>4. CASE ~s.hasLogged
    <3>1. t.recoveries = 0 /\ ~(s.failures > 0)
      BY <1>2, <2>1, <2>4 DEF ReportRecovery, States
    <3>2. t = [s EXCEPT !.isFailing = FALSE, !.hasLogged = FALSE, !.recoveries = 0]
      BY <1>2, <2>4, <2>1 DEF ReportRecovery
    <3>3. t \in States
      BY <2>1, <3>2 DEF States
    <3> QED BY <2>1, <2>2, <3>1, <3>3 DEF Paired, States
  <2> QED BY <2>3, <2>4
<1> QED BY <1>1, <1>2

LEMMA LogStep ==
  ASSUME LogInv, NEW d \in Dependencies, NEW s, Paired(s),
         dependency' = [dependency EXCEPT ![d] = s]
  PROVE  LogInv'
  BY DEF LogInv, Paired

(***************************************************************************)
(* A result ends the wait of every probe that waited for it, starts none,  *)
(* and leaves one report in the log.                                       *)
(***************************************************************************)
LEMMA DeliverStep ==
  ASSUME probe \in [Probes -> ProbeStates], LogInv, NEW d \in Dependencies,
         NEW result \in Results, Deliver(d, result)
  PROVE  /\ probe' \in [Probes -> ProbeStates]
         /\ \A p \in Probes : Waiting(p)' => Waiting(p) /\ d # "database"
         /\ LogInv'
<1>1. \A p \in Probes : Told(p, d, result) \in ProbeStates
  BY DEF Told, ProbeStates, Idle, Dependencies, Results
<1>2. probe' \in [Probes -> ProbeStates]
  BY <1>1 DEF Deliver
<1>3. ASSUME NEW p \in Probes, Waiting(p)' PROVE Waiting(p) /\ d # "database"
  BY <1>3 DEF Deliver, Told, Waiting, Idle, Dependencies, Results, ProbeStates
<1>4. LogInv'
  <2>1. Paired(Report(d, result))
    BY FailureIsPaired, RecoveryIsPaired DEF Report, LogInv
  <2> QED BY <2>1, LogStep DEF Deliver, LogInv
<1> QED BY <1>2, <1>3, <1>4

-----------------------------------------------------------------------------
(* Init and the actions. *)

LEMMA InitIsGood == Init => HInv
<1> SUFFICES ASSUME Init PROVE HInv
  OBVIOUS
<1>1. Paired(Healthy)
  BY DEF Healthy, Paired, States
<1>2. LogInv
  BY <1>1 DEF Init, LogInv, Paired
<1>3. probe \in [Probes -> ProbeStates] /\ \A p \in Probes : ~Waiting(p)
  BY DEF Init, Idle, ProbeStates, Dependencies, Waiting
<1>4. PingInv
  BY <1>3, AttemptAssumption DEF Init, PingInv, Pings, NoPing
<1> QED BY <1>2, <1>3, <1>4 DEF Init, HInv

LEMMA WindowPassesKeeps ==
  ASSUME HInv, NEW d \in Dependencies, WindowPasses(d) PROVE HInv'
<1> DEFINE s == [dependency[d] EXCEPT !.recent = FALSE]
<1>1. dependency[d] \in States /\ Paired(dependency[d])
  BY DEF HInv, LogInv
<1>2. Paired(s)
  BY <1>1 DEF Paired, States
<1>3. dependency' = [dependency EXCEPT ![d] = s]
  BY DEF WindowPasses
<1> HIDE DEF s
<1>4. LogInv'
  BY <1>2, <1>3, LogStep DEF HInv
<1> QED BY <1>4 DEF HInv, PingInv, WindowPasses, Waiting

LEMMA PoolGrantsKeeps ==
  ASSUME HInv, NEW a \in Attempts, PoolGrants(a) PROVE HInv'
<1>1. PingInv'
  BY DEF HInv, PingInv, Pings, NoPing, PoolGrants, Waiting
<1> QED BY <1>1 DEF HInv, LogInv, PoolGrants

\* The attempt with the connection ends, and nobody waits for it any more.
LEMMA AttemptEnds ==
  ASSUME PingInv, NEW a \in Attempts, attempt[a].connection # "none",
         attempt' = [attempt EXCEPT ![a] = NoPing],
         databasePingAttempt' = IF databasePingAttempt = a THEN NoAttempt ELSE databasePingAttempt,
         \A p \in Probes : ~Waiting(p)'
  PROVE  PingInv'
<1>1. databasePingAttempt = a /\ databasePingAttempt' = NoAttempt
  BY DEF PingInv
<1>2. attempt' \in [Attempts -> Pings]
  BY DEF PingInv, Pings, NoPing
<1>3. \A b \in Attempts : attempt'[b].connection = "none" /\ attempt'[b] = NoPing
  BY <1>1 DEF PingInv, NoPing
<1> QED BY <1>1, <1>2, <1>3, AttemptAssumption DEF PingInv

LEMMA SettleKeeps ==
  ASSUME HInv, NEW a \in Attempts, attempt[a].connection # "none",
         NEW result \in Results, Settle(a, result)
  PROVE  HInv'
<1>1. /\ probe' \in [Probes -> ProbeStates] /\ LogInv' /\ \A p \in Probes : ~Waiting(p)'
  BY DeliverStep DEF Settle, HInv, Dependencies
<1>2. PingInv'
  BY <1>1, AttemptEnds DEF Settle, HInv
<1>3. isDraining' \in BOOLEAN /\ isPingingRedis' \in BOOLEAN
  BY DEF HInv, Settle
<1> QED BY <1>1, <1>2, <1>3 DEF HInv

LEMMA CleanupKeeps ==
  ASSUME HInv, NEW a \in Attempts, Cleanup(a) PROVE HInv'
<1>1. \A p \in Probes : ~Waiting(p)'
  BY DEF HInv, PingInv, Cleanup, Waiting
<1>2. PingInv'
  BY <1>1, AttemptEnds DEF Cleanup, HInv
<1> QED BY <1>2 DEF HInv, LogInv, Cleanup

LEMMA TimerFiresKeeps ==
  ASSUME HInv, NEW a \in Attempts, TimerFires(a) PROVE HInv'
<1>1. CASE attempt[a].connection = "held" /\ Settle(a, "down")
  BY <1>1, SettleKeeps DEF Results
<1>2. CASE /\ attempt[a].connection = "asked"
           /\ attempt' = [attempt EXCEPT ![a].result = "down"]
           /\ Deliver("database", "down")
           /\ UNCHANGED <<isDraining, databasePingAttempt, isPingingRedis>>
  <2>1. /\ probe' \in [Probes -> ProbeStates] /\ LogInv' /\ \A p \in Probes : ~Waiting(p)'
    BY <1>2, DeliverStep DEF HInv, Dependencies, Results
  <2>2. PingInv'
    BY <1>2, <2>1 DEF HInv, PingInv, Pings, NoPing
  <2>3. isDraining' \in BOOLEAN /\ isPingingRedis' \in BOOLEAN
    BY <1>2 DEF HInv
  <2> QED BY <2>1, <2>2, <2>3 DEF HInv
<1> QED BY <1>1, <1>2 DEF TimerFires

LEMMA QueryEndsKeeps ==
  ASSUME HInv, NEW a \in Attempts, QueryEnds(a) PROVE HInv'
  BY SettleKeeps DEF QueryEnds, Results

LEMMA PoolRefusesKeeps ==
  ASSUME HInv, NEW a \in Attempts, PoolRefuses(a) PROVE HInv'
  BY SettleKeeps DEF PoolRefuses, Results

LEMMA RedisPingKeeps ==
  ASSUME HInv, NEW result \in Results, RedisPingSettles(result) PROVE HInv'
<1>1. /\ probe' \in [Probes -> ProbeStates] /\ \A p \in Probes : Waiting(p)' => Waiting(p)
      /\ LogInv'
  BY DeliverStep DEF RedisPingSettles, HInv, Dependencies
<1>2. PingInv'
  BY <1>1 DEF HInv, PingInv, RedisPingSettles
<1> QED BY <1>1, <1>2 DEF HInv, RedisPingSettles

\* A probe that starts an attempt, joins one without result, or is refused.
LEMMA JoinDatabaseKeeps ==
  ASSUME HInv, NEW p \in Probes, JoinDatabase(p)
  PROVE  probe' \in [Probes -> ProbeStates] /\ PingInv' /\ LogInv'
<1> DEFINE both == [d \in Dependencies |-> "waiting"]
<1> DEFINE one == [d \in Dependencies |-> IF d = "database" THEN "down" ELSE "waiting"]
<1>0. both \in ProbeStates /\ one \in ProbeStates /\ one["database"] = "down"
  BY DEF ProbeStates, Dependencies
<1> HIDE DEF both, one
<1>1. CASE /\ databasePingAttempt = NoAttempt
           /\ \E a \in Attempts :
                /\ attempt[a] = NoPing
                /\ databasePingAttempt' = a
                /\ attempt' = [attempt EXCEPT ![a].connection = "asked", ![a].result = "pending"]
           /\ probe' = [probe EXCEPT ![p] = both]
           /\ UNCHANGED dependency
  <2>1. PICK a \in Attempts :
          /\ databasePingAttempt' = a
          /\ attempt' = [attempt EXCEPT ![a].connection = "asked", ![a].result = "pending"]
    BY <1>1
  <2>2. \A b \in Attempts : attempt[b] = NoPing
    BY <1>1, AttemptAssumption DEF HInv, PingInv
  <2>3. attempt' \in [Attempts -> Pings]
    BY <2>1 DEF HInv, PingInv, Pings
  <2>4. /\ attempt'[a].connection = "asked" /\ attempt'[a].result = "pending"
        /\ \A b \in Attempts \ {a} : attempt'[b] = NoPing
    BY <2>1, <2>2 DEF HInv, PingInv, Pings
  <2>5. PingInv'
    BY <2>1, <2>3, <2>4, AttemptAssumption DEF PingInv, NoPing
  <2> QED BY <1>0, <1>1, <2>5 DEF HInv, LogInv
<1>2. CASE /\ databasePingAttempt # NoAttempt
           /\ attempt[databasePingAttempt].result = "pending"
           /\ probe' = [probe EXCEPT ![p] = both]
           /\ UNCHANGED <<dependency, databasePingAttempt, attempt>>
  BY <1>0, <1>2 DEF HInv, PingInv, LogInv
<1>3. CASE /\ databasePingAttempt # NoAttempt
           /\ probe' = [probe EXCEPT ![p] = one]
           /\ dependency' = [dependency EXCEPT !["database"] = ReportFailure(@)]
           /\ UNCHANGED <<databasePingAttempt, attempt>>
  <2>1. LogInv'
    BY <1>3, FailureIsPaired, LogStep DEF HInv, LogInv, Dependencies
  <2>2. \A q \in Probes : Waiting(q)' => Waiting(q)
    BY <1>0, <1>3 DEF HInv, Waiting
  <2>3. PingInv'
    BY <1>3, <2>2 DEF HInv, PingInv
  <2> QED BY <1>0, <1>3, <2>1, <2>3 DEF HInv
<1> QED BY <1>1, <1>2, <1>3 DEF JoinDatabase, both, one

LEMMA CheckReadinessKeeps ==
  ASSUME HInv, NEW p \in Probes, CheckReadiness(p) PROVE HInv'
  BY JoinDatabaseKeeps DEF CheckReadiness, HInv

LEMMA StartDrainingKeeps == ASSUME HInv, StartDraining PROVE HInv'
  BY DEF HInv, PingInv, LogInv, Waiting, StartDraining

LEMMA StutterKeeps == ASSUME HInv, UNCHANGED vars PROVE HInv'
  BY DEF HInv, PingInv, LogInv, Waiting, vars

LEMMA NextKeeps == ASSUME HInv, [Next]_vars PROVE HInv'
  BY CheckReadinessKeeps, PoolGrantsKeeps, PoolRefusesKeeps, CleanupKeeps, QueryEndsKeeps,
     TimerFiresKeeps, RedisPingKeeps, WindowPassesKeeps, StartDrainingKeeps, StutterKeeps
     DEF Next, RedisTimerFires, Results

(***************************************************************************)
(* HInv holds in every reachable state.                                    *)
(***************************************************************************)
THEOREM Inductive == Spec => []HInv
<1>1. Init => HInv
  BY InitIsGood
<1>2. HInv /\ [Next]_vars => HInv'
  BY NextKeeps
<1> QED BY <1>1, <1>2, PTL DEF Spec

-----------------------------------------------------------------------------
(***************************************************************************)
(* Every reachable state is well typed.                                    *)
(***************************************************************************)
THEOREM HealthTypes == Spec => []TypeOK
<1>1. HInv => TypeOK
  BY DEF HInv, PingInv, LogInv, ProbeStates, Pings, States, TypeOK
<1> QED BY <1>1, Inductive, PTL

(***************************************************************************)
(* However many probes run, time out and run again while the database      *)
(* hangs, they hold or wait for one pooled connection at most, and a probe *)
(* that waits has an attempt that can answer it (getDatabasePing).         *)
(***************************************************************************)
THEOREM PoolIsSpared == Spec => []ProbesSpareThePool
<1>1. HInv => ProbesSpareThePool
  <2> SUFFICES ASSUME HInv PROVE ProbesSpareThePool
    OBVIOUS
  <2>1. Open = {databasePingAttempt} \ {NoAttempt}
    BY AttemptAssumption DEF HInv, PingInv, Open
  <2>2. Cardinality(Open) <= 1
    <3>1. Open = {} \/ Open = {databasePingAttempt}
      BY <2>1
    <3>2. CASE Open = {}
      <4>1. Cardinality(Open) = 0
        BY <3>2, FS_EmptySet
      <4> QED BY <4>1
    <3>3. CASE Open = {databasePingAttempt}
      <4>1. Cardinality(Open) = 1
        BY <3>3, FS_Singleton
      <4> QED BY <4>1
    <3> QED BY <3>1, <3>2, <3>3
  <2>3. (\E p \in Probes : probe[p]["database"] = "waiting")
          => \E a \in Open : attempt[a].result = "pending"
    BY <2>1 DEF HInv, PingInv, Waiting
  <2> QED BY <2>1, <2>2, <2>3 DEF ProbesSpareThePool
<1> QED BY <1>1, Inductive, PTL

(***************************************************************************)
(* A recovery is logged exactly when the outage is over and its failure    *)
(* was logged, however failures and recoveries alternate within the minute *)
(* in which failures are not logged again (reportFailure, reportRecovery). *)
(***************************************************************************)
THEOREM OutagesPair == Spec => []OutageLogsPair
<1>1. HInv => OutageLogsPair
  BY DEF HInv, LogInv, Paired, States, OutageLogsPair
<1> QED BY <1>1, Inductive, PTL
-----------------------------------------------------------------------------
(* Seeding the CSRF cookies.                                               *)

CsrfIds == Identifiers \cup {NoId}
Jars == [id : CsrfIds, token : CsrfIds]
Responses == [id : CsrfIds, token : CsrfIds, alone : BOOLEAN, sent : BOOLEAN]

HttpTypeOK ==
  /\ jar \in Jars
  /\ response \in [Seedings -> Responses]
  /\ seeded \in BOOLEAN

\* The cookies that are in the jar once the response arrives belong together.
Completes(r) ==
  /\ r.token # NoId
  /\ IF r.id = NoId THEN jar.id = r.token ELSE r.id = r.token

\* A seeding that ran alone so far has no other beside it, and completes the
\* jar it saw.
LoneSeedings ==
  \A s \in Seedings :
    response[s].sent /\ response[s].alone =>
      /\ Completes(response[s])
      /\ \A t \in Seedings \ {s} : ~response[t].sent

SeededJar == seeded => jar.token # NoId /\ jar.token = jar.id

SeedingInv ==
  /\ HttpTypeOK
  /\ LoneSeedings
  /\ SeededJar
  /\ SeededClientsAreAdmitted


LEMMA JarFields == ASSUME jar \in Jars PROVE jar.id \in CsrfIds /\ jar.token \in CsrfIds
  BY DEF Jars

LEMMA ResponseFields ==
  ASSUME NEW r \in Responses
  PROVE  /\ r.id \in CsrfIds
         /\ r.token \in CsrfIds
         /\ r.alone \in BOOLEAN
         /\ r.sent \in BOOLEAN
  BY DEF Responses

LEMMA NoResponseType ==
  /\ NoResponse \in Responses
  /\ NoResponse.sent = FALSE
  /\ NoResponse.alone = FALSE
  BY DEF NoResponse, Responses, CsrfIds

\* There are more identifiers than a browser without one can have in use.
LEMMA IdentifierLeft ==
  ASSUME HttpTypeOK, jar.id = NoId
  PROVE  \E id \in Identifiers : id \notin UsedIds
<1> DEFINE tokens == {response[s].token : s \in Seedings}
           used == tokens \cup {jar.token}
<1>1. /\ IsFiniteSet(Seedings)
      /\ NoId \notin Identifiers
      /\ Cardinality(Identifiers) >= Cardinality(Seedings) + 2
  BY EdgeAssumption
<1>2. IsFiniteSet(tokens) /\ Cardinality(tokens) <= Cardinality(Seedings)
  <2> DEFINE token == [s \in Seedings |-> response[s].token]
  <2>1. token \in Surjection(Seedings, tokens)
    BY DEF Surjection
  <2> QED BY <1>1, <2>1, FS_Surjection
<1>3. /\ IsFiniteSet(used)
      /\ Cardinality(used) <= Cardinality(tokens) + 1
  <2> HIDE DEF tokens
  <2>1. /\ IsFiniteSet(tokens \cup {jar.token})
        /\ Cardinality(tokens \cup {jar.token}) =
             IF jar.token \in tokens THEN Cardinality(tokens) ELSE Cardinality(tokens) + 1
    BY <1>2, FS_AddElement
  <2>2. Cardinality(tokens) \in Nat
    BY <1>2, FS_CardinalityType
  <2> QED BY <2>1, <2>2
<1>4. Cardinality(used) \in Nat /\ Cardinality(tokens) \in Nat /\ Cardinality(Seedings) \in Nat
  BY <1>1, <1>2, <1>3, FS_CardinalityType
<1>5. ~(Identifiers \subseteq used)
  <2> SUFFICES ASSUME Identifiers \subseteq used PROVE FALSE
    OBVIOUS
  <2> HIDE DEF used
  <2>1. Cardinality(Identifiers) \in Nat /\ Cardinality(Identifiers) <= Cardinality(used)
    BY <1>3, FS_Subset, FS_CardinalityType
  <2> QED BY <1>1, <1>2, <1>3, <1>4, <2>1
<1>6. UsedIds \subseteq used \cup {NoId}
  BY DEF UsedIds
<1> QED BY <1>1, <1>5, <1>6

\* The identifier a seeding works with: the cookie's, or a new one it sets.
LEMMA IdentifierSeen ==
  ASSUME HttpTypeOK
  PROVE  /\ EnsureIdentifierCookie.set \in CsrfIds
         /\ EnsureIdentifierCookie.seen \in Identifiers
         /\ IF EnsureIdentifierCookie.set = NoId THEN EnsureIdentifierCookie.seen = jar.id
            ELSE EnsureIdentifierCookie.seen = EnsureIdentifierCookie.set
<1>1. CASE jar.id # NoId
  <2>1. jar.id \in Identifiers
    BY <1>1, JarFields DEF HttpTypeOK, CsrfIds
  <2> QED BY <1>1, <2>1 DEF EnsureIdentifierCookie, CsrfIds
<1>2. CASE jar.id = NoId
  <2>1. PICK id \in Identifiers : id = CHOOSE i \in Identifiers : i \notin UsedIds
    BY <1>2, IdentifierLeft
  <2>2. EnsureIdentifierCookie = [set |-> id, seen |-> id]
    BY <1>2, <2>1 DEF EnsureIdentifierCookie
  <2> QED BY <2>2, EdgeAssumption DEF CsrfIds
<1> QED BY <1>1, <1>2

LEMMA TokenFits ==
  ASSUME NEW identifier
  PROVE  GenerateCsrfToken(identifier) = identifier
  BY DEF GenerateCsrfToken

LEMMA CreateTokenKeepsSeedings ==
  ASSUME HttpTypeOK, LoneSeedings, NEW s \in Seedings, CreateToken(s), UNCHANGED jar
  PROVE  HttpTypeOK' /\ LoneSeedings' /\ seeded' = FALSE
<1>1. PICK set, seen : set = EnsureIdentifierCookie.set /\ seen = EnsureIdentifierCookie.seen
  OBVIOUS
<1>2. /\ set \in CsrfIds
      /\ seen \in Identifiers
      /\ IF set = NoId THEN seen = jar.id ELSE seen = set
  BY <1>1, IdentifierSeen
<1> DEFINE new == [id |-> set, token |-> seen, alone |-> ~Overlaps(s), sent |-> TRUE]
<1>3. /\ seeded' = FALSE
      /\ response' = [t \in Seedings |->
           IF t = s THEN new ELSE [response[t] EXCEPT !.alone = FALSE]]
  BY <1>1, TokenFits DEF CreateToken
<1>4. new.alone = (~Overlaps(s)) /\ new.id = set /\ new.token = seen
  OBVIOUS
<1>5. new \in Responses /\ seen \in CsrfIds /\ seen # NoId
  <2>1. (~Overlaps(s)) \in BOOLEAN
    OBVIOUS
  <2>2. seen \in CsrfIds /\ seen # NoId
    BY <1>2, EdgeAssumption DEF CsrfIds
  <2> QED BY <1>2, <2>1, <2>2 DEF Responses
<1>6. ASSUME NEW t \in Seedings, t # s
      PROVE  /\ response'[t] = [response[t] EXCEPT !.alone = FALSE]
             /\ response'[t] \in Responses
             /\ response'[t].alone = FALSE
             /\ response'[t].sent = response[t].sent
  <2>1. response[t] \in Responses
    BY DEF HttpTypeOK
  <2>2. response'[t] = [response[t] EXCEPT !.alone = FALSE]
    BY <1>3, <1>6
  <2> QED BY <2>1, <2>2 DEF Responses
<1>7. response'[s] = new
  BY <1>3
<1>8. HttpTypeOK'
  <2>1. response' \in [Seedings -> Responses]
    <3> HIDE DEF new
    <3>1. \A t \in Seedings : response'[t] \in Responses
      BY <1>5, <1>6, <1>7
    <3>2. response' = [t \in Seedings |-> response'[t]]
      BY <1>3
    <3> QED BY <3>1, <3>2
  <2> QED BY <1>3, <2>1 DEF HttpTypeOK
<1>9. LoneSeedings'
  <2> SUFFICES ASSUME NEW r \in Seedings, response'[r].sent, response'[r].alone
               PROVE  /\ Completes(response[r])'
                      /\ \A t \in Seedings \ {r} : ~response'[t].sent
    BY DEF LoneSeedings
  <2>1. r = s
    BY <1>6
  <2>2. ~Overlaps(s)
    <3>1. new.alone
      BY <1>7, <2>1
    <3> QED BY <1>4, <3>1
  <2>3. \A t \in Seedings \ {r} : ~response'[t].sent
    BY <1>6, <2>1, <2>2 DEF Overlaps
  <2>4. response'[r].id = set /\ response'[r].token = seen
    BY <1>4, <1>7, <2>1
  <2>5. Completes(response[r])'
    BY <1>2, <1>5, <2>4 DEF Completes
  <2> QED BY <2>3, <2>5
<1> QED BY <1>3, <1>8, <1>9

\* Nothing a seeding sets is in the jar before its response arrives.
LEMMA RepliesTouchNothing ==
  ASSUME NEW route, NEW header, NEW sendsToken, Request(route, header, sendsToken)
  PROVE  UNCHANGED <<jar, response, seeded>>
  BY DEF Request

\* Only the boundary that finds the token missing or foreign refuses.
LEMMA RefusedWithoutToken ==
  ASSUME SeededJar, NEW route, NEW header, NEW sendsToken,
         CsrfRefuses(route, header, sendsToken)
  PROVE  ~reply'.entitled
<1>1. ~IsProtected(sendsToken)
  BY DEF CsrfRefuses, Admitted
<1>2. ~(seeded /\ sendsToken)
  BY <1>1 DEF SeededJar, IsProtected
<1>3. reply'.entitled = (seeded /\ sendsToken)
  BY DEF CsrfRefuses, EndedBy, Answer, NoReply
<1> QED BY <1>2, <1>3

\* An answer of the filter or the interceptor, and the stage that gave it.
Caught(r, route, header) ==
  \E exception : \/ \E stage \in {"parser", "router"} :
                     r = [CatchException(route, header, Unmarked, exception) EXCEPT !.by = stage]
                \/ r = [CatchException(route, header, BoundaryMark(route), exception)
                         EXCEPT !.by = "route"]
Succeeded(r, route, header) == r = [Envelope(route, header) EXCEPT !.by = "route"]

LEMMA RequestEnds ==
  ASSUME NEW route, NEW header, NEW sendsToken, Request(route, header, sendsToken)
  PROVE  \/ CsrfRefuses(route, header, sendsToken)
         \/ Caught(reply', route, header)
         \/ Succeeded(reply', route, header)
  BY DEF Request, BodyIsRejected, RouteIsMissing, ThrottlerRefuses, SessionGuardsRefuse,
         ValidationFails, HandlerFails, HandlerSucceeds, ThrowsEarly, Throws, EndedBy,
         Caught, Succeeded

LEMMA SeedEnds ==
  ASSUME NEW s, NEW header, Seed(s, header)
  PROVE  \E route : Caught(reply', route, header) \/ Succeeded(reply', route, header)
  BY DEF Seed, GetSession, GetToken, HandlerSucceeds, Throws, EndedBy, Caught, Succeeded

LEMMA AnswersDoNotRefuse ==
  ASSUME NEW r, NEW route, NEW header, Caught(r, route, header) \/ Succeeded(r, route, header)
  PROVE  ~r.refused
<1>1. ASSUME NEW form, NEW language, NEW stage
      PROVE  [Answer(route, header, form, language) EXCEPT !.by = stage].refused = FALSE
  BY DEF Answer, NoReply
<1>2. CASE Caught(r, route, header)
  BY <1>1, <1>2 DEF Caught, CatchException
<1>3. CASE Succeeded(r, route, header)
  BY <1>1, <1>3 DEF Succeeded, Envelope
<1> QED BY <1>2, <1>3

LEMMA RequestsAreAdmitted ==
  ASSUME SeededJar, NEW route, NEW header, NEW sendsToken,
         Request(route, header, sendsToken)
  PROVE  SeededClientsAreAdmitted'
<1>1. CASE CsrfRefuses(route, header, sendsToken)
  BY <1>1, RefusedWithoutToken DEF SeededClientsAreAdmitted
<1>2. CASE Caught(reply', route, header) \/ Succeeded(reply', route, header)
  BY <1>2, AnswersDoNotRefuse DEF SeededClientsAreAdmitted
<1> QED BY <1>1, <1>2, RequestEnds

LEMMA SeedKeepsSeedings ==
  ASSUME SeedingInv, NEW s \in Seedings, NEW header, Seed(s, header)
  PROVE  SeedingInv'
<1>1. UNCHANGED jar /\ (CreateToken(s) \/ UNCHANGED <<response, seeded>>)
  BY DEF Seed, GetSession, GetToken
<1>2. SeededClientsAreAdmitted'
  <2>2. ~reply'.refused
    BY SeedEnds, AnswersDoNotRefuse
  <2> QED BY <2>2 DEF SeededClientsAreAdmitted
<1>3. CASE CreateToken(s)
  BY <1>1, <1>2, <1>3, CreateTokenKeepsSeedings DEF SeedingInv, SeededJar
<1>4. CASE UNCHANGED <<response, seeded>>
  BY <1>1, <1>2, <1>4 DEF SeedingInv, HttpTypeOK, LoneSeedings, SeededJar, Completes
<1> QED BY <1>1, <1>3, <1>4

\* A response that arrives or is lost leaves the others as they were; a lone
\* one has no others.
LEMMA EndedKeepsSeedings ==
  ASSUME HttpTypeOK, LoneSeedings, NEW s \in Seedings, response[s].sent,
         response' = [response EXCEPT ![s] = NoResponse], jar' \in Jars
  PROVE  response' \in [Seedings -> Responses] /\ LoneSeedings'
<1>1. response' \in [Seedings -> Responses]
  BY NoResponseType DEF HttpTypeOK
<1>2. response'[s] = NoResponse /\ \A t \in Seedings \ {s} : response'[t] = response[t]
  BY DEF HttpTypeOK
<1>3. \A t \in Seedings : ~(response'[t].sent /\ response'[t].alone)
  <2> SUFFICES ASSUME NEW t \in Seedings, response'[t].sent, response'[t].alone
               PROVE  FALSE
    OBVIOUS
  <2>1. t # s
    BY <1>2, NoResponseType
  <2>2. response[t].sent /\ response[t].alone
    BY <1>2, <2>1
  <2> QED BY <2>1, <2>2 DEF LoneSeedings
<1> QED BY <1>1, <1>3 DEF LoneSeedings

LEMMA ArrivalKeepsSeedings ==
  ASSUME SeedingInv, NEW s \in Seedings, ResponseArrives(s)
  PROVE  SeedingInv'
<1> USE DEF SeedingInv
<1>1. /\ response[s] \in Responses
      /\ jar \in Jars
      /\ response[s].sent
      /\ jar' = [id |-> IF response[s].id = NoId THEN jar.id ELSE response[s].id,
                 token |-> response[s].token]
      /\ seeded' = response[s].alone
      /\ UNCHANGED reply
  BY DEF HttpTypeOK, ResponseArrives
<1>2. jar' \in Jars
  BY <1>1, JarFields, ResponseFields DEF Jars
<1>3. HttpTypeOK' /\ LoneSeedings'
  BY <1>1, <1>2, EndedKeepsSeedings, ResponseFields DEF ResponseArrives, HttpTypeOK
<1>4. SeededJar'
  <2> SUFFICES ASSUME response[s].alone PROVE jar'.token # NoId /\ jar'.token = jar'.id
    BY <1>1 DEF SeededJar
  <2>1. Completes(response[s])
    BY <1>1 DEF LoneSeedings
  <2> QED BY <1>1, <2>1 DEF Completes
<1> QED BY <1>1, <1>3, <1>4 DEF SeededClientsAreAdmitted

LEMMA LossKeepsSeedings ==
  ASSUME SeedingInv, NEW s \in Seedings, ResponseIsLost(s)
  PROVE  SeedingInv'
<1>1. HttpTypeOK' /\ LoneSeedings'
  BY EndedKeepsSeedings DEF SeedingInv, HttpTypeOK, ResponseIsLost
<1> QED BY <1>1 DEF SeedingInv, SeededJar, SeededClientsAreAdmitted, ResponseIsLost

LEMMA DropKeepsSeedings ==
  ASSUME SeedingInv, CookieIsDropped
  PROVE  SeedingInv'
<1>1. jar' \in Jars
  BY DEF SeedingInv, HttpTypeOK, CookieIsDropped, Jars, CsrfIds
<1>2. /\ response' = [s \in Seedings |-> [response[s] EXCEPT !.alone = FALSE]]
      /\ seeded' = FALSE
      /\ UNCHANGED reply
  BY DEF CookieIsDropped
<1>3. \A s \in Seedings : response'[s] \in Responses /\ response'[s].alone = FALSE
  BY <1>2 DEF SeedingInv, HttpTypeOK, Responses
<1>4. response' \in [Seedings -> Responses]
  BY <1>2, <1>3
<1> QED BY <1>1, <1>2, <1>3, <1>4
        DEF SeedingInv, HttpTypeOK, LoneSeedings, SeededJar, SeededClientsAreAdmitted

LEMMA SeedingInitially == HttpInit => SeedingInv
<1> SUFFICES ASSUME HttpInit PROVE SeedingInv
  OBVIOUS
<1>1. HttpTypeOK
  BY NoResponseType DEF HttpInit, HttpTypeOK, Jars, CsrfIds
<1>2. LoneSeedings
  BY NoResponseType DEF HttpInit, LoneSeedings
<1>3. ~reply.refused /\ seeded = FALSE
  BY DEF HttpInit, NoReply
<1> QED BY <1>1, <1>2, <1>3 DEF SeedingInv, SeededJar, SeededClientsAreAdmitted

LEMMA StepKeepsSeedings ==
  ASSUME SeedingInv, [HttpNext]_httpVars
  PROVE  SeedingInv'
<1>1. ASSUME NEW route \in Routes, NEW header \in Headers, NEW sendsToken \in BOOLEAN,
             Request(route, header, sendsToken)
      PROVE  SeedingInv'
  <2>1. UNCHANGED <<jar, response, seeded>>
    BY <1>1, RepliesTouchNothing
  <2>2. SeededClientsAreAdmitted'
    BY <1>1, RequestsAreAdmitted DEF SeedingInv
  <2> QED BY <2>1, <2>2 DEF SeedingInv, HttpTypeOK, LoneSeedings, SeededJar, Completes
<1>2. ASSUME NEW s \in Seedings, NEW header \in Headers, Seed(s, header)
      PROVE  SeedingInv'
  BY <1>2, SeedKeepsSeedings
<1>3. ASSUME NEW s \in Seedings, ResponseArrives(s) PROVE SeedingInv'
  BY <1>3, ArrivalKeepsSeedings
<1>4. ASSUME NEW s \in Seedings, ResponseIsLost(s) PROVE SeedingInv'
  BY <1>4, LossKeepsSeedings
<1>5. CASE CookieIsDropped
  BY <1>5, DropKeepsSeedings
<1>6. CASE UNCHANGED httpVars
  BY <1>6 DEF SeedingInv, HttpTypeOK, LoneSeedings, SeededJar, Completes,
     SeededClientsAreAdmitted, httpVars
<1> QED BY <1>1, <1>2, <1>3, <1>4, <1>5, <1>6 DEF HttpNext

LEMMA SeedingInvariant == HttpSpec => []SeedingInv
<1> QED BY SeedingInitially, StepKeepsSeedings, PTL DEF HttpSpec

\* A client that seeded its cookies with a request that overlapped no other
\* seeding, and sends the token back, is not refused: for any number of
\* seedings and identifiers (createToken, createProtectionMiddleware).
THEOREM SeededClients == HttpSpec => []SeededClientsAreAdmitted
<1>1. SeedingInv => SeededClientsAreAdmitted
  BY DEF SeedingInv
<1> QED BY <1>1, SeedingInvariant, PTL

-----------------------------------------------------------------------------
(* The language of an answer.                                              *)

IsPreference(p) == p.quality \in Nat /\ p.position \in Nat

LEMMA BetterIsStrict ==
  ASSUME NEW p, NEW q, NEW r, IsPreference(p), IsPreference(q), IsPreference(r)
  PROVE  /\ ~Better(p, p)
         /\ Better(p, q) /\ Better(q, r) => Better(p, r)
  BY DEF Better, IsPreference

\* Among finitely many preferences there is one that no other is better than.
LEMMA HasBest ==
  ASSUME NEW S, S # {}, IsFiniteSet(S), \A p \in S : IsPreference(p)
  PROVE  Best(S) # {}
<1> DEFINE Above(p) == {q \in S : Better(q, p)}
           Aboves == {Above(p) : p \in S}
<1>1. Aboves \subseteq FiniteSubsetsOf(S) /\ Aboves # {}
  <2>1. \A p \in S : IsFiniteSet(Above(p))
    BY FS_Subset
  <2> QED BY <2>1 DEF FiniteSubsetsOf
<1>2. PICK b \in Aboves : \A c \in Aboves : <<c, b>> \notin StrictSubsetOrdering(S)
  <2> HIDE DEF Aboves
  <2> QED BY <1>1, FS_StrictSubsetOrderingWellFounded, WFMin
<1>3. PICK p \in S : b = Above(p)
  OBVIOUS
<1>4. ASSUME NEW q \in S, Better(q, p) PROVE FALSE
  <2>1. Above(q) \subseteq Above(p)
    BY <1>4, BetterIsStrict
  <2>2. q \in Above(p) /\ q \notin Above(q)
    BY <1>4, BetterIsStrict
  <2>3. Above(q) \in SUBSET S /\ Above(p) \in SUBSET S /\ Above(q) # Above(p)
    BY <2>2
  <2>4. <<Above(q), Above(p)>> \in StrictSubsetOrdering(S)
    <3> HIDE DEF Above
    <3> QED BY <2>1, <2>3 DEF StrictSubsetOrdering
  <2> QED BY <1>2, <1>3, <2>4
<1> QED BY <1>4 DEF Best

LEMMA LeastIndex ==
  ASSUME NEW T, T \subseteq Nat, T # {}
  PROVE  \E i \in T : \A j \in T : i <= j
<1> DEFINE Upto == {0..i : i \in T}
<1>1. Upto \subseteq FiniteSubsetsOf(Nat) /\ Upto # {}
  <2>1. \A i \in T : 0..i \in SUBSET Nat
    OBVIOUS
  <2>2. \A i \in T : IsFiniteSet(0..i)
    BY FS_Interval
  <2> QED BY <2>1, <2>2 DEF FiniteSubsetsOf
<1>2. PICK b \in Upto : \A c \in Upto : <<c, b>> \notin StrictSubsetOrdering(Nat)
  <2> HIDE DEF Upto
  <2> QED BY <1>1, FS_StrictSubsetOrderingWellFounded, WFMin
<1>3. PICK i \in T : b = 0..i
  OBVIOUS
<1>4. ASSUME NEW j \in T, j < i PROVE FALSE
  <2>1. i \in Nat /\ j \in Nat
    OBVIOUS
  <2>2. 0..j \subseteq 0..i /\ i \in 0..i /\ i \notin 0..j
    BY <1>4, <2>1
  <2>3. 0..j \in SUBSET Nat /\ 0..i \in SUBSET Nat /\ 0..j # 0..i
    BY <2>1, <2>2
  <2>4. <<0..j, 0..i>> \in StrictSubsetOrdering(Nat)
    BY <2>2, <2>3 DEF StrictSubsetOrdering
  <2> QED BY <1>2, <1>3, <2>4
<1>5. i \in T /\ \A j \in T : j \in Nat /\ i \in Nat
  OBVIOUS
<1> QED BY <1>4, <1>5

LEMMA PreferencesAreFinite ==
  ASSUME NEW header \in Headers
  PROVE  /\ IsFiniteSet(LanguagePreferences(header))
         /\ \A p \in LanguagePreferences(header) : IsPreference(p)
<1> DEFINE parsed == {j \in DOMAIN header : header[j].parses}
           preference(i) ==
             [range |-> header[i].range, quality |-> header[i].quality, position |-> i]
<1>1. /\ header \in Seq([range : STRING, quality : Nat, parses : BOOLEAN])
      /\ DOMAIN header = 1..Len(header)
      /\ Len(header) \in Nat
  BY HeaderAssumption
<1>2. IsFiniteSet(parsed)
  <2>1. IsFiniteSet(1..Len(header))
    BY <1>1, FS_Interval
  <2> QED BY <1>1, <2>1, FS_Subset
<1>3. LanguagePreferences(header) = {preference(i) : i \in parsed}
  BY DEF LanguagePreferences
<1>4. IsFiniteSet({preference(i) : i \in parsed})
  <2>1. [i \in parsed |-> preference(i)] \in Surjection(parsed, {preference(i) : i \in parsed})
    <3> HIDE DEF preference, parsed
    <3> QED BY DEF Surjection
  <2> HIDE DEF preference, parsed
  <2> QED BY <1>2, <2>1, FS_Surjection
<1>5. ASSUME NEW i \in parsed PROVE IsPreference(preference(i))
  <2>1. i \in DOMAIN header
    OBVIOUS
  <2>2. header[i] \in [range : STRING, quality : Nat, parses : BOOLEAN] /\ i \in Nat
    <3> DEFINE Parts == [range : STRING, quality : Nat, parses : BOOLEAN]
    <3>1. header \in Seq(Parts) /\ i \in 1..Len(header)
      BY <1>1, <2>1
    <3> HIDE DEF Parts
    <3>2. header[i] \in Parts
      BY <3>1
    <3> QED BY <3>1, <3>2 DEF Parts
  <2>3. header[i].quality \in Nat
    BY <2>2
  <2> QED BY <2>2, <2>3 DEF IsPreference
<1> QED BY <1>3, <1>4, <1>5

\* The ranges that speak for a language: those that name it, or the wildcards.
Ranges(language, preferences) ==
  IF {p \in preferences : p.range = language} # {}
  THEN {p \in preferences : p.range = language}
  ELSE {p \in preferences : p.range = Wildcard}

LEMMA RatingsOfRanges ==
  ASSUME NEW header \in Headers, NEW language
  PROVE  LET ratings == {p.quality : p \in Ranges(language, LanguagePreferences(header))}
         IN  Rating(language, header) =
               IF ratings = {} THEN 0 ELSE CHOOSE q \in ratings : \A p \in ratings : q >= p
<1> DEFINE rates(range) ==
             {header[i].quality : i \in {j \in DOMAIN header :
                 header[j].range = range /\ header[j].parses}}
           named(range) == {p \in LanguagePreferences(header) : p.range = range}
<1>1. ASSUME NEW range PROVE {p.quality : p \in named(range)} = rates(range)
  <2>1. ASSUME NEW p \in named(range) PROVE p.quality \in rates(range)
    BY DEF LanguagePreferences
  <2>2. ASSUME NEW q \in rates(range) PROVE \E p \in named(range) : q = p.quality
    <3>1. PICK i \in DOMAIN header :
            header[i].range = range /\ header[i].parses /\ q = header[i].quality
      OBVIOUS
    <3> DEFINE p == [range |-> header[i].range, quality |-> header[i].quality, position |-> i]
    <3>2. p \in named(range) /\ q = p.quality
      BY <3>1 DEF LanguagePreferences
    <3> QED BY <3>2
  <2> QED BY <2>1, <2>2
<1>2. named(language) # {} <=> rates(language) # {}
  <2> HIDE DEF named, rates
  <2> QED BY <1>1
<1>3. {p.quality : p \in Ranges(language, LanguagePreferences(header))} =
        IF rates(language) # {} THEN rates(language) ELSE rates(Wildcard)
  <2>1. Ranges(language, LanguagePreferences(header)) =
          IF named(language) # {} THEN named(language) ELSE named(Wildcard)
    BY DEF Ranges
  <2> HIDE DEF named, rates
  <2> QED BY <1>1, <1>2, <2>1
<1>4. Rating(language, header) =
        LET ratings == IF rates(language) # {} THEN rates(language) ELSE rates(Wildcard)
        IN IF ratings = {} THEN 0 ELSE CHOOSE q \in ratings : \A p \in ratings : q >= p
  BY DEF Rating
<1> HIDE DEF rates
<1> QED BY <1>3, <1>4

\* The preference resolveSupportedLanguage keeps of a language is one of its
\* highest rating.
LEMMA RatingIsBest ==
  ASSUME NEW header \in Headers, NEW language
  PROVE  LET preferred == SupportedPreference(language, LanguagePreferences(header))
         IN  /\ preferred \subseteq LanguagePreferences(header)
             /\ \A p \in preferred : p.quality = Rating(language, header)
             /\ preferred = {} => Rating(language, header) = 0
             /\ Rating(language, header) \in Nat
<1> DEFINE ranges == Ranges(language, LanguagePreferences(header))
           ratings == {p.quality : p \in ranges}
<1>1. SupportedPreference(language, LanguagePreferences(header)) = Best(ranges)
  BY DEF SupportedPreference, Ranges
<1>2. ranges \subseteq LanguagePreferences(header)
  BY DEF Ranges
<1>3. IsFiniteSet(ranges) /\ \A p \in ranges : IsPreference(p)
  BY <1>2, PreferencesAreFinite, FS_Subset
<1>4. Rating(language, header) =
        IF ratings = {} THEN 0 ELSE CHOOSE q \in ratings : \A p \in ratings : q >= p
  BY RatingsOfRanges
<1> HIDE DEF ranges
<1>5. Best(ranges) \subseteq ranges
  BY DEF Best
<1>6. ASSUME NEW p \in Best(ranges), NEW q \in ranges PROVE p.quality >= q.quality
  <2>1. p.quality \in Nat /\ q.quality \in Nat
    BY <1>3, <1>5 DEF IsPreference
  <2>2. ~(q.quality > p.quality)
    BY DEF Best, Better
  <2> QED BY <2>1, <2>2
<1>7. ASSUME NEW p \in Best(ranges)
      PROVE  p.quality = Rating(language, header) /\ p.quality \in Nat
  <2> DEFINE greatest(q) == \A r \in ratings : q >= r
  <2>1. p.quality \in ratings /\ p.quality \in Nat
    BY <1>3, <1>5 DEF IsPreference
  <2>2. greatest(p.quality)
    BY <1>6
  <2>3. \A q \in ratings : q \in Nat
    BY <1>3 DEF IsPreference
  <2>4. PICK m \in ratings : m = CHOOSE q \in ratings : greatest(q)
    <3> HIDE DEF ratings, greatest
    <3> QED BY <2>1, <2>2
  <2>5. greatest(m)
    <3> HIDE DEF ratings, greatest
    <3> QED BY <2>1, <2>2, <2>4
  <2>6. m = p.quality
    <3>1. m >= p.quality /\ p.quality >= m
      <4> HIDE DEF ratings
      <4> QED BY <2>1, <2>2, <2>5
    <3>2. m \in Nat
      BY <2>3
    <3> HIDE DEF ratings, greatest
    <3> QED BY <2>1, <3>1, <3>2
  <2>7. Rating(language, header) = m
    <3>1. ratings # {}
      BY <2>1
    <3> QED BY <1>4, <2>4, <3>1
  <2> HIDE DEF ratings, greatest
  <2> QED BY <2>1, <2>6, <2>7
<1>8. Best(ranges) = {} => Rating(language, header) = 0
  <2> SUFFICES ASSUME Best(ranges) = {} PROVE Rating(language, header) = 0
    OBVIOUS
  <2>1. ranges = {}
    BY <1>3, HasBest
  <2> QED BY <1>4, <2>1
<1>9. Rating(language, header) \in Nat
  <2>1. CASE Best(ranges) = {}
    BY <1>8, <2>1
  <2>2. CASE Best(ranges) # {}
    <3>1. PICK p \in Best(ranges) : TRUE
      BY <2>2
    <3>2. p.quality = Rating(language, header) /\ p.quality \in Nat
      BY <1>7
    <3> QED BY <3>2
  <2> QED BY <2>1, <2>2
<1>10. \A p \in Best(ranges) : p.quality = Rating(language, header)
  BY <1>7
<1> QED BY <1>1, <1>2, <1>5, <1>8, <1>9, <1>10

\* resolveSupportedLanguage answers in a language the header rates highest.
LEMMA ResolvedIsPreferred ==
  ASSUME NEW header \in Headers
  PROVE  ResolveSupportedLanguage[header] \in PreferredLanguages[header]
<1> DEFINE Preferences == LanguagePreferences(header)
           Languages_ == DOMAIN SupportedLanguages
           Kept(i) == SupportedPreference(SupportedLanguages[i], Preferences)
           PreferenceFor(i) == {p \in Kept(i) : p.quality > 0}
           supported == UNION {PreferenceFor(i) : i \in Languages_}
           chosen == {i \in Languages_ : PreferenceFor(i) \cap Best(supported) # {}}
           Rated(i) == Rating(SupportedLanguages[i], header)
           least(i) == \A j \in chosen : i <= j
           rated == {l \in Languages : Rating(l, header) > 0}
<1>1. ResolveSupportedLanguage[header] =
        IF chosen = {} THEN Fallback ELSE SupportedLanguages[CHOOSE i \in chosen : least(i)]
  BY DEF ResolveSupportedLanguage
<1>2. PreferredLanguages[header] =
        IF rated = {} THEN {Fallback}
        ELSE {l \in rated : \A k \in rated : Rating(l, header) >= Rating(k, header)}
  BY DEF PreferredLanguages
<1>3. ASSUME NEW i \in Languages_
      PROVE  /\ Rated(i) \in Nat
             /\ \A p \in PreferenceFor(i) : p \in Preferences /\ p.quality = Rated(i)
             /\ PreferenceFor(i) # {} <=> Rated(i) > 0
  <2>1. /\ Kept(i) \subseteq Preferences
        /\ \A p \in Kept(i) : p.quality = Rated(i)
        /\ Kept(i) = {} => Rated(i) = 0
        /\ Rated(i) \in Nat
    BY RatingIsBest
  <2> HIDE DEF Kept, Rated, Preferences
  <2> QED BY <2>1
<1>4. IsFiniteSet(Preferences) /\ \A p \in Preferences : IsPreference(p)
  BY PreferencesAreFinite
<1>5. DOMAIN SupportedLanguages \subseteq Nat
  BY EdgeAssumption
<1>6. Languages = {SupportedLanguages[i] : i \in Languages_}
  BY DEF Languages
<1> HIDE DEF Preferences, Kept
<1>7. supported \subseteq Preferences
  BY <1>3
<1>8. IsFiniteSet(supported) /\ \A p \in supported : IsPreference(p)
  <2> HIDE DEF supported
  <2> QED BY <1>4, <1>7, FS_Subset
<1>9. CASE chosen = {}
  <2>1. supported = {}
    <3> SUFFICES ASSUME supported # {} PROVE FALSE
      OBVIOUS
    <3>1. Best(supported) # {}
      <4> HIDE DEF supported
      <4> QED BY <1>8, HasBest
    <3>2. PICK p \in Best(supported) : p \in supported
      <4> HIDE DEF supported
      <4> QED BY <3>1 DEF Best
    <3>3. PICK i \in Languages_ : p \in PreferenceFor(i)
      BY <3>2
    <3> QED BY <1>9, <3>2, <3>3
  <2>2. \A i \in Languages_ : ~(Rated(i) > 0)
    <3>1. \A i \in Languages_ : PreferenceFor(i) = {}
      BY <2>1
    <3> HIDE DEF Rated, PreferenceFor
    <3> QED BY <1>3, <3>1
  <2>3. rated = {}
    BY <1>6, <2>2
  <2> HIDE DEF chosen, rated
  <2> QED BY <1>1, <1>2, <1>9, <2>3
<1>10. CASE chosen # {}
  <2>1. chosen \subseteq Nat
    BY <1>5
  <2>2. \E i \in chosen : least(i)
    <3> HIDE DEF chosen
    <3> QED BY <1>10, <2>1, LeastIndex
  <2>3. PICK i \in chosen : i = CHOOSE j \in chosen : least(j)
    <3> HIDE DEF chosen, least
    <3> QED BY <2>2
  <2>4. ResolveSupportedLanguage[header] = SupportedLanguages[i]
    <3> HIDE DEF chosen, least
    <3> QED BY <1>1, <1>10, <2>3
  <2>5. PICK p \in PreferenceFor(i) : p \in Best(supported)
    OBVIOUS
  <2>6. i \in Languages_ /\ p.quality = Rated(i) /\ Rated(i) > 0 /\ Rated(i) \in Nat
    <3>1. i \in Languages_ /\ PreferenceFor(i) # {}
      BY <2>5
    <3> HIDE DEF Rated, PreferenceFor
    <3> QED BY <1>3, <2>5, <3>1
  <2>7. SupportedLanguages[i] \in rated
    BY <1>6, <2>6
  <2>8. ASSUME NEW k \in rated PROVE Rating(SupportedLanguages[i], header) >= Rating(k, header)
    <3>1. PICK j \in Languages_ : k = SupportedLanguages[j]
      BY <1>6
    <3>2. Rated(j) > 0 /\ Rated(j) = Rating(k, header)
      BY <3>1
    <3>3. PICK q \in PreferenceFor(j) : q.quality = Rated(j)
      <4> HIDE DEF Rated, PreferenceFor
      <4> QED BY <1>3, <3>2
    <3>4. q \in supported
      OBVIOUS
    <3>5. ~Better(q, p)
      <4> HIDE DEF supported
      <4> QED BY <2>5, <3>4 DEF Best
    <3>6. ~(q.quality > p.quality)
      BY <3>5 DEF Better
    <3>7. Rated(j) \in Nat
      BY <1>3
    <3>8. Rated(i) >= Rated(j)
      <4> HIDE DEF Rated
      <4> QED BY <2>6, <3>3, <3>6, <3>7
    <3> QED BY <3>2, <3>8
  <2>9. SupportedLanguages[i] \in PreferredLanguages[header]
    <3> HIDE DEF rated
    <3> QED BY <1>2, <2>7, <2>8
  <2> QED BY <2>4, <2>9
<1> QED BY <1>9, <1>10

LEMMA MessageLanguage ==
  ASSUME NEW exception, NEW language
  PROVE  ResolveExceptionMessage(exception, language) = language
<1>1. /\ {400, 500} \subseteq CataloguedStatuses
      /\ {"CSRF_TOKEN_INVALID", "VALIDATION_FAILED"} \subseteq CataloguedKeys
  BY EdgeAssumption
<1>2. LocalizedHttpStatusMessage(exception.status, language) = language
  BY <1>1 DEF LocalizedHttpStatusMessage, Translated
<1> QED BY <1>1, <1>2 DEF ResolveExceptionMessage, Translated

Early == {"parser", "csrf", "router"}

KeepsContract(r) ==
  /\ r.form = "native" <=> r.native /\ r.by \notin Early
  /\ r.form = "envelope" => r.language \in r.preferred

LEMMA AnswerFields ==
  ASSUME NEW route, NEW header, NEW form, NEW language, NEW stage
  PROVE  LET answer == [Answer(route, header, form, language) EXCEPT !.by = stage]
         IN  /\ answer.native <=> route = "probe"
             /\ answer.form = form
             /\ answer.language = language
             /\ answer.preferred = PreferredLanguages[header]
             /\ answer.by = stage
  BY DEF Answer, NoReply

\* The mark is there exactly when the guards saw the route of a probe.
LEMMA MarkedAnswer ==
  ASSUME NEW route, NEW header \in Headers, NEW form \in {"native", "envelope"},
         NEW language, NEW stage,
         form = "native" <=> route = "probe" /\ stage \notin Early,
         form = "envelope" => language = ResolveSupportedLanguage[header]
  PROVE  KeepsContract([Answer(route, header, form, language) EXCEPT !.by = stage])
<1> DEFINE answer == [Answer(route, header, form, language) EXCEPT !.by = stage]
<1>1. /\ answer.native <=> route = "probe"
      /\ answer.form = form
      /\ answer.language = language
      /\ answer.preferred = PreferredLanguages[header]
      /\ answer.by = stage
  BY AnswerFields
<1> HIDE DEF answer
<1>2. answer.form = "native" <=> answer.native /\ answer.by \notin Early
  BY <1>1
<1>3. answer.form = "envelope" => answer.language \in answer.preferred
  BY <1>1, ResolvedIsPreferred
<1>4. KeepsContract(answer)
  BY <1>2, <1>3 DEF KeepsContract
<1> QED BY <1>4 DEF answer

LEMMA MarkOfRoute ==
  ASSUME NEW route
  PROVE  /\ IsNativeResponseBoundary(route) <=> route = "probe"
         /\ BoundaryMark(route) <=> route = "probe"
  BY DEF IsNativeResponseBoundary, SkipApiEnvelope, BoundaryMark

LEMMA CaughtInForm ==
  ASSUME NEW r, NEW route, NEW header \in Headers, Caught(r, route, header)
  PROVE  KeepsContract(r)
<1> DEFINE language == ResolveSupportedLanguage[header]
           form(mark) == IF mark THEN "native" ELSE "envelope"
<1>1. ASSUME NEW mark, NEW exception
      PROVE  CatchException(route, header, mark, exception) =
               Answer(route, header, form(mark), language)
  BY MessageLanguage DEF CatchException
<1>2. \/ \E stage \in {"parser", "router"} :
           r = [Answer(route, header, "envelope", language) EXCEPT !.by = stage]
      \/ r = [Answer(route, header, form(BoundaryMark(route)), language) EXCEPT !.by = "route"]
  BY <1>1 DEF Caught, Unmarked
<1>3. form(BoundaryMark(route)) \in {"native", "envelope"}
  OBVIOUS
<1>4. form(BoundaryMark(route)) = "native" <=> route = "probe"
  BY MarkOfRoute
<1>5. {"parser", "router"} \subseteq Early /\ "route" \notin Early
  BY DEF Early
<1> HIDE DEF form, language
<1>6. ASSUME NEW stage \in {"parser", "router"}
      PROVE  KeepsContract([Answer(route, header, "envelope", language) EXCEPT !.by = stage])
  BY <1>5, MarkedAnswer DEF language
<1>7. KeepsContract([Answer(route, header, form(BoundaryMark(route)), language)
                       EXCEPT !.by = "route"])
  BY <1>3, <1>4, <1>5, MarkedAnswer DEF language
<1> QED BY <1>2, <1>6, <1>7

LEMMA EnvelopedInForm ==
  ASSUME NEW r, NEW route, NEW header \in Headers, Succeeded(r, route, header)
  PROVE  KeepsContract(r)
<1>1. "route" \notin Early
  BY DEF Early
<1>2. CASE route = "probe"
  <2>1. r = [Answer(route, header, "native", Fallback) EXCEPT !.by = "route"]
    BY <1>2, MarkOfRoute DEF Succeeded, Envelope
  <2> QED BY <1>1, <1>2, <2>1, MarkedAnswer
<1>3. CASE route # "probe"
  <2>1. r = [Answer(route, header, "envelope", ResolveSupportedLanguage[header])
               EXCEPT !.by = "route"]
    BY <1>3, MarkOfRoute DEF Succeeded, Envelope
  <2> QED BY <1>3, <2>1, MarkedAnswer
<1> QED BY <1>2, <1>3

LEMMA RefusedInForm ==
  ASSUME NEW route \in Routes, NEW header \in Headers, NEW sendsToken,
         CsrfRefuses(route, header, sendsToken)
  PROVE  KeepsContract(reply')
<1> DEFINE language == ResolveSupportedLanguage[header]
           answer == [Answer(route, header, "envelope", language) EXCEPT !.by = "csrf"]
<1>1. reply' = [[Answer(route, header, "envelope", language)
                   EXCEPT !.refused = TRUE, !.entitled = seeded /\ sendsToken] EXCEPT !.by = "csrf"]
  BY EdgeAssumption DEF CsrfRefuses, EndedBy, Translated
<1>2. /\ reply'.form = answer.form
      /\ reply'.native = answer.native
      /\ reply'.language = answer.language
      /\ reply'.preferred = answer.preferred
      /\ reply'.by = answer.by
  BY <1>1 DEF Answer, NoReply
<1>3. KeepsContract(answer)
  BY MarkedAnswer DEF Early
<1> HIDE DEF answer
<1> QED BY <1>2, <1>3 DEF KeepsContract

LEMMA StepKeepsContract ==
  ASSUME AnswersKeepTheirContract, [HttpNext]_httpVars
  PROVE  AnswersKeepTheirContract'
<1>1. AnswersKeepTheirContract' <=> KeepsContract(reply')
  BY DEF AnswersKeepTheirContract, KeepsContract, Early
<1>2. ASSUME NEW route \in Routes, NEW header \in Headers, NEW sendsToken \in BOOLEAN,
             Request(route, header, sendsToken)
      PROVE  KeepsContract(reply')
  <2>1. CASE CsrfRefuses(route, header, sendsToken)
    BY <2>1, RefusedInForm
  <2>2. CASE Caught(reply', route, header) \/ Succeeded(reply', route, header)
    BY <2>2, CaughtInForm, EnvelopedInForm
  <2> QED BY <1>2, <2>1, <2>2, RequestEnds
<1>3. ASSUME NEW s \in Seedings, NEW header \in Headers, Seed(s, header)
      PROVE  KeepsContract(reply')
  BY <1>3, SeedEnds, CaughtInForm, EnvelopedInForm
<1>4. CASE UNCHANGED reply
  BY <1>4 DEF AnswersKeepTheirContract
<1>5. ASSUME NEW s \in Seedings, ResponseArrives(s) \/ ResponseIsLost(s)
      PROVE  UNCHANGED reply
  BY <1>5 DEF ResponseArrives, ResponseIsLost
<1>6. CookieIsDropped \/ UNCHANGED httpVars => UNCHANGED reply
  BY DEF CookieIsDropped, httpVars
<1> QED BY <1>1, <1>2, <1>3, <1>4, <1>5, <1>6 DEF HttpNext

\* For every header and every list of languages, whichever stage ends a
\* request: an envelope's message is in a language the header rates highest,
\* and a body is native exactly when a probe's request reached its guards,
\* for only they mark the response the filter looks at (ApiExceptionFilter,
\* ApiEnvelopeBoundaryGuard, resolveSupportedLanguage).
THEOREM AnswersAreInTheirLanguage == HttpSpec => []AnswersKeepTheirContract
<1>1. HttpInit => AnswersKeepTheirContract
  BY DEF HttpInit, NoReply, AnswersKeepTheirContract
<1> QED BY <1>1, StepKeepsContract, PTL DEF HttpSpec
=============================================================================
