----------------------- MODULE ScheduleServiceProofs -----------------------
(***************************************************************************)
(* That the registries agree, intervals do not overlap and a drained       *)
(* service is quiet, for any number of names, registrations and callers.   *)
(***************************************************************************)
EXTENDS ScheduleService, TLAPS

Registries == [Kinds -> [Names -> Ids \cup {NoId}]]
Jobs == [Ids -> [kind : Kinds \cup {"none"}, name : Names \cup {"none"}, armed : BOOLEAN,
               waits : BOOLEAN]]
Deletions == [by : Callers \cup {Shutdown}, name : Names, job : Ids]
Phases == {"up", "draining", "waiting", "done"}

Types ==
  /\ registry \in Registries
  /\ managed \in [Kinds -> SUBSET Names]
  /\ job \in Jobs
  /\ running \subseteq Ids
  /\ deletions \subseteq Deletions
  /\ phase \in Phases

(***************************************************************************)
(* A name stands for a registration of that name and kind, and nothing is  *)
(* armed once the shutdown has begun.                                      *)
(***************************************************************************)
RegistryInv ==
  /\ RegistriesAgree
  /\ \A kind \in Kinds, n \in Names : Exists(kind, n) =>
       job[registry[kind][n]].kind = kind /\ job[registry[kind][n]].name = n
  /\ \A id \in Ids : job[id].kind # "none" => job[id].name \in Names
  /\ \A id \in Ids : job[id].armed => job[id].kind # "none" /\ phase = "up"

\* What shutdown waits for: a callback of a job that waits, unless another's
\* deletion forgot the job while it ran.
Drained(id) == job[id].waits /\ id \notin orphans

(***************************************************************************)
(* A running cron callback that shutdown would wait for keeps its name     *)
(* registered: a deletion of its own job waits for it, and any other that  *)
(* forgets its name makes it an orphan.                                    *)
(***************************************************************************)
CallbackInv ==
  /\ IntervalsDoNotOverlap
  /\ \A id \in running :
       /\ job[id].kind # "none"
       /\ job[id].kind = "cron" /\ Drained(id) => registry["cron"][job[id].name] = id
       /\ job[id].kind = "interval" => job[id].name \in runningIntervals

\* The shutdown awaits every callback that runs, but for those exceptions.
DrainInv ==
  /\ phase = "draining" => \A id \in running : job[id].kind = "cron" /\ Drained(id) =>
       \E d \in deletions : d.by = Shutdown /\ d.job = id
  /\ phase \in {"waiting", "done"} => \A id \in running :
       \/ job[id].kind # "cron" /\ id \in awaited
       \/ job[id].kind = "cron" /\ ~Drained(id)
  /\ phase = "done" => \A id \in running : job[id].kind = "cron"

SInv == Types /\ RegistryInv /\ CallbackInv /\ DrainInv

\* A registration keeps what it was made with.
Same ==
  \A id \in Ids : /\ job'[id].kind = job[id].kind
                  /\ job'[id].name = job[id].name
                  /\ job'[id].waits = job[id].waits

LEMMA KindNames == "cron" \in Kinds /\ "interval" \in Kinds /\ "timeout" \in Kinds /\ "none" \notin Kinds
  BY DEF Kinds

LEMMA InitIsGood == Init => SInv
<1> SUFFICES ASSUME Init PROVE SInv
  OBVIOUS
<1>1. Types
  BY DEF Init, Types, Registries, Jobs, NoJob, Phases
<1>2. RegistryInv
  BY DEF Init, RegistryInv, RegistriesAgree, Exists, NoJob
<1>3. CallbackInv /\ DrainInv
  BY DEF Init, CallbackInv, DrainInv, IntervalsDoNotOverlap
<1> QED BY <1>1, <1>2, <1>3 DEF SInv

-----------------------------------------------------------------------------
(* Steps that leave the callbacks alone. *)

LEMMA RegisterKeeps ==
  ASSUME SInv, NEW kind \in Kinds, NEW n \in Names, NEW id \in Ids, NEW armed \in BOOLEAN,
         NEW waits \in BOOLEAN, Register(kind, n, id, armed, waits)
  PROVE  SInv'
<1>1. /\ phase = "up" /\ registry[kind][n] = NoId /\ job[id].kind = "none"
      /\ UNCHANGED <<running, runningIntervals, deletions, orphans, phase, awaited>>
  BY DEF Register, isShuttingDown, Exists
<1>2. /\ job' \in Jobs /\ job'[id] = [kind |-> kind, name |-> n, armed |-> armed, waits |-> waits]
      /\ \A i \in Ids \ {id} : job'[i] = job[i]
  BY DEF Register, SInv, Types, Jobs
<1>3. /\ registry' \in Registries /\ registry'[kind][n] = id
      /\ \A k \in Kinds, m \in Names : k # kind \/ m # n => registry'[k][m] = registry[k][m]
  BY DEF Register, SInv, Types, Registries
<1>4. /\ managed' \in [Kinds -> SUBSET Names] /\ managed'[kind] = managed[kind] \cup {n}
      /\ \A k \in Kinds \ {kind} : managed'[k] = managed[k]
  BY DEF Register, SInv, Types
<1>5. \A k \in Kinds, m \in Names : registry[k][m] # id
  BY <1>1, IdAssumption DEF SInv, RegistryInv, Exists, Kinds
<1>6. \A i \in running : i \in Ids /\ i # id
  BY <1>1 DEF SInv, Types, CallbackInv
<1>7. RegistryInv'
  <2>1. \A k \in Kinds : managed'[k] = {m \in Names : registry'[k][m] # NoId}
    BY <1>3, <1>4, IdAssumption DEF SInv, RegistryInv, RegistriesAgree, Exists
  <2>2. \A i \in Ids : job'[i].armed => /\ registry'[job'[i].kind][job'[i].name] = i
                                        /\ job'[i].kind # "none"
    <3>1. ASSUME NEW i \in Ids \ {id}, job[i].armed
          PROVE registry'[job[i].kind][job[i].name] = i /\ job[i].kind # "none"
      <4>1. /\ registry[job[i].kind][job[i].name] = i /\ job[i].kind \in Kinds
            /\ job[i].name \in Names
        BY <3>1 DEF SInv, Types, Jobs, RegistryInv, RegistriesAgree
      <4> QED BY <1>1, <1>3, <4>1, IdAssumption, KindNames
    <3> QED BY <1>2, <1>3, <3>1, KindNames
  <2>3. \A k \in Kinds, m \in Names : registry'[k][m] # NoId =>
          job'[registry'[k][m]].kind = k /\ job'[registry'[k][m]].name = m
    BY <1>2, <1>3, <1>5 DEF SInv, Types, Registries, RegistryInv, Exists
  <2>4. \A i \in Ids : job'[i].kind # "none" => job'[i].name \in Names
    BY <1>2 DEF SInv, RegistryInv
  <2> QED BY <1>1, <2>1, <2>2, <2>3, <2>4 DEF RegistryInv, RegistriesAgree, Exists
<1>8. CallbackInv'
  <2>1. \A i \in running : job'[i] = job[i]
    BY <1>2, <1>6
  <2>2. \A i \in running : job[i].kind = "cron" /\ Drained(i) => registry'["cron"][job[i].name] = i
    BY <1>1, <1>3, <1>6, IdAssumption, KindNames DEF SInv, CallbackInv, RegistryInv
  <2> QED BY <1>1, <2>1, <2>2 DEF SInv, CallbackInv, IntervalsDoNotOverlap, Drained
<1>9. DrainInv'
  BY <1>1 DEF DrainInv, SInv
<1> QED BY <1>1, <1>2, <1>3, <1>4, <1>7, <1>8, <1>9 DEF SInv, Types

LEMMA Disarming ==
  ASSUME SInv, NEW stopped,
         job' = [i \in Ids |-> IF i \in stopped THEN [job[i] EXCEPT !.armed = FALSE] ELSE job[i]]
  PROVE  /\ job' \in Jobs /\ Same
         /\ \A i \in Ids : job'[i].armed => job[i].armed /\ i \notin stopped
<1>1. job \in Jobs
  BY DEF SInv, Types
<1>2. \A i \in Ids : [job[i] EXCEPT !.armed = FALSE] \in
         [kind : Kinds \cup {"none"}, name : Names \cup {"none"}, armed : BOOLEAN, waits : BOOLEAN]
  BY <1>1 DEF Jobs
<1>3. job' \in Jobs
  BY <1>1, <1>2 DEF Jobs
<1>4. Same
  BY <1>1 DEF Jobs, Same
<1>5. \A i \in Ids : job'[i].armed => job[i].armed /\ i \notin stopped
  BY <1>1 DEF Jobs
<1> QED BY <1>3, <1>4, <1>5

\* The registry forgets names, none of a running cron callback.
LEMMA ForgetKeeps ==
  ASSUME SInv, NEW kind \in Kinds, NEW names \in SUBSET Names, Forget(kind, names),
         phase' = phase
  PROVE  /\ registry' \in Registries /\ managed' \in [Kinds -> SUBSET Names] /\ job' \in Jobs
         /\ Same
         /\ RegistryInv'
         /\ \A n \in Names : registry'["cron"][n] =
              IF kind = "cron" /\ n \in names THEN NoId ELSE registry["cron"][n]
<1>1. /\ job' \in Jobs /\ Same
      /\ \A i \in Ids : job'[i].armed => job[i].armed /\ ~\E n \in names : registry[kind][n] = i
  <2> DEFINE stopped == {i \in Ids : \E n \in names : registry[kind][n] = i}
  <2>1. job' = [i \in Ids |-> IF i \in stopped THEN [job[i] EXCEPT !.armed = FALSE] ELSE job[i]]
    BY DEF Forget
  <2>2. \A i \in Ids : i \notin stopped => ~\E n \in names : registry[kind][n] = i
    OBVIOUS
  <2> HIDE DEF stopped
  <2> QED BY <2>1, <2>2, Disarming
<1>2. /\ registry' \in Registries
      /\ \A n \in names : registry'[kind][n] = NoId
      /\ \A k \in Kinds, m \in Names : k # kind \/ m \notin names => registry'[k][m] = registry[k][m]
  BY DEF Forget, SInv, Types, Registries
<1>3. /\ managed' \in [Kinds -> SUBSET Names] /\ managed'[kind] = managed[kind] \ names
      /\ \A k \in Kinds \ {kind} : managed'[k] = managed[k]
  BY DEF Forget, SInv, Types
<1>4. RegistryInv'
  <2>1. \A k \in Kinds : managed'[k] = {m \in Names : registry'[k][m] # NoId}
    BY <1>2, <1>3 DEF SInv, RegistryInv, RegistriesAgree, Exists
  <2>2. ASSUME NEW i \in Ids, job'[i].armed
        PROVE  registry'[job'[i].kind][job'[i].name] = i /\ job'[i].kind # "none" /\ phase' = "up"
    <3>1. /\ registry[job[i].kind][job[i].name] = i /\ job[i].kind \in Kinds
          /\ job[i].name \in Names /\ phase = "up" /\ ~\E n \in names : registry[kind][n] = i
      BY <1>1, <2>2 DEF SInv, Types, Jobs, RegistryInv, RegistriesAgree
    <3> QED BY <1>1, <1>2, <3>1, KindNames DEF Same
  <2>3. \A k \in Kinds, m \in Names : registry'[k][m] # NoId =>
          job'[registry'[k][m]].kind = k /\ job'[registry'[k][m]].name = m
    BY <1>1, <1>2 DEF SInv, Types, Registries, RegistryInv, Exists, Same
  <2>4. \A i \in Ids : job'[i].kind # "none" => job'[i].name \in Names
    BY <1>1 DEF SInv, RegistryInv, Same
  <2> QED BY <2>1, <2>2, <2>3, <2>4 DEF RegistryInv, RegistriesAgree, Exists
<1> QED BY <1>1, <1>2, <1>3, <1>4, KindNames

LEMMA DeleteTimerKeeps ==
  ASSUME SInv, NEW kind \in Kinds, NEW n \in Names, DeleteTimer(kind, n)
  PROVE  SInv'
<1>1. kind # "cron" /\ UNCHANGED <<running, runningIntervals, deletions, orphans, phase, awaited>>
  BY DEF DeleteTimer
<1>2. /\ registry' \in Registries /\ managed' \in [Kinds -> SUBSET Names] /\ job' \in Jobs
      /\ Same /\ RegistryInv' /\ \A m \in Names : registry'["cron"][m] = registry["cron"][m]
  BY <1>1, ForgetKeeps DEF DeleteTimer
<1>3. CallbackInv'
  BY <1>1, <1>2 DEF SInv, Types, RegistryInv, CallbackInv, IntervalsDoNotOverlap, Same, Drained
<1>4. DrainInv'
  BY <1>1, <1>2 DEF SInv, Types, DrainInv, Same, Drained
<1> QED BY <1>1, <1>2, <1>3, <1>4 DEF SInv, Types

\* A cron name is forgotten: by a deletion, whose own job does not run or
\* is not waited for, or whose name stands for another's callback.
LEMMA ForgetCronKeeps ==
  ASSUME SInv, NEW n \in Names, Exists("cron", n), Forget("cron", {n}),
         LET id == registry["cron"][n]
         IN id \in running => ~job[id].waits \/ id \in orphans',
         orphans \subseteq orphans', deletions' \subseteq deletions,
         \A d \in deletions \ deletions' : d.job \notin running,
         UNCHANGED <<running, runningIntervals, phase, awaited>>
  PROVE  SInv'
<1>1. /\ registry' \in Registries /\ managed' \in [Kinds -> SUBSET Names] /\ job' \in Jobs
      /\ Same /\ RegistryInv'
      /\ \A m \in Names : registry'["cron"][m] = IF m = n THEN NoId ELSE registry["cron"][m]
  BY ForgetKeeps, KindNames
<1>2. running \subseteq Ids /\ \A i \in Ids : Drained(i)' => Drained(i)
  BY <1>1 DEF Drained, Same, SInv, Types
<1>3. \A i \in running : job[i].kind = "cron" /\ Drained(i)' => registry'["cron"][job[i].name] = i
  <2> SUFFICES ASSUME NEW i \in running, job[i].kind = "cron", Drained(i)'
               PROVE  registry'["cron"][job[i].name] = i
    OBVIOUS
  <2>1. registry["cron"][job[i].name] = i /\ job[i].name \in Names
    BY <1>2 DEF SInv, RegistryInv, CallbackInv
  <2>2. job[i].waits /\ i \notin orphans'
    BY <1>1, <1>2 DEF Drained, Same
  <2>3. job[i].name # n
    BY <2>1, <2>2
  <2> QED BY <1>1, <2>1, <2>3
<1>4. CallbackInv'
  BY <1>1, <1>2, <1>3 DEF SInv, CallbackInv, IntervalsDoNotOverlap, Same
<1>5. DrainInv'
  BY <1>1, <1>2 DEF SInv, DrainInv, Same
<1> QED BY <1>1, <1>4, <1>5 DEF SInv, Types

LEMMA FinishDeletionKeeps ==
  ASSUME SInv, NEW d \in deletions, FinishDeletion(d)
  PROVE  SInv'
<1>1. /\ d.job \notin running /\ d.name \in Names /\ deletions' = deletions \ {d}
      /\ UNCHANGED <<running, runningIntervals, phase, awaited>>
  BY DEF FinishDeletion, SInv, Types, Deletions
<1>2. CASE Exists("cron", d.name)
  <2>1. /\ Forget("cron", {d.name})
        /\ orphans' = orphans \cup (({registry["cron"][d.name]} \cap running) \ {d.job})
    BY <1>2 DEF FinishDeletion, ForgetsName
  <2> QED BY <1>1, <1>2, <2>1, ForgetCronKeeps
<1>3. CASE ~Exists("cron", d.name)
  <2>0. UNCHANGED <<job, registry, managed, orphans>>
    BY <1>3 DEF FinishDeletion, ForgetsName
  <2>1. RegistryInv'
    BY <1>1, <2>0 DEF SInv, RegistryInv, RegistriesAgree, Exists
  <2>2. CallbackInv'
    BY <1>1, <2>0 DEF SInv, CallbackInv, IntervalsDoNotOverlap, Drained
  <2>3. DrainInv'
    BY <1>1, <2>0 DEF SInv, DrainInv, Drained
  <2> QED BY <1>1, <2>0, <2>1, <2>2, <2>3 DEF SInv, Types
<1> QED BY <1>2, <1>3

\* Only what is armed changes, and a deletion may begin to poll.
LEMMA ArmingKeeps ==
  ASSUME SInv, NEW n \in Names, Exists("cron", n), NEW armed \in BOOLEAN,
         armed => phase = "up",
         job' = [job EXCEPT ![registry["cron"][n]].armed = armed],
         deletions' = deletions
           \/ \E by \in Callers : deletions' = deletions \cup
                {[by |-> by, name |-> n, job |-> registry["cron"][n]]},
         UNCHANGED <<registry, managed, running, runningIntervals, orphans, phase, awaited>>
  PROVE  SInv'
<1> DEFINE id == registry["cron"][n]
<1>1. id \in Ids /\ job[id].kind = "cron" /\ job[id].name = n
  BY KindNames DEF SInv, Types, Registries, RegistryInv, Exists
<1>2. /\ job' \in Jobs /\ Same /\ \A i \in Ids \ {id} : job'[i] = job[i]
      /\ job'[id].armed = armed
  BY <1>1 DEF SInv, Types, Jobs, Same
<1>3. RegistryInv'
  <2>1. \A i \in Ids : job'[i].armed => registry'[job'[i].kind][job'[i].name] = i
    BY <1>1, <1>2 DEF SInv, RegistryInv, RegistriesAgree, Same
  <2>2. \A i \in Ids : job'[i].armed => job'[i].kind # "none" /\ phase' = "up"
    BY <1>1, <1>2 DEF SInv, RegistryInv, Same
  <2>3. \A k \in Kinds, m \in Names : registry[k][m] # NoId =>
          job'[registry[k][m]].kind = k /\ job'[registry[k][m]].name = m
    BY <1>2 DEF SInv, Types, Registries, RegistryInv, Exists, Same
  <2>4. \A i \in Ids : job'[i].kind # "none" => job'[i].name \in Names
    BY <1>2 DEF SInv, RegistryInv, Same
  <2>5. UNCHANGED <<registry, managed>>
    OBVIOUS
  <2>6. RegistriesAgree'
    <3>1. \A kind \in Kinds : managed[kind] = {m \in Names : registry[kind][m] # NoId}
      BY DEF SInv, RegistryInv, RegistriesAgree, Exists
    <3>2. \A kind \in Kinds : managed'[kind] = {m \in Names : registry'[kind][m] # NoId}
      BY <2>5, <3>1
    <3> QED BY <2>1, <3>2 DEF RegistriesAgree, Exists
  <2>7. \A k \in Kinds, m \in Names : Exists(k, m)' =>
          job'[registry'[k][m]].kind = k /\ job'[registry'[k][m]].name = m
    BY <2>3, <2>5 DEF Exists
  <2> QED BY <2>2, <2>4, <2>6, <2>7 DEF RegistryInv
<1>4. deletions' \subseteq Deletions
  BY <1>1 DEF SInv, Types, Deletions
<1>5. deletions \subseteq deletions'
  OBVIOUS
<1>6. CallbackInv'
  BY <1>2 DEF SInv, Types, CallbackInv, IntervalsDoNotOverlap, Same, Drained
<1>7. DrainInv'
  BY <1>2, <1>5 DEF SInv, Types, DrainInv, Same, Drained
<1> QED BY <1>2, <1>3, <1>4, <1>6, <1>7 DEF SInv, Types

LEMMA CronCallsKeep ==
  ASSUME SInv, NEW n \in Names,
         \/ StartCronJob(n) \/ StopCronJob(n)
         \/ \E caller \in Callers : DeleteCronJob(caller, n)
  PROVE  SInv'
<1>1. CASE StartCronJob(n)
  <2>1. phase = "up"
    BY <1>1 DEF StartCronJob, isShuttingDown
  <2> QED BY <1>1, <2>1, ArmingKeeps DEF StartCronJob
<1>2. CASE StopCronJob(n)
  BY <1>2, ArmingKeeps DEF StopCronJob
<1>3. ASSUME NEW caller \in Callers, DeleteCronJob(caller, n)
      PROVE  SInv'
  <2>1. CASE Polls(registry["cron"][n])
    BY <1>3, <2>1, ArmingKeeps DEF DeleteCronJob
  <2>2. CASE ~Polls(registry["cron"][n])
    BY <1>3, <2>2, ForgetCronKeeps DEF DeleteCronJob, Polls
  <2> QED BY <2>1, <2>2
<1> QED BY <1>1, <1>2, <1>3

-----------------------------------------------------------------------------
(* The callbacks. *)

LEMMA StartKeeps ==
  ASSUME SInv, NEW id \in Ids, CallbackStep(id)
  PROVE  SInv'
<1>1. /\ job[id].armed /\ running' = running \cup {id}
      /\ UNCHANGED <<registry, managed, deletions, orphans, phase, awaited>>
      /\ runningIntervals \subseteq runningIntervals'
      /\ job[id].kind = "interval" => /\ job[id].name \notin runningIntervals
                                      /\ job[id].name \in runningIntervals'
  BY DEF CallbackStep, CronFires, IntervalTicks, TimeoutFires
<1>2. /\ phase = "up" /\ registry[job[id].kind][job[id].name] = id /\ job[id].kind # "none"
      /\ job[id].name \in Names
  BY <1>1 DEF SInv, RegistryInv, RegistriesAgree
<1>3. /\ job' \in Jobs /\ Same /\ \A i \in Ids : job'[i].armed => job[i].armed
  <2>1. CASE UNCHANGED job
    BY <2>1 DEF SInv, Types, Same
  <2>2. CASE job' = [job EXCEPT ![id].armed = FALSE]
    BY <2>2 DEF SInv, Types, Jobs, Same
  <2> QED BY <2>1, <2>2 DEF CallbackStep, CronFires, IntervalTicks, TimeoutFires
<1>4. RegistryInv'
  <2>1. \A k \in Kinds, m \in Names : registry[k][m] # NoId =>
          job'[registry[k][m]].kind = k /\ job'[registry[k][m]].name = m
    BY <1>3 DEF SInv, Types, Registries, RegistryInv, Exists, Same
  <2> QED BY <1>1, <1>3, <2>1 DEF SInv, RegistryInv, RegistriesAgree, Exists, Same
<1>6. CallbackInv'
  <2>1. \A i \in running' : /\ job'[i].kind # "none"
                            /\ job'[i].kind = "cron" /\ Drained(i)' =>
                                 registry'["cron"][job'[i].name] = i
                            /\ job'[i].kind = "interval" => job'[i].name \in runningIntervals'
    BY <1>1, <1>2, <1>3 DEF SInv, Types, CallbackInv, Same, Drained
  <2>2. IntervalsDoNotOverlap'
    BY <1>1, <1>3 DEF SInv, Types, CallbackInv, IntervalsDoNotOverlap, Same
  <2> QED BY <2>1, <2>2 DEF CallbackInv
<1>7. DrainInv'
  BY <1>1, <1>2 DEF DrainInv
<1> QED BY <1>1, <1>3, <1>4, <1>6, <1>7 DEF SInv, Types

LEMMA SettlesKeeps ==
  ASSUME SInv, NEW id \in Ids, CallbackSettles(id)
  PROVE  SInv'
<1>1. /\ id \in running /\ running' = running \ {id} /\ UNCHANGED <<deletions, orphans, phase, awaited>>
      /\ runningIntervals' = IF job[id].kind = "interval"
                             THEN runningIntervals \ {job[id].name} ELSE runningIntervals
  BY DEF CallbackSettles
<1>2. /\ registry' \in Registries /\ managed' \in [Kinds -> SUBSET Names] /\ job' \in Jobs
      /\ Same /\ RegistryInv' /\ \A m \in Names : registry'["cron"][m] = registry["cron"][m]
  <2>1. CASE job[id].kind = "timeout"
    <3>1. Forget("timeout", {job[id].name}) /\ job[id].name \in Names
      BY <2>1 DEF CallbackSettles, TimeoutSettled, SInv, RegistryInv
    <3> QED BY <1>1, <3>1, ForgetKeeps, KindNames
  <2>2. CASE UNCHANGED <<registry, managed, job>>
    BY <1>1, <2>2 DEF SInv, Types, Same, RegistryInv, RegistriesAgree, Exists
  <2> QED BY <2>1, <2>2 DEF CallbackSettles
<1>3. \A i \in running' : job[i].kind = "interval" => job[i].name \in runningIntervals'
  BY <1>1 DEF SInv, CallbackInv, IntervalsDoNotOverlap
<1>4. CallbackInv'
  BY <1>1, <1>2, <1>3 DEF SInv, Types, RegistryInv, CallbackInv, IntervalsDoNotOverlap, Same, Drained
<1>5. DrainInv'
  BY <1>1, <1>2 DEF SInv, Types, DrainInv, Same, Drained
<1> QED BY <1>1, <1>2, <1>4, <1>5 DEF SInv, Types

-----------------------------------------------------------------------------
(* The shutdown. *)

\* Everything armed has a managed name, so that nothing stays armed.
LEMMA BeginShutdownKeeps == ASSUME SInv, BeginShutdown PROVE SInv'
<1> DEFINE polled == {n \in managed["cron"] : Polls(registry["cron"][n])}
<1>1. /\ phase' = "draining" /\ UNCHANGED <<running, runningIntervals, orphans, awaited>>
      /\ deletions' = deletions \cup
           {[by |-> Shutdown, name |-> n, job |-> registry["cron"][n]] : n \in polled}
  BY DEF BeginShutdown
<1>2. /\ job' \in Jobs /\ Same
      /\ \A i \in Ids : job'[i].armed => job[i].armed
           /\ ~\E k \in Kinds : \E n \in managed[k] : registry[k][n] = i
  <2> DEFINE stopped == {i \in Ids : \E k \in Kinds : \E n \in managed[k] : registry[k][n] = i}
  <2>1. job' = [i \in Ids |-> IF i \in stopped THEN [job[i] EXCEPT !.armed = FALSE] ELSE job[i]]
    BY DEF BeginShutdown
  <2>2. \A i \in Ids : i \notin stopped =>
          ~\E k \in Kinds : \E n \in managed[k] : registry[k][n] = i
    OBVIOUS
  <2> HIDE DEF stopped
  <2> QED BY <2>1, <2>2, Disarming
<1>3. \A i \in Ids : ~job'[i].armed
  <2> SUFFICES ASSUME NEW i \in Ids, job'[i].armed PROVE FALSE
    OBVIOUS
  <2>1. job[i].kind \in Kinds /\ job[i].name \in Names /\ registry[job[i].kind][job[i].name] = i
    BY <1>2 DEF SInv, Types, Jobs, RegistryInv, RegistriesAgree
  <2>2. job[i].name \in managed[job[i].kind]
    BY <2>1, IdAssumption DEF SInv, RegistryInv, RegistriesAgree, Exists
  <2> QED BY <1>2, <2>1, <2>2
<1>4. polled \subseteq Names /\ managed["cron"] \subseteq Names
  BY KindNames DEF SInv, Types
<1>5. \A k \in Kinds, n \in Names : n \in managed[k] <=> registry[k][n] # NoId
  BY DEF SInv, RegistryInv, RegistriesAgree, Exists
<1>6. /\ managed' = [k \in Kinds |-> IF k = "cron" THEN polled ELSE {}]
      /\ registry' \in Registries
      /\ \A k \in Kinds, n \in Names :
           registry'[k][n] = IF n \in managed[k] /\ ~(k = "cron" /\ n \in polled)
                             THEN NoId ELSE registry[k][n]
  BY DEF BeginShutdown, SInv, Types, Registries
<1> HIDE DEF polled
<1>7. \A k \in Kinds, n \in Names :
        registry'[k][n] = IF k = "cron" /\ n \in polled THEN registry[k][n] ELSE NoId
  BY <1>5, <1>6
<1>8. \A n \in polled : registry["cron"][n] # NoId /\ registry["cron"][n] \in Ids
  BY <1>4, <1>5, KindNames DEF SInv, Types, Registries, polled
<1>9. managed' \in [Kinds -> SUBSET Names]
  BY <1>4, <1>6
<1>10. RegistryInv'
  <2>1. \A k \in Kinds : managed'[k] = {n \in Names : registry'[k][n] # NoId}
    <3>1. managed'["cron"] = {n \in Names : registry'["cron"][n] # NoId}
      BY <1>4, <1>6, <1>7, <1>8, KindNames
    <3>2. ASSUME NEW k \in Kinds \ {"cron"}
          PROVE  managed'[k] = {n \in Names : registry'[k][n] # NoId}
      BY <1>6, <1>7
    <3> QED BY <3>1, <3>2
  <2>2. \A k \in Kinds, n \in Names : registry'[k][n] # NoId =>
          job'[registry'[k][n]].kind = k /\ job'[registry'[k][n]].name = n
    BY <1>2, <1>7 DEF SInv, Types, Registries, RegistryInv, Exists, Same
  <2>3. \A i \in Ids : job'[i].kind # "none" => job'[i].name \in Names
    BY <1>2 DEF SInv, RegistryInv, Same
  <2> QED BY <1>3, <2>1, <2>2, <2>3 DEF RegistryInv, RegistriesAgree, Exists
<1>11. deletions' \subseteq Deletions
  BY <1>1, <1>4, <1>8 DEF SInv, Types, Deletions
<1>12. \A i \in running : job[i].kind = "cron" /\ Drained(i) =>
         job[i].name \in polled /\ registry["cron"][job[i].name] = i
  <2> SUFFICES ASSUME NEW i \in running, job[i].kind = "cron", Drained(i)
               PROVE  job[i].name \in polled /\ registry["cron"][job[i].name] = i
    OBVIOUS
  <2>1. i \in Ids /\ job[i].name \in Names /\ registry["cron"][job[i].name] = i /\ job[i].waits
    BY DEF SInv, Types, RegistryInv, CallbackInv, Drained
  <2>2. job[i].name \in managed["cron"]
    BY <1>5, <2>1, IdAssumption, KindNames
  <2> QED BY <2>1, <2>2 DEF Polls, polled
<1>13. CallbackInv'
  <2>1. \A i \in running : /\ job'[i].kind # "none"
                           /\ job'[i].kind = "cron" /\ Drained(i)' => registry'["cron"][job'[i].name] = i
                           /\ job'[i].kind = "interval" => job'[i].name \in runningIntervals
    BY <1>1, <1>2, <1>4, <1>7, <1>12, KindNames DEF SInv, Types, CallbackInv, Same, Drained
  <2>2. IntervalsDoNotOverlap'
    BY <1>1, <1>2 DEF SInv, Types, CallbackInv, IntervalsDoNotOverlap, Same
  <2> QED BY <1>1, <2>1, <2>2 DEF CallbackInv
<1>14. DrainInv'
  <2>1. ASSUME NEW i \in running, job[i].kind = "cron", Drained(i)
        PROVE  \E d \in deletions' : d.by = Shutdown /\ d.job = i
    <3> DEFINE d == [by |-> Shutdown, name |-> job[i].name, job |-> registry["cron"][job[i].name]]
    <3>1. d \in deletions'
      BY <1>1, <1>12, <2>1
    <3>2. d.by = Shutdown /\ d.job = i
      BY <1>12, <2>1
    <3> QED BY <3>1, <3>2
  <2> QED BY <1>1, <1>2, <2>1 DEF SInv, Types, DrainInv, Same, Drained
<1> QED BY <1>1, <1>2, <1>6, <1>9, <1>10, <1>11, <1>13, <1>14 DEF SInv, Types, Phases

LEMMA DrainKeeps == ASSUME SInv, Drain PROVE SInv'
<1>1. /\ phase # "up" /\ phase' \in {"waiting", "done"}
      /\ UNCHANGED <<registry, managed, job, running, runningIntervals, deletions, orphans>>
  BY DEF Drain, CronJobsStopped, CallbacksDrained
<1>2. Types' /\ RegistryInv' /\ CallbackInv'
  BY <1>1 DEF SInv, Types, Phases, RegistryInv, RegistriesAgree, Exists, CallbackInv,
     IntervalsDoNotOverlap, Drained
<1>3. DrainInv'
  <2>1. CASE CronJobsStopped
    BY <1>1, <2>1 DEF CronJobsStopped, TimerCallbacks, SInv, DrainInv, Drained
  <2>2. CASE CallbacksDrained
    BY <1>1, <2>2 DEF CallbacksDrained, SInv, DrainInv, Drained
  <2> QED BY <2>1, <2>2 DEF Drain
<1> QED BY <1>2, <1>3 DEF SInv

LEMMA StutterKeeps == ASSUME SInv, UNCHANGED vars PROVE SInv'
  BY DEF vars, SInv, Types, RegistryInv, RegistriesAgree, Exists, CallbackInv,
     IntervalsDoNotOverlap, DrainInv, Drained

LEMMA NextKeeps == ASSUME SInv, [Next]_vars PROVE SInv'
<1>1. CASE ServiceCall
  <2>1. ASSUME NEW n \in Names, NEW id \in Ids,
               AddCronJob(n, id) \/ AddInterval(n, id) \/ AddTimeout(n, id)
        PROVE  SInv'
    BY <2>1, RegisterKeeps, KindNames DEF AddCronJob, AddInterval, AddTimeout
  <2> QED BY <1>1, <2>1, CronCallsKeep, DeleteTimerKeeps DEF ServiceCall
<1> QED BY <1>1, FinishDeletionKeeps, StartKeeps, SettlesKeeps, BeginShutdownKeeps, DrainKeeps,
           StutterKeeps DEF Next

(***************************************************************************)
(* SInv holds in every reachable state.                                    *)
(***************************************************************************)
THEOREM Inductive == Spec => []SInv
<1>1. SInv /\ [Next]_vars => SInv'
  BY NextKeeps
<1> QED BY InitIsGood, <1>1, PTL DEF Spec

-----------------------------------------------------------------------------
(***************************************************************************)
(* Every name the registry holds is one shutdown will stop, and a timer    *)
(* that can still fire is one the registry names, through names used again *)
(* and deletions that resume late (deleteCronJob, onSettled).              *)
(***************************************************************************)
THEOREM RegistriesDoAgree == Spec => []RegistriesAgree
<1>1. SInv => RegistriesAgree
  BY DEF SInv, RegistryInv
<1> QED BY <1>1, Inductive, PTL

(***************************************************************************)
(* Two callbacks of one interval name never run at once, even when the     *)
(* name was deleted and registered again meanwhile (runningIntervals).     *)
(***************************************************************************)
THEOREM NoIntervalOverlaps == Spec => []IntervalsDoNotOverlap
<1>1. SInv => IntervalsDoNotOverlap
  BY DEF SInv, CallbackInv
<1> QED BY <1>1, Inductive, PTL

(***************************************************************************)
(* Once shutdown has returned no timer is left that could start a callback *)
(* and none runs, whatever deletions were polling when it began, but for   *)
(* jobs that do not wait and jobs another's deletion forgot while they ran *)
(* (onApplicationShutdown, deleteCronJob).                                 *)
(***************************************************************************)
THEOREM DrainIsQuiet == Spec => []DrainedIsQuiet
<1>1. SInv => DrainedIsQuiet
  BY DEF SInv, RegistryInv, DrainInv, DrainedIsQuiet, Drained
<1> QED BY <1>1, Inductive, PTL
=============================================================================
