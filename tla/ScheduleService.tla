-------------------------- MODULE ScheduleService --------------------------
(***************************************************************************)
(* The dynamic schedules of one process: cron jobs, intervals and timeouts *)
(* registered by name, their callbacks, and the drain at shutdown.  Names  *)
(* are reused, so a registration has an identity of its own (Ids): the     *)
(* code keeps names, and a callback may outlive the registration that      *)
(* started it.                                                             *)
(*                                                                         *)
(* The registry is Nest's SchedulerRegistry and the clock is external: a   *)
(* due timer fires at any moment.  A job's stop() is cron's: with          *)
(* waitForCompletion, the default, it polls by a timer of its own until no *)
(* callback of the job runs, and anything may happen between two polls; a  *)
(* stop() that finds nothing to wait for resolves before any other event.  *)
(* Rescheduling changes only when a job fires and is left out.             *)
(***************************************************************************)
EXTENDS Naturals, FiniteSets

CONSTANTS Names, Ids, Callers,
          NoId, Shutdown      \* Shutdown is the caller onApplicationShutdown

ASSUME IdAssumption == NoId \notin Ids
ASSUME CallerAssumption == Shutdown \notin Callers

VARIABLES
  registry,     \* SchedulerRegistry: kind -> name -> registration
  managed,      \* managedCronJobs, managedIntervals, managedTimeouts
  job,          \* every registration ever made
  running,      \* registrations whose callback is running
  runningIntervals,
  deletions,    \* deleteCronJob calls whose stop() polls
  orphans,      \* history: forgotten by another's deletion while they ran
  phase,        \* onApplicationShutdown: "up", "draining", "waiting", "done"
  awaited       \* the callbacks it waits for

vars == <<registry, managed, job, running, runningIntervals, deletions, orphans, phase, awaited>>

Kinds == {"cron", "interval", "timeout"}
NoJob == [kind |-> "none", name |-> "none", armed |-> FALSE, waits |-> TRUE]

Init ==
  /\ registry = [kind \in Kinds |-> [n \in Names |-> NoId]]
  /\ managed = [kind \in Kinds |-> {}]
  /\ job = [id \in Ids |-> NoJob]
  /\ running = {}
  /\ runningIntervals = {}
  /\ deletions = {}
  /\ orphans = {}
  /\ phase = "up"
  /\ awaited = {}

-----------------------------------------------------------------------------
isShuttingDown == phase # "up"
Exists(kind, n) == registry[kind][n] # NoId
Registered(kind) == {registry[kind][n] : n \in Names} \ {NoId}

\* cron's stop() has a callback to wait for.
Polls(id) == id \in running /\ job[id].waits

Register(kind, n, id, armed, waits) ==
  /\ ~isShuttingDown
  /\ ~Exists(kind, n)
  /\ job[id].kind = "none"
  /\ job' = [job EXCEPT ![id] = [kind |-> kind, name |-> n, armed |-> armed, waits |-> waits]]
  /\ registry' = [registry EXCEPT ![kind][n] = id]
  /\ managed' = [managed EXCEPT ![kind] = @ \cup {n}]
  /\ UNCHANGED <<running, runningIntervals, deletions, orphans, phase, awaited>>

AddCronJob(n, id) ==
  \E start, waitForCompletion \in BOOLEAN : Register("cron", n, id, start, waitForCompletion)
AddInterval(n, id) == Register("interval", n, id, TRUE, TRUE)
AddTimeout(n, id) == Register("timeout", n, id, TRUE, TRUE)

\* The registry stops the timer of the name it forgets.
Forget(kind, names) ==
  /\ job' = [id \in Ids |-> IF \E n \in names : registry[kind][n] = id
                            THEN [job[id] EXCEPT !.armed = FALSE] ELSE job[id]]
  /\ registry' = [registry EXCEPT ![kind] =
                    [n \in Names |-> IF n \in names THEN NoId ELSE @[n]]]
  /\ managed' = [managed EXCEPT ![kind] = @ \ names]

DeleteTimer(kind, n) ==
  /\ kind # "cron"
  /\ Exists(kind, n)
  /\ Forget(kind, {n})
  /\ UNCHANGED <<running, runningIntervals, deletions, orphans, phase, awaited>>

StartCronJob(n) ==
  /\ ~isShuttingDown
  /\ Exists("cron", n)
  /\ job' = [job EXCEPT ![registry["cron"][n]].armed = TRUE]
  /\ UNCHANGED <<registry, managed, running, runningIntervals, deletions, orphans, phase, awaited>>

StopCronJob(n) ==
  /\ Exists("cron", n)
  /\ job' = [job EXCEPT ![registry["cron"][n]].armed = FALSE]
  /\ UNCHANGED <<registry, managed, running, runningIntervals, deletions, orphans, phase, awaited>>

\* stop() takes effect at once; the rest of the call waits for the callback.
DeleteCronJob(caller, n) ==
  LET id == registry["cron"][n]
  IN /\ Exists("cron", n)
     /\ ~\E d \in deletions : d.by = caller
     /\ IF Polls(id)
        THEN /\ job' = [job EXCEPT ![id].armed = FALSE]
             /\ deletions' = deletions \cup {[by |-> caller, name |-> n, job |-> id]}
             /\ UNCHANGED <<registry, managed>>
        ELSE Forget("cron", {n}) /\ UNCHANGED deletions
     /\ UNCHANGED <<running, runningIntervals, orphans, phase, awaited>>

ForgetsName(d) ==
  IF Exists("cron", d.name)
  THEN /\ Forget("cron", {d.name})
       /\ orphans' = orphans \cup (({registry["cron"][d.name]} \cap running) \ {d.job})
  ELSE UNCHANGED <<job, registry, managed, orphans>>

FinishDeletion_WithoutWait(d) ==
  /\ deletions' = deletions \ {d}
  /\ ForgetsName(d)
  /\ UNCHANGED <<running, runningIntervals, phase, awaited>>

FinishDeletion_OnlyIfPresent(d) ==
  /\ d.job \notin running
  /\ Exists("cron", d.name)
  /\ deletions' = deletions \ {d}
  /\ ForgetsName(d)
  /\ UNCHANGED <<running, runningIntervals, phase, awaited>>

\* A poll that finds the job idle: the call deletes whatever the name stands
\* for by now, running or not, or throws.
FinishDeletion(d) ==
  /\ d.job \notin running
  /\ deletions' = deletions \ {d}
  /\ ForgetsName(d)
  /\ UNCHANGED <<running, runningIntervals, phase, awaited>>

-----------------------------------------------------------------------------
(* Callbacks *)

\* Callbacks of a job that does not wait may overlap: one is as good as many.
CronFires(id) ==
  /\ job[id].kind = "cron"
  /\ job[id].armed
  /\ id \notin running
  /\ running' = running \cup {id}
  /\ UNCHANGED <<registry, managed, job, runningIntervals, deletions, orphans, phase, awaited>>

IntervalTicks_ByTimer(id) ==
  /\ job[id].kind = "interval"
  /\ job[id].armed
  /\ id \notin running
  /\ running' = running \cup {id}
  /\ runningIntervals' = runningIntervals \cup {job[id].name}
  /\ UNCHANGED <<registry, managed, job, deletions, orphans, phase, awaited>>

\* A tick is skipped while a callback of that name runs.
IntervalTicks(id) ==
  /\ job[id].kind = "interval"
  /\ job[id].armed
  /\ job[id].name \notin runningIntervals
  /\ running' = running \cup {id}
  /\ runningIntervals' = runningIntervals \cup {job[id].name}
  /\ UNCHANGED <<registry, managed, job, deletions, orphans, phase, awaited>>

\* A fired timeout stays registered until its callback has settled.
TimeoutFires(id) ==
  /\ job[id].kind = "timeout"
  /\ job[id].armed
  /\ job' = [job EXCEPT ![id].armed = FALSE]
  /\ running' = running \cup {id}
  /\ UNCHANGED <<registry, managed, runningIntervals, deletions, orphans, phase, awaited>>

TimeoutSettled_KeepsManaged(n) ==
  /\ job' = [id \in Ids |-> IF registry["timeout"][n] = id
                            THEN [job[id] EXCEPT !.armed = FALSE] ELSE job[id]]
  /\ registry' = [registry EXCEPT !["timeout"][n] = NoId]
  /\ UNCHANGED managed

\* onSettled removes the name, whichever registration holds it by now.
TimeoutSettled(n) == Forget("timeout", {n})

CallbackSettles(id) ==
  /\ id \in running
  /\ running' = running \ {id}
  /\ runningIntervals' = IF job[id].kind = "interval"
                         THEN runningIntervals \ {job[id].name} ELSE runningIntervals
  /\ IF job[id].kind = "timeout" THEN TimeoutSettled(job[id].name)
     ELSE UNCHANGED <<registry, managed, job>>
  /\ UNCHANGED <<deletions, orphans, phase, awaited>>

-----------------------------------------------------------------------------
(* Shutdown *)

\* All in one turn: cron jobs that run are stopped and awaited, the others
\* deleted, and the interval and timeout timers cleared.
BeginShutdown ==
  LET polled == {n \in managed["cron"] : Polls(registry["cron"][n])}
      kept == [kind \in Kinds |-> IF kind = "cron" THEN polled ELSE {}]
  IN /\ phase = "up"
     /\ phase' = "draining"
     /\ deletions' = deletions \cup
          {[by |-> Shutdown, name |-> n, job |-> registry["cron"][n]] : n \in polled}
     /\ job' = [id \in Ids |->
          IF \E kind \in Kinds : \E n \in managed[kind] : registry[kind][n] = id
          THEN [job[id] EXCEPT !.armed = FALSE] ELSE job[id]]
     /\ registry' = [kind \in Kinds |-> [n \in Names |->
          IF n \in managed[kind] \ kept[kind] THEN NoId ELSE registry[kind][n]]]
     /\ managed' = kept
     /\ UNCHANGED <<running, runningIntervals, orphans, awaited>>

TimerCallbacks == {id \in running : job[id].kind # "cron"}

CronJobsStopped ==
  /\ phase = "draining"
  /\ ~\E d \in deletions : d.by = Shutdown
  /\ phase' = "waiting"
  /\ awaited' = TimerCallbacks
  /\ UNCHANGED <<registry, managed, job, running, runningIntervals, deletions, orphans>>

CallbacksDrained ==
  /\ phase = "waiting"
  /\ awaited \cap running = {}
  /\ phase' = "done"
  /\ UNCHANGED <<registry, managed, job, running, runningIntervals, deletions, orphans, awaited>>

-----------------------------------------------------------------------------
ServiceCall ==
  \/ \E n \in Names, id \in Ids : AddCronJob(n, id) \/ AddInterval(n, id) \/ AddTimeout(n, id)
  \/ \E n \in Names : StartCronJob(n) \/ StopCronJob(n)
  \/ \E n \in Names, kind \in Kinds : DeleteTimer(kind, n)
  \/ \E n \in Names, caller \in Callers : DeleteCronJob(caller, n)

CallbackStep(id) == CronFires(id) \/ IntervalTicks(id) \/ TimeoutFires(id)
Drain == CronJobsStopped \/ CallbacksDrained

Next ==
  \/ ServiceCall
  \/ \E d \in deletions : FinishDeletion(d)
  \/ \E id \in Ids : CallbackStep(id) \/ CallbackSettles(id)
  \/ BeginShutdown \/ Drain

Spec == Init /\ [][Next]_vars

\* Promises resolve, polls go on, and a callback that was started settles
\* (application code: assumed, not promised by this service).
FairSpec ==
  /\ Spec
  /\ WF_vars(Drain)
  /\ WF_vars(\E d \in deletions : FinishDeletion(d))
  /\ \A id \in Ids : WF_vars(CallbackSettles(id))

-----------------------------------------------------------------------------
(***************************************************************************)
(* Every name the registry holds is one shutdown will stop, and no other,  *)
(* and a timer that can still fire is one the registry names: through      *)
(* timeouts that settle, deletions that resume late, and names used again  *)
(* meanwhile, whatever is armed can be listed, deleted and stopped.        *)
(***************************************************************************)
RegistriesAgree ==
  /\ \A kind \in Kinds : managed[kind] = {n \in Names : Exists(kind, n)}
  /\ \A id \in Ids : job[id].armed => registry[job[id].kind][job[id].name] = id

(***************************************************************************)
(* Two callbacks of one interval name never run at once, even when the     *)
(* name was deleted and registered again while the first was running       *)
(* (docs/schedule.md:9).                                                   *)
(***************************************************************************)
IntervalsDoNotOverlap ==
  \A i, j \in running :
    /\ job[i].kind = "interval"
    /\ job[j].kind = "interval"
    /\ job[i].name = job[j].name
    => i = j

(***************************************************************************)
(* Shutdown waits for running callbacks (docs/schedule.md:9): once it has  *)
(* returned no timer is left that could start one, and none runs, whatever *)
(* deletions were in progress when it began.  The exceptions are the       *)
(* callbacks of jobs added with waitForCompletion false, and those of jobs *)
(* whose name a deletion of the name's former holder, still polling when   *)
(* they were registered, forgot while they ran (schedule.service.ts:158).  *)
(***************************************************************************)
DrainedIsQuiet ==
  phase = "done" =>
    /\ \A id \in Ids : ~job[id].armed
    /\ \A id \in running : job[id].kind = "cron" /\ (~job[id].waits \/ id \in orphans)

(***************************************************************************)
(* If callbacks settle, shutdown returns: stopping a job twice, or one     *)
(* that another caller is deleting, never leaves it waiting.               *)
(***************************************************************************)
ShutdownEnds == isShuttingDown ~> phase = "done"
=============================================================================
