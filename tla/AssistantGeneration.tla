------------------------ MODULE AssistantGeneration ------------------------
(***************************************************************************)
(* The durable life of a generated answer: publication by an HTTP request, *)
(* the BullMQ job, the single in-process worker of AssistantProcessor, the *)
(* in-memory cancellation map, and the personal keys that an owner edits,  *)
(* deletes or revokes meanwhile.                                           *)
(*                                                                         *)
(* One action is one database statement, one transaction under the         *)
(* account lock, or one step in memory: everything the code awaits between *)
(* two of them may interleave.  One model per account is kept (a key       *)
(* "serves" it or not); the order of keys is AssistantConfiguration's, so  *)
(* "the first usable key" is here any usable key.  Text is a Boolean.      *)
(***************************************************************************)
EXTENDS Naturals

CONSTANTS Users, Answers, Keys,
          AnswerUser, KeyUser,   \* owner of an answer id, of a key id
          NoAnswer, NoKey,
          MaxDisruptions,        \* bound on crashes, shutdowns, worker errors
          MaxEdits               \* bound on edits of keys and models

ASSUME OwnerAssumption ==
  /\ AnswerUser \in [Answers -> Users]
  /\ KeyUser \in [Keys -> Users]
ASSUME NullAssumption == NoAnswer \notin Answers /\ NoKey \notin Keys
ASSUME BoundAssumption == MaxDisruptions \in Nat /\ MaxEdits \in Nat

VARIABLES
  status,      \* assistant_answer.status
  keyId,       \* assistant_answer.keyId
  key,         \* assistant_key row and its assistant_key_model row
  modelOn,     \* accounts whose assistant_model_preference is enabled
  publishing,  \* answers whose HTTP request awaits queueService.add
  add,         \* fate of the add command of each answer
  jobs,        \* jobs waiting in the BullMQ queue
  worker,      \* the one generate() call in progress
  controllers, \* AssistantCancellation.controllers
  cancelling,  \* answers whose cancellation.cancel() is still to run
  sweeping,    \* keys whose deleteKey is about to run finishKeyDeletion
  deleting,    \* keys whose finishKeyDeletion saw no active answer
  phase,       \* the process: up, closing, down
  disruptions, edits

rows == <<status, keyId>>
queue == <<publishing, add, jobs>>
sweeps == <<sweeping, deleting>>
bounds == <<disruptions, edits>>
vars == <<rows, key, modelOn, queue, worker, controllers, cancelling, sweeps,
          phase, bounds>>

Active == {"queued", "generating"}
Settled == {"completed", "failed", "stopped"}
Statuses == {"absent", "removed"} \cup Active \cup Settled
KeyErrors == {"none", "key_invalid", "quota_exhausted"}
InTry == {"chooseKey", "reserve", "checkAbort", "checkStatus", "send", "stream",
          "checkpoint", "complete", "markFailure", "nextKey", "retire", "fail"}
WorkerSteps == {"idle", "admit", "confirm", "reject", "register", "catch",
                "failCaught", "release", "sweep", "sweepDelete"} \cup InTry

NoKeyRow == [row |-> "none", enabled |-> FALSE, pending |-> FALSE,
             error |-> "none", serving |-> FALSE]
RemovedKey == [NoKeyRow EXCEPT !.row = "removed"]
IdleWorker == [pc |-> "idle", answer |-> NoAnswer, key |-> NoKey, tried |-> {},
               text |-> FALSE, aborted |-> FALSE]

KeyRows == [row : {"none", "stored", "removed"}, enabled : BOOLEAN,
            pending : BOOLEAN, error : KeyErrors, serving : BOOLEAN]
Workers == [pc : WorkerSteps, answer : Answers \cup {NoAnswer},
            key : Keys \cup {NoKey}, tried : SUBSET Keys,
            text : BOOLEAN, aborted : BOOLEAN]

TypeOK ==
  /\ status \in [Answers -> Statuses]
  /\ keyId \in [Answers -> Keys \cup {NoKey}]
  /\ key \in [Keys -> KeyRows]
  /\ modelOn \subseteq Users
  /\ publishing \subseteq Answers
  /\ add \in [Answers -> {"none", "sent", "landed", "lost"}]
  /\ jobs \subseteq Answers
  /\ worker \in Workers
  /\ controllers \subseteq Answers
  /\ cancelling \subseteq Answers
  /\ sweeping \subseteq Keys
  /\ deleting \subseteq Keys
  /\ phase \in {"up", "closing", "down"}
  /\ disruptions \in 0 .. MaxDisruptions
  /\ edits \in 0 .. MaxEdits

Init ==
  /\ status = [a \in Answers |-> "absent"]
  /\ keyId = [a \in Answers |-> NoKey]
  /\ key = [k \in Keys |-> NoKeyRow]
  /\ modelOn = Users
  /\ publishing = {} /\ jobs = {}
  /\ add = [a \in Answers |-> "none"]
  /\ worker = IdleWorker
  /\ controllers = {} /\ cancelling = {}
  /\ sweeping = {} /\ deleting = {}
  /\ phase = "up"
  /\ disruptions = 0 /\ edits = 0

----------------------------------------------------------------------------
(* Queries shared by the handlers.                                         *)

\* isEnabled = 1 AND isPendingDeletion = 0 on a stored row
Usable(k) == key[k].row = "stored" /\ key[k].enabled /\ ~key[k].pending
Available(k) == Usable(k) /\ key[k].serving
Healthy(k) == Available(k) /\ key[k].error = "none"

ActiveOf(u) == {a \in Answers : AnswerUser[a] = u /\ status[a] \in Active}
\* Mutated: the deletion looks for queued answers instead of generating ones.
GeneratingWith_Queued(k) == {a \in Answers : status[a] = "queued" /\ keyId[a] = k}

GeneratingWith(k) == {a \in Answers : status[a] = "generating" /\ keyId[a] = k}
HealthyOf(u) == {k \in Keys : KeyUser[k] = u /\ Healthy(k)}

\* Mutated: the statement lost its status condition.
Settle_Unconditional(ids, outcome) ==
  status' = [a \in Answers |-> IF a \in ids THEN outcome ELSE status[a]]

\* UPDATE ... SET status = outcome WHERE id IN ids AND status IN (queued, generating)
Settle(ids, outcome) ==
  status' = [a \in Answers |-> IF a \in ids /\ status[a] \in Active
                               THEN outcome ELSE status[a]]

----------------------------------------------------------------------------
(* HTTP: publication and its queue command.                                *)

\* sendQuestion and regenerate: the transaction that rechecks the chosen key
\* under the account lock and inserts the row; the unique index on
\* activeUserId rejects a second active answer.  The add command follows.
Publish(a, k) ==
  /\ phase # "down"
  /\ status[a] = "absent"
  /\ k \in HealthyOf(AnswerUser[a])
  /\ AnswerUser[a] \in modelOn
  /\ ActiveOf(AnswerUser[a]) = {}
  /\ status' = [status EXCEPT ![a] = "queued"]
  /\ keyId' = [keyId EXCEPT ![a] = k]
  /\ publishing' = publishing \cup {a}
  /\ add' = [add EXCEPT ![a] = "sent"]
  /\ UNCHANGED <<key, modelOn, jobs, worker, controllers, cancelling, sweeps,
                 phase, bounds>>

\* Redis executes the command, whether or not the request still waits for it.
AddLands(a) ==
  /\ add[a] = "sent"
  /\ add' = [add EXCEPT ![a] = "landed"]
  /\ jobs' = jobs \cup {a}
  /\ UNCHANGED <<rows, key, modelOn, publishing, worker, controllers, cancelling,
                 sweeps, phase, bounds>>

AddIsLost(a) ==
  /\ add[a] = "sent"
  /\ add' = [add EXCEPT ![a] = "lost"]
  /\ UNCHANGED <<rows, key, modelOn, publishing, jobs, worker, controllers,
                 cancelling, sweeps, phase, bounds>>

EnqueueConfirmed(a) ==
  /\ a \in publishing
  /\ add[a] = "landed"
  /\ publishing' = publishing \ {a}
  /\ UNCHANGED <<rows, key, modelOn, add, jobs, worker, controllers, cancelling,
                 sweeps, phase, bounds>>

\* Mutated: the failed command is swallowed.
EnqueueFails_Swallowed(a) ==
  /\ a \in publishing
  /\ publishing' = publishing \ {a}
  /\ UNCHANGED <<rows, key, modelOn, add, jobs, worker, controllers, cancelling,
                 sweeps, phase, bounds>>

\* An error or the command timeout: the job may exist or still appear.
EnqueueFails(a) ==
  /\ a \in publishing
  /\ publishing' = publishing \ {a}
  /\ Settle({a}, "failed")
  /\ UNCHANGED <<keyId, key, modelOn, add, jobs, worker, controllers, cancelling,
                 sweeps, phase, bounds>>

----------------------------------------------------------------------------
(* HTTP: stopping and removing answers.                                    *)

StopAnswer(a) ==
  /\ phase # "down"
  /\ status[a] \notin {"absent", "removed"}
  /\ Settle({a}, "stopped")
  /\ cancelling' = cancelling \cup {a}
  /\ UNCHANGED <<keyId, key, modelOn, queue, worker, controllers, sweeps, phase,
                 bounds>>

\* cancellation.cancel: a controller that is not registered is not found.
Cancel(a) ==
  /\ a \in cancelling
  /\ cancelling' = cancelling \ {a}
  /\ worker' = [worker EXCEPT
                  !.aborted = @ \/ (a \in controllers /\ worker.answer = a)]
  /\ UNCHANGED <<rows, key, modelOn, queue, controllers, sweeps, phase, bounds>>

\* The cascade that ends deleteConversation; its earlier reads and stops are
\* StopAnswer steps here and AssistantConversation's in detail.
RemoveAnswer(a) ==
  /\ phase # "down"
  /\ status[a] \notin {"absent", "removed"}
  /\ status' = [status EXCEPT ![a] = "removed"]
  /\ UNCHANGED <<keyId, key, modelOn, queue, worker, controllers, cancelling,
                 sweeps, phase, bounds>>

----------------------------------------------------------------------------
(* HTTP: edits of keys.  ownedKey is read before the account lock, so the  *)
(* write may meet a row that was marked for deletion meanwhile.            *)

Edit == phase # "down" /\ edits < MaxEdits /\ edits' = edits + 1

SetKey(k, newKey) == key' = [key EXCEPT ![k] = newKey]

CreateKey(k) ==
  /\ phase # "down"
  /\ key[k].row = "none"
  /\ \E serves \in BOOLEAN :
       SetKey(k, [row |-> "stored", enabled |-> TRUE, pending |-> FALSE,
                  error |-> "none", serving |-> serves])
  /\ UNCHANGED <<rows, modelOn, queue, worker, controllers, cancelling, sweeps,
                 phase, bounds>>

ReplaceKey(k) ==
  /\ Edit
  /\ key[k].row = "stored"
  /\ \E serves \in BOOLEAN :
       SetKey(k, [key[k] EXCEPT !.enabled = TRUE, !.error = "none",
                                !.serving = serves])
  /\ UNCHANGED <<rows, modelOn, queue, worker, controllers, cancelling, sweeps,
                 phase, disruptions>>

UpdateKey(k, isEnabled) ==
  /\ Edit
  /\ key[k].row = "stored"
  /\ SetKey(k, [key[k] EXCEPT !.enabled = isEnabled])
  /\ UNCHANGED <<rows, modelOn, queue, worker, controllers, cancelling, sweeps,
                 phase, disruptions>>

\* refreshModels takes no account lock: catalogue and recovered quota.
RefreshModels(k) ==
  /\ Edit
  /\ key[k].row = "stored"
  /\ \E serves \in BOOLEAN, error \in {key[k].error, "none"} :
       /\ error = key[k].error \/ key[k].error = "quota_exhausted"
       /\ SetKey(k, [key[k] EXCEPT !.serving = serves, !.error = error])
  /\ UNCHANGED <<rows, modelOn, queue, worker, controllers, cancelling, sweeps,
                 phase, disruptions>>

DeleteKey(k) ==
  /\ Edit
  /\ key[k].row = "stored"
  /\ SetKey(k, [key[k] EXCEPT !.enabled = FALSE, !.pending = TRUE])
  /\ sweeping' = sweeping \cup {k}
  /\ UNCHANGED <<rows, modelOn, queue, worker, controllers, cancelling, deleting,
                 phase, disruptions>>

\* finishKeyDeletion of the HTTP request: the read, then the delete.
SweepCheck(k) ==
  /\ k \in sweeping
  /\ sweeping' = sweeping \ {k}
  /\ deleting' = IF GeneratingWith(k) = {} THEN deleting \cup {k} ELSE deleting
  /\ UNCHANGED <<rows, key, modelOn, queue, worker, controllers, cancelling, phase,
                 bounds>>

DeleteIfPending(k) ==
  key' = IF key[k].pending THEN [key EXCEPT ![k] = RemovedKey] ELSE key

SweepDelete(k) ==
  /\ k \in deleting
  /\ deleting' = deleting \ {k}
  /\ DeleteIfPending(k)
  /\ UNCHANGED <<rows, modelOn, queue, worker, controllers, cancelling, sweeping,
                 phase, bounds>>

RevokeKey(k) ==
  LET stopped == {a \in Answers : /\ AnswerUser[a] = KeyUser[k]
                                  /\ keyId[a] = k /\ status[a] \in Active}
  IN /\ Edit
     /\ key[k].row = "stored"
     /\ Settle(stopped, "stopped")
     /\ SetKey(k, RemovedKey)
     /\ cancelling' = cancelling \cup stopped
     /\ UNCHANGED <<keyId, modelOn, queue, worker, controllers, sweeps, phase,
                    disruptions>>

EnableModel(u) ==
  /\ Edit
  /\ \E k \in Keys : KeyUser[k] = u /\ key[k].row = "stored" /\ ~key[k].pending
  /\ modelOn' = modelOn \cup {u}
  /\ UNCHANGED <<rows, key, queue, worker, controllers, cancelling, sweeps, phase,
                 disruptions>>

\* Disabling a model stops its queued answers; admitted ones go on.
DisableModel(u) ==
  /\ Edit
  /\ \E k \in Keys : KeyUser[k] = u /\ key[k].row = "stored" /\ ~key[k].pending
  /\ modelOn' = modelOn \ {u}
  /\ Settle({a \in ActiveOf(u) : status[a] = "queued"}, "stopped")
  /\ UNCHANGED <<keyId, key, queue, worker, controllers, cancelling, sweeps, phase,
                 disruptions>>

----------------------------------------------------------------------------
(* The worker.                                                             *)

At(step) == worker.pc = step
Goto(step) == worker' = [worker EXCEPT !.pc = step]
Running == status[worker.answer] = "generating"

\* The job is fetched and startAnswer reads its row.
TakeJob(a) ==
  /\ phase = "up" /\ At("idle")
  /\ a \in jobs
  /\ jobs' = jobs \ {a}
  /\ worker' = IF status[a] = "queued"
               THEN [IdleWorker EXCEPT !.pc = "admit", !.answer = a]
               ELSE IdleWorker
  /\ UNCHANGED <<rows, key, modelOn, publishing, add, controllers, cancelling,
                 sweeps, phase, bounds>>

\* The admission transaction under the account lock.
Admit ==
  /\ At("admit")
  /\ LET a == worker.answer
         admitted == /\ status[a] = "queued"
                     /\ keyId[a] \in Keys /\ Usable(keyId[a])
                     /\ KeyUser[keyId[a]] = AnswerUser[a]
                     /\ AnswerUser[a] \in modelOn
     IN status' = IF admitted THEN [status EXCEPT ![a] = "generating"] ELSE status
  /\ Goto("confirm")
  /\ UNCHANGED <<keyId, key, modelOn, queue, controllers, cancelling, sweeps, phase,
                 bounds>>

ConfirmAdmission ==
  /\ At("confirm")
  /\ Goto(IF Running THEN "register" ELSE "reject")
  /\ UNCHANGED <<rows, key, modelOn, queue, controllers, cancelling, sweeps, phase,
                 bounds>>

RejectAnswer ==
  /\ At("reject")
  /\ Settle({worker.answer}, "failed")
  /\ worker' = IdleWorker
  /\ UNCHANGED <<keyId, key, modelOn, queue, controllers, cancelling, sweeps, phase,
                 bounds>>

\* Mutated: the controller is not registered.
Register_Forgotten ==
  /\ At("register")
  /\ Goto("chooseKey")
  /\ UNCHANGED <<rows, key, modelOn, queue, controllers, cancelling, sweeps, phase,
                 bounds>>

Register ==
  /\ At("register")
  /\ controllers' = controllers \cup {worker.answer}
  /\ Goto("chooseKey")
  /\ UNCHANGED <<rows, key, modelOn, queue, cancelling, sweeps, phase, bounds>>

\* The loop takes the key, or fails the answer when there is none.
TryKey(k) ==
  worker' = IF k = NoKey
            THEN [worker EXCEPT !.pc = "fail"]
            ELSE [worker EXCEPT !.pc = "reserve", !.key = k, !.tried = @ \cup {k}]

\* generationKey: the key chosen at publication if it is still healthy.
GenerationKey ==
  /\ At("chooseKey")
  /\ LET healthy == HealthyOf(AnswerUser[worker.answer])
         preferred == {keyId[worker.answer]} \cap healthy
     IN \E k \in IF preferred # {} THEN preferred
                 ELSE IF healthy # {} THEN healthy ELSE {NoKey} : TryKey(k)
  /\ UNCHANGED <<rows, key, modelOn, queue, controllers, cancelling, sweeps, phase,
                 bounds>>

\* nextGenerationKey: a later key in the order, or the first when the current
\* one is no longer listed.
NextGenerationKey ==
  /\ At("nextKey")
  /\ LET others == HealthyOf(AnswerUser[worker.answer]) \ {worker.key}
     IN \E k \in others \cup {NoKey} :
          /\ k = NoKey => others = {} \/ Available(worker.key)
          /\ TryKey(k)
  /\ UNCHANGED <<rows, key, modelOn, queue, controllers, cancelling, sweeps, phase,
                 bounds>>

\* Mutated: a refused reservation chooses again instead of returning.
UseAnswerKey_Retry ==
  /\ At("reserve")
  /\ IF Running /\ Usable(worker.key) /\ KeyUser[worker.key] = AnswerUser[worker.answer]
     THEN /\ keyId' = [keyId EXCEPT ![worker.answer] = worker.key]
          /\ Goto("checkAbort")
     ELSE keyId' = keyId /\ Goto("chooseKey")
  /\ UNCHANGED <<status, key, modelOn, queue, controllers, cancelling, sweeps, phase,
                 bounds>>

\* useAnswerKey: the second transaction under the account lock.
UseAnswerKey ==
  /\ At("reserve")
  /\ IF Running /\ Usable(worker.key) /\ KeyUser[worker.key] = AnswerUser[worker.answer]
     THEN /\ keyId' = [keyId EXCEPT ![worker.answer] = worker.key]
          /\ Goto("checkAbort")
     ELSE keyId' = keyId /\ Goto("release")
  /\ UNCHANGED <<status, key, modelOn, queue, controllers, cancelling, sweeps, phase,
                 bounds>>

CheckAbort ==
  /\ At("checkAbort")
  /\ Goto(IF worker.aborted THEN "release" ELSE "checkStatus")
  /\ UNCHANGED <<rows, key, modelOn, queue, controllers, cancelling, sweeps, phase,
                 bounds>>

CheckStatus ==
  /\ At("checkStatus")
  /\ Goto(IF Running THEN "send" ELSE "release")
  /\ UNCHANGED <<rows, key, modelOn, queue, controllers, cancelling, sweeps, phase,
                 bounds>>

\* streamText with an aborted signal sends nothing.
Send ==
  /\ At("send")
  /\ Goto(IF worker.aborted THEN "release" ELSE "stream")
  /\ UNCHANGED <<rows, key, modelOn, queue, controllers, cancelling, sweeps, phase,
                 bounds>>

ReceiveText ==
  /\ At("stream")
  /\ \E step \in {"stream", "checkpoint"} :
       worker' = [worker EXCEPT !.text = TRUE, !.pc = step]
  /\ UNCHANGED <<rows, key, modelOn, queue, controllers, cancelling, sweeps, phase,
                 bounds>>

Checkpoint ==
  /\ At("checkpoint")
  /\ worker' = IF Running THEN [worker EXCEPT !.pc = "stream"]
               ELSE [worker EXCEPT !.pc = "release", !.aborted = TRUE]
  /\ UNCHANGED <<rows, key, modelOn, queue, controllers, cancelling, sweeps, phase,
                 bounds>>

EndStream ==
  /\ At("stream")
  /\ Goto(IF worker.aborted THEN "release" ELSE "complete")
  /\ UNCHANGED <<rows, key, modelOn, queue, controllers, cancelling, sweeps, phase,
                 bounds>>

\* Mutated: a credential failure in mid-stream also falls back.
StreamFails_MidStream ==
  /\ At("stream")
  /\ \/ ~worker.text /\ Goto("retire")
     \/ ~worker.aborted /\ Goto("markFailure")
     \/ Goto("catch")
  /\ UNCHANGED <<rows, key, modelOn, queue, controllers, cancelling, sweeps, phase,
                 bounds>>

\* An error part: only an answer without text may retire its model or try
\* another key.
StreamFails ==
  /\ At("stream")
  /\ \/ ~worker.text /\ Goto("retire")
     \/ ~worker.text /\ ~worker.aborted /\ Goto("markFailure")
     \/ Goto("catch")
  /\ UNCHANGED <<rows, key, modelOn, queue, controllers, cancelling, sweeps, phase,
                 bounds>>

MarkKeyFailure ==
  /\ At("markFailure")
  /\ \E error \in KeyErrors \ {"none"} :
       key' = IF key[worker.key].row = "stored"
              THEN [key EXCEPT ![worker.key].error = error] ELSE key
  /\ Goto("nextKey")
  /\ UNCHANGED <<rows, modelOn, queue, controllers, cancelling, sweeps, phase, bounds>>

RetireModel ==
  /\ At("retire")
  /\ key' = [k \in Keys |-> IF KeyUser[k] = AnswerUser[worker.answer]
                            THEN [key[k] EXCEPT !.serving = FALSE] ELSE key[k]]
  /\ Goto("fail")
  /\ UNCHANGED <<rows, modelOn, queue, controllers, cancelling, sweeps, phase, bounds>>

\* completeAnswer's first statement; the second, which selects the answer in
\* its turn, is AssistantConversation's.
CompleteAnswer ==
  /\ At("complete")
  /\ status' = IF Running THEN [status EXCEPT ![worker.answer] = "completed"]
               ELSE status
  /\ Goto("release")
  /\ UNCHANGED <<keyId, key, modelOn, queue, controllers, cancelling, sweeps, phase,
                 bounds>>

CatchError ==
  /\ At("catch")
  /\ Goto(IF Running THEN "failCaught" ELSE "release")
  /\ UNCHANGED <<rows, key, modelOn, queue, controllers, cancelling, sweeps, phase,
                 bounds>>

FailAnswer ==
  /\ At("fail") \/ At("failCaught")
  /\ Settle({worker.answer}, "failed")
  /\ Goto("release")
  /\ UNCHANGED <<keyId, key, modelOn, queue, controllers, cancelling, sweeps, phase,
                 bounds>>

\* finally: release the controller, then finishKeyDeletion for every tried key.
SweepRest(tried) ==
  worker' = IF tried = {} THEN IdleWorker
            ELSE [worker EXCEPT !.pc = "sweep", !.tried = tried]

Release ==
  /\ At("release")
  /\ controllers' = controllers \ {worker.answer}
  /\ SweepRest(worker.tried)
  /\ UNCHANGED <<rows, key, modelOn, queue, cancelling, sweeps, phase, bounds>>

WorkerSweepCheck ==
  /\ At("sweep")
  /\ \E k \in worker.tried :
       IF GeneratingWith(k) = {}
       THEN worker' = [worker EXCEPT !.pc = "sweepDelete", !.key = k]
       ELSE SweepRest(worker.tried \ {k})
  /\ UNCHANGED <<rows, key, modelOn, queue, controllers, cancelling, sweeps, phase,
                 bounds>>

WorkerSweepDelete ==
  /\ At("sweepDelete")
  /\ DeleteIfPending(worker.key)
  /\ SweepRest(worker.tried \ {worker.key})
  /\ UNCHANGED <<rows, modelOn, queue, controllers, cancelling, sweeps, phase, bounds>>

----------------------------------------------------------------------------
(* Disruptions: a database or provider error that throws in the worker, a  *)
(* graceful shutdown, a crash, and the next start.                         *)

Disrupt == disruptions < MaxDisruptions /\ disruptions' = disruptions + 1

\* Inside try the outer catch decides; elsewhere generate() rejects and the
\* job, with attempts: 1, is not retried.
WorkerThrows ==
  /\ Disrupt
  /\ \/ worker.pc \in InTry /\ Goto("catch")
     \/ worker.pc \in {"catch", "failCaught"} /\ Goto("release")
     \/ worker.pc \in {"admit", "confirm", "reject", "sweep", "sweepDelete"}
          /\ worker' = IdleWorker
  /\ UNCHANGED <<rows, key, modelOn, queue, controllers, cancelling, sweeps, phase,
                 edits>>

\* onModuleDestroy: cancelAll, then worker.close waits for the running job.
BeginClose ==
  /\ Disrupt
  /\ phase = "up"
  /\ phase' = "closing"
  /\ worker' = [worker EXCEPT !.aborted = @ \/ worker.answer \in controllers]
  /\ UNCHANGED <<rows, key, modelOn, queue, controllers, cancelling, sweeps, edits>>

\* What the process held in memory is gone; Redis and MySQL keep theirs.
LoseMemory ==
  /\ phase' = "down"
  /\ publishing' = {} /\ cancelling' = {} /\ controllers' = {}
  /\ sweeping' = {} /\ deleting' = {}
  /\ worker' = IdleWorker
  /\ UNCHANGED <<rows, key, modelOn, add, jobs, edits>>

Exit == phase = "closing" /\ At("idle") /\ LoseMemory /\ UNCHANGED disruptions

\* The running job is lost with the process: maxStalledCount is 0.
Crash == Disrupt /\ phase # "down" /\ LoseMemory

\* onModuleInit: failInterruptedAnswers runs before the worker is created.
Restart ==
  /\ phase = "down"
  /\ phase' = "up"
  /\ status' = [a \in Answers |-> IF status[a] = "generating" THEN "failed"
                                  ELSE status[a]]
  /\ UNCHANGED <<keyId, key, modelOn, queue, worker, controllers, cancelling, sweeps,
                 bounds>>

----------------------------------------------------------------------------
WorkerProgress ==
  \/ Admit \/ ConfirmAdmission \/ RejectAnswer \/ Register \/ GenerationKey
  \/ NextGenerationKey \/ UseAnswerKey \/ CheckAbort \/ CheckStatus \/ Send
  \/ Checkpoint \/ MarkKeyFailure \/ RetireModel \/ CompleteAnswer \/ CatchError
  \/ FailAnswer \/ Release \/ WorkerSweepCheck \/ WorkerSweepDelete

StreamEnds == EndStream \/ StreamFails

QueueStep(a) ==
  \/ AddLands(a) \/ AddIsLost(a) \/ EnqueueConfirmed(a) \/ EnqueueFails(a)

AnswerRequest(a) ==
  \/ \E k \in Keys : Publish(a, k)
  \/ StopAnswer(a) \/ Cancel(a) \/ RemoveAnswer(a)

KeyRequest(k) ==
  \/ CreateKey(k) \/ ReplaceKey(k) \/ RefreshModels(k) \/ DeleteKey(k)
  \/ SweepCheck(k) \/ SweepDelete(k) \/ RevokeKey(k)
  \/ \E isEnabled \in BOOLEAN : UpdateKey(k, isEnabled)

ProcessStep == WorkerThrows \/ BeginClose \/ Exit \/ Crash \/ Restart

Next ==
  \/ \E a \in Answers : AnswerRequest(a) \/ QueueStep(a) \/ TakeJob(a)
  \/ \E k \in Keys : KeyRequest(k)
  \/ \E u \in Users : EnableModel(u) \/ DisableModel(u)
  \/ WorkerProgress \/ ReceiveText \/ StreamEnds
  \/ ProcessStep

Spec == Init /\ [][Next]_vars

(***************************************************************************)
(* Fairness: the worker's own steps and the process's own callbacks run    *)
(* when they can; a provider stream is bounded (maxOutputTokens), so it ends; BullMQ   *)
(* serves its jobs in order, so a waiting job is not passed over for ever. *)
(* Owners, faults and restarts are under no obligation.                    *)
(***************************************************************************)
Fairness ==
  /\ WF_vars(WorkerProgress)
  /\ SF_vars(StreamEnds)
  /\ WF_vars(Exit)
  /\ \A a \in Answers :
       /\ SF_vars(TakeJob(a))
       /\ WF_vars(QueueStep(a))
       /\ WF_vars(Cancel(a))
  /\ \A k \in Keys : WF_vars(SweepCheck(k) \/ SweepDelete(k))

FairSpec == Spec /\ Fairness

----------------------------------------------------------------------------
(***************************************************************************)
(* The statements on one answer row, whoever issues them, implement the    *)
(* abstract life of an answer: no second active answer, no settled answer  *)
(* revived or overwritten by a stop, a failure or a completion that raced. *)
(***************************************************************************)
Lifecycle == INSTANCE AnswerLifecycle
LifecycleSpec == Lifecycle!LifecycleSpec

(***************************************************************************)
(* A generating answer always has its key row: deleteKey hides the key but *)
(* finishKeyDeletion, a read and a later delete without the account lock,  *)
(* never removes a row an admitted answer still uses.                      *)
(***************************************************************************)
KeyOutlivesItsAnswer ==
  \A a \in Answers :
    status[a] = "generating" => keyId[a] \in Keys /\ key[keyId[a]].row = "stored"

(***************************************************************************)
(* In a process that is not disturbed, a queued answer is always in the    *)
(* hands of its request, of the queue or of the worker, whatever the       *)
(* outcome of the add command.                                             *)
(***************************************************************************)
HasDriver(a) ==
  \/ a \in publishing \cup jobs
  \/ worker.answer = a /\ worker.pc \in {"admit", "confirm", "reject"}

QueuedHasDriver ==
  disruptions = 0 => \A a \in Answers : status[a] = "queued" => HasDriver(a)

\* The provider request of an attempt is really sent.
SendsRequest == worker.pc = "send" /\ worker'.pc = "stream"

(***************************************************************************)
(* Once a stop, or the revocation that stopped the answer, has returned, no*)
(* provider request is started for it, wherever the worker was: the        *)
(* controller and the status reads cover each other's gaps.                *)
(***************************************************************************)
StoppedNeverSends ==
  [][SendsRequest => \/ status[worker.answer] # "stopped"
                     \/ worker.answer \in cancelling]_vars

(***************************************************************************)
(* A request carries the secret of a key row that is gone only in two      *)
(* windows: its cancellation is about to run, or the answer left           *)
(* "generating" behind the worker's last status read without any           *)
(* cancellation (conversation deleted, publication timed out).             *)
(***************************************************************************)
RemovedKeyNeverSends ==
  [][SendsRequest => \/ key[worker.key].row = "stored"
                     \/ worker.answer \in cancelling
                     \/ status[worker.answer] \in {"removed", "failed"}]_vars

(***************************************************************************)
(* An answer that already shows text is never sent to the provider again:  *)
(* a credential failure in mid-stream does not fall back to another key.   *)
(***************************************************************************)
TextIsSentOnce == [][SendsRequest => ~worker.text]_vars

(***************************************************************************)
(* The worker comes back for the next job, whatever keys, cancellations or *)
(* errors it met; without it every account waits.                          *)
(***************************************************************************)
WorkerReturns == worker.pc # "idle" ~> worker.pc = "idle"

(***************************************************************************)
(* Without disruption and without edits of keys, an answer leaves the      *)
(* active states and frees the account's only slot, even when the add      *)
(* command fails, is lost, or lands after the request gave up.             *)
(***************************************************************************)
AnswerSettles ==
  \A a \in Answers :
    status[a] \in Active ~> status[a] \notin Active \/ disruptions + edits > 0

(***************************************************************************)
(* A claim of the repository that a run refutes.                           *)
(* assistant-configuration.service.ts:319 "in-flight answers may finish":  *)
(* an admitted answer finishes, whatever happens to its key meanwhile.     *)
(***************************************************************************)
InFlightFinishes ==
  \A a \in Answers : status[a] = "generating" ~> status[a] # "generating"
=============================================================================
