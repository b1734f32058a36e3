--------------------- MODULE AssistantGenerationProofs ---------------------
(***************************************************************************)
(* Theorems of AssistantGeneration for every set of accounts, answers and  *)
(* keys and every bound: the type invariant, the inductive invariant that  *)
(* keeps finishKeyDeletion away from keys in use, the refinement of        *)
(* AnswerLifecycle, what the worker sends, and who holds a queued answer.  *)
(***************************************************************************)
EXTENDS AssistantGeneration, TLAPS

\* Between its steps the worker keeps a real answer and, where it uses one, a
\* real key.
UsesKey == {"reserve", "checkAbort", "checkStatus", "send", "stream",
            "checkpoint", "complete", "markFailure", "nextKey", "retire",
            "sweepDelete"}

WorkerShape ==
  /\ worker.pc # "idle" => worker.answer \in Answers
  /\ worker.pc \in UsesKey => worker.key \in Keys

ShapeInv == TypeOK /\ WorkerShape

\* Keys on their way to deletion are marked, and a deletion that already read
\* the answers stays right until it runs.
SweepsAreSafe ==
  /\ \A k \in sweeping \cup deleting : key[k].pending \/ key[k].row = "removed"
  /\ \A k \in deleting : GeneratingWith(k) = {}
  /\ worker.pc = "sweepDelete" => GeneratingWith(worker.key) = {}

\* An answer only ever names a key of its own account.
KeysAreOwn ==
  \A a \in Answers : keyId[a] \in Keys => KeyUser[keyId[a]] = AnswerUser[a]

\* Only stored rows carry the deletion mark.
MarksAreStored == \A k \in Keys : key[k].pending => key[k].row = "stored"

IInv == KeyOutlivesItsAnswer /\ SweepsAreSafe /\ KeysAreOwn /\ MarksAreStored

USE DEF rows, queue, sweeps, bounds

----------------------------------------------------------------------------
LEMMA InitShape == Init => ShapeInv
  BY BoundAssumption
     DEF Init, ShapeInv, TypeOK, WorkerShape, UsesKey, IdleWorker, NoKeyRow,
         KeyRows, Workers, Statuses, Active, Settled, KeyErrors, WorkerSteps, InTry

\* The three ways in which steps rewrite records.
LEMMA SetKeyType ==
  ASSUME key \in [Keys -> KeyRows], NEW k \in Keys, NEW r \in KeyRows, SetKey(k, r)
  PROVE  key' \in [Keys -> KeyRows]
  BY DEF SetKey

LEMMA ReplacedRowType ==
  ASSUME NEW r \in KeyRows, NEW serves \in BOOLEAN
  PROVE  [r EXCEPT !.enabled = TRUE, !.error = "none", !.serving = serves] \in KeyRows
  BY DEF KeyRows, KeyErrors

LEMMA RefreshedRowType ==
  ASSUME NEW r \in KeyRows, NEW serves \in BOOLEAN, NEW error \in {r.error, "none"}
  PROVE  [r EXCEPT !.serving = serves, !.error = error] \in KeyRows
  BY DEF KeyRows, KeyErrors

LEMMA DeletedRowType ==
  ASSUME NEW r \in KeyRows
  PROVE  [r EXCEPT !.enabled = FALSE, !.pending = TRUE] \in KeyRows
  BY DEF KeyRows

LEMMA SwitchedRowType ==
  ASSUME NEW r \in KeyRows, NEW isEnabled \in BOOLEAN
  PROVE  [r EXCEPT !.enabled = isEnabled] \in KeyRows
  BY DEF KeyRows

LEMMA TryKeyShape ==
  ASSUME worker \in Workers, worker.answer \in Answers,
         NEW k \in Keys \cup {NoKey}, TryKey(k)
  PROVE  worker' \in Workers /\ WorkerShape'
<1>1. CASE k = NoKey
  BY <1>1 DEF TryKey, Workers, WorkerSteps, InTry, WorkerShape, UsesKey
<1>2. CASE k \in Keys
  BY <1>2, NullAssumption DEF TryKey, Workers, WorkerSteps, InTry, WorkerShape, UsesKey
<1> QED BY <1>1, <1>2

LEMMA SweepRestShape ==
  ASSUME worker \in Workers, worker.answer \in Answers,
         NEW tried \in SUBSET Keys, SweepRest(tried)
  PROVE  worker' \in Workers /\ WorkerShape'
  BY DEF SweepRest, IdleWorker, Workers, WorkerSteps, InTry, WorkerShape, UsesKey

LEMMA AnswerStepShape ==
  ASSUME ShapeInv, NEW a \in Answers,
         AnswerRequest(a) \/ QueueStep(a) \/ TakeJob(a)
  PROVE  ShapeInv'
<1> USE DEF ShapeInv, TypeOK, WorkerShape, UsesKey, Statuses, Active, Settled, Settle
<1>1. CASE \E k \in Keys : Publish(a, k)
  BY <1>1 DEF Publish
<1>2. CASE StopAnswer(a)
  BY <1>2 DEF StopAnswer
<1>3. CASE Cancel(a)
  BY <1>3 DEF Cancel, Workers
<1>4. CASE RemoveAnswer(a)
  BY <1>4 DEF RemoveAnswer
<1>5. CASE QueueStep(a)
  BY <1>5 DEF QueueStep, AddLands, AddIsLost, EnqueueConfirmed, EnqueueFails
<1>6. CASE TakeJob(a)
  BY <1>6 DEF TakeJob, IdleWorker, Workers, WorkerSteps, At
<1> QED BY <1>1, <1>2, <1>3, <1>4, <1>5, <1>6 DEF AnswerRequest

LEMMA KeyStepShape ==
  ASSUME ShapeInv, NEW k \in Keys, KeyRequest(k)
  PROVE  ShapeInv'
<1> USE BoundAssumption DEF ShapeInv, TypeOK, WorkerShape, UsesKey, Edit
<1>1. CASE CreateKey(k)
  <2>1. key' \in [Keys -> KeyRows]
    BY <1>1 DEF CreateKey, SetKey, KeyRows, KeyErrors
  <2> QED BY <1>1, <2>1 DEF CreateKey
<1>2. CASE ReplaceKey(k)
  <2>1. PICK serves \in BOOLEAN :
          SetKey(k, [key[k] EXCEPT !.enabled = TRUE, !.error = "none",
                                   !.serving = serves])
    BY <1>2 DEF ReplaceKey
  <2>2. [key[k] EXCEPT !.enabled = TRUE, !.error = "none", !.serving = serves]
          \in KeyRows
    BY ReplacedRowType
  <2>3. key' \in [Keys -> KeyRows]
    BY <2>1, <2>2, SetKeyType
  <2> QED BY <1>2, <2>3 DEF ReplaceKey
<1>3. CASE RefreshModels(k)
  <2>1. PICK serves \in BOOLEAN, error \in {key[k].error, "none"} :
          SetKey(k, [key[k] EXCEPT !.serving = serves, !.error = error])
    BY <1>3 DEF RefreshModels
  <2>2. [key[k] EXCEPT !.serving = serves, !.error = error] \in KeyRows
    BY RefreshedRowType
  <2>3. key' \in [Keys -> KeyRows]
    BY <2>1, <2>2, SetKeyType
  <2> QED BY <1>3, <2>3 DEF RefreshModels
<1>4. CASE DeleteKey(k)
  <2>1. [key[k] EXCEPT !.enabled = FALSE, !.pending = TRUE] \in KeyRows
    BY DeletedRowType
  <2>2. key' \in [Keys -> KeyRows]
    BY <1>4, <2>1, SetKeyType DEF DeleteKey
  <2> QED BY <1>4, <2>2 DEF DeleteKey
<1>5. CASE SweepCheck(k)
  BY <1>5 DEF SweepCheck
<1>6. CASE SweepDelete(k)
  <2>1. key' \in [Keys -> KeyRows]
    BY <1>6 DEF SweepDelete, DeleteIfPending, RemovedKey, NoKeyRow, KeyRows, KeyErrors
  <2> QED BY <1>6, <2>1 DEF SweepDelete
<1>7. CASE RevokeKey(k)
  <2>1. key' \in [Keys -> KeyRows]
    BY <1>7 DEF RevokeKey, SetKey, RemovedKey, NoKeyRow, KeyRows, KeyErrors
  <2>2. status' \in [Answers -> Statuses]
    BY <1>7 DEF RevokeKey, Settle, Statuses, Settled
  <2> QED BY <1>7, <2>1, <2>2 DEF RevokeKey
<1>8. CASE \E isEnabled \in BOOLEAN : UpdateKey(k, isEnabled)
  <2>1. PICK isEnabled \in BOOLEAN : UpdateKey(k, isEnabled)
    BY <1>8
  <2>2. [key[k] EXCEPT !.enabled = isEnabled] \in KeyRows
    BY SwitchedRowType
  <2>3. key' \in [Keys -> KeyRows]
    BY <2>1, <2>2, SetKeyType DEF UpdateKey
  <2> QED BY <2>1, <2>3 DEF UpdateKey
<1> QED BY <1>1, <1>2, <1>3, <1>4, <1>5, <1>6, <1>7, <1>8 DEF KeyRequest

LEMMA ModelStepShape ==
  ASSUME ShapeInv, NEW u \in Users, EnableModel(u) \/ DisableModel(u)
  PROVE  ShapeInv'
  BY BoundAssumption DEF ShapeInv, TypeOK, WorkerShape, UsesKey, Statuses, Active,
     Settled, Settle, Edit, EnableModel, DisableModel

LEMMA WorkerStepShape ==
  ASSUME ShapeInv, WorkerProgress \/ ReceiveText \/ StreamEnds
  PROVE  ShapeInv'
<1> USE DEF ShapeInv, TypeOK, WorkerShape, UsesKey, Statuses, Active, Settled,
        WorkerSteps, InTry, At, Goto, Running
<1>1. CASE Admit
  BY <1>1 DEF Admit, Workers
<1>2. CASE ConfirmAdmission
  BY <1>2 DEF ConfirmAdmission, Workers
<1>3. CASE RejectAnswer
  BY <1>3 DEF RejectAnswer, Settle, IdleWorker, Workers
<1>4. CASE Register
  BY <1>4 DEF Register, Workers
<1>5. CASE GenerationKey
  <2>1. PICK k \in Keys \cup {NoKey} : TryKey(k)
    BY <1>5 DEF GenerationKey, HealthyOf
  <2> QED BY <1>5, <2>1, TryKeyShape DEF GenerationKey
<1>6. CASE NextGenerationKey
  <2>1. PICK k \in Keys \cup {NoKey} : TryKey(k)
    BY <1>6 DEF NextGenerationKey, HealthyOf
  <2> QED BY <1>6, <2>1, TryKeyShape DEF NextGenerationKey
<1>7. CASE UseAnswerKey
  BY <1>7 DEF UseAnswerKey, Workers
<1>8. CASE CheckAbort \/ CheckStatus \/ Send
  BY <1>8 DEF CheckAbort, CheckStatus, Send, Workers
<1>9. CASE ReceiveText \/ StreamEnds
  <2>1. CASE ReceiveText
    BY <2>1 DEF ReceiveText, Workers
  <2>2. CASE EndStream
    BY <2>2 DEF EndStream, Workers
  <2>3. CASE StreamFails
    BY <2>3 DEF StreamFails, Workers
  <2> QED BY <1>9, <2>1, <2>2, <2>3 DEF StreamEnds
<1>10. CASE Checkpoint
  BY <1>10 DEF Checkpoint, Workers
<1>11. CASE MarkKeyFailure
  <2>1. \A k \in Keys, error \in KeyErrors : [key[k] EXCEPT !.error = error] \in KeyRows
    BY DEF KeyRows
  <2>2. key' \in [Keys -> KeyRows]
    BY <1>11, <2>1 DEF MarkKeyFailure
  <2> QED BY <1>11, <2>2 DEF MarkKeyFailure, Workers
<1>12. CASE RetireModel
  <2>1. \A k \in Keys : [key[k] EXCEPT !.serving = FALSE] \in KeyRows
    <3>1. \A row \in KeyRows : [row EXCEPT !.serving = FALSE] \in KeyRows
      BY DEF KeyRows
    <3> QED BY <3>1
  <2>2. key' \in [Keys -> KeyRows]
    BY <1>12, <2>1 DEF RetireModel
  <2> QED BY <1>12, <2>2 DEF RetireModel, Workers
<1>13. CASE CompleteAnswer
  BY <1>13 DEF CompleteAnswer, Workers
<1>14. CASE CatchError
  BY <1>14 DEF CatchError, Workers
<1>15. CASE FailAnswer
  BY <1>15 DEF FailAnswer, Settle, Workers
<1>16. CASE Release
  <2>1. worker.tried \in SUBSET Keys
    BY DEF Workers
  <2> QED BY <1>16, <2>1, SweepRestShape DEF Release
<1>17. CASE WorkerSweepCheck
  <2>1. PICK k \in worker.tried :
          IF GeneratingWith(k) = {}
          THEN worker' = [worker EXCEPT !.pc = "sweepDelete", !.key = k]
          ELSE SweepRest(worker.tried \ {k})
    BY <1>17 DEF WorkerSweepCheck
  <2>2. k \in Keys /\ worker.tried \ {k} \in SUBSET Keys
    BY DEF Workers
  <2>3. CASE GeneratingWith(k) = {}
    <3>1. worker' = [worker EXCEPT !.pc = "sweepDelete", !.key = k]
      BY <2>1, <2>3
    <3>2. worker' \in Workers
      BY <2>2, <3>1 DEF Workers
    <3>3. worker'.answer = worker.answer /\ worker'.key = k /\ worker.answer \in Answers
      BY <1>17, <3>1 DEF WorkerSweepCheck, Workers
    <3> QED BY <1>17, <2>2, <3>2, <3>3 DEF WorkerSweepCheck
  <2>4. CASE GeneratingWith(k) # {}
    <3>1. worker' \in Workers /\ WorkerShape'
      BY <1>17, <2>1, <2>2, <2>4, SweepRestShape DEF WorkerSweepCheck
    <3> QED BY <1>17, <3>1 DEF WorkerSweepCheck
  <2> QED BY <2>3, <2>4
<1>18. CASE WorkerSweepDelete
  <2>1. worker.tried \ {worker.key} \in SUBSET Keys
    BY DEF Workers
  <2>2. worker' \in Workers /\ WorkerShape'
    BY <1>18, <2>1, SweepRestShape DEF WorkerSweepDelete
  <2>3. key' \in [Keys -> KeyRows]
    BY <1>18 DEF WorkerSweepDelete, DeleteIfPending, RemovedKey, NoKeyRow, KeyRows,
                 KeyErrors
  <2> QED BY <1>18, <2>2, <2>3 DEF WorkerSweepDelete
<1> QED BY <1>1, <1>2, <1>3, <1>4, <1>5, <1>6, <1>7, <1>8, <1>9, <1>10, <1>11, <1>12,
           <1>13, <1>14, <1>15, <1>16, <1>17, <1>18 DEF WorkerProgress

LEMMA ProcessStepShape ==
  ASSUME ShapeInv, ProcessStep
  PROVE  ShapeInv'
<1> USE BoundAssumption DEF ShapeInv, TypeOK, WorkerShape, UsesKey, Disrupt
<1>1. CASE WorkerThrows
  <2>1. CASE \E step \in {"catch", "release"} : worker.pc # "idle" /\ Goto(step)
    <3>1. worker' \in Workers /\ WorkerShape'
      BY <2>1 DEF Goto, Workers, WorkerSteps
    <3> QED BY <1>1, <3>1 DEF WorkerThrows
  <2>2. CASE worker' = IdleWorker
    <3>1. worker' \in Workers /\ WorkerShape'
      BY <2>2 DEF IdleWorker, Workers, WorkerSteps
    <3> QED BY <1>1, <3>1 DEF WorkerThrows
  <2> QED BY <1>1, <2>1, <2>2 DEF WorkerThrows, InTry
<1>2. CASE BeginClose
  <2>1. worker' \in Workers /\ WorkerShape'
    BY <1>2 DEF BeginClose, Workers
  <2> QED BY <1>2, <2>1 DEF BeginClose
<1>3. CASE Exit \/ Crash
  <2>1. worker' \in Workers /\ WorkerShape'
    <3>1. worker' = IdleWorker
      BY <1>3 DEF Exit, Crash, LoseMemory
    <3> QED BY <3>1 DEF IdleWorker, Workers, WorkerSteps
  <2> QED BY <1>3, <2>1 DEF Exit, Crash, LoseMemory
<1>4. CASE Restart
  BY <1>4 DEF Restart, Statuses, Settled
<1> QED BY <1>1, <1>2, <1>3, <1>4 DEF ProcessStep

LEMMA NextShape == ShapeInv /\ [Next]_vars => ShapeInv'
<1> SUFFICES ASSUME ShapeInv, [Next]_vars PROVE ShapeInv'
  OBVIOUS
<1>1. CASE UNCHANGED vars
  BY <1>1 DEF vars, ShapeInv, TypeOK, WorkerShape
<1>2. CASE Next
  BY <1>2, AnswerStepShape, KeyStepShape, ModelStepShape, WorkerStepShape,
     ProcessStepShape DEF Next
<1> QED BY <1>1, <1>2

(***************************************************************************)
(* Every reachable state is well typed, and the worker never acts on an    *)
(* answer or a key it does not hold.                                       *)
(***************************************************************************)
THEOREM TypeCorrect == Spec => [](TypeOK /\ WorkerShape)
<1>1. Init => ShapeInv
  BY InitShape
<1>2. ShapeInv /\ [Next]_vars => ShapeInv'
  BY NextShape
<1> QED BY <1>1, <1>2, PTL DEF Spec, ShapeInv

----------------------------------------------------------------------------
(* The inductive invariant behind KeyOutlivesItsAnswer.                    *)

LEMMA InitSafe == Init => IInv
  BY NullAssumption
     DEF Init, IInv, KeyOutlivesItsAnswer, SweepsAreSafe, KeysAreOwn, MarksAreStored,
         IdleWorker, NoKeyRow

\* Steps that admit no answer, move no answer to another key, remove or unmark no
\* key and start no deletion.
LEMMA QuietStep ==
  ASSUME ShapeInv, ShapeInv', IInv,
         keyId' = keyId,
         \A a \in Answers : status'[a] = "generating" => status[a] = "generating",
         \A k \in Keys : /\ key[k].row # "none" => key'[k].row = key[k].row
                         /\ key[k].pending => key'[k].pending
                         /\ key'[k].pending => key[k].pending,
         sweeping' \subseteq sweeping, deleting' \subseteq deleting,
         worker'.pc = "sweepDelete"
           => worker.pc = "sweepDelete" /\ worker'.key = worker.key
  PROVE  IInv'
<1> USE DEF IInv
<1>1. KeyOutlivesItsAnswer'
  BY DEF KeyOutlivesItsAnswer
<1>2. SweepsAreSafe'
  <2>1. sweeping \cup deleting \subseteq Keys
    BY DEF ShapeInv, TypeOK
  <2>2. \A k : GeneratingWith(k)' \subseteq GeneratingWith(k)
    BY DEF GeneratingWith
  <2> QED BY <2>1, <2>2 DEF SweepsAreSafe
<1>3. KeysAreOwn'
  BY DEF KeysAreOwn
<1>4. MarksAreStored'
  BY DEF MarksAreStored
<1> QED BY <1>1, <1>2, <1>3, <1>4

LEMMA AnswerStepSafe ==
  ASSUME ShapeInv, ShapeInv', IInv, NEW a \in Answers,
         AnswerRequest(a) \/ QueueStep(a) \/ TakeJob(a)
  PROVE  IInv'
<1> USE DEF ShapeInv, TypeOK
<1>1. CASE \E k \in Keys : Publish(a, k)
  <2>1. PICK k \in Keys : Publish(a, k)
    BY <1>1
  <2>2. /\ KeyUser[k] = AnswerUser[a]
        /\ status'[a] = "queued" /\ keyId'[a] = k
        /\ \A b \in Answers \ {a} : status'[b] = status[b] /\ keyId'[b] = keyId[b]
        /\ UNCHANGED <<key, sweeping, deleting, worker>>
    BY <2>1 DEF Publish, HealthyOf
  <2>3. \A j : GeneratingWith(j)' \subseteq GeneratingWith(j)
    BY <2>2 DEF GeneratingWith
  <2> QED BY <2>2, <2>3 DEF IInv, KeyOutlivesItsAnswer, SweepsAreSafe, KeysAreOwn,
                            MarksAreStored
<1>2. CASE StopAnswer(a) \/ RemoveAnswer(a)
  BY <1>2, QuietStep DEF StopAnswer, RemoveAnswer, Settle
<1>3. CASE Cancel(a)
  BY <1>3, QuietStep DEF Cancel, Workers
<1>4. CASE QueueStep(a)
  BY <1>4, QuietStep
     DEF QueueStep, AddLands, AddIsLost, EnqueueConfirmed, EnqueueFails, Settle
<1>5. CASE TakeJob(a)
  BY <1>5, QuietStep DEF TakeJob, IdleWorker
<1> QED BY <1>1, <1>2, <1>3, <1>4, <1>5 DEF AnswerRequest

LEMMA KeyStepSafe ==
  ASSUME ShapeInv, ShapeInv', IInv, NEW k \in Keys, KeyRequest(k)
  PROVE  IInv'
<1> USE DEF ShapeInv, TypeOK
<1>1. CASE CreateKey(k)
  BY <1>1, QuietStep DEF CreateKey, SetKey, IInv, MarksAreStored
<1>2. CASE ReplaceKey(k) \/ RefreshModels(k) \/ \E b \in BOOLEAN : UpdateKey(k, b)
  <2>1. \A j \in Keys : key'[j].row = key[j].row /\ key'[j].pending = key[j].pending
    <3>1. CASE ReplaceKey(k)
      BY <3>1 DEF ReplaceKey, SetKey, KeyRows
    <3>2. CASE RefreshModels(k)
      BY <3>2 DEF RefreshModels, SetKey, KeyRows
    <3>3. CASE \E b \in BOOLEAN : UpdateKey(k, b)
      BY <3>3 DEF UpdateKey, SetKey, KeyRows
    <3> QED BY <1>2, <3>1, <3>2, <3>3
  <2> QED BY <1>2, <2>1, QuietStep DEF ReplaceKey, RefreshModels, UpdateKey
<1>3. CASE DeleteKey(k)
  <2>1. /\ \A j \in Keys : key'[j].row = key[j].row
        /\ \A j \in Keys \ {k} : key'[j].pending = key[j].pending
        /\ key'[k].pending /\ key[k].row = "stored"
    BY <1>3 DEF DeleteKey, SetKey, KeyRows
  <2>2. /\ UNCHANGED <<status, keyId, worker, deleting>>
        /\ sweeping' = sweeping \cup {k}
    BY <1>3 DEF DeleteKey
  <2> QED BY <2>1, <2>2 DEF IInv, KeyOutlivesItsAnswer, SweepsAreSafe, KeysAreOwn,
                            MarksAreStored, GeneratingWith
<1>4. CASE SweepCheck(k)
  BY <1>4 DEF SweepCheck, IInv, KeyOutlivesItsAnswer, SweepsAreSafe, KeysAreOwn,
              MarksAreStored, GeneratingWith
<1>5. CASE SweepDelete(k)
  <2>1. /\ UNCHANGED <<status, keyId, worker, sweeping>>
        /\ deleting' \subseteq deleting
        /\ GeneratingWith(k) = {}
    BY <1>5 DEF SweepDelete, IInv, SweepsAreSafe
  <2>2. /\ \A j \in Keys \ {k} : key'[j] = key[j]
        /\ \/ key'[k] = key[k]
           \/ key'[k].row = "removed" /\ ~key'[k].pending
    BY <1>5 DEF SweepDelete, DeleteIfPending, RemovedKey, NoKeyRow
  <2> QED BY <2>1, <2>2 DEF IInv, KeyOutlivesItsAnswer, SweepsAreSafe, KeysAreOwn,
                            MarksAreStored, GeneratingWith
<1>6. CASE RevokeKey(k)
  <2>1. /\ UNCHANGED <<keyId, worker, sweeping, deleting>>
        /\ \A j \in Keys \ {k} : key'[j] = key[j]
        /\ key'[k].row = "removed" /\ ~key'[k].pending
    BY <1>6 DEF RevokeKey, SetKey, RemovedKey, NoKeyRow
  <2>2. \A a \in Answers : status'[a] = "generating"
                            => status[a] = "generating" /\ keyId[a] # k
    BY <1>6 DEF RevokeKey, Settle, IInv, KeysAreOwn, Active
  <2> QED BY <2>1, <2>2 DEF IInv, KeyOutlivesItsAnswer, SweepsAreSafe, KeysAreOwn,
                            MarksAreStored, GeneratingWith
<1> QED BY <1>1, <1>2, <1>3, <1>4, <1>5, <1>6 DEF KeyRequest

LEMMA ModelStepSafe ==
  ASSUME ShapeInv, ShapeInv', IInv, NEW u \in Users, EnableModel(u) \/ DisableModel(u)
  PROVE  IInv'
  BY QuietStep DEF EnableModel, DisableModel, Settle, ShapeInv, TypeOK

LEMMA WorkerStepSafe ==
  ASSUME ShapeInv, ShapeInv', IInv, WorkerProgress \/ ReceiveText \/ StreamEnds
  PROVE  IInv'
<1> USE DEF ShapeInv, TypeOK, WorkerShape, UsesKey
<1>1. CASE Admit
  <2> DEFINE a == worker.answer
  <2>1. a \in Answers /\ worker'.pc = "confirm"
    BY <1>1 DEF Admit, At, Goto, Workers
  <2>2. /\ UNCHANGED <<keyId, key, sweeping, deleting>>
        /\ \A b \in Answers \ {a} : status'[b] = status[b]
        /\ status'[a] = "generating" /\ status[a] # "generating"
             => keyId[a] \in Keys /\ Usable(keyId[a])
    BY <1>1, <2>1 DEF Admit
  <2> QED BY <2>1, <2>2 DEF IInv, KeyOutlivesItsAnswer, SweepsAreSafe, KeysAreOwn,
                            MarksAreStored, GeneratingWith, Usable
<1>2. CASE UseAnswerKey
  <2> DEFINE a == worker.answer
  <2>1. a \in Answers /\ worker.key \in Keys /\ worker'.pc # "sweepDelete"
    BY <1>2 DEF UseAnswerKey, At, Goto, Workers
  <2>2. /\ UNCHANGED <<status, key, sweeping, deleting>>
        /\ \A b \in Answers \ {a} : keyId'[b] = keyId[b]
        /\ \/ keyId'[a] = keyId[a]
           \/ /\ keyId'[a] = worker.key /\ Usable(worker.key)
              /\ KeyUser[worker.key] = AnswerUser[a]
    BY <1>2, <2>1 DEF UseAnswerKey
  <2> QED BY <2>1, <2>2 DEF IInv, KeyOutlivesItsAnswer, SweepsAreSafe, KeysAreOwn,
                            MarksAreStored, GeneratingWith, Usable
<1>3. CASE MarkKeyFailure \/ RetireModel
  <2>1. /\ UNCHANGED <<status, keyId, sweeping, deleting>>
        /\ worker'.pc # "sweepDelete"
    BY <1>3 DEF MarkKeyFailure, RetireModel, Goto, Workers
  <2>2. \A j \in Keys : key'[j].row = key[j].row /\ key'[j].pending = key[j].pending
    <3>1. CASE MarkKeyFailure
      BY <3>1 DEF MarkKeyFailure, KeyRows
    <3>2. CASE RetireModel
      BY <3>2 DEF RetireModel, KeyRows
    <3> QED BY <1>3, <3>1, <3>2
  <2> QED BY <2>1, <2>2, QuietStep
<1>4. CASE WorkerSweepCheck
  <2>1. UNCHANGED <<status, keyId, key, sweeping, deleting>>
    BY <1>4 DEF WorkerSweepCheck
  <2>2. worker'.pc = "sweepDelete" => GeneratingWith(worker'.key) = {}
    <3>1. PICK k \in worker.tried :
            IF GeneratingWith(k) = {}
            THEN worker' = [worker EXCEPT !.pc = "sweepDelete", !.key = k]
            ELSE SweepRest(worker.tried \ {k})
      BY <1>4 DEF WorkerSweepCheck
    <3>2. CASE GeneratingWith(k) = {}
      <4>1. worker'.key = k
        BY <3>1, <3>2 DEF Workers
      <4> QED BY <3>2, <4>1
    <3>3. CASE GeneratingWith(k) # {}
      <4>1. worker'.pc # "sweepDelete"
        <5>1. CASE worker.tried \ {k} = {}
          BY <3>1, <3>3, <5>1 DEF SweepRest, IdleWorker
        <5>2. CASE worker.tried \ {k} # {}
          <6>1. worker' = [worker EXCEPT !.pc = "sweep", !.tried = worker.tried \ {k}]
            BY <3>1, <3>3, <5>2 DEF SweepRest
          <6>2. worker \in Workers
            OBVIOUS
          <6> QED BY <6>1, <6>2 DEF Workers
        <5> QED BY <5>1, <5>2
      <4> QED BY <4>1
    <3> QED BY <3>2, <3>3
  <2>3. \A j : GeneratingWith(j)' = GeneratingWith(j)
    BY <2>1 DEF GeneratingWith
  <2> QED BY <2>1, <2>2, <2>3 DEF IInv, KeyOutlivesItsAnswer, SweepsAreSafe,
                                 KeysAreOwn, MarksAreStored
<1>5. CASE WorkerSweepDelete
  <2>1. /\ UNCHANGED <<status, keyId, sweeping, deleting>>
        /\ worker'.pc # "sweepDelete"
        /\ worker.key \in Keys /\ GeneratingWith(worker.key) = {}
    BY <1>5 DEF WorkerSweepDelete, SweepRest, IdleWorker, Workers, At, IInv, SweepsAreSafe
  <2>2. /\ \A j \in Keys \ {worker.key} : key'[j] = key[j]
        /\ \/ key'[worker.key] = key[worker.key]
           \/ key'[worker.key].row = "removed" /\ ~key'[worker.key].pending
    BY <1>5, <2>1 DEF WorkerSweepDelete, DeleteIfPending, RemovedKey, NoKeyRow
  <2> QED BY <2>1, <2>2 DEF IInv, KeyOutlivesItsAnswer, SweepsAreSafe, KeysAreOwn,
                            MarksAreStored, GeneratingWith
<1>6. CASE RejectAnswer \/ CompleteAnswer \/ FailAnswer
  <2>1. /\ UNCHANGED <<keyId, key, sweeping, deleting>>
        /\ worker'.pc # "sweepDelete"
    BY <1>6 DEF RejectAnswer, CompleteAnswer, FailAnswer, IdleWorker, Goto, Workers
  <2>2. \A b \in Answers : status'[b] = "generating" => status[b] = "generating"
    BY <1>6 DEF RejectAnswer, CompleteAnswer, FailAnswer, Settle
  <2> QED BY <2>1, <2>2, QuietStep
<1>7. CASE \/ ConfirmAdmission \/ Register \/ GenerationKey \/ NextGenerationKey
           \/ CheckAbort \/ CheckStatus \/ Send \/ Checkpoint \/ CatchError \/ Release
           \/ ReceiveText \/ StreamEnds
  <2>1. UNCHANGED <<status, keyId, key, sweeping, deleting>>
    BY <1>7 DEF ConfirmAdmission, Register, GenerationKey, NextGenerationKey, CheckAbort,
       CheckStatus, Send, Checkpoint, CatchError, Release, ReceiveText, StreamEnds,
       EndStream, StreamFails
  <2>2. worker'.pc # "sweepDelete"
    <3>1. CASE ConfirmAdmission \/ Register \/ CheckAbort \/ CheckStatus \/ Send
      BY <3>1 DEF ConfirmAdmission, Register, CheckAbort, CheckStatus, Send, Goto, Workers
    <3>2. CASE GenerationKey \/ NextGenerationKey
      BY <3>2 DEF GenerationKey, NextGenerationKey, TryKey, Workers
    <3>3. CASE Checkpoint \/ CatchError
      BY <3>3 DEF Checkpoint, CatchError, Goto, Workers
    <3>4. CASE Release
      BY <3>4 DEF Release, SweepRest, IdleWorker, Workers
    <3>5. CASE ReceiveText \/ StreamEnds
      BY <3>5 DEF ReceiveText, StreamEnds, EndStream, StreamFails, Goto, Workers
    <3> QED BY <1>7, <3>1, <3>2, <3>3, <3>4, <3>5
  <2> QED BY <2>1, <2>2, QuietStep
<1> QED BY <1>1, <1>2, <1>3, <1>4, <1>5, <1>6, <1>7 DEF WorkerProgress

LEMMA ProcessStepSafe ==
  ASSUME ShapeInv, ShapeInv', IInv, ProcessStep
  PROVE  IInv'
<1> USE DEF ShapeInv, TypeOK
<1>1. CASE WorkerThrows \/ BeginClose
  <2>1. UNCHANGED <<status, keyId, key, sweeping, deleting>>
    BY <1>1 DEF WorkerThrows, BeginClose
  <2>2. worker'.pc = "sweepDelete"
          => worker.pc = "sweepDelete" /\ worker'.key = worker.key
    BY <1>1 DEF WorkerThrows, BeginClose, Goto, IdleWorker, Workers
  <2> QED BY <2>1, <2>2, QuietStep
<1>2. CASE Exit \/ Crash
  <2>1. /\ UNCHANGED <<status, keyId, key>>
        /\ sweeping' = {} /\ deleting' = {} /\ worker' = IdleWorker
    BY <1>2 DEF Exit, Crash, LoseMemory
  <2> QED BY <2>1, QuietStep DEF IdleWorker
<1>3. CASE Restart
  BY <1>3, QuietStep DEF Restart
<1> QED BY <1>1, <1>2, <1>3 DEF ProcessStep

LEMMA NextSafe == ShapeInv /\ IInv /\ [Next]_vars => IInv'
<1> SUFFICES ASSUME ShapeInv, IInv, [Next]_vars PROVE IInv'
  OBVIOUS
<1>1. ShapeInv'
  BY NextShape
<1>2. CASE UNCHANGED vars
  BY <1>1, <1>2, QuietStep DEF vars
<1>3. CASE Next
  BY <1>1, <1>3, AnswerStepSafe, KeyStepSafe, ModelStepSafe, WorkerStepSafe,
     ProcessStepSafe DEF Next
<1> QED BY <1>2, <1>3

(***************************************************************************)
(* The key row of a generating answer is never removed under it: the       *)
(* unlocked read and delete of finishKeyDeletion are safe because only     *)
(* unmarked keys admit answers and the single worker sweeps while it       *)
(* admits nothing.                                                         *)
(***************************************************************************)
THEOREM KeyOutlives == Spec => []KeyOutlivesItsAnswer
<1>1. Init => ShapeInv /\ IInv
  BY InitShape, InitSafe
<1>2. ShapeInv /\ IInv /\ [Next]_vars => (ShapeInv /\ IInv)'
  BY NextShape, NextSafe
<1>3. IInv => KeyOutlivesItsAnswer
  BY DEF IInv
<1> QED BY <1>1, <1>2, <1>3, PTL DEF Spec

----------------------------------------------------------------------------
(* Every statement on an answer row is a step of the abstract life.        *)

RowStep == [Lifecycle!LifecycleNext]_status

LEMMA SettleIsAbstract ==
  ASSUME NEW ids \in SUBSET Answers, NEW outcome \in {"failed", "stopped"},
         Settle(ids, outcome)
  PROVE  RowStep
<1> DEFINE settled == {a \in ids : status[a] \in Active}
<1>1. Lifecycle!SettleRows(settled, outcome)
  BY DEF Settle, Lifecycle!SettleRows, Lifecycle!Active, Active
<1> QED BY <1>1 DEF RowStep, Lifecycle!LifecycleNext

LEMMA NextIsAbstract ==
  ASSUME ShapeInv, [Next]_vars
  PROVE  RowStep
<1> USE DEF ShapeInv, TypeOK
<1>1. CASE UNCHANGED vars
  BY <1>1 DEF vars, RowStep
<1>2. ASSUME NEW a \in Answers, AnswerRequest(a) \/ QueueStep(a) \/ TakeJob(a)
      PROVE  RowStep
  <2>1. CASE \E k \in Keys : Publish(a, k)
    <3>1. Lifecycle!PublishRow(a)
      BY <2>1 DEF Publish, Lifecycle!PublishRow, Lifecycle!ActiveOf, ActiveOf,
                  Lifecycle!Active, Active
    <3> QED BY <3>1 DEF RowStep, Lifecycle!LifecycleNext
  <2>2. CASE StopAnswer(a) \/ EnqueueFails(a)
    <3>1. Settle({a}, "stopped") \/ Settle({a}, "failed")
      BY <2>2 DEF StopAnswer, EnqueueFails
    <3> QED BY <3>1, SettleIsAbstract
  <2>3. CASE RemoveAnswer(a)
    <3>1. status[a] # "absent" /\ status' = [status EXCEPT ![a] = "removed"]
      BY <2>3 DEF RemoveAnswer
    <3>2. Lifecycle!RemoveRows({a})
      BY <3>1 DEF Lifecycle!RemoveRows, TypeOK
    <3> QED BY <3>2 DEF RowStep, Lifecycle!LifecycleNext
  <2>4. CASE Cancel(a) \/ AddLands(a) \/ AddIsLost(a) \/ EnqueueConfirmed(a) \/ TakeJob(a)
    BY <2>4 DEF Cancel, AddLands, AddIsLost, EnqueueConfirmed, TakeJob, RowStep
  <2> QED BY <1>2, <2>1, <2>2, <2>3, <2>4 DEF AnswerRequest, QueueStep
<1>3. ASSUME NEW k \in Keys, KeyRequest(k) PROVE RowStep
  <2>1. CASE RevokeKey(k)
    <3>1. \E ids \in SUBSET Answers : Settle(ids, "stopped")
      BY <2>1 DEF RevokeKey
    <3> QED BY <3>1, SettleIsAbstract
  <2>2. CASE ~RevokeKey(k)
    BY <1>3, <2>2 DEF KeyRequest, CreateKey, ReplaceKey, RefreshModels, DeleteKey,
       SweepCheck, SweepDelete, UpdateKey, RowStep
  <2> QED BY <2>1, <2>2
<1>4. ASSUME NEW u \in Users, EnableModel(u) \/ DisableModel(u) PROVE RowStep
  <2>1. CASE EnableModel(u)
    BY <2>1 DEF EnableModel, RowStep
  <2>2. CASE DisableModel(u)
    <3>1. \E ids \in SUBSET Answers : Settle(ids, "stopped")
      BY <2>2 DEF DisableModel, ActiveOf
    <3> QED BY <3>1, SettleIsAbstract
  <2> QED BY <1>4, <2>1, <2>2
<1>5. ASSUME WorkerProgress \/ ReceiveText \/ StreamEnds PROVE RowStep
  <2>1. CASE Admit
    <3>1. worker.answer \in Answers
      BY <2>1 DEF Admit, At, WorkerShape
    <3>2. Lifecycle!AdmitRow(worker.answer) \/ UNCHANGED status
      BY <2>1, <3>1 DEF Admit, Lifecycle!AdmitRow
    <3> QED BY <3>1, <3>2 DEF RowStep, Lifecycle!LifecycleNext
  <2>2. CASE CompleteAnswer
    <3>1. worker.answer \in Answers
      BY <2>2 DEF CompleteAnswer, At, WorkerShape
    <3>2. Lifecycle!CompleteRow(worker.answer) \/ UNCHANGED status
      BY <2>2, <3>1 DEF CompleteAnswer, Running, Lifecycle!CompleteRow
    <3> QED BY <3>1, <3>2 DEF RowStep, Lifecycle!LifecycleNext
  <2>3. CASE RejectAnswer \/ FailAnswer
    <3>1. worker.answer \in Answers
      BY <2>3 DEF RejectAnswer, FailAnswer, At, WorkerShape
    <3>2. Settle({worker.answer}, "failed")
      BY <2>3 DEF RejectAnswer, FailAnswer
    <3> QED BY <3>1, <3>2, SettleIsAbstract
  <2>4. CASE UNCHANGED status
    BY <2>4 DEF RowStep
  <2> QED BY <1>5, <2>1, <2>2, <2>3, <2>4
       DEF WorkerProgress, StreamEnds, ConfirmAdmission, Register, GenerationKey,
           NextGenerationKey, UseAnswerKey, CheckAbort, CheckStatus, Send, Checkpoint,
           MarkKeyFailure, RetireModel, CatchError, Release, WorkerSweepCheck,
           WorkerSweepDelete, ReceiveText, EndStream, StreamFails
<1>6. ASSUME ProcessStep PROVE RowStep
  <2>1. CASE Restart
    <3>1. Lifecycle!SettleRows({a \in Answers : status[a] = "generating"}, "failed")
      BY <2>1 DEF Restart, Lifecycle!SettleRows, Lifecycle!Active
    <3> QED BY <3>1 DEF RowStep, Lifecycle!LifecycleNext
  <2>2. CASE ~Restart
    BY <1>6, <2>2 DEF ProcessStep, WorkerThrows, BeginClose, Exit, Crash, LoseMemory,
       RowStep
  <2> QED BY <2>1, <2>2
<1> QED BY <1>1, <1>2, <1>3, <1>4, <1>5, <1>6 DEF Next

(***************************************************************************)
(* The detailed specification implements the abstract life of an answer.   *)
(***************************************************************************)
THEOREM ImplementsLifecycle == Spec => LifecycleSpec
<1>1. Init => Lifecycle!LifecycleInit
  BY DEF Init, Lifecycle!LifecycleInit
<1>2. ShapeInv /\ [Next]_vars => [Lifecycle!LifecycleNext]_status
  BY NextIsAbstract DEF RowStep
<1>3. Init => ShapeInv
  BY InitShape
<1>4. ShapeInv /\ [Next]_vars => ShapeInv'
  BY NextShape
<1> QED BY <1>1, <1>2, <1>3, <1>4, PTL
     DEF Spec, LifecycleSpec, Lifecycle!LifecycleSpec

(***************************************************************************)
(* What the abstract life alone promises: no account ever has two active   *)
(* answers.                                                                *)
(***************************************************************************)
THEOREM OneActive == Spec => []Lifecycle!OneActivePerUser
<1> USE DEF Lifecycle!OneActivePerUser, Lifecycle!Active, Lifecycle!LifecycleTypeOK,
        Lifecycle!Statuses, Lifecycle!Settled
<1> DEFINE RowInv == Lifecycle!LifecycleTypeOK /\ Lifecycle!OneActivePerUser
<1>1. Lifecycle!LifecycleInit => RowInv
  BY DEF Lifecycle!LifecycleInit
<1>2. RowInv /\ [Lifecycle!LifecycleNext]_status => RowInv'
  <2> SUFFICES ASSUME RowInv, [Lifecycle!LifecycleNext]_status PROVE RowInv'
    OBVIOUS
  <2>1. ASSUME NEW a \in Answers, Lifecycle!PublishRow(a) PROVE RowInv'
    BY <2>1 DEF Lifecycle!PublishRow, Lifecycle!ActiveOf
  <2>2. ASSUME NEW a \in Answers,
               Lifecycle!AdmitRow(a) \/ Lifecycle!CompleteRow(a)
        PROVE RowInv'
    BY <2>2 DEF Lifecycle!AdmitRow, Lifecycle!CompleteRow
  <2>3. ASSUME NEW ids \in SUBSET Answers, NEW outcome \in {"failed", "stopped"},
               Lifecycle!SettleRows(ids, outcome)
        PROVE RowInv'
    BY <2>3 DEF Lifecycle!SettleRows
  <2>4. ASSUME NEW ids \in SUBSET Answers, Lifecycle!RemoveRows(ids)
        PROVE RowInv'
    BY <2>4 DEF Lifecycle!RemoveRows
  <2>5. CASE UNCHANGED status
    BY <2>5
  <2> QED BY <2>1, <2>2, <2>3, <2>4, <2>5 DEF Lifecycle!LifecycleNext
<1> QED BY <1>1, <1>2, ImplementsLifecycle, PTL
     DEF LifecycleSpec, Lifecycle!LifecycleSpec

----------------------------------------------------------------------------
(***************************************************************************)
(* What the worker sends, and who holds a queued answer: two invariants    *)
(* that build on the ones above.                                           *)
(***************************************************************************)

\* The positions of the worker's loop before any text of the answer arrived.
BeforeText == {"idle", "admit", "confirm", "reject", "register", "chooseKey",
               "reserve", "checkAbort", "checkStatus", "send", "markFailure",
               "nextKey"}

\* Inside try the controller is registered, so a cancellation finds it.
Registered == worker.pc \in InTry => worker.answer \in controllers

\* The answer in the loop was admitted, and nobody else can complete it.
Admitted ==
  worker.pc \in InTry \cup {"register"} =>
    status[worker.answer] \in {"generating", "stopped", "failed", "removed"}

\* A stop behind the last status read is on its way, or has arrived.
StopIsNoticed ==
  worker.pc = "send" /\ status[worker.answer] = "stopped" =>
    worker.answer \in cancelling \/ worker.aborted

\* Once reserved, the key in the worker's hands is the one the row names.
KeyIsReserved ==
  worker.pc \in {"checkAbort", "checkStatus", "send"} =>
    keyId[worker.answer] = worker.key

NoTextYet == worker.pc \in BeforeText => ~worker.text

SendInv == Registered /\ Admitted /\ StopIsNoticed /\ KeyIsReserved /\ NoTextYet

\* Before the first disruption, a queued answer waits with the party that its
\* queue command says.
DriverInv ==
  disruptions = 0 =>
    /\ phase = "up"
    /\ \A a \in Answers : status[a] = "queued" =>
         IF add[a] = "landed"
         THEN \/ a \in jobs
              \/ worker.answer = a /\ worker.pc \in {"admit", "confirm", "reject"}
         ELSE a \in publishing


----------------------------------------------------------------------------
(* What the worker sends.                                                  *)

LEMMA InitSend == Init => SendInv
  BY DEF Init, SendInv, Registered, Admitted, StopIsNoticed, KeyIsReserved, NoTextYet,
         IdleWorker, InTry, BeforeText

\* Steps of the others: rows may settle or disappear under the worker, and its
\* signal may be aborted.
LEMMA OthersStep ==
  ASSUME ShapeInv, ShapeInv', SendInv,
         /\ worker'.pc = worker.pc /\ worker'.answer = worker.answer
         /\ worker'.key = worker.key /\ worker'.text = worker.text,
         worker.aborted => worker'.aborted,
         controllers' = controllers,
         \A a \in Answers : status[a] # "absent" =>
           /\ keyId'[a] = keyId[a]
           /\ status'[a] \in {status[a], "stopped", "failed", "removed"},
         worker.pc = "send" /\ status'[worker.answer] = "stopped" =>
           worker.answer \in cancelling' \/ worker'.aborted
  PROVE  SendInv'
<1> USE DEF ShapeInv, TypeOK, WorkerShape, SendInv
<1>1. CASE worker.pc = "idle"
  BY <1>1 DEF Registered, Admitted, StopIsNoticed, KeyIsReserved, NoTextYet, InTry
<1>2. CASE worker.pc # "idle"
  <2>1. worker.answer \in Answers
    BY <1>2
  <2>2. Registered' /\ NoTextYet'
    BY DEF Registered, NoTextYet
  <2>3. Admitted'
    BY <2>1 DEF Admitted
  <2>4. StopIsNoticed'
    BY DEF StopIsNoticed
  <2>5. KeyIsReserved'
    BY <2>1 DEF KeyIsReserved, Admitted, InTry
  <2> QED BY <2>2, <2>3, <2>4, <2>5
<1> QED BY <1>1, <1>2

\* A step that leaves the worker at rest.
LEMMA RestStep ==
  ASSUME worker' = IdleWorker
  PROVE  SendInv'
  BY DEF SendInv, Registered, Admitted, StopIsNoticed, KeyIsReserved, NoTextYet,
         IdleWorker, InTry, BeforeText

LEMMA RequestStepSend ==
  ASSUME ShapeInv, ShapeInv', SendInv, NEW a \in Answers, AnswerRequest(a) \/ QueueStep(a)
  PROVE  SendInv'
<1> USE DEF ShapeInv, TypeOK, WorkerShape
<1>1. CASE \E k \in Keys : Publish(a, k)
  <2>1. \A b \in Answers \ {a} : status'[b] = status[b] /\ keyId'[b] = keyId[b]
    BY <1>1 DEF Publish
  <2>2. status[a] = "absent" /\ status'[a] # "stopped"
        /\ UNCHANGED <<worker, controllers, cancelling>>
    BY <1>1 DEF Publish
  <2>3. worker.pc = "send" => worker.answer \in Answers
    OBVIOUS
  <2> QED BY <2>1, <2>2, <2>3, OthersStep DEF SendInv, StopIsNoticed
<1>2. CASE StopAnswer(a)
  BY <1>2, OthersStep DEF StopAnswer, Settle, SendInv, StopIsNoticed
<1>3. CASE Cancel(a)
  <2>1. /\ worker'.pc = worker.pc /\ worker'.answer = worker.answer
        /\ worker'.key = worker.key /\ worker'.text = worker.text
        /\ worker.aborted => worker'.aborted
        /\ worker.answer = a /\ a \in controllers => worker'.aborted
    BY <1>3 DEF Cancel, Workers
  <2>2. UNCHANGED <<status, keyId, controllers>> /\ cancelling' = cancelling \ {a}
    BY <1>3 DEF Cancel
  <2>3. worker.pc = "send" => worker.answer \in controllers
    BY DEF SendInv, Registered, InTry
  <2> QED BY <2>1, <2>2, <2>3, OthersStep DEF SendInv, StopIsNoticed
<1>4. CASE RemoveAnswer(a)
  BY <1>4, OthersStep DEF RemoveAnswer, SendInv, StopIsNoticed
<1>5. CASE QueueStep(a)
  BY <1>5, OthersStep DEF QueueStep, AddLands, AddIsLost, EnqueueConfirmed,
                          EnqueueFails, Settle, SendInv, StopIsNoticed
<1> QED BY <1>1, <1>2, <1>3, <1>4, <1>5 DEF AnswerRequest

\* Disabling a model cancels nothing, but stops only answers not yet admitted.
LEMMA OwnerStepSend ==
  ASSUME ShapeInv, ShapeInv', SendInv,
         \/ \E k \in Keys : KeyRequest(k)
         \/ \E u \in Users : EnableModel(u) \/ DisableModel(u)
  PROVE  SendInv'
<1> USE DEF ShapeInv, TypeOK, WorkerShape
<1>1. ASSUME NEW k \in Keys, RevokeKey(k)
      PROVE  SendInv'
  BY <1>1, OthersStep DEF RevokeKey, Settle, SendInv, StopIsNoticed
<1>2. ASSUME NEW u \in Users, DisableModel(u)
      PROVE  SendInv'
  BY <1>2, OthersStep DEF DisableModel, Settle, SendInv, StopIsNoticed, Admitted, InTry
<1>3. ASSUME NEW k \in Keys, KeyRequest(k), ~RevokeKey(k)
      PROVE  SendInv'
  BY <1>3, OthersStep DEF KeyRequest, CreateKey, ReplaceKey, RefreshModels, DeleteKey,
     SweepCheck, SweepDelete, UpdateKey, SendInv, StopIsNoticed
<1>4. ASSUME NEW u \in Users, EnableModel(u)
      PROVE  SendInv'
  BY <1>4, OthersStep DEF EnableModel, SendInv, StopIsNoticed
<1> QED BY <1>1, <1>2, <1>3, <1>4

LEMMA TakeJobSend ==
  ASSUME ShapeInv, SendInv, NEW a \in Answers, TakeJob(a)
  PROVE  SendInv'
  BY DEF TakeJob, SendInv, Registered, Admitted, StopIsNoticed, KeyIsReserved,
         NoTextYet, IdleWorker, InTry, BeforeText

\* Steps of the worker that only move it inside its loop, or out of it, and not
\* to the request itself.
LEMMA MoveStep ==
  ASSUME ShapeInv, SendInv,
         worker.pc \in InTry \cup {"register"},
         worker'.pc \notin {"checkAbort", "checkStatus", "send"},
         worker'.answer = worker.answer,
         worker'.pc \in InTry \cup {"register"} => status' = status,
         worker'.pc \in InTry => worker.answer \in controllers',
         worker'.pc \in BeforeText => ~worker'.text
  PROVE  SendInv'
  BY DEF SendInv, Registered, Admitted, StopIsNoticed, KeyIsReserved, NoTextYet, InTry,
         BeforeText

LEMMA AdmissionStepSend ==
  ASSUME ShapeInv, SendInv, Admit \/ ConfirmAdmission \/ RejectAnswer \/ Register
  PROVE  SendInv'
<1> USE DEF ShapeInv, TypeOK, SendInv, BeforeText, At, Goto, Workers
<1>1. CASE Admit
  BY <1>1 DEF Admit, Registered, Admitted, StopIsNoticed, KeyIsReserved, NoTextYet, InTry
<1>2. CASE ConfirmAdmission
  BY <1>2 DEF ConfirmAdmission, Running, Registered, Admitted, StopIsNoticed,
              KeyIsReserved, NoTextYet, InTry
<1>3. CASE RejectAnswer
  BY <1>3, RestStep DEF RejectAnswer
<1>4. CASE Register
  BY <1>4, MoveStep DEF Register, InTry, NoTextYet
<1> QED BY <1>1, <1>2, <1>3, <1>4

LEMMA KeyStepSend ==
  ASSUME ShapeInv, SendInv, GenerationKey \/ NextGenerationKey \/ UseAnswerKey
  PROVE  SendInv'
<1> USE DEF ShapeInv, TypeOK, WorkerShape, UsesKey, SendInv
<1>1. CASE GenerationKey \/ NextGenerationKey
  <2>1. PICK k : TryKey(k)
    BY <1>1 DEF GenerationKey, NextGenerationKey
  <2>2. /\ worker'.pc \in {"fail", "reserve"} /\ worker'.answer = worker.answer
        /\ worker'.text = worker.text
    BY <2>1 DEF TryKey, Workers
  <2>3. /\ worker.pc \in {"chooseKey", "nextKey"}
        /\ UNCHANGED <<status, controllers>>
    BY <1>1 DEF GenerationKey, NextGenerationKey, At
  <2> QED BY <2>2, <2>3, MoveStep DEF InTry, BeforeText, NoTextYet, Registered
<1>2. CASE UseAnswerKey
  <2>1. /\ worker.pc = "reserve" /\ worker.answer \in Answers
        /\ UNCHANGED <<status, controllers>>
        /\ worker' = [worker EXCEPT !.pc = worker'.pc]
        /\ worker'.pc \in {"checkAbort", "release"}
        /\ worker'.pc = "checkAbort" => keyId'[worker.answer] = worker.key
    BY <1>2 DEF UseAnswerKey, At, Goto, Workers
  <2> QED BY <2>1 DEF Registered, Admitted, StopIsNoticed, KeyIsReserved, NoTextYet,
                      Workers, InTry, BeforeText
<1> QED BY <1>1, <1>2

LEMMA CheckStepSend ==
  ASSUME ShapeInv, SendInv, CheckAbort \/ CheckStatus
  PROVE  SendInv'
  BY DEF CheckAbort, CheckStatus, Running, At, Goto, Workers, ShapeInv, TypeOK, SendInv,
         Registered, Admitted, StopIsNoticed, KeyIsReserved, NoTextYet, InTry, BeforeText

LEMMA StreamStepSend ==
  ASSUME ShapeInv, SendInv,
         \/ Send \/ ReceiveText \/ Checkpoint \/ EndStream \/ StreamFails
         \/ MarkKeyFailure \/ RetireModel \/ CompleteAnswer
  PROVE  SendInv'
<1> USE DEF ShapeInv, TypeOK, Workers, At, Goto
<1>1. CASE Send \/ Checkpoint \/ EndStream
  <2>1. CASE Send
    BY <2>1, MoveStep DEF Send, SendInv, Registered, InTry, BeforeText
  <2>2. CASE Checkpoint
    BY <2>2, MoveStep DEF Checkpoint, SendInv, Registered, InTry, BeforeText
  <2>3. CASE EndStream
    BY <2>3, MoveStep DEF EndStream, SendInv, Registered, InTry, BeforeText
  <2> QED BY <1>1, <2>1, <2>2, <2>3
<1>2. CASE ReceiveText
  BY <1>2, MoveStep DEF ReceiveText, SendInv, Registered, InTry, BeforeText
<1>3. CASE StreamFails
  BY <1>3, MoveStep DEF StreamFails, SendInv, Registered, InTry, BeforeText
<1>4. CASE MarkKeyFailure
  BY <1>4, MoveStep DEF MarkKeyFailure, SendInv, Registered, NoTextYet, InTry, BeforeText
<1>5. CASE RetireModel \/ CompleteAnswer
  BY <1>5, MoveStep DEF RetireModel, CompleteAnswer, SendInv, Registered, InTry, BeforeText
<1> QED BY <1>1, <1>2, <1>3, <1>4, <1>5

\* Behind the loop nothing the invariant speaks of is left.
Behind == {"catch", "failCaught", "release", "sweep", "sweepDelete"}

LEMMA BehindStep ==
  ASSUME worker' = IdleWorker \/ worker'.pc \in Behind
  PROVE  SendInv'
  BY DEF SendInv, Registered, Admitted, StopIsNoticed, KeyIsReserved, NoTextYet,
         IdleWorker, InTry, BeforeText, Behind

LEMMA LeaveStepSend ==
  ASSUME ShapeInv,
         CatchError \/ FailAnswer \/ Release \/ WorkerSweepCheck \/ WorkerSweepDelete
  PROVE  SendInv'
<1>1. worker' = IdleWorker \/ worker'.pc \in Behind
  BY DEF CatchError, FailAnswer, Release, WorkerSweepCheck, WorkerSweepDelete, SweepRest,
         Goto, ShapeInv, TypeOK, Workers, Behind
<1> QED BY <1>1, BehindStep

LEMMA ProcessStepSend ==
  ASSUME ShapeInv, ShapeInv', SendInv, ProcessStep
  PROVE  SendInv'
<1> USE DEF ShapeInv, TypeOK, Workers
<1>1. CASE WorkerThrows
  BY <1>1, BehindStep DEF WorkerThrows, Goto, Behind
<1>2. CASE BeginClose
  BY <1>2, OthersStep DEF BeginClose, SendInv, StopIsNoticed
<1>3. CASE Exit \/ Crash
  BY <1>3, RestStep DEF Exit, Crash, LoseMemory
<1>4. CASE Restart
  BY <1>4, OthersStep DEF Restart, WorkerShape, SendInv, StopIsNoticed
<1> QED BY <1>1, <1>2, <1>3, <1>4 DEF ProcessStep

LEMMA NextSend == ShapeInv /\ SendInv /\ [Next]_vars => SendInv'
<1> SUFFICES ASSUME ShapeInv, SendInv, [Next]_vars PROVE SendInv'
  OBVIOUS
<1>1. ShapeInv'
  BY NextShape
<1>2. CASE UNCHANGED vars
  BY <1>2 DEF vars, SendInv, Registered, Admitted, StopIsNoticed, KeyIsReserved, NoTextYet
<1>3. CASE WorkerProgress \/ ReceiveText \/ StreamEnds
  BY <1>3, AdmissionStepSend, KeyStepSend, CheckStepSend, StreamStepSend, LeaveStepSend
     DEF WorkerProgress, StreamEnds
<1>4. CASE Next /\ ~(WorkerProgress \/ ReceiveText \/ StreamEnds)
  BY <1>1, <1>4, RequestStepSend, OwnerStepSend, TakeJobSend, ProcessStepSend DEF Next
<1> QED BY <1>2, <1>3, <1>4

\* A request is sent by Send alone, at a position the invariant describes.
LEMMA SenderIsAdmitted ==
  ASSUME ShapeInv, IInv, SendInv, [Next]_vars, SendsRequest
  PROVE  /\ ~worker.aborted /\ ~worker.text
         /\ status[worker.answer] = "stopped" => worker.answer \in cancelling
         /\ \/ status[worker.answer] \in {"stopped", "failed", "removed"}
            \/ key[worker.key].row = "stored"
<1>1. Send
  <2>1. CASE UNCHANGED vars
    BY <2>1 DEF vars, SendsRequest
  <2>2. CASE WorkerProgress \/ ReceiveText \/ StreamEnds
    BY <2>2 DEF WorkerProgress, Admit, ConfirmAdmission, RejectAnswer, Register,
       GenerationKey, NextGenerationKey, UseAnswerKey, CheckAbort, CheckStatus, Checkpoint,
       MarkKeyFailure, RetireModel, CompleteAnswer, CatchError, FailAnswer, Release,
       WorkerSweepCheck, WorkerSweepDelete, ReceiveText, StreamEnds, EndStream, StreamFails,
       SendsRequest, At
  <2>3. CASE \/ \E a \in Answers : AnswerRequest(a) \/ QueueStep(a)
             \/ \E k \in Keys : KeyRequest(k)
             \/ \E u \in Users : EnableModel(u) \/ DisableModel(u)
    <3>1. worker'.pc = worker.pc
      BY <2>3 DEF AnswerRequest, QueueStep, Publish, StopAnswer, Cancel, RemoveAnswer,
         AddLands, AddIsLost, EnqueueConfirmed, EnqueueFails, KeyRequest, CreateKey,
         ReplaceKey, RefreshModels, DeleteKey, SweepCheck, SweepDelete, RevokeKey,
         UpdateKey, EnableModel, DisableModel, ShapeInv, TypeOK, Workers
    <3> QED BY <3>1 DEF SendsRequest
  <2>4. CASE ProcessStep
    <3>1. worker'.pc \in {worker.pc, "catch", "release", "idle"}
      BY <2>4 DEF ProcessStep, WorkerThrows, BeginClose, Exit, Crash, Restart, LoseMemory,
         Goto, IdleWorker, ShapeInv, TypeOK, Workers
    <3> QED BY <3>1 DEF SendsRequest
  <2>5. CASE \E a \in Answers : TakeJob(a)
    BY <2>5 DEF TakeJob, SendsRequest, At
  <2> QED BY <2>1, <2>2, <2>3, <2>4, <2>5 DEF Next
<1>2. ~worker.aborted
  BY <1>1 DEF Send, SendsRequest, Goto, At, ShapeInv, TypeOK, Workers
<1>3. /\ worker.pc = "send" /\ worker.answer \in Answers
      /\ keyId[worker.answer] = worker.key
      /\ status[worker.answer] \in {"generating", "stopped", "failed", "removed"}
  BY DEF SendsRequest, ShapeInv, WorkerShape, SendInv, KeyIsReserved, Admitted, InTry
<1> QED BY <1>2, <1>3 DEF SendInv, NoTextYet, BeforeText, StopIsNoticed, IInv,
                         KeyOutlivesItsAnswer

LEMMA SendInvariant == Spec => [](ShapeInv /\ IInv /\ SendInv)
<1>1. Init => ShapeInv /\ IInv /\ SendInv
  BY InitShape, InitSafe, InitSend
<1>2. ShapeInv /\ IInv /\ SendInv /\ [Next]_vars => (ShapeInv /\ IInv /\ SendInv)'
  BY NextShape, NextSafe, NextSend
<1> QED BY <1>1, <1>2, PTL DEF Spec

(***************************************************************************)
(* No provider request starts for an answer whose stop has returned: the   *)
(* stop either precedes the last status read, or finds a controller that   *)
(* streamText looks at.                                                    *)
(***************************************************************************)
THEOREM StopsAreNoticed == Spec => StoppedNeverSends
<1>1. ShapeInv /\ IInv /\ SendInv /\ [Next]_vars
        => [SendsRequest => \/ status[worker.answer] # "stopped"
                            \/ worker.answer \in cancelling]_vars
  BY SenderIsAdmitted
<1> QED BY <1>1, SendInvariant, PTL DEF Spec, StoppedNeverSends

(***************************************************************************)
(* The secret of a removed key is sent only while the cancellation of its  *)
(* revoked answer is under way, or for an answer that nobody cancels.      *)
(***************************************************************************)
THEOREM RemovedKeysAreNotSent == Spec => RemovedKeyNeverSends
<1>1. ShapeInv /\ IInv /\ SendInv /\ [Next]_vars
        => [SendsRequest => \/ key[worker.key].row = "stored"
                            \/ worker.answer \in cancelling
                            \/ status[worker.answer] \in {"removed", "failed"}]_vars
  BY SenderIsAdmitted
<1> QED BY <1>1, SendInvariant, PTL DEF Spec, RemovedKeyNeverSends

(***************************************************************************)
(* An answer that shows text is not sent again, after any sequence of      *)
(* credential failures and keys.                                           *)
(***************************************************************************)
THEOREM TextIsNotSentAgain == Spec => TextIsSentOnce
<1>1. ShapeInv /\ IInv /\ SendInv /\ [Next]_vars => [SendsRequest => ~worker.text]_vars
  BY SenderIsAdmitted
<1> QED BY <1>1, SendInvariant, PTL DEF Spec, TextIsSentOnce
----------------------------------------------------------------------------
(* Who holds a queued answer.                                              *)

LEMMA InitDriver == Init => DriverInv
  BY DEF Init, DriverInv

\* Steps that queue no answer, take no job and leave the worker where it is.
LEMMA CalmStep ==
  ASSUME ShapeInv, DriverInv,
         disruptions' = disruptions, phase' = phase,
         worker'.pc = worker.pc /\ worker'.answer = worker.answer,
         \A a \in Answers : status'[a] = "queued" => status[a] = "queued",
         UNCHANGED <<publishing, add, jobs>>
  PROVE  DriverInv'
  BY DEF DriverInv

LEMMA RequestStepDriver ==
  ASSUME ShapeInv, DriverInv, NEW a \in Answers, AnswerRequest(a)
  PROVE  DriverInv'
<1> USE DEF ShapeInv, TypeOK
<1>1. CASE \E k \in Keys : Publish(a, k)
  <2>1. /\ \A b \in Answers \ {a} : status'[b] = status[b] /\ add'[b] = add[b]
        /\ a \in publishing' /\ publishing \subseteq publishing' /\ add'[a] = "sent"
        /\ UNCHANGED <<jobs, worker, phase, disruptions>>
    BY <1>1 DEF Publish
  <2> QED BY <2>1 DEF DriverInv
<1>2. CASE StopAnswer(a) \/ RemoveAnswer(a)
  BY <1>2, CalmStep DEF StopAnswer, RemoveAnswer, Settle
<1>3. CASE Cancel(a)
  BY <1>3, CalmStep DEF Cancel, Workers
<1> QED BY <1>1, <1>2, <1>3 DEF AnswerRequest

\* The outcome of the command moves the answer from its request to the queue, or
\* fails it.
LEMMA QueueStepDriver ==
  ASSUME ShapeInv, DriverInv, NEW a \in Answers, QueueStep(a)
  PROVE  DriverInv'
<1> USE DEF ShapeInv, TypeOK
<1>1. CASE AddLands(a)
  BY <1>1 DEF AddLands, DriverInv
<1>2. CASE AddIsLost(a)
  BY <1>2 DEF AddIsLost, DriverInv
<1>3. CASE EnqueueConfirmed(a)
  BY <1>3 DEF EnqueueConfirmed, DriverInv
<1>4. CASE EnqueueFails(a)
  BY <1>4 DEF EnqueueFails, Settle, Active, DriverInv
<1> QED BY <1>1, <1>2, <1>3, <1>4 DEF QueueStep

LEMMA OwnerStepDriver ==
  ASSUME ShapeInv, DriverInv,
         \/ \E k \in Keys : KeyRequest(k)
         \/ \E u \in Users : EnableModel(u) \/ DisableModel(u)
  PROVE  DriverInv'
<1> USE DEF ShapeInv, TypeOK
<1>1. ASSUME NEW k \in Keys, KeyRequest(k)
      PROVE  DriverInv'
  BY <1>1, CalmStep DEF KeyRequest, CreateKey, ReplaceKey, RefreshModels, DeleteKey,
     SweepCheck, SweepDelete, RevokeKey, UpdateKey, Settle
<1>2. ASSUME NEW u \in Users, EnableModel(u) \/ DisableModel(u)
      PROVE  DriverInv'
  BY <1>2, CalmStep DEF EnableModel, DisableModel, Settle
<1> QED BY <1>1, <1>2

\* The worker hands on what it holds: to its next position, or to a status that
\* is no longer "queued".
LEMMA WorkerStepDriver ==
  ASSUME ShapeInv, DriverInv, WorkerProgress \/ ReceiveText \/ StreamEnds
  PROVE  DriverInv'
<1> USE DEF ShapeInv, TypeOK, WorkerShape, Workers
<1>1. CASE Admit
  BY <1>1 DEF Admit, At, Goto, DriverInv
<1>2. CASE ConfirmAdmission
  BY <1>2 DEF ConfirmAdmission, Running, At, Goto, DriverInv
<1>3. CASE RejectAnswer
  BY <1>3 DEF RejectAnswer, Settle, Active, At, DriverInv
<1>4. CASE ~(Admit \/ ConfirmAdmission \/ RejectAnswer)
  <2>1. worker.pc \notin {"admit", "confirm", "reject"}
    BY <1>4 DEF WorkerProgress, Register, GenerationKey, NextGenerationKey, UseAnswerKey,
       CheckAbort, CheckStatus, Send, Checkpoint, MarkKeyFailure, RetireModel,
       CompleteAnswer, CatchError, FailAnswer, Release, WorkerSweepCheck,
       WorkerSweepDelete, ReceiveText, StreamEnds, EndStream, StreamFails, At
  <2>2. UNCHANGED <<publishing, add, jobs, phase, disruptions>>
    BY <1>4 DEF WorkerProgress, Register, GenerationKey, NextGenerationKey, UseAnswerKey,
       CheckAbort, CheckStatus, Send, Checkpoint, MarkKeyFailure, RetireModel,
       CompleteAnswer, CatchError, FailAnswer, Release, WorkerSweepCheck,
       WorkerSweepDelete, ReceiveText, StreamEnds, EndStream, StreamFails
  <2>3. \A a \in Answers : status'[a] = "queued" => status[a] = "queued"
    BY <1>4 DEF WorkerProgress, Register, GenerationKey, NextGenerationKey, UseAnswerKey,
       CheckAbort, CheckStatus, Send, Checkpoint, MarkKeyFailure, RetireModel,
       CompleteAnswer, CatchError, FailAnswer, Release, WorkerSweepCheck,
       WorkerSweepDelete, ReceiveText, StreamEnds, EndStream, StreamFails, Settle
  <2> QED BY <2>1, <2>2, <2>3 DEF DriverInv
<1> QED BY <1>1, <1>2, <1>3, <1>4

LEMMA TakeJobDriver ==
  ASSUME ShapeInv, DriverInv, NEW a \in Answers, TakeJob(a)
  PROVE  DriverInv'
  BY DEF TakeJob, IdleWorker, At, DriverInv, ShapeInv, TypeOK

\* Whatever happens to the process is a disruption, or follows one.
LEMMA ProcessStepDriver ==
  ASSUME ShapeInv, DriverInv, ProcessStep
  PROVE  DriverInv'
<1>1. disruptions = 0 => disruptions' # 0
  BY BoundAssumption DEF ProcessStep, WorkerThrows, BeginClose, Exit, Crash, Restart, Disrupt,
     DriverInv, ShapeInv, TypeOK
<1>2. disruptions # 0 => disruptions' # 0
  BY BoundAssumption DEF ProcessStep, WorkerThrows, BeginClose, Exit, Crash, Restart, Disrupt,
     ShapeInv, TypeOK
<1> QED BY <1>1, <1>2 DEF DriverInv

LEMMA NextDriver == ShapeInv /\ DriverInv /\ [Next]_vars => DriverInv'
<1> SUFFICES ASSUME ShapeInv, DriverInv, [Next]_vars PROVE DriverInv'
  OBVIOUS
<1>1. CASE UNCHANGED vars
  BY <1>1, CalmStep DEF vars
<1>2. CASE Next
  BY <1>2, RequestStepDriver, QueueStepDriver, OwnerStepDriver, WorkerStepDriver,
     TakeJobDriver, ProcessStepDriver DEF Next
<1> QED BY <1>1, <1>2

(***************************************************************************)
(* Until something crashes, throws or shuts down, no queued answer is      *)
(* lost: not when the add command is lost, nor when it lands after its     *)
(* request gave up.                                                        *)
(***************************************************************************)
THEOREM QueuedIsHeld == Spec => []QueuedHasDriver
<1>1. Init => ShapeInv /\ DriverInv
  BY InitShape, InitDriver
<1>2. ShapeInv /\ DriverInv /\ [Next]_vars => (ShapeInv /\ DriverInv)'
  BY NextShape, NextDriver
<1>3. DriverInv => QueuedHasDriver
  BY DEF DriverInv, QueuedHasDriver, HasDriver
<1> QED BY <1>1, <1>2, <1>3, PTL DEF Spec
=============================================================================
