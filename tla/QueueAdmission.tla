--------------------------- MODULE QueueAdmission ---------------------------
(***************************************************************************)
(* QueueService.runWithPendingCapacity: producers of several instances     *)
(* count the pending jobs and publish under one lock in Redis, which       *)
(* expires.  A call gives its caller an answer within the operation        *)
(* timeout, but what it has begun goes on.                                 *)
(*                                                                         *)
(* Redis and the operation are external: a command may fail or hang, also  *)
(* after it was executed, and an instance that dies is one whose calls     *)
(* hang.  Timers and the expiry are punctual to a tick.                    *)
(***************************************************************************)
EXTENDS Naturals

CONSTANTS Calls,             \* calls of runWithPendingCapacity, one each
          NoCall,
          Capacity,          \* maximumPendingJobs
          RequiredSlots,     \* the jobs each call announces
          OperationTimeout,  \* QUEUE_OPERATION_TIMEOUT_MS, in ticks
          LockTtl,           \* QUEUE_ADMISSION_LOCK_TTL_MS
          AdmissionWait      \* QUEUE_ADMISSION_WAIT_MS

ASSUME CallAssumption == NoCall \notin Calls
ASSUME AdmissionBounds ==
  /\ Capacity \in Nat \ {0}
  /\ RequiredSlots \in [Calls -> Nat \ {0}]
  /\ AdmissionWait \in Nat /\ OperationTimeout \in Nat /\ LockTtl \in Nat
  /\ AdmissionWait <= OperationTimeout /\ OperationTimeout < LockTtl

VARIABLES
  lock,     \* the call whose token the lock key stores
  lockAge,
  call,     \* its age counts until its caller has an answer
  pending,  \* waiting, active, delayed ... jobs of the queue
  late      \* some job was published after its caller had its answer

vars == <<lock, lockAge, call, pending, late>>

NewCall == [pc |-> "new", open |-> FALSE, age |-> 0, published |-> 0,
            outcome |-> "none", told |-> "nothing"]

Init ==
  /\ lock = NoCall /\ lockAge = 0
  /\ call = [c \in Calls |-> NewCall]
  /\ pending = 0
  /\ late = FALSE

-----------------------------------------------------------------------------
\* A call that can never fit is refused before it begins.
Start(c) ==
  /\ call[c].pc = "new"
  /\ RequiredSlots[c] <= Capacity
  /\ call' = [call EXCEPT ![c].pc = "acquire", ![c].open = TRUE]
  /\ UNCHANGED <<lock, lockAge, pending, late>>

\* The operation settles: a caller that still waits hears of it.
Settled(c, outcome) ==
  [NewCall EXCEPT !.pc = "over", !.told = IF call[c].open THEN outcome ELSE "unknown"]

TakeLock(c) ==
  /\ call[c].pc = "acquire"
  /\ lock = NoCall
  /\ lock' = c /\ lockAge' = 0
  /\ call' = [call EXCEPT ![c].pc = "count"]
  /\ UNCHANGED <<pending, late>>

\* SET NX was executed, its reply lost: nobody will release the lock.
LockReplyLost(c) ==
  /\ call[c].pc = "acquire"
  /\ lock = NoCall
  /\ lock' = c /\ lockAge' = 0
  /\ call' = [call EXCEPT ![c] = Settled(c, "unavailable")]
  /\ UNCHANGED <<pending, late>>

\* Another call has the lock: retried every 25 ms until the wait is over.
LockIsTaken(c) ==
  /\ call[c].pc = "acquire"
  /\ lock # NoCall
  /\ call' = [call EXCEPT ![c].pc = "retry"]
  /\ UNCHANGED <<lock, lockAge, pending, late>>

WaitIsOver(c) == call[c].open => call[c].age >= AdmissionWait

Retry(c) ==
  /\ call[c].pc = "retry"
  /\ call' = [call EXCEPT ![c] = IF WaitIsOver(c) THEN Settled(c, "busy")
                                                 ELSE [@ EXCEPT !.pc = "acquire"]]
  /\ UNCHANGED <<lock, lockAge, pending, late>>

\* finally releases the lock before the outcome is told.
Release(c, outcome, published) ==
  call' = [call EXCEPT ![c] = [@ EXCEPT !.pc = "release", !.outcome = outcome,
                                        !.published = published]]

Count(c) ==
  /\ call[c].pc = "count"
  /\ IF pending + RequiredSlots[c] > Capacity
     THEN Release(c, "exhausted", 0)
     ELSE call' = [call EXCEPT ![c].pc = "publish"]
  /\ UNCHANGED <<lock, lockAge, pending, late>>

\* The operation adds the jobs it announced, one by one.  It may fail after
\* any of them, also after one that was added although its reply is lost.
Publish(c) ==
  LET published == call[c].published + 1 IN
  /\ call[c].pc = "publish"
  /\ pending' = pending + 1
  /\ late' = (late \/ ~call[c].open)
  /\ \/ /\ published < RequiredSlots[c]
        /\ call' = [call EXCEPT ![c].published = published]
     \/ /\ published = RequiredSlots[c]
        /\ Release(c, "confirmed", published)
     \/ Release(c, "unavailable", published)
  /\ UNCHANGED <<lock, lockAge>>

OperationFails(c) ==
  /\ \/ /\ call[c].pc = "acquire"
        /\ call' = [call EXCEPT ![c] = Settled(c, "unavailable")]
     \/ /\ call[c].pc \in {"count", "publish"}
        /\ Release(c, "unavailable", call[c].published)
  /\ UNCHANGED <<lock, lockAge, pending, late>>

ReleaseLock_AnyToken(c) ==
  /\ call[c].pc = "release"
  /\ lock' \in {NoCall, lock}
  /\ lockAge' = IF lock' = lock THEN lockAge ELSE 0
  /\ call' = [call EXCEPT ![c] = Settled(c, call[c].outcome)]
  /\ UNCHANGED <<pending, late>>

ReleaseLock_FailureSurfaces(c) ==
  /\ call[c].pc = "release"
  /\ \/ /\ lock' = IF lock = c THEN NoCall ELSE lock
        /\ call' = [call EXCEPT ![c] = Settled(c, call[c].outcome)]
     \/ /\ lock' = lock
        /\ call' = [call EXCEPT ![c] = Settled(c, "unavailable")]
  /\ lockAge' = IF lock' = lock THEN lockAge ELSE 0
  /\ UNCHANGED <<pending, late>>

\* The script deletes the lock only if it still stores the call's token.  A
\* release that fails is logged, and the outcome stands.
ReleaseLock(c) ==
  /\ call[c].pc = "release"
  /\ lock' \in {IF lock = c THEN NoCall ELSE lock, lock}
  /\ lockAge' = IF lock' = lock THEN lockAge ELSE 0
  /\ call' = [call EXCEPT ![c] = Settled(c, call[c].outcome)]
  /\ UNCHANGED <<pending, late>>

\* perform answers its caller; the operation does not hear of it.
CallTimesOut(c) ==
  /\ call[c].open
  /\ call[c].age = OperationTimeout
  /\ call' = [call EXCEPT ![c].open = FALSE, ![c].age = 0, ![c].told = "unknown"]
  /\ UNCHANGED <<lock, lockAge, pending, late>>

LockExpires_Never ==
  /\ lock # NoCall /\ lockAge = LockTtl
  /\ UNCHANGED vars

\* SET ... PX: Redis expires the key.
LockExpires ==
  /\ lock # NoCall /\ lockAge = LockTtl
  /\ lock' = NoCall /\ lockAge' = 0
  /\ UNCHANGED <<call, pending, late>>

\* A worker finishes a job, or removes it after its last attempt.
JobEnds ==
  /\ pending > 0
  /\ pending' = pending - 1
  /\ UNCHANGED <<lock, lockAge, call, late>>

Tick ==
  /\ lock # NoCall => lockAge < LockTtl
  /\ \A c \in Calls : call[c].open => call[c].age < OperationTimeout
  /\ lock # NoCall \/ \E c \in Calls : call[c].open
  /\ lockAge' = IF lock = NoCall THEN lockAge ELSE lockAge + 1
  /\ call' = [c \in Calls |-> IF call[c].open THEN [call[c] EXCEPT !.age = @ + 1] ELSE call[c]]
  /\ UNCHANGED <<lock, pending, late>>

-----------------------------------------------------------------------------
Step(c) ==
  \/ Start(c) \/ TakeLock(c) \/ LockReplyLost(c) \/ LockIsTaken(c) \/ Retry(c)
  \/ Count(c) \/ Publish(c) \/ OperationFails(c) \/ ReleaseLock(c)
  \/ CallTimesOut(c)

Next == (\E c \in Calls : Step(c)) \/ LockExpires \/ JobEnds \/ Tick

Spec == Init /\ [][Next]_vars

\* Time passes; timers and Redis's expiry are punctual.  Commands may hang.
FairSpec ==
  /\ Spec
  /\ WF_vars(Tick) /\ WF_vars(LockExpires) /\ WF_vars(\E c \in Calls : CallTimesOut(c))

-----------------------------------------------------------------------------
CallType ==
  [pc : {"new", "acquire", "retry", "count", "publish", "release", "over"}, open : BOOLEAN,
   age : 0..OperationTimeout, published : Nat,
   outcome : {"none", "confirmed", "exhausted", "unavailable"},
   told : {"nothing", "confirmed", "exhausted", "unavailable", "busy", "unknown"}]

TypeOK ==
  /\ lock \in Calls \cup {NoCall} /\ lockAge \in 0..LockTtl
  /\ call \in [Calls -> CallType]
  /\ pending \in Nat /\ late \in BOOLEAN

\* Counted admissions never exceed the capacity, across replies that are
\* lost, locks nobody releases and late releases of another call's lock, as
\* long as no operation publishes after its caller had the answer that its
\* outcome is unknown (perform does not cancel what it runs).
CapacityHolds == ~late => pending <= Capacity

\* A refused caller may repeat the call: none of its jobs was published or
\* ever will be.  A confirmed one has all of them, and a confirmed enqueue is
\* never reported as a failure (releaseAdmissionLock's comment).
OutcomeIsHonest ==
  [][\A c \in Calls : call[c].told = "nothing" =>
       /\ call'[c].told \in {"busy", "exhausted"} =>
            call[c].published = 0 /\ call'[c].pc = "over"
       /\ call'[c].told = "confirmed" => call[c].published = RequiredSlots[c]
       /\ call'[c].told = "unavailable" => call[c].outcome # "confirmed"]_vars

\* Admission is never blocked for good: the lock leaves its holder, also one
\* that hangs, lost the reply or failed to release it.
LockComesFree == \A c \in Calls : lock = c ~> lock # c
=============================================================================
