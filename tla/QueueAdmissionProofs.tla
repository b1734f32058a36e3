------------------------ MODULE QueueAdmissionProofs ------------------------
(***************************************************************************)
(* That bounded admission keeps its bound and tells the truth, for any     *)
(* number of calls, any capacity and any timeouts of which the operation   *)
(* timeout is below the lifetime of the lock.                              *)
(***************************************************************************)
EXTENDS QueueAdmission, TLAPS

(***************************************************************************)
(* What a call has published and will report, by the step it is at.        *)
(***************************************************************************)
CallInv(c) ==
  /\ call[c].pc \in {"new", "acquire", "retry", "count"} => call[c].published = 0
  /\ call[c].pc = "publish" => call[c].published < RequiredSlots[c]
  /\ call[c].pc # "release" <=> call[c].outcome = "none"
  /\ call[c].outcome = "exhausted" => call[c].published = 0
  /\ call[c].outcome = "confirmed" => call[c].published = RequiredSlots[c]

(***************************************************************************)
(* A call whose caller still waits has the lock while it counts and        *)
(* publishes: the lock was taken after the call began, so it is younger.   *)
(***************************************************************************)
HoldsLock(c) ==
  call[c].open /\ call[c].pc \in {"count", "publish"} =>
    lock = c /\ lockAge <= call[c].age

(***************************************************************************)
(* The jobs that are there, and those the holder has counted but not yet   *)
(* published, fit together.                                                *)
(***************************************************************************)
RoomIsReserved(c) ==
  call[c].open /\ call[c].pc = "publish" =>
    pending + RequiredSlots[c] <= Capacity + call[c].published

Fits == ~late => pending <= Capacity /\ \A c \in Calls : RoomIsReserved(c)

QInv ==
  /\ TypeOK
  /\ \A c \in Calls : CallInv(c) /\ HoldsLock(c)
  /\ Fits

-----------------------------------------------------------------------------
LEMMA Bounds ==
  /\ Capacity \in Nat /\ OperationTimeout \in Nat /\ LockTtl \in Nat
  /\ OperationTimeout < LockTtl
  /\ 0 \in 0..LockTtl /\ 0 \in 0..OperationTimeout
  /\ \A c \in Calls : RequiredSlots[c] \in Nat /\ RequiredSlots[c] > 0
  BY AdmissionBounds

LEMMA NewCallType == NewCall \in CallType
  BY Bounds DEF NewCall, CallType

LEMMA InitIsGood == Init => QInv
<1> SUFFICES ASSUME Init PROVE QInv
  OBVIOUS
<1>1. TypeOK
  <2>1. call \in [Calls -> CallType]
    BY NewCallType DEF Init
  <2> QED BY <2>1, Bounds DEF Init, TypeOK
<1>2. \A c \in Calls : CallInv(c) /\ HoldsLock(c) /\ RoomIsReserved(c)
  BY DEF Init, CallInv, HoldsLock, RoomIsReserved, NewCall
<1> QED BY <1>1, <1>2, Bounds DEF Init, QInv, Fits

(***************************************************************************)
(* A step that gives call c the new state x and leaves Redis alone keeps   *)
(* the invariant if x is a good state of c.                                *)
(***************************************************************************)
LEMMA CallStep ==
  ASSUME QInv, NEW c \in Calls, NEW x \in CallType,
         call' = [call EXCEPT ![c] = x],
         CallInv(c)', HoldsLock(c)', UNCHANGED <<lock, lockAge, pending, late>>,
         ~late => RoomIsReserved(c)'
  PROVE  QInv'
<1>1. TypeOK'
  BY DEF QInv, TypeOK
<1>2. \A d \in Calls \ {c} : CallInv(d)' /\ HoldsLock(d)'
  BY DEF QInv, TypeOK, CallInv, HoldsLock
<1>3. Fits'
  BY DEF QInv, TypeOK, Fits, RoomIsReserved
<1> QED BY <1>1, <1>2, <1>3 DEF QInv

-----------------------------------------------------------------------------
(* The steps that leave Redis alone. *)

LEMMA SettledType ==
  ASSUME NEW c \in Calls, NEW outcome \in {"confirmed", "exhausted", "unavailable", "busy"}
  PROVE  Settled(c, outcome) \in CallType
  BY Bounds DEF Settled, NewCall, CallType

\* A settled call has no obligations left.
LEMMA SettledIsGood ==
  ASSUME QInv, NEW c \in Calls,
         NEW outcome \in {"confirmed", "exhausted", "unavailable", "busy"},
         call' = [call EXCEPT ![c] = Settled(c, outcome)]
  PROVE  CallInv(c)' /\ HoldsLock(c)' /\ RoomIsReserved(c)'
  BY DEF QInv, TypeOK, Settled, NewCall, CallInv, HoldsLock, RoomIsReserved

LEMMA SettledStep ==
  ASSUME QInv, NEW c \in Calls,
         NEW outcome \in {"confirmed", "exhausted", "unavailable", "busy"},
         call' = [call EXCEPT ![c] = Settled(c, outcome)],
         UNCHANGED <<lock, lockAge, pending, late>>
  PROVE  QInv'
  BY SettledType, SettledIsGood, CallStep

LEMMA StartKeeps == ASSUME QInv, NEW c \in Calls, Start(c) PROVE QInv'
<1> DEFINE x == [call[c] EXCEPT !.pc = "acquire", !.open = TRUE]
<1>1. x \in CallType /\ call' = [call EXCEPT ![c] = x]
  BY DEF QInv, TypeOK, CallType, Start
<1>2. CallInv(c)' /\ HoldsLock(c)' /\ RoomIsReserved(c)'
  BY <1>1 DEF QInv, TypeOK, CallType, Start, CallInv, HoldsLock, RoomIsReserved
<1> HIDE DEF x
<1> QED BY <1>1, <1>2, CallStep DEF Start

LEMMA LockIsTakenKeeps == ASSUME QInv, NEW c \in Calls, LockIsTaken(c) PROVE QInv'
<1> DEFINE x == [call[c] EXCEPT !.pc = "retry"]
<1>1. x \in CallType /\ call' = [call EXCEPT ![c] = x]
  BY DEF QInv, TypeOK, CallType, LockIsTaken
<1>2. CallInv(c)' /\ HoldsLock(c)' /\ RoomIsReserved(c)'
  BY <1>1 DEF QInv, TypeOK, CallType, LockIsTaken, CallInv, HoldsLock, RoomIsReserved
<1> HIDE DEF x
<1> QED BY <1>1, <1>2, CallStep DEF LockIsTaken

LEMMA RetryKeeps == ASSUME QInv, NEW c \in Calls, Retry(c) PROVE QInv'
<1>1. CASE WaitIsOver(c)
  BY <1>1, SettledStep DEF Retry
<1>2. CASE ~WaitIsOver(c)
  <2> DEFINE x == [call[c] EXCEPT !.pc = "acquire"]
  <2>1. x \in CallType /\ call' = [call EXCEPT ![c] = x]
    BY <1>2 DEF QInv, TypeOK, CallType, Retry
  <2>2. CallInv(c)' /\ HoldsLock(c)' /\ RoomIsReserved(c)'
    BY <2>1 DEF QInv, TypeOK, CallType, Retry, CallInv, HoldsLock, RoomIsReserved
  <2> HIDE DEF x
  <2> QED BY <2>1, <2>2, CallStep DEF Retry
<1> QED BY <1>1, <1>2

\* Whatever ends the count or the publication, no job is published any more.
LEMMA ReleaseStep ==
  ASSUME QInv, NEW c \in Calls, NEW outcome \in {"exhausted", "confirmed", "unavailable"},
         NEW published \in Nat, Release(c, outcome, published),
         outcome = "exhausted" => published = 0,
         outcome = "confirmed" => published = RequiredSlots[c]
  PROVE  \E x \in CallType : /\ call' = [call EXCEPT ![c] = x]
                             /\ CallInv(c)' /\ HoldsLock(c)' /\ RoomIsReserved(c)'
<1> DEFINE x == [call[c] EXCEPT !.pc = "release", !.outcome = outcome, !.published = published]
<1>1. x \in CallType /\ call' = [call EXCEPT ![c] = x]
  BY DEF QInv, TypeOK, CallType, Release
<1>2. CallInv(c)' /\ HoldsLock(c)' /\ RoomIsReserved(c)'
  BY <1>1 DEF QInv, TypeOK, CallType, CallInv, HoldsLock, RoomIsReserved
<1> QED BY <1>1, <1>2

LEMMA CountKeeps == ASSUME QInv, NEW c \in Calls, Count(c) PROVE QInv'
<1>1. CASE pending + RequiredSlots[c] > Capacity
  <2>1. Release(c, "exhausted", 0)
    BY <1>1 DEF Count
  <2> QED BY <2>1, ReleaseStep, CallStep DEF Count
<1>2. CASE ~(pending + RequiredSlots[c] > Capacity)
  <2> DEFINE x == [call[c] EXCEPT !.pc = "publish"]
  <2>1. x \in CallType /\ call' = [call EXCEPT ![c] = x]
    BY <1>2 DEF QInv, TypeOK, CallType, Count
  <2>2. CallInv(c)' /\ HoldsLock(c)' /\ RoomIsReserved(c)'
    BY <1>2, <2>1, Bounds
       DEF QInv, TypeOK, CallType, Count, CallInv, HoldsLock, RoomIsReserved
  <2> HIDE DEF x
  <2> QED BY <2>1, <2>2, CallStep DEF Count
<1> QED BY <1>1, <1>2

LEMMA OperationFailsKeeps == ASSUME QInv, NEW c \in Calls, OperationFails(c) PROVE QInv'
<1>1. CASE call' = [call EXCEPT ![c] = Settled(c, "unavailable")]
  BY <1>1, SettledStep DEF OperationFails
<1>2. CASE Release(c, "unavailable", call[c].published)
  <2>1. call[c].published \in Nat
    BY DEF QInv, TypeOK, CallType
  <2> QED BY <1>2, <2>1, ReleaseStep, CallStep DEF OperationFails
<1> QED BY <1>1, <1>2 DEF OperationFails

LEMMA CallTimesOutKeeps == ASSUME QInv, NEW c \in Calls, CallTimesOut(c) PROVE QInv'
<1> DEFINE x == [call[c] EXCEPT !.open = FALSE, !.age = 0, !.told = "unknown"]
<1>1. x \in CallType /\ call' = [call EXCEPT ![c] = x]
  BY Bounds DEF QInv, TypeOK, CallType, CallTimesOut
<1>2. CallInv(c)' /\ HoldsLock(c)' /\ RoomIsReserved(c)'
  BY <1>1 DEF QInv, TypeOK, CallType, CallTimesOut, CallInv, HoldsLock, RoomIsReserved
<1> HIDE DEF x
<1> QED BY <1>1, <1>2, CallStep DEF CallTimesOut

-----------------------------------------------------------------------------
(* The steps that move the lock. *)

(***************************************************************************)
(* The lock may go to or from call c, and so may its age, if no other call *)
(* counts or publishes on the strength of it.                              *)
(***************************************************************************)
LEMMA LockStep ==
  ASSUME QInv, NEW c \in Calls, NEW x \in CallType,
         call' = [call EXCEPT ![c] = x],
         lock' \in Calls \cup {NoCall}, lockAge' \in 0..LockTtl,
         lock \in {c, NoCall} \/ UNCHANGED <<lock, lockAge>>,
         CallInv(c)', HoldsLock(c)', RoomIsReserved(c)', UNCHANGED <<pending, late>>
  PROVE  QInv'
<1>1. TypeOK'
  BY DEF QInv, TypeOK
<1>2. \A d \in Calls \ {c} : CallInv(d)' /\ HoldsLock(d)'
  BY CallAssumption DEF QInv, TypeOK, CallInv, HoldsLock
<1>3. Fits'
  BY DEF QInv, TypeOK, Fits, RoomIsReserved
<1> QED BY <1>1, <1>2, <1>3 DEF QInv

LEMMA TakeLockKeeps == ASSUME QInv, NEW c \in Calls, TakeLock(c) PROVE QInv'
<1> DEFINE x == [call[c] EXCEPT !.pc = "count"]
<1>1. x \in CallType /\ call' = [call EXCEPT ![c] = x]
  BY DEF QInv, TypeOK, CallType, TakeLock
<1>2. CallInv(c)' /\ HoldsLock(c)' /\ RoomIsReserved(c)'
  BY <1>1 DEF QInv, TypeOK, CallType, TakeLock, CallInv, HoldsLock, RoomIsReserved
<1>3. lock = NoCall /\ lock' \in Calls /\ lockAge' \in 0..LockTtl
  BY Bounds DEF TakeLock
<1> HIDE DEF x
<1> QED BY <1>1, <1>2, <1>3, LockStep DEF TakeLock

LEMMA LockReplyLostKeeps == ASSUME QInv, NEW c \in Calls, LockReplyLost(c) PROVE QInv'
<1>1. lock = NoCall /\ lock' \in Calls /\ lockAge' \in 0..LockTtl
  BY Bounds DEF LockReplyLost
<1>2. CallInv(c)' /\ HoldsLock(c)' /\ RoomIsReserved(c)'
  BY SettledIsGood DEF LockReplyLost
<1> QED BY <1>1, <1>2, SettledType, LockStep DEF LockReplyLost

LEMMA ReleaseLockKeeps == ASSUME QInv, NEW c \in Calls, ReleaseLock(c) PROVE QInv'
<1>1. call[c].outcome \in {"confirmed", "exhausted", "unavailable"}
  BY DEF QInv, TypeOK, CallType, CallInv, ReleaseLock
<1>2. Settled(c, call[c].outcome) \in CallType
  BY <1>1, SettledType
<1>3. CallInv(c)' /\ HoldsLock(c)' /\ RoomIsReserved(c)'
  BY DEF ReleaseLock, QInv, TypeOK, Settled, NewCall, CallInv, HoldsLock, RoomIsReserved
<1>4. lock' \in Calls \cup {NoCall} /\ lockAge' \in 0..LockTtl
  BY Bounds DEF ReleaseLock, QInv, TypeOK
<1>5. lock = c \/ UNCHANGED <<lock, lockAge>>
  BY DEF ReleaseLock
<1> QED BY <1>2, <1>3, <1>4, <1>5, LockStep DEF ReleaseLock

\* An expired lock is older than any caller waits.
LEMMA LockExpiresKeeps == ASSUME QInv, LockExpires PROVE QInv'
<1>1. TypeOK'
  BY Bounds DEF QInv, TypeOK, LockExpires
<1>2. ASSUME NEW c \in Calls PROVE CallInv(c)' /\ HoldsLock(c)'
  <2>1. call[c].age \in Nat /\ call[c].age < lockAge
    BY Bounds DEF QInv, TypeOK, CallType, LockExpires
  <2> QED BY <2>1, Bounds DEF QInv, TypeOK, CallInv, HoldsLock, LockExpires
<1>3. Fits'
  BY DEF QInv, TypeOK, Fits, RoomIsReserved, LockExpires
<1> QED BY <1>1, <1>2, <1>3 DEF QInv

-----------------------------------------------------------------------------
(* The steps that change the queue, and time. *)

LEMMA PublishType ==
  ASSUME QInv, NEW c \in Calls, Publish(c)
  PROVE  \E x \in CallType :
           /\ call' = [call EXCEPT ![c] = x]
           /\ CallInv(c)' /\ x.open = call[c].open /\ x.age = call[c].age
           /\ x.published = call[c].published + 1 /\ x.pc \in {"publish", "release"}
<1> DEFINE published == call[c].published + 1
<1>0. published \in Nat
  BY DEF QInv, TypeOK, CallType
<1>1. CASE published < RequiredSlots[c] /\ call' = [call EXCEPT ![c].published = published]
  <2> DEFINE x == [call[c] EXCEPT !.published = published]
  <2>1. x \in CallType /\ call' = [call EXCEPT ![c] = x]
    BY <1>0, <1>1 DEF QInv, TypeOK, CallType
  <2>2. CallInv(c)'
    BY <1>0, <1>1, <2>1 DEF QInv, TypeOK, CallType, CallInv, Publish
  <2> QED BY <2>1, <2>2 DEF Publish, QInv, TypeOK, CallType
<1>2. ASSUME NEW outcome \in {"confirmed", "unavailable"}, Release(c, outcome, published),
             outcome = "confirmed" => published = RequiredSlots[c]
      PROVE  \E x \in CallType :
               /\ call' = [call EXCEPT ![c] = x]
               /\ CallInv(c)' /\ x.open = call[c].open /\ x.age = call[c].age
               /\ x.published = published /\ x.pc \in {"publish", "release"}
  <2> DEFINE x == [call[c] EXCEPT !.pc = "release", !.outcome = outcome, !.published = published]
  <2>1. x \in CallType /\ call' = [call EXCEPT ![c] = x]
    BY <1>0, <1>2 DEF QInv, TypeOK, CallType, Release
  <2>2. CallInv(c)'
    BY <1>0, <1>2, <2>1 DEF QInv, TypeOK, CallType, CallInv
  <2> QED BY <2>1, <2>2 DEF QInv, TypeOK, CallType
<1> QED BY <1>1, <1>2 DEF Publish

LEMMA PublishKeeps == ASSUME QInv, NEW c \in Calls, Publish(c) PROVE QInv'
<1>1. PICK x \in CallType :
        /\ call' = [call EXCEPT ![c] = x]
        /\ CallInv(c)' /\ x.open = call[c].open /\ x.age = call[c].age
        /\ x.published = call[c].published + 1 /\ x.pc \in {"publish", "release"}
  BY PublishType
<1>2. TypeOK'
  BY <1>1 DEF QInv, TypeOK, CallType, Publish
<1>3. ASSUME NEW d \in Calls PROVE CallInv(d)' /\ HoldsLock(d)'
  BY <1>1 DEF QInv, TypeOK, CallInv, HoldsLock, Publish
<1>4. Fits'
  <2> SUFFICES ASSUME ~late' PROVE pending' <= Capacity /\ \A d \in Calls : RoomIsReserved(d)'
    BY DEF Fits
  <2>1. ~late /\ call[c].open /\ call[c].pc = "publish"
    BY DEF Publish, QInv, TypeOK, CallType
  <2>2. RoomIsReserved(c) /\ call[c].published < RequiredSlots[c] /\ lock = c
    BY <2>1 DEF QInv, Fits, CallInv, HoldsLock
  <2>3. pending' = pending + 1 /\ pending \in Nat /\ call[c].published \in Nat
    BY DEF Publish, QInv, TypeOK, CallType
  <2>4. pending' <= Capacity
    BY <2>1, <2>2, <2>3, Bounds DEF RoomIsReserved
  <2>5. RoomIsReserved(c)'
    BY <1>1, <2>1, <2>2, <2>3, Bounds DEF RoomIsReserved, QInv, TypeOK
  <2>6. ASSUME NEW d \in Calls \ {c} PROVE RoomIsReserved(d)'
    BY <1>1, <2>2 DEF QInv, TypeOK, HoldsLock, RoomIsReserved
  <2> QED BY <2>4, <2>5, <2>6
<1> QED BY <1>2, <1>3, <1>4 DEF QInv

LEMMA JobEndsKeeps == ASSUME QInv, JobEnds PROVE QInv'
<1>1. TypeOK' /\ \A c \in Calls : CallInv(c)' /\ HoldsLock(c)'
  BY DEF QInv, TypeOK, CallInv, HoldsLock, JobEnds
<1>2. ASSUME NEW c \in Calls, RoomIsReserved(c) PROVE RoomIsReserved(c)'
  <2>1. pending' = pending - 1 /\ pending \in Nat /\ call[c].published \in Nat
    BY DEF QInv, TypeOK, CallType, JobEnds
  <2> QED BY <1>2, <2>1, Bounds DEF RoomIsReserved, JobEnds
<1>3. Fits'
  BY <1>2, Bounds DEF QInv, TypeOK, Fits, JobEnds
<1> QED BY <1>1, <1>3 DEF QInv

LEMMA TickKeeps == ASSUME QInv, Tick PROVE QInv'
<1>1. ASSUME NEW c \in Calls
      PROVE  /\ call'[c] \in CallType /\ CallInv(c)' /\ HoldsLock(c)'
             /\ RoomIsReserved(c) => RoomIsReserved(c)'
  <2>1. CASE call[c].open
    <3>1. call'[c] = [call[c] EXCEPT !.age = call[c].age + 1] /\ call[c].age < OperationTimeout
      BY <2>1 DEF Tick
    <3>2. call'[c] \in CallType /\ call[c].age \in Nat
      BY <3>1, Bounds DEF QInv, TypeOK, CallType
    <3>3. CallInv(c)' /\ (RoomIsReserved(c) => RoomIsReserved(c)')
      BY <3>1 DEF QInv, TypeOK, CallType, CallInv, RoomIsReserved, Tick
    <3>4. HoldsLock(c)'
      BY <3>1, <3>2, CallAssumption, Bounds DEF QInv, TypeOK, CallType, HoldsLock, Tick
    <3> QED BY <3>2, <3>3, <3>4
  <2>2. CASE ~call[c].open
    BY <2>2 DEF QInv, TypeOK, CallInv, HoldsLock, RoomIsReserved, Tick
  <2> QED BY <2>1, <2>2
<1>2. lockAge' \in 0..LockTtl
  BY Bounds DEF QInv, TypeOK, Tick
<1>3. TypeOK'
  BY <1>1, <1>2 DEF QInv, TypeOK, Tick
<1>4. Fits'
  BY <1>1 DEF QInv, Fits, Tick
<1> QED BY <1>1, <1>3, <1>4 DEF QInv

LEMMA StutterKeeps == ASSUME QInv, UNCHANGED vars PROVE QInv'
  BY DEF QInv, TypeOK, Fits, CallInv, HoldsLock, RoomIsReserved, vars

LEMMA NextKeeps == ASSUME QInv, [Next]_vars PROVE QInv'
  BY StartKeeps, TakeLockKeeps, LockReplyLostKeeps, LockIsTakenKeeps, RetryKeeps, CountKeeps,
     PublishKeeps, OperationFailsKeeps, ReleaseLockKeeps, CallTimesOutKeeps, LockExpiresKeeps,
     JobEndsKeeps, TickKeeps, StutterKeeps
     DEF Next, Step

(***************************************************************************)
(* QInv holds in every reachable state.                                    *)
(***************************************************************************)
THEOREM Inductive == Spec => []QInv
<1>1. Init => QInv
  BY InitIsGood
<1>2. QInv /\ [Next]_vars => QInv'
  BY NextKeeps
<1> QED BY <1>1, <1>2, PTL DEF Spec

-----------------------------------------------------------------------------
(***************************************************************************)
(* Every reachable state is well typed.                                    *)
(***************************************************************************)
THEOREM AdmissionTypes == Spec => []TypeOK
<1>1. QInv => TypeOK
  BY DEF QInv
<1> QED BY <1>1, Inductive, PTL

(***************************************************************************)
(* Until a job is published after its caller gave up, the queue never      *)
(* holds more than its capacity: runWithPendingCapacity counts and         *)
(* publishes under a lock that may expire, be lost or be released late.    *)
(***************************************************************************)
THEOREM CapacityIsHeld == Spec => []CapacityHolds
<1>1. QInv => CapacityHolds
  BY DEF QInv, Fits, CapacityHolds
<1> QED BY <1>1, Inductive, PTL

-----------------------------------------------------------------------------
\* What a step tells the caller of c is true.
Honest(c) ==
  call[c].told = "nothing" =>
    /\ call'[c].told \in {"busy", "exhausted"} =>
         call[c].published = 0 /\ call'[c].pc = "over"
    /\ call'[c].told = "confirmed" => call[c].published = RequiredSlots[c]
    /\ call'[c].told = "unavailable" => call[c].outcome # "confirmed"

LEMMA QuietIsHonest ==
  ASSUME NEW c \in Calls, call'[c].told = call[c].told
  PROVE  Honest(c)
  BY DEF Honest

LEMMA SettledIsHonest ==
  ASSUME QInv, NEW c \in Calls, call[c].pc \in {"acquire", "retry"},
         NEW outcome \in {"unavailable", "busy"}, call'[c] = Settled(c, outcome)
  PROVE  Honest(c)
  BY DEF Honest, Settled, NewCall, QInv, CallInv

LEMMA ReleaseIsHonest ==
  ASSUME QInv, NEW c \in Calls, ReleaseLock(c)
  PROVE  Honest(c)
<1>1. call'[c] = Settled(c, call[c].outcome)
  BY DEF ReleaseLock, QInv, TypeOK
<1>2. call[c].outcome \in {"confirmed", "exhausted", "unavailable"}
  BY DEF QInv, TypeOK, CallType, CallInv, ReleaseLock
<1> QED BY <1>1, <1>2 DEF Honest, Settled, NewCall, QInv, CallInv

LEMMA StepIsHonest ==
  ASSUME QInv, NEW c \in Calls, Step(c), NEW d \in Calls
  PROVE  Honest(d)
<1>1. CASE d # c
  <2>1. call'[d] = call[d]
    BY <1>1 DEF Step, Start, TakeLock, LockReplyLost, LockIsTaken, Retry, Count, Publish,
                OperationFails, Release, ReleaseLock, CallTimesOut, QInv, TypeOK
  <2> QED BY <2>1, QuietIsHonest
<1>2. CASE d = c
  <2>1. CASE Start(c) \/ TakeLock(c) \/ LockIsTaken(c) \/ Count(c) \/ Publish(c)
    <3>1. call \in [Calls -> CallType] /\ call[c] \in CallType
      BY DEF QInv, TypeOK
    <3>2. CASE Start(c) \/ TakeLock(c) \/ LockIsTaken(c)
      BY <1>2, <3>1, <3>2, QuietIsHonest DEF Start, TakeLock, LockIsTaken, CallType
    <3>3. CASE Count(c)
      <4>1. call'[c].told = call[c].told
        BY <3>1, <3>3 DEF Count, Release, CallType
      <4> QED BY <1>2, <4>1, QuietIsHonest
    <3>4. CASE Publish(c)
      <4>1. CASE call' = [call EXCEPT ![c].published = call[c].published + 1]
        <5>1. call'[c].told = call[c].told
          BY <3>1, <4>1 DEF CallType
        <5> QED BY <1>2, <5>1, QuietIsHonest
      <4>2. CASE \E outcome \in {"confirmed", "unavailable"} :
                   Release(c, outcome, call[c].published + 1)
        <5>1. call'[c].told = call[c].told
          BY <3>1, <4>2 DEF Release, CallType
        <5> QED BY <1>2, <5>1, QuietIsHonest
      <4> QED BY <3>4, <4>1, <4>2 DEF Publish
    <3> QED BY <2>1, <3>2, <3>3, <3>4
  <2>2. CASE LockReplyLost(c)
    <3>1. call'[c] = Settled(c, "unavailable") /\ call[c].pc = "acquire"
      BY <2>2 DEF LockReplyLost, QInv, TypeOK
    <3> QED BY <1>2, <3>1, SettledIsHonest
  <2>3. CASE Retry(c)
    <3>1. /\ call[c].pc = "retry"
          /\ call'[c] = Settled(c, "busy") \/ call'[c].told = call[c].told
      BY <2>3 DEF Retry, QInv, TypeOK, CallType
    <3> QED BY <1>2, <3>1, SettledIsHonest, QuietIsHonest
  <2>4. CASE OperationFails(c)
    <3>1. \/ call[c].pc = "acquire" /\ call'[c] = Settled(c, "unavailable")
          \/ call'[c].told = call[c].told
      BY <2>4 DEF OperationFails, Release, QInv, TypeOK, CallType
    <3> QED BY <1>2, <3>1, SettledIsHonest, QuietIsHonest
  <2>5. CASE ReleaseLock(c)
    BY <1>2, <2>5, ReleaseIsHonest
  <2>6. CASE CallTimesOut(c)
    <3>1. call'[c].told = "unknown"
      BY <2>6 DEF CallTimesOut, QInv, TypeOK, CallType
    <3> QED BY <1>2, <3>1 DEF Honest
  <2> QED BY <2>1, <2>2, <2>3, <2>4, <2>5, <2>6 DEF Step
<1> QED BY <1>1, <1>2

LEMMA NextIsHonest ==
  ASSUME QInv, [Next]_vars, NEW d \in Calls
  PROVE  Honest(d)
<1>1. CASE \E c \in Calls : Step(c)
  BY <1>1, StepIsHonest
<1>2. CASE LockExpires \/ JobEnds \/ UNCHANGED vars
  BY <1>2, QuietIsHonest DEF LockExpires, JobEnds, vars
<1>3. CASE Tick
  <2>1. call'[d].told = call[d].told
    BY <1>3 DEF Tick, QInv, TypeOK, CallType
  <2> QED BY <2>1, QuietIsHonest
<1> QED BY <1>1, <1>2, <1>3 DEF Next

(***************************************************************************)
(* What a call tells its caller is true of the jobs it has published, and  *)
(* no failure to release the lock turns a confirmed enqueue into a failure *)
(* (releaseAdmissionLock).                                                 *)
(***************************************************************************)
THEOREM OutcomesAreHonest == Spec => OutcomeIsHonest
<1>1. QInv /\ [Next]_vars => [\A c \in Calls : Honest(c)]_vars
  BY NextIsHonest
<1>2. [\A c \in Calls : Honest(c)]_vars =>
        [\A c \in Calls : call[c].told = "nothing" =>
           /\ call'[c].told \in {"busy", "exhausted"} =>
                call[c].published = 0 /\ call'[c].pc = "over"
           /\ call'[c].told = "confirmed" => call[c].published = RequiredSlots[c]
           /\ call'[c].told = "unavailable" => call[c].outcome # "confirmed"]_vars
  BY DEF Honest
<1> QED BY <1>1, <1>2, Inductive, PTL DEF Spec, OutcomeIsHonest
=============================================================================
