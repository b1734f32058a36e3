------------------------ MODULE ResponseCacheProofs ------------------------
(***************************************************************************)
(* That the indexed items fit the admission limit, for any number of       *)
(* callers, members and calls and whatever becomes of the connection.      *)
(***************************************************************************)
EXTENDS ResponseCache, FiniteSetTheorems, TLAPS

LEMMA Limit == MaximumEntries \in Nat /\ MaximumEntries > 0
  BY LimitAssumption

LEMMA Lifetimes == ASSUME NEW k \in Keys PROVE Lifetime(k) \in Nat
<1>1. DefaultTtl \in Nat /\ DeclaredTtl[k] \in Nat \cup {Unset}
  BY TtlAssumption
<1> QED BY <1>1 DEF Lifetime

-----------------------------------------------------------------------------
(***************************************************************************)
(* The limit is on the index, so an item needs its member: the script that *)
(* removes a member looks for the item again.                              *)
(***************************************************************************)
IndexInv ==
  /\ IsFiniteSet(index)
  /\ items \subseteq index
  /\ Cardinality(index) <= MaximumEntries

LEMMA InitFits == Init => IndexInv
<1> SUFFICES ASSUME Init PROVE IndexInv
  OBVIOUS
<1>1. index \in SUBSET Members /\ Cardinality(index) <= MaximumEntries /\ items \subseteq index
  BY DEF Init
<1>2. IsFiniteSet(index)
  BY <1>1, MembersAssumption, FS_Subset
<1> QED BY <1>1, <1>2 DEF IndexInv

LEMMA SmallerIndexFits ==
  ASSUME IndexInv, index' \subseteq index, items' \subseteq index'
  PROVE  IndexInv'
<1>1. IsFiniteSet(index') /\ Cardinality(index') <= Cardinality(index)
  BY FS_Subset DEF IndexInv
<1>2. Cardinality(index') \in Nat /\ Cardinality(index) \in Nat
  BY <1>1, FS_CardinalityType DEF IndexInv
<1> QED BY <1>1, <1>2, Limit DEF IndexInv

LEMMA SetIndexedFits == ASSUME IndexInv, NEW m, SetIndexed(m) PROVE IndexInv'
<1>1. CASE ~Admits(m)
  BY <1>1 DEF SetIndexed, IndexInv
<1>2. CASE Admits(m)
  <2>1. items' = items \cup {m} /\ index' = index \cup {m}
    BY <1>2 DEF SetIndexed
  <2>2. items' \subseteq index'
    BY <2>1 DEF IndexInv
  <2>3. /\ IsFiniteSet(index')
        /\ Cardinality(index') = IF m \in index THEN Cardinality(index) ELSE Cardinality(index) + 1
    BY <2>1, FS_AddElement DEF IndexInv
  <2>4. Cardinality(index') <= MaximumEntries
    <3>1. Cardinality(index) \in Nat
      BY FS_CardinalityType DEF IndexInv
    <3>2. m \in index \/ Cardinality(index) < MaximumEntries
      BY <1>2 DEF Admits
    <3>3. Cardinality(index) <= MaximumEntries
      BY DEF IndexInv
    <3> QED BY <2>3, <3>1, <3>2, <3>3, Limit
  <2> QED BY <2>2, <2>3, <2>4 DEF IndexInv
<1> QED BY <1>1, <1>2

\* Whatever command reaches Redis, whoever waits for it.
LEMMA ApplyFits == ASSUME IndexInv, NEW cmd, Apply(cmd) PROVE IndexInv'
<1>1. CASE UNCHANGED <<items, index>>
  BY <1>1 DEF IndexInv
<1>2. CASE SetIndexed(cmd.on)
  BY <1>2, SetIndexedFits
<1>3. CASE items' = items \ {cmd.on} /\ index' = index \ {cmd.on}
  BY <1>3, SmallerIndexFits DEF IndexInv
<1>4. CASE RemoveIfMissing(cmd.on)
  BY <1>4, SmallerIndexFits DEF IndexInv, RemoveIfMissing
<1> QED BY <1>1, <1>2, <1>3, <1>4 DEF Apply

LEMMA StepFits == ASSUME IndexInv, [Next]_vars PROVE IndexInv'
<1>1. ASSUME NEW c \in Callers, Run(c) PROVE IndexInv'
  BY <1>1, ApplyFits DEF Run
<1>2. ASSUME NEW cmd \in late, RunLate(cmd) PROVE IndexInv'
  BY <1>2, ApplyFits DEF RunLate
<1>3. ASSUME NEW m \in Members, ExpireItem(m) PROVE IndexInv'
  BY <1>3, SmallerIndexFits DEF ExpireItem, IndexInv
<1>4. ASSUME NEW c \in Callers, Started(c) PROVE UNCHANGED <<items, index>>
  BY <1>4 DEF Started, Remember, Respond, Ping, Change, SetIndexedValue, DeleteIndexedValue,
     GetIndexMembers, Begin
<1>5. ASSUME NEW c \in Callers, Factory(c) \/ Handle(c) \/ Write(c) \/ Refuse(c) \/ Timeout(c)
      PROVE UNCHANGED <<items, index>>
  BY <1>5 DEF Factory, Handle, Write, Refuse, Timeout, Reset
<1>6. ConnectionLost => UNCHANGED <<items, index>>
  BY DEF ConnectionLost, Reset
<1>7. ASSUME NEW cmd \in late, LoseLate(cmd) PROVE UNCHANGED <<items, index>>
  BY <1>7 DEF LoseLate
<1>8. ASSUME NEW k \in Keys, ExpireEntry(k) PROVE UNCHANGED <<items, index>>
  BY <1>8 DEF ExpireEntry
<1>9. CASE UNCHANGED <<items, index>>
  BY <1>9 DEF IndexInv
<1>10. CASE UNCHANGED vars
  BY <1>9, <1>10 DEF vars
<1> QED BY <1>1, <1>2, <1>3, <1>4, <1>5, <1>6, <1>7, <1>8, <1>9, <1>10 DEF Next

(***************************************************************************)
(* The live items never exceed the limit, however creations, expiries,     *)
(* late commands and the removal of stale members overlap                  *)
(* (setIndexedValueIfWithinCapacity, removeIndexMemberIfItemMissing).      *)
(***************************************************************************)
THEOREM ItemsFit == Spec => []EntriesFitCapacity
<1>1. IndexInv /\ [Next]_vars => IndexInv'
  BY StepFits
<1>2. IndexInv => EntriesFitCapacity
  <2> SUFFICES ASSUME IndexInv PROVE EntriesFitCapacity
    OBVIOUS
  <2>1. IsFiniteSet(items) /\ Cardinality(items) <= Cardinality(index)
    BY FS_Subset DEF IndexInv
  <2>2. Cardinality(items) \in Nat /\ Cardinality(index) \in Nat
    BY <2>1, FS_CardinalityType DEF IndexInv
  <2> QED BY <2>1, <2>2, Limit DEF IndexInv, EntriesFitCapacity
<1> QED BY InitFits, <1>1, <1>2, PTL DEF Spec

-----------------------------------------------------------------------------
(***************************************************************************)
(* Types: only a member is ever created, and only a caller in a command    *)
(* has one on its way, so that a reset keeps nothing else.                 *)
(***************************************************************************)
Entries == [value : Nat \cup {None}, ttl : Nat]
Places == {"none", "queued", "written", "unanswered"}
Creates(record, pc) == pc = "create" => record.on \in Members

CallsInv ==
  /\ call \in [Callers -> CallType] /\ at \in [Callers -> Places]
  /\ late \subseteq CommandType
  /\ \A c \in Callers : Creates(call[c], call[c].pc) /\ (at[c] # "none" <=> Waits(c))
  /\ \A cmd \in late : Creates(cmd, cmd.what)

RedisInv == entry \in [Keys -> Entries] /\ items \subseteq Members /\ index \subseteq Members

TypeInv == RedisInv /\ CallsInv /\ source \in Nat /\ calls \in Nat

LEMMA NoCommand == \A pc \in {"idle", "factory", "handle", "handleOnly"} : pc \notin Commands
  BY DEF Commands, Reads

LEMMA QuietIsCall == Quiet \in CallType /\ Served \in CallType
                     /\ Quiet.pc = "idle" /\ Served.pc = "idle"
  BY DEF Quiet, Served, CallType

\* A caller that goes on within its call, on the same key.
LEMMA CallStep ==
  ASSUME NEW record \in CallType, NEW pc \in Commands \cup {"idle", "factory", "handle", "handleOnly"}
  PROVE  [record EXCEPT !.pc = pc] \in CallType /\ [record EXCEPT !.pc = pc].pc = pc
  BY DEF CallType

LEMMA FailIsCall ==
  ASSUME TypeInv, NEW c \in Callers
  PROVE  Fail(c) \in CallType /\ Fail(c).pc \in {"idle", "handleOnly"}
<1>1. call[c] \in CallType
  BY DEF TypeInv, CallsInv
<1> QED BY <1>1, QuietIsCall, CallStep DEF Fail

LEMMA ContinueIsCall ==
  ASSUME TypeInv, NEW c \in Callers, NEW answer
  PROVE  Continue(c, answer) \in CallType /\ Continue(c, answer).pc # "create"
<1>1. call[c] \in CallType
  BY DEF TypeInv, CallsInv
<1>2. Done(c) \in CallType /\ Done(c).pc = "idle"
  BY QuietIsCall DEF Done
<1>3. {"read", "recheck"} \subseteq Commands
  BY DEF Commands, Reads
<1>4. CASE call[c].pc = "get" /\ answer = None
  <2>1. Continue(c, answer) = [call[c] EXCEPT !.pc = IF call[c].op = "respond" THEN "handle" ELSE "factory"]
    BY <1>4 DEF Continue
  <2> QED BY <1>1, <2>1, CallStep
<1>5. CASE call[c].pc = "scan" /\ answer # None
  <2>1. Continue(c, answer) = [call[c] EXCEPT !.pc = "read"]
    BY <1>5 DEF Continue
  <2> QED BY <1>1, <1>3, <2>1, CallStep
<1>6. CASE call[c].pc = "read" /\ answer = None
  <2>1. Continue(c, answer) = [call[c] EXCEPT !.pc = "recheck"]
    BY <1>6 DEF Continue
  <2> QED BY <1>1, <1>3, <2>1, CallStep
<1>7. CASE /\ ~(call[c].pc = "get" /\ answer = None)
           /\ ~(call[c].pc = "scan" /\ answer # None)
           /\ ~(call[c].pc = "read" /\ answer = None)
  <2>1. Continue(c, answer) = Done(c)
    BY <1>7 DEF Continue
  <2> QED BY <1>2, <2>1
<1> QED BY <1>4, <1>5, <1>6, <1>7

LEMMA ApplyKeepsTypes ==
  ASSUME TypeInv, NEW cmd, cmd.value \in Nat \cup {None}, Creates(cmd, cmd.what), Apply(cmd)
  PROVE  RedisInv'
<1>1. entry \in [Keys -> Entries] /\ items \subseteq Members /\ index \subseteq Members
  BY DEF TypeInv, RedisInv
<1>2. CASE cmd.what = "set"
  <2> DEFINE new == [value |-> cmd.value, ttl |-> Lifetime(cmd.on)]
  <2>1. entry' = [entry EXCEPT ![cmd.on] = new] /\ UNCHANGED <<items, index>>
    BY <1>2 DEF Apply, Reads
  <2>2. cmd.on \in Keys => new \in Entries
    BY Lifetimes DEF Entries
  <2> HIDE DEF new
  <2> QED BY <1>1, <2>1, <2>2 DEF RedisInv
<1>3. CASE cmd.what = "del"
  <2>1. Absent \in Entries
    BY DEF Absent, Entries
  <2>2. entry' = [entry EXCEPT ![cmd.on] = Absent] /\ UNCHANGED <<items, index>>
    BY <1>3 DEF Apply, Reads
  <2> QED BY <1>1, <2>1, <2>2 DEF RedisInv
<1>4. CASE cmd.what \in {"create", "delete", "recheck"}
  <2>1. UNCHANGED entry
    BY <1>4 DEF Apply, Reads
  <2>2. items' \subseteq items \cup {cmd.on} /\ index' \subseteq index \cup {cmd.on}
    BY <1>4 DEF Apply, Reads, SetIndexed, RemoveIfMissing
  <2>3. cmd.what # "create" => items' \subseteq items /\ index' \subseteq index
    BY <1>4 DEF Apply, Reads, RemoveIfMissing
  <2> QED BY <1>1, <2>1, <2>2, <2>3 DEF Creates, RedisInv
<1>5. CASE cmd.what \in Reads
  BY <1>1, <1>5 DEF Apply, Reads, RedisInv
<1> QED BY <1>2, <1>3, <1>4, <1>5 DEF Apply

\* One caller's record changes, and Redis does not.
LEMMA CallerStep ==
  ASSUME TypeInv, NEW c \in Callers, NEW record \in CallType, Creates(record, record.pc),
         NEW place \in Places, place # "none" <=> record.pc \in Commands,
         call' = [call EXCEPT ![c] = record], at' = [at EXCEPT ![c] = place],
         UNCHANGED late
  PROVE  CallsInv'
  BY DEF TypeInv, CallsInv, Places, Waits

\* A caller's command is typed, and creates only a member.
LEMMA CommandIsTyped ==
  ASSUME TypeInv, NEW c \in Callers
  PROVE  /\ CommandOf(c).value \in Nat \cup {None}
         /\ Creates(CommandOf(c), CommandOf(c).what)
         /\ Waits(c) /\ call[c].pc \notin Reads => CommandOf(c) \in CommandType
<1>1. call[c] \in CallType /\ Creates(call[c], call[c].pc)
  BY DEF TypeInv, CallsInv
<1> QED BY <1>1 DEF CommandOf, Creates, CallType, CommandType, Waits

-----------------------------------------------------------------------------
(* The actions. *)

LEMMA InitIsTyped == Init => TypeInv
<1> SUFFICES ASSUME Init PROVE TypeInv
  OBVIOUS
<1>1. RedisInv
  BY DEF Init, RedisInv, Entries, Absent
<1>2. CallsInv
  BY QuietIsCall, NoCommand DEF Init, CallsInv, Places, Creates, Waits
<1> QED BY <1>1, <1>2 DEF Init, TypeInv

LEMMA BeginKeeps ==
  ASSUME TypeInv, NEW c \in Callers,
         NEW op \in {"remember", "respond", "ping", "del", "set", "prune",
                     "setIndexedValue", "deleteIndexedValue"},
         NEW on \in Keys \cup Members \cup {None}, NEW pc \in Commands,
         pc = "create" => on \in Members, NEW seen \in Nat \cup {None},
         source' \in Nat, Begin(c, op, on, pc, seen)
  PROVE  TypeInv'
<1> DEFINE new == [op |-> op, on |-> on, pc |-> pc, seen |-> seen, served |-> FALSE]
<1>1. new \in CallType /\ Creates(new, new.pc) /\ new.pc \in Commands
  BY DEF CallType, Creates
<1>2. call' = [call EXCEPT ![c] = new] /\ at' = [at EXCEPT ![c] = "queued"] /\ UNCHANGED late
  BY DEF Begin
<1> HIDE DEF new
<1>3. CallsInv'
  BY <1>1, <1>2, CallerStep DEF Places
<1>4. RedisInv' /\ calls' \in Nat
  BY DEF Begin, TypeInv, RedisInv
<1> QED BY <1>3, <1>4 DEF TypeInv

LEMMA StartedKeeps == ASSUME TypeInv, NEW c \in Callers, Started(c) PROVE TypeInv'
<1>1. {"get", "ping", "create", "delete", "scan", "del", "set"} \subseteq Commands
  BY DEF Commands, Reads
<1>2. source \in Nat /\ source + 1 \in Nat
  BY DEF TypeInv
<1>3. CASE Remember(c) \/ Respond(c) \/ Ping(c)
  BY <1>1, <1>2, <1>3, BeginKeeps DEF Remember, Respond, Ping, Keys
<1>4. ASSUME NEW m \in Members, SetIndexedValue(c, m) \/ DeleteIndexedValue(c, m) \/ GetIndexMembers(c, m)
      PROVE TypeInv'
  BY <1>1, <1>2, <1>4, BeginKeeps DEF SetIndexedValue, DeleteIndexedValue, GetIndexMembers
<1>5. CASE Change(c)
  BY <1>1, <1>2, <1>5, BeginKeeps DEF Change, Keys
<1> QED BY <1>3, <1>4, <1>5 DEF Started

LEMMA FactoryKeeps == ASSUME TypeInv, NEW c \in Callers, Factory(c) PROVE TypeInv'
<1>1. call[c] \in CallType /\ source \in Nat
  BY DEF TypeInv, CallsInv
<1>2. RedisInv' /\ source' \in Nat /\ calls' \in Nat
  BY DEF Factory, TypeInv, RedisInv
<1>3. CASE call' = [call EXCEPT ![c].pc = "set", ![c].seen = source] /\ at' = [at EXCEPT ![c] = "queued"]
  <2> DEFINE new == [call[c] EXCEPT !.pc = "set", !.seen = source]
  <2>1. new \in CallType /\ new.pc = "set" /\ "set" \in Commands
    BY <1>1 DEF CallType, Commands
  <2>2. call' = [call EXCEPT ![c] = new]
    BY <1>3 DEF TypeInv, CallsInv
  <2> HIDE DEF new
  <2>3. "queued" \in Places /\ Creates(new, new.pc) /\ UNCHANGED late
    BY <2>1 DEF Factory, Places, Creates
  <2>4. CallsInv'
    BY <1>3, <2>1, <2>2, <2>3, CallerStep DEF Places, Creates
  <2> QED BY <1>2, <2>4 DEF TypeInv
<1>4. CASE call' = [call EXCEPT ![c] = Quiet] /\ UNCHANGED at
  <2>1. ~Waits(c)
    BY DEF Factory, Waits, Commands, Reads
  <2>2. at[c] = "none"
    BY <2>1 DEF TypeInv, CallsInv
  <2>3. at' = [at EXCEPT ![c] = "none"] /\ "none" \in Places
    BY <1>4, <2>2 DEF TypeInv, CallsInv, Places
  <2>4. Quiet \in CallType /\ Creates(Quiet, Quiet.pc) /\ Quiet.pc \notin Commands
    BY QuietIsCall, NoCommand DEF Creates
  <2>5. CallsInv'
    BY <1>4, <2>3, <2>4, CallerStep DEF Factory
  <2> QED BY <1>2, <2>5 DEF TypeInv
<1> QED BY <1>3, <1>4 DEF Factory

LEMMA HandleKeeps == ASSUME TypeInv, NEW c \in Callers, Handle(c) PROVE TypeInv'
<1>1. call[c] \in CallType /\ source \in Nat
  BY DEF TypeInv, CallsInv
<1>2. RedisInv' /\ source' \in Nat /\ calls' \in Nat
  BY DEF Handle, TypeInv, RedisInv
<1>3. CASE /\ call' = [call EXCEPT ![c].pc = "set", ![c].seen = source, ![c].served = TRUE]
           /\ at' = [at EXCEPT ![c] = "queued"]
  <2> DEFINE new == [call[c] EXCEPT !.pc = "set", !.seen = source, !.served = TRUE]
  <2>1. new \in CallType /\ new.pc = "set" /\ "set" \in Commands
    BY <1>1 DEF CallType, Commands
  <2>2. call' = [call EXCEPT ![c] = new]
    BY <1>3 DEF TypeInv, CallsInv
  <2> HIDE DEF new
  <2>3. "queued" \in Places /\ Creates(new, new.pc) /\ UNCHANGED late
    BY <2>1 DEF Handle, Places, Creates
  <2>4. CallsInv'
    BY <1>3, <2>1, <2>2, <2>3, CallerStep DEF Places, Creates
  <2> QED BY <1>2, <2>4 DEF TypeInv
<1>4. CASE call' = [call EXCEPT ![c] = Served] /\ UNCHANGED at
  <2>1. ~Waits(c)
    BY DEF Handle, Waits, Commands, Reads
  <2>2. at[c] = "none"
    BY <2>1 DEF TypeInv, CallsInv
  <2>3. at' = [at EXCEPT ![c] = "none"] /\ "none" \in Places
    BY <1>4, <2>2 DEF TypeInv, CallsInv, Places
  <2>4. Served \in CallType /\ Creates(Served, Served.pc) /\ Served.pc \notin Commands
    BY QuietIsCall, NoCommand DEF Creates
  <2>5. CallsInv'
    BY <1>4, <2>3, <2>4, CallerStep DEF Handle
  <2> QED BY <1>2, <2>5 DEF TypeInv
<1> QED BY <1>3, <1>4 DEF Handle

LEMMA WriteKeeps == ASSUME TypeInv, NEW c \in Callers, Write(c) PROVE TypeInv'
  BY DEF Write, TypeInv, RedisInv, CallsInv, Places, Waits

LEMMA RefuseKeeps == ASSUME TypeInv, NEW c \in Callers, Refuse(c) PROVE TypeInv'
<1>1. Fail(c) \in CallType /\ Creates(Fail(c), Fail(c).pc) /\ Fail(c).pc \notin Commands
  BY FailIsCall, NoCommand DEF Creates
<1>2. CallsInv'
  BY <1>1, CallerStep DEF Refuse, Places
<1> QED BY <1>2 DEF Refuse, TypeInv, RedisInv

LEMMA ResetKeeps == ASSUME TypeInv, Reset PROVE TypeInv'
<1>1. call' \in [Callers -> CallType] /\ \A c \in Callers : Creates(call'[c], call'[c].pc)
  BY FailIsCall DEF Reset, TypeInv, CallsInv, Creates
<1>2. at' \in [Callers -> Places]
  BY DEF Reset, Places
<1>3. ASSUME NEW cmd \in late' PROVE cmd \in CommandType /\ Creates(cmd, cmd.what)
  BY <1>3, CommandIsTyped DEF Reset, TypeInv, CallsInv
<1>4. ASSUME NEW c \in Callers PROVE at'[c] = "none" /\ call'[c].pc \notin Commands
  BY FailIsCall, NoCommand DEF Reset, Waits
<1>5. CallsInv'
  BY <1>1, <1>2, <1>3, <1>4 DEF CallsInv, Waits
<1> QED BY <1>5 DEF Reset, TypeInv, RedisInv

LEMMA RunKeeps == ASSUME TypeInv, NEW c \in Callers, Run(c) PROVE TypeInv'
<1>1. RedisInv'
  BY CommandIsTyped, ApplyKeepsTypes DEF Run
<1>2. CallsInv'
  <2>1. CASE at' = [at EXCEPT ![c] = "unanswered"] /\ UNCHANGED <<call, late>>
    BY <2>1 DEF Run, TypeInv, CallsInv, Places, Waits
  <2>2. CASE LET next == Continue(c, Answer(CommandOf(c))) IN
               /\ call' = [call EXCEPT ![c] = next]
               /\ at' = [at EXCEPT ![c] = IF next.pc \in Commands THEN "queued" ELSE "none"]
               /\ UNCHANGED late
    <3> DEFINE next == Continue(c, Answer(CommandOf(c)))
    <3>1. next \in CallType /\ Creates(next, next.pc)
      BY ContinueIsCall DEF Creates
    <3>2. PICK place \in Places : /\ at' = [at EXCEPT ![c] = place]
                                  /\ place # "none" <=> next.pc \in Commands
      BY <2>2 DEF Places
    <3> QED BY <2>2, <3>1, <3>2, CallerStep
  <2> QED BY <2>1, <2>2 DEF Run
<1> QED BY <1>1, <1>2 DEF Run, TypeInv

LEMMA LateKeeps ==
  ASSUME TypeInv, NEW cmd \in late, RunLate(cmd) \/ LoseLate(cmd) PROVE TypeInv'
<1>1. cmd.value \in Nat \cup {None} /\ Creates(cmd, cmd.what)
  BY DEF TypeInv, CallsInv, CommandType
<1>2. CASE RunLate(cmd)
  <2>1. RedisInv'
    BY <1>1, <1>2, ApplyKeepsTypes DEF RunLate
  <2> QED BY <1>2, <2>1 DEF RunLate, TypeInv, CallsInv, Waits
<1>3. CASE LoseLate(cmd)
  BY <1>3 DEF LoseLate, TypeInv, CallsInv, RedisInv, Waits
<1> QED BY <1>2, <1>3

LEMMA ExpiryKeeps ==
  ASSUME TypeInv, \/ \E k \in Keys : ExpireEntry(k)
                  \/ \E m \in Members : ExpireItem(m)
  PROVE  TypeInv'
<1>1. Absent \in Entries
  BY DEF Absent, Entries
<1> QED BY <1>1 DEF ExpireEntry, ExpireItem, TypeInv, CallsInv, RedisInv, Waits

LEMMA StepKeepsTypes == ASSUME TypeInv, [Next]_vars PROVE TypeInv'
<1>1. CASE UNCHANGED vars
  BY <1>1 DEF vars, TypeInv, CallsInv, RedisInv, Waits
<1>2. CASE Next
  BY <1>2, StartedKeeps, FactoryKeeps, HandleKeeps, WriteKeeps, RunKeeps, RefuseKeeps,
     ResetKeeps, LateKeeps, ExpiryKeeps DEF Next, Timeout, ConnectionLost
<1> QED BY <1>1, <1>2

CommandsTravel == \A c \in Callers : at[c] # "none" <=> Waits(c)

(***************************************************************************)
(* Every reachable state is well typed, and a caller has a command on its  *)
(* way exactly while it waits for the answer to one: refusing, resetting   *)
(* and answering leave neither a caller waiting for nothing nor a command  *)
(* nobody waits for, except those kept apart as late                       *)
(* (completeWithinAvailabilityBudget).                                     *)
(***************************************************************************)
THEOREM CacheTypes == Spec => [](TypeOK /\ CommandsTravel)
<1>1. TypeInv /\ [Next]_vars => TypeInv'
  BY StepKeepsTypes
<1>2. TypeInv => TypeOK /\ CommandsTravel
  BY DEF TypeInv, RedisInv, CallsInv, Entries, Places, TypeOK, CommandsTravel
<1> QED BY InitIsTyped, <1>1, <1>2, PTL DEF Spec
=============================================================================
