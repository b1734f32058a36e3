--------------------------- MODULE ResponseCache ---------------------------
(***************************************************************************)
(* CacheService and the HTTP response cache of one process, over one       *)
(* shared Redis connection.  An operation is a few commands, each under a  *)
(* budget of its own; when a budget runs out the connection is reset for   *)
(* every caller, commands not yet written are dropped, and commands        *)
(* already written may still reach Redis or not.                           *)
(*                                                                         *)
(* Redis is external: a script runs atomically, an entry with a lifetime   *)
(* expires at some time.  The commands of one connection run in any order  *)
(* here, because other replicas write to the same Redis.  Values are the   *)
(* versions of what the application caches.  clear() is left out: keyv     *)
(* scans and deletes in batches of its own.                                *)
(***************************************************************************)
EXTENDS Naturals, FiniteSets

CONSTANTS Callers, Members,
          MaximumEntries,   \* the admission limit of the index
          DefaultTtl,       \* cache.ttl, 0 as shipped
          DeclaredTtl,      \* what the caller of set passes, or Unset
          Unset, None,
          MaxCalls, MaxChanges

Keys == {"value", "response"}    \* remember's key and the interceptor's

ASSUME LimitAssumption == MaximumEntries \in Nat \ {0}
ASSUME TtlAssumption ==
  /\ DefaultTtl \in Nat
  /\ Unset \notin Nat
  /\ DeclaredTtl \in [Keys -> Nat \cup {Unset}]
ASSUME NoneAssumption == None \notin Nat
ASSUME MembersAssumption == IsFiniteSet(Members)

VARIABLES
  entry,     \* plain entries in Redis
  items,     \* the indexed items Redis still has
  index,     \* the members of their index
  source,    \* the version the application would compute now
  call,      \* what each caller is doing
  at,        \* where its command is: "none", "queued", "written", "unanswered"
  late,      \* written commands of a reset connection, those that change Redis
  calls

vars == <<entry, items, index, source, call, at, late, calls>>

Reads == {"get", "scan", "read", "ping"}
Commands == Reads \cup {"set", "del", "create", "delete", "recheck"}
Absent == [value |-> None, ttl |-> 0]
Quiet == [op |-> "none", on |-> None, pc |-> "idle", seen |-> None, served |-> FALSE]
Served == [Quiet EXCEPT !.served = TRUE]    \* the last call was a request, served

Init ==
  /\ entry = [k \in Keys |-> Absent]
  /\ index \in {s \in SUBSET Members : Cardinality(s) <= MaximumEntries}
  /\ items \in SUBSET index
  /\ source = 0
  /\ call = [c \in Callers |-> Quiet]
  /\ at = [c \in Callers |-> "none"]
  /\ late = {}
  /\ calls = 0

-----------------------------------------------------------------------------
(* Redis                                                                   *)

Lifetime_Default(k) == DefaultTtl

\* 0 stands for no expiry.
Lifetime(k) == IF DeclaredTtl[k] = Unset THEN DefaultTtl ELSE DeclaredTtl[k]

\* A known member is always admitted; a new one only below the limit.
Admits(m) == m \in index \/ Cardinality(index) < MaximumEntries

SetIndexed(m) ==
  IF Admits(m)
  THEN items' = items \cup {m} /\ index' = index \cup {m}
  ELSE UNCHANGED <<items, index>>

RemoveIfMissing_Unchecked(m) == index' = index \ {m} /\ UNCHANGED items

RemoveIfMissing(m) ==
  /\ index' = IF m \in items THEN index ELSE index \ {m}
  /\ UNCHANGED items

Apply(cmd) ==
  \/ /\ cmd.what \in Reads
     /\ UNCHANGED <<entry, items, index>>
  \/ /\ cmd.what = "set"
     /\ entry' = [entry EXCEPT ![cmd.on] = [value |-> cmd.value, ttl |-> Lifetime(cmd.on)]]
     /\ UNCHANGED <<items, index>>
  \/ /\ cmd.what = "del"
     /\ entry' = [entry EXCEPT ![cmd.on] = Absent]
     /\ UNCHANGED <<items, index>>
  \/ /\ cmd.what = "create"
     /\ SetIndexed(cmd.on)
     /\ UNCHANGED entry
  \/ /\ cmd.what = "delete"
     /\ items' = items \ {cmd.on} /\ index' = index \ {cmd.on}
     /\ UNCHANGED entry
  \/ /\ cmd.what = "recheck"
     /\ RemoveIfMissing(cmd.on)
     /\ UNCHANGED entry

\* None stands for a miss and for a refused admission.
Answer(cmd) ==
  CASE cmd.what = "get"    -> entry[cmd.on].value
    [] cmd.what = "scan"   -> IF cmd.on \in index THEN 0 ELSE None
    [] cmd.what = "read"   -> IF cmd.on \in items THEN 0 ELSE None
    [] cmd.what = "create" -> IF Admits(cmd.on) THEN 0 ELSE None
    [] OTHER -> 0

ExpireEntry(k) ==
  /\ entry[k].ttl > 0
  /\ entry' = [entry EXCEPT ![k] = Absent]
  /\ UNCHANGED <<items, index, source, call, at, late, calls>>

\* Only the item expires: its member stays in the index.
ExpireItem(m) ==
  /\ m \in items
  /\ items' = items \ {m}
  /\ UNCHANGED <<entry, index, source, call, at, late, calls>>

RunLate(cmd) ==
  /\ late' = late \ {cmd}
  /\ Apply(cmd)
  /\ UNCHANGED <<source, call, at, calls>>

LoseLate(cmd) ==
  /\ late' = late \ {cmd}
  /\ UNCHANGED <<entry, items, index, source, call, at, calls>>

-----------------------------------------------------------------------------
(* The connection                                                          *)

CommandOf(c) == [what |-> call[c].pc, on |-> call[c].on, value |-> call[c].seen]
Waits(c) == call[c].pc \in Commands

\* What a caller does when its command fails: the interceptor goes on to the
\* handler, or has answered already; every other caller is told.
Fail_Closed(c) == Quiet

Fail(c) ==
  IF call[c].op = "respond"
  THEN IF call[c].pc = "get" THEN [call[c] EXCEPT !.pc = "handleOnly"] ELSE Served
  ELSE Quiet

Write(c) ==
  /\ at[c] = "queued"
  /\ at' = [at EXCEPT ![c] = "written"]
  /\ UNCHANGED <<entry, items, index, source, call, late, calls>>

\* Not connected, the command queue full, or an error reply.
Refuse(c) ==
  /\ Waits(c)
  /\ at[c] = "queued"
  /\ call' = [call EXCEPT ![c] = Fail(c)]
  /\ at' = [at EXCEPT ![c] = "none"]
  /\ UNCHANGED <<entry, items, index, source, late, calls>>

\* Every pending command of the connection is rejected with it.
Reset ==
  /\ call' = [c \in Callers |-> IF Waits(c) THEN Fail(c) ELSE call[c]]
  /\ late' = late \cup {CommandOf(c) : c \in {d \in Callers : at[d] = "written" /\ call[d].pc \notin Reads}}
  /\ at' = [c \in Callers |-> "none"]
  /\ UNCHANGED <<entry, items, index, source, calls>>

\* The budget of c's command ran out.
Timeout(c) == Waits(c) /\ Reset

ConnectionLost == (\E c \in Callers : Waits(c)) /\ Reset

-----------------------------------------------------------------------------
(* The callers                                                             *)

Begin(c, op, on, pc, seen) ==
  /\ call[c].pc = "idle"
  /\ calls < MaxCalls
  /\ calls' = calls + 1
  /\ call' = [call EXCEPT ![c] = [op |-> op, on |-> on, pc |-> pc, seen |-> seen,
                                  served |-> FALSE]]
  /\ at' = [at EXCEPT ![c] = "queued"]
  /\ UNCHANGED <<entry, items, index, late>>

Remember(c) == Begin(c, "remember", "value", "get", None) /\ UNCHANGED source
Respond(c) == Begin(c, "respond", "response", "get", None) /\ UNCHANGED source
Ping(c) == Begin(c, "ping", None, "ping", None) /\ UNCHANGED source
SetIndexedValue(c, m) == Begin(c, "setIndexedValue", m, "create", None) /\ UNCHANGED source
DeleteIndexedValue(c, m) == Begin(c, "deleteIndexedValue", m, "delete", None) /\ UNCHANGED source
GetIndexMembers(c, m) == Begin(c, "prune", m, "scan", None) /\ UNCHANGED source

\* The application changes what it caches, then tells the cache.
Change(c) ==
  /\ source < MaxChanges
  /\ source' = source + 1
  /\ \/ Begin(c, "del", "value", "del", None)
     \/ Begin(c, "set", "value", "set", source + 1)

Done(c) == IF call[c].op = "respond" THEN Served ELSE Quiet

\* What the caller does with the reply.
Continue(c, answer) ==
  CASE call[c].pc = "get" /\ answer = None ->
         [call[c] EXCEPT !.pc = IF call[c].op = "respond" THEN "handle" ELSE "factory"]
    [] call[c].pc = "scan" /\ answer # None -> [call[c] EXCEPT !.pc = "read"]
    [] call[c].pc = "read" /\ answer = None -> [call[c] EXCEPT !.pc = "recheck"]
    [] OTHER -> Done(c)

\* Redis runs a written command; the reply is received, or never comes.
Run(c) ==
  /\ at[c] = "written"
  /\ Apply(CommandOf(c))
  /\ \/ LET next == Continue(c, Answer(CommandOf(c))) IN
          /\ call' = [call EXCEPT ![c] = next]
          /\ at' = [at EXCEPT ![c] = IF next.pc \in Commands THEN "queued" ELSE "none"]
     \/ at' = [at EXCEPT ![c] = "unanswered"] /\ UNCHANGED call
  /\ UNCHANGED <<source, late, calls>>

\* The factory reads the source, or throws.
Factory(c) ==
  /\ call[c].pc = "factory"
  /\ \/ /\ call' = [call EXCEPT ![c].pc = "set", ![c].seen = source]
        /\ at' = [at EXCEPT ![c] = "queued"]
     \/ call' = [call EXCEPT ![c] = Quiet] /\ UNCHANGED at
  /\ UNCHANGED <<entry, items, index, source, late, calls>>

\* The handler computes the response, which is sent at once and then stored;
\* a stream, or a response whose lookup failed, is not stored.
Handle(c) ==
  /\ call[c].pc \in {"handle", "handleOnly"}
  /\ \/ /\ call[c].pc = "handle"
        /\ call' = [call EXCEPT ![c].pc = "set", ![c].seen = source, ![c].served = TRUE]
        /\ at' = [at EXCEPT ![c] = "queued"]
     \/ call' = [call EXCEPT ![c] = Served] /\ UNCHANGED at
  /\ UNCHANGED <<entry, items, index, source, late, calls>>

-----------------------------------------------------------------------------
Started(c) ==
  \/ Remember(c) \/ Respond(c) \/ Ping(c) \/ Change(c)
  \/ \E m \in Members : SetIndexedValue(c, m) \/ DeleteIndexedValue(c, m) \/ GetIndexMembers(c, m)

Next ==
  \/ \E c \in Callers : Started(c) \/ Factory(c) \/ Handle(c)
                          \/ Write(c) \/ Run(c) \/ Refuse(c) \/ Timeout(c)
  \/ ConnectionLost
  \/ \E cmd \in late : RunLate(cmd) \/ LoseLate(cmd)
  \/ \E k \in Keys : ExpireEntry(k)
  \/ \E m \in Members : ExpireItem(m)

Spec == Init /\ [][Next]_vars

\* The process runs its continuations and its timers, and Redis expires what
\* has a lifetime.  Nothing is assumed of the connection.
FairSpec ==
  /\ Spec
  /\ \A c \in Callers : WF_vars(Factory(c) \/ Handle(c) \/ Timeout(c))
  /\ \A k \in Keys : WF_vars(ExpireEntry(k))

-----------------------------------------------------------------------------
CommandType == [what : Commands \ Reads,
                on : Keys \cup Members \cup {None},
                value : Nat \cup {None}]

CallType == [op : {"none", "remember", "respond", "ping", "del", "set", "prune",
                   "setIndexedValue", "deleteIndexedValue"},
             on : Keys \cup Members \cup {None},
             pc : Commands \cup {"idle", "factory", "handle", "handleOnly"},
             seen : Nat \cup {None},
             served : BOOLEAN]

TypeOK ==
  /\ entry \in [Keys -> [value : Nat \cup {None}, ttl : Nat]]
  /\ items \subseteq Members /\ index \subseteq Members
  /\ source \in Nat /\ calls \in Nat
  /\ call \in [Callers -> CallType]
  /\ at \in [Callers -> {"none", "queued", "written", "unanswered"}]
  /\ late \subseteq CommandType

\* The items alive never exceed the limit, however creations, expiries, late
\* commands and the removal of stale members (getIndexMembers, then
\* removeIndexMemberIfItemMissing) overlap: the limit counts index members,
\* so no live item may lose its member.
EntriesFitCapacity == Cardinality(items) <= MaximumEntries

\* A fill that raced a change, or a response stored after a later one, can
\* leave an older version behind; it does not stay for good where the writer
\* declares a positive ttl, or declares none and cache.ttl is positive.  With
\* cache.ttl as shipped, 0, what is written without a ttl of its own has no
\* lifetime, and an older version stays until it is next written or deleted.
Stale(k) == entry[k].value # None /\ entry[k].value # source
Bounded(k) == DeclaredTtl[k] \in Nat \ {0} \/ (DeclaredTtl[k] = Unset /\ DefaultTtl # 0)
StaleEnds == \A k \in Keys : Bounded(k) => (Stale(k) ~> ~Stale(k))

\* A request the response cache is asked for is served, whatever becomes of
\* Redis and of the other callers' commands.
ResponsesAreServed ==
  \A c \in Callers : (call[c].op = "respond" /\ ~call[c].served) ~> call[c].served
=============================================================================
