----------------------- MODULE AssistantConversation -----------------------
(***************************************************************************)
(* The conversations of one account: turns, the answer versions of a turn, *)
(* which version is selected, and the context a question is sent with.     *)
(* A request is the statements between two of its awaits.  The publishing  *)
(* transactions hold the account lock from their reads, which see one      *)
(* snapshot, to their inserts; the worker admits under the same lock, and  *)
(* selectAnswer, selectModel, stopAnswer, deleteConversation and the rest  *)
(* of the worker take no lock at all.                                      *)
(*                                                                         *)
(* Keys and the queue are AssistantGeneration's: here a key is found or    *)
(* the request is refused, and an answer may fail at any moment.  Titles,  *)
(* texts and consent are left out.                                         *)
(***************************************************************************)
EXTENDS Naturals, Sequences, FiniteSets

CONSTANTS Conversations, Turns, Answers, Providers,
          Requests,                          \* HTTP requests in progress
          NoConversation, NoTurn, NoAnswer, NoProvider,
          MaxCrashes                         \* bound on restarts

ASSUME ConversationNulls ==
  /\ NoConversation \notin Conversations
  /\ NoTurn \notin Turns
  /\ NoAnswer \notin Answers
  /\ NoProvider \notin Providers
ASSUME AnswersAreFinite == IsFiniteSet(Answers)    \* versions are counted
ASSUME CrashBound == MaxCrashes \in Nat

VARIABLES
  conversation,  \* assistant_conversation rows
  turns,         \* assistant_turn rows of a conversation by createdAt
  turn,          \* selectedAnswerId and contextSnapshot of a turn
  answer,        \* assistant_answer rows
  request,       \* what each request has read and does next
  worker,        \* the answer the worker generates
  missed,        \* history: answers left between completeAnswer's statements
  crashes

store == <<conversation, turns, turn, answer>>
conversationVars == <<store, request, worker, missed, crashes>>

Active == {"queued", "generating"}
Statuses == {"absent", "removed", "completed", "failed", "stopped"} \cup Active

NoConversationRow == [row |-> "none", provider |-> NoProvider]
NoTurnRow == [used |-> FALSE, selected |-> NoAnswer, context |-> <<>>]
NoAnswerRow == [status |-> "absent", turn |-> NoTurn, version |-> 0,
                provider |-> NoProvider]
RemovedAnswer == [NoAnswerRow EXCEPT !.status = "removed"]
IdleRequest == [pc |-> "idle", conversation |-> NoConversation, turn |-> NoTurn,
                answer |-> NoAnswer, provider |-> NoProvider,
                context |-> <<>>, version |-> 0]
IdleWorker == [pc |-> "idle", answer |-> NoAnswer]

ConversationInit ==
  /\ conversation = [c \in Conversations |-> NoConversationRow]
  /\ turns = [c \in Conversations |-> <<>>]
  /\ turn = [t \in Turns |-> NoTurnRow]
  /\ answer = [a \in Answers |-> NoAnswerRow]
  /\ request = [r \in Requests |-> IdleRequest]
  /\ worker = IdleWorker
  /\ missed = {}
  /\ crashes = 0

-----------------------------------------------------------------------------
Stored(c) == c \in Conversations /\ conversation[c].row = "stored"
TurnsOf(c) == {turns[c][i] : i \in 1..Len(turns[c])}
Latest(c) == IF turns[c] = <<>> THEN NoTurn ELSE turns[c][Len(turns[c])]
ActiveAnswers == {a \in Answers : answer[a].status \in Active}
VersionsOf(t) == {a \in Answers : answer[a].turn = t}
SlotIsFree == ActiveAnswers = {}    \* the unique index on activeUserId

\* The account's user row, which SELECT ... FOR UPDATE locks.
AccountIsFree == \A r \in Requests : request[r].pc \notin {"insert", "regenerate"}

Idle(r) == request[r].pc = "idle"
Await(r, next) == request' = [request EXCEPT ![r] = next]
Finish(r) == request' = [request EXCEPT ![r] = IdleRequest]

\* The request is refused, throws, or its statement fails.
Abort(r) ==
  /\ ~Idle(r)
  /\ Finish(r)
  /\ UNCHANGED <<store, worker, missed, crashes>>

-----------------------------------------------------------------------------
(* Questions *)

\* ownedConversation, chooseModel and the provider check, before the lock.
SendReads(r, c, p, confirmed) ==
  /\ Idle(r)
  /\ c # NoConversation =>
       /\ Stored(c)
       /\ conversation[c].provider = p \/ confirmed
  /\ Await(r, [IdleRequest EXCEPT !.pc = "publish", !.conversation = c, !.provider = p])
  /\ UNCHANGED <<store, worker, missed, crashes>>

Queued(t, version, p) ==
  [status |-> "queued", turn |-> t, version |-> version, provider |-> p]

Context_AnyVersion(c) ==
  [i \in 1..Len(turns[c]) |->
     IF VersionsOf(turns[c][i]) = {} THEN NoAnswer
     ELSE CHOOSE a \in VersionsOf(turns[c][i]) :
            \A b \in VersionsOf(turns[c][i]) : answer[b].version <= answer[a].version]

\* Every earlier question, with its selected answer if that is completed.
Context(c) ==
  [i \in 1..Len(turns[c]) |->
     LET a == turn[turns[c][i]].selected
     IN IF a # NoAnswer /\ answer[a].status = "completed" THEN a ELSE NoAnswer]

\* The lock, then ownedConversation and previousTurns of one snapshot ...
SendLocks(r) ==
  LET c == request[r].conversation
  IN /\ request[r].pc = "publish"
     /\ AccountIsFree
     /\ c # NoConversation => Stored(c)
     /\ Await(r, [request[r] EXCEPT !.pc = "insert",
                    !.context = IF c = NoConversation THEN <<>> ELSE Context(c)])
     /\ UNCHANGED <<store, worker, missed, crashes>>

Publish(c, p, context, t, a) ==
  /\ SlotIsFree
  /\ ~turn[t].used
  /\ answer[a].status = "absent"
  /\ conversation' = [conversation EXCEPT ![c] = [row |-> "stored", provider |-> p]]
  /\ turn' = [turn EXCEPT ![t] = [used |-> TRUE, selected |-> NoAnswer, context |-> context]]
  /\ turns' = [turns EXCEPT ![c] = Append(@, t)]
  /\ answer' = [answer EXCEPT ![a] = Queued(t, 1, p)]

SendInserts_Unchecked(r) ==
  /\ request[r].pc = "insert"
  /\ \E c \in Conversations, t \in Turns, a \in Answers :
       /\ \/ c = request[r].conversation
          \/ request[r].conversation = NoConversation /\ conversation[c].row = "none"
       /\ IF conversation[c].row # "removed"
          THEN Publish(c, request[r].provider, request[r].context, t, a)
          ELSE /\ SlotIsFree
               /\ answer[a].status = "absent"
               /\ ~turn[t].used
               /\ turn' = [turn EXCEPT ![t].used = TRUE]
               /\ turns' = [turns EXCEPT ![c] = Append(@, t)]
               /\ answer' = [answer EXCEPT ![a] = Queued(t, 1, request[r].provider)]
               /\ UNCHANGED conversation
  /\ Finish(r)
  /\ UNCHANGED <<worker, missed, crashes>>

\* ... and the inserts with their commit; the foreign key needs the
\* conversation, which deleteConversation may have taken meanwhile.
SendInserts(r) ==
  /\ request[r].pc = "insert"
  /\ \E c \in Conversations, t \in Turns, a \in Answers :
       /\ \/ c = request[r].conversation /\ Stored(c)
          \/ request[r].conversation = NoConversation /\ conversation[c].row = "none"
       /\ Publish(c, request[r].provider, request[r].context, t, a)
  /\ Finish(r)
  /\ UNCHANGED <<worker, missed, crashes>>

RegenerateLocks_NoLock(r, c) ==
  /\ Idle(r)
  /\ Stored(c)
  /\ Latest(c) # NoTurn
  /\ Await(r, [IdleRequest EXCEPT !.pc = "regenerate", !.turn = Latest(c),
                 !.provider = conversation[c].provider,
                 !.version = Cardinality(VersionsOf(Latest(c))) + 1])
  /\ UNCHANGED <<store, worker, missed, crashes>>

\* The lock, then the reads of one snapshot.  The version is MAX + 1, and
\* versions are never deleted singly.
RegenerateLocks(r, c) ==
  /\ Idle(r)
  /\ AccountIsFree
  /\ Stored(c)
  /\ Latest(c) # NoTurn
  /\ Await(r, [IdleRequest EXCEPT !.pc = "regenerate", !.turn = Latest(c),
                 !.provider = conversation[c].provider,
                 !.version = Cardinality(VersionsOf(Latest(c))) + 1])
  /\ UNCHANGED <<store, worker, missed, crashes>>

\* The insert and its commit; the foreign key needs the turn.
RegenerateInserts(r) ==
  LET t == request[r].turn
  IN /\ request[r].pc = "regenerate"
     /\ \E c \in Conversations : t \in TurnsOf(c)
     /\ SlotIsFree
     /\ \A b \in VersionsOf(t) : answer[b].version # request[r].version
     /\ \E a \in Answers :
          /\ answer[a].status = "absent"
          /\ answer' = [answer EXCEPT ![a] =
               Queued(t, request[r].version, request[r].provider)]
     /\ Finish(r)
     /\ UNCHANGED <<conversation, turns, turn, worker, missed, crashes>>

-----------------------------------------------------------------------------
(* Choices, without a lock *)

SelectReads(r, c, a) ==
  /\ Idle(r)
  /\ Stored(c)
  /\ answer[a].turn = Latest(c)
  /\ answer[a].status = "completed"
  /\ Await(r, [IdleRequest EXCEPT !.pc = "select", !.turn = Latest(c), !.answer = a])
  /\ UNCHANGED <<store, worker, missed, crashes>>

\* UPDATE by id: it finds no row once the conversation is deleted.
Select(t, a) ==
  IF \E c \in Conversations : t \in TurnsOf(c)
  THEN turn' = [turn EXCEPT ![t].selected = a]
  ELSE UNCHANGED turn

SelectWrites(r) ==
  /\ request[r].pc = "select"
  /\ Select(request[r].turn, request[r].answer)
  /\ Finish(r)
  /\ UNCHANGED <<conversation, turns, answer, worker, missed, crashes>>

SelectModelReads(r, c, p, confirmed) ==
  /\ Idle(r)
  /\ Stored(c)
  /\ conversation[c].provider = p \/ confirmed
  /\ Await(r, [IdleRequest EXCEPT !.pc = "selectModel", !.conversation = c, !.provider = p])
  /\ UNCHANGED <<store, worker, missed, crashes>>

SelectModelWrites(r) ==
  LET c == request[r].conversation
  IN /\ request[r].pc = "selectModel"
     /\ conversation' = IF Stored(c) THEN [conversation EXCEPT ![c].provider = request[r].provider]
                        ELSE conversation
     /\ Finish(r)
     /\ UNCHANGED <<turns, turn, answer, worker, missed, crashes>>

Settle_Unconditional(a, outcome) ==
  answer' = [answer EXCEPT ![a].status = outcome]

\* One conditional UPDATE; the abort of the stream is AssistantGeneration's.
Settle(a, outcome) ==
  IF answer[a].status \in Active
  THEN answer' = [answer EXCEPT ![a].status = outcome]
  ELSE UNCHANGED answer

StopAnswer(r, a) ==
  /\ Idle(r)
  /\ answer[a].turn # NoTurn
  /\ Settle(a, "stopped")
  /\ UNCHANGED <<conversation, turns, turn, request, worker, missed, crashes>>

-----------------------------------------------------------------------------
(* Deletion: read the active answers, stop each, delete the conversation *)

DeleteReads(r, c) ==
  /\ Idle(r)
  /\ Stored(c)
  /\ LET active == {a \in ActiveAnswers : answer[a].turn \in TurnsOf(c)}
     IN IF active = {}
        THEN Await(r, [IdleRequest EXCEPT !.pc = "delete", !.conversation = c])
        ELSE \E a \in active :
               Await(r, [IdleRequest EXCEPT !.pc = "stop", !.conversation = c, !.answer = a])
  /\ UNCHANGED <<store, worker, missed, crashes>>

DeleteStops(r) ==
  /\ request[r].pc = "stop"
  /\ answer[request[r].answer].turn # NoTurn
  /\ Settle(request[r].answer, "stopped")
  /\ Await(r, [request[r] EXCEPT !.pc = "delete"])
  /\ UNCHANGED <<conversation, turns, turn, worker, missed, crashes>>

\* The foreign keys cascade to turns and answers, whatever came meanwhile.
DeleteRow(r) ==
  LET c == request[r].conversation
  IN /\ request[r].pc = "delete"
     /\ conversation' = [conversation EXCEPT ![c] = [NoConversationRow EXCEPT !.row = "removed"]]
     /\ answer' = [a \in Answers |-> IF answer[a].turn \in TurnsOf(c) THEN RemovedAnswer
                                     ELSE answer[a]]
     /\ turn' = [t \in Turns |-> IF t \in TurnsOf(c) THEN [NoTurnRow EXCEPT !.used = TRUE]
                                 ELSE turn[t]]
     /\ turns' = [turns EXCEPT ![c] = <<>>]
     /\ Finish(r)
     /\ UNCHANGED <<worker, missed, crashes>>

-----------------------------------------------------------------------------
(* The worker *)

\* The account lock, and the conditional UPDATE of the row.
Admit(a) ==
  /\ worker.pc = "idle"
  /\ AccountIsFree
  /\ answer[a].status = "queued"
  /\ answer' = [answer EXCEPT ![a].status = "generating"]
  /\ worker' = [pc |-> "generating", answer |-> a]
  /\ UNCHANGED <<conversation, turns, turn, request, missed, crashes>>

\* completeAnswer's first UPDATE ...
CompleteAnswer ==
  LET a == worker.answer
  IN /\ worker.pc = "generating"
     /\ answer' = IF answer[a].status = "generating"
                  THEN [answer EXCEPT ![a].status = "completed"] ELSE answer
     /\ worker' = [worker EXCEPT !.pc = "select"]
     /\ UNCHANGED <<conversation, turns, turn, request, missed, crashes>>

SelectCompleted_Unguarded ==
  LET a == worker.answer
  IN /\ worker.pc = "select"
     /\ IF answer[a].turn # NoTurn
        THEN turn' = [turn EXCEPT ![answer[a].turn].selected = a]
        ELSE UNCHANGED turn
     /\ worker' = IdleWorker
     /\ UNCHANGED <<conversation, turns, answer, request, missed, crashes>>

\* ... and its second, a statement of its own ...
SelectCompleted ==
  LET a == worker.answer
  IN /\ worker.pc = "select"
     /\ IF answer[a].status = "completed"
        THEN turn' = [turn EXCEPT ![answer[a].turn].selected = a]
        ELSE UNCHANGED turn
     /\ worker' = IdleWorker
     /\ UNCHANGED <<conversation, turns, answer, request, missed, crashes>>

\* ... which may fail: generate then finds the answer no longer generating,
\* logs and returns.
SelectFails ==
  /\ worker.pc = "select"
  /\ missed' = missed \cup {worker.answer}
  /\ worker' = IdleWorker
  /\ UNCHANGED <<store, request, crashes>>

\* The worker returns without completing: nothing was sent, it failed, or
\* it was cancelled.
WorkerReturns ==
  /\ worker.pc = "generating"
  /\ worker' = IdleWorker
  /\ UNCHANGED <<store, request, missed, crashes>>

\* failAnswer, by the worker or after a failed publication.
FailAnswer(a) ==
  /\ answer[a].status \in Active
  /\ Settle(a, "failed")
  /\ UNCHANGED <<conversation, turns, turn, request, worker, missed, crashes>>

\* The process dies; onModuleInit fails what was generating.
Restart ==
  /\ crashes < MaxCrashes
  /\ crashes' = crashes + 1
  /\ request' = [r \in Requests |-> IdleRequest]
  /\ worker' = IdleWorker
  /\ missed' = IF worker.pc = "select" THEN missed \cup {worker.answer} ELSE missed
  /\ answer' = [a \in Answers |-> IF answer[a].status = "generating"
                                  THEN [answer[a] EXCEPT !.status = "failed"] ELSE answer[a]]
  /\ UNCHANGED <<conversation, turns, turn>>

-----------------------------------------------------------------------------
RequestNext(r) ==
  \/ \E c \in Conversations \cup {NoConversation}, p \in Providers, confirmed \in BOOLEAN :
       SendReads(r, c, p, confirmed)
  \/ SendLocks(r) \/ SendInserts(r)
  \/ \E c \in Conversations :
       \/ RegenerateLocks(r, c)
       \/ DeleteReads(r, c)
       \/ \E a \in Answers : SelectReads(r, c, a)
       \/ \E p \in Providers, confirmed \in BOOLEAN : SelectModelReads(r, c, p, confirmed)
  \/ \E a \in Answers : StopAnswer(r, a)
  \/ RegenerateInserts(r)
  \/ SelectWrites(r) \/ SelectModelWrites(r) \/ DeleteStops(r) \/ DeleteRow(r)
  \/ Abort(r)

WorkerNext ==
  \/ \E a \in Answers : Admit(a) \/ FailAnswer(a)
  \/ CompleteAnswer \/ SelectCompleted \/ SelectFails \/ WorkerReturns

ConversationNext == (\E r \in Requests : RequestNext(r)) \/ WorkerNext \/ Restart

ConversationSpec == ConversationInit /\ [][ConversationNext]_conversationVars

-----------------------------------------------------------------------------
ConversationRows == [row : {"none", "stored", "removed"}, provider : Providers \cup {NoProvider}]
TurnRows == [used : BOOLEAN, selected : Answers \cup {NoAnswer},
             context : Seq(Answers \cup {NoAnswer})]
AnswerRows == [status : Statuses, turn : Turns \cup {NoTurn}, version : Nat,
               provider : Providers \cup {NoProvider}]
RequestLocals == [pc : {"idle", "publish", "insert", "regenerate", "select", "selectModel",
                        "stop", "delete"},
                  conversation : Conversations \cup {NoConversation},
                  turn : Turns \cup {NoTurn}, answer : Answers \cup {NoAnswer},
                  provider : Providers \cup {NoProvider},
                  context : Seq(Answers \cup {NoAnswer}), version : Nat]
WorkerLocals == [pc : {"idle", "generating", "select"}, answer : Answers \cup {NoAnswer}]

\* A request or the worker that uses an identifier really has one.
HasItsData(q) ==
  /\ q.pc \in {"publish", "insert", "selectModel"} => q.provider \in Providers
  /\ q.pc \in {"regenerate", "select"} => q.turn \in Turns
  /\ q.pc \in {"select", "stop"} => q.answer \in Answers
  /\ q.pc \in {"selectModel", "stop", "delete"} => q.conversation \in Conversations

(***************************************************************************)
(* The type of every row and of what a request or the worker holds between *)
(* two statements.                                                         *)
(***************************************************************************)
ConversationTypeOK ==
  /\ conversation \in [Conversations -> ConversationRows]
  /\ turns \in [Conversations -> Seq(Turns)]
  /\ turn \in [Turns -> TurnRows]
  /\ answer \in [Answers -> AnswerRows]
  /\ request \in [Requests -> {q \in RequestLocals : HasItsData(q)}]
  /\ worker \in {w \in WorkerLocals : w.pc # "idle" => w.answer \in Answers}
  /\ missed \subseteq Answers
  /\ crashes \in Nat

(***************************************************************************)
(* The context a question is sent with holds only completed answers, one   *)
(* place for each earlier turn: text of a stopped or failed version never  *)
(* goes back to the provider, and no turn published after the context was  *)
(* read is missing from it (sendQuestion).                                 *)
(***************************************************************************)
ContextIsCompleted ==
  \A c \in Conversations : \A i \in 1..Len(turns[c]) :
    LET context == turn[turns[c][i]].context
    IN /\ Len(context) = i - 1
       /\ \A j \in 1..Len(context) : context[j] # NoAnswer =>
            /\ answer[context[j]].turn = turns[c][j]
            /\ answer[context[j]].status = "completed"

(***************************************************************************)
(* Whatever request deletes a conversation while another publishes into    *)
(* it, an answer that holds the account's only slot belongs to a           *)
(* conversation the owner can still open, and stop it from.                *)
(***************************************************************************)
ActiveIsReachable ==
  \A a \in ActiveAnswers : \E c \in Conversations :
    Stored(c) /\ answer[a].turn \in TurnsOf(c)

(***************************************************************************)
(* "Only the latest answer can be regenerated": a version is added to a    *)
(* turn only while no later turn has used that turn's selection, although  *)
(* regenerate reads which turn is the latest before it inserts: between    *)
(* the two another request may send, stop, select or delete.               *)
(***************************************************************************)
OnlyLatestGrows ==
  [][\A a \in Answers :
       (answer[a].status = "absent" /\ answer'[a].status = "queued")
       => \E c \in Conversations : answer'[a].turn = (Latest(c))']_conversationVars

(***************************************************************************)
(* A turn shows only a finished version of its own, and shows one as soon  *)
(* as the worker has left completeAnswer for a finished version.  The      *)
(* exception is an answer left between completeAnswer's two statements,    *)
(* by a second statement that failed or by a restart: it stays completed   *)
(* and unselected until its owner selects it.  Selections come from two    *)
(* writers, the worker and the owner, neither of which holds a lock, and   *)
(* a stop may land between the two statements.                             *)
(***************************************************************************)
CompletedIsShown ==
  /\ \A t \in Turns : turn[t].selected # NoAnswer =>
       /\ answer[turn[t].selected].turn = t
       /\ answer[turn[t].selected].status = "completed"
  /\ \A a \in Answers \ missed :
       /\ answer[a].status = "completed"
       /\ worker # [pc |-> "select", answer |-> a]
       => turn[answer[a].turn].selected # NoAnswer

(***************************************************************************)
(* Every statement here on an answer row is a step of its abstract life.   *)
(***************************************************************************)
Life == INSTANCE AnswerLifecycle
  WITH Users <- {"owner"}, AnswerUser <- [a \in Answers |-> "owner"],
       status <- [a \in Answers |-> answer[a].status]
LifecycleSpec == Life!LifecycleSpec
=============================================================================
