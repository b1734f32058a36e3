---------------------- MODULE AssistantServicesProofs ----------------------
(***************************************************************************)
(* Theorems of the owner's side of the assistant, AssistantConversation    *)
(* and AssistantConfiguration, for every set of rows, requests and keys    *)
(* and every bound.                                                        *)
(***************************************************************************)
EXTENDS AssistantConversation, AssistantConfiguration, SequenceTheorems, FiniteSetTheorems, TLAPS

----------------------------------------------------------------------------
(* Conversations: the invariant.                                           *)

\* A turn is used, belongs to one conversation, at one place of it, and that
\* conversation is stored.
TurnsAreOwn ==
  /\ \A c \in Conversations : \A i \in 1..Len(turns[c]) : turn[turns[c][i]].used
  /\ \A c, d \in Conversations : \A i \in 1..Len(turns[c]), j \in 1..Len(turns[d]) :
       turns[c][i] = turns[d][j] => c = d /\ i = j
  /\ \A c \in Conversations : turns[c] # <<>> => conversation[c].row = "stored"

\* A row that is there is a version of a turn that is there.
AnswersBelong ==
  \A a \in Answers :
    /\ answer[a].status \in {"absent", "removed"} <=> answer[a].turn = NoTurn
    /\ answer[a].turn # NoTurn => \E c \in Conversations : answer[a].turn \in TurnsOf(c)

\* A selection that was read and not yet written is still right, unless its
\* turn has gone.
SelectionsHold ==
  \A r \in Requests : request[r].pc = "select" =>
    /\ turn[request[r].turn].used
    /\ (\E c \in Conversations : request[r].turn \in TurnsOf(c)) =>
         /\ answer[request[r].answer].turn = request[r].turn
         /\ answer[request[r].answer].status = "completed"

\* The account's one slot.
OneActive ==
  \A a, b \in Answers :
    answer[a].status \in Active /\ answer[b].status \in Active => a = b

\* The two halves of CompletedIsShown.
ShownAreOwn ==
  \A t \in Turns : turn[t].selected # NoAnswer =>
    /\ answer[turn[t].selected].turn = t
    /\ answer[turn[t].selected].status = "completed"

FinishedAreShown ==
  \A a \in Answers \ missed :
    /\ answer[a].status = "completed"
    /\ worker # [pc |-> "select", answer |-> a]
    => turn[answer[a].turn].selected # NoAnswer

\* ContextIsCompleted of one turn.
ContextFits(c, i) ==
  LET context == turn[turns[c][i]].context
  IN /\ Len(context) = i - 1
     /\ \A j \in 1..Len(context) : context[j] # NoAnswer =>
          /\ answer[context[j]].turn = turns[c][j]
          /\ answer[context[j]].status = "completed"

ConversationInv ==
  /\ TurnsAreOwn
  /\ AnswersBelong
  /\ SelectionsHold
  /\ OneActive
  /\ ContextIsCompleted
  /\ ShownAreOwn
  /\ FinishedAreShown

(***************************************************************************)
(* The transactions.  The account lock lets in one request at a time, so   *)
(* that what it has read stays right until it inserts: only a deletion     *)
(* takes it away, and then the insert fails.                               *)
(***************************************************************************)
InTransaction(r) == request[r].pc \in {"insert", "regenerate"}

OneTransaction ==
  \A r, q \in Requests : InTransaction(r) /\ InTransaction(q) => r = q

\* A context that was read: a completed answer, or none, for every turn.
Answered(context, earlier, answers) ==
  /\ Len(context) = Len(earlier)
  /\ \A j \in 1..Len(context) : context[j] # NoAnswer =>
       /\ answers[context[j]].turn = earlier[j]
       /\ answers[context[j]].status = "completed"

ContextsHold ==
  \A r \in Requests : request[r].pc = "insert" =>
    /\ request[r].conversation = NoConversation => request[r].context = <<>>
    /\ \A c \in Conversations : request[r].conversation = c /\ Stored(c) =>
         Answered(request[r].context, turns[c], answer)

LatestHolds ==
  \A r \in Requests : request[r].pc = "regenerate" =>
    \A c \in Conversations : request[r].turn \in TurnsOf(c) => request[r].turn = Latest(c)

TransactionInv == OneTransaction /\ ContextsHold /\ LatestHolds

USE DEF store

LEMMA AnswersType ==
  ASSUME ConversationTypeOK, NEW a \in Answers
  PROVE  /\ answer[a].status \in Statuses
         /\ answer[a].turn \in Turns \cup {NoTurn}
         /\ answer[a].version \in Nat
         /\ answer[a].provider \in Providers \cup {NoProvider}
  BY DEF ConversationTypeOK, AnswerRows

LEMMA InitConversation == ConversationInit => ConversationTypeOK /\ ConversationInv /\ TransactionInv
<1> SUFFICES ASSUME ConversationInit
             PROVE  ConversationTypeOK /\ ConversationInv /\ TransactionInv
  OBVIOUS
<1> USE DEF ConversationInit
<1>1. ConversationTypeOK
  BY CrashBound, EmptySeq
     DEF ConversationTypeOK, ConversationRows, TurnRows, AnswerRows, RequestLocals, WorkerLocals,
         HasItsData, NoConversationRow, NoTurnRow, NoAnswerRow, IdleRequest, IdleWorker,
         Statuses, Active
<1>2. \A c \in Conversations : Len(turns[c]) = 0 /\ turns[c] = <<>>
  BY EmptySeq
<1>3. TurnsAreOwn
  BY <1>2 DEF TurnsAreOwn
<1>4. AnswersBelong
  BY DEF AnswersBelong, NoAnswerRow
<1>5. SelectionsHold
  BY DEF SelectionsHold, IdleRequest
<1>6. OneActive
  BY DEF OneActive, NoAnswerRow, Active
<1>7. ContextIsCompleted
  BY <1>2 DEF ContextIsCompleted
<1>8. ShownAreOwn /\ FinishedAreShown
  BY DEF ShownAreOwn, FinishedAreShown, NoAnswerRow, NoTurnRow
<1>9. TransactionInv
  BY DEF TransactionInv, OneTransaction, InTransaction, ContextsHold, LatestHolds, IdleRequest
<1> QED BY <1>1, <1>3, <1>4, <1>5, <1>6, <1>7, <1>8, <1>9 DEF ConversationInv

\* The context of a turn to come, one entry for every turn before it.
LEMMA ContextType ==
  ASSUME ConversationTypeOK, NEW c \in Conversations
  PROVE  /\ Context(c) \in Seq(Answers \cup {NoAnswer})
         /\ Len(Context(c)) = Len(turns[c])
         /\ \A i \in 1..Len(turns[c]) :
              Context(c)[i] = LET a == turn[turns[c][i]].selected
                              IN IF a # NoAnswer /\ answer[a].status = "completed" THEN a
                                 ELSE NoAnswer
<1> DEFINE n == Len(turns[c])
<1>1. turns[c] \in Seq(Turns) /\ n \in Nat
  BY LenProperties DEF ConversationTypeOK
<1>2. \A i \in 1..n : turn[turns[c][i]].selected \in Answers \cup {NoAnswer}
  BY <1>1, ElementOfSeq DEF ConversationTypeOK, TurnRows
<1>3. Context(c) \in [1..n -> Answers \cup {NoAnswer}]
  BY <1>2 DEF Context
<1>4. Context(c) \in Seq(Answers \cup {NoAnswer})
  BY <1>1, <1>3, SeqDef
<1>5. Len(Context(c)) = n
  BY <1>1, <1>3, <1>4, LenProperties
<1> QED BY <1>4, <1>5 DEF Context

LEMMA VersionType ==
  ASSUME NEW t
  PROVE  Cardinality(VersionsOf(t)) + 1 \in Nat
  BY AnswersAreFinite, FS_Subset, FS_CardinalityType DEF VersionsOf

----------------------------------------------------------------------------
(* Types.                                                                  *)

LEMMA RequestType ==
  ASSUME ConversationTypeOK, NEW r \in Requests
  PROVE  /\ request[r] \in RequestLocals
         /\ HasItsData(request[r])
  BY DEF ConversationTypeOK

LEMMA AwaitType ==
  ASSUME ConversationTypeOK, NEW r \in Requests,
         NEW next \in RequestLocals, HasItsData(next), Await(r, next)
  PROVE  request' \in [Requests -> {q \in RequestLocals : HasItsData(q)}]
<1> DEFINE S == {q \in RequestLocals : HasItsData(q)}
<1>1. next \in S /\ request \in [Requests -> S]
  BY DEF ConversationTypeOK
<1> HIDE DEF S
<1>2. request' \in [Requests -> S]
  BY <1>1 DEF Await
<1> QED BY <1>2 DEF S

LEMMA FinishType ==
  ASSUME ConversationTypeOK, NEW r \in Requests, Finish(r)
  PROVE  request' \in [Requests -> {q \in RequestLocals : HasItsData(q)}]
<1>1. IdleRequest \in RequestLocals /\ HasItsData(IdleRequest)
  BY EmptySeq DEF IdleRequest, RequestLocals, HasItsData
<1> QED BY <1>1, AwaitType DEF Finish, Await

\* What a request reads and asks for: only its own locals change.
LEMMA ReadsType ==
  ASSUME ConversationTypeOK, ConversationInv, NEW r \in Requests,
         \/ \E c \in Conversations \cup {NoConversation}, p \in Providers, confirmed \in BOOLEAN :
              SendReads(r, c, p, confirmed)
         \/ \E c \in Conversations, a \in Answers : SelectReads(r, c, a)
         \/ \E c \in Conversations, p \in Providers, confirmed \in BOOLEAN :
              SelectModelReads(r, c, p, confirmed)
         \/ \E c \in Conversations : DeleteReads(r, c)
         \/ Abort(r)
  PROVE  ConversationTypeOK'
<1> USE DEF IdleRequest, RequestLocals, HasItsData
<1>1. ASSUME NEW c \in Conversations \cup {NoConversation}, NEW p \in Providers,
             NEW confirmed \in BOOLEAN, SendReads(r, c, p, confirmed)
      PROVE  ConversationTypeOK'
  <2> DEFINE next == [IdleRequest EXCEPT !.pc = "publish", !.conversation = c, !.provider = p]
  <2>1. next \in RequestLocals /\ HasItsData(next)
    BY EmptySeq
  <2> QED BY <1>1, <2>1, AwaitType DEF SendReads, ConversationTypeOK
<1>2. ASSUME NEW c \in Conversations, NEW a \in Answers, SelectReads(r, c, a)
      PROVE  ConversationTypeOK'
  <2> DEFINE next == [IdleRequest EXCEPT !.pc = "select", !.turn = Latest(c), !.answer = a]
  <2>1. Latest(c) \in Turns
    BY <1>2, AnswersType DEF SelectReads, ConversationInv, AnswersBelong
  <2>2. next \in RequestLocals /\ HasItsData(next)
    BY <2>1, EmptySeq
  <2> QED BY <1>2, <2>2, AwaitType DEF SelectReads, ConversationTypeOK
<1>3. ASSUME NEW c \in Conversations, NEW p \in Providers, NEW confirmed \in BOOLEAN,
             SelectModelReads(r, c, p, confirmed)
      PROVE  ConversationTypeOK'
  <2> DEFINE next == [IdleRequest EXCEPT !.pc = "selectModel", !.conversation = c, !.provider = p]
  <2>1. next \in RequestLocals /\ HasItsData(next)
    BY EmptySeq
  <2> QED BY <1>3, <2>1, AwaitType DEF SelectModelReads, ConversationTypeOK
<1>4. ASSUME NEW c \in Conversations, DeleteReads(r, c)
      PROVE  ConversationTypeOK'
  <2> DEFINE del == [IdleRequest EXCEPT !.pc = "delete", !.conversation = c]
             stop(a) == [IdleRequest EXCEPT !.pc = "stop", !.conversation = c, !.answer = a]
  <2>1. del \in RequestLocals /\ HasItsData(del)
    BY EmptySeq
  <2>2. \A a \in Answers : stop(a) \in RequestLocals /\ HasItsData(stop(a))
    BY EmptySeq
  <2>3. Await(r, del) \/ \E a \in Answers : Await(r, stop(a))
    BY <1>4 DEF DeleteReads, ActiveAnswers
  <2> HIDE DEF del, stop
  <2>4. request' \in [Requests -> {q \in RequestLocals : HasItsData(q)}]
    <3> HIDE DEF RequestLocals, HasItsData
    <3> QED BY <2>1, <2>2, <2>3, AwaitType
  <2> QED BY <1>4, <2>4 DEF DeleteReads, ConversationTypeOK
<1>5. ASSUME Abort(r)
      PROVE  ConversationTypeOK'
  BY <1>5, FinishType DEF Abort, ConversationTypeOK
<1> QED BY <1>1, <1>2, <1>3, <1>4, <1>5

\* Rows of answers change their status only.
LEMMA StatusType ==
  ASSUME ConversationTypeOK, NEW a \in Answers, NEW outcome \in Statuses,
         answer' = [answer EXCEPT ![a].status = outcome]
  PROVE  answer' \in [Answers -> AnswerRows]
<1>1. [answer[a] EXCEPT !.status = outcome] \in AnswerRows
  BY DEF ConversationTypeOK, AnswerRows
<1> HIDE DEF AnswerRows
<1> QED BY <1>1 DEF ConversationTypeOK

LEMMA SettleType ==
  ASSUME ConversationTypeOK, NEW a \in Answers, NEW outcome \in Statuses,
         Settle(a, outcome)
  PROVE  answer' \in [Answers -> AnswerRows]
  BY StatusType DEF Settle, ConversationTypeOK

\* Turns change what they select only.
LEMMA SelectedType ==
  ASSUME ConversationTypeOK, NEW t \in Turns, NEW a \in Answers,
         turn' = [turn EXCEPT ![t].selected = a]
  PROVE  turn' \in [Turns -> TurnRows]
<1>1. [turn[t] EXCEPT !.selected = a] \in TurnRows
  BY DEF ConversationTypeOK, TurnRows
<1> QED BY <1>1 DEF ConversationTypeOK

LEMMA PublishType ==
  ASSUME ConversationTypeOK, NEW r \in Requests, SendInserts(r)
  PROVE  ConversationTypeOK'
<1> PICK p, context : p = request[r].provider /\ context = request[r].context
  OBVIOUS
<1> PICK c \in Conversations, t \in Turns, a \in Answers : Publish(c, p, context, t, a)
  BY DEF SendInserts
<1>1. p \in Providers /\ context \in Seq(Answers \cup {NoAnswer})
  BY RequestType DEF SendInserts, HasItsData, RequestLocals
<1>2. conversation' \in [Conversations -> ConversationRows]
  BY <1>1 DEF ConversationTypeOK, Publish, ConversationRows
<1>3. turns' \in [Conversations -> Seq(Turns)]
  <2>1. turns[c] \in Seq(Turns)
    BY DEF ConversationTypeOK
  <2>2. Append(turns[c], t) \in Seq(Turns)
    BY <2>1, AppendProperties
  <2> QED BY <2>2 DEF ConversationTypeOK, Publish
<1>4. turn' \in [Turns -> TurnRows]
  BY <1>1 DEF ConversationTypeOK, Publish, TurnRows
<1>5. answer' \in [Answers -> AnswerRows]
  <2>1. Queued(t, 1, p) \in AnswerRows
    BY <1>1 DEF AnswerRows, Queued, Statuses, Active
  <2> QED BY <2>1 DEF ConversationTypeOK, Publish
<1> QED BY <1>2, <1>3, <1>4, <1>5, FinishType DEF ConversationTypeOK, SendInserts

LEMMA LatestTurn ==
  ASSUME ConversationTypeOK, NEW c \in Conversations, Latest(c) # NoTurn
  PROVE  Latest(c) \in Turns /\ Latest(c) \in TurnsOf(c)
<1>1. turns[c] \in Seq(Turns) /\ turns[c] # <<>>
  BY DEF Latest, ConversationTypeOK
<1>2. Len(turns[c]) \in Nat \ {0}
  BY <1>1, EmptySeq
<1> QED BY <1>1, <1>2, ElementOfSeq DEF Latest, TurnsOf

LEMMA RegenerateType ==
  ASSUME ConversationTypeOK, NEW r \in Requests, RegenerateInserts(r)
  PROVE  ConversationTypeOK'
<1> DEFINE row == Queued(request[r].turn, request[r].version, request[r].provider)
<1>1. PICK a \in Answers : answer' = [answer EXCEPT ![a] = row]
  BY DEF RegenerateInserts
<1>2. /\ request[r].turn \in Turns
      /\ request[r].version \in Nat
      /\ request[r].provider \in Providers \cup {NoProvider}
  BY RequestType DEF RegenerateInserts, HasItsData, RequestLocals
<1>3. row \in AnswerRows
  BY <1>2 DEF AnswerRows, Queued, Statuses, Active
<1> HIDE DEF row
<1>4. answer' \in [Answers -> AnswerRows]
  BY <1>1, <1>3 DEF ConversationTypeOK
<1> QED BY <1>4, FinishType DEF ConversationTypeOK, RegenerateInserts

\* A transaction takes the lock and reads.
LEMMA LocksType ==
  ASSUME ConversationTypeOK, NEW r \in Requests,
         SendLocks(r) \/ \E c \in Conversations : RegenerateLocks(r, c)
  PROVE  ConversationTypeOK'
<1>1. ASSUME SendLocks(r)
      PROVE  ConversationTypeOK'
  <2> PICK context : context = IF request[r].conversation = NoConversation THEN <<>>
                               ELSE Context(request[r].conversation)
    OBVIOUS
  <2> DEFINE next == [request[r] EXCEPT !.pc = "insert", !.context = context]
  <2>1. request[r] \in RequestLocals /\ request[r].provider \in Providers
    BY <1>1, RequestType DEF SendLocks, HasItsData
  <2>2. request[r].conversation # NoConversation => request[r].conversation \in Conversations
    BY <2>1 DEF RequestLocals
  <2>3. context \in Seq(Answers \cup {NoAnswer})
    BY <2>2, ContextType, EmptySeq
  <2>4. next \in RequestLocals /\ HasItsData(next)
    BY <2>1, <2>3 DEF RequestLocals, HasItsData
  <2>5. Await(r, next)
    BY <1>1 DEF SendLocks
  <2> HIDE DEF next
  <2> QED BY <1>1, <2>4, <2>5, AwaitType DEF SendLocks, ConversationTypeOK
<1>2. ASSUME NEW c \in Conversations, RegenerateLocks(r, c)
      PROVE  ConversationTypeOK'
  <2> PICK version, provider : /\ version = Cardinality(VersionsOf(Latest(c))) + 1
                               /\ provider = conversation[c].provider
    OBVIOUS
  <2> DEFINE next == [IdleRequest EXCEPT !.pc = "regenerate", !.turn = Latest(c),
                       !.provider = provider, !.version = version]
  <2>1. Latest(c) \in Turns
    BY <1>2, LatestTurn DEF RegenerateLocks
  <2>2. provider \in Providers \cup {NoProvider} /\ version \in Nat
    BY VersionType DEF ConversationTypeOK, ConversationRows
  <2>3. next \in RequestLocals /\ HasItsData(next)
    BY <2>1, <2>2, EmptySeq DEF IdleRequest, RequestLocals, HasItsData
  <2>4. Await(r, next)
    BY <1>2 DEF RegenerateLocks
  <2> HIDE DEF next
  <2> QED BY <1>2, <2>3, <2>4, AwaitType DEF RegenerateLocks, ConversationTypeOK
<1> QED BY <1>1, <1>2

\* The writes of the other requests.
LEMMA WritesType ==
  ASSUME ConversationTypeOK, NEW r \in Requests,
         \/ \E a \in Answers : StopAnswer(r, a)
         \/ SelectWrites(r)
         \/ SelectModelWrites(r)
         \/ DeleteStops(r)
         \/ DeleteRow(r)
  PROVE  ConversationTypeOK'
<1>1. ASSUME NEW a \in Answers, StopAnswer(r, a)
      PROVE  ConversationTypeOK'
  <2>1. answer' \in [Answers -> AnswerRows]
    BY <1>1, SettleType DEF StopAnswer, Statuses
  <2> QED BY <1>1, <2>1 DEF StopAnswer, ConversationTypeOK
<1>2. ASSUME SelectWrites(r)
      PROVE  ConversationTypeOK'
  <2>1. request[r].turn \in Turns /\ request[r].answer \in Answers
    BY <1>2, RequestType DEF SelectWrites, HasItsData
  <2>2. turn' \in [Turns -> TurnRows]
    BY <1>2, <2>1, SelectedType DEF SelectWrites, Select, ConversationTypeOK
  <2> QED BY <1>2, <2>2, FinishType DEF SelectWrites, ConversationTypeOK
<1>3. ASSUME SelectModelWrites(r)
      PROVE  ConversationTypeOK'
  <2>1. request[r].provider \in Providers
    BY <1>3, RequestType DEF SelectModelWrites, HasItsData
  <2>2. conversation' \in [Conversations -> ConversationRows]
    BY <1>3, <2>1 DEF SelectModelWrites, ConversationTypeOK, ConversationRows
  <2> QED BY <1>3, <2>2, FinishType DEF SelectModelWrites, ConversationTypeOK
<1>4. ASSUME DeleteStops(r)
      PROVE  ConversationTypeOK'
  <2> DEFINE next == [request[r] EXCEPT !.pc = "delete"]
  <2>1. request[r].answer \in Answers /\ request[r].conversation \in Conversations
    BY <1>4, RequestType DEF DeleteStops, HasItsData
  <2>2. answer' \in [Answers -> AnswerRows]
    BY <1>4, <2>1, SettleType DEF DeleteStops, Statuses
  <2>3. next \in RequestLocals /\ HasItsData(next)
    BY <2>1, RequestType DEF RequestLocals, HasItsData
  <2> HIDE DEF next
  <2>4. Await(r, next)
    BY <1>4 DEF DeleteStops, next
  <2> QED BY <1>4, <2>2, <2>3, <2>4, AwaitType DEF DeleteStops, ConversationTypeOK
<1>5. ASSUME DeleteRow(r)
      PROVE  ConversationTypeOK'
  <2>1. turns' \in [Conversations -> Seq(Turns)]
    BY <1>5, EmptySeq DEF DeleteRow, ConversationTypeOK
  <2>2. turn' \in [Turns -> TurnRows]
    BY <1>5, EmptySeq DEF DeleteRow, ConversationTypeOK, NoTurnRow, TurnRows
  <2>3. RemovedAnswer \in AnswerRows
    BY DEF RemovedAnswer, NoAnswerRow, Statuses, AnswerRows
  <2>4. answer' \in [Answers -> AnswerRows]
    BY <1>5, <2>3 DEF DeleteRow, ConversationTypeOK
  <2>5. conversation' \in [Conversations -> ConversationRows]
    BY <1>5 DEF DeleteRow, ConversationTypeOK, NoConversationRow, ConversationRows
  <2> QED BY <1>5, <2>1, <2>2, <2>4, <2>5, FinishType DEF DeleteRow, ConversationTypeOK
<1> QED BY <1>1, <1>2, <1>3, <1>4, <1>5

LEMMA WorkerType ==
  ASSUME ConversationTypeOK, WorkerNext \/ Restart
  PROVE  ConversationTypeOK'
<1>0. IdleWorker \in WorkerLocals /\ IdleWorker.pc = "idle"
  BY DEF IdleWorker, WorkerLocals
<1>1. ASSUME NEW a \in Answers, Admit(a)
      PROVE  ConversationTypeOK'
  <2>1. answer' \in [Answers -> AnswerRows]
    BY <1>1, StatusType DEF Admit, Statuses, Active
  <2> QED BY <1>1, <2>1 DEF Admit, ConversationTypeOK, WorkerLocals
<1>2. ASSUME NEW a \in Answers, FailAnswer(a)
      PROVE  ConversationTypeOK'
  <2>1. answer' \in [Answers -> AnswerRows]
    BY <1>2, SettleType DEF FailAnswer, Statuses
  <2> QED BY <1>2, <2>1 DEF FailAnswer, ConversationTypeOK
<1>3. CASE CompleteAnswer
  <2>1. worker.answer \in Answers
    BY <1>3 DEF CompleteAnswer, ConversationTypeOK
  <2>2. answer' \in [Answers -> AnswerRows]
    BY <1>3, <2>1, StatusType DEF CompleteAnswer, Statuses, ConversationTypeOK
  <2> QED BY <1>3, <2>1, <2>2 DEF CompleteAnswer, ConversationTypeOK, WorkerLocals
<1>4. CASE SelectCompleted
  <2>1. PICK a \in Answers : worker.answer = a
    BY <1>4 DEF SelectCompleted, ConversationTypeOK
  <2>2. turn' = [turn EXCEPT ![answer[a].turn].selected = a] \/ turn' = turn
    BY <1>4, <2>1 DEF SelectCompleted
  <2>3. \A t \in Turns : [turn[t] EXCEPT !.selected = a] \in TurnRows
    BY DEF ConversationTypeOK, TurnRows
  <2>4. turn' \in [Turns -> TurnRows]
    BY <2>2, <2>3 DEF ConversationTypeOK
  <2> QED BY <1>0, <1>4, <2>4 DEF SelectCompleted, ConversationTypeOK
<1>5. CASE WorkerReturns \/ SelectFails
  BY <1>0, <1>5 DEF WorkerReturns, SelectFails, ConversationTypeOK
<1>6. CASE Restart
  <2>1. request' \in [Requests -> {q \in RequestLocals : HasItsData(q)}]
    BY <1>6, EmptySeq DEF Restart, IdleRequest, RequestLocals, HasItsData
  <2>2. answer' \in [Answers -> AnswerRows]
    <3>1. \A a \in Answers : /\ answer[a] \in AnswerRows
                            /\ [answer[a] EXCEPT !.status = "failed"] \in AnswerRows
      BY DEF ConversationTypeOK, AnswerRows, Statuses
    <3> QED BY <1>6, <3>1 DEF Restart
  <2> QED BY <1>0, <1>6, <2>1, <2>2, CrashBound DEF Restart, ConversationTypeOK
<1> QED BY <1>1, <1>2, <1>3, <1>4, <1>5, <1>6 DEF WorkerNext

LEMMA TypeStep ==
  ConversationTypeOK /\ ConversationInv /\ [ConversationNext]_conversationVars
    => ConversationTypeOK'
<1> SUFFICES ASSUME ConversationTypeOK, ConversationInv, [ConversationNext]_conversationVars
             PROVE  ConversationTypeOK'
  OBVIOUS
<1>1. ASSUME NEW r \in Requests, RequestNext(r)
      PROVE  ConversationTypeOK'
  BY <1>1, ReadsType, LocksType, PublishType, RegenerateType, WritesType DEF RequestNext
<1>2. CASE UNCHANGED conversationVars
  BY <1>2 DEF conversationVars, ConversationTypeOK
<1> QED BY <1>1, <1>2, WorkerType DEF ConversationNext

----------------------------------------------------------------------------
(* Steps that write no turn and settle active answers only.                *)

QuietRows ==
  /\ UNCHANGED <<conversation, turns, turn>>
  /\ \A a \in Answers :
       /\ answer'[a].turn = answer[a].turn
       /\ \/ answer'[a].status = answer[a].status
          \/ /\ answer[a].status \in Active
             /\ answer'[a].status \notin {"absent", "removed"}

LEMMA ContextEntry ==
  ASSUME ConversationTypeOK, NEW c \in Conversations, NEW i \in 1..Len(turns[c]),
         NEW j \in 1..Len(turn[turns[c][i]].context)
  PROVE  turn[turns[c][i]].context[j] \in Answers \cup {NoAnswer}
<1>1. turns[c][i] \in Turns
  BY ElementOfSeq DEF ConversationTypeOK
<1>2. turn[turns[c][i]].context \in Seq(Answers \cup {NoAnswer})
  BY <1>1 DEF ConversationTypeOK, TurnRows
<1> QED BY <1>2, ElementOfSeq

LEMMA SelectedEntry ==
  ASSUME ConversationTypeOK, NEW t \in Turns
  PROVE  turn[t].selected \in Answers \cup {NoAnswer}
  BY DEF ConversationTypeOK, TurnRows

LEMMA QuietStore ==
  ASSUME ConversationTypeOK, ConversationInv, QuietRows
  PROVE  TurnsAreOwn' /\ AnswersBelong' /\ OneActive' /\ ContextIsCompleted' /\ ShownAreOwn'
<1>1. TurnsAreOwn'
  BY DEF ConversationInv, QuietRows, TurnsAreOwn
<1>2. AnswersBelong'
  BY DEF ConversationInv, QuietRows, AnswersBelong, TurnsOf, Active
<1>3. OneActive'
  BY DEF ConversationInv, QuietRows, OneActive
<1>4. ContextIsCompleted'
  <2>1. ASSUME NEW c \in Conversations, NEW i \in 1..Len(turns[c])
        PROVE  ContextFits(c, i)'
    <3>1. ContextFits(c, i)
      BY DEF ConversationInv, ContextIsCompleted, ContextFits
    <3>2. turns' = turns /\ turn' = turn
      BY DEF QuietRows
    <3> DEFINE context == turn[turns[c][i]].context
    <3>3. ASSUME NEW j \in 1..Len(context), context[j] # NoAnswer
          PROVE  /\ answer'[context[j]].turn = turns[c][j]
                 /\ answer'[context[j]].status = "completed"
      <4>1. context[j] \in Answers
        BY <3>3, ContextEntry
      <4>2. answer[context[j]].turn = turns[c][j] /\ answer[context[j]].status = "completed"
        BY <3>1, <3>3 DEF ContextFits
      <4> HIDE DEF context
      <4> QED BY <4>1, <4>2 DEF QuietRows, Active
    <3> QED BY <3>1, <3>2, <3>3 DEF ContextFits
  <2>2. turns' = turns
    BY DEF QuietRows
  <2> QED BY <2>1, <2>2 DEF ContextIsCompleted, ContextFits
<1>5. ShownAreOwn'
  BY SelectedEntry DEF ConversationInv, QuietRows, ShownAreOwn, Active
<1> QED BY <1>1, <1>2, <1>3, <1>4, <1>5

\* A selection under way holds on to its answer.
LEMMA QuietSelections ==
  ASSUME ConversationTypeOK, ConversationInv, QuietRows,
         \A r \in Requests :
           \/ request'[r] = request[r]
           \/ request'[r].pc # "select"
           \/ /\ turn[request'[r].turn].used
              /\ request'[r].answer \in Answers
              /\ answer[request'[r].answer].turn = request'[r].turn
              /\ answer[request'[r].answer].status = "completed"
  PROVE  SelectionsHold'
<1> SUFFICES ASSUME NEW r \in Requests, request'[r].pc = "select"
             PROVE  /\ turn[request'[r].turn].used
                    /\ (\E c \in Conversations : request'[r].turn \in TurnsOf(c)) =>
                         /\ answer'[request'[r].answer].turn = request'[r].turn
                         /\ answer'[request'[r].answer].status = "completed"
  BY DEF QuietRows, SelectionsHold, TurnsOf
<1>1. CASE request'[r] = request[r]
  <2>1. request[r].answer \in Answers
    BY <1>1, RequestType DEF HasItsData
  <2> QED BY <1>1, <2>1 DEF ConversationInv, SelectionsHold, QuietRows, Active
<1>2. CASE request'[r] # request[r]
  BY <1>2 DEF QuietRows, Active
<1> QED BY <1>1, <1>2

\* What was finished before, and was not the worker's to show.
LEMMA QuietShown ==
  ASSUME ConversationInv, QuietRows, missed \subseteq missed',
         \A a \in Answers \ missed' :
           /\ answer'[a].status = "completed"
           /\ worker' # [pc |-> "select", answer |-> a]
           => /\ answer[a].status = "completed"
              /\ worker # [pc |-> "select", answer |-> a]
  PROVE  FinishedAreShown'
  BY DEF ConversationInv, FinishedAreShown, QuietRows

LEMMA QuietStep ==
  ASSUME ConversationTypeOK, ConversationInv, QuietRows,
         SelectionsHold', FinishedAreShown'
  PROVE  ConversationInv'
  BY QuietStore DEF ConversationInv

LEMMA ReadsInv ==
  ASSUME ConversationTypeOK, ConversationInv, NEW r \in Requests,
         \/ \E c \in Conversations \cup {NoConversation}, p \in Providers, confirmed \in BOOLEAN :
              SendReads(r, c, p, confirmed)
         \/ \E c \in Conversations, a \in Answers : SelectReads(r, c, a)
         \/ \E c \in Conversations, p \in Providers, confirmed \in BOOLEAN :
              SelectModelReads(r, c, p, confirmed)
         \/ \E c \in Conversations : DeleteReads(r, c)
         \/ SendLocks(r)
         \/ \E c \in Conversations : RegenerateLocks(r, c)
         \/ Abort(r)
  PROVE  ConversationInv'
<1>1. UNCHANGED <<conversation, turns, turn, answer, worker, missed>>
  BY DEF SendReads, SelectReads, SelectModelReads, DeleteReads, SendLocks, RegenerateLocks, Abort
<1>2. QuietRows
  BY <1>1 DEF QuietRows
<1>3. FinishedAreShown'
  BY <1>1, <1>2, QuietShown
<1>4. \A q \in Requests \ {r} : request'[q] = request[q]
  BY DEF SendReads, SelectReads, SelectModelReads, DeleteReads, SendLocks, RegenerateLocks, Abort, Await, Finish,
         ConversationTypeOK
<1>5. \/ request'[r].pc # "select"
      \/ /\ turn[request'[r].turn].used
         /\ request'[r].answer \in Answers
         /\ answer[request'[r].answer].turn = request'[r].turn
         /\ answer[request'[r].answer].status = "completed"
  <2>1. ASSUME NEW c \in Conversations, NEW a \in Answers, SelectReads(r, c, a)
        PROVE  /\ turn[request'[r].turn].used
               /\ request'[r].answer \in Answers
               /\ answer[request'[r].answer].turn = request'[r].turn
               /\ answer[request'[r].answer].status = "completed"
    <3>1. request'[r].turn = Latest(c) /\ request'[r].answer = a
      BY <2>1 DEF SelectReads, Await, IdleRequest, ConversationTypeOK
    <3>2. Latest(c) # NoTurn
      BY <2>1 DEF SelectReads, ConversationInv, AnswersBelong
    <3>3. turn[Latest(c)].used
      BY <3>2, LatestTurn DEF TurnsOf, ConversationInv, TurnsAreOwn
    <3> QED BY <2>1, <3>1, <3>3 DEF SelectReads
  <2>2. ASSUME NEW c \in Conversations \cup {NoConversation}, NEW p \in Providers,
               NEW confirmed \in BOOLEAN, SendReads(r, c, p, confirmed)
        PROVE  request'[r].pc # "select"
    BY <2>2 DEF SendReads, Await, IdleRequest, ConversationTypeOK
  <2>3. ASSUME NEW c \in Conversations, NEW p \in Providers, NEW confirmed \in BOOLEAN,
               SelectModelReads(r, c, p, confirmed)
        PROVE  request'[r].pc # "select"
    BY <2>3 DEF SelectModelReads, Await, IdleRequest, ConversationTypeOK
  <2>4. ASSUME NEW c \in Conversations, DeleteReads(r, c)
        PROVE  request'[r].pc # "select"
    BY <2>4 DEF DeleteReads, Await, IdleRequest, ConversationTypeOK
  <2>5. ASSUME Abort(r)
        PROVE  request'[r].pc # "select"
    BY <2>5 DEF Abort, Finish, IdleRequest, ConversationTypeOK
  <2>6. ASSUME SendLocks(r)
        PROVE  request'[r].pc # "select"
    BY <2>6 DEF SendLocks, Await, RequestLocals, ConversationTypeOK
  <2>7. ASSUME NEW c \in Conversations, RegenerateLocks(r, c)
        PROVE  request'[r].pc # "select"
    BY <2>7 DEF RegenerateLocks, Await, IdleRequest, ConversationTypeOK
  <2> QED BY <2>1, <2>2, <2>3, <2>4, <2>5, <2>6, <2>7
<1>6. SelectionsHold'
  BY <1>2, <1>4, <1>5, QuietSelections
<1> QED BY <1>2, <1>3, <1>6, QuietStep

LEMMA SettleQuiet ==
  ASSUME ConversationTypeOK, NEW a \in Answers, NEW outcome \in {"stopped", "failed"},
         Settle(a, outcome), UNCHANGED <<conversation, turns, turn>>
  PROVE  /\ QuietRows
         /\ \A b \in Answers : answer'[b].status = "completed" => answer[b].status = "completed"
<1>1. CASE answer[a].status \in Active
  <2>1. answer' = [answer EXCEPT ![a].status = outcome]
    BY <1>1 DEF Settle
  <2> QED BY <1>1, <2>1 DEF QuietRows, ConversationTypeOK, AnswerRows
<1>2. CASE answer[a].status \notin Active
  BY <1>2 DEF Settle, QuietRows
<1> QED BY <1>1, <1>2

\* Stops, and what only concerns the worker.
LEMMA SettlesInv ==
  ASSUME ConversationTypeOK, ConversationInv,
         \/ \E r \in Requests, a \in Answers : StopAnswer(r, a)
         \/ \E r \in Requests : DeleteStops(r)
         \/ \E a \in Answers : Admit(a) \/ FailAnswer(a)
         \/ CompleteAnswer
         \/ WorkerReturns
         \/ SelectFails
         \/ Restart
  PROVE  ConversationInv'
<1>1. ASSUME NEW r \in Requests, NEW a \in Answers, StopAnswer(r, a)
      PROVE  ConversationInv'
  <2>1. /\ QuietRows
        /\ \A b \in Answers : answer'[b].status = "completed" => answer[b].status = "completed"
    BY <1>1, SettleQuiet DEF StopAnswer
  <2>2. UNCHANGED <<request, worker, missed>>
    BY <1>1 DEF StopAnswer
  <2> QED BY <2>1, <2>2, QuietSelections, QuietShown, QuietStep
<1>2. ASSUME NEW r \in Requests, DeleteStops(r)
      PROVE  ConversationInv'
  <2>1. /\ QuietRows
        /\ \A b \in Answers : answer'[b].status = "completed" => answer[b].status = "completed"
    <3>1. request[r].answer \in Answers
      BY <1>2, RequestType DEF DeleteStops, HasItsData
    <3> QED BY <1>2, <3>1, SettleQuiet DEF DeleteStops
  <2>2. /\ \A q \in Requests : request'[q] = request[q] \/ request'[q].pc # "select"
        /\ UNCHANGED <<worker, missed>>
    BY <1>2 DEF DeleteStops, Await, ConversationTypeOK, RequestLocals
  <2> QED BY <2>1, <2>2, QuietSelections, QuietShown, QuietStep
<1>3. ASSUME NEW a \in Answers, Admit(a)
      PROVE  ConversationInv'
  <2>1. /\ QuietRows
        /\ \A b \in Answers : answer'[b].status = "completed" => answer[b].status = "completed"
    BY <1>3 DEF Admit, QuietRows, ConversationTypeOK, AnswerRows, Active
  <2>2. UNCHANGED <<request, missed>> /\ worker.pc # "select"
    BY <1>3 DEF Admit
  <2> QED BY <2>1, <2>2, QuietSelections, QuietShown, QuietStep
<1>4. ASSUME NEW a \in Answers, FailAnswer(a)
      PROVE  ConversationInv'
  <2>1. /\ QuietRows
        /\ \A b \in Answers : answer'[b].status = "completed" => answer[b].status = "completed"
    BY <1>4, SettleQuiet DEF FailAnswer
  <2>2. UNCHANGED <<request, worker, missed>>
    BY <1>4 DEF FailAnswer
  <2> QED BY <2>1, <2>2, QuietSelections, QuietShown, QuietStep
<1>5. CASE CompleteAnswer
  <2>1. QuietRows
    BY <1>5 DEF CompleteAnswer, QuietRows, ConversationTypeOK, AnswerRows, Active
  <2>2. UNCHANGED <<request, missed>> /\ worker.pc # "select"
    BY <1>5 DEF CompleteAnswer
  <2>3. worker' = [pc |-> "select", answer |-> worker.answer]
    BY <1>5 DEF CompleteAnswer, ConversationTypeOK, WorkerLocals
  <2>4. \A b \in Answers : answer'[b].status = "completed" =>
          answer[b].status = "completed" \/ b = worker.answer
    BY <1>5 DEF CompleteAnswer, ConversationTypeOK
  <2>5. FinishedAreShown'
    BY <2>1, <2>2, <2>3, <2>4, QuietShown
  <2> QED BY <2>1, <2>2, <2>5, QuietSelections, QuietStep
<1>6. CASE WorkerReturns
  <2>1. /\ QuietRows
        /\ UNCHANGED <<answer, request, missed>> /\ worker.pc # "select"
    BY <1>6 DEF WorkerReturns, QuietRows
  <2> QED BY <2>1, QuietSelections, QuietShown, QuietStep
<1>7. CASE Restart
  <2>1. QuietRows
    BY <1>7 DEF Restart, QuietRows, ConversationTypeOK, AnswerRows, Active
  <2>2. \A r \in Requests : request'[r].pc # "select"
    BY <1>7 DEF Restart, IdleRequest
  <2>3. \A b \in Answers \ missed' : answer'[b].status = "completed" =>
          answer[b].status = "completed" /\ worker # [pc |-> "select", answer |-> b]
    BY <1>7 DEF Restart, ConversationTypeOK, AnswerRows
  <2>4. missed \subseteq missed'
    BY <1>7 DEF Restart
  <2>5. FinishedAreShown'
    BY <2>1, <2>3, <2>4, QuietShown
  <2> QED BY <2>1, <2>2, <2>5, QuietSelections, QuietStep
<1>8. CASE SelectFails
  <2>1. QuietRows /\ UNCHANGED <<answer, request>>
    BY <1>8 DEF SelectFails, QuietRows
  <2>2. \A b \in Answers \ missed' : worker # [pc |-> "select", answer |-> b]
    BY <1>8 DEF SelectFails
  <2>3. missed \subseteq missed'
    BY <1>8 DEF SelectFails
  <2>4. FinishedAreShown'
    BY <2>1, <2>2, <2>3, QuietShown
  <2> QED BY <2>1, <2>4, QuietSelections, QuietStep
<1> QED BY <1>1, <1>2, <1>3, <1>4, <1>5, <1>6, <1>7, <1>8

----------------------------------------------------------------------------
(* Questions: a new turn, or a new version of the latest one.              *)

\* Where the turns of a conversation are after a question.
LEMMA PublishedTurns ==
  ASSUME ConversationTypeOK, NEW c \in Conversations, NEW t \in Turns,
         turns' = [turns EXCEPT ![c] = Append(@, t)]
  PROVE  /\ Len(turns[c]) \in Nat
         /\ Len(turns'[c]) = Len(turns[c]) + 1
         /\ \A i \in 1..Len(turns[c]) : turns'[c][i] = turns[c][i]
         /\ turns'[c][Len(turns[c]) + 1] = t
         /\ \A d \in Conversations \ {c} : turns'[d] = turns[d]
         /\ turns'[c] # <<>>
<1>1. turns[c] \in Seq(Turns)
  BY DEF ConversationTypeOK
<1>2. turns'[c] = Append(turns[c], t) /\ \A d \in Conversations \ {c} : turns'[d] = turns[d]
  BY DEF ConversationTypeOK
<1> QED BY <1>1, <1>2, AppendProperties, LenProperties

LEMMA PublishedPlaces ==
  ASSUME ConversationTypeOK, NEW c \in Conversations, NEW t \in Turns,
         turns' = [turns EXCEPT ![c] = Append(@, t)],
         NEW d \in Conversations, NEW i \in 1..Len(turns'[d])
  PROVE  \/ i \in 1..Len(turns[d]) /\ turns'[d][i] = turns[d][i]
         \/ d = c /\ i = Len(turns[c]) + 1 /\ turns'[d][i] = t
  BY PublishedTurns

LEMMA KeptPlaces ==
  ASSUME ConversationTypeOK, NEW c \in Conversations, NEW t \in Turns,
         turns' = [turns EXCEPT ![c] = Append(@, t)],
         NEW d \in Conversations, NEW i \in 1..Len(turns[d])
  PROVE  i \in 1..Len(turns'[d]) /\ turns'[d][i] = turns[d][i]
  BY PublishedTurns

LEMMA PublishInv ==
  ASSUME ConversationTypeOK, ConversationInv, TransactionInv, NEW r \in Requests, SendInserts(r)
  PROVE  ConversationInv'
<1> PICK p, context : p = request[r].provider /\ context = request[r].context
  OBVIOUS
<1>0. PICK c \in Conversations, t \in Turns, a \in Answers :
        /\ \/ c = request[r].conversation /\ Stored(c)
           \/ request[r].conversation = NoConversation /\ conversation[c].row = "none"
        /\ Publish(c, p, context, t, a)
  BY DEF SendInserts
<1> DEFINE new == Queued(t, 1, p)
           turnRow == [used |-> TRUE, selected |-> NoAnswer, context |-> context]
<1>15. context \in Seq(Answers \cup {NoAnswer}) /\ Answered(context, turns[c], answer)
  <2>1. context \in Seq(Answers \cup {NoAnswer}) /\ request[r].pc = "insert"
    BY RequestType DEF SendInserts, RequestLocals
  <2>2. CASE c = request[r].conversation /\ Stored(c)
    BY <2>1, <2>2 DEF TransactionInv, ContextsHold
  <2>3. CASE request[r].conversation = NoConversation /\ conversation[c].row = "none"
    <3>1. turns[c] = <<>> /\ context = <<>>
      BY <2>1, <2>3 DEF TransactionInv, ContextsHold, ConversationInv, TurnsAreOwn
    <3> QED BY <2>1, <3>1, EmptySeq DEF Answered
  <2> QED BY <1>0, <2>1, <2>2, <2>3
<1>1. /\ turns' = [turns EXCEPT ![c] = Append(@, t)]
      /\ turn' = [turn EXCEPT ![t] = turnRow]
      /\ answer' = [answer EXCEPT ![a] = new]
      /\ conversation' = [conversation EXCEPT ![c] =
                            [row |-> "stored", provider |-> p]]
      /\ ~turn[t].used /\ answer[a].status = "absent" /\ SlotIsFree
  BY <1>0 DEF Publish
<1>2. /\ new.status = "queued" /\ new.turn = t
      /\ turnRow.used /\ turnRow.selected = NoAnswer /\ turnRow.context = context
  BY DEF Queued
<1> HIDE DEF new, turnRow
<1>3. /\ answer'[a] = new /\ \A b \in Answers \ {a} : answer'[b] = answer[b]
      /\ turn'[t] = turnRow /\ \A u \in Turns \ {t} : turn'[u] = turn[u]
      /\ conversation'[c].row = "stored"
      /\ \A d \in Conversations \ {c} : conversation'[d] = conversation[d]
  BY <1>1 DEF ConversationTypeOK
<1> PICK k : k = Len(turns[c]) + 1
  OBVIOUS
<1>14. k \in 1..Len(turns'[c]) /\ turns'[c][k] = t /\ Len(turns[c]) \in Nat
  <2>1. /\ Len(turns[c]) \in Nat /\ Len(turns'[c]) = Len(turns[c]) + 1
        /\ turns'[c][Len(turns[c]) + 1] = t
    BY <1>1, PublishedTurns
  <2> QED BY <2>1
<1>4. \A d \in Conversations : \A i \in 1..Len(turns[d]) :
        turns[d][i] \in Turns /\ turns[d][i] # t
  BY <1>1, ElementOfSeq DEF ConversationTypeOK, ConversationInv, TurnsAreOwn
<1>5. \A b \in Answers : answer[b].turn # t
  BY <1>4, ConversationNulls DEF ConversationInv, AnswersBelong, TurnsOf
<1>6. \A b \in Answers : answer[b].status = "completed" => b # a
  BY <1>1
<1>7. TurnsAreOwn'
  <2>1. \A d \in Conversations : \A i \in 1..Len(turns'[d]) : turn'[turns'[d][i]].used
    BY <1>1, <1>2, <1>3, <1>4, PublishedPlaces DEF ConversationInv, TurnsAreOwn
  <2>2. ASSUME NEW d \in Conversations, NEW e \in Conversations,
               NEW i \in 1..Len(turns'[d]), NEW j \in 1..Len(turns'[e]),
               turns'[d][i] = turns'[e][j]
        PROVE  d = e /\ i = j
    <3>1. \/ i \in 1..Len(turns[d]) /\ turns'[d][i] = turns[d][i]
          \/ d = c /\ i = Len(turns[c]) + 1 /\ turns'[d][i] = t
      BY <1>1, PublishedPlaces
    <3>2. \/ j \in 1..Len(turns[e]) /\ turns'[e][j] = turns[e][j]
          \/ e = c /\ j = Len(turns[c]) + 1 /\ turns'[e][j] = t
      BY <1>1, PublishedPlaces
    <3> QED BY <2>2, <3>1, <3>2, <1>4 DEF ConversationInv, TurnsAreOwn
  <2>3. \A d \in Conversations : turns'[d] # <<>> => conversation'[d].row = "stored"
    BY <1>1, <1>3, PublishedTurns DEF ConversationInv, TurnsAreOwn
  <2> QED BY <2>1, <2>2, <2>3 DEF TurnsAreOwn
<1>8. AnswersBelong'
  <2>1. ASSUME NEW b \in Answers
        PROVE  /\ answer'[b].status \in {"absent", "removed"} <=> answer'[b].turn = NoTurn
               /\ answer'[b].turn # NoTurn => \E d \in Conversations : answer'[b].turn \in TurnsOf(d)'
    <3>1. CASE b = a
      <4> QED BY <3>1, <1>14, <1>2, <1>3, ConversationNulls DEF TurnsOf
    <3>2. CASE b # a
      <4>1. answer'[b] = answer[b]
        BY <3>2, <1>3
      <4>2. \A d \in Conversations : TurnsOf(d) \subseteq TurnsOf(d)'
        BY <1>1, KeptPlaces DEF TurnsOf
      <4> QED BY <4>1, <4>2 DEF ConversationInv, AnswersBelong
    <3> QED BY <3>1, <3>2
  <2> QED BY <2>1 DEF AnswersBelong
<1>9. SelectionsHold'
  <2> SUFFICES ASSUME NEW q \in Requests, request'[q].pc = "select"
               PROVE  /\ turn'[request'[q].turn].used
                      /\ (\E d \in Conversations : request'[q].turn \in TurnsOf(d)') =>
                           /\ answer'[request'[q].answer].turn = request'[q].turn
                           /\ answer'[request'[q].answer].status = "completed"
    BY DEF SelectionsHold
  <2>1. request'[q] = request[q]
    BY DEF SendInserts, Finish, IdleRequest, ConversationTypeOK
  <2>2. request[q].turn \in Turns /\ request[q].answer \in Answers
    BY <2>1, RequestType DEF HasItsData
  <2>3. turn[request[q].turn].used /\ request[q].turn # t
    BY <2>1, <1>1 DEF ConversationInv, SelectionsHold
  <2>4. \A d \in Conversations : request[q].turn \in TurnsOf(d)' => request[q].turn \in TurnsOf(d)
    <3> PICK u : u = request[q].turn
      OBVIOUS
    <3>1. u # t
      BY <2>3
    <3>2. \A d \in Conversations : \A i \in 1..Len(turns'[d]) :
            turns'[d][i] = u => i \in 1..Len(turns[d]) /\ turns[d][i] = u
      BY <1>1, <3>1, PublishedPlaces
    <3>3. \A d \in Conversations : u \in TurnsOf(d)' => u \in TurnsOf(d)
      BY <3>2 DEF TurnsOf
    <3> QED BY <3>3
  <2> QED BY <2>1, <2>2, <2>3, <2>4, <1>3, <1>6 DEF ConversationInv, SelectionsHold
<1>10. OneActive'
  BY <1>1, <1>3 DEF SlotIsFree, ActiveAnswers, OneActive
<1>11. ContextIsCompleted'
  <2>1. ASSUME NEW d \in Conversations, NEW i \in 1..Len(turns[d])
        PROVE  ContextFits(d, i)'
    <3> DEFINE old == turn[turns[d][i]].context
    <3>1. ContextFits(d, i)
      BY DEF ConversationInv, ContextIsCompleted, ContextFits
    <3>2. turn'[turns'[d][i]].context = old
      BY <1>1, <1>3, <1>4, KeptPlaces
    <3>3. Len(old) = i - 1
      BY <3>1 DEF ContextFits
    <3>4. ASSUME NEW j \in 1..Len(old), old[j] # NoAnswer
          PROVE  /\ answer'[old[j]].turn = turns'[d][j]
                 /\ answer'[old[j]].status = "completed"
      <4>1. old[j] \in Answers
        BY <3>4, ContextEntry
      <4>2. answer[old[j]].turn = turns[d][j] /\ answer[old[j]].status = "completed"
        BY <3>1, <3>4 DEF ContextFits
      <4>3. j \in 1..Len(turns[d])
        BY <3>3, LenProperties DEF ConversationTypeOK
      <4>4. turns'[d][j] = turns[d][j]
        BY <4>3, <1>1, KeptPlaces
      <4> HIDE DEF old
      <4> QED BY <4>1, <4>2, <4>4, <1>3, <1>6
    <3> QED BY <3>2, <3>3, <3>4 DEF ContextFits
  <2>2. ContextFits(c, k)'
    <3>1. turn'[turns'[c][k]].context = context
      BY <1>14, <1>2, <1>3
    <3>2. Len(context) = Len(turns[c])
      BY <1>15 DEF Answered
    <3>3. ASSUME NEW j \in 1..Len(context), context[j] # NoAnswer
          PROVE  /\ answer'[context[j]].turn = turns'[c][j]
                 /\ answer'[context[j]].status = "completed"
      <4>1. context[j] \in Answers
        BY <3>3, <1>15, ElementOfSeq
      <4>2. answer[context[j]].turn = turns[c][j] /\ answer[context[j]].status = "completed"
        BY <3>3, <1>15 DEF Answered
      <4>3. turns'[c][j] = turns[c][j]
        BY <3>2, <1>1, KeptPlaces
      <4> QED BY <4>1, <4>2, <4>3, <1>3, <1>6
    <3>4. Len(context) = k - 1
      BY <3>2, <1>14
    <3> QED BY <3>1, <3>3, <3>4 DEF ContextFits
  <2>3. \A d \in Conversations : \A i \in 1..Len(turns'[d]) : ContextFits(d, i)'
    <3> SUFFICES ASSUME NEW d \in Conversations, NEW i \in 1..Len(turns'[d])
                 PROVE  ContextFits(d, i)'
      OBVIOUS
    <3>1. i \in 1..Len(turns[d]) \/ (d = c /\ i = k)
      BY <1>1, PublishedPlaces
    <3> QED BY <2>1, <2>2, <3>1
  <2> QED BY <2>3 DEF ContextIsCompleted, ContextFits
<1>12. ShownAreOwn'
  BY <1>2, <1>3, <1>6, SelectedEntry DEF ConversationInv, ShownAreOwn
<1>13. FinishedAreShown'
  <2>1. \A b \in Answers : answer'[b].status = "completed" =>
          /\ answer'[b] = answer[b]
          /\ answer[b].turn \in Turns \ {t}
    BY <1>2, <1>3, <1>5, AnswersType DEF ConversationInv, AnswersBelong
  <2>2. missed' = missed /\ worker' = worker
    BY DEF SendInserts
  <2> QED BY <2>1, <2>2, <1>3 DEF ConversationInv, FinishedAreShown
<1> QED BY <1>7, <1>8, <1>9, <1>10, <1>11, <1>12, <1>13 DEF ConversationInv

LEMMA RegenerateInv ==
  ASSUME ConversationTypeOK, ConversationInv, NEW r \in Requests, RegenerateInserts(r)
  PROVE  ConversationInv'
<1> PICK t : t = request[r].turn
  OBVIOUS
<1>0. PICK a \in Answers : /\ answer[a].status = "absent"
                          /\ answer' = [answer EXCEPT ![a] =
                               Queued(t, request[r].version, request[r].provider)]
  BY DEF RegenerateInserts
<1>1. /\ UNCHANGED <<conversation, turns, turn, worker, missed>>
      /\ answer[a].status = "absent" /\ SlotIsFree
      /\ answer'[a].status = "queued" /\ answer'[a].turn = t
      /\ \A b \in Answers \ {a} : answer'[b] = answer[b]
      /\ \A q \in Requests : request'[q] = request[q] \/ request'[q].pc # "select"
  BY <1>0 DEF RegenerateInserts, Queued, ConversationTypeOK, Finish, IdleRequest
<1>2. t # NoTurn /\ \E c \in Conversations : t \in TurnsOf(c)
  BY RequestType, ConversationNulls DEF RegenerateInserts, HasItsData
<1>3. \A d \in Conversations : TurnsOf(d)' = TurnsOf(d)
  BY <1>1 DEF TurnsOf
<1>4. \A b \in Answers : answer[b].status = "completed" => answer'[b] = answer[b]
  BY <1>1
<1>5. TurnsAreOwn'
  BY <1>1 DEF ConversationInv, TurnsAreOwn
<1>6. AnswersBelong'
  <2>1. ASSUME NEW b \in Answers
        PROVE  /\ answer'[b].status \in {"absent", "removed"} <=> answer'[b].turn = NoTurn
               /\ answer'[b].turn # NoTurn => \E d \in Conversations : answer'[b].turn \in TurnsOf(d)
    BY <1>1, <1>2 DEF ConversationInv, AnswersBelong
  <2> QED BY <1>3, <2>1 DEF AnswersBelong
<1>7. SelectionsHold'
  <2> SUFFICES ASSUME NEW q \in Requests, request[q].pc = "select", request'[q] = request[q]
               PROVE  /\ turn[request[q].turn].used
                      /\ (\E d \in Conversations : request[q].turn \in TurnsOf(d)) =>
                           /\ answer'[request[q].answer].turn = request[q].turn
                           /\ answer'[request[q].answer].status = "completed"
    BY <1>1, <1>3 DEF SelectionsHold
  <2>1. request[q].answer \in Answers
    BY RequestType DEF HasItsData
  <2> QED BY <1>4, <2>1 DEF ConversationInv, SelectionsHold
<1>8. OneActive'
  BY <1>1 DEF SlotIsFree, ActiveAnswers, OneActive
<1>9. ContextIsCompleted'
  <2>1. ASSUME NEW d \in Conversations, NEW i \in 1..Len(turns[d])
        PROVE  ContextFits(d, i)'
    <3> DEFINE context == turn[turns[d][i]].context
    <3>1. ContextFits(d, i)
      BY DEF ConversationInv, ContextIsCompleted, ContextFits
    <3>2. ASSUME NEW j \in 1..Len(context), context[j] # NoAnswer
          PROVE  /\ answer'[context[j]].turn = turns[d][j]
                 /\ answer'[context[j]].status = "completed"
      <4>1. context[j] \in Answers
        BY <3>2, ContextEntry
      <4>2. answer[context[j]].turn = turns[d][j] /\ answer[context[j]].status = "completed"
        BY <3>1, <3>2 DEF ContextFits
      <4> HIDE DEF context
      <4> QED BY <4>1, <4>2, <1>4
    <3> QED BY <1>1, <3>1, <3>2 DEF ContextFits
  <2> QED BY <1>1, <2>1 DEF ContextIsCompleted, ContextFits
<1>10. ShownAreOwn'
  BY <1>1, <1>4, SelectedEntry DEF ConversationInv, ShownAreOwn
<1>11. FinishedAreShown'
  <2>1. \A b \in Answers : answer'[b].status = "completed" => answer'[b] = answer[b]
    BY <1>1
  <2> QED BY <1>1, <2>1 DEF ConversationInv, FinishedAreShown
<1> QED BY <1>5, <1>6, <1>7, <1>8, <1>9, <1>10, <1>11 DEF ConversationInv

----------------------------------------------------------------------------
(* Choices and deletion.                                                   *)

\* Writing a completed version of its own as the selection of a turn.
LEMMA ChooseInv ==
  ASSUME ConversationTypeOK, ConversationInv, NEW t \in Turns, NEW a \in Answers,
         answer[a].turn = t, answer[a].status = "completed",
         turn' = [turn EXCEPT ![t].selected = a],
         UNCHANGED <<conversation, turns, answer, missed>>,
         \A q \in Requests : request'[q] = request[q] \/ request'[q].pc # "select",
         \A b \in Answers :
           worker' # [pc |-> "select", answer |-> b] =>
             worker # [pc |-> "select", answer |-> b] \/ b = a
  PROVE  ConversationInv'
<1>1. /\ turn'[t].selected = a
      /\ \A u \in Turns : /\ turn'[u].used = turn[u].used
                          /\ turn'[u].context = turn[u].context
                          /\ u # t => turn'[u] = turn[u]
  BY DEF ConversationTypeOK, TurnRows
<1>2. \A d \in Conversations : TurnsOf(d)' = TurnsOf(d)
  BY DEF TurnsOf
<1>3. \A d \in Conversations : \A i \in 1..Len(turns[d]) : turns[d][i] \in Turns
  BY ElementOfSeq DEF ConversationTypeOK
<1>4. TurnsAreOwn'
  BY <1>1, <1>3 DEF ConversationInv, TurnsAreOwn
<1>5. AnswersBelong'
  BY <1>2 DEF ConversationInv, AnswersBelong
<1>6. SelectionsHold'
  <2> SUFFICES ASSUME NEW q \in Requests, request'[q].pc = "select"
               PROVE  /\ turn'[request'[q].turn].used
                      /\ (\E d \in Conversations : request'[q].turn \in TurnsOf(d)) =>
                           /\ answer[request'[q].answer].turn = request'[q].turn
                           /\ answer[request'[q].answer].status = "completed"
    BY <1>2 DEF SelectionsHold
  <2>1. request'[q] = request[q] /\ request[q].turn \in Turns
    BY RequestType DEF HasItsData
  <2> QED BY <1>1, <2>1 DEF ConversationInv, SelectionsHold
<1>7. OneActive'
  BY DEF ConversationInv, OneActive
<1>8. ContextIsCompleted'
  <2>1. ASSUME NEW d \in Conversations, NEW i \in 1..Len(turns[d])
        PROVE  ContextFits(d, i)'
    <3>1. ContextFits(d, i)
      BY DEF ConversationInv, ContextIsCompleted, ContextFits
    <3>2. turn'[turns[d][i]].context = turn[turns[d][i]].context
      BY <1>1, <1>3
    <3> PICK context : context = turn[turns[d][i]].context
      OBVIOUS
    <3>3. /\ Len(context) = i - 1
          /\ \A j \in 1..Len(context) : context[j] # NoAnswer =>
               /\ answer[context[j]].turn = turns[d][j]
               /\ answer[context[j]].status = "completed"
      BY <3>1 DEF ContextFits
    <3>4. turn'[turns[d][i]].context = context /\ answer' = answer /\ turns' = turns
      BY <3>2
    <3> QED BY <3>3, <3>4 DEF ContextFits
  <2> QED BY <2>1 DEF ContextIsCompleted, ContextFits
<1>9. ShownAreOwn'
  BY <1>1 DEF ConversationInv, ShownAreOwn
<1>10. FinishedAreShown'
  <2> SUFFICES ASSUME NEW b \in Answers \ missed, answer[b].status = "completed",
                      worker' # [pc |-> "select", answer |-> b]
               PROVE  turn'[answer[b].turn].selected # NoAnswer
    BY DEF FinishedAreShown
  <2>1. answer[b].turn \in Turns
    BY AnswersType DEF ConversationInv, AnswersBelong
  <2>2. CASE b = a
    BY <2>2, <1>1, ConversationNulls
  <2>3. CASE b # a
    BY <2>1, <2>3, <1>1, ConversationNulls DEF ConversationInv, FinishedAreShown
  <2> QED BY <2>2, <2>3
<1> QED BY <1>4, <1>5, <1>6, <1>7, <1>8, <1>9, <1>10 DEF ConversationInv

LEMMA SelectWritesInv ==
  ASSUME ConversationTypeOK, ConversationInv, NEW r \in Requests, SelectWrites(r)
  PROVE  ConversationInv'
<1>1. /\ request[r].turn \in Turns /\ request[r].answer \in Answers
      /\ request[r].pc = "select"
  BY RequestType DEF SelectWrites, HasItsData
<1>2. \A q \in Requests : request'[q] = request[q] \/ request'[q].pc # "select"
  BY DEF SelectWrites, Finish, IdleRequest, ConversationTypeOK
<1>3. UNCHANGED <<conversation, turns, answer, worker, missed>>
  BY DEF SelectWrites
<1>4. CASE \E c \in Conversations : request[r].turn \in TurnsOf(c)
  <2>1. /\ answer[request[r].answer].turn = request[r].turn
        /\ answer[request[r].answer].status = "completed"
    BY <1>1, <1>4 DEF ConversationInv, SelectionsHold
  <2>2. turn' = [turn EXCEPT ![request[r].turn].selected = request[r].answer]
    BY <1>4 DEF SelectWrites, Select
  <2> QED BY <1>1, <1>2, <1>3, <2>1, <2>2, ChooseInv
<1>5. CASE ~\E c \in Conversations : request[r].turn \in TurnsOf(c)
  <2>1. QuietRows
    BY <1>3, <1>5 DEF SelectWrites, Select, QuietRows
  <2> QED BY <1>2, <1>3, <2>1, QuietSelections, QuietShown, QuietStep
<1> QED BY <1>4, <1>5

LEMMA SelectCompletedInv ==
  ASSUME ConversationTypeOK, ConversationInv, SelectCompleted
  PROVE  ConversationInv'
<1> DEFINE a == worker.answer
<1>1. a \in Answers /\ worker = [pc |-> "select", answer |-> a]
  BY DEF SelectCompleted, ConversationTypeOK, WorkerLocals
<1>2. UNCHANGED <<conversation, turns, answer, request, missed>>
  BY DEF SelectCompleted
<1>3. CASE answer[a].status = "completed"
  <2>1. answer[a].turn \in Turns
    BY <1>1, <1>3, AnswersType DEF ConversationInv, AnswersBelong
  <2>2. turn' = [turn EXCEPT ![answer[a].turn].selected = a]
    BY <1>3 DEF SelectCompleted
  <2>3. \A b \in Answers : worker # [pc |-> "select", answer |-> b] \/ b = a
    BY <1>1
  <2> HIDE DEF a
  <2> QED BY <1>1, <1>2, <1>3, <2>1, <2>2, <2>3, ChooseInv
<1>4. CASE answer[a].status # "completed"
  <2>1. QuietRows
    BY <1>2, <1>4 DEF SelectCompleted, QuietRows
  <2>2. \A b \in Answers : answer'[b].status = "completed" =>
          /\ answer[b].status = "completed"
          /\ worker # [pc |-> "select", answer |-> b]
    BY <1>1, <1>2, <1>4
  <2> QED BY <1>2, <2>1, <2>2, QuietSelections, QuietShown, QuietStep
<1> QED BY <1>3, <1>4

LEMMA SelectModelInv ==
  ASSUME ConversationTypeOK, ConversationInv, NEW r \in Requests, SelectModelWrites(r)
  PROVE  ConversationInv'
<1>1. /\ UNCHANGED <<turns, turn, answer, worker, missed>>
      /\ \A d \in Conversations : conversation'[d].row = conversation[d].row
      /\ \A q \in Requests : request'[q] = request[q] \/ request'[q].pc # "select"
  BY DEF SelectModelWrites, Finish, IdleRequest, ConversationTypeOK, ConversationRows
<1>2. TurnsAreOwn'
  BY <1>1 DEF ConversationInv, TurnsAreOwn
<1>3. AnswersBelong' /\ OneActive'
  BY <1>1 DEF ConversationInv, AnswersBelong, TurnsOf, OneActive
<1>4. ShownAreOwn' /\ FinishedAreShown'
  BY <1>1 DEF ConversationInv, ShownAreOwn, FinishedAreShown
<1>5. ContextIsCompleted'
  BY <1>1 DEF ConversationInv, ContextIsCompleted
<1>6. SelectionsHold'
  BY <1>1 DEF ConversationInv, SelectionsHold, TurnsOf
<1> QED BY <1>2, <1>3, <1>4, <1>5, <1>6 DEF ConversationInv

LEMMA DeleteInv ==
  ASSUME ConversationTypeOK, ConversationInv, NEW r \in Requests, DeleteRow(r)
  PROVE  ConversationInv'
<1> DEFINE c == request[r].conversation
           Gone(t) == t \in TurnsOf(c)
<1>1. c \in Conversations
  BY RequestType DEF DeleteRow, HasItsData
<1>2. /\ turns'[c] = <<>> /\ \A d \in Conversations \ {c} : turns'[d] = turns[d]
      /\ \A d \in Conversations \ {c} : conversation'[d] = conversation[d]
  BY <1>1 DEF DeleteRow, ConversationTypeOK
<1>3. \A a \in Answers :
        IF Gone(answer[a].turn)
        THEN answer'[a].status = "removed" /\ answer'[a].turn = NoTurn
        ELSE answer'[a] = answer[a]
  BY DEF DeleteRow, RemovedAnswer, NoAnswerRow
<1>4. \A t \in Turns :
        IF Gone(t) THEN turn'[t].used /\ turn'[t].selected = NoAnswer
        ELSE turn'[t] = turn[t]
  BY DEF DeleteRow, NoTurnRow
<1>5. UNCHANGED <<worker, missed>>
  BY DEF DeleteRow
<1>6. \A d \in Conversations : \A i \in 1..Len(turns'[d]) :
        /\ d # c /\ i \in 1..Len(turns[d]) /\ turns'[d][i] = turns[d][i]
        /\ turns[d][i] \in Turns /\ ~Gone(turns[d][i])
  <2> SUFFICES ASSUME NEW d \in Conversations, NEW i \in 1..Len(turns'[d])
               PROVE  /\ d # c /\ i \in 1..Len(turns[d]) /\ turns'[d][i] = turns[d][i]
                      /\ turns[d][i] \in Turns /\ ~Gone(turns[d][i])
    OBVIOUS
  <2>1. d # c
    BY <1>2, EmptySeq
  <2>2. turns'[d] = turns[d]
    BY <2>1, <1>2
  <2>3. turns[d][i] \in Turns
    BY <2>2, ElementOfSeq DEF ConversationTypeOK
  <2>4. ~Gone(turns[d][i])
    BY <1>1, <2>1, <2>2 DEF TurnsOf, ConversationInv, TurnsAreOwn
  <2> QED BY <2>1, <2>2, <2>3, <2>4
<1> HIDE DEF c, Gone
<1>7. \A d \in Conversations : \A t : t \in TurnsOf(d)' => t \in TurnsOf(d) /\ ~Gone(t)
  BY <1>6 DEF TurnsOf
<1>8. \A d \in Conversations : \A t : t \in TurnsOf(d) /\ ~Gone(t) => t \in TurnsOf(d)'
  BY <1>2 DEF TurnsOf, Gone
<1>9. TurnsAreOwn'
  <2>1. \A d \in Conversations : \A i \in 1..Len(turns'[d]) : turn'[turns'[d][i]].used
    BY <1>4, <1>6 DEF ConversationInv, TurnsAreOwn
  <2>2. \A d, e \in Conversations : \A i \in 1..Len(turns'[d]), j \in 1..Len(turns'[e]) :
          turns'[d][i] = turns'[e][j] => d = e /\ i = j
    BY <1>6 DEF ConversationInv, TurnsAreOwn
  <2>3. \A d \in Conversations : turns'[d] # <<>> => conversation'[d].row = "stored"
    BY <1>2 DEF ConversationInv, TurnsAreOwn
  <2> QED BY <2>1, <2>2, <2>3 DEF TurnsAreOwn
<1>10. AnswersBelong'
  <2>1. ASSUME NEW a \in Answers
        PROVE  /\ answer'[a].status \in {"absent", "removed"} <=> answer'[a].turn = NoTurn
               /\ answer'[a].turn # NoTurn => \E d \in Conversations : answer'[a].turn \in TurnsOf(d)'
    BY <1>3, <1>8 DEF ConversationInv, AnswersBelong
  <2> QED BY <2>1 DEF AnswersBelong
<1>11. SelectionsHold'
  <2> SUFFICES ASSUME NEW q \in Requests, request'[q].pc = "select"
               PROVE  /\ turn'[request'[q].turn].used
                      /\ (\E d \in Conversations : request'[q].turn \in TurnsOf(d)') =>
                           /\ answer'[request'[q].answer].turn = request'[q].turn
                           /\ answer'[request'[q].answer].status = "completed"
    BY DEF SelectionsHold
  <2>1. request'[q] = request[q]
    BY DEF DeleteRow, Finish, IdleRequest, ConversationTypeOK
  <2>2. request[q].turn \in Turns /\ request[q].answer \in Answers
    BY <2>1, RequestType DEF HasItsData
  <2>3. turn[request[q].turn].used
    BY <2>1 DEF ConversationInv, SelectionsHold
  <2>4. turn'[request[q].turn].used
    BY <2>2, <2>3, <1>4
  <2>5. ASSUME NEW d \in Conversations, request[q].turn \in TurnsOf(d)'
        PROVE  /\ answer'[request[q].answer].turn = request[q].turn
               /\ answer'[request[q].answer].status = "completed"
    <3>1. request[q].turn \in TurnsOf(d) /\ ~Gone(request[q].turn)
      BY <2>5, <1>7
    <3>2. /\ answer[request[q].answer].turn = request[q].turn
          /\ answer[request[q].answer].status = "completed"
      BY <2>1, <3>1 DEF ConversationInv, SelectionsHold
    <3> QED BY <2>2, <3>1, <3>2, <1>3
  <2> QED BY <2>1, <2>4, <2>5
<1>12. OneActive'
  BY <1>3 DEF ConversationInv, OneActive, Active
<1>13. ContextIsCompleted'
  <2>1. ASSUME NEW d \in Conversations, NEW i \in 1..Len(turns'[d])
        PROVE  ContextFits(d, i)'
    <3>0. /\ i \in 1..Len(turns[d]) /\ turns'[d] = turns[d]
          /\ turn'[turns[d][i]] = turn[turns[d][i]]
      BY <1>2, <1>4, <1>6
    <3> DEFINE context == turn[turns[d][i]].context
    <3>1. ContextFits(d, i)
      BY <3>0 DEF ConversationInv, ContextIsCompleted, ContextFits
    <3>2. ASSUME NEW j \in 1..Len(context), context[j] # NoAnswer
          PROVE  /\ answer'[context[j]].turn = turns[d][j]
                 /\ answer'[context[j]].status = "completed"
      <4>1. context[j] \in Answers
        BY <3>0, <3>2, ContextEntry
      <4>2. /\ answer[context[j]].turn = turns[d][j] /\ answer[context[j]].status = "completed"
            /\ Len(context) = i - 1
        BY <3>1, <3>2 DEF ContextFits
      <4>3. j \in 1..Len(turns'[d])
        BY <3>0, <4>2, LenProperties DEF ConversationTypeOK
      <4>4. ~Gone(turns[d][j])
        BY <4>3, <1>6
      <4> HIDE DEF context
      <4> QED BY <4>1, <4>2, <4>4, <1>3
    <3> QED BY <3>0, <3>1, <3>2 DEF ContextFits
  <2> QED BY <2>1 DEF ContextIsCompleted, ContextFits
<1>14. ShownAreOwn'
  <2> SUFFICES ASSUME NEW t \in Turns, turn'[t].selected # NoAnswer
               PROVE  /\ answer'[turn'[t].selected].turn = t
                      /\ answer'[turn'[t].selected].status = "completed"
    BY DEF ShownAreOwn
  <2>1. ~Gone(t) /\ turn'[t] = turn[t]
    BY <1>4
  <2>2. /\ turn[t].selected \in Answers
        /\ answer[turn[t].selected].turn = t
        /\ answer[turn[t].selected].status = "completed"
    BY <2>1, SelectedEntry DEF ConversationInv, ShownAreOwn
  <2> QED BY <2>1, <2>2, <1>3
<1>15. FinishedAreShown'
  <2> SUFFICES ASSUME NEW a \in Answers \ missed, answer'[a].status = "completed",
                      worker # [pc |-> "select", answer |-> a]
               PROVE  turn'[answer'[a].turn].selected # NoAnswer
    BY <1>5 DEF FinishedAreShown
  <2>1. ~Gone(answer[a].turn) /\ answer'[a] = answer[a]
    BY <1>3
  <2>2. answer[a].turn \in Turns
    BY <2>1, AnswersType DEF ConversationInv, AnswersBelong
  <2> QED BY <2>1, <2>2, <1>4 DEF ConversationInv, FinishedAreShown
<1> QED BY <1>9, <1>10, <1>11, <1>12, <1>13, <1>14, <1>15 DEF ConversationInv

----------------------------------------------------------------------------
(* What a transaction has read stays right until it ends.                  *)

\* Conversations stay as they are or go as a whole, with their answers.
Kept(c) == turns'[c] = turns[c] /\ conversation'[c].row = conversation[c].row
Gone(c) == turns'[c] = <<>> /\ conversation'[c].row # "stored"
AnswersStay ==
  \A c \in Conversations : Kept(c) => \A a \in Answers :
    answer[a].status = "completed" /\ answer[a].turn \in TurnsOf(c)
    => answer'[a].status = "completed" /\ answer'[a].turn = answer[a].turn

LEMMA AnsweredStays ==
  ASSUME ConversationTypeOK, AnswersStay, NEW c \in Conversations, Kept(c),
         NEW context \in Seq(Answers \cup {NoAnswer}), Answered(context, turns[c], answer)
  PROVE  Answered(context, turns'[c], answer')
<1>1. Len(context) = Len(turns'[c])
  BY DEF Answered, Kept
<1>2. ASSUME NEW j \in 1..Len(context), context[j] # NoAnswer
      PROVE  /\ answer'[context[j]].turn = turns'[c][j]
             /\ answer'[context[j]].status = "completed"
  <2>1. context[j] \in Answers
    BY <1>2, ElementOfSeq
  <2>2. answer[context[j]].turn = turns[c][j] /\ answer[context[j]].status = "completed"
    BY <1>2 DEF Answered
  <2>3. turns[c][j] \in TurnsOf(c)
    BY DEF TurnsOf, Answered
  <2> QED BY <2>1, <2>2, <2>3 DEF AnswersStay, Kept
<1> QED BY <1>1, <1>2 DEF Answered

LEMMA TransactionsStay ==
  ASSUME ConversationTypeOK, TransactionInv, AnswersStay,
         \A c \in Conversations : Kept(c) \/ Gone(c),
         \A r \in Requests : \/ request'[r] = request[r]
                             \/ request'[r].pc \notin {"insert", "regenerate"}
  PROVE  TransactionInv'
<1>1. OneTransaction'
  BY DEF TransactionInv, OneTransaction, InTransaction
<1>2. ContextsHold'
  <2> SUFFICES ASSUME NEW r \in Requests, request'[r].pc = "insert"
               PROVE  /\ request'[r].conversation = NoConversation => request'[r].context = <<>>
                      /\ \A c \in Conversations : request'[r].conversation = c /\ Stored(c)' =>
                           Answered(request'[r].context, turns'[c], answer')
    BY DEF ContextsHold
  <2> PICK context : context = request[r].context
    OBVIOUS
  <2>1. request'[r] = request[r] /\ context \in Seq(Answers \cup {NoAnswer})
    BY RequestType DEF RequestLocals
  <2>2. ASSUME NEW c \in Conversations, request[r].conversation = c, Stored(c)'
        PROVE  Answered(context, turns'[c], answer')
    <3>1. Kept(c) /\ Stored(c)
      BY <2>2 DEF Kept, Gone, Stored
    <3>2. Answered(context, turns[c], answer)
      BY <2>1, <2>2, <3>1 DEF TransactionInv, ContextsHold
    <3> QED BY <2>1, <3>1, <3>2, AnsweredStays
  <2> QED BY <2>1, <2>2 DEF TransactionInv, ContextsHold
<1>3. LatestHolds'
  <2> SUFFICES ASSUME NEW r \in Requests, request'[r].pc = "regenerate",
                      NEW c \in Conversations, request'[r].turn \in TurnsOf(c)'
               PROVE  request'[r].turn = Latest(c)'
    BY DEF LatestHolds
  <2>1. request'[r] = request[r]
    OBVIOUS
  <2>2. turns'[c] = turns[c]
    BY EmptySeq DEF Kept, Gone, TurnsOf
  <2>3. TurnsOf(c)' = TurnsOf(c) /\ Latest(c)' = Latest(c)
    BY <2>2 DEF TurnsOf, Latest
  <2> QED BY <2>1, <2>3 DEF TransactionInv, LatestHolds
<1> QED BY <1>1, <1>2, <1>3 DEF TransactionInv

LEMMA QuietTransactions ==
  ASSUME ConversationTypeOK, TransactionInv, QuietRows,
         \A r \in Requests : \/ request'[r] = request[r]
                             \/ request'[r].pc \notin {"insert", "regenerate"}
  PROVE  TransactionInv'
<1>1. \A c \in Conversations : Kept(c)
  BY DEF QuietRows, Kept
<1>2. AnswersStay
  BY DEF QuietRows, AnswersStay, Active
<1> QED BY <1>1, <1>2, TransactionsStay

\* The lock is free: there is no other transaction.
LEMMA LocksTransaction ==
  ASSUME ConversationTypeOK, ConversationInv, TransactionInv, NEW r \in Requests,
         SendLocks(r) \/ \E c \in Conversations : RegenerateLocks(r, c)
  PROVE  TransactionInv'
<1>1. \A q \in Requests \ {r} :
        request'[q].pc \notin {"insert", "regenerate"} /\ UNCHANGED <<conversation, turns, turn, answer>>
  BY DEF SendLocks, RegenerateLocks, AccountIsFree, Await, ConversationTypeOK
<1>2. OneTransaction'
  BY <1>1 DEF OneTransaction, InTransaction
<1>3. CASE SendLocks(r)
  <2> PICK context, c : /\ c = request[r].conversation
                        /\ context = IF c = NoConversation THEN <<>> ELSE Context(c)
    OBVIOUS
  <2>1. /\ request'[r] = [request[r] EXCEPT !.pc = "insert", !.context = context]
        /\ c # NoConversation => Stored(c)
        /\ UNCHANGED <<conversation, turns, turn, answer>>
    BY <1>3 DEF SendLocks, Await, ConversationTypeOK
  <2>2. /\ request'[r].pc = "insert" /\ request'[r].conversation = c
        /\ request'[r].context = context
    BY <2>1, RequestType DEF RequestLocals
  <2>3. c # NoConversation => c \in Conversations /\ Answered(context, turns[c], answer)
    <3> SUFFICES ASSUME c # NoConversation PROVE c \in Conversations /\ Answered(context, turns[c], answer)
      OBVIOUS
    <3>1. c \in Conversations
      BY <2>1 DEF Stored
    <3>2. Len(context) = Len(turns[c])
      BY <3>1, ContextType
    <3>3. ASSUME NEW j \in 1..Len(turns[c]), context[j] # NoAnswer
          PROVE  /\ answer[context[j]].turn = turns[c][j]
                 /\ answer[context[j]].status = "completed"
      <4> PICK b : b = turn[turns[c][j]].selected
        OBVIOUS
      <4>1. context[j] = b /\ b # NoAnswer
        BY <3>1, <3>3, ContextType
      <4>2. turns[c][j] \in Turns
        BY <3>1, ElementOfSeq DEF ConversationTypeOK
      <4> QED BY <4>1, <4>2 DEF ConversationInv, ShownAreOwn
    <3> QED BY <3>1, <3>2, <3>3 DEF Answered
  <2>4. ASSUME NEW q \in Requests, request'[q].pc = "insert"
        PROVE  /\ request'[q].conversation = NoConversation => request'[q].context = <<>>
               /\ \A d \in Conversations : request'[q].conversation = d /\ Stored(d)' =>
                    Answered(request'[q].context, turns'[d], answer')
    <3>1. q = r
      BY <1>1, <2>4
    <3>2. c = NoConversation => context = <<>>
      BY <2>2
    <3> QED BY <2>1, <2>2, <2>3, <3>1, <3>2, ConversationNulls
  <2>6. ContextsHold'
    BY <2>4 DEF ContextsHold
  <2>5. LatestHolds'
    BY <1>1, <2>2 DEF LatestHolds
  <2> QED BY <1>2, <2>6, <2>5 DEF TransactionInv
<1>4. ASSUME NEW c \in Conversations, RegenerateLocks(r, c)
      PROVE  TransactionInv'
  <2>1. /\ request'[r].pc = "regenerate" /\ request'[r].turn = Latest(c)
        /\ Latest(c) # NoTurn /\ UNCHANGED turns
    BY <1>4 DEF RegenerateLocks, Await, IdleRequest, ConversationTypeOK
  <2>2. ASSUME NEW d \in Conversations, Latest(c) \in TurnsOf(d)
        PROVE  d = c
    <3>1. Latest(c) \in TurnsOf(c)
      BY <2>1, LatestTurn
    <3> QED BY <2>2, <3>1 DEF TurnsOf, ConversationInv, TurnsAreOwn
  <2>3. LatestHolds'
    BY <1>1, <2>1, <2>2 DEF LatestHolds, TurnsOf, Latest
  <2>4. ContextsHold'
    BY <1>1, <2>1 DEF ContextsHold
  <2> QED BY <1>2, <2>3, <2>4 DEF TransactionInv
<1> QED BY <1>3, <1>4

\* The only transaction ends.
LEMMA InsertsTransaction ==
  ASSUME ConversationTypeOK, TransactionInv, NEW r \in Requests,
         SendInserts(r) \/ RegenerateInserts(r)
  PROVE  TransactionInv'
<1>1. InTransaction(r) /\ Finish(r)
  BY DEF SendInserts, RegenerateInserts, InTransaction
<1>2. \A q \in Requests : request'[q].pc \notin {"insert", "regenerate"}
  BY <1>1 DEF TransactionInv, OneTransaction, InTransaction, Finish, IdleRequest, ConversationTypeOK
<1> QED BY <1>2 DEF TransactionInv, OneTransaction, InTransaction, ContextsHold, LatestHolds

LEMMA DeleteTransaction ==
  ASSUME ConversationTypeOK, ConversationInv, TransactionInv, NEW r \in Requests, DeleteRow(r)
  PROVE  TransactionInv'
<1> PICK c : c = request[r].conversation
  OBVIOUS
<1>1. c \in Conversations
  BY RequestType DEF DeleteRow, HasItsData
<1>2. /\ turns' = [turns EXCEPT ![c] = <<>>]
      /\ conversation' = [conversation EXCEPT ![c] = [NoConversationRow EXCEPT !.row = "removed"]]
      /\ answer' = [a \in Answers |-> IF answer[a].turn \in TurnsOf(c) THEN RemovedAnswer
                                       ELSE answer[a]]
  BY DEF DeleteRow
<1>3. Gone(c) /\ \A d \in Conversations \ {c} : Kept(d)
  BY <1>1, <1>2 DEF Gone, Kept, NoConversationRow, ConversationTypeOK
<1>4. \A d \in Conversations \ {c} : \A t \in TurnsOf(d) : t \notin TurnsOf(c)
  BY <1>1 DEF ConversationInv, TurnsAreOwn, TurnsOf
<1>5. Kept(c) => TurnsOf(c) = {}
  BY <1>3, EmptySeq DEF Kept, Gone, TurnsOf
<1>6. AnswersStay
  <2> SUFFICES ASSUME NEW d \in Conversations, Kept(d), NEW a \in Answers,
                      answer[a].status = "completed", answer[a].turn \in TurnsOf(d)
               PROVE  answer'[a].status = "completed" /\ answer'[a].turn = answer[a].turn
    BY DEF AnswersStay
  <2>1. answer[a].turn \notin TurnsOf(c)
    BY <1>4, <1>5
  <2> QED BY <1>2, <2>1
<1>7. \A q \in Requests : \/ request'[q] = request[q]
                          \/ request'[q].pc \notin {"insert", "regenerate"}
  BY DEF DeleteRow, Finish, IdleRequest, ConversationTypeOK
<1> QED BY <1>3, <1>6, <1>7, TransactionsStay

\* Every other step of a request, and every step of the worker.
LEMMA OthersTransaction ==
  ASSUME ConversationTypeOK, ConversationInv, TransactionInv,
         \/ \E r \in Requests :
              \/ \E c \in Conversations \cup {NoConversation}, p \in Providers,
                   confirmed \in BOOLEAN : SendReads(r, c, p, confirmed)
              \/ \E c \in Conversations, a \in Answers : SelectReads(r, c, a)
              \/ \E c \in Conversations, p \in Providers, confirmed \in BOOLEAN :
                   SelectModelReads(r, c, p, confirmed)
              \/ \E c \in Conversations : DeleteReads(r, c)
              \/ \E a \in Answers : StopAnswer(r, a)
              \/ SelectWrites(r) \/ SelectModelWrites(r) \/ DeleteStops(r) \/ Abort(r)
         \/ WorkerNext
         \/ Restart
  PROVE  TransactionInv'
<1>1. ASSUME NEW r \in Requests, NEW a \in Answers, StopAnswer(r, a)
      PROVE  TransactionInv'
  BY <1>1, SettleQuiet, QuietTransactions DEF StopAnswer
<1>2. ASSUME NEW r \in Requests, DeleteStops(r)
      PROVE  TransactionInv'
  <2>1. request[r].answer \in Answers
    BY <1>2, RequestType DEF DeleteStops, HasItsData
  <2>2. QuietRows
    BY <1>2, <2>1, SettleQuiet DEF DeleteStops
  <2>3. \A q \in Requests : \/ request'[q] = request[q]
                            \/ request'[q].pc \notin {"insert", "regenerate"}
    BY <1>2 DEF DeleteStops, Await, ConversationTypeOK, RequestLocals
  <2> QED BY <2>2, <2>3, QuietTransactions
<1>3. ASSUME NEW r \in Requests,
             \/ \E c \in Conversations \cup {NoConversation}, p \in Providers,
                  confirmed \in BOOLEAN : SendReads(r, c, p, confirmed)
             \/ \E c \in Conversations, a \in Answers : SelectReads(r, c, a)
             \/ \E c \in Conversations, p \in Providers, confirmed \in BOOLEAN :
                  SelectModelReads(r, c, p, confirmed)
             \/ \E c \in Conversations : DeleteReads(r, c)
             \/ Abort(r)
      PROVE  TransactionInv'
  <2>1. QuietRows
    BY <1>3 DEF QuietRows, SendReads, SelectReads, SelectModelReads, DeleteReads, Abort
  <2>2. \E next : Await(r, next) /\ next.pc \notin {"insert", "regenerate"}
    <3>1. ASSUME NEW c, NEW p, NEW confirmed, SendReads(r, c, p, confirmed)
          PROVE  \E next : Await(r, next) /\ next.pc \notin {"insert", "regenerate"}
      <4>1. [IdleRequest EXCEPT !.pc = "publish", !.conversation = c, !.provider = p].pc = "publish"
        BY DEF IdleRequest
      <4> QED BY <3>1, <4>1 DEF SendReads
    <3>2. ASSUME NEW c, NEW a, SelectReads(r, c, a)
          PROVE  \E next : Await(r, next) /\ next.pc \notin {"insert", "regenerate"}
      <4>1. [IdleRequest EXCEPT !.pc = "select", !.turn = Latest(c), !.answer = a].pc = "select"
        BY DEF IdleRequest
      <4> QED BY <3>2, <4>1 DEF SelectReads
    <3>3. ASSUME NEW c, NEW p, NEW confirmed, SelectModelReads(r, c, p, confirmed)
          PROVE  \E next : Await(r, next) /\ next.pc \notin {"insert", "regenerate"}
      <4>1. [IdleRequest EXCEPT !.pc = "selectModel", !.conversation = c, !.provider = p].pc
              = "selectModel"
        BY DEF IdleRequest
      <4> QED BY <3>3, <4>1 DEF SelectModelReads
    <3>4. ASSUME NEW c, DeleteReads(r, c)
          PROVE  \E next : Await(r, next) /\ next.pc \notin {"insert", "regenerate"}
      <4>1. \A a : [IdleRequest EXCEPT !.pc = "stop", !.conversation = c, !.answer = a].pc = "stop"
        BY DEF IdleRequest
      <4>2. [IdleRequest EXCEPT !.pc = "delete", !.conversation = c].pc = "delete"
        BY DEF IdleRequest
      <4> QED BY <3>4, <4>1, <4>2 DEF DeleteReads
    <3>5. CASE Abort(r)
      <4>1. Await(r, IdleRequest)
        BY <3>5 DEF Abort, Finish, Await
      <4>2. IdleRequest.pc = "idle"
        BY DEF IdleRequest
      <4> QED BY <4>1, <4>2
    <3> QED BY <1>3, <3>1, <3>2, <3>3, <3>4, <3>5
  <2>3. \A q \in Requests : \/ request'[q] = request[q]
                            \/ request'[q].pc \notin {"insert", "regenerate"}
    BY <2>2 DEF Await, ConversationTypeOK
  <2> QED BY <2>1, <2>3, QuietTransactions
<1>4. ASSUME NEW r \in Requests, SelectWrites(r) \/ SelectModelWrites(r)
      PROVE  TransactionInv'
  <2>1. \A c \in Conversations : Kept(c)
    <3>1. CASE SelectWrites(r)
      BY <3>1 DEF SelectWrites, Kept
    <3>2. CASE SelectModelWrites(r)
      <4>1. UNCHANGED turns
        BY <3>2 DEF SelectModelWrites
      <4>2. \A c \in Conversations : conversation'[c].row = conversation[c].row
        BY <3>2 DEF SelectModelWrites, ConversationTypeOK, ConversationRows
      <4> QED BY <4>1, <4>2 DEF Kept
    <3> QED BY <1>4, <3>1, <3>2
  <2>2. AnswersStay
    BY <1>4 DEF SelectWrites, SelectModelWrites, AnswersStay
  <2>3. \A q \in Requests : \/ request'[q] = request[q]
                            \/ request'[q].pc \notin {"insert", "regenerate"}
    BY <1>4 DEF SelectWrites, SelectModelWrites, Finish, IdleRequest, ConversationTypeOK
  <2> QED BY <2>1, <2>2, <2>3, TransactionsStay
<1>5. ASSUME NEW a \in Answers, Admit(a) \/ FailAnswer(a)
      PROVE  TransactionInv'
  <2>1. QuietRows
    <3>1. CASE Admit(a)
      BY <3>1 DEF Admit, QuietRows, ConversationTypeOK, AnswerRows, Active
    <3>2. CASE FailAnswer(a)
      BY <3>2, SettleQuiet DEF FailAnswer
    <3> QED BY <1>5, <3>1, <3>2
  <2> QED BY <1>5, <2>1, QuietTransactions DEF Admit, FailAnswer
<1>6. CASE CompleteAnswer
  <2>1. QuietRows
    BY <1>6 DEF CompleteAnswer, QuietRows, ConversationTypeOK, AnswerRows, Active
  <2> QED BY <1>6, <2>1, QuietTransactions DEF CompleteAnswer
<1>7. CASE SelectCompleted \/ SelectFails \/ WorkerReturns
  <2>1. (\A c \in Conversations : Kept(c)) /\ AnswersStay
    BY <1>7 DEF SelectCompleted, SelectFails, WorkerReturns, Kept, AnswersStay
  <2> QED BY <1>7, <2>1, TransactionsStay DEF SelectCompleted, SelectFails, WorkerReturns
<1>8. CASE Restart
  <2>1. QuietRows
    BY <1>8 DEF Restart, QuietRows, ConversationTypeOK, AnswerRows, Active
  <2> QED BY <1>8, <2>1, QuietTransactions DEF Restart, IdleRequest
<1> QED BY <1>1, <1>2, <1>3, <1>4, <1>5, <1>6, <1>7, <1>8 DEF WorkerNext

LEMMA TransactionStep ==
  ASSUME ConversationTypeOK, ConversationInv, TransactionInv, [ConversationNext]_conversationVars
  PROVE  TransactionInv'
<1>1. ASSUME NEW r \in Requests, RequestNext(r)
      PROVE  TransactionInv'
  BY <1>1, LocksTransaction, InsertsTransaction, DeleteTransaction, OthersTransaction
     DEF RequestNext
<1>2. CASE WorkerNext \/ Restart
  BY <1>2, OthersTransaction
<1>3. CASE UNCHANGED conversationVars
  <2>1. QuietRows /\ UNCHANGED request
    BY <1>3 DEF conversationVars, QuietRows
  <2> QED BY <2>1, QuietTransactions
<1> QED BY <1>1, <1>2, <1>3 DEF ConversationNext

LEMMA ConversationStep ==
  ASSUME ConversationTypeOK, ConversationInv, TransactionInv, [ConversationNext]_conversationVars
  PROVE  ConversationInv'
<1>1. ASSUME NEW r \in Requests, RequestNext(r)
      PROVE  ConversationInv'
  BY <1>1, ReadsInv, PublishInv, RegenerateInv, SettlesInv, SelectWritesInv, SelectModelInv,
     DeleteInv DEF RequestNext
<1>2. CASE WorkerNext \/ Restart
  BY <1>2, SettlesInv, SelectCompletedInv DEF WorkerNext
<1>3. CASE UNCHANGED conversationVars
  <2>1. QuietRows /\ UNCHANGED <<answer, request, worker, missed>>
    BY <1>3 DEF conversationVars, QuietRows
  <2> QED BY <2>1, QuietSelections, QuietShown, QuietStep
<1> QED BY <1>1, <1>2, <1>3 DEF ConversationNext

LEMMA ConversationInvariant ==
  ConversationSpec => [](ConversationTypeOK /\ ConversationInv /\ TransactionInv)
<1>1. ConversationTypeOK /\ ConversationInv /\ TransactionInv /\ [ConversationNext]_conversationVars
        => (ConversationTypeOK /\ ConversationInv /\ TransactionInv)'
  BY TypeStep, ConversationStep, TransactionStep
<1> QED BY InitConversation, <1>1, PTL DEF ConversationSpec

(***************************************************************************)
(* Every row and every request keeps its type, and a request that uses an  *)
(* identifier really has one.                                              *)
(***************************************************************************)
THEOREM ConversationTypes == ConversationSpec => []ConversationTypeOK
  BY ConversationInvariant, PTL

(***************************************************************************)
(* What sendQuestion sends as context are completed versions of all the    *)
(* turns before, however stops, deletions, selections and other requests   *)
(* fell between reading the turns and inserting the new one: the account   *)
(* lock keeps other publications out, and answers once completed stay.     *)
(***************************************************************************)
THEOREM ContextsAreCompleted == ConversationSpec => []ContextIsCompleted
  BY ConversationInvariant, PTL DEF ConversationInv

(***************************************************************************)
(* A turn shows a finished version of its own, and shows one once          *)
(* completeAnswer is over, unless its second statement failed or the       *)
(* process died before it.                                                 *)
(***************************************************************************)
THEOREM FinishedVersionsAreShown == ConversationSpec => []CompletedIsShown
<1>1. ConversationInv => CompletedIsShown
  BY DEF ConversationInv, ShownAreOwn, FinishedAreShown, CompletedIsShown
<1> QED BY <1>1, ConversationInvariant, PTL

(***************************************************************************)
(* Deletion leaves no active answer outside the owner's conversations.     *)
(***************************************************************************)
THEOREM ActiveStaysReachable == ConversationSpec => []ActiveIsReachable
<1>1. ConversationTypeOK /\ ConversationInv => ActiveIsReachable
  <2> SUFFICES ASSUME ConversationTypeOK, ConversationInv,
                      NEW a \in Answers, answer[a].status \in Active
               PROVE  \E c \in Conversations : Stored(c) /\ answer[a].turn \in TurnsOf(c)
    BY DEF ActiveIsReachable, ActiveAnswers
  <2>1. PICK c \in Conversations : answer[a].turn \in TurnsOf(c)
    BY DEF ConversationInv, AnswersBelong, Active
  <2>2. turns[c] # <<>>
    BY <2>1, EmptySeq DEF TurnsOf
  <2> QED BY <2>1, <2>2 DEF ConversationInv, TurnsAreOwn, Stored
<1> QED BY <1>1, ConversationInvariant, PTL

----------------------------------------------------------------------------
(* Versions are added to latest turns only.                                *)

NewVersionIsLatest ==
  \A a \in Answers :
    (answer[a].status = "absent" /\ answer'[a].status = "queued")
    => \E c \in Conversations : answer'[a].turn = (Latest(c))'

\* The steps that add a version are the only ones that leave "absent".
LEMMA OthersAddNothing ==
  ASSUME ConversationTypeOK, ConversationInv,
         \/ UNCHANGED answer
         \/ QuietRows
         \/ \E r \in Requests : DeleteRow(r)
  PROVE  NewVersionIsLatest
<1>1. CASE UNCHANGED answer
  BY <1>1 DEF NewVersionIsLatest
<1>2. CASE QuietRows
  BY <1>2 DEF NewVersionIsLatest, QuietRows, Active
<1>3. ASSUME NEW r \in Requests, DeleteRow(r)
      PROVE  NewVersionIsLatest
  BY <1>3 DEF NewVersionIsLatest, DeleteRow, RemovedAnswer, NoAnswerRow
<1> QED BY <1>1, <1>2, <1>3

\* Every statement on answers that neither publishes nor deletes.
LEMMA AnswerStatements ==
  ASSUME ConversationTypeOK, [ConversationNext]_conversationVars
  PROVE  \/ UNCHANGED answer
         \/ \E r \in Requests : SendInserts(r)
         \/ \E r \in Requests : RegenerateInserts(r)
         \/ \E r \in Requests : DeleteRow(r)
         \/ \E a \in Answers, outcome \in {"stopped", "failed"} :
              Settle(a, outcome) /\ UNCHANGED <<conversation, turns, turn>>
         \/ \E a \in Answers : Admit(a)
         \/ CompleteAnswer
         \/ Restart
<1>1. ASSUME NEW r \in Requests, RequestNext(r)
      PROVE  \/ UNCHANGED answer
             \/ SendInserts(r)
             \/ RegenerateInserts(r)
             \/ DeleteRow(r)
             \/ \E a \in Answers, outcome \in {"stopped", "failed"} :
                  Settle(a, outcome) /\ UNCHANGED <<conversation, turns, turn>>
  <2>1. CASE \E a \in Answers : StopAnswer(r, a)
    BY <2>1 DEF StopAnswer
  <2>2. CASE DeleteStops(r)
    <3>1. request[r].answer \in Answers
      BY <2>2, RequestType DEF DeleteStops, HasItsData
    <3> QED BY <2>2, <3>1 DEF DeleteStops
  <2>3. CASE \/ \E c \in Conversations \cup {NoConversation}, p \in Providers,
                   confirmed \in BOOLEAN : SendReads(r, c, p, confirmed)
             \/ \E c \in Conversations : DeleteReads(r, c)
             \/ \E c \in Conversations, a \in Answers : SelectReads(r, c, a)
             \/ \E c \in Conversations, p \in Providers, confirmed \in BOOLEAN :
                  SelectModelReads(r, c, p, confirmed)
             \/ SendLocks(r) \/ \E c \in Conversations : RegenerateLocks(r, c)
             \/ SelectWrites(r) \/ SelectModelWrites(r) \/ Abort(r)
    BY <2>3 DEF SendReads, DeleteReads, SelectReads, SelectModelReads, SendLocks,
                RegenerateLocks, SelectWrites, SelectModelWrites, Abort
  <2> QED BY <1>1, <2>1, <2>2, <2>3 DEF RequestNext
<1>2. CASE WorkerNext \/ Restart
  <2>1. ASSUME NEW a \in Answers, FailAnswer(a)
        PROVE  Settle(a, "failed") /\ UNCHANGED <<conversation, turns, turn>>
    BY <2>1 DEF FailAnswer
  <2>2. CASE SelectCompleted \/ SelectFails \/ WorkerReturns
    BY <2>2 DEF SelectCompleted, SelectFails, WorkerReturns
  <2> QED BY <1>2, <2>1, <2>2 DEF WorkerNext
<1>3. CASE UNCHANGED conversationVars
  BY <1>3 DEF conversationVars
<1> QED BY <1>1, <1>2, <1>3 DEF ConversationNext

(***************************************************************************)
(* A version is only added to the turn that is the latest when it is       *)
(* inserted: sendQuestion appends the turn it versions, and what           *)
(* regenerate read as the latest turn still is, or has gone with its       *)
(* conversation, because both hold the account lock until they commit.     *)
(***************************************************************************)
THEOREM LatestGrows == ConversationSpec => OnlyLatestGrows
<1>1. ASSUME ConversationTypeOK, ConversationInv, TransactionInv,
             [ConversationNext]_conversationVars
      PROVE  NewVersionIsLatest
  <2>1. ASSUME NEW r \in Requests, SendInserts(r)
        PROVE  NewVersionIsLatest
    <3> PICK p, context : p = request[r].provider /\ context = request[r].context
      OBVIOUS
    <3> PICK c \in Conversations, t \in Turns, a \in Answers : Publish(c, p, context, t, a)
      BY <2>1 DEF SendInserts
    <3>1. turns' = [turns EXCEPT ![c] = Append(@, t)]
      BY DEF Publish
    <3>2. turns'[c] # <<>> /\ turns'[c][Len(turns'[c])] = t
      <4>1. /\ Len(turns'[c]) = Len(turns[c]) + 1 /\ turns'[c] # <<>>
            /\ turns'[c][Len(turns[c]) + 1] = t
        BY <1>1, <3>1, PublishedTurns
      <4> QED BY <4>1
    <3>3. Latest(c)' = t
      BY <3>2 DEF Latest
    <3>4. answer'[a].turn = t /\ \A b \in Answers \ {a} : answer'[b] = answer[b]
      BY <1>1 DEF Publish, Queued, ConversationTypeOK
    <3> QED BY <3>3, <3>4 DEF NewVersionIsLatest
  <2>2. ASSUME NEW r \in Requests, RegenerateInserts(r)
        PROVE  NewVersionIsLatest
    <3> PICK t : t = request[r].turn
      OBVIOUS
    <3>1. PICK a \in Answers : answer' = [answer EXCEPT ![a] =
                                 Queued(t, request[r].version, request[r].provider)]
      BY <2>2 DEF RegenerateInserts
    <3>2. PICK c \in Conversations : t \in TurnsOf(c)
      BY <2>2 DEF RegenerateInserts
    <3>3. t = Latest(c)
      BY <1>1, <2>2, <3>2 DEF RegenerateInserts, TransactionInv, LatestHolds
    <3>4. Latest(c)' = Latest(c)
      BY <2>2 DEF RegenerateInserts, Latest
    <3>5. answer'[a].turn = t /\ \A b \in Answers \ {a} : answer'[b] = answer[b]
      BY <1>1, <3>1 DEF Queued, ConversationTypeOK
    <3> QED BY <3>3, <3>4, <3>5 DEF NewVersionIsLatest
  <2>3. ASSUME NEW a \in Answers, NEW outcome \in {"stopped", "failed"},
               Settle(a, outcome), UNCHANGED <<conversation, turns, turn>>
        PROVE  NewVersionIsLatest
    BY <1>1, <2>3, SettleQuiet, OthersAddNothing
  <2>4. ASSUME NEW a \in Answers, Admit(a)
        PROVE  NewVersionIsLatest
    BY <1>1, <2>4 DEF Admit, NewVersionIsLatest, ConversationTypeOK
  <2>5. CASE CompleteAnswer
    BY <1>1, <2>5 DEF CompleteAnswer, NewVersionIsLatest, ConversationTypeOK
  <2>6. CASE Restart
    BY <1>1, <2>6 DEF Restart, NewVersionIsLatest, ConversationTypeOK
  <2> QED BY <1>1, <2>1, <2>2, <2>3, <2>4, <2>5, <2>6, AnswerStatements, OthersAddNothing
<1>2. ConversationTypeOK /\ ConversationInv /\ TransactionInv /\ [ConversationNext]_conversationVars
        => [NewVersionIsLatest]_conversationVars
  BY <1>1
<1> QED BY <1>2, ConversationInvariant, PTL
     DEF ConversationSpec, OnlyLatestGrows, NewVersionIsLatest

----------------------------------------------------------------------------
(* Refinement of AnswerLifecycle.                                          *)

Rows == [a \in Answers |-> answer[a].status]
LifeStep == [Life!LifecycleNext]_Rows

LEMMA SettleIsLife ==
  ASSUME ConversationTypeOK, NEW a \in Answers, NEW outcome \in {"stopped", "failed"},
         Settle(a, outcome)
  PROVE  LifeStep
<1>1. CASE answer[a].status \in Active
  <2>1. Rows' = [b \in Answers |-> IF b \in {a} THEN outcome ELSE Rows[b]]
    BY <1>1 DEF Settle, Rows, ConversationTypeOK, AnswerRows
  <2>2. Life!SettleRows({a}, outcome)
    BY <1>1, <2>1 DEF Life!SettleRows, Life!Active, Active, Rows
  <2> QED BY <2>2 DEF LifeStep, Rows, Life!LifecycleNext
<1>2. CASE answer[a].status \notin Active
  BY <1>2 DEF Settle, LifeStep, Rows
<1> QED BY <1>1, <1>2

LEMMA PublishIsLife ==
  ASSUME ConversationTypeOK, NEW a \in Answers, NEW row,
         answer[a].status = "absent", SlotIsFree, row.status = "queued",
         answer' = [answer EXCEPT ![a] = row]
  PROVE  LifeStep
<1>1. Rows' = [Rows EXCEPT ![a] = "queued"]
  BY DEF Rows, ConversationTypeOK
<1>2. Life!PublishRow(a)
  BY <1>1 DEF Life!PublishRow, Life!ActiveOf, Life!Active, Active, SlotIsFree, ActiveAnswers, Rows
<1> QED BY <1>2 DEF LifeStep, Rows, Life!LifecycleNext

LEMMA StepIsLife ==
  ASSUME ConversationTypeOK, ConversationInv, [ConversationNext]_conversationVars
  PROVE  LifeStep
<1>1. ASSUME NEW r \in Requests, SendInserts(r)
      PROVE  LifeStep
  <2> PICK p, context : p = request[r].provider /\ context = request[r].context
    OBVIOUS
  <2> PICK c \in Conversations, t \in Turns, a \in Answers : Publish(c, p, context, t, a)
    BY <1>1 DEF SendInserts
  <2> DEFINE row == Queued(t, 1, p)
  <2>1. row.status = "queued"
    BY DEF Queued
  <2>2. answer[a].status = "absent" /\ SlotIsFree /\ answer' = [answer EXCEPT ![a] = row]
    BY DEF Publish
  <2> HIDE DEF row
  <2> QED BY <2>1, <2>2, PublishIsLife
<1>2. ASSUME NEW r \in Requests, RegenerateInserts(r)
      PROVE  LifeStep
  <2> DEFINE row == Queued(request[r].turn, request[r].version, request[r].provider)
  <2>1. row.status = "queued"
    BY DEF Queued
  <2>2. PICK a \in Answers : answer[a].status = "absent" /\ answer' = [answer EXCEPT ![a] = row]
    BY <1>2 DEF RegenerateInserts
  <2>3. SlotIsFree
    BY <1>2 DEF RegenerateInserts
  <2> HIDE DEF row
  <2> QED BY <2>1, <2>2, <2>3, PublishIsLife
<1>3. ASSUME NEW r \in Requests, DeleteRow(r)
      PROVE  LifeStep
  <2> DEFINE gone == {a \in Answers : answer[a].turn \in TurnsOf(request[r].conversation)}
  <2>1. Rows' = [a \in Answers |-> IF a \in gone THEN "removed" ELSE Rows[a]]
    BY <1>3 DEF DeleteRow, Rows, RemovedAnswer, NoAnswerRow
  <2>2. \A a \in gone : Rows[a] # "absent"
    <3>1. request[r].conversation \in Conversations
      BY <1>3, RequestType DEF DeleteRow, HasItsData
    <3>2. TurnsOf(request[r].conversation) \subseteq Turns
      BY <3>1, ElementOfSeq DEF TurnsOf, ConversationTypeOK
    <3> QED BY <3>2, ConversationNulls DEF ConversationInv, AnswersBelong, Rows
  <2>3. PICK removed \in SUBSET Answers : removed = gone
    OBVIOUS
  <2> HIDE DEF gone
  <2>4. Life!RemoveRows(removed)
    BY <2>1, <2>2, <2>3 DEF Life!RemoveRows, Rows
  <2>5. Life!LifecycleNext
    BY <2>4 DEF Life!LifecycleNext
  <2> QED BY <2>5 DEF LifeStep
<1>4. ASSUME NEW a \in Answers, Admit(a)
      PROVE  LifeStep
  <2>1. Rows' = [Rows EXCEPT ![a] = "generating"] /\ Rows[a] = "queued"
    BY <1>4 DEF Admit, Rows, ConversationTypeOK, AnswerRows
  <2> QED BY <2>1 DEF LifeStep, Rows, Life!LifecycleNext, Life!AdmitRow
<1>5. CASE CompleteAnswer
  <2> DEFINE a == worker.answer
  <2>1. a \in Answers
    BY <1>5 DEF CompleteAnswer, ConversationTypeOK
  <2>2. CASE answer[a].status = "generating"
    <3>1. Rows' = [Rows EXCEPT ![a] = "completed"] /\ Rows[a] = "generating"
      BY <1>5, <2>1, <2>2 DEF CompleteAnswer, Rows, ConversationTypeOK, AnswerRows
    <3> QED BY <2>1, <3>1 DEF LifeStep, Rows, Life!LifecycleNext, Life!CompleteRow
  <2>3. CASE answer[a].status # "generating"
    BY <1>5, <2>3 DEF CompleteAnswer, LifeStep, Rows
  <2> QED BY <2>2, <2>3
<1>6. CASE Restart
  <2> DEFINE cut == {a \in Answers : answer[a].status = "generating"}
  <2>1. Rows' = [a \in Answers |-> IF a \in cut THEN "failed" ELSE Rows[a]]
    BY <1>6 DEF Restart, Rows, ConversationTypeOK, AnswerRows
  <2>2. Life!SettleRows(cut, "failed")
    BY <2>1 DEF Life!SettleRows, Life!Active, Rows
  <2> QED BY <2>2 DEF LifeStep, Rows, Life!LifecycleNext
<1>7. CASE UNCHANGED answer
  BY <1>7 DEF LifeStep, Rows
<1> QED BY <1>1, <1>2, <1>3, <1>4, <1>5, <1>6, <1>7, SettleIsLife, AnswerStatements

(***************************************************************************)
(* The conversations implement the abstract life of an answer too: every   *)
(* statement on an answer row is a step of it or leaves the status alone.  *)
(***************************************************************************)
THEOREM ConversationImplementsLifecycle == ConversationSpec => LifecycleSpec
<1>1. ConversationInit => Life!LifecycleInit
  BY DEF ConversationInit, Life!LifecycleInit, NoAnswerRow
<1>2. ConversationTypeOK /\ ConversationInv /\ [ConversationNext]_conversationVars
        => [Life!LifecycleNext]_[a \in Answers |-> answer[a].status]
  BY StepIsLife DEF LifeStep, Rows
<1> QED BY <1>1, <1>2, ConversationInvariant, PTL
     DEF ConversationSpec, LifecycleSpec, Life!LifecycleSpec

-----------------------------------------------------------------------------
(* Least and greatest elements, by the well-foundedness of finite sets.    *)

LEMMA LeastNatural ==
  ASSUME NEW T, T \subseteq Nat, T # {}
  PROVE  \E x \in T : \A y \in T : x <= y
<1> DEFINE Below == {0..x : x \in T}
<1>1. Below \subseteq FiniteSubsetsOf(Nat) /\ Below # {}
  <2>1. \A x \in T : 0..x \in SUBSET Nat
    OBVIOUS
  <2>2. \A x \in T : IsFiniteSet(0..x)
    BY FS_Interval
  <2> QED BY <2>1, <2>2 DEF FiniteSubsetsOf
<1>2. PICK b \in Below : \A c \in Below : <<c, b>> \notin StrictSubsetOrdering(Nat)
  <2> HIDE DEF Below
  <2> QED BY <1>1, FS_StrictSubsetOrderingWellFounded, WFMin
<1>3. PICK x \in T : b = 0..x
  OBVIOUS
<1>4. ASSUME NEW y \in T, y < x PROVE FALSE
  <2>1. x \in Nat /\ y \in Nat
    OBVIOUS
  <2>2. 0..y \subseteq 0..x /\ x \in 0..x /\ x \notin 0..y
    BY <1>4, <2>1
  <2>3. 0..y \in SUBSET Nat /\ 0..x \in SUBSET Nat /\ 0..y # 0..x
    BY <2>1, <2>2
  <2>4. <<0..y, 0..x>> \in StrictSubsetOrdering(Nat)
    BY <2>2, <2>3 DEF StrictSubsetOrdering
  <2> QED BY <1>2, <1>3, <2>4
<1>5. x \in T /\ \A y \in T : y \in Nat /\ x \in Nat
  OBVIOUS
<1> QED BY <1>4, <1>5

LEMMA GreatestNatural ==
  ASSUME NEW S, S \subseteq Nat, S # {}, IsFiniteSet(S)
  PROVE  \E x \in S : \A y \in S : y <= x
<1> SUFFICES ASSUME \A x \in S : \E y \in S : x < y
             PROVE  FALSE
  OBVIOUS
<1> DEFINE Above(x) == {y \in S : x < y}
           Sizes == {Cardinality(Above(x)) : x \in S}
<1>1. ASSUME NEW x \in S
      PROVE  IsFiniteSet(Above(x)) /\ Cardinality(Above(x)) \in Nat
  BY FS_Subset, FS_CardinalityType
<1>2. ASSUME NEW x \in S, NEW z \in S, x < z
      PROVE  Above(z) \in SUBSET Above(x) /\ Above(z) # Above(x)
  <2>1. x \in Nat /\ z \in Nat /\ \A y \in S : y \in Nat
    OBVIOUS
  <2>2. Above(z) \subseteq Above(x)
    <3>1. \A y \in S : z < y => x < y
      BY <1>2, <2>1
    <3> QED BY <3>1
  <2>3. z \in Above(x) /\ z \notin Above(z)
    BY <1>2, <2>1
  <2> QED BY <2>2, <2>3
<1> HIDE DEF Above
<1>3. PICK x \in S : \A z \in S : Cardinality(Above(x)) <= Cardinality(Above(z))
  <2>1. Sizes \subseteq Nat /\ Sizes # {}
    BY <1>1
  <2>2. PICK s \in Sizes : \A t \in Sizes : s <= t
    <3> HIDE DEF Sizes
    <3> QED BY <2>1, LeastNatural
  <2> QED BY <2>2
<1>4. PICK z \in S : x < z
  OBVIOUS
<1>5. Cardinality(Above(z)) <= Cardinality(Above(x)) /\ Cardinality(Above(z)) # Cardinality(Above(x))
  BY <1>1, <1>2, <1>4, FS_Subset
<1> QED BY <1>1, <1>3, <1>5
----------------------------------------------------------------------------
(* Configuration: the invariant.                                           *)

After == Override(keys, txn.keys)
AfterView == View(After, Override(catalogue, txn.catalogue), txn.off)
AfterPreference == IF txn.writes THEN txn.preference ELSE preference

\* What an open transaction has locked, it has decided on; nobody else writes
\* those rows, and it never creates one without content.
LocksAreOpen ==
  /\ txn.open \/ Locked = {}
  /\ \A k \in Locked : txn.keys[k].row # "none"
  /\ \A k \in Keys : keys[k].row = "none" => keys[k].error = "none"

\* The rows to be written offer a rejected key with a new secret only.
SecretsWillDiffer ==
  \A k \in Locked :
    /\ keys[k].error = "key_invalid"
    /\ txn.keys[k].row = "stored"
    /\ txn.keys[k].error = "none"
    => txn.keys[k].secret # keys[k].secret

Offered(keyRows, k) == keyRows[k].row = "stored" /\ ~keyRows[k].pending

DistinctIn(keyRows) ==
  \A j, k \in Keys :
    /\ j # k
    /\ Offered(keyRows, j)
    /\ Offered(keyRows, k)
    /\ KeyProvider[j] = KeyProvider[k]
    => keyRows[j].position # keyRows[k].position

Good(view, p) == p.default = NoModel \/ Usable(view, p.default)

\* As long as nothing ran outside the lock, the preference fits the rows, now and
\* after the commit.
PreferencesFit ==
  ~unlocked =>
    /\ \A b \in Background : background[b].pc = "idle"
    /\ Good(Committed, preference)
    /\ txn.open => Good(AfterView, AfterPreference)

ConfigurationInv ==
  /\ LocksAreOpen
  /\ SecretsWillDiffer
  /\ DistinctIn(keys)
  /\ DistinctIn(After)
  /\ PreferencesFit

USE DEF rows

LEMMA NothingType ==
  /\ DOMAIN Nothing = {}
  /\ Nothing \in Catalogues
<1>1. Nothing \in [{} -> 0..2] /\ {} \in SUBSET Models
  BY DEF Nothing
<1> QED BY <1>1 DEF Nothing, Catalogues

LEMMA OverrideNothing ==
  ASSUME NEW S, NEW base \in [Keys -> S], NEW image, DOMAIN image = {}
  PROVE  Override(base, image) = base
  BY DEF Override

LEMMA BlankRows ==
  /\ NoKeyRow \in KeyRows /\ RemovedKey \in KeyRows
  /\ NoKeyRow.row = "none" /\ NoKeyRow.error = "none"
  /\ RemovedKey.row = "removed" /\ RemovedKey.error = "none"
  BY DEF NoKeyRow, RemovedKey, KeyRows

LEMMA KeyRowType ==
  ASSUME ConfigurationTypeOK, NEW k \in Keys
  PROVE  /\ keys[k] \in KeyRows
         /\ catalogue[k] \in Catalogues
  BY DEF ConfigurationTypeOK

LEMMA NoTxnType ==
  /\ NoTxn.open = FALSE /\ NoTxn.writes = FALSE /\ NoTxn.holds = FALSE
  /\ NoTxn.off = {} /\ DOMAIN NoTxn.keys = {} /\ DOMAIN NoTxn.catalogue = {}
  BY NothingType DEF NoTxn

LEMMA InitConfiguration == Init => ConfigurationTypeOK /\ ConfigurationInv
<1> SUFFICES ASSUME Init PROVE ConfigurationTypeOK /\ ConfigurationInv
  OBVIOUS
<1>1. ConfigurationTypeOK
  BY NothingType, NoTxnType, BlankRows DEF Init, ConfigurationTypeOK, Locked
<1>2. LocksAreOpen /\ SecretsWillDiffer
  BY NoTxnType, BlankRows DEF Init, LocksAreOpen, SecretsWillDiffer, Locked
<1>3. DistinctIn(keys)
  BY BlankRows DEF Init, DistinctIn, Offered
<1>4. After = keys
  BY <1>1, NoTxnType, OverrideNothing DEF Init, After, ConfigurationTypeOK
<1>5. PreferencesFit
  BY NoTxnType DEF Init, PreferencesFit, Good, EmptyPreference, IdleActor
<1> QED BY <1>1, <1>2, <1>3, <1>4, <1>5 DEF ConfigurationInv

----------------------------------------------------------------------------
(* Opening a transaction.                                                  *)

\* What the owner's operation must decide for the invariant to hold.
ImageType(image, listing, disabled) ==
  /\ DOMAIN image \subseteq Keys /\ \A k \in DOMAIN image : image[k] \in KeyRows
  /\ DOMAIN listing \subseteq Keys /\ \A k \in DOMAIN listing : listing[k] \in Catalogues
  /\ disabled \subseteq Models

ImageIsSound(image) ==
  /\ \A k \in DOMAIN image : image[k].row # "none"
  /\ \A k \in DOMAIN image :
       keys[k].error = "key_invalid" /\ image[k].row = "stored" /\ image[k].error = "none"
       => image[k].secret # keys[k].secret
  /\ DistinctIn(Override(keys, image))

LEMMA OpenStep ==
  ASSUME ConfigurationTypeOK, ConfigurationInv,
         NEW image, NEW listing, NEW disabled, NEW new,
         NEW writes \in BOOLEAN, NEW holds \in BOOLEAN,
         OpenChange(image, listing, disabled, new, writes, holds),
         ImageType(image, listing, disabled), ImageIsSound(image),
         ~unlocked => Good(View(Override(keys, image), Override(catalogue, listing), disabled),
                           IF writes THEN new ELSE preference)
  PROVE  ConfigurationTypeOK' /\ ConfigurationInv'
<1>1. /\ txn'.open = TRUE /\ txn'.keys = image /\ txn'.catalogue = listing
      /\ txn'.off = disabled /\ txn'.preference = new /\ txn'.writes = writes
      /\ txn'.holds = holds
  BY DEF OpenChange
<1>2. UNCHANGED <<keys, catalogue, off, preference, background, unlocked>>
      /\ changes' = changes + 1
  BY DEF OpenChange
<1>3. ConfigurationTypeOK'
  <2>0. changes' \in Nat
    BY <1>2 DEF ConfigurationTypeOK
  <2>1. {txn'.open, txn'.writes, txn'.holds, unlocked'} \subseteq BOOLEAN
    BY Zenon, <1>1, <1>2 DEF ConfigurationTypeOK
  <2>2. Locked' \subseteq Keys /\ \A k \in Locked' : txn'.keys[k] \in KeyRows
    BY <1>1 DEF ImageType, Locked
  <2>3. /\ DOMAIN txn'.catalogue \subseteq Keys
        /\ \A k \in DOMAIN txn'.catalogue : txn'.catalogue[k] \in Catalogues
        /\ txn'.off \subseteq Models
    BY <1>1 DEF ImageType
  <2>4. /\ keys' \in [Keys -> KeyRows] /\ catalogue' \in [Keys -> Catalogues]
        /\ off' \subseteq Models
    BY <1>2 DEF ConfigurationTypeOK
  <2> QED BY <2>0, <2>1, <2>2, <2>3, <2>4 DEF ConfigurationTypeOK
<1>4. LocksAreOpen' /\ SecretsWillDiffer'
  BY <1>1, <1>2 DEF ConfigurationInv, LocksAreOpen, SecretsWillDiffer, ImageIsSound, Locked
<1>5. After' = Override(keys, image)
  BY <1>1, <1>2 DEF After, Override
<1>6. DistinctIn(keys)' /\ DistinctIn(After)'
  BY <1>2, <1>5 DEF ConfigurationInv, ImageIsSound, DistinctIn, Offered
<1>7. /\ AfterView' = View(Override(keys, image), Override(catalogue, listing), disabled)
      /\ AfterPreference' = IF writes THEN new ELSE preference
  BY <1>1, <1>2, <1>5 DEF AfterView, AfterPreference, Override
<1>8. PreferencesFit'
  <2> SUFFICES ASSUME ~unlocked'
               PROVE  /\ \A b \in Background : background'[b].pc = "idle"
                      /\ Good(Committed, preference)'
                      /\ Good(AfterView, AfterPreference)'
    BY DEF PreferencesFit
  <2>1. ~unlocked
    BY <1>2
  <2>2. Good(AfterView', AfterPreference')
    BY <1>7, <2>1
  <2>3. Good(Committed, preference)'
    BY <1>2, <2>1 DEF ConfigurationInv, PreferencesFit, Good, Committed, View, Usable, Serves, Lists
  <2>4. \A b \in Background : background'[b].pc = "idle"
    BY <1>2, <2>1 DEF ConfigurationInv, PreferencesFit
  <2> QED BY <2>2, <2>3, <2>4 DEF Good, Usable, Serves, Lists
<1> QED BY <1>3, <1>4, <1>6, <1>8 DEF ConfigurationInv

LEMMA FirstIsUsable ==
  ASSUME NEW view, NEW seq
  PROVE  LET m == FirstUsable(view, seq) IN m = NoModel \/ Usable(view, m)
<1> DEFINE usable == {i \in 1..Len(seq) : Usable(view, seq[i])}
           Least(i) == \A j \in usable : i <= j
<1>1. CASE usable = {}
  BY <1>1 DEF FirstUsable
<1>2. CASE usable # {}
  <2>1. usable \subseteq Nat
    OBVIOUS
  <2>2. \E i \in usable : Least(i)
    <3> HIDE DEF usable
    <3> QED BY <1>2, <2>1, LeastNatural
  <2>3. (CHOOSE i \in usable : Least(i)) \in usable
    <3> HIDE DEF usable, Least
    <3> QED BY <2>2
  <2>4. FirstUsable(view, seq) = seq[CHOOSE i \in usable : Least(i)]
    BY <1>2 DEF FirstUsable
  <2>5. Usable(view, seq[CHOOSE i \in usable : Least(i)])
    <3> PICK i \in usable : i = CHOOSE n \in usable : Least(n)
      BY <2>3
    <3> QED OBVIOUS
  <2> QED BY <2>4, <2>5
<1> QED BY <1>1, <1>2

\* repairDefault leaves a default that can be sent, or none.
LEMMA RepairIsGood ==
  ASSUME NEW view, NEW p
  PROVE  /\ NeedsRepair(view, p) \in BOOLEAN
         /\ Good(view, RepairDefault(view, p))
         /\ ~NeedsRepair(view, p) => Good(view, p)
<1>1. NeedsRepair(view, p) \in BOOLEAN
  BY DEF NeedsRepair
<1>2. CASE NeedsRepair(view, p)
  <2>1. RepairDefault(view, p).default = FirstUsable(view, p.backups)
    BY <1>2 DEF RepairDefault, Replaced
  <2> QED BY <1>1, <1>2, <2>1, FirstIsUsable DEF Good
<1>3. CASE ~NeedsRepair(view, p)
  BY <1>1, <1>3 DEF NeedsRepair, RepairDefault, Good
<1> QED BY <1>1, <1>2, <1>3

LEMMA KeyChangeStep ==
  ASSUME ConfigurationTypeOK, ConfigurationInv, NEW image, OpenKeyChange(image),
         DOMAIN image \subseteq Keys, \A k \in DOMAIN image : image[k] \in KeyRows,
         ImageIsSound(image)
  PROVE  ConfigurationTypeOK' /\ ConfigurationInv'
<1> DEFINE view == View(Override(keys, image), catalogue, off)
           writes == NeedsRepair(view, preference)
           new == RepairDefault(view, preference)
<1>1. OpenChange(image, Nothing, off, new, writes, FALSE)
  BY DEF OpenKeyChange
<1>2. ImageType(image, Nothing, off)
  BY NothingType DEF ImageType, ConfigurationTypeOK
<1>3. Override(catalogue, Nothing) = catalogue
  BY NothingType, OverrideNothing DEF ConfigurationTypeOK
<1>4. writes \in BOOLEAN /\ Good(view, IF writes THEN new ELSE preference)
  <2> HIDE DEF view
  <2> QED BY RepairIsGood
<1>5. Good(View(Override(keys, image), Override(catalogue, Nothing), off),
           IF writes THEN new ELSE preference)
  BY <1>3, <1>4
<1> HIDE DEF writes, new
<1> QED BY <1>1, <1>2, <1>4, <1>5, OpenStep

\* A change that offers no more keys, at no other positions.
LEMMA FewerOffered ==
  ASSUME NEW old, NEW new, DistinctIn(old),
         \A k \in Keys : Offered(new, k) => Offered(old, k) /\ new[k].position = old[k].position
  PROVE  DistinctIn(new)
  BY DEF DistinctIn

\* Most operations decide on one row, which keeps its place.
LEMMA OneRowImage ==
  ASSUME ConfigurationTypeOK, ConfigurationInv, NEW k \in Keys, NEW row \in KeyRows,
         row.row # "none",
         keys[k].error = "key_invalid" /\ row.row = "stored" /\ row.error = "none"
           => row.secret # keys[k].secret,
         row.row = "stored" /\ ~row.pending =>
           Offered(keys, k) /\ row.position = keys[k].position
  PROVE  /\ DOMAIN [j \in {k} |-> row] \subseteq Keys
         /\ \A j \in DOMAIN [i \in {k} |-> row] : [i \in {k} |-> row][j] \in KeyRows
         /\ ImageIsSound([j \in {k} |-> row])
<1> DEFINE new == Override(keys, [j \in {k} |-> row])
<1>1. new[k] = row /\ \A j \in Keys \ {k} : new[j] = keys[j]
  BY DEF Override
<1>2. DistinctIn(new)
  <2>1. \A j \in Keys : Offered(new, j) => Offered(keys, j) /\ new[j].position = keys[j].position
    BY <1>1 DEF Offered
  <2> HIDE DEF new
  <2> QED BY <2>1, FewerOffered DEF ConfigurationInv
<1> QED BY <1>2 DEF ImageIsSound

LEMMA DeleteKeyStep ==
  ASSUME ConfigurationTypeOK, ConfigurationInv, NEW k \in Keys, DeleteKey(k) \/ RevokeKey(k)
  PROVE  ConfigurationTypeOK' /\ ConfigurationInv'
<1>1. keys[k] \in KeyRows
  BY KeyRowType
<1>2. CASE DeleteKey(k)
  <2> DEFINE row == IF keys[k].row = "removed" THEN RemovedKey
                    ELSE [keys[k] EXCEPT !.enabled = FALSE, !.pending = TRUE]
  <2>1. row \in KeyRows /\ (keys[k].row = "removed" => row = RemovedKey)
        /\ (keys[k].row # "removed" =>
              /\ row.pending = TRUE /\ row.row = keys[k].row
              /\ row.error = keys[k].error)
    BY <1>1, BlankRows DEF KeyRows
  <2>2. OpenKeyChange([j \in {k} |-> row]) /\ Stale(k)
    BY <1>2 DEF DeleteKey
  <2>3. row.row # "none" /\ ~(row.row = "stored" /\ ~row.pending)
        /\ ~(keys[k].error = "key_invalid" /\ row.row = "stored" /\ row.error = "none")
    BY <2>1, <2>2, BlankRows DEF Stale
  <2> HIDE DEF row
  <2> QED BY <2>1, <2>2, <2>3, OneRowImage, KeyChangeStep
<1>3. CASE RevokeKey(k)
  <2>1. OpenKeyChange([j \in {k} |-> RemovedKey])
    BY <1>3 DEF RevokeKey
  <2> QED BY <2>1, BlankRows, OneRowImage, KeyChangeStep
<1> QED BY <1>2, <1>3

\* The number of siblings in front of j, the place the sort gives it.
Before(k, j) == Cardinality({i \in Siblings(k) : keys[i].position < keys[j].position})

LEMMA SiblingType ==
  ASSUME NEW k \in Keys, NEW j \in Siblings(k)
  PROVE  /\ j \in Keys /\ j # k /\ Offered(keys, j) /\ KeyProvider[j] = KeyProvider[k]
         /\ Siblings(k) \subseteq Keys
  BY DEF Siblings, Offered

LEMMA BeforeType ==
  ASSUME NEW k \in Keys, NEW j
  PROVE  /\ IsFiniteSet({i \in Siblings(k) : keys[i].position < keys[j].position})
         /\ Before(k, j) \in Nat
<1>1. {i \in Siblings(k) : keys[i].position < keys[j].position} \subseteq Keys
  BY DEF Siblings
<1> QED BY <1>1, KeyAssumption, FS_Subset, FS_CardinalityType DEF Before

LEMMA BeforeIsStrict ==
  ASSUME ConfigurationTypeOK, NEW k \in Keys, NEW i \in Siblings(k), NEW j \in Siblings(k),
         keys[i].position < keys[j].position
  PROVE  Before(k, i) < Before(k, j)
<1> DEFINE I == {n \in Siblings(k) : keys[n].position < keys[i].position}
           J == {n \in Siblings(k) : keys[n].position < keys[j].position}
<1>1. \A n \in Siblings(k) : keys[n].position \in Nat
  BY SiblingType, KeyRowType DEF KeyRows
<1>2. \A n \in Siblings(k) : n \in I => n \in J
  BY <1>1
<1>3. i \in J /\ i \notin I
  BY <1>1
<1>4. I \in SUBSET J /\ I # J
  BY <1>2, <1>3
<1>5. IsFiniteSet(J) /\ Cardinality(I) \in Nat /\ Cardinality(J) \in Nat
  BY BeforeType DEF Before
<1> HIDE DEF I, J
<1>6. Cardinality(I) < Cardinality(J)
  BY <1>4, <1>5, FS_Subset
<1> QED BY <1>6 DEF I, J, Before

LEMMA BeforeIsInjective ==
  ASSUME ConfigurationTypeOK, DistinctIn(keys),
         NEW k \in Keys, NEW i \in Siblings(k), NEW j \in Siblings(k), i # j
  PROVE  Before(k, i) # Before(k, j)
<1>1. keys[i].position # keys[j].position
  BY SiblingType DEF DistinctIn
<1>2. keys[i].position \in Nat /\ keys[j].position \in Nat
  BY SiblingType, KeyRowType DEF KeyRows
<1>3. keys[i].position < keys[j].position \/ keys[j].position < keys[i].position
  BY <1>1, <1>2
<1>4. Before(k, i) < Before(k, j) \/ Before(k, j) < Before(k, i)
  BY <1>3, BeforeIsStrict
<1>5. Before(k, i) \in Nat /\ Before(k, j) \in Nat
  BY BeforeType
<1> QED BY <1>4, <1>5

\* The place of a sibling once the edited key has taken place p.
Place(k, p, j) == IF Before(k, j) < p THEN Before(k, j) ELSE Before(k, j) + 1

LEMMA PlacesAreDistinct ==
  ASSUME ConfigurationTypeOK, DistinctIn(keys), NEW k \in Keys, NEW p \in Nat
  PROVE  /\ \A j \in Siblings(k) : Place(k, p, j) \in Nat /\ Place(k, p, j) # p
         /\ \A i, j \in Siblings(k) : i # j => Place(k, p, i) # Place(k, p, j)
<1>1. \A j \in Siblings(k) : Before(k, j) \in Nat
  BY BeforeType
<1>2. \A i, j \in Siblings(k) : i # j => Before(k, i) # Before(k, j)
  BY BeforeIsInjective
<1> QED BY <1>1, <1>2 DEF Place

\* What updateKey writes to the edited row itself.
IsEdited(k, row) ==
  \/ keys[k].row = "removed" /\ row = RemovedKey
  \/ keys[k].row = "stored" /\ \E enabled \in BOOLEAN : row = [keys[k] EXCEPT !.enabled = enabled]

LEMMA EditedRow ==
  ASSUME ConfigurationTypeOK, NEW k \in Keys, NEW row, IsEdited(k, row)
  PROVE  /\ row \in KeyRows /\ row.row # "none"
         /\ row.row = "stored" =>
              /\ keys[k].row = "stored" /\ row.pending = keys[k].pending
              /\ row.error = keys[k].error /\ row.position = keys[k].position
<1>1. keys[k] \in KeyRows
  BY KeyRowType
<1>2. CASE row = RemovedKey
  BY <1>2, BlankRows
<1>3. ASSUME keys[k].row = "stored", NEW enabled \in BOOLEAN,
             row = [keys[k] EXCEPT !.enabled = enabled]
      PROVE  /\ row \in KeyRows /\ row.row = "stored" /\ row.pending = keys[k].pending
             /\ row.error = keys[k].error /\ row.position = keys[k].position
  BY <1>1, <1>3 DEF KeyRows
<1> QED BY <1>2, <1>3 DEF IsEdited

LEMMA RepositionImage ==
  ASSUME ConfigurationTypeOK, ConfigurationInv, NEW k \in Keys, NEW edited, NEW p \in Nat,
         IsEdited(k, edited)
  PROVE  LET image == Reposition(k, edited, p)
         IN /\ DOMAIN image \subseteq Keys /\ \A j \in DOMAIN image : image[j] \in KeyRows
            /\ ImageIsSound(image)
<1> DEFINE image == Reposition(k, edited, p)
           new == Override(keys, image)
<1>1. DOMAIN image = Siblings(k) \cup {k} /\ Siblings(k) \subseteq Keys \ {k}
  BY DEF Reposition, Siblings
<1>2. \A j \in Siblings(k) : image[j] = [keys[j] EXCEPT !.position = Place(k, p, j)]
  BY <1>1 DEF Reposition, Place, Before
<1>3. image[k] = IF edited.row = "stored" THEN [edited EXCEPT !.position = p] ELSE edited
  BY DEF Reposition
<1> HIDE DEF image
<1>4. DistinctIn(keys)
  BY DEF ConfigurationInv
<1>5. ASSUME NEW j \in Siblings(k)
      PROVE  /\ image[j] \in KeyRows /\ image[j].row = "stored"
             /\ image[j].error = keys[j].error /\ image[j].position = Place(k, p, j)
  <2>1. keys[j] \in KeyRows /\ keys[j].row = "stored"
    BY SiblingType, KeyRowType DEF Offered
  <2>2. Place(k, p, j) \in Nat
    BY <1>4, PlacesAreDistinct
  <2> QED BY <1>2, <2>1, <2>2 DEF KeyRows
<1>6. /\ image[k] \in KeyRows /\ image[k].row # "none"
      /\ image[k].row = "stored" =>
           /\ edited.row = "stored" /\ image[k].error = keys[k].error
           /\ image[k].position = p
  <2>1. edited \in KeyRows
    BY EditedRow
  <2>2. edited.row = "stored" =>
          /\ [edited EXCEPT !.position = p] \in KeyRows
          /\ [edited EXCEPT !.position = p].row = "stored"
          /\ [edited EXCEPT !.position = p].error = edited.error
          /\ [edited EXCEPT !.position = p].position = p
    BY <2>1 DEF KeyRows
  <2>3. edited.row # "none" /\ (edited.row = "stored" => edited.error = keys[k].error)
    BY EditedRow
  <2> QED BY <1>3, <2>1, <2>2, <2>3
<1>7. \A j \in DOMAIN image : image[j] \in KeyRows /\ image[j].row # "none"
  BY <1>1, <1>5, <1>6
<1>8. \A j \in DOMAIN image : image[j].row = "stored" => image[j].error = keys[j].error
  BY <1>1, <1>5, <1>6
<1>9. DistinctIn(new)
  <2>1. \A j \in Keys : new[j] = IF j \in Siblings(k) \cup {k} THEN image[j] ELSE keys[j]
    BY <1>1 DEF Override
  <2> HIDE DEF new
  <2>2. \A j \in Keys : /\ j # k /\ Offered(keys, j) /\ KeyProvider[j] = KeyProvider[k]
                        => j \in Siblings(k)
    BY DEF Siblings, Offered
  <2>3. ASSUME NEW i \in Keys, NEW j \in Keys, i # j, Offered(new, i), Offered(new, j),
               KeyProvider[i] = KeyProvider[j]
        PROVE  new[i].position # new[j].position
    <3>1. CASE i \notin Siblings(k) \cup {k} /\ j \notin Siblings(k) \cup {k}
      BY <2>1, <2>3, <3>1, <1>4 DEF DistinctIn, Offered
    <3>2. CASE i \notin Siblings(k) \cup {k} /\ j \in Siblings(k) \cup {k}
      BY <2>1, <2>2, <2>3, <3>2, SiblingType DEF Offered
    <3>3. CASE i \in Siblings(k) \cup {k} /\ j \notin Siblings(k) \cup {k}
      BY <2>1, <2>2, <2>3, <3>3, SiblingType DEF Offered
    <3>4. CASE i \in Siblings(k) /\ j \in Siblings(k)
      BY <2>1, <2>3, <3>4, <1>4, <1>5, PlacesAreDistinct
    <3>5. CASE i = k /\ j \in Siblings(k)
      BY <2>1, <2>3, <3>5, <1>4, <1>5, <1>6, PlacesAreDistinct DEF Offered
    <3>6. CASE i \in Siblings(k) /\ j = k
      BY <2>1, <2>3, <3>6, <1>4, <1>5, <1>6, PlacesAreDistinct DEF Offered
    <3> QED BY <2>3, <3>1, <3>2, <3>3, <3>4, <3>5, <3>6
  <2> QED BY <2>3 DEF DistinctIn
<1>10. ImageIsSound(image)
  BY <1>7, <1>8, <1>9 DEF ImageIsSound
<1> QED BY <1>1, <1>7, <1>10 DEF image

LEMMA UpdateKeyStep ==
  ASSUME ConfigurationTypeOK, ConfigurationInv, NEW k \in Keys, UpdateKey(k)
  PROVE  ConfigurationTypeOK' /\ ConfigurationInv'
<1>1. PICK enabled \in BOOLEAN :
        LET edited == IF keys[k].row = "stored" THEN [keys[k] EXCEPT !.enabled = enabled]
                      ELSE RemovedKey
        IN \/ OpenKeyChange([j \in {k} |-> edited])
           \/ \E p \in 0..Cardinality(Siblings(k)) : OpenKeyChange(Reposition(k, edited, p))
  BY DEF UpdateKey
<1> DEFINE edited == IF keys[k].row = "stored" THEN [keys[k] EXCEPT !.enabled = enabled]
                     ELSE RemovedKey
<1>2. IsEdited(k, edited)
  BY DEF UpdateKey, Stale, IsEdited
<1> HIDE DEF edited
<1>3. CASE OpenKeyChange([j \in {k} |-> edited])
  <2>1. edited \in KeyRows /\ edited.row # "none"
        /\ (edited.row = "stored" =>
              /\ keys[k].row = "stored" /\ edited.pending = keys[k].pending
              /\ edited.error = keys[k].error /\ edited.position = keys[k].position)
    BY <1>2, EditedRow
  <2>2. edited.row = "stored" /\ ~edited.pending =>
          Offered(keys, k) /\ edited.position = keys[k].position
    BY <2>1 DEF Offered
  <2>3. keys[k].error = "key_invalid" /\ edited.row = "stored" /\ edited.error = "none"
          => edited.secret # keys[k].secret
    BY <2>1
  <2> QED BY <1>3, <2>1, <2>2, <2>3, OneRowImage, KeyChangeStep
<1>4. ASSUME NEW p \in 0..Cardinality(Siblings(k)), OpenKeyChange(Reposition(k, edited, p))
      PROVE  ConfigurationTypeOK' /\ ConfigurationInv'
  <2>1. p \in Nat
    BY <1>4
  <2> QED BY <1>2, <1>4, <2>1, RepositionImage, KeyChangeStep
<1> QED BY <1>1, <1>3, <1>4 DEF edited

LEMMA WrittenCatalogType ==
  ASSUME NEW listed \in Catalogues, NEW catalog \in SUBSET Models
  PROVE  WriteCatalog(listed, catalog) \in Catalogues
<1>1. DOMAIN listed \in SUBSET Models /\ \A m \in DOMAIN listed : listed[m] \in 0..2
  BY DEF Catalogues
<1>2. DOMAIN listed \cup catalog \in SUBSET Models
  BY <1>1
<1>3. WriteCatalog(listed, catalog) \in [DOMAIN listed \cup catalog -> 0..2]
  BY DEF WriteCatalog
<1> QED BY <1>2, <1>3 DEF Catalogues

\* A new key goes behind every stored key of its provider, those still pending too.
LEMMA NextPositionIsLast ==
  ASSUME ConfigurationTypeOK, NEW k \in Keys
  PROVE  /\ NextPosition(k) \in Nat
         /\ \A j \in Keys : keys[j].row = "stored" /\ KeyProvider[j] = KeyProvider[k]
              => keys[j].position < NextPosition(k)
<1> DEFINE stored == {i \in Keys : keys[i].row = "stored" /\ KeyProvider[i] = KeyProvider[k]}
           taken == {keys[j].position : j \in stored}
           Greatest(p) == \A q \in taken : q <= p
<1>1. \A j \in Keys : keys[j].position \in Nat
  BY KeyRowType DEF KeyRows
<1>2. taken \subseteq Nat
  BY <1>1
<1>3. IsFiniteSet(taken)
  <2>1. IsFiniteSet(stored)
    BY KeyAssumption, FS_Subset
  <2>2. [j \in stored |-> keys[j].position] \in [stored -> taken]
    OBVIOUS
  <2>3. \A q \in taken : \E j \in stored : [i \in stored |-> keys[i].position][j] = q
    OBVIOUS
  <2> HIDE DEF stored, taken
  <2> QED BY <2>1, <2>2, <2>3, FS_Surjection DEF Surjection
<1>4. CASE taken = {}
  <2>1. NextPosition(k) = 0
    BY <1>4 DEF NextPosition
  <2>2. stored = {}
    BY <1>4
  <2> QED BY <2>1, <2>2
<1>5. CASE taken # {}
  <2>1. NextPosition(k) = (CHOOSE p \in taken : Greatest(p)) + 1
    BY <1>5 DEF NextPosition
  <2>2. PICK p \in taken : p = (CHOOSE q \in taken : Greatest(q)) /\ Greatest(p)
    <3>1. \E p \in taken : Greatest(p)
      <4> HIDE DEF taken
      <4> QED BY <1>2, <1>3, <1>5, GreatestNatural
    <3> HIDE DEF taken, Greatest
    <3> QED BY <3>1
  <2>3. NextPosition(k) = p + 1 /\ p \in Nat
    BY <1>2, <2>1, <2>2
  <2>4. \A j \in stored : keys[j].position <= p
    BY <2>2
  <2> QED BY <1>1, <2>3, <2>4
<1> QED BY <1>4, <1>5

LEMMA NewKeyImage ==
  ASSUME ConfigurationTypeOK, ConfigurationInv, NEW k \in Keys,
         keys[k].row \in {"none", "stored"}
  PROVE  LET image == [j \in {k} |-> NewKeyRow(k)]
         IN /\ DOMAIN image \subseteq Keys /\ \A j \in DOMAIN image : image[j] \in KeyRows
            /\ ImageIsSound(image)
<1>1. keys[k] \in KeyRows
  BY KeyRowType
<1>2. CASE keys[k].row = "stored"
  <2> DEFINE row == [keys[k] EXCEPT !.enabled = TRUE, !.error = "none", !.secret = @ + 1]
  <2>1. NewKeyRow(k) = row
    BY <1>2 DEF NewKeyRow
  <2>2. /\ row \in KeyRows /\ row.row = "stored" /\ row.pending = keys[k].pending
        /\ row.position = keys[k].position
    <3> PICK s \in Nat : s = keys[k].secret + 1
      BY <1>1 DEF KeyRows
    <3>1. row = [keys[k] EXCEPT !.enabled = TRUE, !.error = "none", !.secret = s]
      OBVIOUS
    <3> QED BY <1>1, <1>2, <3>1 DEF KeyRows
  <2>3. row.secret # keys[k].secret
    BY <1>1 DEF KeyRows
  <2>4. row.row = "stored" /\ ~row.pending =>
          Offered(keys, k) /\ row.position = keys[k].position
    BY <1>2, <2>2 DEF Offered
  <2> HIDE DEF row
  <2>5. row.row # "none"
    BY <2>2
  <2> QED BY <2>1, <2>2, <2>3, <2>4, <2>5, OneRowImage
<1>3. CASE keys[k].row = "none"
  <2> DEFINE row == [NoKeyRow EXCEPT !.row = "stored", !.enabled = TRUE,
                                     !.position = NextPosition(k)]
             image == [j \in {k} |-> row]
             new == Override(keys, image)
  <2>1. NewKeyRow(k) = row
    BY <1>3 DEF NewKeyRow
  <2>2. NextPosition(k) \in Nat
    BY NextPositionIsLast
  <2>3. row \in KeyRows /\ row.row = "stored" /\ row.position = NextPosition(k)
    BY <2>2 DEF NoKeyRow, KeyRows
  <2>4. keys[k].error = "none"
    BY <1>3 DEF ConfigurationInv, LocksAreOpen
  <2>5. new[k] = row /\ \A j \in Keys \ {k} : new[j] = keys[j]
    BY DEF Override
  <2>6. DistinctIn(new)
    <3> HIDE DEF new, row
    <3>1. \A j \in Keys \ {k} : Offered(new, j) /\ KeyProvider[j] = KeyProvider[k]
                                => new[j].position < new[k].position
      BY <2>3, <2>5, NextPositionIsLast DEF Offered
    <3>2. \A j \in Keys : new[j].position \in Nat
      BY <2>2, <2>3, <2>5, KeyRowType DEF KeyRows
    <3>3. \A j \in Keys \ {k} : Offered(new, j) /\ KeyProvider[j] = KeyProvider[k]
                                => new[j].position # new[k].position
      BY <3>1, <3>2
    <3> QED BY <2>5, <3>3 DEF ConfigurationInv, DistinctIn, Offered
  <2>7. DOMAIN image = {k} /\ image[k] = row
    OBVIOUS
  <2>8. row.row # "none"
    BY <2>3
  <2> HIDE DEF row, image
  <2>9. ImageIsSound(image)
    BY <2>4, <2>6, <2>7, <2>8 DEF ImageIsSound, new
  <2> QED BY <2>1, <2>3, <2>7, <2>9 DEF image
<1> QED BY <1>2, <1>3

LEMMA SaveKeyStep ==
  ASSUME ConfigurationTypeOK, ConfigurationInv, NEW k \in Keys, SaveKey(k)
  PROVE  ConfigurationTypeOK' /\ ConfigurationInv'
<1> DEFINE image == [j \in {k} |-> NewKeyRow(k)]
           Listing(catalog) == [j \in {k} |-> WriteCatalog(catalogue[k], catalog)]
           Seen(catalog) == View(Override(keys, image), Override(catalogue, Listing(catalog)), off)
           Chosen(m) == IF preference.default = NoModel
                        THEN [preference EXCEPT !.default = m] ELSE preference
<1>1. PICK catalog \in CatalogsOf(KeyProvider[k]), validated \in TextModels :
        OpenChange(image, Listing(catalog), off, RepairDefault(Seen(catalog), Chosen(validated)),
                   TRUE, TRUE)
  BY DEF SaveKey
<1>2. Good(Seen(catalog), RepairDefault(Seen(catalog), Chosen(validated)))
  <2> HIDE DEF Seen, Chosen
  <2> QED BY RepairIsGood
<1>3. /\ DOMAIN image \subseteq Keys /\ \A j \in DOMAIN image : image[j] \in KeyRows
      /\ ImageIsSound(image)
  BY NewKeyImage DEF SaveKey
<1>4. WriteCatalog(catalogue[k], catalog) \in Catalogues
  BY KeyRowType, WrittenCatalogType DEF CatalogsOf
<1>5. ImageType(image, Listing(catalog), off)
  BY <1>3, <1>4 DEF ImageType, ConfigurationTypeOK
<1> HIDE DEF image, Listing, Chosen
<1>6. PICK new : new = RepairDefault(Seen(catalog), Chosen(validated))
  OBVIOUS
<1>7. Good(View(Override(keys, image), Override(catalogue, Listing(catalog)), off),
           IF TRUE THEN new ELSE preference)
  BY <1>2, <1>6
<1> QED BY <1>1, <1>3, <1>5, <1>6, <1>7, OpenStep

LEMMA ChosenIsGood ==
  ASSUME NEW view, NEW p, ValidPreference(view, p)
  PROVE  Good(view, p)
  BY DEF ValidPreference, Good

\* Saving the preferences or a model switch decides on no key row.
LEMMA PreferenceStep ==
  ASSUME ConfigurationTypeOK, ConfigurationInv, NEW disabled \in SUBSET Models, NEW choice,
         ValidPreference(View(keys, catalogue, disabled), choice),
         OpenChange(Nothing, Nothing, disabled, choice, TRUE, FALSE)
  PROVE  ConfigurationTypeOK' /\ ConfigurationInv'
<1>1. Override(keys, Nothing) = keys /\ Override(catalogue, Nothing) = catalogue
  BY NothingType, OverrideNothing DEF ConfigurationTypeOK
<1>2. ImageType(Nothing, Nothing, disabled)
  BY NothingType DEF ImageType
<1>3. ImageIsSound(Nothing)
  BY <1>1, NothingType DEF ImageIsSound, ConfigurationInv
<1>4. Good(View(keys, catalogue, disabled), choice)
  BY ChosenIsGood
<1>5. Good(View(Override(keys, Nothing), Override(catalogue, Nothing), disabled),
           IF TRUE THEN choice ELSE preference)
  BY <1>1, <1>4
<1> QED BY <1>2, <1>3, <1>5, OpenStep

LEMMA SavePreferencesStep ==
  ASSUME ConfigurationTypeOK, ConfigurationInv, SavePreferences
  PROVE  ConfigurationTypeOK' /\ ConfigurationInv'
  BY PreferenceStep DEF SavePreferences, Committed, ConfigurationTypeOK

LEMMA UpdateModelStep ==
  ASSUME ConfigurationTypeOK, ConfigurationInv, NEW m \in Models, UpdateModel(m)
  PROVE  ConfigurationTypeOK' /\ ConfigurationInv'
<1>1. PICK enabled \in BOOLEAN, choice \in Choices :
        LET disabled == IF enabled THEN off \ {m} ELSE off \cup {m}
        IN /\ ValidPreference(View(keys, catalogue, disabled), choice)
           /\ OpenChange(Nothing, Nothing, disabled, choice, TRUE, FALSE)
  BY DEF UpdateModel
<1>2. (IF enabled THEN off \ {m} ELSE off \cup {m}) \in SUBSET Models
  BY DEF ConfigurationTypeOK
<1> QED BY <1>1, <1>2, PreferenceStep

----------------------------------------------------------------------------
(* The commit and the writers that do not hold the account lock.           *)

LEMMA AfterType ==
  ASSUME ConfigurationTypeOK
  PROVE  /\ After \in [Keys -> KeyRows]
         /\ Override(catalogue, txn.catalogue) \in [Keys -> Catalogues]
  BY DEF ConfigurationTypeOK, After, Override, Locked

LEMMA CommitStep ==
  ASSUME ConfigurationTypeOK, ConfigurationInv, Commit
  PROVE  ConfigurationTypeOK' /\ ConfigurationInv'
<1>1. /\ keys' = After /\ off' = txn.off /\ preference' = AfterPreference
      /\ txn' = NoTxn /\ UNCHANGED <<background, unlocked, changes>>
  BY DEF Commit, After, AfterPreference
<1>2. catalogue' = [k \in Keys |-> IF After[k].row = "removed" THEN Nothing
                                   ELSE Override(catalogue, txn.catalogue)[k]]
  BY <1>1 DEF Commit
<1>3. ConfigurationTypeOK'
  <2>1. keys' \in [Keys -> KeyRows] /\ catalogue' \in [Keys -> Catalogues]
    BY <1>1, <1>2, AfterType, NothingType
  <2>2. off' \subseteq Models /\ changes' \in Nat
    BY <1>1 DEF ConfigurationTypeOK
  <2>3. /\ Locked' \subseteq Keys /\ \A k \in Locked' : txn'.keys[k] \in KeyRows
        /\ DOMAIN txn'.catalogue \subseteq Keys
        /\ \A k \in DOMAIN txn'.catalogue : txn'.catalogue[k] \in Catalogues
        /\ txn'.off \subseteq Models
    BY <1>1, NoTxnType DEF Locked
  <2>4. {txn'.open, txn'.writes, txn'.holds, unlocked'} \subseteq BOOLEAN
    BY <1>1, NoTxnType DEF ConfigurationTypeOK
  <2> QED BY <2>1, <2>2, <2>3, <2>4 DEF ConfigurationTypeOK
<1>4. Locked' = {}
  BY <1>1, NoTxnType DEF Locked
<1>5. LocksAreOpen' /\ SecretsWillDiffer'
  <2>1. ASSUME NEW k \in Keys, After[k].row = "none" PROVE After[k].error = "none"
    <3>1. After[k] = IF k \in Locked THEN txn.keys[k] ELSE keys[k]
      BY DEF After, Override, Locked
    <3> QED BY <2>1, <3>1 DEF ConfigurationInv, LocksAreOpen
  <2> QED BY <1>1, <1>4, <2>1 DEF LocksAreOpen, SecretsWillDiffer
<1>6. After' = keys'
  <2>1. DOMAIN txn'.keys = {}
    BY <1>1, NoTxnType
  <2> QED BY <1>3, <2>1, OverrideNothing DEF After, ConfigurationTypeOK
<1>7. DistinctIn(keys)' /\ DistinctIn(After)'
  BY <1>1, <1>6 DEF ConfigurationInv, DistinctIn, Offered
<1>8. PreferencesFit'
  <2> SUFFICES ASSUME ~unlocked'
               PROVE  /\ \A b \in Background : background'[b].pc = "idle"
                      /\ Good(Committed, preference)'
                      /\ ~txn'.open
    BY DEF PreferencesFit
  <2>1. ~unlocked /\ txn.open
    BY <1>1 DEF Commit
  <2>2. Good(AfterView, AfterPreference) /\ \A b \in Background : background[b].pc = "idle"
    BY <2>1 DEF ConfigurationInv, PreferencesFit
  <2>3. ASSUME NEW m, Usable(AfterView, m) PROVE Usable(Committed, m)'
    <3>1. PICK k \in Keys : Serves(AfterView, k, m)
      BY <2>3 DEF Usable
    <3>2. /\ After[k].row = "stored" /\ After[k].enabled /\ ~After[k].pending
          /\ After[k].error = "none" /\ m \in TextModels
          /\ m \in DOMAIN Override(catalogue, txn.catalogue)[k]
          /\ Override(catalogue, txn.catalogue)[k][m] < 2
      BY <3>1 DEF Serves, Lists, AfterView, View
    <3>3. catalogue'[k] = Override(catalogue, txn.catalogue)[k]
      BY <1>2, <3>2
    <3>4. Serves(Committed, k, m)'
      BY <1>1, <3>2, <3>3 DEF Serves, Lists, Committed, View
    <3>5. m \notin off'
      BY <1>1, <2>3 DEF Usable, AfterView, View
    <3> QED BY <3>4, <3>5 DEF Usable, Committed, View
  <2>4. preference'.default = NoModel \/ Usable(AfterView, preference'.default)
    BY <1>1, <2>2 DEF Good
  <2>5. Good(Committed, preference)'
    <3> PICK m : m = preference'.default
      OBVIOUS
    <3>1. m = NoModel \/ Usable(Committed, m)'
      BY <2>3, <2>4
    <3> QED BY <3>1 DEF Good, Usable, Serves, Lists, Committed, View
  <2> QED BY <1>1, <2>2, <2>5, NoTxnType
<1> QED BY <1>3, <1>5, <1>7, <1>8 DEF ConfigurationInv

LEMMA RollbackStep ==
  ASSUME ConfigurationTypeOK, ConfigurationInv, Rollback
  PROVE  ConfigurationTypeOK' /\ ConfigurationInv'
<1>1. txn' = NoTxn /\ UNCHANGED <<keys, catalogue, off, preference, background, unlocked, changes>>
  BY DEF Rollback
<1>2. /\ Locked' = {} /\ DOMAIN txn'.catalogue = {} /\ txn'.off = {}
      /\ txn'.open = FALSE /\ txn'.writes = FALSE /\ txn'.holds = FALSE
  BY <1>1, NoTxnType DEF Locked
<1>3. ConfigurationTypeOK'
  BY <1>1, <1>2 DEF ConfigurationTypeOK
<1>4. After' = keys
  <2>1. DOMAIN txn'.keys = {} /\ keys' = keys
    BY <1>1, NoTxnType
  <2> QED BY <1>3, <2>1, OverrideNothing DEF After, ConfigurationTypeOK
<1>5. LocksAreOpen' /\ SecretsWillDiffer'
  BY <1>1, <1>2 DEF ConfigurationInv, LocksAreOpen, SecretsWillDiffer
<1>6. DistinctIn(keys)' /\ DistinctIn(After)'
  BY <1>1, <1>4 DEF ConfigurationInv, DistinctIn, Offered
<1>7. PreferencesFit'
  BY <1>1, <1>2 DEF ConfigurationInv, PreferencesFit, Good, Committed, View, Usable, Serves, Lists
<1> QED BY <1>3, <1>5, <1>6, <1>7 DEF ConfigurationInv

\* A writer outside the lock leaves the locked rows alone and offers no more keys.
LEMMA OutsideStep ==
  ASSUME ConfigurationTypeOK, ConfigurationInv, UNCHANGED <<off, txn>>,
         keys' \in [Keys -> KeyRows], catalogue' \in [Keys -> Catalogues],
         unlocked' \in BOOLEAN, changes' \in Nat,
         \A k \in Locked : keys'[k] = keys[k],
         \A k \in Keys : /\ keys'[k].row = "none" => keys'[k].error = "none"
                         /\ Offered(keys', k) =>
                              Offered(keys, k) /\ keys'[k].position = keys[k].position
  PROVE  /\ ConfigurationTypeOK'
         /\ LocksAreOpen' /\ SecretsWillDiffer' /\ DistinctIn(keys)' /\ DistinctIn(After)'
<1>1. ConfigurationTypeOK'
  <2>1. {txn'.open, txn'.writes, txn'.holds, unlocked'} \subseteq BOOLEAN
    BY Zenon DEF ConfigurationTypeOK
  <2> QED BY <2>1 DEF ConfigurationTypeOK, Locked
<1>2. Locked \subseteq Keys /\ Locked' = Locked
  BY DEF ConfigurationTypeOK, Locked
<1>3. LocksAreOpen' /\ SecretsWillDiffer'
  BY <1>2 DEF ConfigurationInv, LocksAreOpen, SecretsWillDiffer
<1>4. DistinctIn(keys')
  BY FewerOffered DEF ConfigurationInv
<1>5. DistinctIn(After')
  <2>1. \A k \in Keys : /\ After[k] = IF k \in Locked THEN txn.keys[k] ELSE keys[k]
                        /\ After'[k] = IF k \in Locked THEN txn.keys[k] ELSE keys'[k]
    BY DEF After, Override, Locked
  <2>2. \A k \in Keys : Offered(After', k) =>
                          Offered(After, k) /\ After'[k].position = After[k].position
    BY <2>1 DEF Offered
  <2> QED BY <2>2, FewerOffered DEF ConfigurationInv
<1> QED BY <1>1, <1>3, <1>4, <1>5 DEF DistinctIn, Offered

LEMMA FinishKeyDeletionStep ==
  ASSUME ConfigurationTypeOK, ConfigurationInv, NEW k \in Keys, FinishKeyDeletion(k)
  PROVE  ConfigurationTypeOK' /\ ConfigurationInv'
<1>1. /\ keys[k].pending /\ k \notin Locked
      /\ keys' = [keys EXCEPT ![k] = RemovedKey]
      /\ catalogue' = [catalogue EXCEPT ![k] = Nothing]
      /\ UNCHANGED <<off, preference, txn, background, unlocked, changes>>
  BY DEF FinishKeyDeletion
<1>2. /\ keys'[k] = RemovedKey /\ \A j \in Keys \ {k} : keys'[j] = keys[j]
      /\ \A j \in Keys \ {k} : catalogue'[j] = catalogue[j]
  BY <1>1 DEF ConfigurationTypeOK
<1>3. keys' \in [Keys -> KeyRows] /\ catalogue' \in [Keys -> Catalogues]
      /\ unlocked' \in BOOLEAN /\ changes' \in Nat
  BY <1>1, BlankRows, NothingType DEF ConfigurationTypeOK
<1>4. \A j \in Keys : /\ keys'[j].row = "none" => keys'[j].error = "none"
                      /\ Offered(keys', j) =>
                           Offered(keys, j) /\ keys'[j].position = keys[j].position
  BY <1>2, BlankRows DEF ConfigurationInv, LocksAreOpen, Offered
<1>5. \A j \in Locked : keys'[j] = keys[j]
  BY <1>1, <1>2 DEF ConfigurationTypeOK
<1>6. PreferencesFit'
  <2> SUFFICES ASSUME ~unlocked'
               PROVE  /\ \A b \in Background : background'[b].pc = "idle"
                      /\ Good(Committed, preference)'
                      /\ txn'.open => Good(AfterView, AfterPreference)'
    BY DEF PreferencesFit
  <2>1. /\ \A b \in Background : background[b].pc = "idle"
        /\ Good(Committed, preference)
        /\ txn.open => Good(AfterView, AfterPreference)
    BY <1>1 DEF ConfigurationInv, PreferencesFit
  \* A pending key serves no model, so its removal takes none away.
  <2>2. ASSUME NEW m, Usable(Committed, m) PROVE Usable(Committed, m)'
    <3>1. PICK j \in Keys : Serves(Committed, j, m)
      BY <2>2 DEF Usable
    <3>2. j # k
      BY <1>1, <3>1 DEF Serves, Committed, View
    <3>3. keys'[j] = keys[j] /\ catalogue'[j] = catalogue[j] /\ off' = off
      BY <1>1, <1>2, <3>2
    <3>4. Serves(Committed, j, m)'
      BY <3>1, <3>3 DEF Serves, Lists, Committed, View
    <3> QED BY <2>2, <3>3, <3>4 DEF Usable, Committed, View
  <2>3. Good(Committed, preference)'
    <3> PICK m : m = preference.default
      OBVIOUS
    <3>1. m = NoModel \/ Usable(Committed, m)'
      BY <2>1, <2>2 DEF Good
    <3> QED BY <1>1, <3>1 DEF Good, Usable, Serves, Lists, Committed, View
  <2>4. /\ \A j \in Keys \ {k} : /\ After'[j] = After[j]
                                 /\ Override(catalogue, txn.catalogue)'[j] =
                                      Override(catalogue, txn.catalogue)[j]
        /\ After[k] = keys[k]
    BY <1>1, <1>2 DEF After, Override, Locked
  <2>5. ASSUME NEW m, Usable(AfterView, m) PROVE Usable(AfterView, m)'
    <3>1. PICK j \in Keys : Serves(AfterView, j, m)
      BY <2>5 DEF Usable
    <3>2. j # k
      BY <1>1, <2>4, <3>1 DEF Serves, AfterView, View
    <3>3. /\ After'[j] = After[j] /\ txn'.off = txn.off
          /\ Override(catalogue, txn.catalogue)'[j] = Override(catalogue, txn.catalogue)[j]
      BY <1>1, <2>4, <3>2
    <3>4. Serves(AfterView, j, m)'
      BY <3>1, <3>3 DEF Serves, Lists, AfterView, View
    <3> QED BY <2>5, <3>3, <3>4 DEF Usable, AfterView, View
  <2>6. ASSUME txn'.open PROVE Good(AfterView, AfterPreference)'
    <3> PICK m : m = AfterPreference.default
      OBVIOUS
    <3>1. AfterPreference' = AfterPreference
      BY <1>1 DEF AfterPreference
    <3>2. m = NoModel \/ Usable(AfterView, m)'
      BY <1>1, <2>1, <2>5, <2>6 DEF Good
    <3> QED BY <3>1, <3>2 DEF Good, Usable, Serves, Lists
  <2> QED BY <1>1, <2>1, <2>3, <2>6
<1> QED BY <1>1, <1>3, <1>4, <1>5, <1>6, OutsideStep DEF ConfigurationInv

\* A writer that has begun outside the lock makes the preference nobody's promise.
LEMMA UnlockedStep ==
  ASSUME ConfigurationTypeOK, ConfigurationInv, UNCHANGED <<off, txn>>,
         unlocked' = TRUE, changes' \in Nat,
         keys' \in [Keys -> KeyRows], catalogue' \in [Keys -> Catalogues],
         \A k \in Locked : keys'[k] = keys[k],
         \A k \in Keys : /\ keys'[k].row = keys[k].row
                         /\ keys'[k].pending = keys[k].pending
                         /\ keys'[k].position = keys[k].position
                         /\ keys'[k].error = keys[k].error \/ keys[k].row = "stored"
  PROVE  ConfigurationTypeOK' /\ ConfigurationInv'
<1>1. \A k \in Keys : /\ keys'[k].row = "none" => keys'[k].error = "none"
                      /\ Offered(keys', k) =>
                           Offered(keys, k) /\ keys'[k].position = keys[k].position
  BY DEF ConfigurationInv, LocksAreOpen, Offered
<1>2. /\ ConfigurationTypeOK'
      /\ LocksAreOpen' /\ SecretsWillDiffer' /\ DistinctIn(keys)' /\ DistinctIn(After)'
  BY <1>1, OutsideStep
<1>3. PreferencesFit'
  BY DEF PreferencesFit
<1> QED BY <1>2, <1>3 DEF ConfigurationInv

LEMMA KeyRowsUnchanged ==
  ASSUME ConfigurationTypeOK, ConfigurationInv, UNCHANGED <<keys, off, txn>>,
         unlocked' = TRUE, changes' \in Nat, catalogue' \in [Keys -> Catalogues]
  PROVE  ConfigurationTypeOK' /\ ConfigurationInv'
  BY UnlockedStep DEF ConfigurationTypeOK

LEMMA WorkingIsUnlocked ==
  ASSUME ConfigurationTypeOK, ConfigurationInv, NEW b \in Background, background[b].pc # "idle"
  PROVE  unlocked = TRUE /\ changes \in Nat
  BY DEF ConfigurationInv, PreferencesFit, ConfigurationTypeOK

LEMMA ErrorWritten ==
  ASSUME NEW row \in KeyRows, NEW code \in {"none", "key_invalid", "quota_exhausted"}
  PROVE  LET new == [row EXCEPT !.error = code]
         IN /\ new \in KeyRows /\ new.row = row.row /\ new.pending = row.pending
            /\ new.position = row.position /\ new.secret = row.secret /\ new.error = code
  BY DEF KeyRows

LEMMA StartStep ==
  ASSUME ConfigurationTypeOK, NEW b, NEW next, Start(b, next)
  PROVE  unlocked' = TRUE /\ changes' \in Nat
  BY DEF Start, ConfigurationTypeOK

LEMMA MarkKeyFailureStep ==
  ASSUME ConfigurationTypeOK, ConfigurationInv, NEW b \in Background, NEW k \in Keys,
         MarkKeyFailure(b, k)
  PROVE  ConfigurationTypeOK' /\ ConfigurationInv'
<1>1. PICK code \in {"key_invalid", "quota_exhausted"} :
        keys' = IF keys[k].row = "stored" THEN [keys EXCEPT ![k].error = code] ELSE keys
  BY DEF MarkKeyFailure
<1>2. k \notin Locked /\ UNCHANGED <<catalogue, off, preference, txn>>
      /\ unlocked' = TRUE /\ changes' \in Nat
  BY StartStep DEF MarkKeyFailure
<1>3. catalogue' \in [Keys -> Catalogues]
  BY <1>2 DEF ConfigurationTypeOK
<1>4. CASE keys[k].row = "stored"
  <2>1. PICK new : new = [keys[k] EXCEPT !.error = code]
    OBVIOUS
  <2> keys[k] \in KeyRows /\ code \in {"none", "key_invalid", "quota_exhausted"}
    BY KeyRowType
  <2>2. /\ new \in KeyRows /\ new.row = keys[k].row /\ new.pending = keys[k].pending
        /\ new.position = keys[k].position
    BY <2>1, ErrorWritten
  <2>3. keys' = [keys EXCEPT ![k] = new]
    BY <1>1, <1>4, <2>1
  <2>4. /\ keys' \in [Keys -> KeyRows] /\ keys'[k] = new
        /\ \A j \in Keys \ {k} : keys'[j] = keys[j]
    BY <2>2, <2>3 DEF ConfigurationTypeOK
  <2>5. \A j \in Locked : keys'[j] = keys[j]
    BY <1>2, <2>4 DEF ConfigurationTypeOK
  <2> QED BY <1>2, <1>3, <1>4, <2>2, <2>4, <2>5, UnlockedStep
<1>5. CASE keys[k].row # "stored"
  BY <1>1, <1>2, <1>3, <1>5, KeyRowsUnchanged
<1> QED BY <1>4, <1>5

LEMMA RetireModelStep ==
  ASSUME ConfigurationTypeOK, ConfigurationInv, NEW b \in Background, NEW m \in Models,
         RetireModel(b, m)
  PROVE  ConfigurationTypeOK' /\ ConfigurationInv'
<1>1. unlocked' = TRUE /\ changes' \in Nat /\ UNCHANGED <<keys, off, txn>>
  BY StartStep DEF RetireModel
<1>2. ASSUME NEW k \in Keys
      PROVE  (IF m \in DOMAIN catalogue[k] THEN [catalogue[k] EXCEPT ![m] = 2]
              ELSE catalogue[k]) \in Catalogues
  <2>1. PICK listed \in SUBSET Models : catalogue[k] \in [listed -> 0..2]
    BY KeyRowType DEF Catalogues
  <2>2. 2 \in 0..2
    OBVIOUS
  <2>3. \A f \in [listed -> 0..2] : [f EXCEPT ![m] = 2] \in [listed -> 0..2]
    BY <2>2
  <2> QED BY <2>1, <2>3 DEF Catalogues
<1>3. catalogue' \in [Keys -> Catalogues]
  BY <1>2 DEF RetireModel
<1> QED BY <1>1, <1>3, KeyRowsUnchanged

LEMMA RefreshModelsStep ==
  ASSUME ConfigurationTypeOK, ConfigurationInv, NEW b \in Background, NEW k \in Keys,
         RefreshModels(b, k)
  PROVE  ConfigurationTypeOK' /\ ConfigurationInv'
<1>1. unlocked' = TRUE /\ changes' \in Nat /\ UNCHANGED <<keys, catalogue, off, txn>>
  BY StartStep DEF RefreshModels
<1> QED BY <1>1, KeyRowsUnchanged DEF ConfigurationTypeOK

LEMMA RefreshCommitsStep ==
  ASSUME ConfigurationTypeOK, ConfigurationInv, NEW b \in Background, RefreshCommits(b)
  PROVE  ConfigurationTypeOK' /\ ConfigurationInv'
<1>1. PICK k : k = background[b].key
  OBVIOUS
<1>2. PICK catalog \in CatalogsOf(KeyProvider[k]) :
        /\ catalogue' = [catalogue EXCEPT ![k] = WriteCatalog(@, catalog)]
        /\ \/ UNCHANGED keys
           \/ /\ keys[k].error = "quota_exhausted"
              /\ keys' = [keys EXCEPT ![k].error = "none"]
  BY <1>1 DEF RefreshCommits
<1>3. /\ k \notin Locked /\ keys[k].row = "stored"
      /\ unlocked' = TRUE /\ changes' \in Nat /\ UNCHANGED <<off, txn>>
  BY <1>1, WorkingIsUnlocked DEF RefreshCommits
<1>4. catalogue' \in [Keys -> Catalogues]
  <2>1. CASE k \in Keys
    <3>1. WriteCatalog(catalogue[k], catalog) \in Catalogues
      BY <2>1, KeyRowType, WrittenCatalogType DEF CatalogsOf
    <3> QED BY <1>2, <3>1 DEF ConfigurationTypeOK
  <2>2. CASE k \notin Keys
    BY <1>2, <2>2 DEF ConfigurationTypeOK
  <2> QED BY <2>1, <2>2
<1>5. CASE UNCHANGED keys
  BY <1>3, <1>4, <1>5, KeyRowsUnchanged
<1>6. CASE keys' = [keys EXCEPT ![k].error = "none"]
  <2>1. CASE k \in Keys
    <3>1. PICK new : new = [keys[k] EXCEPT !.error = "none"]
      OBVIOUS
    <3>2. /\ new \in KeyRows /\ new.row = keys[k].row /\ new.pending = keys[k].pending
          /\ new.position = keys[k].position
      BY <2>1, <3>1, KeyRowType, ErrorWritten
    <3>3. keys' = [keys EXCEPT ![k] = new]
      BY <1>6, <3>1
    <3>4. /\ keys' \in [Keys -> KeyRows] /\ keys'[k] = new
          /\ \A j \in Keys \ {k} : keys'[j] = keys[j]
      BY <2>1, <3>2, <3>3 DEF ConfigurationTypeOK
    <3>5. \A j \in Locked : keys'[j] = keys[j]
      BY <1>3, <3>4 DEF ConfigurationTypeOK
    <3> QED BY <1>3, <1>4, <3>2, <3>4, <3>5, UnlockedStep
  <2>2. CASE k \notin Keys
    <3>1. keys' = keys
      BY <1>6, <2>2 DEF ConfigurationTypeOK
    <3> QED BY <1>3, <1>4, <3>1, KeyRowsUnchanged
  <2> QED BY <2>1, <2>2
<1> QED BY <1>2, <1>5, <1>6

\* Repairing after an unlocked change writes the preference row and no other.
LEMMA RepairStep ==
  ASSUME ConfigurationTypeOK, ConfigurationInv, NEW b \in Background,
         GiveUp(b) \/ RepairReads(b) \/ RepairChecks(b) \/ RepairWrites(b)
  PROVE  ConfigurationTypeOK' /\ ConfigurationInv'
<1>1. background[b].pc # "idle" /\ UNCHANGED <<keys, catalogue, off, txn, unlocked, changes>>
  BY DEF GiveUp, RepairReads, RepairChecks, RepairWrites
<1>2. unlocked' = TRUE /\ changes' \in Nat
  BY <1>1, WorkingIsUnlocked
<1> QED BY <1>1, <1>2, KeyRowsUnchanged DEF ConfigurationTypeOK

LEMMA ConfigurationStuttering ==
  ASSUME ConfigurationTypeOK, ConfigurationInv, UNCHANGED vars
  PROVE  ConfigurationTypeOK' /\ ConfigurationInv'
<1>1. UNCHANGED <<keys, catalogue, off, preference, txn, background, unlocked, changes>>
  BY DEF vars
<1>2. After' = After /\ AfterView' = AfterView /\ AfterPreference' = AfterPreference
  BY <1>1 DEF After, AfterView, AfterPreference, Override, View
<1> QED BY <1>1, <1>2 DEF ConfigurationTypeOK, ConfigurationInv, LocksAreOpen, SecretsWillDiffer,
           DistinctIn, Offered, PreferencesFit, Good, Committed, View, Usable, Serves, Lists, Locked

LEMMA ConfigurationInvariant == Spec => [](ConfigurationTypeOK /\ ConfigurationInv)
<1>1. ConfigurationTypeOK /\ ConfigurationInv /\ [Next]_vars
        => ConfigurationTypeOK' /\ ConfigurationInv'
  <2> SUFFICES ASSUME ConfigurationTypeOK, ConfigurationInv, [Next]_vars
               PROVE  ConfigurationTypeOK' /\ ConfigurationInv'
    OBVIOUS
  <2>1. CASE UNCHANGED vars
    BY <2>1, ConfigurationStuttering
  <2>2. ASSUME NEW k \in Keys,
               SaveKey(k) \/ UpdateKey(k) \/ DeleteKey(k) \/ RevokeKey(k) \/ FinishKeyDeletion(k)
        PROVE  ConfigurationTypeOK' /\ ConfigurationInv'
    BY <2>2, SaveKeyStep, UpdateKeyStep, DeleteKeyStep, FinishKeyDeletionStep
  <2>3. CASE (\E m \in Models : UpdateModel(m)) \/ SavePreferences \/ Commit \/ Rollback
    BY <2>3, UpdateModelStep, SavePreferencesStep, CommitStep, RollbackStep
  <2>4. ASSUME NEW b \in Background, BackgroundNext(b)
        PROVE  ConfigurationTypeOK' /\ ConfigurationInv'
    BY <2>4, MarkKeyFailureStep, RefreshModelsStep, RetireModelStep, RefreshCommitsStep,
       RepairStep DEF BackgroundNext
  <2> QED BY <2>1, <2>2, <2>3, <2>4 DEF Next, OwnerNext
<1> QED BY <1>1, InitConfiguration, PTL DEF Spec

(***************************************************************************)
(* Every row keeps its type, and so does every row that an open            *)
(* changeConfiguration transaction is going to write.                      *)
(***************************************************************************)
THEOREM ConfigurationTypes == Spec => []ConfigurationTypeOK
  BY ConfigurationInvariant, PTL

(***************************************************************************)
(* No two keys on offer of one provider share a position, however often    *)
(* saveKey, updateKey, deleteKey and the sweeps follow one another         *)
(* (assistant-configuration.service.ts:158-188, 230-257).                  *)
(***************************************************************************)
THEOREM PositionsStayDistinct == Spec => []PositionsAreDistinct
<1>1. ConfigurationInv => PositionsAreDistinct
  BY DEF ConfigurationInv, DistinctIn, Offered, PositionsAreDistinct
<1> QED BY <1>1, ConfigurationInvariant, PTL

(***************************************************************************)
(* As long as nothing has written outside the account lock, the committed  *)
(* default model can be sent: every owner's change repairs it in its own   *)
(* transaction (repairDefault, assistant-configuration.service.ts:259).    *)
(***************************************************************************)
THEOREM DefaultsAreUsable == Spec => []DefaultIsUsable
<1>1. ConfigurationTypeOK /\ ConfigurationInv => DefaultIsUsable
  BY DEF ConfigurationTypeOK, ConfigurationInv, PreferencesFit, Good, DefaultIsUsable
<1> QED BY <1>1, ConfigurationInvariant, PTL

(***************************************************************************)
(* A key the provider rejected is offered again with another secret only:  *)
(* no refresh that set out earlier, no update and no deletion clears the   *)
(* rejection (markKeyFailure, refreshModels, saveKey).                     *)
(***************************************************************************)
THEOREM RejectionsAreKept == Spec => RejectedNeedsNewSecret
<1>1. ConfigurationTypeOK /\ ConfigurationInv /\ [Next]_vars =>
        [\A k \in Keys : /\ keys[k].error = "key_invalid"
                         /\ keys'[k].row = "stored"
                         /\ keys'[k].error = "none"
                         => keys'[k].secret # keys[k].secret]_vars
  <2> SUFFICES ASSUME ConfigurationTypeOK, ConfigurationInv, Next, NEW k \in Keys,
                      keys[k].error = "key_invalid",
                      keys'[k].row = "stored", keys'[k].error = "none",
                      keys'[k].secret = keys[k].secret
               PROVE  FALSE
    BY Zenon
  <2>1. keys' # keys
    OBVIOUS
  <2>2. CASE Commit
    <3>1. keys'[k] = IF k \in Locked THEN txn.keys[k] ELSE keys[k]
      BY <2>2 DEF Commit, Override, Locked
    <3> QED BY <3>1 DEF ConfigurationInv, SecretsWillDiffer
  <2>3. ASSUME NEW j \in Keys, FinishKeyDeletion(j) PROVE FALSE
    BY <2>3, BlankRows DEF FinishKeyDeletion, ConfigurationTypeOK
  <2>4. ASSUME NEW b \in Background, NEW j \in Keys, MarkKeyFailure(b, j) PROVE FALSE
    <3>1. keys'[k].error = keys[k].error \/ keys'[k].error \in {"key_invalid", "quota_exhausted"}
      BY <2>4, KeyRowType DEF MarkKeyFailure, ConfigurationTypeOK, KeyRows
    <3> QED BY <3>1
  <2>5. ASSUME NEW b \in Background, RefreshCommits(b) PROVE FALSE
    <3>1. PICK j : j = background[b].key
      OBVIOUS
    <3>2. keys[j].error = "quota_exhausted" /\ keys' = [keys EXCEPT ![j].error = "none"]
      BY <2>1, <2>5, <3>1 DEF RefreshCommits
    <3>3. j # k
      BY <3>2
    <3> QED BY <3>2, <3>3 DEF ConfigurationTypeOK
  <2>6. CASE UNCHANGED keys
    BY <2>1, <2>6
  <2>7. ASSUME NEW j \in Keys, SaveKey(j) \/ UpdateKey(j) \/ DeleteKey(j) \/ RevokeKey(j)
        PROVE  UNCHANGED keys
    <3>1. CASE SaveKey(j)
      BY <3>1 DEF SaveKey, OpenChange
    <3>2. CASE UpdateKey(j)
      BY <3>2 DEF UpdateKey, OpenKeyChange, OpenChange
    <3>3. CASE DeleteKey(j) \/ RevokeKey(j)
      BY <3>3 DEF DeleteKey, RevokeKey, OpenKeyChange, OpenChange
    <3> QED BY <2>7, <3>1, <3>2, <3>3
  <2>8. CASE (\E m \in Models : UpdateModel(m)) \/ SavePreferences \/ Rollback
    BY <2>6, <2>8 DEF UpdateModel, SavePreferences, OpenChange, Rollback
  <2>9. CASE OwnerNext
    BY <2>2, <2>3, <2>6, <2>7, <2>8, <2>9 DEF OwnerNext
  <2>10. ASSUME NEW b \in Background, BackgroundNext(b)
         PROVE  FALSE
    <3>1. CASE \E j \in Keys : RefreshModels(b, j)
      BY <2>6, <3>1 DEF RefreshModels
    <3>2. CASE \E m \in Models : RetireModel(b, m)
      BY <2>6, <3>2 DEF RetireModel
    <3>3. CASE GiveUp(b) \/ RepairReads(b) \/ RepairChecks(b) \/ RepairWrites(b)
      BY <2>6, <3>3 DEF GiveUp, RepairReads, RepairChecks, RepairWrites
    <3> QED BY <2>4, <2>5, <2>10, <3>1, <3>2, <3>3 DEF BackgroundNext
  <2> QED BY <2>9, <2>10 DEF Next
<1> QED BY <1>1, ConfigurationInvariant, PTL DEF Spec, RejectedNeedsNewSecret
=============================================================================
