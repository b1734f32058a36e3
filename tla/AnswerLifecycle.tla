-------------------------- MODULE AnswerLifecycle --------------------------
(***************************************************************************)
(* What the assistant promises about an answer row, whoever drives it: it  *)
(* is published only into a free account slot, it is admitted at most      *)
(* once, it settles at most once, and once settled it only disappears with *)
(* its conversation.  AssistantGeneration and AssistantConversation are    *)
(* shown to implement this specification.                                  *)
(***************************************************************************)
CONSTANTS Users, Answers, AnswerUser

VARIABLE status     \* assistant_answer.status, plus "absent" and "removed" rows

Active == {"queued", "generating"}
Settled == {"completed", "failed", "stopped"}
Statuses == {"absent", "removed"} \cup Active \cup Settled

LifecycleTypeOK == status \in [Answers -> Statuses]

ActiveOf(u) == {a \in Answers : AnswerUser[a] = u /\ status[a] \in Active}

LifecycleInit == status = [a \in Answers |-> "absent"]

PublishRow(a) ==
  /\ status[a] = "absent"
  /\ ActiveOf(AnswerUser[a]) = {}
  /\ status' = [status EXCEPT ![a] = "queued"]

AdmitRow(a) ==
  /\ status[a] = "queued"
  /\ status' = [status EXCEPT ![a] = "generating"]

CompleteRow(a) ==
  /\ status[a] = "generating"
  /\ status' = [status EXCEPT ![a] = "completed"]

\* Stops and failures end a whole set of active rows in one statement.
SettleRows(rows, outcome) ==
  /\ \A a \in rows : status[a] \in Active
  /\ status' = [a \in Answers |-> IF a \in rows THEN outcome ELSE status[a]]

\* Deleting a conversation removes all its answers.
RemoveRows(rows) ==
  /\ \A a \in rows : status[a] # "absent"
  /\ status' = [a \in Answers |-> IF a \in rows THEN "removed" ELSE status[a]]

LifecycleNext ==
  \/ \E a \in Answers : PublishRow(a) \/ AdmitRow(a) \/ CompleteRow(a)
  \/ \E rows \in SUBSET Answers, outcome \in {"failed", "stopped"} :
       SettleRows(rows, outcome)
  \/ \E rows \in SUBSET Answers : RemoveRows(rows)

LifecycleSpec == LifecycleInit /\ [][LifecycleNext]_status

(***************************************************************************)
(* An account never has two answers queued or generating: the promise of   *)
(* the generated column activeUserId and its unique index.                 *)
(***************************************************************************)
OneActivePerUser ==
  \A a, b \in Answers :
    /\ AnswerUser[a] = AnswerUser[b]
    /\ status[a] \in Active
    /\ status[b] \in Active
    => a = b
=============================================================================
