------------------------ MODULE ApplicationShutdown ------------------------
(***************************************************************************)
(* The end of one process: bootstrap may still be under way when a signal  *)
(* or its own failure triggers the shutdown, which falls out of readiness, *)
(* waits for load balancers, closes HTTP admission, closes the Nest        *)
(* application, closes telemetry and exits, each phase under a deadline.   *)
(*                                                                         *)
(* Time is counted in ticks from the trigger; timers are punctual, hooks   *)
(* and requests take as long as they like.  The HTTP server, Nest's        *)
(* application and Node's signals are external.  Reporting is left out: it *)
(* changes nothing, and its failures are caught.                           *)
(***************************************************************************)
EXTENDS Naturals

CONSTANTS
  PropagationDelay,    \* readinessPropagationDelayMs
  CloseTimeout,        \* applicationCloseTimeoutMs
  TelemetryTimeout,    \* telemetryCloseTimeoutMs
  MaxRequests          \* bound on HTTP requests in flight

ASSUME BudgetAssumption ==
  /\ PropagationDelay \in Nat
  /\ CloseTimeout \in Nat
  /\ TelemetryTimeout \in Nat
  /\ MaxRequests \in Nat

VARIABLES
  bootstrap,   \* "creating", "configuring", "running" or "failed"
  listening,   \* the HTTP server accepts connections
  draining,    \* ApplicationReadinessService
  requests,    \* HTTP requests in flight
  hooks,       \* application.close(): "open", "closing", "disposed", "closed", "failed"
  handled,     \* signals whose once-listener is used up
  trigger,     \* what the only closeAndExit call was started by
  phase,
  closes,      \* that call saw an application to close
  accepting,   \* that call saw the server listening
  elapsed, deadline,
  exitCode

server == <<listening, requests>>
call == <<trigger, closes, accepting>>
clock == <<elapsed, deadline>>
vars == <<bootstrap, server, draining, hooks, handled, call, phase, clock, exitCode>>

Signals == {"SIGINT", "SIGTERM"}
Over == {"exited", "killed"}

Init ==
  /\ bootstrap = "creating"
  /\ listening = FALSE
  /\ draining = FALSE
  /\ requests = 0
  /\ hooks = "open"
  /\ handled = {}
  /\ trigger = "none"
  /\ phase = "up"
  /\ closes = FALSE
  /\ accepting = FALSE
  /\ elapsed = 0
  /\ deadline = 0
  /\ exitCode = 0

Alive == phase \notin Over

-----------------------------------------------------------------------------
(* Deadlines, all counted from the trigger *)

ApplicationDeadline == (IF accepting THEN PropagationDelay ELSE 0) + CloseTimeout
Earlier(a, b) == IF a < b THEN a ELSE b
TelemetryDeadline ==
  Earlier(ApplicationDeadline + TelemetryTimeout, elapsed + TelemetryTimeout)

TimeIsUp == elapsed >= deadline

Tick ==
  /\ Alive
  /\ trigger # "none"
  /\ ~TimeIsUp
  /\ elapsed' = elapsed + 1
  /\ UNCHANGED <<bootstrap, server, draining, hooks, handled, call, phase, deadline, exitCode>>

-----------------------------------------------------------------------------
(* The last two phases, entered by the call just made or under way *)

BeginTelemetry ==
  /\ phase' = "telemetry"
  /\ deadline' = TelemetryDeadline'
  /\ UNCHANGED hooks

BeginApplication_OwnTimeout ==
  IF closes'
  THEN /\ phase' = "application"
       /\ deadline' = elapsed + CloseTimeout
       /\ hooks' = "closing"
  ELSE BeginTelemetry

\* Hooks share the deadline of admission; they start even when it has passed.
BeginApplication ==
  IF closes'
  THEN /\ phase' = "application"
       /\ deadline' = ApplicationDeadline'
       /\ hooks' = "closing"
  ELSE BeginTelemetry

-----------------------------------------------------------------------------
(* The trigger *)

getSignalExitCode(cause) ==
  CASE cause = "SIGINT" -> 130 [] cause = "SIGTERM" -> 143 [] OTHER -> 1

\* closeAndExit up to its first await.
closeAndExit(cause) ==
  /\ trigger' = cause
  /\ closes' = (bootstrap # "creating")
  /\ accepting' = listening
  /\ draining' = (draining \/ listening)
  /\ elapsed' = 0
  /\ IF listening
     THEN /\ phase' = "propagation"
          /\ deadline' = PropagationDelay
          /\ UNCHANGED hooks
     ELSE BeginApplication

shutdownApplication_Relabels(cause) ==
  IF trigger = "none" THEN closeAndExit(cause)
  ELSE /\ trigger' = cause
       /\ UNCHANGED <<draining, hooks, closes, accepting, phase, clock>>

\* The first trigger owns the shutdown.
shutdownApplication(cause) ==
  IF trigger = "none" THEN closeAndExit(cause)
  ELSE UNCHANGED <<draining, hooks, call, phase, clock>>

Signal(s) ==
  /\ Alive
  /\ s \notin handled
  /\ handled' = handled \cup {s}
  /\ shutdownApplication(s)
  /\ UNCHANGED <<bootstrap, server, exitCode>>

\* once() has removed the listener: Node's default disposition is back.
RepeatedSignal(s) ==
  /\ Alive
  /\ s \in handled
  /\ phase' = "killed"
  /\ UNCHANGED <<bootstrap, server, draining, hooks, handled, call, clock, exitCode>>

-----------------------------------------------------------------------------
(* Bootstrap, which a shutdown does not interrupt *)

CreateApplication ==
  /\ Alive
  /\ bootstrap = "creating"
  /\ bootstrap' = "configuring"
  /\ UNCHANGED <<server, draining, hooks, handled, call, phase, clock, exitCode>>

Listen ==
  /\ Alive
  /\ bootstrap = "configuring"
  /\ bootstrap' = "running"
  /\ listening' = TRUE
  /\ UNCHANGED <<requests, draining, hooks, handled, call, phase, clock, exitCode>>

BootstrapFails ==
  /\ Alive
  /\ bootstrap \in {"creating", "configuring"}
  /\ bootstrap' = "failed"
  /\ shutdownApplication("failed bootstrap")
  /\ UNCHANGED <<server, handled, exitCode>>

-----------------------------------------------------------------------------
(* Requests *)

RequestArrives ==
  /\ Alive
  /\ listening
  /\ requests < MaxRequests
  /\ requests' = requests + 1
  /\ UNCHANGED <<bootstrap, listening, draining, hooks, handled, call, phase, clock, exitCode>>

RequestEnds ==
  /\ Alive
  /\ requests > 0
  /\ requests' = requests - 1
  /\ UNCHANGED <<bootstrap, listening, draining, hooks, handled, call, phase, clock, exitCode>>

-----------------------------------------------------------------------------
(* The phases *)

\* stopAcceptingHttpRequests: the server refuses connections from here on.
PropagationEnds ==
  /\ phase = "propagation"
  /\ TimeIsUp
  /\ phase' = "admission"
  /\ deadline' = ApplicationDeadline
  /\ listening' = FALSE
  /\ UNCHANGED <<bootstrap, requests, draining, hooks, handled, call, elapsed, exitCode>>

AdmissionEnds_OnClose ==
  /\ phase = "admission"
  /\ UNCHANGED <<bootstrap, server, draining, handled, call, elapsed, exitCode>>
  /\ BeginApplication

AdmissionEnds_Drained ==
  /\ phase = "admission"
  /\ requests = 0
  /\ UNCHANGED <<bootstrap, server, draining, handled, call, elapsed, exitCode>>
  /\ BeginApplication

\* The close callback has run, or the deadline has passed.
AdmissionEnds ==
  /\ phase = "admission"
  /\ requests = 0 \/ TimeIsUp
  /\ UNCHANGED <<bootstrap, server, draining, handled, call, elapsed, exitCode>>
  /\ BeginApplication

\* Nest disposes of the HTTP adapter between its destroy and shutdown hooks.
Dispose ==
  /\ Alive
  /\ hooks = "closing"
  /\ hooks' = "disposed"
  /\ listening' = FALSE
  /\ UNCHANGED <<bootstrap, requests, draining, handled, call, phase, clock, exitCode>>

\* close() settles; after its deadline nobody waits for it.
HooksSettle ==
  /\ Alive
  /\ \/ hooks \in {"closing", "disposed"} /\ hooks' = "failed"
     \/ hooks = "disposed" /\ requests = 0 /\ hooks' = "closed"
  /\ UNCHANGED <<bootstrap, server, draining, handled, call, phase, clock, exitCode>>

ApplicationEnds ==
  /\ phase = "application"
  /\ hooks \in {"closed", "failed"} \/ TimeIsUp
  /\ UNCHANGED <<bootstrap, server, draining, handled, call, elapsed, exitCode>>
  /\ BeginTelemetry

Exit ==
  /\ phase' = "exited"
  /\ exitCode' = getSignalExitCode(trigger)
  /\ UNCHANGED <<bootstrap, server, draining, hooks, handled, call, clock>>

\* Closed, not initialised, or failed: the finally block exits all the same.
TelemetryCloses ==
  /\ phase = "telemetry"
  /\ Exit

TelemetryTimesOut ==
  /\ phase = "telemetry"
  /\ TimeIsUp
  /\ Exit

-----------------------------------------------------------------------------
Timers == PropagationEnds \/ AdmissionEnds \/ ApplicationEnds \/ TelemetryTimesOut

Next ==
  \/ \E s \in Signals : Signal(s) \/ RepeatedSignal(s)
  \/ CreateApplication \/ Listen \/ BootstrapFails
  \/ RequestArrives \/ RequestEnds
  \/ Dispose \/ HooksSettle
  \/ Timers \/ TelemetryCloses \/ Tick

Spec == Init /\ [][Next]_vars

\* Time passes and timers fire; hooks, requests and telemetry may hang.
FairSpec == Spec /\ WF_vars(Tick) /\ WF_vars(Timers)

-----------------------------------------------------------------------------
Phases == {"up", "propagation", "admission", "application", "telemetry"} \cup Over

(***************************************************************************)
(* Types; hooks run only for an application the call saw.                  *)
(***************************************************************************)
TypeOK ==
  /\ bootstrap \in {"creating", "configuring", "running", "failed"}
  /\ listening \in BOOLEAN /\ draining \in BOOLEAN
  /\ requests \in 0..MaxRequests
  /\ hooks \in {"open", "closing", "disposed", "closed", "failed"}
  /\ handled \subseteq Signals
  /\ trigger \in {"none", "failed bootstrap"} \cup Signals
  /\ phase \in Phases
  /\ closes \in BOOLEAN /\ accepting \in BOOLEAN
  /\ elapsed \in Nat /\ deadline \in Nat
  /\ exitCode \in {0, 1, 130, 143}
  /\ phase = "up" <=> trigger = "none"
  /\ hooks # "open" => closes

(***************************************************************************)
(* "The internal maximum is 17 seconds" (docs/configuration.md:178): three *)
(* budgets bound the whole shutdown, whichever phases hang.                *)
(***************************************************************************)
ExitsWithinBudget ==
  elapsed <= PropagationDelay + CloseTimeout + TelemetryTimeout

(***************************************************************************)
(* A server that was serving when the trigger came refuses connections     *)
(* only after readiness has been down for the propagation delay            *)
(* (docs/health.md:64), and its providers are destroyed under a request    *)
(* only when the shared deadline left no choice ("keeps providers alive    *)
(* until HTTP admission has drained", application-shutdown.spec.ts:254),   *)
(* whatever signals follow.                                                *)
(***************************************************************************)
DrainsInOrder ==
  trigger # "none" /\ accepting =>
    /\ ~listening => draining /\ elapsed >= PropagationDelay
    /\ hooks # "open" /\ requests > 0 => elapsed >= ApplicationDeadline

\* The phases in their order.
Rank == [up |-> 0, propagation |-> 1, admission |-> 2, application |-> 3,
         telemetry |-> 4, exited |-> 5, killed |-> 5]

(***************************************************************************)
(* Later triggers, a failing bootstrap among them, neither restart nor     *)
(* relabel the shutdown: once there is a trigger it stays the trigger,     *)
(* what the call saw of the application stays what it saw, the phases go   *)
(* forward only, and an exit has the trigger's code. (A signal repeated    *)
(* during the drain kills the process, which is no exit of the program's   *)
(* own.)                                                                   *)
(***************************************************************************)
FirstTriggerOwnsShutdown ==
  [][trigger # "none" =>
       /\ UNCHANGED call
       /\ Rank[phase'] >= Rank[phase]
       /\ phase' = "exited" => exitCode' = getSignalExitCode(trigger)]_vars

(***************************************************************************)
(* A triggered shutdown ends the process, even when requests, hooks and    *)
(* the telemetry SDK never settle.                                         *)
(***************************************************************************)
ShutdownEnds == trigger # "none" ~> phase \in Over
=============================================================================
