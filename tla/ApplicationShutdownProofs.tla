--------------------- MODULE ApplicationShutdownProofs ---------------------
(***************************************************************************)
(* That a shutdown keeps its budget, drains in order and belongs to its    *)
(* first trigger, for all budgets and any number of requests.              *)
(***************************************************************************)
EXTENDS ApplicationShutdown, TLAPS

LEMMA Budgets == /\ PropagationDelay \in Nat /\ CloseTimeout \in Nat
                 /\ TelemetryTimeout \in Nat /\ MaxRequests \in Nat
  BY BudgetAssumption

\* The numbers of the shutdown, named so that no leaf needs both arithmetic
\* and the Boolean variables.
Budget == PropagationDelay + CloseTimeout + TelemetryTimeout
Delay == IF accepting THEN PropagationDelay ELSE 0
Propagated == elapsed >= PropagationDelay
AtDeadline == elapsed >= ApplicationDeadline
Busy == requests > 0

(***************************************************************************)
(* The clock never passes the deadline of the phase under way, and every   *)
(* deadline is counted from the trigger.                                   *)
(***************************************************************************)
ClockInv ==
  /\ elapsed \in Nat /\ deadline \in Nat
  /\ elapsed <= deadline /\ deadline <= Budget
  /\ phase = "propagation" => Delay = PropagationDelay /\ deadline = PropagationDelay
  /\ phase \in {"admission", "application"} => deadline = Delay + CloseTimeout

(***************************************************************************)
(* Who was serving at the trigger refuses connections from the admission   *)
(* phase on, and never listens again: bootstrap had ended.                 *)
(***************************************************************************)
DrainInv ==
  /\ listening \in BOOLEAN /\ draining \in BOOLEAN
  /\ closes \in BOOLEAN /\ accepting \in BOOLEAN
  /\ listening => bootstrap = "running"
  /\ trigger = "none" => hooks = "open" /\ ~accepting
  /\ hooks # "open" => closes
  /\ accepting => bootstrap = "running" /\ draining
  /\ phase = "propagation" => accepting
  /\ accepting /\ ~listening => Propagated
  /\ accepting /\ phase \in {"admission", "application", "telemetry"} => ~listening
  /\ accepting /\ hooks # "open" => ~listening
  /\ accepting /\ hooks # "open" /\ Busy => AtDeadline

\* The other types, and what is used up.
RestInv ==
  /\ bootstrap \in {"creating", "configuring", "running", "failed"}
  /\ requests \in 0..MaxRequests
  /\ hooks \in {"open", "closing", "disposed", "closed", "failed"}
  /\ handled \subseteq Signals
  /\ trigger \in {"none", "failed bootstrap"} \cup Signals
  /\ phase \in Phases
  /\ exitCode \in {0, 1, 130, 143}
  /\ phase = "up" <=> trigger = "none"
  /\ handled # {} => trigger # "none"

SInv == ClockInv /\ DrainInv /\ RestInv

\* What the deadlines are, before and after a step.
LEMMA DelayType ==
  /\ Delay \in Nat /\ Delay <= PropagationDelay /\ ApplicationDeadline = Delay + CloseTimeout
  /\ accepting => Delay = PropagationDelay
  /\ ~accepting => Delay = 0
  BY Budgets DEF Delay, ApplicationDeadline

LEMMA DelayNext ==
  /\ Delay' \in Nat /\ Delay' <= PropagationDelay /\ ApplicationDeadline' = Delay' + CloseTimeout
  /\ accepting' => Delay' = PropagationDelay
  /\ ~accepting' => Delay' = 0
  BY Budgets DEF Delay, ApplicationDeadline

LEMMA SameClock ==
  ASSUME UNCHANGED <<accepting, elapsed, requests>>
  PROVE  Delay' = Delay /\ (Propagated' <=> Propagated) /\ (AtDeadline' <=> AtDeadline) /\ (Busy' <=> Busy)
  BY DEF Delay, Propagated, AtDeadline, ApplicationDeadline, Busy

LEMMA InitIsGood == Init => SInv
<1> SUFFICES ASSUME Init PROVE SInv
  OBVIOUS
<1>1. ClockInv
  <2>1. elapsed = 0 /\ deadline = 0 /\ phase = "up" /\ Budget \in Nat
    BY Budgets DEF Init, Budget
  <2> QED BY <2>1 DEF ClockInv
<1>2. DrainInv
  BY DEF Init, DrainInv
<1>3. RestInv
  BY Budgets DEF Init, RestInv, Phases, Over
<1> QED BY <1>1, <1>2, <1>3 DEF SInv

-----------------------------------------------------------------------------
(* The trigger. *)

\* The signal or the failure that reaches a process first.
FirstTrigger(cause) ==
  /\ trigger = "none"
  /\ cause \in Signals \cup {"failed bootstrap"}
  /\ closeAndExit(cause)
  /\ bootstrap' \in {bootstrap, "failed"}
  /\ listening => bootstrap' = bootstrap
  /\ handled' \subseteq Signals
  /\ UNCHANGED <<server, exitCode>>

LEMMA TriggerKeeps == ASSUME SInv, NEW cause, FirstTrigger(cause) PROVE SInv'
<1>1. /\ trigger' = cause /\ cause # "none" /\ cause \in {"none", "failed bootstrap"} \cup Signals
      /\ elapsed' = 0 /\ listening' = listening /\ requests' = requests /\ exitCode' = exitCode
      /\ accepting' = listening /\ closes' = (bootstrap # "creating")
      /\ draining' = (draining \/ listening)
      /\ bootstrap' \in {bootstrap, "failed"} /\ (listening => bootstrap' = bootstrap)
      /\ handled' \subseteq Signals
  BY DEF FirstTrigger, closeAndExit, Signals, server
<1>2. hooks = "open" /\ closeAndExit(cause)
  BY DEF FirstTrigger, SInv, DrainInv
<1>3. CASE listening
  <2>1. phase' = "propagation" /\ deadline' = PropagationDelay /\ hooks' = "open"
    BY <1>2, <1>3 DEF closeAndExit
  <2>2. accepting' /\ listening' /\ draining' /\ bootstrap' = "running"
    BY <1>1, <1>3 DEF SInv, DrainInv
  <2>3. ClockInv'
    <3>1. Delay' = PropagationDelay
      BY <2>2, DelayNext
    <3>2. elapsed' = 0
      BY <1>1
    <3> QED BY <2>1, <3>1, <3>2, Budgets DEF ClockInv, Budget
  <2>4. DrainInv'
    BY <1>1, <2>1, <2>2 DEF SInv, DrainInv
  <2>5. RestInv'
    BY <1>1, <2>1 DEF SInv, RestInv, Phases
  <2> QED BY <2>3, <2>4, <2>5 DEF SInv
<1>4. CASE ~listening
  <2>1. BeginApplication
    BY <1>2, <1>4 DEF closeAndExit
  <2>2. /\ ~accepting' /\ ~listening' /\ accepting' \in BOOLEAN /\ listening' \in BOOLEAN
        /\ draining' \in BOOLEAN /\ closes' \in BOOLEAN
    BY <1>1, <1>4 DEF SInv, DrainInv
  <2>3. /\ Delay' = 0 /\ ApplicationDeadline' = CloseTimeout /\ elapsed' = 0
        /\ TelemetryDeadline' \in Nat /\ TelemetryDeadline' <= Budget
    <3>1. Delay' = 0 /\ ApplicationDeadline' = CloseTimeout
      BY <2>2, DelayNext, Budgets
    <3>2. elapsed' = 0
      BY <1>1
    <3> QED BY <3>1, <3>2, Budgets DEF TelemetryDeadline, Earlier, Budget
  <2>4. CASE closes'
    <3>1. phase' = "application" /\ deadline' = ApplicationDeadline' /\ hooks' = "closing"
      BY <2>1, <2>4 DEF BeginApplication
    <3>2. ClockInv'
      BY <2>3, <3>1, Budgets DEF ClockInv, Budget
    <3>3. DrainInv'
      <4>1. trigger' # "none" /\ phase' = "application"
        BY <1>1, <3>1
      <4> QED BY <2>2, <2>4, <4>1 DEF DrainInv
    <3>4. RestInv'
      BY <1>1, <3>1 DEF SInv, RestInv, Phases
    <3> QED BY <3>2, <3>3, <3>4 DEF SInv
  <2>5. CASE ~closes'
    <3>1. phase' = "telemetry" /\ deadline' = TelemetryDeadline' /\ hooks' = "open"
      BY <1>2, <2>1, <2>5 DEF BeginApplication, BeginTelemetry
    <3>2. ClockInv'
      BY <2>3, <3>1 DEF ClockInv
    <3>3. DrainInv'
      <4>1. trigger' # "none" /\ phase' = "telemetry" /\ hooks' = "open"
        BY <1>1, <3>1
      <4> QED BY <2>2, <4>1 DEF DrainInv
    <3>4. RestInv'
      BY <1>1, <3>1 DEF SInv, RestInv, Phases
    <3> QED BY <3>2, <3>3, <3>4 DEF SInv
  <2> QED BY <2>4, <2>5
<1> QED BY <1>3, <1>4

\* A step that is not the first trigger keeps RestInv if it keeps its types.
LEMMA RestStep ==
  ASSUME RestInv, trigger' = trigger,
         handled' = handled \/ (handled' \subseteq Signals /\ trigger # "none"),
         bootstrap' = bootstrap \/ bootstrap' \in {"creating", "configuring", "running", "failed"},
         requests' = requests \/ requests' \in 0..MaxRequests,
         hooks' = hooks \/ hooks' \in {"open", "closing", "disposed", "closed", "failed"},
         exitCode' = exitCode \/ exitCode' \in {0, 1, 130, 143},
         phase' = phase \/ (phase # "up" /\ phase' # "up" /\ phase' \in Phases)
  PROVE  RestInv'
<1>1. requests' \in 0..MaxRequests
  BY Zenon DEF RestInv
<1>2. bootstrap' \in {"creating", "configuring", "running", "failed"}
  BY Zenon DEF RestInv
<1>3. hooks' \in {"open", "closing", "disposed", "closed", "failed"}
  BY Zenon DEF RestInv
<1>4. exitCode' \in {0, 1, 130, 143}
  <2>1. exitCode \in {0, 1, 130, 143}
    BY DEF RestInv
  <2> QED BY <2>1
<1>5. handled' \subseteq Signals /\ trigger' \in {"none", "failed bootstrap"} \cup Signals
  BY DEF RestInv
<1>6. phase' \in Phases /\ (phase' = "up" <=> phase = "up")
  BY DEF RestInv
<1>7. (phase' = "up" <=> trigger' = "none") /\ (handled' # {} => trigger' # "none")
  BY <1>6 DEF RestInv
<1> QED BY <1>1, <1>2, <1>3, <1>4, <1>5, <1>6, <1>7 DEF RestInv

\* A later one changes only what bootstrap and the listeners are.
LaterTrigger ==
  /\ trigger # "none"
  /\ bootstrap' \in {bootstrap, "failed"}
  /\ bootstrap = "running" => bootstrap' = bootstrap
  /\ handled' \subseteq Signals
  /\ UNCHANGED <<server, draining, hooks, call, phase, clock, exitCode>>

LEMMA OwnedKeeps == ASSUME SInv, LaterTrigger PROVE SInv'
<1>1. UNCHANGED <<listening, requests, draining, hooks, trigger, closes, accepting, phase,
                  elapsed, deadline, exitCode>>
  BY DEF LaterTrigger, server, call, clock
<1>2. Delay' = Delay /\ (Propagated' <=> Propagated) /\ (AtDeadline' <=> AtDeadline) /\ (Busy' <=> Busy)
  BY <1>1, SameClock
<1>3. ClockInv'
  BY <1>1, <1>2 DEF SInv, ClockInv
<1>4. DrainInv'
  BY <1>1, <1>2 DEF LaterTrigger, SInv, DrainInv
<1>5. RestInv'
  <2>1. /\ UNCHANGED <<requests, hooks, trigger, phase, exitCode>> /\ trigger # "none"
        /\ bootstrap' \in {bootstrap, "failed"} /\ handled' \subseteq Signals
    BY <1>1 DEF LaterTrigger
  <2>2. bootstrap' = bootstrap \/ bootstrap' \in {"creating", "configuring", "running", "failed"}
    BY <2>1
  <2> QED BY <2>1, <2>2, RestStep DEF SInv
<1> QED BY <1>3, <1>4, <1>5 DEF SInv

LEMMA SignalKeeps == ASSUME SInv, NEW s \in Signals, Signal(s) PROVE SInv'
<1>1. handled' \subseteq Signals /\ UNCHANGED <<bootstrap, server, exitCode>>
  BY DEF Signal, SInv, RestInv
<1>2. CASE trigger = "none"
  <2>1. closeAndExit(s)
    BY <1>2 DEF Signal, shutdownApplication
  <2>2. FirstTrigger(s)
    BY <1>1, <1>2, <2>1 DEF FirstTrigger
  <2> QED BY <2>2, TriggerKeeps
<1>3. CASE trigger # "none"
  <2>1. UNCHANGED <<draining, hooks, call, phase, clock>>
    BY <1>3 DEF Signal, shutdownApplication
  <2>2. LaterTrigger
    BY <1>1, <1>3, <2>1 DEF LaterTrigger
  <2> QED BY <2>2, OwnedKeeps
<1> QED BY <1>2, <1>3

LEMMA BootstrapFailsKeeps == ASSUME SInv, BootstrapFails PROVE SInv'
<1>1. /\ bootstrap # "running" /\ bootstrap' = "failed" /\ handled' \subseteq Signals
      /\ UNCHANGED <<server, exitCode>>
  BY DEF BootstrapFails, SInv, RestInv
<1>2. CASE trigger = "none"
  <2>1. closeAndExit("failed bootstrap")
    BY <1>2 DEF BootstrapFails, shutdownApplication
  <2>2. ~listening
    BY <1>1 DEF SInv, DrainInv
  <2>3. FirstTrigger("failed bootstrap")
    BY <1>1, <1>2, <2>1, <2>2 DEF FirstTrigger
  <2> QED BY <2>3, TriggerKeeps
<1>3. CASE trigger # "none"
  <2>1. UNCHANGED <<draining, hooks, call, phase, clock>>
    BY <1>3 DEF BootstrapFails, shutdownApplication
  <2>2. LaterTrigger
    BY <1>1, <1>3, <2>1 DEF LaterTrigger
  <2> QED BY <2>2, OwnedKeeps
<1> QED BY <1>2, <1>3

-----------------------------------------------------------------------------
(* What happens beside the shutdown. *)

LEMMA RepeatedSignalKeeps == ASSUME SInv, NEW s \in Signals, RepeatedSignal(s) PROVE SInv'
<1>1. /\ phase' = "killed" /\ trigger # "none"
      /\ UNCHANGED <<bootstrap, listening, requests, draining, hooks, handled, trigger, closes,
                     accepting, elapsed, deadline, exitCode>>
  BY DEF RepeatedSignal, SInv, RestInv, server, call, clock
<1>2. Delay' = Delay /\ (Propagated' <=> Propagated) /\ (AtDeadline' <=> AtDeadline) /\ (Busy' <=> Busy)
  BY <1>1, SameClock
<1>3. ClockInv'
  BY <1>1, <1>2 DEF SInv, ClockInv
<1>4. DrainInv'
  BY <1>1, <1>2 DEF SInv, DrainInv
<1>5. RestInv'
  <2>1. "killed" \in Phases /\ phase # "up"
    BY <1>1 DEF SInv, RestInv, Phases, Over
  <2> QED BY <1>1, <2>1, RestStep DEF SInv
<1> QED BY <1>3, <1>4, <1>5 DEF SInv

LEMMA TickKeeps == ASSUME SInv, Tick PROVE SInv'
<1>1. /\ elapsed' = elapsed + 1 /\ elapsed < deadline
      /\ UNCHANGED <<bootstrap, listening, requests, draining, hooks, handled, trigger, closes,
                     accepting, phase, deadline, exitCode>>
  BY DEF Tick, TimeIsUp, SInv, ClockInv, server, call
<1>2. Delay' = Delay /\ (Busy' <=> Busy)
  BY <1>1 DEF Delay, Busy
<1>3. elapsed \in Nat /\ elapsed' = elapsed + 1
  BY <1>1 DEF SInv, ClockInv
<1>4. Propagated => Propagated'
  BY <1>3, Budgets DEF Propagated
<1>5. AtDeadline => AtDeadline'
  <2>1. ApplicationDeadline \in Nat /\ ApplicationDeadline' = ApplicationDeadline
    BY <1>2, DelayType, DelayNext, Budgets
  <2> QED BY <1>3, <2>1 DEF AtDeadline
<1>6. ClockInv'
  BY <1>1, <1>2 DEF SInv, ClockInv
<1>7. DrainInv'
  BY <1>1, <1>2, <1>4, <1>5 DEF SInv, DrainInv
<1>8. RestInv'
  <2>1. UNCHANGED <<bootstrap, requests, hooks, handled, trigger, phase, exitCode>>
    BY <1>1
  <2> QED BY <2>1, RestStep DEF SInv
<1> QED BY <1>6, <1>7, <1>8 DEF SInv

LEMMA BootstrapKeeps == ASSUME SInv, CreateApplication \/ Listen PROVE SInv'
<1>1. /\ bootstrap # "running" /\ bootstrap' \in {"configuring", "running"}
      /\ listening' \in BOOLEAN /\ (listening' => bootstrap' = "running")
      /\ UNCHANGED <<requests, draining, hooks, handled, trigger, closes, accepting, phase,
                     elapsed, deadline, exitCode>>
  <2>1. CASE CreateApplication
    BY <2>1 DEF CreateApplication, SInv, DrainInv, server, call, clock
  <2>2. CASE Listen
    BY <2>2 DEF Listen, call, clock
  <2> QED BY <2>1, <2>2
<1>2. Delay' = Delay
  BY <1>1, SameClock
<1>3. ClockInv'
  BY <1>1, <1>2 DEF SInv, ClockInv
<1>4. DrainInv'
  BY <1>1 DEF SInv, DrainInv
<1>5. RestInv'
  BY <1>1, RestStep DEF SInv
<1> QED BY <1>3, <1>4, <1>5 DEF SInv

LEMMA RequestsKeep == ASSUME SInv, RequestArrives \/ RequestEnds PROVE SInv'
<1>1. /\ UNCHANGED <<bootstrap, listening, draining, hooks, handled, trigger, closes,
                     accepting, phase, elapsed, deadline, exitCode>>
      /\ (listening /\ requests' = requests + 1 /\ requests < MaxRequests)
           \/ (requests' = requests - 1 /\ requests > 0)
  BY DEF RequestArrives, RequestEnds, call, clock
<1>2. /\ Delay' = Delay /\ (Propagated' <=> Propagated) /\ (AtDeadline' <=> AtDeadline)
      /\ accepting' = accepting
  BY <1>1 DEF Delay, Propagated, AtDeadline, ApplicationDeadline
<1>3. requests' \in 0..MaxRequests
  <2>1. (requests' = requests + 1 /\ requests < MaxRequests) \/ (requests' = requests - 1 /\ requests > 0)
    BY <1>1
  <2>2. requests \in 0..MaxRequests
    BY DEF SInv, RestInv
  <2> QED BY <2>1, <2>2, Budgets
<1>4. Busy' => Busy \/ listening
  <2>1. CASE requests' = requests - 1 /\ requests > 0
    BY <2>1 DEF Busy
  <2> QED BY <1>1, <2>1
<1>5. ClockInv'
  BY <1>1, <1>2 DEF SInv, ClockInv
<1>6. DrainInv'
  BY <1>1, <1>2, <1>4 DEF SInv, DrainInv
<1>7. RestInv'
  BY <1>1, <1>3, RestStep DEF SInv
<1> QED BY <1>5, <1>6, <1>7 DEF SInv

LEMMA HooksKeep == ASSUME SInv, Dispose \/ HooksSettle PROVE SInv'
<1>1. /\ hooks # "open" /\ hooks' \in {"disposed", "closed", "failed"}
      /\ (listening' => listening) /\ listening' \in BOOLEAN
      /\ UNCHANGED <<bootstrap, requests, draining, handled, trigger, closes,
                     accepting, phase, elapsed, deadline, exitCode>>
  <2>1. listening \in BOOLEAN
    BY DEF SInv, DrainInv
  <2>2. CASE Dispose
    BY <2>1, <2>2 DEF Dispose, call, clock
  <2>3. CASE HooksSettle
    BY <2>1, <2>3 DEF HooksSettle, server, call, clock
  <2> QED BY <2>2, <2>3
<1>2. Delay' = Delay /\ (Propagated' <=> Propagated) /\ (AtDeadline' <=> AtDeadline) /\ (Busy' <=> Busy)
  BY <1>1, SameClock
<1>3. ClockInv'
  BY <1>1, <1>2 DEF SInv, ClockInv
<1>4. DrainInv'
  BY <1>1, <1>2 DEF SInv, DrainInv
<1>5. RestInv'
  BY <1>1, RestStep DEF SInv
<1> QED BY <1>3, <1>4, <1>5 DEF SInv

-----------------------------------------------------------------------------
(* The phases. *)

LEMMA PropagationKeeps == ASSUME SInv, PropagationEnds PROVE SInv'
<1>1. /\ phase = "propagation" /\ elapsed >= deadline /\ phase' = "admission"
      /\ deadline' = ApplicationDeadline /\ listening' = FALSE
      /\ UNCHANGED <<bootstrap, requests, draining, hooks, handled, trigger, closes,
                     accepting, elapsed, exitCode>>
  BY DEF PropagationEnds, TimeIsUp, call
<1>2. Delay' = Delay /\ (Propagated' <=> Propagated) /\ (AtDeadline' <=> AtDeadline) /\ (Busy' <=> Busy)
  BY <1>1, SameClock
<1>3. elapsed = PropagationDelay /\ Delay = PropagationDelay
  <2>1. elapsed >= deadline /\ phase = "propagation"
    BY <1>1
  <2> QED BY <2>1, Budgets DEF SInv, ClockInv
<1>4. ClockInv'
  <2>1. elapsed' = elapsed /\ phase' = "admission" /\ deadline' = Delay' + CloseTimeout
    BY <1>1, <1>2, DelayType
  <2> QED BY <1>2, <1>3, <2>1, Budgets DEF ClockInv, Budget
<1>5. Propagated
  BY <1>3, Budgets DEF Propagated
<1>6. DrainInv'
  BY <1>1, <1>2, <1>5 DEF SInv, DrainInv
<1>7. RestInv'
  <2>1. "admission" \in Phases
    BY DEF Phases
  <2> QED BY <1>1, <2>1, RestStep DEF SInv
<1> QED BY <1>4, <1>6, <1>7 DEF SInv

\* From a phase whose deadline is the application's.
LEMMA TelemetryKeeps ==
  ASSUME SInv, phase \in {"admission", "application"}, BeginTelemetry,
         UNCHANGED <<bootstrap, server, draining, handled, call, elapsed, exitCode>>
  PROVE  SInv'
<1>1. /\ phase' = "telemetry" /\ deadline' = TelemetryDeadline'
      /\ UNCHANGED <<bootstrap, listening, requests, draining, hooks, handled, trigger, closes,
                     accepting, elapsed, exitCode>>
  BY DEF BeginTelemetry, server, call
<1>2. Delay' = Delay /\ (Propagated' <=> Propagated) /\ (AtDeadline' <=> AtDeadline) /\ (Busy' <=> Busy)
  BY <1>1, SameClock
<1>3. ClockInv'
  <2>1. /\ phase' = "telemetry" /\ deadline' = TelemetryDeadline' /\ elapsed' = elapsed
        /\ ApplicationDeadline' = Delay + CloseTimeout
    BY <1>1, <1>2, DelayNext
  <2>2. elapsed \in Nat /\ elapsed <= Delay + CloseTimeout
    BY DEF SInv, ClockInv
  <2>3. Delay \in Nat /\ Delay <= PropagationDelay
    BY DelayType
  <2> QED BY <2>1, <2>2, <2>3, Budgets DEF ClockInv, TelemetryDeadline, Earlier, Budget
<1>4. DrainInv'
  BY <1>1, <1>2 DEF SInv, DrainInv
<1>5. RestInv'
  <2>1. /\ phase' = "telemetry" /\ phase # "up"
        /\ UNCHANGED <<bootstrap, requests, hooks, handled, trigger, exitCode>>
    BY <1>1
  <2>2. "telemetry" \in Phases
    BY DEF Phases
  <2> QED BY <2>1, <2>2, RestStep DEF SInv
<1> QED BY <1>3, <1>4, <1>5 DEF SInv

LEMMA AdmissionKeeps == ASSUME SInv, AdmissionEnds PROVE SInv'
<1>1. /\ phase = "admission" /\ (requests = 0 \/ elapsed >= deadline)
      /\ UNCHANGED <<bootstrap, listening, requests, draining, handled, trigger, closes,
                     accepting, elapsed, exitCode>>
  BY DEF AdmissionEnds, TimeIsUp, server, call
<1>2. Delay' = Delay /\ (Propagated' <=> Propagated) /\ (AtDeadline' <=> AtDeadline) /\ (Busy' <=> Busy)
  BY <1>1, SameClock
<1>3. Busy => AtDeadline
  <2>1. phase = "admission" /\ (requests = 0 \/ elapsed >= deadline)
    BY <1>1
  <2>2. ApplicationDeadline = Delay + CloseTimeout
    BY DelayType
  <2> QED BY <2>1, <2>2 DEF SInv, ClockInv, Busy, AtDeadline
<1>4. CASE closes'
  <2>1. phase' = "application" /\ deadline' = ApplicationDeadline' /\ hooks' = "closing"
    BY <1>4 DEF AdmissionEnds, BeginApplication
  <2>2. ClockInv'
    <3>1. elapsed' = elapsed /\ deadline' = deadline /\ deadline = Delay' + CloseTimeout
      BY <1>1, <1>2, <2>1, DelayNext DEF SInv, ClockInv
    <3> QED BY <2>1, <3>1 DEF SInv, ClockInv
  <2>3. DrainInv'
    <3>1. /\ phase = "admission" /\ phase' = "application" /\ hooks' = "closing"
          /\ UNCHANGED <<bootstrap, listening, draining, trigger, closes, accepting>>
      BY <1>1, <2>1
    <3>2. trigger # "none"
      BY <3>1 DEF SInv, RestInv
    <3> QED BY <1>2, <1>3, <1>4, <3>1, <3>2 DEF SInv, DrainInv
  <2>4. RestInv'
    BY <1>1, <2>1 DEF SInv, RestInv, Phases
  <2> QED BY <2>2, <2>3, <2>4 DEF SInv
<1>5. CASE ~closes'
  BY <1>5, TelemetryKeeps DEF AdmissionEnds, BeginApplication
<1> QED BY <1>4, <1>5

LEMMA ApplicationKeeps == ASSUME SInv, ApplicationEnds PROVE SInv'
  BY TelemetryKeeps DEF ApplicationEnds

LEMMA ExitCodes == ASSUME NEW cause PROVE getSignalExitCode(cause) \in {1, 130, 143}
<1>1. CASE cause = "SIGINT"
  BY <1>1 DEF getSignalExitCode
<1>2. CASE cause = "SIGTERM"
  BY <1>2 DEF getSignalExitCode
<1>3. CASE cause # "SIGINT" /\ cause # "SIGTERM"
  BY <1>3 DEF getSignalExitCode
<1> QED BY <1>1, <1>2, <1>3

LEMMA ExitKeeps == ASSUME SInv, phase = "telemetry", Exit PROVE SInv'
<1>1. /\ phase' = "exited" /\ exitCode' \in {1, 130, 143}
      /\ UNCHANGED <<bootstrap, listening, requests, draining, hooks, handled, trigger, closes,
                     accepting, elapsed, deadline>>
  BY ExitCodes DEF Exit, server, call, clock
<1>2. Delay' = Delay /\ (Propagated' <=> Propagated) /\ (AtDeadline' <=> AtDeadline) /\ (Busy' <=> Busy)
  BY <1>1, SameClock
<1>3. ClockInv'
  BY <1>1, <1>2 DEF SInv, ClockInv
<1>4. DrainInv'
  BY <1>1, <1>2 DEF SInv, DrainInv
<1>5. RestInv'
  <2>1. /\ phase' = "exited" /\ phase # "up" /\ exitCode' \in {0, 1, 130, 143}
        /\ UNCHANGED <<bootstrap, requests, hooks, handled, trigger>>
    BY <1>1
  <2>2. "exited" \in Phases
    BY DEF Phases, Over
  <2> QED BY <2>1, <2>2, RestStep DEF SInv
<1> QED BY <1>3, <1>4, <1>5 DEF SInv

LEMMA StutterKeeps == ASSUME SInv, UNCHANGED vars PROVE SInv'
<1>1. UNCHANGED <<bootstrap, listening, requests, draining, hooks, handled, trigger, closes,
                  accepting, phase, elapsed, deadline, exitCode>>
  BY DEF vars, server, call, clock
<1>2. Delay' = Delay /\ (Propagated' <=> Propagated) /\ (AtDeadline' <=> AtDeadline) /\ (Busy' <=> Busy)
  BY <1>1, SameClock
<1>3. ClockInv'
  BY <1>1, <1>2 DEF SInv, ClockInv
<1>4. DrainInv'
  BY <1>1, <1>2 DEF SInv, DrainInv
<1>5. RestInv'
  BY <1>1, RestStep DEF SInv
<1> QED BY <1>3, <1>4, <1>5 DEF SInv

LEMMA NextKeeps == ASSUME SInv, [Next]_vars PROVE SInv'
<1>1. CASE TelemetryCloses \/ TelemetryTimesOut
  BY <1>1, ExitKeeps DEF TelemetryCloses, TelemetryTimesOut
<1> QED BY <1>1, SignalKeeps, RepeatedSignalKeeps, BootstrapKeeps, BootstrapFailsKeeps,
           RequestsKeep, HooksKeep, PropagationKeeps, AdmissionKeeps, ApplicationKeeps,
           TickKeeps, StutterKeeps DEF Next, Timers

(***************************************************************************)
(* SInv holds in every reachable state.                                    *)
(***************************************************************************)
THEOREM Inductive == Spec => []SInv
<1>1. SInv /\ [Next]_vars => SInv'
  BY NextKeeps
<1> QED BY InitIsGood, <1>1, PTL DEF Spec

-----------------------------------------------------------------------------
(***************************************************************************)
(* Every reachable state is well typed, and hooks run only for an          *)
(* application the one closeAndExit call saw.                              *)
(***************************************************************************)
THEOREM ShutdownTypes == Spec => []TypeOK
<1>1. SInv => TypeOK
  BY DEF SInv, ClockInv, DrainInv, RestInv, TypeOK
<1> QED BY <1>1, Inductive, PTL

(***************************************************************************)
(* Three budgets bound the whole shutdown, whichever phases hang           *)
(* (closeAndExit's deadlines).                                             *)
(***************************************************************************)
THEOREM BudgetIsKept == Spec => []ExitsWithinBudget
<1>1. SInv => ExitsWithinBudget
  BY Budgets DEF SInv, ClockInv, Budget, ExitsWithinBudget
<1> QED BY <1>1, Inductive, PTL

(***************************************************************************)
(* A server that was serving at the trigger refuses connections only after *)
(* readiness has been down for the propagation delay, and its providers    *)
(* are destroyed under a request only when the deadline left no choice     *)
(* (closeHttpAdmission, then application.close).                           *)
(***************************************************************************)
THEOREM DrainIsOrdered == Spec => []DrainsInOrder
<1>1. SInv => DrainsInOrder
  <2> SUFFICES ASSUME SInv PROVE DrainsInOrder
    OBVIOUS
  <2>1. /\ Propagated => elapsed >= PropagationDelay
        /\ AtDeadline => elapsed >= ApplicationDeadline
        /\ requests > 0 => Busy
    BY DEF Propagated, AtDeadline, Busy
  <2> QED BY <2>1 DEF SInv, DrainInv, DrainsInOrder
<1> QED BY <1>1, Inductive, PTL

LEMMA RankType == ASSUME NEW p \in Phases PROVE Rank[p] \in 0..5
  BY DEF Phases, Over, Rank

(***************************************************************************)
(* Once a shutdown has a trigger, later ones change neither the trigger    *)
(* nor what the call saw of the application; its phases only go forward,   *)
(* and it exits with the code of that trigger (shutdownApplication's       *)
(* shutdownPromise).                                                       *)
(***************************************************************************)
THEOREM ShutdownIsOwned == Spec => FirstTriggerOwnsShutdown
<1>1. ASSUME SInv, [Next]_vars
      PROVE  [trigger # "none" => /\ UNCHANGED call
                                  /\ Rank[phase'] >= Rank[phase]
                                  /\ phase' = "exited" => exitCode' = getSignalExitCode(trigger)]_vars
  <2> SUFFICES ASSUME Next, trigger # "none"
               PROVE  /\ UNCHANGED call
                      /\ Rank[phase'] >= Rank[phase]
                      /\ phase' = "exited" => exitCode' = getSignalExitCode(trigger)
    BY <1>1
  <2>0. Rank[phase] \in 0..5
    BY <1>1, RankType DEF SInv, RestInv
  <2>1. UNCHANGED call /\ phase' = phase /\ phase # "exited"
        => /\ UNCHANGED call
           /\ Rank[phase'] >= Rank[phase]
           /\ phase' = "exited" => exitCode' = getSignalExitCode(trigger)
    BY <2>0
  <2>2. CASE \E s \in Signals : Signal(s) \/ RepeatedSignal(s)
    <3>1. CASE \E s \in Signals : Signal(s)
      BY <2>1, <3>1 DEF Signal, shutdownApplication, Alive, Over
    <3>2. CASE \E s \in Signals : RepeatedSignal(s)
      <4>1. phase' = "killed" /\ UNCHANGED call
        BY <3>2 DEF RepeatedSignal
      <4> QED BY <2>0, <4>1 DEF Rank
    <3> QED BY <2>2, <3>1, <3>2
  <2>3. CASE CreateApplication \/ Listen \/ BootstrapFails \/ RequestArrives \/ RequestEnds
             \/ Dispose \/ HooksSettle \/ Tick
    <3>1. UNCHANGED call /\ phase' = phase /\ phase # "exited"
      BY <2>3 DEF CreateApplication, Listen, BootstrapFails, shutdownApplication,
         RequestArrives, RequestEnds, Dispose, HooksSettle, Tick, Alive, Over, call
    <3> QED BY <2>1, <3>1
  <2>4. CASE PropagationEnds \/ AdmissionEnds \/ ApplicationEnds
    BY <2>4 DEF PropagationEnds, AdmissionEnds, ApplicationEnds, BeginApplication,
       BeginTelemetry, Rank, call
  <2>5. CASE TelemetryCloses \/ TelemetryTimesOut
    BY <2>5 DEF TelemetryCloses, TelemetryTimesOut, Exit, Rank, call
  <2> QED BY <2>2, <2>3, <2>4, <2>5 DEF Next, Timers
<1> QED BY <1>1, Inductive, PTL DEF Spec, FirstTriggerOwnsShutdown
=============================================================================
