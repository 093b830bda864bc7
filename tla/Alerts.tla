-------------------------------- MODULE Alerts --------------------------------
(***************************************************************************)
(* Alerts from firing to resolution: alerts.Manager (Evaluate and the      *)
(* lifecycle tick), the alert map of the store, the REST handlers that     *)
(* acknowledge and resolve, and the tracker_active_alerts gauge.           *)
(*                                                                         *)
(* Evaluate runs in many goroutines at once and increments Manager.seq     *)
(* without a lock, so the increment is a read and a write, and the id is   *)
(* built from what either the write or a second read yields.  Store        *)
(* methods are atomic; the gauge is updated in a step of its own after     *)
(* them.  The tick works on copies taken at its start.  Notifications are  *)
(* left out: they change no state.                                         *)
(***************************************************************************)
EXTENDS Integers, FiniteSets

CONSTANTS
    Evaluators,     \* goroutines that call Evaluate
    Rules,          \* alert rules, by name
    AutoResolving,  \* the rules with AutoResolveAfter
    Escalating,     \* the rules with EscalateAfter
    MaxSeq          \* bound on the sequence number

ASSUME RulesAssumption == AutoResolving \subseteq Rules /\ Escalating \subseteq Rules
ASSUME MaxSeqAssumption == MaxSeq \in Nat
ASSUME EvaluatorsAssumption == IsFiniteSet(Evaluators)

VARIABLES
    seq,        \* Manager.seq
    alerts,     \* Store.alerts
    due,        \* the limits of its rule an alert is older than
    gauge,      \* the gauge of active alerts
    eval,       \* eval[e]: how far evaluator e has got
    tick,       \* how far runLifecycleTick has got
    escalations, \* history: how often the alert now stored under an id escalated
    raced       \* history: two evaluators have been Numbering at once

vars == <<seq, alerts, due, gauge, eval, tick, escalations, raced>>

Ids == 1..MaxSeq
Limits == {"escalate", "resolve"}
Alert == [status : {"firing", "acknowledged", "resolved"}, rule : Rules, escalated : BOOLEAN]
Absent == [status |-> "absent"]

\* What a tick keeps of an alert that was firing when it began.
Copy == [id : Ids, rule : Rules, escalated : BOOLEAN, due : SUBSET Limits]

TypeOK ==
    /\ seq \in 0..MaxSeq
    /\ alerts \in [Ids -> Alert \cup {Absent}]
    /\ due \in [Ids -> SUBSET Limits]
    /\ gauge \in Int
    /\ eval \in [Evaluators ->
            [pc : {"idle", "read", "written", "stored"}, todo : SUBSET Rules, seq : 0..MaxSeq]]
    /\ tick \in [pc : {"idle", "walk", "resolved"}, todo : SUBSET Copy]
    /\ escalations \in [Ids -> Nat]
    /\ raced \in BOOLEAN

Init ==
    /\ seq = 0
    /\ alerts = [id \in Ids |-> Absent]
    /\ due = [id \in Ids |-> {}]
    /\ gauge = 0
    /\ eval = [e \in Evaluators |-> [pc |-> "idle", todo |-> {}, seq |-> 0]]
    /\ tick = [pc |-> "idle", todo |-> {}]
    /\ escalations = [id \in Ids |-> 0]
    /\ raced = FALSE

Firing == {id \in Ids : alerts[id].status = "firing"}

-----------------------------------------------------------------------------
(* Evaluate, for an event that matches the rules in todo *)

StartEvaluate(e, matching) ==
    /\ eval[e].pc = "idle" /\ eval[e].todo = {}
    /\ eval' = [eval EXCEPT ![e].todo = matching]
    /\ UNCHANGED <<seq, alerts, due, gauge, tick, escalations, raced>>

\* The evaluators between reading Manager.seq and storing the alert.
Numbering == {e \in Evaluators : eval[e].pc \in {"read", "written"}}

\* Fault: an alert gets the number of those that fire.
ReadSeq_FiringCount(e) ==
    /\ eval[e].pc = "idle" /\ eval[e].todo # {}
    /\ Cardinality(Firing) < MaxSeq
    /\ eval' = [eval EXCEPT ![e].pc = "read", ![e].seq = Cardinality(Firing)]
    /\ raced' = (raced \/ Numbering # {})
    /\ UNCHANGED <<seq, alerts, due, gauge, tick, escalations>>

ReadSeq(e) ==
    /\ eval[e].pc = "idle" /\ eval[e].todo # {}
    /\ seq < MaxSeq
    /\ eval' = [eval EXCEPT ![e].pc = "read", ![e].seq = seq]
    /\ raced' = (raced \/ Numbering # {})
    /\ UNCHANGED <<seq, alerts, due, gauge, tick, escalations>>

WriteSeq(e) ==
    /\ eval[e].pc = "read"
    /\ seq' = eval[e].seq + 1
    /\ eval' = [eval EXCEPT ![e].pc = "written", ![e].seq = @ + 1]
    /\ UNCHANGED <<alerts, due, gauge, tick, escalations, raced>>

\* The alert's id is the number just written, or the one read back for it.
AddAlert(e, rule) ==
    /\ eval[e].pc = "written" /\ rule \in eval[e].todo
    /\ \E id \in {eval[e].seq, seq} :
          /\ alerts' = [alerts EXCEPT
                ![id] = [status |-> "firing", rule |-> rule, escalated |-> FALSE]]
          /\ due' = [due EXCEPT ![id] = {}]
          /\ escalations' = [escalations EXCEPT ![id] = 0]
    /\ eval' = [eval EXCEPT ![e] =
                  [pc |-> "stored", todo |-> eval[e].todo \ {rule}, seq |-> 0]]
    /\ UNCHANGED <<seq, gauge, tick, raced>>

\* Fault: the gauge is not incremented.
IncGauge_Forgotten(e) ==
    /\ eval[e].pc = "stored"
    /\ eval' = [eval EXCEPT ![e].pc = "idle"]
    /\ UNCHANGED <<seq, alerts, due, gauge, tick, escalations, raced>>

IncGauge(e) ==
    /\ eval[e].pc = "stored"
    /\ gauge' = gauge + 1
    /\ eval' = [eval EXCEPT ![e].pc = "idle"]
    /\ UNCHANGED <<seq, alerts, due, tick, escalations, raced>>

-----------------------------------------------------------------------------
(* REST handlers: no guard on the alert's status, no update of the gauge *)

Acknowledge(id) ==
    /\ alerts[id] # Absent
    /\ alerts' = [alerts EXCEPT ![id].status = "acknowledged"]
    /\ UNCHANGED <<seq, due, gauge, eval, tick, escalations, raced>>

Resolve(id) ==
    /\ alerts[id] # Absent
    /\ alerts' = [alerts EXCEPT ![id].status = "resolved"]
    /\ UNCHANGED <<seq, due, gauge, eval, tick, escalations, raced>>

-----------------------------------------------------------------------------
(* Time and the lifecycle tick *)

\* A firing alert grows older than one of the limits its rule sets; how old another
\* is nobody asks.
PassLimit(id, l) ==
    /\ id \in Firing
    /\ \/ l = "resolve" /\ alerts[id].rule \in AutoResolving
       \/ l = "escalate" /\ alerts[id].rule \in Escalating
    /\ l \notin due[id]
    /\ due' = [due EXCEPT ![id] = @ \cup {l}]
    /\ UNCHANGED <<seq, alerts, gauge, eval, tick, escalations, raced>>

CopyOf(id) ==
    [id |-> id, rule |-> alerts[id].rule, escalated |-> alerts[id].escalated,
     due |-> due[id]]

\* Fault: the tick leaves alone what has escalated already.
StartTick_NotEscalated ==
    /\ tick.pc = "idle"
    /\ tick' = [pc |-> "walk", todo |-> {CopyOf(id) : id \in {i \in Firing : ~alerts[i].escalated}}]
    /\ UNCHANGED <<seq, alerts, due, gauge, eval, escalations, raced>>

\* Fault: the tick skips the rules that do not resolve by themselves.
StartTick_AutoResolving ==
    /\ tick.pc = "idle"
    /\ tick' = [pc |-> "walk",
                todo |-> {CopyOf(id) : id \in {i \in Firing : alerts[i].rule \in AutoResolving}}]
    /\ UNCHANGED <<seq, alerts, due, gauge, eval, escalations, raced>>

\* ListAlerts("firing"), and the time the tick judges ages by.
StartTick ==
    /\ tick.pc = "idle"
    /\ tick' = [pc |-> "walk", todo |-> {CopyOf(id) : id \in Firing}]
    /\ UNCHANGED <<seq, alerts, due, gauge, eval, escalations, raced>>

\* The copy is due for resolution.  ResolveAlert does not look at the status
\* the alert has by now.
TickResolve(c) ==
    /\ tick.pc = "walk" /\ c \in tick.todo
    /\ "resolve" \in c.due
    /\ alerts' = [alerts EXCEPT ![c.id].status = "resolved"]
    /\ tick' = [pc |-> "resolved", todo |-> tick.todo \ {c}]
    /\ UNCHANGED <<seq, due, gauge, eval, escalations, raced>>

TickDecGauge ==
    /\ tick.pc = "resolved"
    /\ gauge' = gauge - 1
    /\ tick' = [tick EXCEPT !.pc = "walk"]
    /\ UNCHANGED <<seq, alerts, due, eval, escalations, raced>>

\* Fault: whether the alert was escalated before is not asked.
NeedsEscalation_Again(c) == "escalate" \in c.due

NeedsEscalation(c) == "escalate" \in c.due /\ ~c.escalated

\* The copy is not due for resolution; the alert escalates if the copy says so
\* and it is still firing.
TickEscalate(c) ==
    /\ tick.pc = "walk" /\ c \in tick.todo
    /\ "resolve" \notin c.due
    /\ tick' = [tick EXCEPT !.todo = @ \ {c}]
    /\ IF NeedsEscalation(c) /\ alerts[c.id].status = "firing"
       THEN /\ alerts' = [alerts EXCEPT ![c.id].escalated = TRUE]
            /\ escalations' = [escalations EXCEPT ![c.id] = @ + 1]
       ELSE UNCHANGED <<alerts, escalations>>
    /\ UNCHANGED <<seq, due, gauge, eval, raced>>

EndTick ==
    /\ tick.pc = "walk" /\ tick.todo = {}
    /\ tick' = [tick EXCEPT !.pc = "idle"]
    /\ UNCHANGED <<seq, alerts, due, gauge, eval, escalations, raced>>

Tick ==
    \/ StartTick \/ TickDecGauge \/ EndTick
    \/ \E c \in tick.todo : TickResolve(c) \/ TickEscalate(c)

Next ==
    \/ \E e \in Evaluators :
          \/ \E matching \in SUBSET Rules \ {{}} : StartEvaluate(e, matching)
          \/ ReadSeq(e) \/ WriteSeq(e) \/ IncGauge(e)
          \/ \E rule \in Rules : AddAlert(e, rule)
    \/ \E id \in Ids : Acknowledge(id) \/ Resolve(id)
    \/ \E id \in Ids, l \in Limits : PassLimit(id, l)
    \/ Tick

Spec == Init /\ [][Next]_vars

\* The ticker's goroutine runs and time passes; nobody at the REST interface and
\* no evaluator owes anything.
LiveSpec ==
    /\ Spec
    /\ WF_vars(Tick)
    /\ \A id \in Ids, l \in Limits : WF_vars(PassLimit(id, l))

-----------------------------------------------------------------------------
(* Properties *)

Unincremented == {e \in Evaluators : eval[e].pc = "stored"}
Undecremented == IF tick.pc = "resolved" THEN 1 ELSE 0

\* The gauge may run high (REST never lowers it) but never low: with the updates
\* still in flight it counts every firing alert, also when the tick resolves an
\* alert somebody else has resolved, or two alerts share an id.
GaugeCoversFiring ==
    gauge + Cardinality(Unincremented) - Undecremented >= Cardinality(Firing)

\* The tick escalates no alert twice, though EscalateAlert itself would.
EscalatedOnce == \A id \in Ids : escalations[id] <= 1

\* Whoever stores an alert stores it where no other was.
StoresApart ==
    \A e \in Evaluators : eval[e].pc # "stored" /\ eval'[e].pc = "stored" =>
        \E id \in Ids : alerts[id] = Absent /\ alerts'[id] # Absent

\* No alert overwrites another but by the race on Manager.seq: until two evaluators have
\* overlapped between reading it and storing, every alert gets an id of its own, whatever
\* REST and the tick have done to those before.  (Once they have, also an evaluator that
\* runs alone may overwrite an alert: a late write has set the number back.)
LostOnlyByRace == [][~raced => StoresApart]_vars

\* An alert whose rule resolves by itself does not fire forever.
FiringEnds ==
    \A id \in Ids :
        (id \in Firing /\ alerts[id].rule \in AutoResolving)
            ~> ~(id \in Firing /\ alerts[id].rule \in AutoResolving)

\* An alert whose rule escalates is escalated in the end unless it stops firing: also when
\* the tick that walks it works on a copy from before its limit, and although the alert
\* that overwrites it starts again from young.
EscalationComes ==
    \A id \in Ids :
        (id \in Firing /\ alerts[id].rule \in Escalating)
            ~> ~(id \in Firing /\ alerts[id].rule \in Escalating /\ ~alerts[id].escalated)

-----------------------------------------------------------------------------
(* What the source says and the code does not do *)

\* "Number of currently firing alerts.": once every update has landed, the gauge
\* is that number.
GaugeIsFiring ==
    Unincremented = {} /\ Undecremented = 0 => gauge = Cardinality(Firing)

\* "alert IDs should be unique" (manager_test.go:162): no alert overwrites another.
NoAlertLost == [][StoresApart]_vars
=============================================================================
