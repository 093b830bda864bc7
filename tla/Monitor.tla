------------------------------- MODULE Monitor -------------------------------
(***************************************************************************)
(* The pipeline monitor (internal/monitor/monitor.go): its mode, the       *)
(* sessions observe mode builds from events, and the checkpoints gate mode *)
(* parks pipeline modules on.                                              *)
(*                                                                         *)
(* One critical section of Manager.mu is one action.  ObserveEvent has two *)
(* (it reads the mode, unlocks, and locks again to append) and             *)
(* WaitForDecision has two (it looks the channel up under the lock and     *)
(* receives from it outside), so each is two actions with the local state  *)
(* of the goroutine in between.  Timestamps, request data and notes that   *)
(* nothing branches on are left out, and so is the WebSocket broadcast.    *)
(***************************************************************************)
EXTENDS Integers, Sequences

CONSTANTS
    Traces,                 \* trace ids of requests
    SessionIds,             \* what newID returns for sessions
    NoSession,              \* an absent entry of the byTrace map
    EventKinds,             \* module and status of the events that arrive
    Observers,              \* goroutines in which the processor hook runs
    CheckpointIds,          \* what newID returns for checkpoints
    Callers,                \* pipeline modules that ask for a checkpoint
    Operators,              \* usernames of JWT claims
    Nobody,                 \* DecidedBy left empty
    InitialModes,           \* values of Config.Mode
    AutoApproveOnTimeout,   \* Config.AutoApproveOnTimeout
    SharedWaiters,          \* whether two goroutines may wait on one checkpoint
    MaxSteps                \* bound on the steps of one session

ASSUME NoSessionAssumption == NoSession \notin SessionIds
ASSUME EventKindsAssumption ==
    EventKinds \subseteq [module : {"vault", "llm"}, status : {"passed", "blocked"}]
ASSUME NobodyAssumption == Nobody \notin Operators
ASSUME AutoApproveAssumption == AutoApproveOnTimeout \in BOOLEAN
ASSUME SharedWaitersAssumption == SharedWaiters \in BOOLEAN
ASSUME MaxStepsAssumption == MaxSteps \in Nat
ASSUME InitialModesAssumption == InitialModes \subseteq {"off", "observe", "gate"}

VARIABLES
    mode,           \* Manager.mode
    sessions,       \* Manager.sessions, with the ids not yet used or deleted
    byTrace,        \* Manager.byTrace
    observer,       \* observer[o]: the event and the mode ObserveEvent holds
    checkpoints,    \* Manager.checkpoints, with the ids not yet used
    pendingCh,      \* the keys of Manager.pendingCh
    chan,           \* chan[id]: the buffer of the channel of checkpoint id
    timers,         \* checkpoints whose enforceTimeout goroutine still runs
    caller          \* caller[c]: how far pipeline module c has got

obsVars == <<sessions, byTrace, observer>>
gateVars == <<checkpoints, pendingCh, chan, timers, caller>>
vars == <<mode, obsVars, gateVars>>

Modes == {"off", "observe", "gate"}

\* What ObserveEvent reads of an event.  One module and one status of each
\* sort are enough: only "llm" and "blocked" are told apart.
Event == {[trace |-> t, module |-> k.module, status |-> k.status] :
             t \in Traces, k \in EventKinds}
Terminal(s) == s.module = "llm" \/ s.status = "blocked"

Step == [module : {"vault", "llm"}, status : {"passed", "blocked"}, noted : BOOLEAN]
StepOf(ev) == [module |-> ev.module, status |-> ev.status, noted |-> FALSE]

Unused == [status |-> "unused"]
Deleted == [status |-> "deleted"]
Session == [trace : Traces, mode : Modes, status : {"active", "completed"},
            steps : Seq(Step)]
Live(sid) == sessions[sid].status \in {"active", "completed"}

Verdicts == {"approved", "rejected", "timed_out"}
Checkpoint == [status : {"pending"} \cup Verdicts, by : Operators \cup {Nobody}]
Created(id) == checkpoints[id] # Unused

IdleObserver == [pc |-> "idle"]
IdleCaller == [pc |-> "idle"]
Outcomes == {"approved", "auto-approved", "rejected", "timed out", "not found"}

TypeOK ==
    /\ mode \in Modes
    /\ sessions \in [SessionIds -> Session \cup {Unused, Deleted}]
    /\ byTrace \in [Traces -> SessionIds \cup {NoSession}]
    /\ observer \in [Observers ->
            [pc : {"checked"}, ev : Event, mode : Modes] \cup {IdleObserver}]
    /\ checkpoints \in [CheckpointIds -> Checkpoint \cup {Unused}]
    /\ pendingCh \subseteq CheckpointIds
    /\ chan \in [CheckpointIds -> Seq(Verdicts)]
    /\ timers \subseteq CheckpointIds
    /\ caller \in [Callers ->
            [pc : {"created", "receiving"}, id : CheckpointIds]
            \cup [pc : {"done"}, id : CheckpointIds, told : Outcomes]
            \cup {IdleCaller}]

Init ==
    /\ mode \in InitialModes
    /\ sessions = [sid \in SessionIds |-> Unused]
    /\ byTrace = [t \in Traces |-> NoSession]
    /\ observer = [o \in Observers |-> IdleObserver]
    /\ checkpoints = [id \in CheckpointIds |-> Unused]
    /\ pendingCh = {}
    /\ chan = [id \in CheckpointIds |-> <<>>]
    /\ timers = {}
    /\ caller = [c \in Callers |-> IdleCaller]

-----------------------------------------------------------------------------
(* Mode control *)

\* Fault: the map is emptied and nobody is told.
SetMode_Silent(m) ==
    /\ mode' = m
    /\ pendingCh' = IF mode = "gate" /\ m # "gate" THEN {} ELSE pendingCh
    /\ UNCHANGED <<obsVars, checkpoints, chan, timers, caller>>

\* Leaving gate mode sends a rejection on every pending channel and empties
\* the map.  The checkpoints themselves are not touched.
SetMode(m) ==
    /\ mode' = m
    /\ IF mode = "gate" /\ m # "gate"
       THEN /\ chan' = [id \in CheckpointIds |->
                  IF id \in pendingCh THEN Append(chan[id], "rejected") ELSE chan[id]]
            /\ pendingCh' = {}
       ELSE UNCHANGED <<chan, pendingCh>>
    /\ UNCHANGED <<obsVars, checkpoints, timers, caller>>

-----------------------------------------------------------------------------
(* Observe mode: sessions *)

\* The first half of ObserveEvent.  In mode off it returns and changes nothing.
ObserveCheck(o, ev) ==
    /\ observer[o] = IdleObserver
    /\ mode # "off"
    /\ observer' = [observer EXCEPT ![o] = [pc |-> "checked", ev |-> ev, mode |-> mode]]
    /\ UNCHANGED <<mode, sessions, byTrace, gateVars>>

NewSession(ev, m) == [trace |-> ev.trace, mode |-> m, status |-> "active", steps |-> <<>>]

\* Fault: a late event reopens a completed session.
Extend_Reopen(s, ev) ==
    [s EXCEPT !.steps = Append(@, StepOf(ev)),
              !.status = IF Terminal(ev) THEN "completed" ELSE "active"]

Extend(s, ev) ==
    [s EXCEPT !.steps = Append(@, StepOf(ev)),
              !.status = IF Terminal(ev) THEN "completed" ELSE @]

\* The second half: the session of the trace is extended, or a new one is
\* opened under the mode read in the first half.
ObserveAppend(o) ==
    /\ observer[o] # IdleObserver
    /\ LET ev == observer[o].ev
           old == byTrace[ev.trace]
       IN  \/ /\ old # NoSession
              /\ Len(sessions[old].steps) < MaxSteps
              /\ sessions' = [sessions EXCEPT ![old] = Extend(@, ev)]
              /\ UNCHANGED byTrace
           \/ /\ old = NoSession
              /\ MaxSteps > 0
              /\ \E sid \in SessionIds :
                    /\ sessions[sid] = Unused
                    /\ sessions' = [sessions EXCEPT
                          ![sid] = Extend(NewSession(ev, observer[o].mode), ev)]
                    /\ byTrace' = [byTrace EXCEPT ![ev.trace] = sid]
    /\ observer' = [observer EXCEPT ![o] = IdleObserver]
    /\ UNCHANGED <<mode, gateVars>>

\* Fault: the trace index keeps the deleted session.
DeleteSession_KeepTrace(sid) ==
    /\ Live(sid)
    /\ sessions' = [sessions EXCEPT ![sid] = Deleted]
    /\ UNCHANGED <<mode, byTrace, observer, gateVars>>

DeleteSession(sid) ==
    /\ Live(sid)
    /\ byTrace' = [byTrace EXCEPT ![sessions[sid].trace] = NoSession]
    /\ sessions' = [sessions EXCEPT ![sid] = Deleted]
    /\ UNCHANGED <<mode, observer, gateVars>>

AnnotateStep(sid, i) ==
    /\ Live(sid)
    /\ i \in DOMAIN sessions[sid].steps
    /\ sessions' = [sessions EXCEPT ![sid].steps[i].noted = TRUE]
    /\ UNCHANGED <<mode, byTrace, observer, gateVars>>

-----------------------------------------------------------------------------
(* Gate mode: checkpoints *)

\* Returns nil outside gate mode.  The caller goes on to WaitForDecision.
CreateCheckpoint(c, id) ==
    /\ caller[c] = IdleCaller
    /\ mode = "gate"
    /\ ~Created(id)
    /\ checkpoints' = [checkpoints EXCEPT ![id] = [status |-> "pending", by |-> Nobody]]
    /\ pendingCh' = pendingCh \cup {id}
    /\ timers' = timers \cup {id}
    /\ caller' = [caller EXCEPT ![c] = [pc |-> "created", id |-> id]]
    /\ UNCHANGED <<mode, obsVars, chan>>

\* A second goroutine about to call WaitForDecision on a known checkpoint.
Join(c, id) ==
    /\ SharedWaiters
    /\ caller[c] = IdleCaller
    /\ Created(id)
    /\ caller' = [caller EXCEPT ![c] = [pc |-> "created", id |-> id]]
    /\ UNCHANGED <<mode, obsVars, checkpoints, pendingCh, chan, timers>>

\* WaitForDecision up to its RUnlock.
WaitLookup(c) ==
    /\ caller[c].pc = "created"
    /\ LET id == caller[c].id
       IN  caller' = [caller EXCEPT ![c] =
              IF id \in pendingCh
              THEN [pc |-> "receiving", id |-> id]
              ELSE [pc |-> "done", id |-> id, told |-> "not found"]]
    /\ UNCHANGED <<mode, obsVars, checkpoints, pendingCh, chan, timers>>

\* Faults: whatever is not a timeout goes through; a timeout always goes through.
OutcomeOf_DefaultApprove(v) ==
    IF v # "timed_out" THEN "approved"
    ELSE IF AutoApproveOnTimeout THEN "auto-approved" ELSE "timed out"
OutcomeOf_TimeoutApproves(v) ==
    CASE v = "approved" -> "approved"
      [] v = "timed_out" -> "auto-approved"
      [] v = "rejected" -> "rejected"

\* What WaitForDecision returns for a value received from the channel.
OutcomeOf(v) ==
    CASE v = "approved" -> "approved"
      [] v = "timed_out" -> IF AutoApproveOnTimeout THEN "auto-approved" ELSE "timed out"
      [] v = "rejected" -> "rejected"

\* WaitForDecision from its receive on.
WaitReceive(c) ==
    /\ caller[c].pc = "receiving"
    /\ LET id == caller[c].id
       IN  /\ chan[id] # <<>>
           /\ chan' = [chan EXCEPT ![id] = Tail(@)]
           /\ caller' = [caller EXCEPT ![c] =
                [pc |-> "done", id |-> id, told |-> OutcomeOf(Head(chan[id]))]]
    /\ UNCHANGED <<mode, obsVars, checkpoints, pendingCh, timers>>

\* Fault: the channel is not removed from the map after the send.
Deliver_KeepPending(id, v) ==
    /\ chan' = IF id \in pendingCh THEN [chan EXCEPT ![id] = Append(@, v)] ELSE chan
    /\ UNCHANGED pendingCh

\* The send and delete that Decide and enforceTimeout share.
Deliver(id, v) ==
    IF id \in pendingCh
    THEN /\ chan' = [chan EXCEPT ![id] = Append(@, v)]
         /\ pendingCh' = pendingCh \ {id}
    ELSE UNCHANGED <<chan, pendingCh>>

Decide(id, op, v) ==
    /\ Created(id) /\ checkpoints[id].status = "pending"
    /\ checkpoints' = [checkpoints EXCEPT ![id] = [status |-> v, by |-> op]]
    /\ Deliver(id, v)
    /\ UNCHANGED <<mode, obsVars, timers, caller>>

\* Fault: the timeout gives up once gate mode is left.
EnforceTimeout_GateOnly(id) ==
    /\ id \in timers
    /\ timers' = timers \ {id}
    /\ IF checkpoints[id].status = "pending" /\ mode = "gate"
       THEN /\ checkpoints' = [checkpoints EXCEPT ![id].status = "timed_out"]
            /\ Deliver(id, "timed_out")
       ELSE UNCHANGED <<checkpoints, pendingCh, chan>>
    /\ UNCHANGED <<mode, obsVars, caller>>

\* The goroutine started by CreateCheckpoint, from the end of its sleep.  The
\* section before the sleep only reads TimeoutAt, which is never written again.
EnforceTimeout(id) ==
    /\ id \in timers
    /\ timers' = timers \ {id}
    /\ IF checkpoints[id].status = "pending"
       THEN /\ checkpoints' = [checkpoints EXCEPT ![id].status = "timed_out"]
            /\ Deliver(id, "timed_out")
       ELSE UNCHANGED <<checkpoints, pendingCh, chan>>
    /\ UNCHANGED <<mode, obsVars, caller>>

-----------------------------------------------------------------------------
Next ==
    \/ \E m \in Modes : SetMode(m)
    \/ \E o \in Observers : (\E ev \in Event : ObserveCheck(o, ev)) \/ ObserveAppend(o)
    \/ \E sid \in SessionIds : DeleteSession(sid)
    \/ \E sid \in SessionIds, i \in 1..MaxSteps : AnnotateStep(sid, i)
    \/ \E c \in Callers, id \in CheckpointIds : CreateCheckpoint(c, id) \/ Join(c, id)
    \/ \E c \in Callers : WaitLookup(c) \/ WaitReceive(c)
    \/ \E id \in CheckpointIds, op \in Operators \cup {Nobody},
          v \in {"approved", "rejected"} : Decide(id, op, v)
    \/ \E id \in CheckpointIds : EnforceTimeout(id)

Spec == Init /\ [][Next]_vars

\* A goroutine that can run is run, and a sleep of CheckpointTimeoutSec ends.
\* Operators owe nothing: Decide and SetMode need never happen.
Fairness ==
    /\ \A c \in Callers : WF_vars(WaitLookup(c)) /\ WF_vars(WaitReceive(c))
    /\ \A id \in CheckpointIds : WF_vars(EnforceTimeout(id))

LiveSpec == Spec /\ Fairness

-----------------------------------------------------------------------------
(* Safety *)

\* Every send on a checkpoint's channel happens with Manager.mu held, so it
\* must find the one-slot buffer empty: a channel still in pendingCh has never
\* been sent on, and its checkpoint is undecided.
SendNeverBlocks ==
    \A id \in pendingCh :
        /\ Created(id) /\ checkpoints[id].status = "pending"
        /\ chan[id] = <<>>

\* Caller c received the value that was sent on the channel of checkpoint id.
Answered(c, id) ==
    caller[c].pc = "done" /\ caller[c].id = id /\ caller[c].told # "not found"

\* No decision is ever lost on its way: a goroutine blocked in WaitForDecision
\* has an answer in its channel, or a timeout goroutine that can still send one,
\* or another goroutine that waited on the same checkpoint took the answer.  One
\* that came too late to find the channel ("checkpoint not found") is told so only
\* of a checkpoint whose answer was sent, and is left there or was taken.
NoLostWakeup ==
    \A c \in Callers :
        LET id == caller[c].id
            sent == chan[id] # <<>> \/ \E d \in Callers : Answered(d, id)
        IN  /\ caller[c].pc = "receiving" => sent \/ id \in pendingCh \cap timers
            /\ caller[c].pc = "done" => sent

\* What an answer says of the checkpoint.  An approval is always on record; a
\* rejection may also come from a mode change and says nothing of the record.
AnswerOnRecord ==
    \A c \in Callers :
        caller[c].pc = "done" =>
            LET status == checkpoints[caller[c].id].status
            IN  /\ caller[c].told = "approved" => status = "approved"
                /\ caller[c].told \in {"auto-approved", "timed out"} => status = "timed_out"

\* The two maps of sessions are inverse to each other, whatever order events,
\* deletions and mode changes come in: no live session is unreachable by its
\* trace, and no trace leads to a deleted session or to another trace's.
SessionIndex ==
    /\ \A t \in Traces : byTrace[t] # NoSession =>
          Live(byTrace[t]) /\ sessions[byTrace[t]].trace = t
    /\ \A sid \in SessionIds : Live(sid) => byTrace[sessions[sid].trace] = sid

\* A decision is final: no later decision, timeout or mode change rewrites it
\* or the name of who took it.
DecisionFinal ==
    [][\A id \in CheckpointIds :
          Created(id) /\ checkpoints[id].status # "pending"
              => checkpoints'[id] = checkpoints[id]]_vars

\* A session only grows until it is deleted: its steps keep their places and
\* their annotations while events arrive, also after the one that completed it, and
\* a deleted session never returns.  A session may be opened after the mode went
\* off, but only under a mode that records, the one its event was taken in with.
SessionHistory ==
    [][\A sid \in SessionIds :
          /\ Live(sid) => sessions'[sid] = Deleted \/
                /\ Len(sessions'[sid].steps) >= Len(sessions[sid].steps)
                /\ sessions[sid].status = "completed" => sessions'[sid].status = "completed"
                /\ \A i \in DOMAIN sessions[sid].steps :
                      /\ StepOf(sessions'[sid].steps[i]) = StepOf(sessions[sid].steps[i])
                      /\ sessions[sid].steps[i].noted => sessions'[sid].steps[i].noted
          /\ sessions[sid] = Deleted => sessions'[sid] = Deleted
          /\ ~Live(sid) /\ Live(sid)' =>
                /\ sessions'[sid].mode # "off"
                /\ \E o \in Observers : observer[o] # IdleObserver
                      /\ observer[o].mode = sessions'[sid].mode
                      /\ observer[o].ev.trace = sessions'[sid].trace]_vars

-----------------------------------------------------------------------------
(* Liveness *)

\* Every checkpoint is decided, if only by its timeout.
EventuallyDecided ==
    \A id \in CheckpointIds :
        Created(id) ~> (Created(id) /\ checkpoints[id].status # "pending")

\* WaitForDecision returns to one at least of those who wait on a checkpoint.
SomeWaitReturns ==
    \A c \in Callers, id \in CheckpointIds :
        (caller[c].pc = "created" /\ caller[c].id = id) ~>
            \E d \in Callers : caller[d].pc = "done" /\ caller[d].id = id

\* WaitForDecision returns: "blocks the calling goroutine until the checkpoint is
\* decided or the configured timeout elapses".
EveryWaitReturns ==
    \A c \in Callers : caller[c].pc = "created" ~> caller[c].pc = "done"

-----------------------------------------------------------------------------
(* What the source says and the code does not do *)

\* "Switching from gate to off or observe rejects all pending checkpoints":
\* a module that was told "rejected" has a checkpoint recorded as rejected.
RejectionOnRecord ==
    \A c \in Callers :
        caller[c].pc = "done" /\ caller[c].told = "rejected"
            => checkpoints[caller[c].id].status = "rejected"

\* "Returns (true, "") on approval": a module whose checkpoint an operator
\* approved while it asked is told so.
ApprovalDelivered ==
    \A c \in Callers :
        caller[c].pc = "done" /\ checkpoints[caller[c].id].status = "approved"
            /\ mode = "gate"
            => caller[c].told = "approved"

\* Mode "off" monitors nothing: no session is opened while the mode is off.
OffRecordsNothing ==
    [][mode = "off" => \A sid \in SessionIds : ~Live(sid) => ~Live(sid)']_vars

-----------------------------------------------------------------------------
(* The checkpoints implement the abstract gate *)

Told(c) ==
    IF caller[c].pc = "done"
    THEN [told |-> IF caller[c].told \in {"approved", "auto-approved"}
                   THEN "proceed" ELSE "stop",
          id |-> caller[c].id]
    ELSE [told |-> "none"]

AbstractGate == INSTANCE Gate WITH
    verdict <- [id \in CheckpointIds |->
                  IF Created(id) THEN checkpoints[id].status ELSE "pending"],
    answer <- [c \in Callers |-> Told(c)]

GateSpec == AbstractGate!Spec
=============================================================================
