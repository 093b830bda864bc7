---------------------------- MODULE Monitor_proofs ----------------------------
(***************************************************************************)
(* Proofs about Monitor, for any traces, sessions, observers, checkpoints, *)
(* callers, operators and any setting of AutoApproveOnTimeout.             *)
(***************************************************************************)
EXTENDS Monitor, TLAPS

\* A delivery keeps the channel map and the buffers well typed.
LEMMA DeliverType ==
  ASSUME TypeOK, NEW id \in CheckpointIds, NEW v \in Verdicts, Deliver(id, v)
  PROVE  pendingCh' \subseteq CheckpointIds /\ chan' \in [CheckpointIds -> Seq(Verdicts)]
<1>1. CASE id \in pendingCh
  <2>1. chan[id] \in Seq(Verdicts)
    BY DEF TypeOK
  <2>2. Append(chan[id], v) \in Seq(Verdicts)
    BY <2>1
  <2> QED
    BY <1>1, <2>2 DEF Deliver, TypeOK
<1>2. CASE id \notin pendingCh
  BY <1>2 DEF Deliver, TypeOK
<1> QED
  BY <1>1, <1>2

\* A caller that is in WaitForDecision holds the id of a checkpoint.
LEMMA WaiterShape ==
  ASSUME TypeOK, NEW c \in Callers, caller[c] # IdleCaller
  PROVE  /\ caller[c].id \in CheckpointIds
         /\ caller[c].pc \in {"created", "receiving", "done"}
         /\ caller[c].pc = "done" => caller[c].told \in Outcomes
<1>1. CASE caller[c] \in [pc : {"created", "receiving"}, id : CheckpointIds]
  BY <1>1
<1>2. CASE caller[c] \in [pc : {"done"}, id : CheckpointIds, told : Outcomes]
  BY <1>2
<1> QED
  BY <1>1, <1>2 DEF TypeOK

\* An id that is in the session map leads to a session.
LEMMA SessionShape ==
  ASSUME TypeOK, NEW sid \in SessionIds, Live(sid)
  PROVE  sessions[sid] \in Session
BY DEF TypeOK, Live, Unused, Deleted

\* An event appended to a session leaves its trace alone and keeps it live.
LEMMA ExtendShape ==
  ASSUME NEW s \in Session, NEW ev, StepOf(ev) \in Step
  PROVE  /\ Extend(s, ev) \in Session
         /\ Extend(s, ev).trace = s.trace
         /\ Extend(s, ev).status \in {"active", "completed"}
<1>1. Append(s.steps, StepOf(ev)) \in Seq(Step)
  BY DEF Session
<1> QED
  BY <1>1 DEF Extend, Session

\* A step keeps the types.  That an event is appended to a session of the right
\* shape rests on the trace index.
LEMMA TypeStep == TypeOK /\ SessionIndex /\ [Next]_vars => TypeOK'
<1> USE DEF Modes, Verdicts, Created, Live, Unused, Deleted, IdleCaller, IdleObserver
<1> SUFFICES ASSUME TypeOK, SessionIndex, [Next]_vars PROVE TypeOK'
  OBVIOUS
<1>1. ASSUME NEW m \in Modes, SetMode(m) PROVE TypeOK'
  <2>1. \A id \in CheckpointIds : Append(chan[id], "rejected") \in Seq(Verdicts)
    BY DEF TypeOK
  <2>2. chan' \in [CheckpointIds -> Seq(Verdicts)] /\ pendingCh' \subseteq CheckpointIds
    BY <1>1, <2>1 DEF SetMode, TypeOK
  <2> QED
    BY <1>1, <2>2 DEF SetMode, TypeOK, obsVars
<1>2. ASSUME NEW o \in Observers, NEW ev \in Event, ObserveCheck(o, ev) PROVE TypeOK'
  BY <1>2 DEF ObserveCheck, TypeOK, gateVars
<1>3. ASSUME NEW o \in Observers, ObserveAppend(o) PROVE TypeOK'
  <2> DEFINE ev == observer[o].ev
             m == observer[o].mode
             old == byTrace[ev.trace]
  <2>1. ev \in Event /\ m \in Modes
    BY <1>3 DEF ObserveAppend, TypeOK
  <2>2. ev.trace \in Traces /\ StepOf(ev) \in Step
    BY <2>1, EventKindsAssumption DEF Event, StepOf, Step
  <2>3. ASSUME NEW s \in Session PROVE Extend(s, ev) \in Session
    BY <2>2, ExtendShape
  <2>4. NewSession(ev, m) \in Session
    BY <2>1, <2>2 DEF NewSession, Session
  <2>5. sessions' \in [SessionIds -> Session \cup {Unused, Deleted}]
    <3>1. CASE old # NoSession /\ sessions' = [sessions EXCEPT ![old] = Extend(@, ev)]
      <4>1. old \in SessionIds /\ Live(old)
        BY <3>1, <2>2 DEF TypeOK, SessionIndex
      <4>2. sessions[old] \in Session
        BY <4>1, SessionShape
      <4> QED
        BY <3>1, <4>1, <4>2, <2>3 DEF TypeOK
    <3>2. CASE \E sid \in SessionIds : sessions' = [sessions EXCEPT
                  ![sid] = Extend(NewSession(ev, m), ev)]
      BY <3>2, <2>3, <2>4 DEF TypeOK
    <3> QED
      BY <1>3, <3>1, <3>2 DEF ObserveAppend
  <2>6. byTrace' \in [Traces -> SessionIds \cup {NoSession}]
    BY <1>3, <2>2 DEF ObserveAppend, TypeOK
  <2> QED
    BY <1>3, <2>5, <2>6 DEF ObserveAppend, TypeOK, gateVars
<1>4. ASSUME NEW sid \in SessionIds, DeleteSession(sid) PROVE TypeOK'
  BY <1>4 DEF DeleteSession, TypeOK, gateVars
<1>5. ASSUME NEW sid \in SessionIds, NEW i \in 1..MaxSteps, AnnotateStep(sid, i)
      PROVE TypeOK'
  <2> DEFINE s == sessions[sid]
             noted == [s.steps[i] EXCEPT !.noted = TRUE]
  <2>1. s \in Session /\ i \in 1..Len(s.steps)
    BY <1>5 DEF AnnotateStep, TypeOK, Session
  <2>2. s.steps \in Seq(Step) /\ s.steps[i] \in Step
    BY <2>1 DEF Session
  <2>3. noted \in Step
    BY <2>2 DEF Step
  <2>4. [s.steps EXCEPT ![i] = noted] \in Seq(Step)
    BY <2>1, <2>2, <2>3
  <2>5. [s EXCEPT !.steps = [s.steps EXCEPT ![i] = noted]] \in Session
    BY <2>1, <2>4 DEF Session
  <2>6. sessions' = [sessions EXCEPT ![sid] =
                       [s EXCEPT !.steps = [s.steps EXCEPT ![i] = noted]]]
    BY <1>5 DEF AnnotateStep
  <2> QED
    BY <1>5, <2>5, <2>6 DEF AnnotateStep, TypeOK, gateVars
<1>6. ASSUME NEW c \in Callers, NEW id \in CheckpointIds,
             CreateCheckpoint(c, id) PROVE TypeOK'
  BY <1>6 DEF CreateCheckpoint, TypeOK, obsVars, Checkpoint
<1>7. ASSUME NEW c \in Callers, NEW id \in CheckpointIds, Join(c, id) PROVE TypeOK'
  BY <1>7 DEF Join, TypeOK, obsVars
<1>8. ASSUME NEW c \in Callers, WaitLookup(c) PROVE TypeOK'
  <2>0. caller[c].pc = "created"
    BY <1>8 DEF WaitLookup
  <2>1. caller[c] # IdleCaller
    BY <2>0
  <2>2. caller[c].id \in CheckpointIds
    BY <2>1, WaiterShape
  <2> QED
    BY <1>8, <2>2 DEF WaitLookup, TypeOK, obsVars, Outcomes
<1>9. ASSUME NEW c \in Callers, WaitReceive(c) PROVE TypeOK'
  <2> DEFINE id == caller[c].id
  <2>1. id \in CheckpointIds /\ chan[id] \in Seq(Verdicts) /\ chan[id] # <<>>
    BY <1>9, WaiterShape DEF WaitReceive, TypeOK
  <2>2. Head(chan[id]) \in Verdicts /\ Tail(chan[id]) \in Seq(Verdicts)
    BY <2>1
  <2>3. OutcomeOf(Head(chan[id])) \in Outcomes
    BY <2>2 DEF OutcomeOf, Outcomes
  <2>4. [pc |-> "done", id |-> id, told |-> OutcomeOf(Head(chan[id]))]
           \in [pc : {"done"}, id : CheckpointIds, told : Outcomes]
    BY <2>1, <2>3
  <2> HIDE DEF id
  <2> QED
    BY <1>9, <2>1, <2>2, <2>4 DEF WaitReceive, TypeOK, obsVars, id
<1>10. ASSUME NEW id \in CheckpointIds, NEW op \in Operators \cup {Nobody},
              NEW v \in {"approved", "rejected"}, Decide(id, op, v) PROVE TypeOK'
  <2>1. Deliver(id, v) /\ v \in Verdicts
    BY <1>10 DEF Decide
  <2> QED
    BY <1>10, <2>1, DeliverType DEF Decide, TypeOK, obsVars, Checkpoint
<1>11. ASSUME NEW id \in CheckpointIds, EnforceTimeout(id) PROVE TypeOK'
  <2>1. CASE checkpoints[id].status = "pending"
    <3>1. Deliver(id, "timed_out")
      BY <1>11, <2>1 DEF EnforceTimeout
    <3>2. [checkpoints[id] EXCEPT !.status = "timed_out"] \in Checkpoint
      <4>1. checkpoints[id] \in Checkpoint
        BY <2>1 DEF TypeOK
      <4> QED
        BY <4>1 DEF Checkpoint
    <3> QED
      BY <1>11, <2>1, <3>1, <3>2, DeliverType DEF EnforceTimeout, TypeOK, obsVars
  <2>2. CASE checkpoints[id].status # "pending"
    BY <1>11, <2>2 DEF EnforceTimeout, TypeOK, obsVars
  <2> QED
    BY <2>1, <2>2
<1>12. CASE UNCHANGED vars
  BY <1>12 DEF vars, obsVars, gateVars, TypeOK
<1> QED
  BY <1>1, <1>2, <1>3, <1>4, <1>5, <1>6, <1>7, <1>8, <1>9, <1>10, <1>11, <1>12 DEF Next

\* The initial states have their types, and an empty index.
LEMMA TypeInit == Init => TypeOK /\ SessionIndex
BY InitialModesAssumption DEF Init, TypeOK, SessionIndex, Live, Unused, IdleCaller,
   IdleObserver, Modes

\* A step keeps the two session maps inverse to each other.
LEMMA IndexStep == TypeOK /\ SessionIndex /\ [Next]_vars => SessionIndex'
<1> SUFFICES ASSUME TypeOK, SessionIndex, [Next]_vars PROVE SessionIndex'
  OBVIOUS
<1> USE DEF Live, Unused, Deleted
<1>1. ASSUME NEW o \in Observers, ObserveAppend(o) PROVE SessionIndex'
  <2> DEFINE ev == observer[o].ev
             old == byTrace[ev.trace]
  <2>1. ev.trace \in Traces /\ StepOf(ev) \in Step
    BY <1>1, EventKindsAssumption DEF ObserveAppend, TypeOK, Event, StepOf, Step
  <2>2. CASE old # NoSession /\ sessions' = [sessions EXCEPT ![old] = Extend(@, ev)]
             /\ UNCHANGED byTrace
    <3>1. old \in SessionIds /\ Live(old)
      BY <2>1, <2>2 DEF TypeOK, SessionIndex
    <3>2. sessions[old] \in Session
      BY <3>1, SessionShape
    <3>3. sessions'[old].trace = sessions[old].trace
          /\ sessions'[old].status \in {"active", "completed"}
      BY <2>1, <2>2, <3>1, <3>2, ExtendShape DEF TypeOK
    <3> HIDE DEF old, ev
    <3> QED
      BY <2>2, <3>1, <3>3 DEF TypeOK, SessionIndex
  <2>3. ASSUME NEW sid \in SessionIds, old = NoSession, sessions[sid] = Unused,
               sessions' = [sessions EXCEPT
                  ![sid] = Extend(NewSession(ev, observer[o].mode), ev)],
               byTrace' = [byTrace EXCEPT ![ev.trace] = sid]
        PROVE  SessionIndex'
    <3>1. sessions'[sid].trace = ev.trace
          /\ sessions'[sid].status \in {"active", "completed"}
      BY <2>3 DEF TypeOK, Extend, NewSession
    <3>2. \A t \in Traces : byTrace[t] # sid
      BY <2>3, NoSessionAssumption DEF SessionIndex
    <3>3. \A x \in SessionIds \ {sid} : sessions'[x] = sessions[x]
      BY <2>3 DEF TypeOK
    <3>4. \A t \in Traces : byTrace'[t] = IF t = ev.trace THEN sid ELSE byTrace[t]
      BY <2>3 DEF TypeOK
    <3> HIDE DEF ev
    <3>5. ASSUME NEW t \in Traces, byTrace'[t] # NoSession
          PROVE  /\ sessions'[byTrace'[t]].status \in {"active", "completed"}
                 /\ sessions'[byTrace'[t]].trace = t
      <4>1. CASE t = ev.trace
        BY <4>1, <3>1, <3>4
      <4>2. CASE t # ev.trace
        <5>1. byTrace'[t] = byTrace[t] /\ byTrace[t] \in SessionIds \ {sid}
          BY <4>2, <3>2, <3>4, <3>5 DEF TypeOK
        <5> QED
          BY <5>1, <3>3, <3>5 DEF SessionIndex
      <4> QED
        BY <4>1, <4>2
    <3>6. ASSUME NEW x \in SessionIds, sessions'[x].status \in {"active", "completed"}
          PROVE  byTrace'[sessions'[x].trace] = x
      <4>1. CASE x = sid
        BY <4>1, <2>1, <3>1, <3>4
      <4>2. CASE x # sid
        <5>1. Live(x) /\ sessions'[x] = sessions[x]
          BY <4>2, <3>3, <3>6
        <5>2. sessions[x].trace \in Traces
          BY <5>1, SessionShape DEF Session
        <5>3. byTrace[sessions[x].trace] = x
          BY <5>1 DEF SessionIndex
        <5>4. sessions[x].trace # ev.trace
          BY <5>3, <2>3, NoSessionAssumption DEF ev
        <5> QED
          BY <5>1, <5>2, <5>3, <5>4, <3>4
      <4> QED
        BY <4>1, <4>2
    <3> QED
      BY <3>5, <3>6 DEF SessionIndex
  <2> QED
    BY <1>1, <2>2, <2>3 DEF ObserveAppend
<1>2. ASSUME NEW sid \in SessionIds, DeleteSession(sid) PROVE SessionIndex'
  <2>1. sessions[sid] \in Session
    BY <1>2 DEF DeleteSession, TypeOK
  <2> QED
    BY <1>2, <2>1, NoSessionAssumption DEF DeleteSession, TypeOK, SessionIndex, Session
<1>3. ASSUME NEW sid \in SessionIds, NEW i \in 1..MaxSteps, AnnotateStep(sid, i)
      PROVE SessionIndex'
  BY <1>3 DEF AnnotateStep, TypeOK, SessionIndex, Session
<1>4. CASE UNCHANGED <<sessions, byTrace>>
  BY <1>4 DEF SessionIndex
<1> QED
  BY <1>1, <1>2, <1>3, <1>4, ZenonT(60) DEF Next, vars, obsVars, SetMode, ObserveCheck,
     CreateCheckpoint, Join, WaitLookup, WaitReceive, Decide, EnforceTimeout

\* Every state of the monitor has its type.
THEOREM TypeCorrect == Spec => []TypeOK
BY TypeInit, TypeStep, IndexStep, PTL DEF Spec

\* The session map and the trace index never disagree, for any interleaving of
\* ObserveEvent's two halves with deletions and mode changes.
THEOREM SessionIndexCorrect == Spec => []SessionIndex
BY TypeInit, TypeStep, IndexStep, PTL DEF Spec
-----------------------------------------------------------------------------
(* The gate.  Between a decision and the caller that hears of it lies a     *)
(* one-slot channel; ChannelOnRecord says what may be in it.                *)

Record(id, v) == Created(id) /\ checkpoints[id].status = v

\* A buffer is empty before the checkpoint exists and never holds two values,
\* and an approval or a timeout in it is the one on record.
ChannelOnRecord ==
    \A id \in CheckpointIds :
        chan[id] = <<>> \/
            \E v \in Verdicts :
                /\ chan[id] = <<v>>
                /\ Created(id)
                /\ v # "rejected" => Record(id, v)

CallerKnowsCheckpoint ==
    \A c \in Callers : caller[c] # IdleCaller => Created(caller[c].id)

PendingUnsent ==
    \A id \in pendingCh : Record(id, "pending") /\ chan[id] = <<>>

GateInv ==
    PendingUnsent /\ ChannelOnRecord /\ CallerKnowsCheckpoint /\ AnswerOnRecord

\* Deciding a pending checkpoint and delivering the verdict keeps the gate's
\* invariant: nobody has been told of an undecided checkpoint what only a
\* verdict could tell, and the channel still in the map is empty.
LEMMA DeliverGate ==
  ASSUME TypeOK, GateInv,
         NEW id \in CheckpointIds, NEW v \in Verdicts, NEW r \in Checkpoint,
         Record(id, "pending"), r.status = v,
         checkpoints' = [checkpoints EXCEPT ![id] = r],
         Deliver(id, v), caller' = caller
  PROVE  GateInv'
<1> USE DEF Created, Unused, Record
<1>1. checkpoints'[id] = r /\ \A x \in CheckpointIds \ {id} : checkpoints'[x] = checkpoints[x]
  BY DEF TypeOK
<1>2. r # Unused /\ r.status # "pending"
  BY DEF Checkpoint, Verdicts
<1>3. \A x \in CheckpointIds \ {id} : chan'[x] = chan[x]
  BY DEF Deliver, TypeOK
<1>4. pendingCh' = pendingCh \ {id}
  BY DEF Deliver
<1>5. PendingUnsent'
  BY <1>1, <1>3, <1>4 DEF GateInv, PendingUnsent, TypeOK
<1>6. chan'[id] = <<v>> \/ chan'[id] = chan[id]
  <2>1. CASE id \in pendingCh
    BY <2>1 DEF Deliver, TypeOK, GateInv, PendingUnsent
  <2>2. CASE id \notin pendingCh
    BY <2>2 DEF Deliver
  <2> QED
    BY <2>1, <2>2
<1>7. ChannelOnRecord'
  <2> SUFFICES ASSUME NEW x \in CheckpointIds, chan'[x] # <<>>
               PROVE  \E w \in Verdicts : chan'[x] = <<w>> /\ Created(x)'
                                          /\ (w # "rejected" => Record(x, w)')
    BY DEF ChannelOnRecord
  <2>1. CASE x # id
    BY <2>1, <1>1, <1>3 DEF GateInv, ChannelOnRecord
  <2>2. CASE x = id /\ chan'[id] = <<v>>
    BY <2>2, <1>1, <1>2
  <2>3. CASE x = id /\ chan'[id] = chan[id]
    <3>1. chan[id] = <<"rejected">>
      BY <2>3 DEF GateInv, ChannelOnRecord, Verdicts
    <3> QED
      BY <2>3, <3>1, <1>1, <1>2 DEF Verdicts
  <2> QED
    BY <2>1, <2>2, <2>3, <1>6
<1>8. CallerKnowsCheckpoint'
  <2> SUFFICES ASSUME NEW c \in Callers, caller[c] # IdleCaller
               PROVE  Created(caller[c].id)'
    BY DEF CallerKnowsCheckpoint
  <2>1. caller[c].id \in CheckpointIds /\ Created(caller[c].id)
    BY WaiterShape DEF GateInv, CallerKnowsCheckpoint
  <2> QED
    BY <2>1, <1>1, <1>2
<1>9. AnswerOnRecord'
  <2> SUFFICES ASSUME NEW c \in Callers, caller[c].pc = "done"
               PROVE  LET status == checkpoints'[caller[c].id].status
                      IN  /\ caller[c].told = "approved" => status = "approved"
                          /\ caller[c].told \in {"auto-approved", "timed out"}
                                => status = "timed_out"
    BY DEF AnswerOnRecord
  <2>1. caller[c] # IdleCaller
    BY DEF IdleCaller
  <2>2. caller[c].id \in CheckpointIds
    BY <2>1, WaiterShape
  <2>3. CASE caller[c].id = id
    BY <2>3, <1>1 DEF GateInv, AnswerOnRecord
  <2>4. CASE caller[c].id # id
    BY <2>2, <2>4, <1>1 DEF GateInv, AnswerOnRecord
  <2> QED
    BY <2>3, <2>4
<1> QED
  BY <1>5, <1>7, <1>8, <1>9 DEF GateInv

\* A caller that moves on, with the checkpoints left alone, keeps what is known
\* of the callers when its new state is as it should be.
LEMMA CallerMoves ==
  ASSUME GateInv, NEW c \in Callers, NEW r, r # IdleCaller,
         TypeOK,
         caller' = [caller EXCEPT ![c] = r],
         checkpoints' = checkpoints,
         Created(r.id),
         r.pc = "done" =>
            /\ r.told = "approved" => Record(r.id, "approved")
            /\ r.told \in {"auto-approved", "timed out"} => Record(r.id, "timed_out")
  PROVE  CallerKnowsCheckpoint' /\ AnswerOnRecord'
<1>1. \A d \in Callers : caller'[d] = IF d = c THEN r ELSE caller[d]
  BY DEF TypeOK
<1>2. CallerKnowsCheckpoint'
  BY <1>1 DEF GateInv, CallerKnowsCheckpoint, Created
<1>3. AnswerOnRecord'
  BY <1>1, ZenonT(60) DEF GateInv, AnswerOnRecord, Record
<1> QED
  BY <1>2, <1>3

\* Every step keeps the gate's invariant.
LEMMA GateStep == TypeOK /\ GateInv /\ [Next]_vars => GateInv'
<1> SUFFICES ASSUME TypeOK, GateInv, [Next]_vars PROVE GateInv'
  OBVIOUS
<1> USE DEF Created, Unused, Record
<1>1. ASSUME NEW m \in Modes, SetMode(m) PROVE GateInv'
  <2>1. CASE mode = "gate" /\ m # "gate"
    <3>1. /\ UNCHANGED <<checkpoints, caller>>
          /\ pendingCh' = {}
          /\ \A id \in CheckpointIds : chan'[id] =
                IF id \in pendingCh THEN Append(chan[id], "rejected") ELSE chan[id]
      BY <1>1, <2>1 DEF SetMode
    <3>2. \A id \in CheckpointIds : chan'[id] =
                IF id \in pendingCh THEN <<"rejected">> ELSE chan[id]
      <4>1. Append(<<>>, "rejected") = <<"rejected">>
        OBVIOUS
      <4> QED
        BY <3>1, <4>1 DEF GateInv, PendingUnsent
    <3>3. ChannelOnRecord'
      BY <3>1, <3>2 DEF GateInv, PendingUnsent, ChannelOnRecord, Verdicts
    <3> QED
      BY <3>1, <3>3 DEF GateInv, PendingUnsent, CallerKnowsCheckpoint, AnswerOnRecord
  <2>2. CASE ~(mode = "gate" /\ m # "gate")
    BY <1>1, <2>2, ZenonT(60) DEF SetMode, GateInv, PendingUnsent, ChannelOnRecord,
       CallerKnowsCheckpoint, AnswerOnRecord
  <2> QED
    BY <2>1, <2>2
<1>2. ASSUME NEW c \in Callers, NEW id \in CheckpointIds, CreateCheckpoint(c, id)
      PROVE  GateInv'
  <2>1. chan[id] = <<>> /\ chan' = chan /\ caller[c] = IdleCaller
    BY <1>2 DEF CreateCheckpoint, GateInv, ChannelOnRecord
  <2>2. \A x \in CheckpointIds : checkpoints'[x] =
           IF x = id THEN [status |-> "pending", by |-> Nobody] ELSE checkpoints[x]
    BY <1>2 DEF CreateCheckpoint, TypeOK
  <2>3. Created(id)' /\ checkpoints'[id].status = "pending"
    BY <2>2
  <2>4. PendingUnsent'
    BY <1>2, <2>1, <2>2, <2>3 DEF CreateCheckpoint, GateInv, PendingUnsent, TypeOK
  <2>5. ChannelOnRecord'
    BY <2>1, <2>2 DEF GateInv, ChannelOnRecord
  <2>6. \A d \in Callers : caller'[d] =
           IF d = c THEN [pc |-> "created", id |-> id] ELSE caller[d]
    BY <1>2 DEF CreateCheckpoint, TypeOK
  <2>7. \A d \in Callers : caller[d] # IdleCaller =>
           caller[d].id \in CheckpointIds \ {id}
    BY <1>2, WaiterShape DEF CreateCheckpoint, GateInv, CallerKnowsCheckpoint
  <2>8. CallerKnowsCheckpoint'
    BY <2>2, <2>3, <2>6, <2>7 DEF GateInv, CallerKnowsCheckpoint
  <2>9. AnswerOnRecord'
    <3> SUFFICES ASSUME NEW d \in Callers, caller'[d].pc = "done"
                 PROVE  caller'[d] = caller[d] /\
                        checkpoints'[caller[d].id] = checkpoints[caller[d].id]
      BY ZenonT(60) DEF GateInv, AnswerOnRecord
    <3>1. caller'[d] = caller[d] /\ caller[d] # IdleCaller
      BY <2>6 DEF IdleCaller
    <3> QED
      BY <3>1, <2>2, <2>7
  <2> QED
    BY <2>4, <2>5, <2>8, <2>9 DEF GateInv
<1>3. ASSUME NEW c \in Callers, NEW id \in CheckpointIds, Join(c, id) PROVE GateInv'
  <2> DEFINE r == [pc |-> "created", id |-> id]
  <2>1. r # IdleCaller /\ r.id = id /\ r.pc # "done"
    BY DEF IdleCaller
  <2> HIDE DEF r
  <2>2. Created(r.id) /\ caller' = [caller EXCEPT ![c] = r]
    BY <1>3, <2>1 DEF Join, r
  <2>3. UNCHANGED <<checkpoints, pendingCh, chan>>
    BY <1>3 DEF Join
  <2>4. CallerKnowsCheckpoint' /\ AnswerOnRecord'
    BY <2>1, <2>2, <2>3, CallerMoves
  <2> QED
    BY <2>3, <2>4 DEF GateInv, PendingUnsent, ChannelOnRecord
<1>4. ASSUME NEW c \in Callers, WaitLookup(c) PROVE GateInv'
  <2> DEFINE id == caller[c].id
             r == IF id \in pendingCh THEN [pc |-> "receiving", id |-> id]
                  ELSE [pc |-> "done", id |-> id, told |-> "not found"]
  <2>1. caller[c].pc = "created"
    BY <1>4 DEF WaitLookup
  <2>2. Created(id)
    BY <2>1 DEF IdleCaller, GateInv, CallerKnowsCheckpoint
  <2>3. /\ r # IdleCaller /\ r.id = id
        /\ r.pc = "done" => r.told = "not found"
    BY DEF IdleCaller
  <2>4. caller' = [caller EXCEPT ![c] = r]
    BY <1>4 DEF WaitLookup
  <2>5. UNCHANGED <<checkpoints, pendingCh, chan>>
    BY <1>4 DEF WaitLookup
  <2> HIDE DEF r
  <2>6. CallerKnowsCheckpoint' /\ AnswerOnRecord'
    BY <2>2, <2>3, <2>4, <2>5, CallerMoves
  <2> QED
    BY <2>5, <2>6 DEF GateInv, PendingUnsent, ChannelOnRecord
<1>5. ASSUME NEW c \in Callers, WaitReceive(c) PROVE GateInv'
  <2> DEFINE id == caller[c].id
             r == [pc |-> "done", id |-> id, told |-> OutcomeOf(Head(chan[id]))]
  <2>1. caller[c].pc = "receiving" /\ chan[id] # <<>>
    BY <1>5 DEF WaitReceive
  <2>2. Created(id) /\ id \in CheckpointIds
    BY <2>1, WaiterShape DEF IdleCaller, GateInv, CallerKnowsCheckpoint
  <2>3. PICK v \in Verdicts : chan[id] = <<v>> /\ (v # "rejected" => Record(id, v))
    BY <2>1, <2>2 DEF GateInv, ChannelOnRecord
  <2>4. Head(chan[id]) = v /\ Tail(chan[id]) = <<>>
    BY <2>3
  <2>5. /\ r # IdleCaller /\ r.id = id
        /\ r.told = "approved" => v = "approved"
        /\ r.told \in {"auto-approved", "timed out"} => v = "timed_out"
    BY <2>3, <2>4 DEF IdleCaller, OutcomeOf, Verdicts
  <2>6. caller' = [caller EXCEPT ![c] = r]
    BY <1>5 DEF WaitReceive
  <2>7. UNCHANGED <<checkpoints, pendingCh>>
        /\ \A x \in CheckpointIds : chan'[x] = IF x = id THEN <<>> ELSE chan[x]
    BY <1>5, <2>4 DEF WaitReceive, TypeOK
  <2>8. CallerKnowsCheckpoint' /\ AnswerOnRecord'
    <3> HIDE DEF r
    <3> QED
      BY <2>2, <2>3, <2>5, <2>6, <2>7, CallerMoves
  <2>9. PendingUnsent' /\ ChannelOnRecord'
    BY <2>7 DEF GateInv, PendingUnsent, ChannelOnRecord, TypeOK
  <2> QED
    BY <2>8, <2>9 DEF GateInv
<1>6. ASSUME NEW id \in CheckpointIds, NEW op \in Operators \cup {Nobody},
             NEW v \in {"approved", "rejected"}, Decide(id, op, v) PROVE GateInv'
  <2>1. [status |-> v, by |-> op] \in Checkpoint /\ v \in Verdicts
    BY DEF Checkpoint, Verdicts
  <2> QED
    BY <1>6, <2>1, DeliverGate DEF Decide
<1>7. ASSUME NEW id \in CheckpointIds, EnforceTimeout(id) PROVE GateInv'
  <2>1. CASE checkpoints[id].status = "pending"
    <3> DEFINE r == [checkpoints[id] EXCEPT !.status = "timed_out"]
    <3>1. checkpoints[id] \in Checkpoint
      BY <2>1 DEF TypeOK
    <3>2. r \in Checkpoint /\ r.status = "timed_out" /\ "timed_out" \in Verdicts
      BY <3>1 DEF Checkpoint, Verdicts
    <3>3. Record(id, "pending")
      BY <2>1
    <3>4. checkpoints' = [checkpoints EXCEPT ![id] = r]
      BY <1>7, <2>1 DEF EnforceTimeout
    <3> HIDE DEF r
    <3> QED
      BY <1>7, <2>1, <3>2, <3>3, <3>4, DeliverGate DEF EnforceTimeout
  <2>2. CASE checkpoints[id].status # "pending"
    BY <1>7, <2>2, ZenonT(60) DEF EnforceTimeout, GateInv, PendingUnsent, ChannelOnRecord,
       CallerKnowsCheckpoint, AnswerOnRecord
  <2> QED
    BY <2>1, <2>2
<1>8. CASE UNCHANGED gateVars
  BY <1>8 DEF gateVars, GateInv, PendingUnsent, ChannelOnRecord,
     CallerKnowsCheckpoint, AnswerOnRecord
<1> QED
  BY <1>1, <1>2, <1>3, <1>4, <1>5, <1>6, <1>7, <1>8 DEF Next, vars, ObserveCheck,
     ObserveAppend, DeleteSession, AnnotateStep

\* Together the parts are inductive.
MonitorInv == TypeOK /\ SessionIndex /\ GateInv

LEMMA MonitorInvCorrect == Spec => []MonitorInv
<1>1. Init => GateInv
  <2>1. Init => \A c \in Callers : caller[c] = IdleCaller /\ caller[c].pc # "done"
    BY DEF Init, IdleCaller
  <2> QED
    BY <2>1 DEF Init, GateInv, PendingUnsent, ChannelOnRecord, CallerKnowsCheckpoint,
       AnswerOnRecord
<1> QED
  BY <1>1, TypeInit, TypeStep, IndexStep, GateStep, PTL DEF Spec, MonitorInv

\* A send made with Manager.mu held never blocks, for any number of checkpoints,
\* callers and operators: SetMode, Decide and enforceTimeout cannot deadlock the
\* monitor on a full channel.
THEOREM SendNeverBlocksCorrect == Spec => []SendNeverBlocks
<1>1. MonitorInv => SendNeverBlocks
  BY DEF MonitorInv, GateInv, PendingUnsent, SendNeverBlocks, Record
<1> QED
  BY <1>1, MonitorInvCorrect, PTL

\* What WaitForDecision answered agrees with the checkpoint on record.
THEOREM AnswerOnRecordCorrect == Spec => []AnswerOnRecord
<1>1. MonitorInv => AnswerOnRecord
  BY DEF MonitorInv, GateInv
<1> QED
  BY <1>1, MonitorInvCorrect, PTL

\* Decide, enforceTimeout and SetMode never rewrite a decision.
THEOREM DecisionFinalCorrect == Spec => DecisionFinal
<1> DEFINE Final == \A id \in CheckpointIds :
                      Created(id) /\ checkpoints[id].status # "pending"
                        => checkpoints'[id] = checkpoints[id]
<1>1. MonitorInv /\ [Next]_vars => [Final]_vars
  <2> SUFFICES ASSUME MonitorInv, Next PROVE Final
    OBVIOUS
  <2>1. CASE checkpoints' = checkpoints
    BY <2>1
  <2>2. ASSUME NEW c \in Callers, NEW id \in CheckpointIds, CreateCheckpoint(c, id)
        PROVE Final
    BY <2>2 DEF CreateCheckpoint, Created, MonitorInv, TypeOK
  <2>3. ASSUME NEW id \in CheckpointIds, NEW op, NEW v, Decide(id, op, v) PROVE Final
    BY <2>3 DEF Decide, MonitorInv, TypeOK
  <2>4. ASSUME NEW id \in CheckpointIds, EnforceTimeout(id) PROVE Final
    BY <2>4 DEF EnforceTimeout, MonitorInv, TypeOK
  <2> QED
    BY <2>1, <2>2, <2>3, <2>4 DEF Next, SetMode, ObserveCheck, ObserveAppend,
       DeleteSession, AnnotateStep, Join, WaitLookup, WaitReceive, gateVars
<1> QED
  BY <1>1, MonitorInvCorrect, PTL DEF Spec, DecisionFinal

-----------------------------------------------------------------------------
(* Answers on their way.  A created checkpoint has had its answer sent, or its *)
(* channel is still in the map and its timeout goroutine still runs.           *)

Sent(id) == chan[id] # <<>> \/ \E d \in Callers : Answered(d, id)

AnswerComes ==
    \A id \in CheckpointIds : Created(id) => Sent(id) \/ (id \in pendingCh /\ id \in timers)

\* Who found no channel under an id never will: ids are not used twice.
LateIsGone ==
    \A c \in Callers : caller[c].pc = "done" /\ caller[c].told = "not found" => caller[c].id \notin pendingCh

\* A caller that has no answer yet takes none with it when it moves on.
LEMMA SentKept ==
  ASSUME NEW id \in CheckpointIds, Sent(id), chan'[id] = chan[id],
         NEW c \in Callers, caller[c].pc # "done", \A d \in Callers \ {c} : caller'[d] = caller[d]
  PROVE  Sent(id)'
BY DEF Sent, Answered

\* So does a step of an operator, a timeout or a mode change, none of which moves a caller.
LEMMA SentStays ==
  ASSUME NEW id \in CheckpointIds, Sent(id), chan'[id] = chan[id] \/ chan'[id] # <<>>, caller' = caller
  PROVE  Sent(id)'
BY DEF Sent, Answered

\* A channel that was sent on is not empty.
LEMMA AppendNotEmpty ==
  ASSUME NEW q \in Seq(Verdicts), NEW v \in Verdicts
  PROVE  Append(q, v) # <<>>
<1>1. Len(Append(q, v)) = Len(q) + 1 /\ Len(q) \in Nat /\ Len(<<>>) = 0
  OBVIOUS
<1>2. Len(Append(q, v)) # Len(<<>>)
  BY <1>1
<1> QED
  BY <1>2

\* A delivery answers the checkpoint whose channel it finds, and touches no other.
LEMMA DeliverSends ==
  ASSUME TypeOK, NEW id \in CheckpointIds, NEW v \in Verdicts, Deliver(id, v)
  PROVE  /\ pendingCh' = pendingCh \ {id}
         /\ id \in pendingCh => chan'[id] # <<>>
         /\ id \notin pendingCh => chan'[id] = chan[id]
         /\ \A x \in CheckpointIds \ {id} : chan'[x] = chan[x]
<1>1. chan \in [CheckpointIds -> Seq(Verdicts)]
  BY DEF TypeOK
<1>2. Append(chan[id], v) # <<>>
  BY <1>1, AppendNotEmpty, SMTT(60)
<1> QED
  BY <1>1, <1>2 DEF Deliver

LEMMA WakeStep == TypeOK /\ GateInv /\ AnswerComes /\ LateIsGone /\ [Next]_vars => AnswerComes' /\ LateIsGone'
<1> SUFFICES ASSUME TypeOK, GateInv, AnswerComes, LateIsGone, [Next]_vars PROVE AnswerComes' /\ LateIsGone'
  OBVIOUS
<1>0. /\ caller \in [Callers -> [pc : {"created", "receiving"}, id : CheckpointIds]
                               \cup [pc : {"done"}, id : CheckpointIds, told : Outcomes] \cup {IdleCaller}]
      /\ checkpoints \in [CheckpointIds -> Checkpoint \cup {Unused}] /\ chan \in [CheckpointIds -> Seq(Verdicts)]
  BY DEF TypeOK
<1>1. ASSUME NEW m \in Modes, SetMode(m) PROVE AnswerComes' /\ LateIsGone'
  <2>1. UNCHANGED <<checkpoints, timers, caller>> /\ pendingCh' \subseteq pendingCh
    BY <1>1 DEF SetMode
  <2>2. ASSUME NEW id \in CheckpointIds
        PROVE  /\ chan'[id] = chan[id] \/ chan'[id] # <<>>
               /\ id \in pendingCh => id \in pendingCh' \/ chan'[id] # <<>>
    <3>1. Append(chan[id], "rejected") # <<>>
      BY <1>0, AppendNotEmpty DEF Verdicts
    <3> QED
      BY <1>1, <3>1 DEF SetMode
  <2>3. LateIsGone'
    BY <2>1 DEF LateIsGone
  <2>4. ASSUME NEW id \in CheckpointIds, Created(id)' PROVE (Sent(id) \/ (id \in pendingCh /\ id \in timers))'
    <3>1. Created(id)
      BY <2>1, <2>4 DEF Created
    <3>2. CASE Sent(id)
      BY <2>1, <2>2, <3>2, SentStays
    <3>3. CASE id \in pendingCh /\ id \in timers
      BY <2>1, <2>2, <3>3 DEF Sent
    <3> QED
      BY <3>1, <3>2, <3>3 DEF AnswerComes
  <2> QED
    BY <2>3, <2>4 DEF AnswerComes
<1>2. ASSUME NEW c \in Callers, NEW id \in CheckpointIds, CreateCheckpoint(c, id) PROVE AnswerComes' /\ LateIsGone'
  <2>1. /\ caller[c] = IdleCaller /\ ~Created(id) /\ chan' = chan /\ pendingCh' = pendingCh \cup {id}
        /\ timers' = timers \cup {id}
    BY <1>2 DEF CreateCheckpoint
  <2>2. caller'[c].pc = "created" /\ \A d \in Callers \ {c} : caller'[d] = caller[d]
    BY <1>0, <1>2 DEF CreateCheckpoint
  <2>3. \A x \in CheckpointIds : Created(x)' => Created(x) \/ x = id
    BY <1>0, <1>2 DEF CreateCheckpoint, Created
  <2>4. caller[c].pc # "done"
    BY <2>1 DEF IdleCaller
  <2>5. \A d \in Callers : caller[d].pc = "done" => caller[d].id # id
    BY <2>1 DEF GateInv, CallerKnowsCheckpoint, IdleCaller
  <2>6. LateIsGone'
    BY <2>1, <2>2, <2>5 DEF LateIsGone
  <2>7. AnswerComes'
    BY <2>1, <2>2, <2>3, <2>4, SentKept DEF AnswerComes
  <2> QED
    BY <2>6, <2>7
<1>3. ASSUME NEW c \in Callers, NEW id \in CheckpointIds, Join(c, id) PROVE AnswerComes' /\ LateIsGone'
  <2>1. caller[c] = IdleCaller /\ UNCHANGED <<checkpoints, pendingCh, chan, timers>>
    BY <1>3 DEF Join
  <2>2. caller'[c].pc = "created" /\ \A d \in Callers \ {c} : caller'[d] = caller[d]
    BY <1>0, <1>3 DEF Join
  <2>3. caller[c].pc # "done"
    BY <2>1 DEF IdleCaller
  <2>4. LateIsGone'
    BY <2>1, <2>2 DEF LateIsGone
  <2>5. AnswerComes'
    BY <2>1, <2>2, <2>3, SentKept DEF AnswerComes, Created
  <2> QED
    BY <2>4, <2>5
<1>4. ASSUME NEW c \in Callers, WaitLookup(c) PROVE AnswerComes' /\ LateIsGone'
  <2>1. caller[c].pc = "created" /\ UNCHANGED <<checkpoints, pendingCh, chan, timers>>
    BY <1>4 DEF WaitLookup
  <2>2. /\ \A d \in Callers \ {c} : caller'[d] = caller[d]
        /\ \/ caller'[c].pc = "receiving"
           \/ caller'[c].pc = "done" /\ caller'[c].id \notin pendingCh
    BY <1>0, <1>4 DEF WaitLookup
  <2>3. LateIsGone'
    BY <2>1, <2>2 DEF LateIsGone
  <2>4. AnswerComes'
    BY <2>1, <2>2, SentKept DEF AnswerComes, Created
  <2> QED
    BY <2>3, <2>4
<1>5. ASSUME NEW c \in Callers, WaitReceive(c) PROVE AnswerComes' /\ LateIsGone'
  <2>1. caller[c].pc = "receiving" /\ UNCHANGED <<checkpoints, pendingCh, timers>>
    BY <1>5 DEF WaitReceive
  <2>2. PICK id \in CheckpointIds : caller[c].id = id
    BY <2>1, WaiterShape DEF IdleCaller
  <2>3. chan[id] # <<>> /\ chan' = [chan EXCEPT ![id] = Tail(chan[id])] /\ Head(chan[id]) \in Verdicts
    BY <1>0, <1>5, <2>2 DEF WaitReceive
  <2>4. PICK told : told = OutcomeOf(Head(chan[id])) /\ told # "not found"
    <3>1. OutcomeOf(Head(chan[id])) # "not found"
      BY <2>3 DEF OutcomeOf, Verdicts
    <3> QED
      BY <3>1
  <2>5. caller' = [caller EXCEPT ![c] = [pc |-> "done", id |-> id, told |-> told]]
    BY <1>5, <2>2, <2>4 DEF WaitReceive
  <2>6. /\ \A d \in Callers \ {c} : caller'[d] = caller[d]
        /\ caller'[c].pc = "done" /\ caller'[c].id = id /\ caller'[c].told = told
    BY <1>0, <2>5
  <2>7. Sent(id)'
    BY <2>4, <2>6 DEF Sent, Answered
  <2>8. \A x \in CheckpointIds \ {id} : chan'[x] = chan[x]
    BY <1>0, <2>3
  <2>9. LateIsGone'
    BY <2>1, <2>4, <2>6 DEF LateIsGone
  <2>10. AnswerComes'
    <3> SUFFICES ASSUME NEW x \in CheckpointIds, Created(x)'
                 PROVE  (Sent(x) \/ (x \in pendingCh /\ x \in timers))'
      BY DEF AnswerComes
    <3>1. CASE x = id
      BY <2>7, <3>1
    <3>2. CASE x # id /\ Sent(x)
      BY <2>1, <2>6, <2>8, <3>2, SentKept
    <3>3. CASE ~Sent(x)
      BY <2>1, <3>3 DEF AnswerComes, Created
    <3> QED
      BY <3>1, <3>2, <3>3
  <2> QED
    BY <2>9, <2>10
<1>6. ASSUME NEW id \in CheckpointIds, NEW v \in Verdicts, Deliver(id, v), caller' = caller,
             timers' \in {timers, timers \ {id}}, \A x \in CheckpointIds : Created(x)' => Created(x)
      PROVE  AnswerComes' /\ LateIsGone'
  <2>1. /\ pendingCh' = pendingCh \ {id}
        /\ id \in pendingCh => chan'[id] # <<>>
        /\ id \notin pendingCh => chan'[id] = chan[id]
        /\ \A x \in CheckpointIds \ {id} : chan'[x] = chan[x]
    BY <1>6, DeliverSends
  <2>2. LateIsGone'
    BY <1>6, <2>1 DEF LateIsGone
  <2>3. ASSUME NEW x \in CheckpointIds, Created(x)' PROVE (Sent(x) \/ (x \in pendingCh /\ x \in timers))'
    <3>1. Created(x)
      BY <1>6, <2>3
    <3>2. CASE Sent(x)
      BY <1>6, <2>1, <3>2, SentStays
    <3>3. CASE x \in pendingCh /\ x \in timers
      BY <1>6, <2>1, <3>3 DEF Sent
    <3> QED
      BY <3>1, <3>2, <3>3 DEF AnswerComes
  <2> QED
    BY <2>2, <2>3 DEF AnswerComes
<1>7. ASSUME NEW id \in CheckpointIds, NEW op, NEW v \in {"approved", "rejected"}, Decide(id, op, v)
      PROVE  AnswerComes' /\ LateIsGone'
  <2>1. \A x \in CheckpointIds : Created(x)' => Created(x)
    BY <1>0, <1>7 DEF Decide, Created
  <2>2. v \in Verdicts /\ Deliver(id, v) /\ caller' = caller /\ timers' = timers
    BY <1>7 DEF Decide, Verdicts
  <2> QED
    BY <1>6, <2>1, <2>2
<1>8. ASSUME NEW id \in CheckpointIds, EnforceTimeout(id) PROVE AnswerComes' /\ LateIsGone'
  <2>1. caller' = caller /\ timers' = timers \ {id}
    BY <1>8 DEF EnforceTimeout
  <2>2. CASE checkpoints[id].status = "pending"
    <3>1. Deliver(id, "timed_out") /\ "timed_out" \in Verdicts
      BY <1>8, <2>2 DEF EnforceTimeout, Verdicts
    <3>2. \A x \in CheckpointIds : Created(x)' => Created(x)
      BY <1>0, <1>8, <2>2 DEF EnforceTimeout, Created, Unused
    <3> QED
      BY <1>6, <2>1, <3>1, <3>2
  <2>3. CASE checkpoints[id].status # "pending"
    <3>1. UNCHANGED <<checkpoints, pendingCh, chan>>
      BY <1>8, <2>3 DEF EnforceTimeout
    <3>2. id \notin pendingCh
      BY <2>3 DEF GateInv, PendingUnsent, Record
    <3>3. \A x \in CheckpointIds : Sent(x)' <=> Sent(x)
      BY <2>1, <3>1 DEF Sent, Answered
    <3> QED
      BY <2>1, <3>1, <3>2, <3>3 DEF AnswerComes, LateIsGone, Created
  <2> QED
    BY <2>2, <2>3
<1>9. CASE UNCHANGED gateVars
  <2>1. \A x \in CheckpointIds : Sent(x)' <=> Sent(x)
    BY <1>9 DEF Sent, Answered, gateVars
  <2> QED
    BY <1>9, <2>1 DEF gateVars, AnswerComes, LateIsGone, Created
<1> QED
  BY <1>1, <1>2, <1>3, <1>4, <1>5, <1>7, <1>8, <1>9
  DEF Next, vars, ObserveCheck, ObserveAppend, DeleteSession, AnnotateStep

\* No decision is lost between Decide, enforceTimeout or SetMode and the goroutines
\* parked in WaitForDecision, for any number of each: whoever still waits has an answer
\* in the channel or on its way, or shares the checkpoint with one who took it.
THEOREM NoLostWakeupCorrect == Spec => []NoLostWakeup
<1>1. Init => AnswerComes /\ LateIsGone
  BY DEF Init, AnswerComes, LateIsGone, Created, IdleCaller
<1>2. MonitorInv /\ AnswerComes /\ LateIsGone /\ [Next]_vars => AnswerComes' /\ LateIsGone'
  BY WakeStep DEF MonitorInv
<1>3. MonitorInv /\ AnswerComes /\ LateIsGone => NoLostWakeup
  <2> SUFFICES ASSUME MonitorInv, AnswerComes, LateIsGone, NEW c \in Callers
               PROVE  /\ caller[c].pc = "receiving" =>
                            Sent(caller[c].id) \/ caller[c].id \in pendingCh \cap timers
                      /\ caller[c].pc = "done" => Sent(caller[c].id)
    BY DEF NoLostWakeup, Sent
  <2>1. CASE caller[c] = IdleCaller
    BY <2>1 DEF IdleCaller
  <2>2. CASE caller[c] # IdleCaller
    <3>1. caller[c].id \in CheckpointIds /\ Created(caller[c].id)
      BY <2>2, WaiterShape DEF MonitorInv, GateInv, CallerKnowsCheckpoint
    <3>2. Sent(caller[c].id) \/ (caller[c].id \in pendingCh /\ caller[c].id \in timers)
      BY <3>1 DEF AnswerComes
    <3>3. caller[c].pc = "done" => Sent(caller[c].id) \/ caller[c].id \notin pendingCh
      BY DEF Sent, Answered, LateIsGone
    <3> QED
      BY <3>2, <3>3
  <2> QED
    BY <2>1, <2>2
<1> QED
  BY <1>1, <1>2, <1>3, MonitorInvCorrect, PTL DEF Spec

-----------------------------------------------------------------------------
(* The history of a session *)

\* What a step may do to one session.
Grows(sid) ==
    /\ Len(sessions'[sid].steps) >= Len(sessions[sid].steps)
    /\ sessions[sid].status = "completed" => sessions'[sid].status = "completed"
    /\ \A i \in DOMAIN sessions[sid].steps :
          /\ StepOf(sessions'[sid].steps[i]) = StepOf(sessions[sid].steps[i])
          /\ sessions[sid].steps[i].noted => sessions'[sid].steps[i].noted

Opened(sid) ==
    /\ sessions'[sid].mode # "off"
    /\ \E o \in Observers : observer[o] # IdleObserver
          /\ observer[o].mode = sessions'[sid].mode
          /\ observer[o].ev.trace = sessions'[sid].trace

HistoryOf(sid) ==
    /\ Live(sid) => sessions'[sid] = Deleted \/ Grows(sid)
    /\ sessions[sid] = Deleted => sessions'[sid] = Deleted
    /\ ~Live(sid) /\ Live(sid)' => Opened(sid)

\* The mode an observer holds was read when it was not off.
ObserverMode == \A o \in Observers : observer[o] # IdleObserver => observer[o].mode # "off"

LEMMA ObserverStep == TypeOK /\ ObserverMode /\ [Next]_vars => ObserverMode'
<1> SUFFICES ASSUME TypeOK, ObserverMode, [Next]_vars PROVE ObserverMode'
  OBVIOUS
<1>1. ASSUME NEW o \in Observers, NEW ev \in Event, ObserveCheck(o, ev) PROVE ObserverMode'
  BY <1>1 DEF ObserveCheck, ObserverMode, TypeOK
<1>2. ASSUME NEW o \in Observers, ObserveAppend(o) PROVE ObserverMode'
  BY <1>2 DEF ObserveAppend, ObserverMode, TypeOK
<1>3. CASE observer' = observer
  BY <1>3 DEF ObserverMode
<1> QED
  BY <1>1, <1>2, <1>3 DEF Next, vars, obsVars, SetMode, DeleteSession, AnnotateStep, CreateCheckpoint, Join,
     WaitLookup, WaitReceive, Decide, EnforceTimeout

\* Another event leaves the steps of a session in their places.
LEMMA ExtendGrows ==
  ASSUME NEW s \in Session, NEW ev, StepOf(ev) \in Step
  PROVE  LET e == Extend(s, ev)
         IN  /\ Len(e.steps) >= Len(s.steps)
             /\ s.status = "completed" => e.status = "completed"
             /\ \A i \in DOMAIN s.steps : e.steps[i] = s.steps[i]
<1>1. s.steps \in Seq(Step) /\ Extend(s, ev).steps = Append(s.steps, StepOf(ev))
      /\ Extend(s, ev).status = IF Terminal(ev) THEN "completed" ELSE s.status
  BY DEF Session, Extend
<1>2. /\ Len(Append(s.steps, StepOf(ev))) >= Len(s.steps)
      /\ \A i \in DOMAIN s.steps : Append(s.steps, StepOf(ev))[i] = s.steps[i]
  BY <1>1
<1> QED
  BY <1>1, <1>2

LEMMA HistoryStep ==
  ASSUME TypeOK, SessionIndex, ObserverMode, Next, NEW sid \in SessionIds
  PROVE  HistoryOf(sid)
<1>0. sessions \in [SessionIds -> Session \cup {Unused, Deleted}]
  BY DEF TypeOK
<1>1. ASSUME sessions'[sid] = sessions[sid] PROVE HistoryOf(sid)
  <2>1. Live(sid)' <=> Live(sid)
    BY <1>1 DEF Live
  <2>2. Live(sid) => Grows(sid)
    <3>1. Live(sid) => Len(sessions[sid].steps) \in Nat
      BY SessionShape DEF Session
    <3> QED
      BY <1>1, <3>1 DEF Grows
  <2> QED
    BY <1>1, <2>1, <2>2 DEF HistoryOf
<1>2. ASSUME NEW o \in Observers, ObserveAppend(o) PROVE HistoryOf(sid)
  <2> DEFINE ev == observer[o].ev
             m == observer[o].mode
             old == byTrace[ev.trace]
  <2>1. ev \in Event /\ m \in Modes /\ observer[o] # IdleObserver /\ m # "off"
    BY <1>2 DEF ObserveAppend, TypeOK, ObserverMode
  <2>2. ev.trace \in Traces /\ StepOf(ev) \in Step
    BY <2>1, EventKindsAssumption DEF Event, StepOf, Step
  <2>3. CASE old # NoSession /\ sessions' = [sessions EXCEPT ![old] = Extend(@, ev)]
    <3>1. old \in SessionIds /\ Live(old)
      BY <2>2, <2>3 DEF TypeOK, SessionIndex
    <3>2. sessions[old] \in Session
      BY <3>1, SessionShape
    <3>3. CASE sid = old
      <4> DEFINE s == sessions[sid]
                 e == Extend(s, ev)
      <4>1. sessions'[sid] = e /\ s \in Session
        BY <1>0, <2>3, <3>2, <3>3
      <4>2. e.status \in {"active", "completed"}
        BY <2>2, <4>1, ExtendShape
      <4>3. /\ Len(e.steps) >= Len(s.steps)
            /\ s.status = "completed" => e.status = "completed"
            /\ \A i \in DOMAIN s.steps : e.steps[i] = s.steps[i]
        BY <2>2, <4>1, ExtendGrows
      <4> HIDE DEF e
      <4>4. Grows(sid)
        BY <4>1, <4>3 DEF Grows
      <4>5. Live(sid) /\ s # Deleted
        BY <3>1, <3>3 DEF Live, Deleted
      <4> QED
        BY <4>4, <4>5 DEF HistoryOf
    <3>4. CASE sid # old
      BY <1>0, <1>1, <2>3, <3>4
    <3> QED
      BY <3>3, <3>4
  <2>4. ASSUME NEW new \in SessionIds, sessions[new] = Unused,
               sessions' = [sessions EXCEPT ![new] = Extend(NewSession(ev, m), ev)]
        PROVE  HistoryOf(sid)
    <3>1. NewSession(ev, m) \in Session /\ NewSession(ev, m).trace = ev.trace /\ NewSession(ev, m).mode = m
      BY <2>1, <2>2 DEF NewSession, Session
    <3>2. Extend(NewSession(ev, m), ev).trace = ev.trace /\ Extend(NewSession(ev, m), ev).mode = m
      BY <2>2, <3>1, ExtendShape DEF Extend, Session
    <3>3. CASE sid = new
      <4>1. sessions'[sid] = Extend(NewSession(ev, m), ev) /\ sessions[sid] = Unused
        BY <1>0, <2>4, <3>3
      <4>2. ~Live(sid) /\ sessions[sid] # Deleted
        BY <4>1 DEF Live, Unused, Deleted
      <4>3. Opened(sid)
        BY <2>1, <3>2, <4>1 DEF Opened
      <4> QED
        BY <4>2, <4>3 DEF HistoryOf
    <3>4. CASE sid # new
      BY <1>0, <1>1, <2>4, <3>4
    <3> QED
      BY <3>3, <3>4
  <2> QED
    BY <1>2, <2>3, <2>4 DEF ObserveAppend
<1>3. ASSUME NEW x \in SessionIds, DeleteSession(x) PROVE HistoryOf(sid)
  <2>1. CASE sid = x
    <3>1. sessions'[sid] = Deleted
      BY <1>0, <1>3, <2>1 DEF DeleteSession
    <3>2. ~Live(sid)'
      BY <3>1 DEF Live, Deleted
    <3> QED
      BY <3>1, <3>2 DEF HistoryOf
  <2>2. CASE sid # x
    BY <1>0, <1>1, <1>3, <2>2 DEF DeleteSession
  <2> QED
    BY <2>1, <2>2
<1>4. ASSUME NEW x \in SessionIds, NEW i \in 1..MaxSteps, AnnotateStep(x, i) PROVE HistoryOf(sid)
  <2>1. CASE sid = x
    <3> DEFINE s == sessions[sid]
               noted == [s.steps[i] EXCEPT !.noted = TRUE]
               steps == [s.steps EXCEPT ![i] = noted]
    <3>1. Live(sid) /\ i \in DOMAIN s.steps
      BY <1>4, <2>1 DEF AnnotateStep
    <3>2. s \in Session /\ s.steps \in Seq(Step) /\ s.steps[i] \in Step
      BY <3>1, SessionShape DEF Session
    <3>3. noted.noted /\ StepOf(noted) = StepOf(s.steps[i])
      BY <3>2 DEF Step, StepOf
    <3>4. sessions' = [sessions EXCEPT ![sid] = [s EXCEPT !.steps = steps]]
      BY <1>4, <2>1 DEF AnnotateStep
    <3> HIDE DEF noted
    <3>5. Len(steps) = Len(s.steps) /\ \A j \in DOMAIN s.steps : steps[j] = IF j = i THEN noted ELSE s.steps[j]
      BY <3>2
    <3>6. Len(s.steps) \in Nat
      BY <3>2
    <3> HIDE DEF steps
    <3>7. sessions'[sid].steps = steps /\ sessions'[sid].status = s.status
      BY <1>0, <3>2, <3>4 DEF Session
    <3>8. Grows(sid)
      BY <3>3, <3>5, <3>6, <3>7 DEF Grows
    <3>9. s # Deleted
      BY <3>1 DEF Live, Deleted
    <3> QED
      BY <3>1, <3>8, <3>9 DEF HistoryOf
  <2>2. CASE sid # x
    BY <1>0, <1>1, <1>4, <2>2 DEF AnnotateStep
  <2> QED
    BY <2>1, <2>2
<1>5. CASE sessions' = sessions
  BY <1>1, <1>5
<1> QED
  BY <1>2, <1>3, <1>4, <1>5 DEF Next, obsVars, SetMode, ObserveCheck, CreateCheckpoint, Join,
     WaitLookup, WaitReceive, Decide, EnforceTimeout

\* Sessions only grow until they are deleted, never return, and are opened under the
\* mode their event was taken in with, for any observers, events and mode changes.
THEOREM SessionHistoryCorrect == Spec => SessionHistory
<1> DEFINE History == \A sid \in SessionIds : HistoryOf(sid)
<1>1. Init => ObserverMode
  BY DEF Init, ObserverMode
<1>2. MonitorInv /\ ObserverMode /\ [Next]_vars => ObserverMode'
  BY ObserverStep DEF MonitorInv
<1>3. MonitorInv /\ ObserverMode /\ [Next]_vars => [History]_vars
  BY HistoryStep DEF MonitorInv
<1>4. Spec => [][History]_vars
  BY <1>1, <1>2, <1>3, MonitorInvCorrect, PTL DEF Spec
<1> QED
  BY <1>4 DEF SessionHistory, HistoryOf, Grows, Opened

-----------------------------------------------------------------------------
(* The abstract gate *)

\* A caller that starts to wait has told the abstract gate nothing yet.
LEMMA QuietCaller ==
  ASSUME TypeOK, NEW c \in Callers, NEW r,
         caller' = [caller EXCEPT ![c] = r], r.pc # "done", caller[c].pc # "done"
  PROVE  [d \in Callers |-> Told(d)]' = [d \in Callers |-> Told(d)]
<1>1. \A d \in Callers : caller'[d] = IF d = c THEN r ELSE caller[d]
  BY DEF TypeOK
<1>2. \A d \in Callers : Told(d)' = Told(d)
  BY <1>1 DEF Told
<1> QED
  BY <1>2

\* A caller that is answered moves the abstract gate by exactly that answer.
LEMMA AnsweringCaller ==
  ASSUME TypeOK, NEW c \in Callers, NEW id \in CheckpointIds, NEW what,
         caller' = [caller EXCEPT ![c] = [pc |-> "done", id |-> id, told |-> what]]
  PROVE  [d \in Callers |-> Told(d)]' =
            [[d \in Callers |-> Told(d)] EXCEPT ![c] =
                [told |-> IF what \in {"approved", "auto-approved"}
                          THEN "proceed" ELSE "stop", id |-> id]]
<1>1. \A d \in Callers : caller'[d] =
         IF d = c THEN [pc |-> "done", id |-> id, told |-> what] ELSE caller[d]
  BY DEF TypeOK
<1>2. \A d \in Callers : Told(d)' =
         IF d = c THEN [told |-> IF what \in {"approved", "auto-approved"}
                                 THEN "proceed" ELSE "stop", id |-> id]
         ELSE Told(d)
  BY <1>1 DEF Told
<1> QED
  BY <1>2

\* The monitor's checkpoints implement Gate: a pipeline module proceeds only
\* under a verdict that lets it, and every verdict is given once.
THEOREM GateRefined == Spec => GateSpec
<1> USE DEF Created, Unused
<1> DEFINE V == [id \in CheckpointIds |->
                   IF Created(id) THEN checkpoints[id].status ELSE "pending"]
           A == [c \in Callers |-> Told(c)]
<1>1. Init => AbstractGate!Init
  BY DEF Init, AbstractGate!Init, AbstractGate!NoAnswer, Told, IdleCaller
<1>2. MonitorInv /\ [Next]_vars => [AbstractGate!Next]_(AbstractGate!vars)
  <2> SUFFICES ASSUME MonitorInv, [Next]_vars
               PROVE  \/ AbstractGate!Next
                      \/ V' = V /\ A' = A
    BY DEF AbstractGate!vars
  <2>1. CASE UNCHANGED <<checkpoints, caller>>
    BY <2>1 DEF Told
  <2>2. ASSUME NEW c \in Callers, NEW id \in CheckpointIds, CreateCheckpoint(c, id)
        PROVE  V' = V /\ A' = A
    <3>1. \A x \in CheckpointIds : checkpoints'[x] =
             IF x = id THEN [status |-> "pending", by |-> Nobody] ELSE checkpoints[x]
      BY <2>2 DEF CreateCheckpoint, MonitorInv, TypeOK
    <3>2. V' = V
      BY <2>2, <3>1 DEF CreateCheckpoint
    <3>3. caller[c] = IdleCaller
          /\ caller' = [caller EXCEPT ![c] = [pc |-> "created", id |-> id]]
      BY <2>2 DEF CreateCheckpoint
    <3>4. caller[c].pc # "done" /\ [pc |-> "created", id |-> id].pc # "done"
      BY <3>3 DEF IdleCaller
    <3> QED
      BY <3>2, <3>3, <3>4, QuietCaller DEF MonitorInv
  <2>3. ASSUME NEW c \in Callers, NEW id \in CheckpointIds, Join(c, id)
        PROVE  V' = V /\ A' = A
    <3>1. UNCHANGED checkpoints /\ caller[c] = IdleCaller
          /\ caller' = [caller EXCEPT ![c] = [pc |-> "created", id |-> id]]
      BY <2>3 DEF Join
    <3>2. caller[c].pc # "done" /\ [pc |-> "created", id |-> id].pc # "done"
      BY <3>1 DEF IdleCaller
    <3> QED
      BY <3>1, <3>2, QuietCaller DEF MonitorInv
  <2>4. ASSUME NEW c \in Callers, WaitLookup(c)
        PROVE  AbstractGate!Next \/ (V' = V /\ A' = A)
    <3> DEFINE id == caller[c].id
    <3>1. caller[c].pc = "created" /\ V' = V
      BY <2>4 DEF WaitLookup
    <3>2. id \in CheckpointIds
      BY <3>1, WaiterShape DEF MonitorInv, IdleCaller
    <3>3. CASE id \in pendingCh
      <4>1. caller' = [caller EXCEPT ![c] = [pc |-> "receiving", id |-> id]]
        BY <2>4, <3>3 DEF WaitLookup
      <4>2. [pc |-> "receiving", id |-> id].pc # "done"
        OBVIOUS
      <4> QED
        BY <3>1, <4>1, <4>2, QuietCaller DEF MonitorInv
    <3>4. CASE id \notin pendingCh
      <4>1. caller' = [caller EXCEPT ![c] =
                          [pc |-> "done", id |-> id, told |-> "not found"]]
        BY <2>4, <3>4 DEF WaitLookup
      <4>2. A' = [A EXCEPT ![c] = [told |-> "stop", id |-> id]]
        BY <3>2, <4>1, AnsweringCaller, ZenonT(60) DEF MonitorInv
      <4>3. A[c] = [told |-> "none"]
        BY <3>1 DEF Told
      <4> QED
        BY <3>1, <3>2, <4>2, <4>3
        DEF AbstractGate!Next, AbstractGate!Refuse, AbstractGate!NoAnswer
    <3> QED
      BY <3>3, <3>4
  <2>5. ASSUME NEW c \in Callers, WaitReceive(c) PROVE AbstractGate!Next
    <3> DEFINE id == caller[c].id
    <3>1. caller[c].pc = "receiving" /\ chan[id] # <<>> /\ V' = V
      BY <2>5 DEF WaitReceive
    <3>2. id \in CheckpointIds
      BY <3>1, WaiterShape DEF MonitorInv, IdleCaller
    <3>3. PICK v \in Verdicts : chan[id] = <<v>> /\ (v # "rejected" => Record(id, v))
      BY <3>1, <3>2 DEF MonitorInv, GateInv, ChannelOnRecord
    <3>4. caller' = [caller EXCEPT ![c] =
                        [pc |-> "done", id |-> id, told |-> OutcomeOf(v)]]
      BY <2>5, <3>3 DEF WaitReceive
    <3>5. A' = [A EXCEPT ![c] =
                  [told |-> IF OutcomeOf(v) \in {"approved", "auto-approved"}
                            THEN "proceed" ELSE "stop", id |-> id]]
      BY <3>2, <3>4, AnsweringCaller DEF MonitorInv
    <3>6. A[c] = [told |-> "none"]
      BY <3>1 DEF Told
    <3>7. OutcomeOf(v) \in {"approved", "auto-approved"} => AbstractGate!Permits(V[id])
      BY <3>2, <3>3 DEF OutcomeOf, Verdicts, Record, AbstractGate!Permits
    <3>8. CASE OutcomeOf(v) \in {"approved", "auto-approved"}
      <4>1. A' = [A EXCEPT ![c] = [told |-> "proceed", id |-> id]]
        BY <3>5, <3>8
      <4>2. AbstractGate!Proceed(c, id)
        BY <3>1, <3>6, <3>7, <3>8, <4>1 DEF AbstractGate!Proceed, AbstractGate!NoAnswer
      <4> QED
        BY <3>2, <4>2 DEF AbstractGate!Next
    <3>9. CASE OutcomeOf(v) \notin {"approved", "auto-approved"}
      <4>1. A' = [A EXCEPT ![c] = [told |-> "stop", id |-> id]]
        BY <3>5, <3>9
      <4>2. AbstractGate!Refuse(c, id)
        BY <3>1, <3>6, <4>1 DEF AbstractGate!Refuse, AbstractGate!NoAnswer
      <4> QED
        BY <3>2, <4>2 DEF AbstractGate!Next
    <3> QED
      BY <3>8, <3>9
  <2>6. ASSUME NEW id \in CheckpointIds, NEW op, NEW v \in {"approved", "rejected"},
               Decide(id, op, v) PROVE AbstractGate!Next
    <3>1. V[id] = "pending" /\ V' = [V EXCEPT ![id] = v]
      BY <2>6 DEF Decide, MonitorInv, TypeOK
    <3>2. A' = A
      BY <2>6 DEF Decide, Told
    <3> QED
      BY <3>1, <3>2 DEF AbstractGate!Next, AbstractGate!Settle, AbstractGate!Verdicts
  <2>7. ASSUME NEW id \in CheckpointIds, EnforceTimeout(id)
        PROVE  AbstractGate!Next \/ (V' = V /\ A' = A)
    <3>1. CASE checkpoints[id].status = "pending"
      <4>1. \A x \in CheckpointIds :
               /\ x # id => checkpoints'[x] = checkpoints[x]
               /\ x = id => checkpoints'[x] # Unused /\ checkpoints'[x].status = "timed_out"
        <5>1. checkpoints[id] \in Checkpoint
          BY <3>1 DEF MonitorInv, TypeOK
        <5> QED
          BY <2>7, <3>1, <5>1 DEF EnforceTimeout, MonitorInv, TypeOK, Checkpoint
      <4>2. V[id] = "pending" /\ V' = [V EXCEPT ![id] = "timed_out"]
        BY <3>1, <4>1
      <4>3. A' = A
        BY <2>7 DEF EnforceTimeout, Told
      <4> QED
        BY <4>2, <4>3 DEF AbstractGate!Next, AbstractGate!Settle, AbstractGate!Verdicts
    <3>2. CASE checkpoints[id].status # "pending"
      BY <2>7, <3>2, <2>1 DEF EnforceTimeout
    <3> QED
      BY <3>1, <3>2
  <2> QED
    BY <2>1, <2>2, <2>3, <2>4, <2>5, <2>6, <2>7 DEF Next, vars, gateVars, SetMode,
       ObserveCheck, ObserveAppend, DeleteSession, AnnotateStep
<1> QED
  BY <1>1, <1>2, MonitorInvCorrect, PTL DEF Spec, GateSpec, AbstractGate!Spec
=============================================================================
