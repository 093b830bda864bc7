----------------------------- MODULE Alerts_proofs -----------------------------
(***************************************************************************)
(* Proofs about Alerts, for any rules, any finite set of evaluators and    *)
(* any number of alerts, the races on Manager.seq included.                *)
(***************************************************************************)
EXTENDS Alerts, FiniteSetTheorems, TLAPS

\* Sequence numbers on their way are in range: one that was read can still be
\* incremented, and one that was written has left seq positive.
SeqInv ==
    \A e \in Evaluators :
        /\ eval[e].pc = "read" => eval[e].seq < MaxSeq
        /\ eval[e].pc = "written" => eval[e].seq >= 1 /\ seq >= 1

EvalState ==
    [pc : {"idle", "read", "written", "stored"}, todo : SUBSET Rules, seq : 0..MaxSeq]

\* The copies a tick walks: one per alert, of alerts that still exist, and none
\* that says "not escalated" of an alert that has escalated since.
CopyInv ==
    /\ tick.pc = "idle" => tick.todo = {}
    /\ \A c \in tick.todo :
          alerts[c.id] # Absent /\ (~c.escalated => escalations[c.id] = 0)
    /\ \A c, d \in tick.todo : c.id = d.id => c = d

EscalationInv ==
    \A id \in Ids :
        IF alerts[id] = Absent THEN escalations[id] = 0
        ELSE escalations[id] = IF alerts[id].escalated THEN 1 ELSE 0

TypeInv == TypeOK /\ SeqInv /\ CopyInv /\ EscalationInv

LEMMA TypeInit == Init => TypeInv
<1> SUFFICES ASSUME Init PROVE TypeInv
  OBVIOUS
<1>1. /\ seq \in 0..MaxSeq /\ gauge \in Int
      /\ alerts \in [Ids -> Alert \cup {Absent}] /\ due \in [Ids -> SUBSET Limits]
      /\ eval \in [Evaluators ->
              [pc : {"idle", "read", "written", "stored"}, todo : SUBSET Rules, seq : 0..MaxSeq]]
      /\ tick \in [pc : {"idle", "walk", "resolved"}, todo : SUBSET Copy]
      /\ escalations \in [Ids -> Nat]
  BY MaxSeqAssumption DEF Init
<1>2. raced \in BOOLEAN
  BY DEF Init
<1>3. SeqInv /\ CopyInv /\ EscalationInv
  BY DEF Init, SeqInv, CopyInv, EscalationInv
<1> QED
  BY <1>1, <1>2, <1>3 DEF TypeInv, TypeOK

\* An evaluator's step leaves everything typed if its own new state is.
LEMMA EvalUpdate ==
  ASSUME TypeOK, SeqInv, NEW e \in Evaluators, NEW r \in EvalState,
         eval' = [eval EXCEPT ![e] = r],
         seq' \in 0..MaxSeq, seq' = seq \/ seq' >= 1,
         r.pc = "read" => r.seq < MaxSeq,
         r.pc = "written" => r.seq >= 1 /\ seq' >= 1
  PROVE  eval' \in [Evaluators -> EvalState] /\ SeqInv'
<1>1. eval \in [Evaluators -> EvalState]
  BY DEF TypeOK, EvalState
<1>2. \A d \in Evaluators : eval'[d] = IF d = e THEN r ELSE eval[d]
  BY <1>1
<1>3. SeqInv'
  BY <1>2, MaxSeqAssumption DEF SeqInv, TypeOK
<1> QED
  BY <1>1, <1>3

\* A new status or an escalation leaves an alert an alert.
LEMMA AlertUpdate ==
  ASSUME TypeOK, NEW id \in Ids, alerts[id] # Absent
  PROVE  /\ alerts[id] \in Alert
         /\ \A s \in {"firing", "acknowledged", "resolved"} :
               [alerts[id] EXCEPT !.status = s] \in Alert
         /\ [alerts[id] EXCEPT !.escalated = TRUE] \in Alert
<1>1. alerts[id] \in Alert
  BY DEF TypeOK
<1> QED
  BY <1>1 DEF Alert

\* Setting the status of an alert keeps what the tick's copies and the
\* escalation counts say.
LEMMA StatusUpdate ==
  ASSUME TypeInv, NEW id \in Ids, alerts[id] # Absent,
         NEW s \in {"firing", "acknowledged", "resolved"},
         alerts' = [alerts EXCEPT ![id].status = s], escalations' = escalations
  PROVE  /\ alerts' \in [Ids -> Alert \cup {Absent}]
         /\ \A x \in Ids : alerts'[x] = Absent <=> alerts[x] = Absent
         /\ EscalationInv'
<1>1. alerts[id] \in Alert /\ [alerts[id] EXCEPT !.status = s] \in Alert
  BY AlertUpdate DEF TypeInv
<1>2. \A x \in Ids : alerts'[x] = IF x = id THEN [alerts[id] EXCEPT !.status = s] ELSE alerts[x]
  BY DEF TypeInv, TypeOK
<1>3. alerts' \in [Ids -> Alert \cup {Absent}]
  BY <1>1 DEF TypeInv, TypeOK
<1>4. \A r \in Alert : r # Absent
  BY DEF Alert, Absent
<1>5. \A x \in Ids : alerts'[x] = Absent <=> alerts[x] = Absent
  BY <1>1, <1>2, <1>4
<1>6. alerts'[id].escalated = alerts[id].escalated
  BY <1>1, <1>2 DEF Alert
<1> QED
  BY <1>2, <1>3, <1>5, <1>6 DEF TypeInv, EscalationInv

LEMMA TypeStep == TypeInv /\ [Next]_vars => TypeInv'
<1> SUFFICES ASSUME TypeInv, [Next]_vars PROVE TypeInv'
  OBVIOUS
<1> USE MaxSeqAssumption
<1>1. ASSUME NEW e \in Evaluators, NEW matching \in SUBSET Rules, StartEvaluate(e, matching)
      PROVE  TypeInv'
  <2> DEFINE r == [eval[e] EXCEPT !.todo = matching]
  <2>1. r \in EvalState /\ r.pc = "idle"
    BY <1>1 DEF StartEvaluate, TypeInv, TypeOK, EvalState
  <2>2. eval' = [eval EXCEPT ![e] = r] /\ seq' = seq
    BY <1>1 DEF StartEvaluate
  <2> HIDE DEF r
  <2>3. eval' \in [Evaluators -> EvalState] /\ SeqInv'
    BY <2>1, <2>2, EvalUpdate DEF TypeInv, TypeOK
  <2> QED
    BY <1>1, <2>3 DEF StartEvaluate, TypeInv, TypeOK, EvalState, CopyInv, EscalationInv
<1>2. ASSUME NEW e \in Evaluators, ReadSeq(e) PROVE TypeInv'
  <2> DEFINE r == [eval[e] EXCEPT !.pc = "read", !.seq = seq]
  <2>1. r \in EvalState /\ r.pc = "read" /\ r.seq < MaxSeq
    BY <1>2 DEF ReadSeq, TypeInv, TypeOK, EvalState
  <2>2. eval' = [eval EXCEPT ![e] = r] /\ seq' = seq
    BY <1>2 DEF ReadSeq
  <2> HIDE DEF r
  <2>3. eval' \in [Evaluators -> EvalState] /\ SeqInv'
    BY <2>1, <2>2, EvalUpdate DEF TypeInv, TypeOK
  <2> QED
    BY <1>2, <2>3 DEF ReadSeq, TypeInv, TypeOK, EvalState, CopyInv, EscalationInv
<1>3. ASSUME NEW e \in Evaluators, WriteSeq(e) PROVE TypeInv'
  <2> DEFINE r == [eval[e] EXCEPT !.pc = "written", !.seq = @ + 1]
             n == eval[e].seq + 1
  <2>1. eval[e] \in EvalState /\ eval[e].pc = "read"
    BY <1>3 DEF WriteSeq, TypeInv, TypeOK, EvalState
  <2>2. eval[e].seq < MaxSeq /\ eval[e].seq \in 0..MaxSeq
    BY <2>1 DEF TypeInv, SeqInv, EvalState
  <2>3. n \in 1..MaxSeq /\ n \in 0..MaxSeq /\ n >= 1
    BY <2>2
  <2>4. r \in EvalState /\ r.pc = "written" /\ r.seq >= 1
    <3> HIDE DEF n
    <3>1. r = [eval[e] EXCEPT !.pc = "written", !.seq = n]
      BY DEF n
    <3> QED
      BY <2>1, <2>3, <3>1 DEF EvalState
  <2>5. eval' = [eval EXCEPT ![e] = r] /\ seq' \in 1..MaxSeq
    BY <1>3, <2>3 DEF WriteSeq
  <2> HIDE DEF r
  <2>6. eval' \in [Evaluators -> EvalState] /\ SeqInv'
    <3>1. seq' \in 0..MaxSeq /\ seq' >= 1
      BY <2>5
    <3> QED
      BY <2>4, <2>5, <3>1, EvalUpdate DEF TypeInv
  <2> QED
    BY <1>3, <2>5, <2>6 DEF WriteSeq, TypeInv, TypeOK, EvalState, CopyInv, EscalationInv
<1>4. ASSUME NEW e \in Evaluators, NEW rule \in Rules, AddAlert(e, rule) PROVE TypeInv'
  <2> DEFINE r == [pc |-> "stored", todo |-> eval[e].todo \ {rule}, seq |-> 0]
             al == [status |-> "firing", rule |-> rule, escalated |-> FALSE]
  <2>1. r \in EvalState /\ r.pc = "stored" /\ eval' = [eval EXCEPT ![e] = r] /\ seq' = seq
    BY <1>4 DEF AddAlert, TypeInv, TypeOK, EvalState
  <2>2. eval' \in [Evaluators -> EvalState] /\ SeqInv'
    <3> HIDE DEF r
    <3> QED
      BY <2>1, EvalUpdate DEF TypeInv, TypeOK
  <2>3. PICK id \in Ids :
           /\ alerts' = [alerts EXCEPT ![id] = al]
           /\ due' = [due EXCEPT ![id] = {}]
           /\ escalations' = [escalations EXCEPT ![id] = 0]
    <3>1. eval[e].seq \in Ids /\ seq \in Ids
      BY <1>4 DEF AddAlert, TypeInv, TypeOK, SeqInv, Ids
    <3> QED
      BY <1>4, <3>1 DEF AddAlert
  <2>4. al \in Alert /\ al # Absent /\ ~al.escalated
    BY DEF Alert, Absent
  <2> HIDE DEF al, r
  <2>5. TypeOK'
    <3>1. UNCHANGED <<seq, gauge, tick, raced>>
      BY <1>4 DEF AddAlert, TypeInv, TypeOK
    <3>2. /\ alerts' \in [Ids -> Alert \cup {Absent}]
          /\ due' \in [Ids -> SUBSET Limits]
          /\ escalations' \in [Ids -> Nat]
      BY <2>3, <2>4 DEF TypeInv, TypeOK
    <3> QED
      BY <2>2, <3>1, <3>2 DEF TypeInv, TypeOK, EvalState
  <2>6. \A x \in Ids : /\ alerts'[x] = IF x = id THEN al ELSE alerts[x]
                       /\ escalations'[x] = IF x = id THEN 0 ELSE escalations[x]
    BY <2>3 DEF TypeInv, TypeOK
  <2>7. EscalationInv'
    BY <2>4, <2>6 DEF TypeInv, EscalationInv
  <2>8. \A c \in tick.todo : c.id \in Ids
    BY DEF TypeInv, TypeOK, Copy
  <2>9. CopyInv'
    BY <1>4, <2>4, <2>6, <2>8 DEF AddAlert, TypeInv, CopyInv
  <2> QED
    BY <2>2, <2>5, <2>7, <2>9 DEF TypeInv
<1>5. ASSUME NEW e \in Evaluators, IncGauge(e) PROVE TypeInv'
  <2> DEFINE r == [eval[e] EXCEPT !.pc = "idle"]
  <2>1. r \in EvalState /\ r.pc = "idle"
    BY <1>5 DEF IncGauge, TypeInv, TypeOK, EvalState
  <2>2. eval' = [eval EXCEPT ![e] = r] /\ seq' = seq
    BY <1>5 DEF IncGauge
  <2> HIDE DEF r
  <2>3. eval' \in [Evaluators -> EvalState] /\ SeqInv'
    BY <2>1, <2>2, EvalUpdate DEF TypeInv, TypeOK
  <2> QED
    BY <1>5, <2>3 DEF IncGauge, TypeInv, TypeOK, EvalState, CopyInv, EscalationInv
<1>6. ASSUME NEW id \in Ids, Acknowledge(id) \/ Resolve(id) PROVE TypeInv'
  <2>1. PICK s \in {"firing", "acknowledged", "resolved"} :
           alerts[id] # Absent /\ alerts' = [alerts EXCEPT ![id].status = s]
    BY <1>6 DEF Acknowledge, Resolve
  <2>2. UNCHANGED <<seq, due, gauge, eval, tick, escalations, raced>>
    BY <1>6 DEF Acknowledge, Resolve
  <2>3. /\ alerts' \in [Ids -> Alert \cup {Absent}] /\ EscalationInv'
        /\ \A x \in Ids : alerts'[x] = Absent <=> alerts[x] = Absent
    BY <2>1, <2>2, StatusUpdate
  <2>4. \A c \in tick.todo : c.id \in Ids
    BY DEF TypeInv, TypeOK, Copy
  <2> QED
    BY <2>2, <2>3, <2>4 DEF TypeInv, TypeOK, SeqInv, CopyInv
<1>7. ASSUME NEW id \in Ids, NEW l \in Limits, PassLimit(id, l) PROVE TypeInv'
  BY <1>7 DEF PassLimit, TypeInv, TypeOK, SeqInv, CopyInv, EscalationInv
<1>8. CASE StartTick
  <2>1. ASSUME NEW id \in Firing PROVE CopyOf(id) \in Copy /\ CopyOf(id).id = id
    <3>1. id \in Ids /\ alerts[id] # Absent
      BY DEF Firing, Absent
    <3>2. alerts[id] \in Alert
      BY <3>1 DEF TypeInv, TypeOK
    <3> QED
      BY <3>1, <3>2 DEF CopyOf, Copy, Alert, TypeInv, TypeOK
  <2>2. tick' = [pc |-> "walk", todo |-> {CopyOf(id) : id \in Firing}]
    BY <1>8 DEF StartTick
  <2>3. TypeOK' /\ SeqInv' /\ EscalationInv'
    BY <1>8, <2>1, <2>2 DEF StartTick, TypeInv, TypeOK, SeqInv, EscalationInv
  <2>4. ASSUME NEW id \in Firing
        PROVE  alerts[id] # Absent /\ (~CopyOf(id).escalated => escalations[id] = 0)
    BY DEF Firing, Absent, CopyOf, TypeInv, EscalationInv
  <2>5. CopyInv'
    BY <1>8, <2>1, <2>2, <2>4 DEF StartTick, CopyInv
  <2> QED
    BY <2>3, <2>5 DEF TypeInv
<1>9. ASSUME NEW c \in tick.todo, TickResolve(c) PROVE TypeInv'
  <2>1. c.id \in Ids /\ alerts[c.id] # Absent
    BY DEF TypeInv, TypeOK, Copy, CopyInv
  <2>2. /\ alerts' = [alerts EXCEPT ![c.id].status = "resolved"]
        /\ tick' = [pc |-> "resolved", todo |-> tick.todo \ {c}]
        /\ UNCHANGED <<seq, due, gauge, eval, escalations, raced>>
    BY <1>9 DEF TickResolve
  <2>3. /\ alerts' \in [Ids -> Alert \cup {Absent}] /\ EscalationInv'
        /\ \A x \in Ids : alerts'[x] = Absent <=> alerts[x] = Absent
    BY <2>1, <2>2, StatusUpdate
  <2>4. \A d \in tick.todo : d.id \in Ids
    BY DEF TypeInv, TypeOK, Copy
  <2> QED
    BY <2>2, <2>3, <2>4 DEF TypeInv, TypeOK, SeqInv, CopyInv
<1>10. CASE TickDecGauge
  <2>1. tick' = [pc |-> "walk", todo |-> tick.todo]
    BY <1>10 DEF TickDecGauge, TypeInv, TypeOK
  <2> QED
    BY <1>10, <2>1 DEF TickDecGauge, TypeInv, TypeOK, SeqInv, CopyInv, EscalationInv
<1>11. ASSUME NEW c \in tick.todo, TickEscalate(c) PROVE TypeInv'
  <2>1. c.id \in Ids /\ alerts[c.id] # Absent
    BY DEF TypeInv, TypeOK, Copy, CopyInv
  <2>2. /\ tick' = [pc |-> "walk", todo |-> tick.todo \ {c}]
        /\ UNCHANGED <<seq, due, gauge, eval, raced>>
    BY <1>11 DEF TickEscalate, TypeInv, TypeOK
  <2>3. \A d \in tick.todo : d.id \in Ids
    BY DEF TypeInv, TypeOK, Copy
  <2>4. CASE NeedsEscalation(c) /\ alerts[c.id].status = "firing"
    <3> DEFINE al == [alerts[c.id] EXCEPT !.escalated = TRUE]
    <3>1. al \in Alert /\ al.escalated /\ alerts[c.id] \in Alert
      <4>1. al \in Alert /\ alerts[c.id] \in Alert
        BY <2>1, AlertUpdate DEF TypeInv
      <4> QED
        BY <4>1 DEF Alert
    <3>2. al # Absent
      BY <3>1 DEF Alert, Absent
    <3>3. escalations[c.id] = 0
      BY <2>4 DEF NeedsEscalation, TypeInv, CopyInv
    <3>4. /\ alerts' = [alerts EXCEPT ![c.id] = al]
          /\ escalations' = [escalations EXCEPT ![c.id] = 1]
      BY <1>11, <2>4, <3>3 DEF TickEscalate
    <3> HIDE DEF al
    <3>5. \A x \in Ids : /\ alerts'[x] = IF x = c.id THEN al ELSE alerts[x]
                         /\ escalations'[x] = IF x = c.id THEN 1 ELSE escalations[x]
      BY <3>4 DEF TypeInv, TypeOK
    <3>6. TypeOK' /\ SeqInv'
      BY <2>2, <3>1, <3>4 DEF TypeInv, TypeOK, SeqInv
    <3>7. EscalationInv'
      BY <3>1, <3>2, <3>5 DEF TypeInv, EscalationInv
    <3>8. CopyInv'
      BY <2>1, <2>2, <2>3, <3>2, <3>5 DEF TypeInv, CopyInv
    <3> QED
      BY <3>6, <3>7, <3>8 DEF TypeInv
  <2>5. CASE ~(NeedsEscalation(c) /\ alerts[c.id].status = "firing")
    BY <1>11, <2>2, <2>5 DEF TickEscalate, TypeInv, TypeOK, SeqInv, CopyInv, EscalationInv
  <2> QED
    BY <2>4, <2>5
<1>12. CASE EndTick
  <2>1. tick' = [pc |-> "idle", todo |-> {}]
    BY <1>12 DEF EndTick, TypeInv, TypeOK
  <2> QED
    BY <1>12, <2>1 DEF EndTick, TypeInv, TypeOK, SeqInv, CopyInv, EscalationInv
<1>13. CASE UNCHANGED vars
  BY <1>13 DEF vars, TypeInv, TypeOK, SeqInv, CopyInv, EscalationInv
<1> QED
  BY <1>1, <1>2, <1>3, <1>4, <1>5, <1>6, <1>7, <1>8, <1>9, <1>10, <1>11, <1>12, <1>13
  DEF Next, Tick

-----------------------------------------------------------------------------
(* The gauge.  GaugeCoversFiring is not inductive: the tick lowers the gauge *)
(* also for an alert that REST has resolved meanwhile.  What is inductive    *)
(* counts the alerts the tick still holds copies of as well.                 *)

Held == {c.id : c \in tick.todo}
Covered == Firing \cup Held

CoverInv ==
    gauge + Cardinality(Unincremented) - Undecremented >= Cardinality(Covered)

\* The counts are of finite sets.
LEMMA Finite ==
  ASSUME TypeOK
  PROVE  /\ IsFiniteSet(Covered) /\ Cardinality(Covered) \in Nat
         /\ IsFiniteSet(Firing) /\ Cardinality(Firing) \in Nat
         /\ IsFiniteSet(Unincremented) /\ Cardinality(Unincremented) \in Nat
         /\ Undecremented \in {0, 1} /\ gauge \in Int
         /\ Covered \subseteq Ids
<1>1. IsFiniteSet(Ids)
  BY MaxSeqAssumption, FS_Interval DEF Ids
<1>2. Covered \subseteq Ids /\ Firing \subseteq Ids
  BY DEF Covered, Held, Firing, TypeOK, Copy
<1>3. IsFiniteSet(Covered) /\ IsFiniteSet(Firing)
  BY <1>1, <1>2, FS_Subset
<1>4. Unincremented \subseteq Evaluators
  BY DEF Unincremented
<1>5. IsFiniteSet(Unincremented)
  BY <1>4, EvaluatorsAssumption, FS_Subset
<1> QED
  BY <1>2, <1>3, <1>5, FS_CardinalityType DEF Undecremented, TypeOK

\* An alert that is acknowledged or resolved stops firing, and no other does.
LEMMA StatusChange ==
  ASSUME TypeOK, NEW id \in Ids, alerts[id] # Absent,
         NEW s \in {"acknowledged", "resolved"},
         alerts' = [alerts EXCEPT ![id].status = s]
  PROVE  Firing' = Firing \ {id}
<1>1. alerts[id] \in Alert
  BY DEF TypeOK
<1>2. \A x \in Ids : alerts'[x] = IF x = id THEN [alerts[id] EXCEPT !.status = s] ELSE alerts[x]
  BY DEF TypeOK
<1>3. alerts'[id].status = s
  BY <1>1, <1>2 DEF Alert
<1> QED
  BY <1>2, <1>3 DEF Firing

\* Fewer alerts to cover, with the gauge and its pending updates unchanged.
LEMMA CoverShrinks ==
  ASSUME TypeOK, CoverInv, Covered' \subseteq Covered,
         gauge' = gauge, Unincremented' = Unincremented, Undecremented' = Undecremented
  PROVE  CoverInv'
<1>1. Cardinality(Covered') <= Cardinality(Covered) /\ Cardinality(Covered') \in Nat
  BY Finite, FS_Subset, FS_CardinalityType
<1> QED
  BY <1>1, Finite DEF CoverInv

LEMMA CoverStep == TypeInv /\ TypeInv' /\ CoverInv /\ [Next]_vars => CoverInv'
<1> SUFFICES ASSUME TypeInv, TypeInv', CoverInv, [Next]_vars PROVE CoverInv'
  OBVIOUS
<1> DEFINE G == gauge
           U == Cardinality(Unincremented)
           D == Undecremented
           C == Cardinality(Covered)
<1>1. G \in Int /\ U \in Nat /\ D \in {0, 1} /\ C \in Nat /\ G + U - D >= C
  BY Finite DEF TypeInv, CoverInv
<1>2. ASSUME NEW e \in Evaluators, NEW rule \in Rules, AddAlert(e, rule) PROVE CoverInv'
  <2>1. PICK id : Covered' \subseteq Covered \cup {id}
    <3>1. PICK id : alerts' = [alerts EXCEPT
                ![id] = [status |-> "firing", rule |-> rule, escalated |-> FALSE]]
      BY <1>2 DEF AddAlert
    <3>2. \A x \in Ids \ {id} : alerts'[x] = alerts[x]
      BY <3>1 DEF TypeInv, TypeOK
    <3>3. tick' = tick
      BY <1>2 DEF AddAlert
    <3> QED
      BY <3>2, <3>3 DEF Covered, Firing, Held
  <2>2. Unincremented' = Unincremented \cup {e} /\ e \notin Unincremented
    <3>1. eval' = [eval EXCEPT ![e] =
                     [pc |-> "stored", todo |-> eval[e].todo \ {rule}, seq |-> 0]]
      BY <1>2 DEF AddAlert
    <3>2. \A d \in Evaluators : eval'[d].pc = IF d = e THEN "stored" ELSE eval[d].pc
      BY <3>1 DEF TypeInv, TypeOK
    <3>3. eval[e].pc = "written"
      BY <1>2 DEF AddAlert
    <3> QED
      BY <3>2, <3>3 DEF Unincremented
  <2>3. Cardinality(Covered') <= C + 1 /\ Cardinality(Covered') \in Nat
    <3>1. IsFiniteSet(Covered \cup {id}) /\ Cardinality(Covered \cup {id}) <= C + 1
      <4>1. IsFiniteSet(Covered)
        BY Finite DEF TypeInv
      <4>2. /\ IsFiniteSet(Covered \cup {id})
            /\ \/ Cardinality(Covered \cup {id}) = C
               \/ Cardinality(Covered \cup {id}) = C + 1
        BY <4>1, FS_AddElement
      <4> QED
        BY <1>1, <4>2
    <3>2. IsFiniteSet(Covered') /\ Cardinality(Covered') <= Cardinality(Covered \cup {id})
      BY <2>1, <3>1, FS_Subset
    <3> QED
      BY <1>1, <3>1, <3>2, FS_CardinalityType
  <2>4. Cardinality(Unincremented') = U + 1
    BY <2>2, Finite, FS_AddElement DEF TypeInv
  <2>5. gauge' = gauge /\ Undecremented' = Undecremented
    BY <1>2 DEF AddAlert, Undecremented
  <2> QED
    BY <1>1, <2>3, <2>4, <2>5 DEF CoverInv
<1>3. ASSUME NEW e \in Evaluators, IncGauge(e) PROVE CoverInv'
  <2>1. Unincremented' = Unincremented \ {e} /\ e \in Unincremented
    BY <1>3 DEF IncGauge, Unincremented, TypeInv, TypeOK
  <2>2. Cardinality(Unincremented') = U - 1
    BY <2>1, Finite, FS_RemoveElement DEF TypeInv
  <2>3. gauge' = gauge + 1 /\ Undecremented' = Undecremented /\ Covered' = Covered
    BY <1>3 DEF IncGauge, Undecremented, Covered, Held, Firing
  <2> QED
    BY <1>1, <2>2, <2>3 DEF CoverInv
<1>4. ASSUME NEW e \in Evaluators, NEW matching \in SUBSET Rules,
             StartEvaluate(e, matching) \/ ReadSeq(e) \/ WriteSeq(e)
      PROVE  CoverInv'
  <2>1. Unincremented' = Unincremented
    BY <1>4, SMTT(60) DEF StartEvaluate, ReadSeq, WriteSeq, Unincremented, TypeInv, TypeOK
  <2>2. UNCHANGED <<gauge, alerts, tick>>
    BY <1>4 DEF StartEvaluate, ReadSeq, WriteSeq
  <2> QED
    BY <2>1, <2>2, CoverShrinks DEF TypeInv, Covered, Held, Firing, Undecremented
<1>5. ASSUME NEW id \in Ids, Acknowledge(id) \/ Resolve(id) PROVE CoverInv'
  <2>1. Firing' \subseteq Firing
    <3>1. PICK s \in {"acknowledged", "resolved"} :
             alerts' = [alerts EXCEPT ![id].status = s] /\ alerts[id] # Absent
      BY <1>5 DEF Acknowledge, Resolve
    <3> QED
      BY <3>1, StatusChange DEF TypeInv
  <2>2. UNCHANGED <<gauge, eval, tick>>
    BY <1>5 DEF Acknowledge, Resolve
  <2> QED
    BY <2>1, <2>2, CoverShrinks DEF TypeInv, Covered, Held, Undecremented, Unincremented
<1>6. CASE StartTick
  <2>1. Held' \subseteq Firing
    BY <1>6 DEF StartTick, Held, CopyOf
  <2>2. UNCHANGED <<gauge, eval, alerts>> /\ Undecremented' = Undecremented
    BY <1>6 DEF StartTick, Undecremented
  <2> QED
    BY <2>1, <2>2, CoverShrinks DEF TypeInv, Covered, Firing, Unincremented
<1>7. ASSUME NEW c \in tick.todo, TickResolve(c) PROVE CoverInv'
  <2>1. Covered' = Covered \ {c.id} /\ c.id \in Covered
    <3>1. c.id \in Ids /\ alerts[c.id] # Absent
      BY DEF TypeInv, TypeOK, Copy, CopyInv
    <3>2. alerts' = [alerts EXCEPT ![c.id].status = "resolved"]
      BY <1>7 DEF TickResolve
    <3>3. Firing' = Firing \ {c.id}
      BY <3>1, <3>2, StatusChange DEF TypeInv
    <3>4. tick'.todo = tick.todo \ {c}
      BY <1>7 DEF TickResolve
    <3>5. \A d \in tick.todo \ {c} : d.id # c.id
      BY DEF TypeInv, CopyInv
    <3>6. Held' = Held \ {c.id} /\ c.id \in Held
      BY <3>4, <3>5 DEF Held
    <3> QED
      BY <3>3, <3>6 DEF Covered
  <2>2. Cardinality(Covered') = C - 1
    BY <2>1, Finite, FS_RemoveElement DEF TypeInv
  <2>3. UNCHANGED <<gauge, eval>> /\ Undecremented = 0 /\ Undecremented' = 1
    BY <1>7 DEF TickResolve, Undecremented
  <2> QED
    BY <1>1, <2>2, <2>3 DEF CoverInv, Unincremented
<1>8. CASE TickDecGauge
  <2>1. gauge' = gauge - 1 /\ Undecremented = 1 /\ Undecremented' = 0
    BY <1>8 DEF TickDecGauge, Undecremented, TypeInv, TypeOK
  <2>2. UNCHANGED <<eval, alerts>> /\ tick'.todo = tick.todo
    BY <1>8 DEF TickDecGauge, TypeInv, TypeOK
  <2> QED
    BY <1>1, <2>1, <2>2 DEF CoverInv, Unincremented, Covered, Held, Firing
<1>9. ASSUME NEW c \in tick.todo, TickEscalate(c) PROVE CoverInv'
  <2>1. Firing' \subseteq Firing
    <3>1. CASE alerts' = alerts
      BY <3>1 DEF Firing
    <3>2. CASE alerts' = [alerts EXCEPT ![c.id].escalated = TRUE]
               /\ alerts[c.id].status = "firing"
      <4>1. \A x \in Ids \ {c.id} : alerts'[x] = alerts[x]
        BY <3>2 DEF TypeInv, TypeOK
      <4> QED
        BY <3>2, <4>1 DEF Firing
    <3> QED
      BY <1>9, <3>1, <3>2 DEF TickEscalate
  <2>2. UNCHANGED <<gauge, eval>> /\ Held' \subseteq Held /\ Undecremented' = Undecremented
    BY <1>9 DEF TickEscalate, Held, Undecremented, TypeInv, TypeOK
  <2> QED
    BY <2>1, <2>2, CoverShrinks DEF TypeInv, Covered, Unincremented
<1>10. CASE EndTick \/ (\E id \in Ids, l \in Limits : PassLimit(id, l)) \/ UNCHANGED vars
  <2>1. UNCHANGED <<gauge, eval, alerts>> /\ Held' = Held /\ Undecremented' = Undecremented
    BY <1>10 DEF EndTick, PassLimit, vars, Held, Undecremented, TypeInv, TypeOK
  <2> QED
    BY <2>1, CoverShrinks DEF TypeInv, Covered, Firing, Unincremented
<1> QED
  BY <1>2, <1>3, <1>4, <1>5, <1>6, <1>7, <1>8, <1>9, <1>10 DEF Next, Tick

LEMMA AlertsInvCorrect == Spec => [](TypeInv /\ CoverInv)
<1>1. Init => CoverInv
  <2> SUFFICES ASSUME Init PROVE CoverInv
    OBVIOUS
  <2>1. Covered = {} /\ Unincremented = {} /\ Undecremented = 0 /\ gauge = 0
    BY DEF Init, Covered, Firing, Held, Unincremented, Undecremented, Absent
  <2> QED
    BY <2>1, FS_EmptySet DEF CoverInv
<1> QED
  BY <1>1, TypeInit, TypeStep, CoverStep, PTL DEF Spec

\* Every state has its type.
THEOREM TypeCorrect == Spec => []TypeOK
BY AlertsInvCorrect, PTL DEF TypeInv

\* The gauge of active alerts is never too low, whatever Evaluate calls, REST
\* requests and the lifecycle tick do to each other, lost sequence numbers included.
THEOREM GaugeCovers == Spec => []GaugeCoversFiring
<1>1. TypeInv /\ CoverInv => GaugeCoversFiring
  <2> SUFFICES ASSUME TypeInv, CoverInv PROVE GaugeCoversFiring
    OBVIOUS
  <2>1. Cardinality(Firing) <= Cardinality(Covered)
    BY Finite, FS_Subset DEF TypeInv, Covered
  <2> QED
    BY <2>1, Finite DEF TypeInv, CoverInv, GaugeCoversFiring
<1> QED
  BY <1>1, AlertsInvCorrect, PTL

\* EscalateAlert has no guard against a second escalation; that the tick is the
\* only caller, and reads EscalatedAt before, is enough.
THEOREM EscalatedOnceCorrect == Spec => []EscalatedOnce
<1>1. TypeInv => EscalatedOnce
  BY DEF TypeInv, TypeOK, EscalationInv, EscalatedOnce
<1> QED
  BY <1>1, AlertsInvCorrect, PTL

-----------------------------------------------------------------------------
(* As long as no two evaluators have overlapped, the one between reading      *)
(* Manager.seq and storing its alert is the only one to move it, so the       *)
(* alerts are numbered without a gap: up to seq or, when the next number is   *)
(* taken and its alert not yet stored, up to the one before.                  *)

Unstored == IF \E e \in Evaluators : eval[e].pc = "written" THEN 1 ELSE 0

NumberedInv ==
    /\ \A e, f \in Numbering : e = f
    /\ \A e \in Numbering : eval[e].seq = seq
    /\ \A id \in Ids : alerts[id] # Absent <=> id <= seq - Unstored

\* A step that adds no alert, removes none and moves no number.
LEMMA NumberedKept ==
  ASSUME NumberedInv, seq' = seq, UNCHANGED eval,
         \A id \in Ids : alerts'[id] # Absent <=> alerts[id] # Absent
  PROVE  NumberedInv'
<1>1. Unstored' = Unstored /\ Numbering' = Numbering
  BY DEF Unstored, Numbering
<1> QED
  BY <1>1 DEF NumberedInv

\* The only evaluator that numbers stores its alert where none was.
LEMMA StoresNew ==
  ASSUME TypeInv, NumberedInv, NEW e \in Evaluators, NEW rule \in Rules, AddAlert(e, rule)
  PROVE  /\ seq \in Ids /\ Numbering = {e} /\ Unstored = 1 /\ alerts[seq] = Absent
         /\ alerts' = [alerts EXCEPT ![seq] =
                         [status |-> "firing", rule |-> rule, escalated |-> FALSE]]
<1>1. eval[e].pc = "written" /\ e \in Numbering
  BY DEF AddAlert, Numbering
<1>2. Numbering = {e} /\ Unstored = 1
  BY <1>1 DEF NumberedInv, Unstored
<1>3. eval[e].seq = seq /\ seq \in 0..MaxSeq /\ seq >= 1
  BY <1>1 DEF NumberedInv, TypeInv, TypeOK, SeqInv
<1>4. seq \in Ids
  BY <1>3, MaxSeqAssumption DEF Ids
<1>5. alerts[seq] = Absent
  BY <1>2, <1>3, <1>4 DEF NumberedInv
<1> QED
  BY <1>2, <1>3, <1>4, <1>5 DEF AddAlert

LEMMA NumberedStep ==
  TypeInv /\ (~raced => NumberedInv) /\ [Next]_vars => (~raced' => NumberedInv')
<1> SUFFICES ASSUME TypeInv, ~raced => NumberedInv, [Next]_vars, ~raced' PROVE NumberedInv'
  OBVIOUS
<1>0. /\ eval \in [Evaluators -> EvalState] /\ alerts \in [Ids -> Alert \cup {Absent}]
      /\ seq \in 0..MaxSeq /\ MaxSeq \in Nat
  BY MaxSeqAssumption DEF TypeInv, TypeOK, EvalState
<1>n. NumberedInv
  BY DEF Next, Tick, StartEvaluate, ReadSeq, WriteSeq, AddAlert, IncGauge, Acknowledge, Resolve,
     PassLimit, StartTick, TickResolve, TickDecGauge, TickEscalate, EndTick, vars
<1>1. ASSUME NEW e \in Evaluators, NEW matching \in SUBSET Rules, StartEvaluate(e, matching)
      PROVE  NumberedInv'
  <2>1. /\ \A f \in Evaluators : eval'[f].pc = eval[f].pc /\ eval'[f].seq = eval[f].seq
        /\ UNCHANGED <<seq, alerts>>
    BY <1>0, <1>1 DEF StartEvaluate, EvalState
  <2>2. Numbering' = Numbering /\ Unstored' = Unstored
    BY <2>1 DEF Numbering, Unstored
  <2>3. \A f \in Numbering : eval'[f].seq = eval[f].seq
    BY <2>1 DEF Numbering
  <2> QED
    BY <1>n, <2>1, <2>2, <2>3 DEF NumberedInv
<1>2. ASSUME NEW e \in Evaluators, ReadSeq(e) PROVE NumberedInv'
  <2>1. Numbering = {} /\ UNCHANGED <<seq, alerts>>
    BY <1>2 DEF ReadSeq
  <2>2. eval'[e].pc = "read" /\ eval'[e].seq = seq /\ \A f \in Evaluators \ {e} : eval'[f] = eval[f]
    BY <1>0, <1>2 DEF ReadSeq, EvalState
  <2>3. Numbering' = {e}
    BY <2>1, <2>2 DEF Numbering
  <2>4. Unstored = 0 /\ Unstored' = 0
    BY <2>1, <2>2 DEF Numbering, Unstored
  <2> QED
    BY <1>n, <2>1, <2>2, <2>3, <2>4 DEF NumberedInv
<1>3. ASSUME NEW e \in Evaluators, WriteSeq(e) PROVE NumberedInv'
  <2>1. e \in Numbering /\ eval[e].pc = "read" /\ eval[e].seq = seq /\ Numbering = {e}
    BY <1>n, <1>3 DEF WriteSeq, NumberedInv, Numbering
  <2> DEFINE n == eval[e].seq + 1
  <2>2. seq' = n /\ eval' = [eval EXCEPT ![e].pc = "written", ![e].seq = n]
        /\ UNCHANGED alerts /\ n = seq + 1
    BY <1>3, <2>1 DEF WriteSeq
  <2> HIDE DEF n
  <2>3. eval'[e].pc = "written" /\ eval'[e].seq = n /\ \A f \in Evaluators \ {e} : eval'[f] = eval[f]
    BY <1>0, <2>2 DEF EvalState
  <2>4. Numbering' = {e} /\ Unstored = 0 /\ Unstored' = 1
    BY <2>1, <2>3 DEF Unstored, Numbering
  <2> QED
    BY <1>0, <1>n, <2>2, <2>3, <2>4 DEF NumberedInv
<1>4. ASSUME NEW e \in Evaluators, NEW rule \in Rules, AddAlert(e, rule) PROVE NumberedInv'
  <2>1. /\ seq \in Ids /\ Numbering = {e} /\ Unstored = 1
        /\ alerts' = [alerts EXCEPT ![seq] = [status |-> "firing", rule |-> rule, escalated |-> FALSE]]
    BY <1>n, <1>4, StoresNew
  <2>2. seq' = seq /\ eval'[e].pc = "stored" /\ \A f \in Evaluators \ {e} : eval'[f] = eval[f]
    BY <1>0, <1>4 DEF AddAlert, EvalState
  <2>3. Numbering' = {} /\ Unstored' = 0
    BY <2>1, <2>2 DEF Numbering, Unstored
  <2>4. \A id \in Ids : alerts'[id] # Absent <=> id = seq \/ alerts[id] # Absent
    BY <1>0, <2>1 DEF Absent
  <2>5. \A id \in Ids : id <= seq <=> id = seq \/ id <= seq - 1
    BY <1>0 DEF Ids
  <2>6. \A id \in Ids : alerts[id] # Absent <=> id <= seq - 1
    BY <1>n, <2>1 DEF NumberedInv
  <2>7. \A id \in Ids : alerts'[id] # Absent <=> id <= seq
    BY <2>4, <2>5, <2>6
  <2>8. seq' - Unstored' = seq
    BY <1>0, <2>2, <2>3
  <2> QED
    BY <2>3, <2>7, <2>8 DEF NumberedInv
<1>5. ASSUME NEW e \in Evaluators, IncGauge(e) PROVE NumberedInv'
  <2>1. /\ eval[e].pc = "stored" /\ eval'[e].pc = "idle"
        /\ \A f \in Evaluators \ {e} : eval'[f] = eval[f]
        /\ UNCHANGED <<seq, alerts>>
    BY <1>0, <1>5 DEF IncGauge, EvalState
  <2>2. Numbering' = Numbering /\ Unstored' = Unstored /\ e \notin Numbering
    BY <2>1 DEF Numbering, Unstored
  <2> QED
    BY <1>n, <2>1, <2>2 DEF NumberedInv, Numbering
<1>6. ASSUME NEW id \in Ids, NEW s \in {"acknowledged", "resolved"}, alerts[id] # Absent,
             alerts' = [alerts EXCEPT ![id].status = s], UNCHANGED <<seq, eval, escalations>>
      PROVE  NumberedInv'
  <2>1. \A x \in Ids : alerts'[x] = Absent <=> alerts[x] = Absent
    BY <1>6, StatusUpdate
  <2> QED
    BY <1>n, <1>6, <2>1, NumberedKept
<1>7. ASSUME NEW c \in tick.todo, TickResolve(c) PROVE NumberedInv'
  <2>1. c.id \in Ids /\ alerts[c.id] # Absent
    BY DEF TypeInv, TypeOK, Copy, CopyInv
  <2> QED
    BY <1>6, <1>7, <2>1 DEF TickResolve
<1>8. ASSUME NEW c \in tick.todo, TickEscalate(c) PROVE NumberedInv'
  <2>1. c.id \in Ids /\ alerts[c.id] # Absent
    BY DEF TypeInv, TypeOK, Copy, CopyInv
  <2>2. [alerts[c.id] EXCEPT !.escalated = TRUE] \in Alert /\ Absent \notin Alert
    BY <2>1, AlertUpdate DEF TypeInv, Alert, Absent
  <2>3. \A x \in Ids : alerts'[x] = Absent <=> alerts[x] = Absent
    BY <1>0, <1>8, <2>1, <2>2 DEF TickEscalate
  <2> QED
    BY <1>n, <1>8, <2>3, NumberedKept DEF TickEscalate
<1>9. CASE UNCHANGED <<seq, alerts, eval>>
  BY <1>n, <1>9, NumberedKept
<1> QED
  BY <1>1, <1>2, <1>3, <1>4, <1>5, <1>6, <1>7, <1>8, <1>9 DEF Next, Tick, Acknowledge, Resolve,
     PassLimit, StartTick, TickDecGauge, EndTick, vars

\* Evaluate runs in as many goroutines as there are events, and Manager.seq has no lock:
\* until two of them have overlapped between reading it and storing, no alert replaces
\* another, whatever REST and the tick do to those stored before.
THEOREM LostOnlyByRaceCorrect == Spec => LostOnlyByRace
<1>1. Init => (~raced => NumberedInv)
  <2> SUFFICES ASSUME Init PROVE NumberedInv
    OBVIOUS
  <2>1. Unstored = 0 /\ seq = 0 /\ Numbering = {}
    BY DEF Init, Unstored, Numbering
  <2>2. \A id \in Ids : alerts[id] = Absent /\ ~(id <= 0)
    BY MaxSeqAssumption DEF Init, Ids
  <2> QED
    BY <2>1, <2>2 DEF NumberedInv
<1>2. TypeInv /\ (~raced => NumberedInv) /\ [Next]_vars => [~raced => StoresApart]_vars
  <2> SUFFICES ASSUME TypeInv, NumberedInv, Next,
                      NEW d \in Evaluators, eval'[d].pc = "stored", eval[d].pc # "stored"
               PROVE  \E id \in Ids : alerts[id] = Absent /\ alerts'[id] # Absent
    BY DEF StoresApart
  <2>0. eval \in [Evaluators -> EvalState]
    BY DEF TypeInv, TypeOK, EvalState
  <2>1. ASSUME NEW e \in Evaluators, NEW rule \in Rules, AddAlert(e, rule)
        PROVE  \E id \in Ids : alerts[id] = Absent /\ alerts'[id] # Absent
    <3>1. /\ seq \in Ids /\ alerts[seq] = Absent
          /\ alerts' = [alerts EXCEPT ![seq] =
                          [status |-> "firing", rule |-> rule, escalated |-> FALSE]]
      BY <2>1, StoresNew
    <3>2. alerts'[seq] # Absent
      BY <3>1 DEF TypeInv, TypeOK, Absent
    <3> QED
      BY <3>1, <3>2
  <2>2. ASSUME NEW e \in Evaluators, NEW matching \in SUBSET Rules,
               StartEvaluate(e, matching) \/ ReadSeq(e) \/ WriteSeq(e) \/ IncGauge(e)
        PROVE  FALSE
    <3>1. CASE StartEvaluate(e, matching)
      BY <2>0, <3>1 DEF StartEvaluate, EvalState
    <3>2. CASE ReadSeq(e)
      BY <2>0, <3>2 DEF ReadSeq, EvalState
    <3>3. CASE WriteSeq(e)
      BY <2>0, <3>3 DEF WriteSeq, EvalState
    <3>4. CASE IncGauge(e)
      BY <2>0, <3>4 DEF IncGauge, EvalState
    <3> QED
      BY <2>2, <3>1, <3>2, <3>3, <3>4
  <2>3. CASE UNCHANGED eval
    BY <2>3
  <2> QED
    BY <2>1, <2>2, <2>3 DEF Next, Tick, Acknowledge, Resolve, PassLimit, StartTick, TickResolve,
       TickDecGauge, TickEscalate, EndTick
<1> QED
  BY <1>1, <1>2, AlertsInvCorrect, NumberedStep, PTL DEF Spec, LostOnlyByRace
==============================================================================
