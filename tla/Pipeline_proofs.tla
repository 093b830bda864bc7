---------------------------- MODULE Pipeline_proofs ----------------------------
(***************************************************************************)
(* Proofs about Pipeline, for any number of goroutines, traces, tenants    *)
(* and events, any templates and any detector: traces hold what is stored, *)
(* what is shown is there, triggers are counted, and what the tracker      *)
(* sends itself sets off no loop but the detector's. With one goroutine    *)
(* every honey-token trigger has its incident.                             *)
(***************************************************************************)
EXTENDS Pipeline, FiniteSetTheorems, TLAPS

Busy == {w \in Workers : work[w] # Idle}

\* An event is in one place at a time: on the bus, waiting for its goroutine or with
\* one worker; it is in the store exactly if its worker is past AddEvent.
PlaceInv ==
    /\ \A e \in spawned \cup bus \cup stored : e.id <= born
    /\ \A w \in Busy : work[w].ev.id <= born
    /\ spawned \cap bus = {} /\ (spawned \cup bus) \cap stored = {}
    /\ \A w \in Busy :
          /\ work[w].ev \notin spawned \cup bus
          /\ work[w].ev \in stored <=> work[w].pc \notin {"reject", "store"}
    /\ \A v, w \in Busy : work[v].ev = work[w].ev => v = w

\* Spans are the stored events of the trace that are past UpsertTrace, each once.
SpanInv ==
    \A t \in Traces :
        /\ Range(traces[t].spans) = {e \in stored : e.of.trace = t} \ Unspanned
        /\ \A i, j \in DOMAIN traces[t].spans : traces[t].spans[i] = traces[t].spans[j] => i = j

\* What an event of the tracker's own may be, wherever it is.
Own(e) ==
    e.gen > 0 =>
        /\ e.of.pipeline = None
        /\ e.of.type = "anomaly" \/ (e.of.type = "bypass" /\ e.gen = 1) \/ ~Valid(e.of)

EchoInv ==
    /\ \A e \in spawned \cup bus : Own(e)
    /\ \A e \in stored : Own(e) /\ Valid(e.of)
    /\ \A w \in Busy : Own(work[w].ev) /\ (Valid(work[w].ev.of) <=> work[w].pc # "reject")

\* What was shown is there, and a goroutine about to show an event has announced its
\* incident.
ShownInv ==
    /\ ShownIsThere
    /\ \A w \in Workers : At(w, "show") /\ Warrants(Ev(w)) => <<"incident", work[w].ev.id>> \in shown

\* Sequence numbers on their way are in range; once one was written, the token numbers
\* of the configuration are no longer given out.
SeqInv ==
    /\ \A w \in Workers : At(w, "read") => work[w].seq < MaxIncidents
    /\ \A w \in Workers : At(w, "written") => work[w].seq >= 1 /\ incidentSeq >= 1
    /\ tokenSeq >= SeedTokens
    /\ \A a \in Admins : admin[a].pc = "read" => SeedTokens <= admin[a].seq /\ admin[a].seq < MaxTokens
    /\ \A a \in Admins :
          admin[a].pc = "written" => admin[a].seq > SeedTokens /\ tokenSeq > SeedTokens

PipelineInv ==
    TypeOK /\ PlaceInv /\ SpanInv /\ TraceDecided /\ EchoInv /\ ShownInv /\ SeqInv /\ TriggersCounted
--------------------------------------------------------------------------------
(* Types                                                                      *)

Stage == {"reject", "store", "trace", "lineage", "bypass", "honey", "incident", "announce", "show", "hooks"}
Numbered == {"read", "written"}

\* What the tracker makes of an event is an event.
LEMMA MadeEvents ==
  ASSUME NEW t \in Template
  PROVE  /\ BypassEvent(t) \in Template /\ AlertEvent(t) \in Template /\ IncidentEvent(t) \in Template
         /\ \A f \in Findings : AnomalyEvent(t, f) \in Template
<1>0. 0 \in 0..MaxTokens
  BY BoundsAssumption
<1>1. BypassEvent(t) \in Template
  BY <1>0 DEF BypassEvent, Template, Types, Statuses, ValidStatuses
<1>2. AlertEvent(t) \in Template
  BY DEF AlertEvent, Template, Types, Statuses, ValidStatuses
<1>3. IncidentEvent(t) \in Template
  BY <1>0 DEF IncidentEvent, Template, Types, Statuses, ValidStatuses
<1>4. ASSUME NEW f \in Findings PROVE AnomalyEvent(t, f) \in Template
  <2>1. (f = "critical") \in BOOLEAN
    OBVIOUS
  <2> DEFINE critical == f = "critical"
  <2> HIDE DEF critical
  <2>2. critical \in BOOLEAN
    BY <2>1 DEF critical
  <2>3. [t EXCEPT !.type = "anomaly", !.severe = critical, !.status = "error", !.closing = FALSE,
                  !.pipeline = None, !.exposed = FALSE, !.token = 0] \in Template
    BY <1>0, <2>2 DEF Template, Types, Statuses, ValidStatuses
  <2> QED
    BY <2>3 DEF AnomalyEvent, critical
<1> QED
  BY <1>1, <1>2, <1>3, <1>4

LEMMA LineageType == \A tenant \in Tenants \cup {None} : LineageEvent(tenant) \in Template
BY BoundsAssumption DEF LineageEvent, Template, Types, Statuses, ValidStatuses

\* What a goroutine's place says of its state.
LEMMA JobShape ==
  ASSUME TypeOK, NEW w \in Workers
  PROVE  /\ work[w].pc = "idle" <=> work[w] = Idle
         /\ work[w].pc \in Stage => work[w] \in [pc : Stage, ev : Event]
         /\ work[w].pc \in Numbered => work[w] \in [pc : Numbered, ev : Event, seq : 0..MaxIncidents]
         /\ work[w].pc \in Stage \cup Numbered \cup {"idle"}
         /\ work[w] # Idle => work[w].ev \in Event
<1>1. work[w] \in Job
  BY DEF TypeOK
<1>2. CASE work[w] = Idle
  BY <1>2 DEF Idle, Stage, Numbered
<1>3. CASE work[w] \in [pc : Stage, ev : Event]
  BY <1>3 DEF Idle, Stage, Numbered
<1>4. CASE work[w] \in [pc : Numbered, ev : Event, seq : 0..MaxIncidents]
  BY <1>4 DEF Idle, Stage, Numbered
<1> QED
  BY <1>1, <1>2, <1>3, <1>4 DEF Job, Stage, Numbered

\* Going on to the next stage changes nothing else about a goroutine.
LEMMA GotoShape ==
  ASSUME TypeOK, NEW w \in Workers, work[w].pc \in Stage, NEW pc \in Stage, Goto(w, pc)
  PROVE  /\ work' \in [Workers -> Job]
         /\ work[w] # Idle /\ work[w].ev \in Event /\ Ev(w) \in Template
         /\ work'[w] # Idle /\ work'[w].pc = pc /\ work'[w].ev = work[w].ev
         /\ \A v \in Workers \ {w} : work'[v] = work[v]
<1>1. work[w] \in [pc : Stage, ev : Event]
  BY JobShape
<1> DEFINE r == [work[w] EXCEPT !.pc = pc]
<1>2. r \in [pc : Stage, ev : Event] /\ r.pc = pc /\ r.ev = work[w].ev
  BY <1>1
<1>3. r \in Job /\ r # Idle
  BY <1>2 DEF Job, Stage, Idle
<1>4. work[w] # Idle /\ work[w].ev \in Event /\ work[w].ev.of \in Template
  BY <1>1 DEF Idle, Stage, Event
<1>5. work' = [work EXCEPT ![w] = r] /\ work \in [Workers -> Job]
  BY DEF Goto, TypeOK
<1> HIDE DEF r
<1> QED
  BY <1>2, <1>3, <1>4, <1>5 DEF Ev

\* So does any other way to another stage with the same event.
LEMMA StageShape ==
  ASSUME TypeOK, NEW w \in Workers, work[w] # Idle, NEW r \in Job, r # Idle, r.ev = work[w].ev,
         work' = [work EXCEPT ![w] = r]
  PROVE  /\ work' \in [Workers -> Job]
         /\ work[w].ev \in Event /\ Ev(w) \in Template
         /\ work'[w] = r
         /\ \A v \in Workers \ {w} : work'[v] = work[v]
BY JobShape DEF TypeOK, Ev, Event

LEMMA BeginShape ==
  ASSUME TypeOK, NEW w \in Workers, NEW e \in Event, Begin(w, e)
  PROVE  /\ work' \in [Workers -> Job]
         /\ work[w] = Idle
         /\ work'[w] # Idle /\ work'[w].ev = e
         /\ work'[w].pc = IF Valid(e.of) THEN "store" ELSE "reject"
         /\ \A v \in Workers \ {w} : work'[v] = work[v]
<1> DEFINE r == [pc |-> IF Valid(e.of) THEN "store" ELSE "reject", ev |-> e]
<1>1. r \in Job /\ r # Idle /\ r.ev = e /\ r.pc = IF Valid(e.of) THEN "store" ELSE "reject"
  BY DEF Job, Idle
<1>2. work' = [work EXCEPT ![w] = r] /\ work[w] = Idle
  BY DEF Begin
<1> HIDE DEF r
<1> QED
  BY <1>1, <1>2 DEF TypeOK

\* The events that a step of w may send out.
LEMMA CausedType ==
  ASSUME TypeOK, NEW w \in Workers, work[w] # Idle, NEW id \in Nat \ {0}, NEW t \in Template
  PROVE  Caused(w, id, t) \in Event
<1>1. work[w].ev \in Event
  BY JobShape
<1> QED
  BY <1>1 DEF Caused, Event

LEMMA PublishShape ==
  ASSUME TypeOK, NEW w \in Workers, work[w] # Idle, NEW t \in Template, Publish(w, t)
  PROVE  /\ bus' \subseteq Event /\ born' \in Nat
         /\ \/ bus' = bus /\ born' = born
            \/ bus' = bus \cup {Caused(w, born + 1, t)} /\ born' = born + 1
<1>1. born \in Nat /\ born + 1 \in Nat \ {0} /\ bus \subseteq Event
  BY DEF TypeOK
<1>2. Caused(w, born + 1, t) \in Event
  BY <1>1, CausedType
<1> QED
  BY <1>1, <1>2 DEF Publish

Trace == [spans : Seq(Event), status : Closed \cup {"in_progress"},
          pipeline : {"full", "lite", "other", None}, end : Nat]

LEMMA SpanShape ==
  ASSUME NEW tr \in Trace, NEW e \in Event
  PROVE  /\ WithSpan(tr, e) \in Trace
         /\ WithSpan(tr, e).spans = Append(tr.spans, e)
         /\ WithSpan(tr, e).status =
               IF e.of.status \in {"blocked", "error"} THEN e.of.status
               ELSE IF e.of.closing THEN "completed" ELSE tr.status
         /\ WithSpan(tr, e).end = IF WithSpan(tr, e).status \in Closed THEN e.id ELSE tr.end
<1> DEFINE status == IF e.of.status \in {"blocked", "error"} THEN e.of.status
                     ELSE IF e.of.closing THEN "completed" ELSE tr.status
<1>1. tr.spans \in Seq(Event) /\ tr.status \in Closed \cup {"in_progress"} /\ tr.end \in Nat
      /\ tr.pipeline \in {"full", "lite", "other", None}
  BY DEF Trace
<1>2. e.of \in Template /\ e.id \in Nat
  BY DEF Event
<1>3. status \in Closed \cup {"in_progress"} /\ e.of.pipeline \in {"full", "lite", "other", None}
  BY <1>1, <1>2 DEF Closed, Template
<1>4. Append(tr.spans, e) \in Seq(Event)
  BY <1>1
<1> HIDE DEF status
<1>5. WithSpan(tr, e) =
        [spans |-> Append(tr.spans, e), status |-> status,
         pipeline |-> IF tr.pipeline = None THEN e.of.pipeline ELSE tr.pipeline,
         end |-> IF status \in Closed THEN e.id ELSE tr.end]
  BY DEF WithSpan, status
<1>6. WithSpan(tr, e) \in Trace
  BY <1>1, <1>2, <1>3, <1>4, <1>5 DEF Trace
<1>7. /\ WithSpan(tr, e).spans = Append(tr.spans, e)
      /\ WithSpan(tr, e).status = status
      /\ WithSpan(tr, e).end = IF status \in Closed THEN e.id ELSE tr.end
  BY <1>5
<1> QED
  BY <1>6, <1>7 DEF status

\* What the detector finds in the event of w.
LEMMA InspectShape ==
  ASSUME TypeOK, NEW w \in Workers, Inspect(w)
  PROVE  /\ work[w] # Idle /\ work[w].pc = "hooks" /\ work[w].ev \in Event
         /\ work' \in [Workers -> Job] /\ work'[w] = Idle
         /\ \A v \in Workers \ {w} : work'[v] = work[v]
         /\ born' \in {born, born + 2} /\ born \in Nat
         /\ spawned' \subseteq Event /\ spawned \subseteq spawned'
         /\ \A e \in spawned' \ spawned :
               e.id \in {born + 1, born + 2} /\ born' = born + 2
               /\ e.gen > 0 /\ e.of.type = "anomaly" /\ e.of.pipeline = None
         /\ \A d, e \in spawned' \ spawned : d.id = e.id => d = e
         /\ shown \subseteq shown' /\ \A x \in shown' \ shown : x[1] = "anomaly" /\ x \in {"anomaly"} \X Nat
<1>1. work[w].pc = "hooks" /\ work[w] # Idle
  BY DEF Inspect, At, Idle
<1>2. work[w].ev \in Event /\ Ev(w) \in Template /\ work[w].ev.gen \in Nat
  BY <1>1, JobShape DEF Ev, Event
<1>3. Ev(w).type \in Types
  BY <1>2 DEF Template
<1>4. PICK found \in SUBSET Findings :
        /\ spawned' = spawned \cup {Caused(w, born + Rank(f), AnomalyEvent(Ev(w), f)) : f \in found}
        /\ shown' = shown \cup {<<"anomaly", born + Rank(f)>> : f \in found}
        /\ born' = IF found = {} THEN born ELSE born + 2
  <2>1. Detects[Ev(w).type] \subseteq SUBSET Findings
    BY <1>3, SetsAssumption
  <2> QED
    BY <2>1 DEF Inspect
<1>5. born \in Nat /\ work \in [Workers -> Job] /\ spawned \subseteq Event
  BY DEF TypeOK
<1>6. ASSUME NEW f \in found
      PROVE  LET e == Caused(w, born + Rank(f), AnomalyEvent(Ev(w), f))
             IN  /\ e \in Event /\ e.id \in {born + 1, born + 2} /\ e.id = born + Rank(f)
                 /\ e.gen > 0 /\ e.of.type = "anomaly" /\ e.of.pipeline = None
  <2>1. AnomalyEvent(Ev(w), f) \in Template
    BY <1>2, MadeEvents
  <2>2. Rank(f) \in {1, 2} /\ born + Rank(f) \in Nat \ {0}
    BY <1>5 DEF Rank
  <2>3. Caused(w, born + Rank(f), AnomalyEvent(Ev(w), f)) \in Event
    BY <1>1, <2>1, <2>2, CausedType
  <2>4. AnomalyEvent(Ev(w), f).type = "anomaly" /\ AnomalyEvent(Ev(w), f).pipeline = None
    BY <1>2 DEF AnomalyEvent, Template
  <2> QED
    BY <1>2, <1>5, <2>2, <2>3, <2>4 DEF Caused
<1>7. work' = [work EXCEPT ![w] = Idle] /\ Idle \in Job
  BY DEF Inspect, Job
<1>8. \A f \in found : born + Rank(f) \in Nat
  BY <1>5 DEF Rank
<1>9. work' \in [Workers -> Job] /\ work'[w] = Idle /\ \A v \in Workers \ {w} : work'[v] = work[v]
  BY <1>5, <1>7
<1>10. /\ spawned' \subseteq Event /\ spawned \subseteq spawned'
       /\ \A e \in spawned' \ spawned :
               e.id \in {born + 1, born + 2} /\ born' = born + 2
               /\ e.gen > 0 /\ e.of.type = "anomaly" /\ e.of.pipeline = None
  BY <1>4, <1>5, <1>6
<1>11. shown \subseteq shown' /\ \A x \in shown' \ shown : x[1] = "anomaly" /\ x \in {"anomaly"} \X Nat
  BY <1>4, <1>8
<1>12. born' \in {born, born + 2}
  BY <1>4
<1>13. \A d, e \in spawned' \ spawned : d.id = e.id => d = e
  <2> DEFINE Of(f) == Caused(w, born + Rank(f), AnomalyEvent(Ev(w), f))
  <2>1. \A f \in found : Of(f).id = born + Rank(f)
    BY <1>6
  <2>2. \A f, g \in found : born + Rank(f) = born + Rank(g) => f = g
    BY <1>5 DEF Findings, Rank
  <2>3. \A e \in spawned' \ spawned : \E f \in found : e = Of(f)
    BY <1>4
  <2> HIDE DEF Of
  <2> QED
    BY <2>1, <2>2, <2>3
<1> QED
  BY <1>1, <1>2, <1>5, <1>9, <1>10, <1>11, <1>12, <1>13

\* What the bypass monitor sends out, and what it remembers.
LEMMA BypassShape ==
  ASSUME TypeOK, NEW w \in Workers, BypassCheck(w)
  PROVE  /\ work[w].pc = "bypass" /\ Goto(w, "honey") /\ work[w].ev \in Event
         /\ history' \in [Tenants -> [full : Nat, other : Nat]]
         /\ spawned' \subseteq Event /\ born' \in Nat
         /\ \/ spawned' = spawned /\ born' = born
            \/ /\ spawned' = spawned \cup {Caused(w, born + 1, BypassEvent(Ev(w)))} /\ born' = born + 1
               /\ Ev(w).pipeline # None
<1>1. work[w].pc = "bypass" /\ Goto(w, "honey")
  BY DEF BypassCheck, At
<1>2. work[w] # Idle /\ work[w].ev \in Event /\ Ev(w) \in Template
  BY <1>1, JobShape DEF Idle, Stage, Ev, Event
<1>3. born \in Nat /\ born + 1 \in Nat \ {0} /\ spawned \subseteq Event
  BY DEF TypeOK
<1>4. Caused(w, born + 1, BypassEvent(Ev(w))) \in Event
  BY <1>2, <1>3, MadeEvents, CausedType
<1>5. CASE Ev(w).tenant = None \/ Ev(w).pipeline = None
  BY <1>1, <1>2, <1>3, <1>5 DEF BypassCheck, TypeOK
<1>6. CASE ~(Ev(w).tenant = None \/ Ev(w).pipeline = None)
  <2> DEFINE a == Ev(w).tenant
  <2>1. a \in Tenants /\ history[a] \in [full : Nat, other : Nat]
    BY <1>2, <1>6 DEF Template, TypeOK
  <2>2. PICK full \in 0..history[a].full, other \in 0..history[a].other :
          LET prior == [full |-> full, other |-> other]
          IN  /\ history' = [history EXCEPT ![a] =
                    IF Ev(w).pipeline = "full" THEN [prior EXCEPT !.full = @ + 1]
                                               ELSE [prior EXCEPT !.other = @ + 1]]
              /\ \/ spawned' = spawned /\ born' = born
                 \/ /\ spawned' = spawned \cup {Caused(w, born + 1, BypassEvent(Ev(w)))}
                    /\ born' = born + 1
    BY <1>6 DEF BypassCheck
  <2>3. full \in Nat /\ other \in Nat
    BY <2>1
  <2> DEFINE prior == [full |-> full, other |-> other]
             more == [prior EXCEPT !.full = @ + 1]
             less == [prior EXCEPT !.other = @ + 1]
  <2>4. more \in [full : Nat, other : Nat] /\ less \in [full : Nat, other : Nat]
    BY <2>3
  <2>5. history' \in [Tenants -> [full : Nat, other : Nat]]
    <3>1. history' = [history EXCEPT ![a] = IF Ev(w).pipeline = "full" THEN more ELSE less]
      BY <2>2
    <3> HIDE DEF more, less
    <3>2. (IF Ev(w).pipeline = "full" THEN more ELSE less) \in [full : Nat, other : Nat]
      BY <2>4
    <3>3. history \in [Tenants -> [full : Nat, other : Nat]]
      BY DEF TypeOK
    <3> DEFINE new == IF Ev(w).pipeline = "full" THEN more ELSE less
    <3> HIDE DEF new
    <3>4. history' = [history EXCEPT ![a] = new] /\ new \in [full : Nat, other : Nat]
      BY <3>1, <3>2 DEF new
    <3> QED
      BY <3>3, <3>4
  <2> QED
    BY <1>1, <1>2, <1>3, <1>4, <1>6, <2>2, <2>5
<1> QED
  BY <1>5, <1>6

\* What the honey token manager records and sends out.
LEMMA CheckShape ==
  ASSUME TypeOK, NEW w \in Workers, CheckEvent(w)
  PROVE  /\ work[w].pc = "honey" /\ work[w].ev \in Event /\ Ev(w) \in Template
         /\ Goto(w, IF Warrants(Ev(w)) THEN "incident" ELSE "show")
         /\ bus' \subseteq Event /\ born' \in Nat
         /\ \/ bus' = bus /\ born' = born
            \/ bus' = bus \cup {Caused(w, born + 1, AlertEvent(Ev(w)))} /\ born' = born + 1
         /\ IF Ev(w).type = "honey" THEN RecordTrigger(Ev(w).token, work[w].ev.id)
                                    ELSE UNCHANGED <<tokens, triggers>>
<1>1. work[w].pc = "honey" /\ Goto(w, IF Warrants(Ev(w)) THEN "incident" ELSE "show")
  BY DEF CheckEvent, At
<1>2. work[w] # Idle /\ work[w].ev \in Event /\ Ev(w) \in Template
  BY <1>1, JobShape DEF Idle, Stage, Ev, Event
<1>3. AlertEvent(Ev(w)) \in Template
  BY <1>2, MadeEvents
<1>4. CASE Ev(w).type = "honey"
  <2>1. Publish(w, AlertEvent(Ev(w)))
    BY <1>4 DEF CheckEvent
  <2> QED
    BY <1>1, <1>2, <1>3, <1>4, <2>1, PublishShape DEF CheckEvent
<1>5. CASE Ev(w).type # "honey"
  BY <1>1, <1>2, <1>5 DEF CheckEvent, TypeOK
<1> QED
  BY <1>4, <1>5

\* Each trigger is counted.
LEMMA RecordShape ==
  ASSUME TypeOK, NEW t, NEW id \in Nat, RecordTrigger(t, id)
  PROVE  /\ tokens' \in [TokenIds -> [status : {"enabled"}, count : Nat] \cup {Absent}]
         /\ triggers' \in [TokenIds -> Seq(Nat)]
         /\ \A u \in TokenIds : tokens'[u] = Absent <=> tokens[u] = Absent
         /\ \A u \in TokenIds \ {t} : tokens'[u] = tokens[u] /\ triggers'[u] = triggers[u]
         /\ t \in TokenIds /\ tokens[t] # Absent =>
               /\ tokens[t].count \in Nat
               /\ tokens'[t].count = tokens[t].count + 1 /\ triggers'[t] = Append(triggers[t], id)
<1>1. CASE t \in TokenIds /\ tokens[t] # Absent
  <2>1. tokens[t] \in [status : {"enabled"}, count : Nat] /\ triggers[t] \in Seq(Nat)
    BY <1>1 DEF TypeOK
  <2> DEFINE r == [tokens[t] EXCEPT !.count = @ + 1]
  <2>2. r \in [status : {"enabled"}, count : Nat] /\ r.count = tokens[t].count + 1 /\ r # Absent
    BY <2>1 DEF Absent
  <2>3. tokens' = [tokens EXCEPT ![t] = r] /\ triggers' = [triggers EXCEPT ![t] = Append(triggers[t], id)]
    BY <1>1 DEF RecordTrigger
  <2>4. Append(triggers[t], id) \in Seq(Nat)
    BY <2>1
  <2> HIDE DEF r
  <2>5. \A u \in TokenIds : /\ tokens'[u] = IF u = t THEN r ELSE tokens[u]
                            /\ triggers'[u] = IF u = t THEN Append(triggers[t], id) ELSE triggers[u]
    BY <2>3 DEF TypeOK
  <2>6. /\ tokens' \in [TokenIds -> [status : {"enabled"}, count : Nat] \cup {Absent}]
        /\ triggers' \in [TokenIds -> Seq(Nat)]
    BY <2>2, <2>3, <2>4 DEF TypeOK
  <2> QED
    BY <1>1, <2>1, <2>2, <2>5, <2>6
<1>2. CASE ~(t \in TokenIds /\ tokens[t] # Absent)
  BY <1>2 DEF RecordTrigger, TypeOK
<1> QED
  BY <1>1, <1>2

\* The numbers that AutoCreate reads, writes and gives out.
LEMMA NumberShape ==
  ASSUME TypeOK, SeqInv, NEW w \in Workers, ReadSeq(w) \/ WriteSeq(w) \/ AddIncident(w)
  PROVE  /\ work' \in [Workers -> Job] /\ \A v \in Workers \ {w} : work'[v] = work[v]
         /\ work[w] # Idle /\ work[w].ev \in Event /\ work'[w] # Idle /\ work'[w].ev = work[w].ev
         /\ work[w].pc \in {"incident", "read", "written"} /\ work'[w].pc \in {"read", "written", "announce"}
         /\ ReadSeq(w) => work'[w].pc = "read" /\ work'[w].seq < MaxIncidents
         /\ WriteSeq(w) => work'[w].pc = "written" /\ work'[w].seq >= 1 /\ incidentSeq' >= 1
         /\ AddIncident(w) => work'[w].pc = "announce"
         /\ incidentSeq' \in 0..MaxIncidents /\ (incidentSeq >= 1 => incidentSeq' >= 1)
         /\ incidents' \in [IncidentIds -> Incident \cup {Absent}]
<1>1. work \in [Workers -> Job] /\ incidentSeq \in 0..MaxIncidents
  BY DEF TypeOK
<1>2. CASE ReadSeq(w)
  <2>1. work[w].pc = "incident" /\ incidentSeq < MaxIncidents
    BY <1>2 DEF ReadSeq, At
  <2>2. work[w] # Idle /\ work[w].ev \in Event
    BY <2>1, JobShape DEF Idle, Stage
  <2> DEFINE r == [pc |-> "read", ev |-> work[w].ev, seq |-> incidentSeq]
  <2>3. r \in Job /\ r # Idle /\ r.ev = work[w].ev /\ r.pc = "read" /\ r.seq = incidentSeq
    BY <1>1, <2>2 DEF Job, Idle
  <2>4. work' = [work EXCEPT ![w] = r] /\ UNCHANGED <<incidents, incidentSeq>>
    BY <1>2 DEF ReadSeq, incidentVars
  <2>5. ~WriteSeq(w) /\ ~AddIncident(w)
    BY <2>1 DEF WriteSeq, AddIncident, At
  <2> HIDE DEF r
  <2> QED
    BY <1>1, <2>1, <2>2, <2>3, <2>4, <2>5, StageShape DEF TypeOK
<1>3. CASE WriteSeq(w)
  <2>1. work[w].pc = "read" /\ work[w] # Idle
    BY <1>3 DEF WriteSeq, At, Idle
  <2>2. work[w] \in [pc : Numbered, ev : Event, seq : 0..MaxIncidents] /\ work[w].seq < MaxIncidents
    BY <2>1, JobShape DEF Numbered, SeqInv, At
  <2> DEFINE n == work[w].seq + 1
             r == [pc |-> "written", ev |-> work[w].ev, seq |-> n]
  <2>3. n \in 0..MaxIncidents /\ n >= 1
    BY <2>2, BoundsAssumption
  <2>4. work' = [work EXCEPT ![w] = r] /\ incidentSeq' = n /\ incidents' = incidents
    <3> HIDE DEF n
    <3>1. [work[w] EXCEPT !.pc = "written", !.seq = n] = r
      <4> DEFINE q == work[w]
                 p == [q EXCEPT !.pc = "written"]
      <4>1. q = [pc |-> q.pc, ev |-> q.ev, seq |-> q.seq]
        BY <2>2
      <4> HIDE DEF q
      <4>2. p = [pc |-> "written", ev |-> q.ev, seq |-> q.seq]
        BY <4>1
      <4> HIDE DEF p
      <4>3. [p EXCEPT !.seq = n] = [pc |-> "written", ev |-> q.ev, seq |-> n]
        BY <4>2
      <4> QED
        BY <4>3 DEF p, q
    <3>2. work' = [work EXCEPT ![w] = [work[w] EXCEPT !.pc = "written", !.seq = n]]
      BY <1>1, <1>3 DEF WriteSeq, n
    <3> QED
      BY <1>3, <3>1, <3>2 DEF WriteSeq, n
  <2> HIDE DEF n
  <2>5. r \in Job /\ r # Idle /\ r.ev = work[w].ev /\ r.pc = "written" /\ r.seq = n
    BY <2>2, <2>3 DEF Job, Idle
  <2>6. ~ReadSeq(w) /\ ~AddIncident(w)
    BY <2>1 DEF ReadSeq, AddIncident, At
  <2> HIDE DEF r
  <2> QED
    BY <1>1, <2>1, <2>2, <2>3, <2>4, <2>5, <2>6, StageShape DEF TypeOK
<1>4. CASE AddIncident(w)
  <2>1. work[w].pc = "written" /\ work[w] # Idle
    BY <1>4 DEF AddIncident, At, Idle
  <2>2. work[w].ev \in Event
    BY <2>1, JobShape
  <2> DEFINE r == [pc |-> "announce", ev |-> work[w].ev]
             incident == [event |-> work[w].ev.id, status |-> "open", notes |-> None]
  <2>3. r \in Job /\ r # Idle /\ r.ev = work[w].ev /\ r.pc = "announce"
    BY <2>2 DEF Job, Idle
  <2>4. PICK id : incidents' = [incidents EXCEPT ![id] = incident]
    BY <1>4 DEF AddIncident
  <2>5. work' = [work EXCEPT ![w] = r] /\ incidentSeq' = incidentSeq
    BY <1>4 DEF AddIncident
  <2>6. incident \in Incident
    BY <2>2 DEF Incident, Event
  <2>7. ~ReadSeq(w) /\ ~WriteSeq(w)
    BY <2>1 DEF ReadSeq, WriteSeq, At
  <2> HIDE DEF r, incident
  <2>8. incidents' \in [IncidentIds -> Incident \cup {Absent}]
    BY <2>4, <2>6 DEF TypeOK
  <2> QED
    BY <1>1, <2>1, <2>2, <2>3, <2>5, <2>7, <2>8, StageShape
<1> QED
  BY <1>2, <1>3, <1>4

LEMMA TypeInit == Init => TypeOK /\ SeqInv
<1> SUFFICES ASSUME Init PROVE TypeOK /\ SeqInv
  OBVIOUS
<1> USE BoundsAssumption DEF Init
<1>1. work \in [Workers -> Job] /\ admin \in [Admins -> AdminJob]
  BY DEF Job, AdminJob
<1>2. traces \in [Traces -> Trace]
  BY DEF Trace, NoTrace
<1>3. tokens \in [TokenIds -> [status : {"enabled"}, count : Nat] \cup {Absent}]
  OBVIOUS
<1>4. tokenSeq \in 0..MaxTokens /\ incidentSeq \in 0..MaxIncidents /\ tokenSeq >= SeedTokens
  OBVIOUS
<1>5. dead \in Seq(Nat) /\ Len(dead) <= MaxDead
  OBVIOUS
<1>6. TypeOK
  BY <1>1, <1>2, <1>3, <1>4, <1>5 DEF TypeOK, Trace
<1>7. SeqInv
  BY <1>4 DEF SeqInv, At, Idle, AdminIdle
<1> QED
  BY <1>6, <1>7

\* A goroutine that goes anywhere but to its next number leaves the numbers in range.
LEMMA SeqKept ==
  ASSUME SeqInv, NEW w \in Workers, \A v \in Workers \ {w} : work'[v] = work[v],
         work'[w].pc \notin Numbered, UNCHANGED <<incidentSeq, tokenSeq, admin>>
  PROVE  SeqInv'
BY DEF SeqInv, At, Numbered

LEMMA AdminShape ==
  ASSUME TypeOK, NEW a \in Admins
  PROVE  /\ admin[a].pc = "read" \/ admin[a].pc = "written" =>
               admin[a] \in [pc : Numbered, seq : 0..MaxTokens]
         /\ admin[a].pc = "resolve" => admin[a] \in [pc : {"resolve"}, id : IncidentIds, copy : Incident]
<1>1. admin[a] \in AdminJob
  BY DEF TypeOK
<1>2. CASE admin[a] = AdminIdle
  BY <1>2 DEF AdminIdle
<1>3. CASE admin[a] \in [pc : Numbered, seq : 0..MaxTokens]
  BY <1>3 DEF Numbered
<1>4. CASE admin[a] \in [pc : {"resolve"}, id : IncidentIds, copy : Incident]
  BY <1>4
<1> QED
  BY <1>1, <1>2, <1>3, <1>4 DEF AdminJob, Numbered

\* The REST handlers.
LEMMA AdminType ==
  ASSUME TypeOK, SeqInv, NEW a \in Admins, Handle(a)
  PROVE  TypeOK' /\ SeqInv'
<1> USE DEF feedVars, storeVars, tokenVars, incidentVars
<1>0. admin \in [Admins -> AdminJob] /\ tokenSeq \in 0..MaxTokens /\ tokenSeq >= SeedTokens
      /\ MaxTokens \in Nat /\ SeedTokens \in 0..MaxTokens
  BY BoundsAssumption DEF TypeOK, SeqInv
<1>1. CASE ReadTokenSeq(a)
  <2> DEFINE r == [pc |-> "read", seq |-> tokenSeq]
  <2>1. r \in AdminJob /\ r.pc = "read" /\ r.seq = tokenSeq
    BY <1>0 DEF AdminJob
  <2>2. admin' = [admin EXCEPT ![a] = r] /\ tokenSeq < MaxTokens
    BY <1>1 DEF ReadTokenSeq
  <2> HIDE DEF r
  <2>3. admin' \in [Admins -> AdminJob] /\ admin'[a] = r /\ \A b \in Admins \ {a} : admin'[b] = admin[b]
    BY <1>0, <2>1, <2>2
  <2>4. UNCHANGED <<work, feedVars, storeVars, dead, history, tokenVars, incidentVars, shown>>
    BY <1>1 DEF ReadTokenSeq
  <2>5. SeqInv'
    BY <1>0, <2>1, <2>2, <2>3, <2>4 DEF SeqInv, At
  <2> QED
    BY <2>3, <2>4, <2>5 DEF TypeOK
<1>2. CASE WriteTokenSeq(a)
  <2> DEFINE n == admin[a].seq + 1
             r == [pc |-> "written", seq |-> n]
  <2>1. n \in 0..MaxTokens /\ n > SeedTokens
    <3>1. admin[a].pc = "read" /\ admin[a] \in [pc : Numbered, seq : 0..MaxTokens]
      BY <1>2, AdminShape DEF WriteTokenSeq
    <3>2. SeedTokens <= admin[a].seq /\ admin[a].seq < MaxTokens /\ admin[a].seq \in 0..MaxTokens
      BY <3>1 DEF SeqInv
    <3> QED
      BY <1>0, <3>2
  <2>2. admin' = [admin EXCEPT ![a] = r] /\ tokenSeq' = n
    BY <1>2 DEF WriteTokenSeq
  <2> HIDE DEF n
  <2>3. r \in AdminJob /\ r.pc = "written" /\ r.seq = n
    BY <2>1 DEF AdminJob
  <2> HIDE DEF r
  <2>4. admin' \in [Admins -> AdminJob] /\ admin'[a] = r /\ \A b \in Admins \ {a} : admin'[b] = admin[b]
    BY <1>0, <2>2, <2>3
  <2>5. UNCHANGED <<work, feedVars, storeVars, dead, history, tokens, triggers, incidentVars, shown>>
    BY <1>2 DEF WriteTokenSeq
  <2>6. SeqInv'
    BY <1>0, <2>1, <2>2, <2>3, <2>4, <2>5 DEF SeqInv, At
  <2> QED
    BY <2>1, <2>2, <2>4, <2>5, <2>6 DEF TypeOK
<1>3. CASE AddToken(a)
  <2>1. PICK id : tokens' = [tokens EXCEPT ![id] = [status |-> "enabled", count |-> 0]]
    BY <1>3 DEF AddToken
  <2>2. tokens' \in [TokenIds -> [status : {"enabled"}, count : Nat] \cup {Absent}]
    BY <2>1 DEF TypeOK
  <2>3. admin' \in [Admins -> AdminJob] /\ admin'[a] = AdminIdle /\ \A b \in Admins \ {a} : admin'[b] = admin[b]
    BY <1>0, <1>3 DEF AddToken, AdminJob
  <2>4. UNCHANGED <<work, feedVars, storeVars, dead, history, triggers, tokenSeq, incidentVars, shown>>
    BY <1>3 DEF AddToken
  <2>5. SeqInv'
    BY <2>3, <2>4 DEF SeqInv, At, AdminIdle
  <2> QED
    BY <2>2, <2>3, <2>4, <2>5 DEF TypeOK
<1>4. ASSUME NEW t \in TokenIds, DeleteToken(a, t) PROVE TypeOK' /\ SeqInv'
  <2>1. tokens' \in [TokenIds -> [status : {"enabled"}, count : Nat] \cup {Absent}]
    BY <1>4 DEF DeleteToken, TypeOK
  <2>2. UNCHANGED <<work, feedVars, storeVars, dead, history, triggers, tokenSeq, incidentVars, admin, shown>>
    BY <1>4 DEF DeleteToken
  <2> QED
    BY <2>1, <2>2 DEF TypeOK, SeqInv, At
<1>5. ASSUME NEW i \in IncidentIds, NEW notes \in BOOLEAN, ResolveRead(a, i, notes) PROVE TypeOK' /\ SeqInv'
  <2>1. incidents[i] \in Incident
    BY <1>5 DEF ResolveRead, TypeOK
  <2> DEFINE copy == [incidents[i] EXCEPT !.status = "resolved", !.notes = IF notes THEN a ELSE @]
             r == [pc |-> "resolve", id |-> i, copy |-> copy]
  <2>2. copy \in Incident
    BY <2>1 DEF Incident
  <2>3. admin' = [admin EXCEPT ![a] = r]
    BY <1>5 DEF ResolveRead
  <2> HIDE DEF copy
  <2>4. r \in AdminJob /\ r.pc = "resolve"
    BY <2>2 DEF AdminJob
  <2> HIDE DEF r
  <2>5. admin' \in [Admins -> AdminJob] /\ admin'[a] = r /\ \A b \in Admins \ {a} : admin'[b] = admin[b]
    BY <1>0, <2>3, <2>4
  <2>6. UNCHANGED <<work, feedVars, storeVars, dead, history, tokenVars, incidentVars, shown>>
    BY <1>5 DEF ResolveRead
  <2>7. SeqInv'
    BY <2>4, <2>5, <2>6 DEF SeqInv, At
  <2> QED
    BY <2>5, <2>6, <2>7 DEF TypeOK
<1>6. CASE ResolveWrite(a)
  <2>1. admin[a].copy \in Incident
    BY <1>6, AdminShape DEF ResolveWrite
  <2>2. incidents' = [incidents EXCEPT ![admin[a].id] = admin[a].copy]
    BY <1>6 DEF ResolveWrite
  <2>3. incidents' \in [IncidentIds -> Incident \cup {Absent}]
    BY <2>1, <2>2 DEF TypeOK
  <2>4. admin' \in [Admins -> AdminJob] /\ admin'[a] = AdminIdle /\ \A b \in Admins \ {a} : admin'[b] = admin[b]
    BY <1>0, <1>6 DEF ResolveWrite, AdminJob
  <2>5. UNCHANGED <<work, feedVars, storeVars, dead, history, tokenVars, incidentSeq, shown>>
    BY <1>6 DEF ResolveWrite
  <2>6. SeqInv'
    BY <2>4, <2>5 DEF SeqInv, At, AdminIdle
  <2> QED
    BY <2>3, <2>4, <2>5, <2>6 DEF TypeOK
<1> QED
  BY <1>1, <1>2, <1>3, <1>4, <1>5, <1>6 DEF Handle

LEMMA TypeStep == TypeOK /\ SeqInv /\ [Next]_vars => TypeOK' /\ SeqInv'
<1> SUFFICES ASSUME TypeOK, SeqInv, [Next]_vars PROVE TypeOK' /\ SeqInv'
  OBVIOUS
<1> USE DEF feedVars, storeVars, tokenVars, incidentVars
<1>0. born \in Nat /\ born + 1 \in Nat \ {0} /\ spawned \subseteq Event /\ bus \subseteq Event
  BY DEF TypeOK
<1>1. ASSUME NEW w \in Workers, NEW t \in Templates, Receive(w, t) PROVE TypeOK' /\ SeqInv'
  <2> DEFINE e == [id |-> born + 1, of |-> t, gen |-> 0]
  <2>1. e \in Event
    BY <1>0, SetsAssumption DEF Event
  <2>2. Begin(w, e)
    BY <1>1 DEF Receive
  <2> HIDE DEF e
  <2>3. work' \in [Workers -> Job] /\ work'[w].pc \notin Numbered /\ \A v \in Workers \ {w} : work'[v] = work[v]
    BY <2>1, <2>2, BeginShape DEF Numbered
  <2>4. sent' \in 0..MaxExternal /\ born' \in Nat
    BY <1>1, BoundsAssumption DEF Receive, TypeOK
  <2>5. UNCHANGED <<spawned, bus, storeVars, dead, history, tokenVars, incidentVars, admin, shown>>
    BY <1>1 DEF Receive
  <2> QED
    BY <2>3, <2>4, <2>5, SeqKept DEF TypeOK
<1>2. ASSUME NEW w \in Workers, NEW e, RunSpawned(w, e) \/ Collect(w, e) PROVE TypeOK' /\ SeqInv'
  <2>1. e \in Event /\ Begin(w, e)
    BY <1>2, <1>0 DEF RunSpawned, Collect
  <2>2. work' \in [Workers -> Job] /\ work'[w].pc \notin Numbered /\ \A v \in Workers \ {w} : work'[v] = work[v]
    BY <2>1, BeginShape DEF Numbered
  <2>3. /\ spawned' \subseteq Event /\ bus' \subseteq Event
        /\ UNCHANGED <<born, sent, storeVars, dead, history, tokenVars, incidentVars, admin, shown>>
    BY <1>2, <1>0 DEF RunSpawned, Collect
  <2> QED
    BY <2>2, <2>3, SeqKept DEF TypeOK
<1>3. ASSUME NEW e \in bus, Lose(e) PROVE TypeOK' /\ SeqInv'
  BY <1>3 DEF Lose, TypeOK, SeqInv, At
<1>4. ASSUME NEW tenant \in Tenants \cup {None}, LineageQuery(tenant) PROVE TypeOK' /\ SeqInv'
  <2>1. [id |-> born + 1, of |-> LineageEvent(tenant), gen |-> 1] \in Event
    BY <1>0, LineageType DEF Event
  <2>2. bus' \subseteq Event /\ born' \in Nat /\ sent' \in 0..MaxExternal
    BY <1>4, <1>0, <2>1, BoundsAssumption DEF LineageQuery, TypeOK
  <2>3. UNCHANGED <<work, spawned, storeVars, dead, history, tokenVars, incidentVars, admin, shown>>
    BY <1>4 DEF LineageQuery
  <2> QED
    BY <2>2, <2>3 DEF TypeOK, SeqInv, At
<1>5. ASSUME NEW w \in Workers, Reject(w) PROVE TypeOK' /\ SeqInv'
  <2>1. work[w].pc = "reject" /\ work[w] # Idle /\ work[w].ev \in Event
    BY <1>5, JobShape DEF Reject, At, Idle, Stage, Event
  <2>2. work' \in [Workers -> Job] /\ work'[w] = Idle /\ \A v \in Workers \ {w} : work'[v] = work[v]
    BY <1>5 DEF Reject, TypeOK, Job
  <2> DEFINE all == Append(dead, work[w].ev.id)
  <2>3. all \in Seq(Nat) /\ Len(all) = Len(dead) + 1 /\ Len(dead) \in Nat /\ Len(dead) <= MaxDead
    BY <2>1 DEF TypeOK, Event
  <2>4. dead' = IF Len(all) > MaxDead THEN SubSeq(all, Len(all) - MaxDead + 1, Len(all)) ELSE all
    BY <1>5 DEF Reject
  <2> HIDE DEF all
  <2>5. dead' \in Seq(Nat) /\ Len(dead') <= MaxDead
    <3>1. CASE Len(all) > MaxDead
      <4>1. Len(all) - MaxDead + 1 \in 1..Len(all) /\ Len(all) \in Nat
        BY <2>3, <3>1, BoundsAssumption
      <4>2. dead' = SubSeq(all, Len(all) - MaxDead + 1, Len(all))
        BY <2>4, <3>1
      <4>3. dead' \in Seq(Nat) /\ Len(dead') = Len(all) - (Len(all) - MaxDead + 1) + 1
        BY <2>3, <4>1, <4>2
      <4> QED
        BY <4>1, <4>3, BoundsAssumption
    <3>2. CASE ~(Len(all) > MaxDead)
      BY <2>3, <2>4, <3>2, BoundsAssumption
    <3> QED
      BY <3>1, <3>2
  <2>6. UNCHANGED <<feedVars, storeVars, history, tokenVars, incidentVars, admin, shown>>
    BY <1>5 DEF Reject
  <2>7. SeqInv'
    BY <2>2, <2>6, SeqKept DEF Idle, Numbered
  <2> QED
    BY <2>2, <2>5, <2>6, <2>7 DEF TypeOK
<1>6. ASSUME NEW w \in Workers, AddEvent(w) PROVE TypeOK' /\ SeqInv'
  <2>1. /\ work[w].ev \in Event /\ work' \in [Workers -> Job] /\ work'[w].pc \notin Numbered
        /\ \A v \in Workers \ {w} : work'[v] = work[v]
    BY <1>6, GotoShape DEF AddEvent, At, Stage, Numbered
  <2> QED
    BY <1>6, <2>1, SeqKept DEF AddEvent, TypeOK
<1>7. ASSUME NEW w \in Workers, UpsertTrace(w) PROVE TypeOK' /\ SeqInv'
  <2>1. PICK pc \in {"lineage", "bypass"} : Goto(w, pc)
    BY <1>7 DEF UpsertTrace
  <2>2. /\ work[w].ev \in Event /\ Ev(w) \in Template /\ work' \in [Workers -> Job] /\ work'[w].pc \notin Numbered
        /\ \A v \in Workers \ {w} : work'[v] = work[v]
    BY <1>7, <2>1, GotoShape DEF UpsertTrace, At, Stage, Numbered
  <2>3. traces \in [Traces -> Trace]
    BY DEF TypeOK, Trace
  <2>4. traces' \in [Traces -> Trace]
    <3>1. CASE Ev(w).trace = None
      BY <1>7, <2>3, <3>1 DEF UpsertTrace
    <3>2. CASE Ev(w).trace # None
      <4>1. Ev(w).trace \in Traces
        BY <2>2, <3>2 DEF Template
      <4>2. WithSpan(traces[Ev(w).trace], work[w].ev) \in Trace
        BY <2>2, <2>3, <4>1, SpanShape
      <4>3. traces' = [traces EXCEPT ![Ev(w).trace] = WithSpan(traces[Ev(w).trace], work[w].ev)]
        BY <1>7, <3>2 DEF UpsertTrace
      <4> QED
        BY <2>3, <4>2, <4>3
    <3> QED
      BY <3>1, <3>2
  <2>5. UNCHANGED <<feedVars, stored, lineage, dead, history, tokenVars, incidentVars, admin, shown>>
    BY <1>7 DEF UpsertTrace
  <2> QED
    BY <2>2, <2>4, <2>5, SeqKept DEF TypeOK, Trace
<1>8. ASSUME NEW w \in Workers, AddChunkLineage(w) PROVE TypeOK' /\ SeqInv'
  <2>1. /\ work[w].ev \in Event /\ work' \in [Workers -> Job] /\ work'[w].pc \notin Numbered
        /\ \A v \in Workers \ {w} : work'[v] = work[v]
    BY <1>8, GotoShape DEF AddChunkLineage, At, Stage, Numbered
  <2>2. work[w].ev.id \in Nat
    BY <2>1 DEF Event
  <2>3. \A t \in Traces : Append(lineage[t], work[w].ev.id) \in Seq(Nat)
    BY <2>2 DEF TypeOK
  <2>4. lineage' = [lineage EXCEPT ![Ev(w).trace] = Append(lineage[Ev(w).trace], work[w].ev.id)]
    BY <1>8 DEF AddChunkLineage
  <2>5. lineage' \in [Traces -> Seq(Nat)]
    BY <2>3, <2>4 DEF TypeOK
  <2>6. UNCHANGED <<feedVars, stored, traces, dead, history, tokenVars, incidentVars, admin, shown>>
    BY <1>8 DEF AddChunkLineage
  <2> QED
    BY <2>1, <2>5, <2>6, SeqKept DEF TypeOK
<1>9. ASSUME NEW w \in Workers, BypassCheck(w) PROVE TypeOK' /\ SeqInv'
  <2>1. work[w].pc \in Stage /\ Goto(w, "honey") /\ spawned' \subseteq Event /\ born' \in Nat
        /\ history' \in [Tenants -> [full : Nat, other : Nat]]
    BY <1>9, BypassShape DEF Stage
  <2>2. /\ work' \in [Workers -> Job] /\ work'[w].pc \notin Numbered
        /\ \A v \in Workers \ {w} : work'[v] = work[v]
    BY <2>1, GotoShape DEF Stage, Numbered
  <2>3. UNCHANGED <<sent, bus, storeVars, dead, tokenVars, incidentVars, admin, shown>>
    BY <1>9 DEF BypassCheck
  <2> QED
    BY <2>1, <2>2, <2>3, SeqKept DEF TypeOK
<1>10. ASSUME NEW w \in Workers, CheckEvent(w) PROVE TypeOK' /\ SeqInv'
  <2>1. PICK pc \in {"incident", "show"} : Goto(w, pc)
    BY <1>10, CheckShape
  <2>2. /\ work[w].pc \in Stage /\ work[w].ev.id \in Nat
        /\ bus' \subseteq Event /\ born' \in Nat
    BY <1>10, CheckShape DEF Stage, Event
  <2>3. /\ work' \in [Workers -> Job] /\ work'[w].pc \notin Numbered
        /\ \A v \in Workers \ {w} : work'[v] = work[v]
    BY <2>1, <2>2, GotoShape DEF Stage, Numbered
  <2>4. /\ tokens' \in [TokenIds -> [status : {"enabled"}, count : Nat] \cup {Absent}]
        /\ triggers' \in [TokenIds -> Seq(Nat)]
    <3>1. CASE UNCHANGED <<tokens, triggers>>
      BY <3>1 DEF TypeOK
    <3>2. CASE RecordTrigger(Ev(w).token, work[w].ev.id)
      BY <2>2, <3>2, RecordShape
    <3> QED
      BY <1>10, <3>1, <3>2, CheckShape
  <2>5. UNCHANGED <<sent, spawned, storeVars, dead, history, tokenSeq, incidentVars, admin, shown>>
    BY <1>10 DEF CheckEvent
  <2> QED
    BY <2>2, <2>3, <2>4, <2>5, SeqKept DEF TypeOK
<1>11. ASSUME NEW w \in Workers, ReadSeq(w) \/ WriteSeq(w) \/ AddIncident(w) PROVE TypeOK' /\ SeqInv'
  <2>1. /\ work' \in [Workers -> Job] /\ \A v \in Workers \ {w} : work'[v] = work[v]
        /\ incidentSeq' \in 0..MaxIncidents /\ (incidentSeq >= 1 => incidentSeq' >= 1)
        /\ incidents' \in [IncidentIds -> Incident \cup {Absent}]
    BY <1>11, NumberShape
  <2>2. UNCHANGED <<feedVars, storeVars, dead, history, tokenVars, admin, shown>>
    BY <1>11 DEF ReadSeq, WriteSeq, AddIncident
  <2>3. SeqInv'
    <3>1. /\ work'[w].pc = "read" => work'[w].seq < MaxIncidents
          /\ work'[w].pc = "written" => work'[w].seq >= 1 /\ incidentSeq' >= 1
      BY <1>11, NumberShape
    <3> QED
      BY <2>1, <2>2, <3>1 DEF SeqInv, At
  <2> QED
    BY <2>1, <2>2, <2>3 DEF TypeOK
<1>12. ASSUME NEW w \in Workers, Announce(w) PROVE TypeOK' /\ SeqInv'
  <2>1. work[w].pc = "announce" /\ Goto(w, "show") /\ Publish(w, IncidentEvent(Ev(w)))
    BY <1>12 DEF Announce, At
  <2>2. /\ work[w] # Idle /\ work[w].ev \in Event /\ Ev(w) \in Template
        /\ work' \in [Workers -> Job] /\ work'[w].pc \notin Numbered
        /\ \A v \in Workers \ {w} : work'[v] = work[v]
    BY <2>1, GotoShape DEF Stage, Numbered
  <2>3. bus' \subseteq Event /\ born' \in Nat
    BY <2>1, <2>2, MadeEvents, PublishShape
  <2>4. shown' \subseteq {"event", "incident", "anomaly"} \X Nat
    BY <1>12, <2>2 DEF Announce, TypeOK, Event
  <2>5. UNCHANGED <<sent, spawned, storeVars, dead, history, tokenVars, incidentVars, admin>>
    BY <1>12 DEF Announce
  <2> QED
    BY <2>2, <2>3, <2>4, <2>5, SeqKept DEF TypeOK
<1>13. ASSUME NEW w \in Workers, Show(w) PROVE TypeOK' /\ SeqInv'
  <2>1. work[w].pc = "show" /\ Goto(w, "hooks")
    BY <1>13 DEF Show, At
  <2>2. /\ work[w].ev \in Event
        /\ work' \in [Workers -> Job] /\ work'[w].pc \notin Numbered
        /\ \A v \in Workers \ {w} : work'[v] = work[v]
    BY <2>1, GotoShape DEF Stage, Numbered
  <2>3. shown' \subseteq {"event", "incident", "anomaly"} \X Nat
    BY <1>13, <2>2 DEF Show, TypeOK, Event
  <2>4. UNCHANGED <<feedVars, storeVars, dead, history, tokenVars, incidentVars, admin>>
    BY <1>13 DEF Show
  <2> QED
    BY <2>2, <2>3, <2>4, SeqKept DEF TypeOK
<1>14. ASSUME NEW w \in Workers, Inspect(w) PROVE TypeOK' /\ SeqInv'
  <2>1. /\ work' \in [Workers -> Job] /\ work'[w] = Idle /\ \A v \in Workers \ {w} : work'[v] = work[v]
        /\ born' \in Nat /\ spawned' \subseteq Event
    BY <1>0, <1>14, InspectShape
  <2>2. shown' \subseteq {"event", "incident", "anomaly"} \X Nat
    <3>1. \A x \in shown' \ shown : x \in {"anomaly"} \X Nat
      BY <1>14, InspectShape
    <3> QED
      BY <3>1 DEF TypeOK
  <2>3. UNCHANGED <<sent, bus, storeVars, dead, history, tokenVars, incidentVars, admin>>
    BY <1>14 DEF Inspect
  <2>4. SeqInv'
    BY <2>1, <2>3, SeqKept DEF Idle, Numbered
  <2> QED
    BY <2>1, <2>2, <2>3, <2>4 DEF TypeOK
<1>15. ASSUME NEW a \in Admins, Handle(a) PROVE TypeOK' /\ SeqInv'
  BY <1>15, AdminType
<1>16. CASE UNCHANGED vars
  BY <1>16 DEF vars, TypeOK, SeqInv, At
<1> QED
  BY <1>1, <1>2, <1>3, <1>4, <1>5, <1>6, <1>7, <1>8, <1>9, <1>10, <1>11, <1>12, <1>13, <1>14, <1>15, <1>16
  DEF Next, Step
--------------------------------------------------------------------------------
(* Where events are, and which of them are the tracker's own                  *)

Fresh(e) == born < e.id /\ e.id <= born'

\* What the publisher sends has a status that the validator rejects.
LEMMA MadeOwn ==
  ASSUME NEW t \in Template
  PROVE  /\ BypassEvent(t).pipeline = None /\ BypassEvent(t).type = "bypass"
         /\ AlertEvent(t).pipeline = None /\ ~Valid(AlertEvent(t))
         /\ IncidentEvent(t).pipeline = None /\ ~Valid(IncidentEvent(t))
<1>1. BypassEvent(t).pipeline = None /\ BypassEvent(t).type = "bypass"
  BY DEF BypassEvent, Template
<1>2. AlertEvent(t).pipeline = None /\ AlertEvent(t).status = "alerted"
  BY DEF AlertEvent, Template
<1>3. IncidentEvent(t).pipeline = None /\ IncidentEvent(t).status = "created"
  BY DEF IncidentEvent, Template
<1> QED
  BY <1>1, <1>2, <1>3 DEF Valid, ValidStatuses

LEMMA CausedShape ==
  ASSUME TypeOK, NEW w \in Workers, work[w] # Idle, NEW id, NEW t
  PROVE  /\ Caused(w, id, t).id = id /\ Caused(w, id, t).of = t
         /\ Caused(w, id, t).gen = work[w].ev.gen + 1 /\ work[w].ev.gen \in Nat
BY JobShape DEF Caused, Event

\* A step of Process keeps its event, lets it go or drops it, and what it sends out is
\* new and the tracker's own.
LEMMA StepShape ==
  ASSUME TypeOK, SeqInv, NEW w \in Workers, Step(w)
  PROVE  /\ work[w] # Idle /\ work[w].ev \in Event
         /\ \A v \in Workers \ {w} : work'[v] = work[v]
         /\ \/ work[w].pc = "store" /\ AddEvent(w) /\ work'[w].pc = "trace" /\ traces' = traces
            \/ /\ work[w].pc \notin {"store", "reject"} /\ stored' = stored
               /\ work'[w] # Idle => work'[w].pc \notin {"store", "reject", "trace"}
               /\ \/ work[w].pc = "trace" /\ UpsertTrace(w)
                  \/ work[w].pc # "trace" /\ traces' = traces
            \/ work[w].pc = "reject" /\ stored' = stored /\ work'[w] = Idle /\ traces' = traces
         /\ work'[w] # Idle => work'[w].ev = work[w].ev
         /\ born \in Nat /\ born' \in Nat /\ born <= born'
         /\ \A e \in spawned' \ spawned :
               /\ e \in Event /\ Fresh(e) /\ bus' = bus
               /\ e.of.pipeline = None
               /\ \/ e.of.type = "anomaly"
                  \/ e.of.type = "bypass" /\ e.gen = work[w].ev.gen + 1 /\ Ev(w).pipeline # None
         /\ \A e \in bus' \ bus :
               e \in Event /\ Fresh(e) /\ spawned' = spawned /\ e.of.pipeline = None /\ ~Valid(e.of)
         /\ spawned \subseteq spawned' /\ bus \subseteq bus'
<1> USE DEF feedVars, storeVars, tokenVars, incidentVars
<1>0. born \in Nat /\ born <= born /\ born + 1 \in Nat /\ born <= born + 1 /\ born < born + 1 /\ born + 1 \in Nat \ {0}
  BY DEF TypeOK
<1>1. CASE Reject(w)
  <2>1. work[w].pc = "reject" /\ work[w] # Idle /\ work[w].ev \in Event
    BY <1>1, JobShape DEF Reject, At, Idle, Stage
  <2>2. work'[w] = Idle /\ \A v \in Workers \ {w} : work'[v] = work[v]
    BY <1>1 DEF Reject, TypeOK
  <2> QED
    BY <1>0, <1>1, <2>1, <2>2 DEF Reject
<1>2. CASE AddEvent(w)
  <2>1. work[w].pc = "store" /\ Goto(w, "trace")
    BY <1>2 DEF AddEvent, At
  <2>2. /\ work[w] # Idle /\ work[w].ev \in Event /\ work'[w].pc = "trace" /\ work'[w].ev = work[w].ev
        /\ \A v \in Workers \ {w} : work'[v] = work[v]
    BY <2>1, GotoShape DEF Stage
  <2> QED
    BY <1>0, <1>2, <2>1, <2>2 DEF AddEvent
<1>3. CASE UpsertTrace(w)
  <2>1. PICK pc \in {"lineage", "bypass"} : Goto(w, pc)
    BY <1>3 DEF UpsertTrace
  <2>2. work[w].pc = "trace"
    BY <1>3 DEF UpsertTrace, At
  <2>3. /\ work[w] # Idle /\ work[w].ev \in Event /\ work'[w].pc = pc /\ work'[w].ev = work[w].ev
        /\ \A v \in Workers \ {w} : work'[v] = work[v]
    BY <2>1, <2>2, GotoShape DEF Stage
  <2> QED
    BY <1>0, <1>3, <2>2, <2>3 DEF UpsertTrace
<1>4. CASE AddChunkLineage(w) \/ Show(w)
  <2>1. PICK pc \in {"bypass", "hooks"} : Goto(w, pc)
    BY <1>4 DEF AddChunkLineage, Show
  <2>2. work[w].pc \in {"lineage", "show"}
    BY <1>4 DEF AddChunkLineage, Show, At
  <2>3. /\ work[w] # Idle /\ work[w].ev \in Event /\ work'[w].pc = pc /\ work'[w].ev = work[w].ev
        /\ \A v \in Workers \ {w} : work'[v] = work[v]
    BY <2>1, <2>2, GotoShape DEF Stage
  <2> QED
    BY <1>0, <1>4, <2>2, <2>3 DEF AddChunkLineage, Show
<1>5. CASE BypassCheck(w)
  <2>1. work[w].pc = "bypass" /\ Goto(w, "honey")
    BY <1>5, BypassShape
  <2>2. /\ work[w] # Idle /\ work[w].ev \in Event /\ Ev(w) \in Template
        /\ work'[w].pc = "honey" /\ work'[w].ev = work[w].ev
        /\ \A v \in Workers \ {w} : work'[v] = work[v]
    BY <2>1, GotoShape DEF Stage
  <2> DEFINE e == Caused(w, born + 1, BypassEvent(Ev(w)))
  <2>3. /\ e \in Event /\ e.id = born + 1 /\ e.of.pipeline = None
        /\ e.of.type = "bypass" /\ e.gen = work[w].ev.gen + 1
    <3>1. BypassEvent(Ev(w)) \in Template
      BY <2>2, MadeEvents
    <3>2. e \in Event
      BY <1>0, <2>2, <3>1, CausedType
    <3>3. e.id = born + 1 /\ e.of = BypassEvent(Ev(w)) /\ e.gen = work[w].ev.gen + 1
      BY <2>2, CausedShape
    <3> QED
      BY <2>2, <3>2, <3>3, MadeOwn
  <2>4. UNCHANGED <<bus, stored, traces>>
    BY <1>5 DEF BypassCheck
  <2>5. \/ spawned' = spawned /\ born' = born
        \/ spawned' = spawned \cup {e} /\ born' = born + 1 /\ Ev(w).pipeline # None
    BY <1>5, BypassShape
  <2> HIDE DEF e
  <2>6. \A d \in spawned' \ spawned : d = e /\ born' = born + 1 /\ Ev(w).pipeline # None
    BY <2>5
  <2>7. \A d \in spawned' \ spawned : Fresh(d)
    BY <1>0, <2>3, <2>6 DEF Fresh
  <2> QED
    BY <1>0, <2>1, <2>2, <2>3, <2>4, <2>5, <2>6, <2>7
<1>6. CASE CheckEvent(w)
  <2>1. PICK pc \in {"incident", "show"} : Goto(w, pc)
    BY <1>6, CheckShape
  <2>2. work[w].pc = "honey"
    BY <1>6, CheckShape
  <2>3. /\ work[w] # Idle /\ work[w].ev \in Event /\ Ev(w) \in Template
        /\ work'[w].pc = pc /\ work'[w].ev = work[w].ev
        /\ \A v \in Workers \ {w} : work'[v] = work[v]
    BY <2>1, <2>2, GotoShape DEF Stage
  <2> DEFINE e == Caused(w, born + 1, AlertEvent(Ev(w)))
  <2>4. e \in Event /\ e.id = born + 1 /\ e.of.pipeline = None /\ ~Valid(e.of)
    <3>1. AlertEvent(Ev(w)) \in Template
      BY <2>3, MadeEvents
    <3>2. e \in Event
      BY <1>0, <2>3, <3>1, CausedType
    <3>3. e.id = born + 1 /\ e.of = AlertEvent(Ev(w))
      BY <2>3, CausedShape
    <3> QED
      BY <2>3, <3>2, <3>3, MadeOwn
  <2>5. UNCHANGED <<spawned, stored, traces>>
    BY <1>6 DEF CheckEvent
  <2>6. (bus' = bus /\ born' = born) \/ (bus' = bus \cup {e} /\ born' = born + 1)
    BY <1>6, CheckShape
  <2> HIDE DEF e
  <2>7. \A d \in bus' \ bus : d = e /\ born' = born + 1
    BY <2>6
  <2>8. \A d \in bus' \ bus : Fresh(d)
    BY <1>0, <2>4, <2>7 DEF Fresh
  <2> QED
    BY <1>0, <2>2, <2>3, <2>4, <2>5, <2>6, <2>7, <2>8
<1>7. CASE ReadSeq(w) \/ WriteSeq(w) \/ AddIncident(w)
  <2>1. /\ \A v \in Workers \ {w} : work'[v] = work[v]
        /\ work[w] # Idle /\ work[w].ev \in Event /\ work'[w] # Idle /\ work'[w].ev = work[w].ev
        /\ work[w].pc \in {"incident", "read", "written"} /\ work'[w].pc \in {"read", "written", "announce"}
    BY <1>7, NumberShape
  <2>2. UNCHANGED <<spawned, bus, born, stored, traces>>
    BY <1>7 DEF ReadSeq, WriteSeq, AddIncident
  <2> QED
    BY <1>0, <2>1, <2>2
<1>8. CASE Announce(w)
  <2>1. work[w].pc = "announce" /\ Goto(w, "show") /\ Publish(w, IncidentEvent(Ev(w)))
    BY <1>8 DEF Announce, At
  <2>2. /\ work[w] # Idle /\ work[w].ev \in Event /\ Ev(w) \in Template
        /\ work'[w].pc = "show" /\ work'[w].ev = work[w].ev
        /\ \A v \in Workers \ {w} : work'[v] = work[v]
    BY <2>1, GotoShape DEF Stage
  <2> DEFINE e == Caused(w, born + 1, IncidentEvent(Ev(w)))
  <2>3. e \in Event /\ e.id = born + 1 /\ e.of.pipeline = None /\ ~Valid(e.of)
    <3>1. IncidentEvent(Ev(w)) \in Template
      BY <2>2, MadeEvents
    <3>2. e \in Event
      BY <1>0, <2>2, <3>1, CausedType
    <3>3. e.id = born + 1 /\ e.of = IncidentEvent(Ev(w))
      BY <2>2, CausedShape
    <3> QED
      BY <2>2, <3>2, <3>3, MadeOwn
  <2>4. (bus' = bus /\ born' = born) \/ (bus' = bus \cup {e} /\ born' = born + 1)
    BY <2>1, <2>2, MadeEvents, PublishShape
  <2>5. UNCHANGED <<spawned, stored, traces>>
    BY <1>8 DEF Announce
  <2> HIDE DEF e
  <2>6. \A d \in bus' \ bus : d = e /\ born' = born + 1
    BY <2>4
  <2>7. \A d \in bus' \ bus : Fresh(d)
    BY <1>0, <2>3, <2>6 DEF Fresh
  <2> QED
    BY <1>0, <2>1, <2>2, <2>3, <2>4, <2>5, <2>6, <2>7
<1>9. CASE Inspect(w)
  <2>1. UNCHANGED <<bus, stored, traces>>
    BY <1>9 DEF Inspect
  <2>2. \A e \in spawned' \ spawned : e \in Event /\ Fresh(e) /\ e.of.type = "anomaly" /\ e.of.pipeline = None
    <3>1. ASSUME NEW e \in spawned' \ spawned
          PROVE  e \in Event /\ Fresh(e) /\ e.of.type = "anomaly" /\ e.of.pipeline = None
      <4>1. /\ e.id \in {born + 1, born + 2} /\ born' = born + 2
            /\ e.of.type = "anomaly" /\ e.of.pipeline = None /\ e \in Event
        BY <1>9, InspectShape
      <4> QED
        BY <1>0, <4>1 DEF Fresh
    <3> QED
      BY <3>1
  <2>3. born' \in Nat /\ born <= born'
    BY <1>0, <1>9, InspectShape
  <2>4. /\ work[w] # Idle /\ work[w].pc = "hooks" /\ work[w].ev \in Event /\ work'[w] = Idle
        /\ \A v \in Workers \ {w} : work'[v] = work[v] /\ spawned \subseteq spawned'
    BY <1>9, InspectShape
  <2>5. spawned \subseteq spawned'
    BY <1>9, InspectShape
  <2> QED
    BY <1>0, <2>1, <2>2, <2>3, <2>4, <2>5
<1> QED
  BY <1>1, <1>2, <1>3, <1>4, <1>5, <1>6, <1>7, <1>8, <1>9 DEF Step

LEMMA ArriveShape ==
  ASSUME TypeOK, NEW w \in Workers, NEW e, (\E t \in Templates : Receive(w, t) /\ e = [id |-> born + 1, of |-> t, gen |-> 0])
                                           \/ RunSpawned(w, e) \/ Collect(w, e)
  PROVE  /\ e \in Event
         /\ work[w] = Idle /\ work'[w] # Idle /\ work'[w].ev = e
         /\ work'[w].pc = IF Valid(e.of) THEN "store" ELSE "reject"
         /\ \A v \in Workers \ {w} : work'[v] = work[v]
         /\ born \in Nat /\ born' \in Nat /\ born <= born'
         /\ \/ e.id = born + 1 /\ born' = born + 1 /\ e.gen = 0 /\ spawned' = spawned /\ bus' = bus
            \/ e \in spawned /\ born' = born /\ spawned' = spawned \ {e} /\ bus' = bus
            \/ e \in bus /\ born' = born /\ spawned' = spawned /\ bus' = bus \ {e}
         /\ UNCHANGED <<stored, traces, lineage, dead, history, tokens, triggers, tokenSeq,
                        incidents, incidentSeq, admin, shown>>
<1> USE DEF storeVars, tokenVars, incidentVars
<1>0. born \in Nat /\ born + 1 \in Nat \ {0} /\ spawned \subseteq Event /\ bus \subseteq Event
  BY DEF TypeOK
<1>1. ASSUME NEW t \in Templates, Receive(w, t), e = [id |-> born + 1, of |-> t, gen |-> 0]
      PROVE  e \in Event /\ Begin(w, e) /\ e.id = born + 1 /\ e.gen = 0
  <2>1. e \in Event
    BY <1>0, <1>1, SetsAssumption DEF Event
  <2> QED
    BY <1>1, <2>1 DEF Receive
<1>2. e \in Event /\ Begin(w, e)
  BY <1>0, <1>1 DEF RunSpawned, Collect
<1>3. /\ work[w] = Idle /\ work'[w] # Idle /\ work'[w].ev = e
      /\ work'[w].pc = IF Valid(e.of) THEN "store" ELSE "reject"
      /\ \A v \in Workers \ {w} : work'[v] = work[v]
  BY <1>2, BeginShape
<1>4. ASSUME NEW t \in Templates, Receive(w, t)
      PROVE  /\ born' = born + 1 /\ spawned' = spawned /\ bus' = bus
             /\ UNCHANGED <<stored, traces, lineage, dead, history, tokens, triggers, tokenSeq,
                            incidents, incidentSeq, admin, shown>>
  BY <1>4 DEF Receive
<1> QED
  BY <1>0, <1>1, <1>2, <1>3, <1>4 DEF RunSpawned, Collect

\* A step is an arrival, a step of Process, or leaves the goroutines alone.
LEMMA NextShape ==
  ASSUME Next
  PROVE  \/ \E w \in Workers, t \in Templates : Receive(w, t)
         \/ \E w \in Workers, e \in spawned \cup bus : RunSpawned(w, e) \/ Collect(w, e)
         \/ \E w \in Workers : Step(w)
         \/ \E e \in bus : Lose(e)
         \/ \E tenant \in Tenants \cup {None} : LineageQuery(tenant)
         \/ \E a \in Admins : Handle(a)
BY DEF Next

LEMMA HandleFrame ==
  ASSUME NEW a \in Admins, Handle(a)
  PROVE  UNCHANGED <<work, born, sent, spawned, bus, stored, traces, lineage, dead, history, shown, triggers>>
BY DEF Handle, ReadTokenSeq, WriteTokenSeq, AddToken, DeleteToken, ResolveRead, ResolveWrite,
       feedVars, storeVars, tokenVars, incidentVars

LEMMA PlaceInit == Init => PlaceInv /\ EchoInv
BY DEF Init, PlaceInv, EchoInv, Busy

LEMMA ArrivePlace ==
  ASSUME TypeOK, PlaceInv, EchoInv, NEW w \in Workers, NEW e,
         (\E t \in Templates : Receive(w, t) /\ e = [id |-> born + 1, of |-> t, gen |-> 0])
         \/ RunSpawned(w, e) \/ Collect(w, e)
  PROVE  PlaceInv' /\ EchoInv'
<1>1. /\ e \in Event
      /\ work[w] = Idle /\ work'[w] # Idle /\ work'[w].ev = e
      /\ work'[w].pc = IF Valid(e.of) THEN "store" ELSE "reject"
      /\ \A v \in Workers \ {w} : work'[v] = work[v]
      /\ born \in Nat /\ born' \in Nat /\ born <= born'
      /\ \/ e.id = born + 1 /\ born' = born + 1 /\ e.gen = 0 /\ spawned' = spawned /\ bus' = bus
         \/ e \in spawned /\ born' = born /\ spawned' = spawned \ {e} /\ bus' = bus
         \/ e \in bus /\ born' = born /\ spawned' = spawned /\ bus' = bus \ {e}
      /\ stored' = stored
  BY ArriveShape
<1>2. /\ \A d \in spawned \cup bus \cup stored : d.id \in Nat /\ d.id <= born
      /\ \A v \in Busy : work[v].ev \in Event /\ work[v].ev.id \in Nat /\ work[v].ev.id <= born
  <2>1. spawned \cup bus \cup stored \subseteq Event
    BY DEF TypeOK
  <2>2. \A d \in Event : d.id \in Nat
    BY DEF Event
  <2> QED
    BY <2>1, <2>2, JobShape DEF PlaceInv, Busy
<1>3. Busy' = Busy \cup {w} /\ w \notin Busy /\ \A v \in Busy : work'[v] = work[v]
  BY <1>1 DEF Busy
<1>4. e \notin stored /\ \A v \in Busy : work[v].ev # e
  BY <1>1, <1>2 DEF PlaceInv
<1>5. e \notin spawned' \cup bus'
  BY <1>1, <1>2 DEF PlaceInv
<1>6. e.id \in Nat /\ e.id <= born'
  BY <1>1, <1>2
<1>7. Own(e)
  BY <1>1 DEF EchoInv, Own
<1>8. PlaceInv'
  <2>1. \A d \in (spawned \cup bus \cup stored)' : d.id <= born'
    BY <1>1, <1>2
  <2>2. \A v \in Busy' : work'[v].ev.id <= born'
    BY <1>1, <1>2, <1>3, <1>6
  <2>3. spawned' \cap bus' = {} /\ (spawned' \cup bus') \cap stored' = {}
    BY <1>1 DEF PlaceInv
  <2>4. \A v \in Busy' :
          /\ work'[v].ev \notin (spawned \cup bus)'
          /\ work'[v].ev \in stored' <=> work'[v].pc \notin {"reject", "store"}
    BY <1>1, <1>3, <1>4, <1>5 DEF PlaceInv
  <2>5. \A u, v \in Busy' : work'[u].ev = work'[v].ev => u = v
    BY <1>1, <1>3, <1>4 DEF PlaceInv
  <2> QED
    BY <2>1, <2>2, <2>3, <2>4, <2>5 DEF PlaceInv
<1>9. EchoInv'
  <2>1. \A d \in (spawned \cup bus)' : Own(d)
    BY <1>1 DEF EchoInv
  <2>2. \A v \in Busy' : Own(work'[v].ev) /\ (Valid(work'[v].ev.of) <=> work'[v].pc # "reject")
    BY <1>1, <1>3, <1>7 DEF EchoInv
  <2> QED
    BY <1>1, <2>1, <2>2 DEF EchoInv
<1> QED
  BY <1>8, <1>9

LEMMA StepPlace ==
  ASSUME TypeOK, SeqInv, PlaceInv, EchoInv, NEW w \in Workers, Step(w)
  PROVE  PlaceInv' /\ EchoInv'
<1> DEFINE ev == work[w].ev
<1>1. /\ w \in Busy /\ ev \in Event
      /\ \A v \in Workers \ {w} : work'[v] = work[v]
      /\ work'[w] # Idle => work'[w].ev = ev
      /\ born \in Nat /\ born' \in Nat /\ born <= born'
  BY StepShape DEF Busy
<1>2. \/ work[w].pc = "store" /\ stored' = stored \cup {ev} /\ work'[w].pc = "trace"
      \/ /\ work[w].pc \notin {"store", "reject"} /\ stored' = stored
         /\ work'[w] # Idle => work'[w].pc \notin {"store", "reject"}
      \/ work[w].pc = "reject" /\ stored' = stored /\ work'[w] = Idle
  BY StepShape DEF AddEvent
<1>3. /\ \A e \in spawned' \ spawned : e \in Event /\ Fresh(e) /\ bus' = bus
      /\ \A e \in bus' \ bus : e \in Event /\ Fresh(e) /\ spawned' = spawned
      /\ spawned \subseteq spawned' /\ bus \subseteq bus'
  BY StepShape
<1>4. \A e \in spawned' \ spawned :
         /\ e.of.pipeline = None
         /\ e.of.type = "anomaly" \/ (e.of.type = "bypass" /\ e.gen = ev.gen + 1 /\ ev.of.pipeline # None)
  BY StepShape DEF Ev
<1>5. \A e \in bus' \ bus : e.of.pipeline = None /\ ~Valid(e.of)
  BY StepShape
<1> HIDE DEF ev
<1>6. /\ \A d \in spawned \cup bus \cup stored : d.id \in Nat /\ d.id <= born
      /\ \A v \in Busy : work[v].ev \in Event /\ work[v].ev.id \in Nat /\ work[v].ev.id <= born
  <2>1. spawned \cup bus \cup stored \subseteq Event
    BY DEF TypeOK
  <2>2. \A d \in Event : d.id \in Nat
    BY DEF Event
  <2> QED
    BY <2>1, <2>2, JobShape DEF PlaceInv, Busy
<1>7. /\ \A e \in Event : Fresh(e) => e \notin spawned \cup bus \cup stored
      /\ \A e \in Event : Fresh(e) => \A v \in Busy : work[v].ev # e
  BY <1>1, <1>6 DEF Fresh
<1>8. /\ Busy' \subseteq Busy /\ \A v \in Busy' : work'[v].ev = work[v].ev
      /\ \A v \in Busy' \ {w} : work'[v] = work[v]
  BY <1>1 DEF Busy, ev
<1>9. PlaceInv'
  <2>1. \A d \in (spawned \cup bus \cup stored)' : d.id <= born'
    <3>1. \A d \in (spawned \cup bus \cup stored) : d.id <= born'
      BY <1>1, <1>6
    <3>2. \A d \in (spawned' \ spawned) \cup (bus' \ bus) : d.id <= born'
      BY <1>3 DEF Fresh
    <3>3. ev.id <= born'
      BY <1>1, <1>6 DEF ev
    <3> QED
      BY <1>2, <3>1, <3>2, <3>3
  <2>2. \A v \in Busy' : work'[v].ev.id <= born'
    BY <1>1, <1>6, <1>8
  <2>3. spawned' \cap bus' = {}
    BY <1>3, <1>7 DEF PlaceInv
  <2>4. (spawned' \cup bus') \cap stored' = {}
    <3>1. ev \notin spawned \cup bus
      BY <1>1 DEF PlaceInv, ev
    <3>2. ev \notin spawned' \cup bus'
      BY <1>1, <1>3, <1>7, <3>1 DEF ev
    <3>3. (spawned' \cup bus') \cap stored = {}
      BY <1>3, <1>7 DEF PlaceInv
    <3> QED
      BY <1>2, <3>2, <3>3
  <2>5. \A v \in Busy' : work'[v].ev \notin (spawned \cup bus)'
    BY <1>3, <1>7, <1>8 DEF PlaceInv
  <2>6. \A v \in Busy' : work'[v].ev \in stored' <=> work'[v].pc \notin {"reject", "store"}
    <3>1. ASSUME NEW v \in Busy', v # w
          PROVE  work'[v].ev \in stored' <=> work'[v].pc \notin {"reject", "store"}
      <4>1. v \in Busy /\ work'[v] = work[v] /\ work[v].ev # ev
        BY <1>1, <1>8, <3>1 DEF PlaceInv, ev
      <4> QED
        BY <1>2, <4>1 DEF PlaceInv
    <3>2. ASSUME w \in Busy' PROVE work'[w].ev \in stored' <=> work'[w].pc \notin {"reject", "store"}
      <4>1. work'[w].ev = ev /\ work'[w] # Idle /\ (ev \in stored <=> work[w].pc \notin {"reject", "store"})
        BY <1>1, <3>2 DEF Busy, PlaceInv, ev
      <4> QED
        BY <1>2, <4>1
    <3> QED
      BY <3>1, <3>2
  <2>7. \A u, v \in Busy' : work'[u].ev = work'[v].ev => u = v
    BY <1>8 DEF PlaceInv
  <2> QED
    BY <2>1, <2>2, <2>3, <2>4, <2>5, <2>6, <2>7 DEF PlaceInv
<1>10. EchoInv'
  <2>1. Own(ev) /\ (Valid(ev.of) <=> work[w].pc # "reject")
    BY <1>1 DEF EchoInv, ev
  <2>2. \A e \in spawned' \ spawned : Own(e)
    <3>1. ASSUME NEW e \in spawned' \ spawned PROVE Own(e)
      <4>1. ev.gen \in Nat
        BY <1>1 DEF Event
      <4>2. e.of.type # "anomaly" => e.of.type = "bypass" /\ e.gen = 1
        BY <1>4, <2>1, <3>1, <4>1 DEF Own
      <4> QED
        BY <1>4, <3>1, <4>2 DEF Own
    <3> QED
      BY <3>1
  <2>3. \A e \in bus' \ bus : Own(e)
    BY <1>5 DEF Own
  <2>4. \A e \in (spawned \cup bus)' : Own(e)
    BY <2>2, <2>3 DEF EchoInv
  <2>5. \A e \in stored' : Own(e) /\ Valid(e.of)
    BY <1>2, <2>1 DEF EchoInv
  <2>6. \A v \in Busy' : Own(work'[v].ev) /\ (Valid(work'[v].ev.of) <=> work'[v].pc # "reject")
    <3>1. \A v \in Busy' \ {w} : Own(work'[v].ev) /\ (Valid(work'[v].ev.of) <=> work'[v].pc # "reject")
      BY <1>8 DEF EchoInv
    <3>2. w \in Busy' => Own(work'[w].ev) /\ (Valid(work'[w].ev.of) <=> work'[w].pc # "reject")
      <4>1. w \in Busy' => work'[w] # Idle
        BY DEF Busy
      <4> QED
        BY <1>1, <1>2, <2>1, <4>1
    <3> QED
      BY <3>1, <3>2
  <2> QED
    BY <2>4, <2>5, <2>6 DEF EchoInv
<1> QED
  BY <1>9, <1>10

LEMMA PlaceStep ==
  ASSUME TypeOK, SeqInv, PlaceInv, EchoInv, [Next]_vars
  PROVE  PlaceInv' /\ EchoInv'
<1>1. ASSUME NEW w \in Workers, NEW t \in Templates, Receive(w, t) PROVE PlaceInv' /\ EchoInv'
  BY <1>1, ArrivePlace
<1>2. ASSUME NEW w \in Workers, NEW e, RunSpawned(w, e) \/ Collect(w, e) PROVE PlaceInv' /\ EchoInv'
  BY <1>2, ArrivePlace
<1>3. ASSUME NEW w \in Workers, Step(w) PROVE PlaceInv' /\ EchoInv'
  BY <1>3, StepPlace
<1>4. ASSUME NEW e \in bus, Lose(e) PROVE PlaceInv' /\ EchoInv'
  <2>1. work' = work /\ born' = born /\ spawned' = spawned /\ stored' = stored /\ bus' \subseteq bus
    BY <1>4 DEF Lose, storeVars
  <2> QED
    BY <2>1 DEF PlaceInv, EchoInv, Busy
<1>5. ASSUME NEW tenant \in Tenants \cup {None}, LineageQuery(tenant) PROVE PlaceInv' /\ EchoInv'
  <2> DEFINE e == [id |-> born + 1, of |-> LineageEvent(tenant), gen |-> 1]
  <2>1. /\ work' = work /\ born' = born + 1 /\ spawned' = spawned /\ stored' = stored
        /\ bus' = bus \cup {e}
    BY <1>5 DEF LineageQuery, storeVars
  <2>2. e.id = born + 1 /\ e.of.pipeline = None /\ e.of.status = "completed" /\ ~Valid(e.of)
    BY DEF LineageEvent, Valid, ValidStatuses
  <2>3. born \in Nat
    BY DEF TypeOK
  <2>4. /\ \A d \in spawned \cup bus \cup stored : d.id \in Nat /\ d.id <= born
        /\ \A v \in Busy : work[v].ev.id \in Nat /\ work[v].ev.id <= born
    <3>1. spawned \cup bus \cup stored \subseteq Event
      BY DEF TypeOK
    <3>2. \A d \in Event : d.id \in Nat
      BY DEF Event
    <3> QED
      BY <3>1, <3>2, JobShape DEF PlaceInv, Busy
  <2> HIDE DEF e
  <2>5. Own(e)
    BY <2>2 DEF Own
  <2>6. e \notin spawned \cup bus \cup stored /\ \A v \in Busy : work[v].ev # e
    BY <2>2, <2>3, <2>4
  <2>7. EchoInv'
    BY <2>1, <2>5 DEF EchoInv, Busy
  <2>8. /\ \A d \in (spawned \cup bus \cup stored)' : d.id <= born'
        /\ \A v \in Busy : work[v].ev.id <= born'
    BY <2>1, <2>2, <2>3, <2>4
  <2>9. PlaceInv'
    BY <2>1, <2>6, <2>8 DEF PlaceInv, Busy
  <2> QED
    BY <2>7, <2>9
<1>6. ASSUME NEW a \in Admins, Handle(a) PROVE PlaceInv' /\ EchoInv'
  BY <1>6, HandleFrame DEF PlaceInv, EchoInv, Busy
<1>7. CASE UNCHANGED vars
  BY <1>7 DEF vars, PlaceInv, EchoInv, Busy
<1> QED
  BY <1>1, <1>2, <1>3, <1>4, <1>5, <1>6, <1>7, NextShape
--------------------------------------------------------------------------------
(* Traces                                                                     *)

\* A span more is a member more.
LEMMA AppendRange ==
  ASSUME NEW S, NEW s \in Seq(S), NEW e \in S
  PROVE  Range(Append(s, e)) = Range(s) \cup {e}
<1>1. /\ Append(s, e) \in Seq(S) /\ Len(Append(s, e)) = Len(s) + 1 /\ Len(s) \in Nat
      /\ \A i \in 1..Len(s) : Append(s, e)[i] = s[i]
      /\ Append(s, e)[Len(s) + 1] = e
      /\ DOMAIN s = 1..Len(s) /\ DOMAIN Append(s, e) = 1..(Len(s) + 1)
  OBVIOUS
<1>2. Len(s) + 1 \in 1..(Len(s) + 1) /\ \A i \in 1..(Len(s) + 1) : i \in 1..Len(s) \/ i = Len(s) + 1
  BY <1>1
<1>3. \A i \in 1..Len(s) : i \in 1..(Len(s) + 1)
  BY <1>1
<1> DEFINE t == Append(s, e)
<1> HIDE DEF t
<1>4. Range(t) \subseteq Range(s) \cup {e}
  BY <1>1, <1>2 DEF Range, t
<1>5. Range(s) \cup {e} \subseteq Range(t)
  BY <1>1, <1>2, <1>3 DEF Range, t
<1> QED
  BY <1>4, <1>5 DEF t

\* A sequence without repetition has as many members as places.
LEMMA DistinctCount ==
  ASSUME NEW S, NEW s \in Seq(S), \A i, j \in DOMAIN s : s[i] = s[j] => i = j
  PROVE  Cardinality(Range(s)) = Len(s)
<1>1. Len(s) \in Nat /\ DOMAIN s = 1..Len(s) /\ s \in [1..Len(s) -> S]
  OBVIOUS
<1>2. s \in [1..Len(s) -> Range(s)]
  BY <1>1 DEF Range
<1>3. s \in Bijection(1..Len(s), Range(s))
  BY <1>1, <1>2 DEF Bijection, Injection, Surjection, Range, IsInjective
<1>4. ExistsBijection(1..Len(s), Range(s))
  BY <1>3 DEF ExistsBijection
<1> QED
  BY <1>1, <1>4, FS_CountingElements

LEMMA SpanInit == Init => SpanInv
BY DEF Init, SpanInv, NoTrace, Range

LEMMA SpanStep ==
  ASSUME TypeOK, SeqInv, PlaceInv, SpanInv, [Next]_vars
  PROVE  SpanInv'
<1>1. ASSUME NEW w \in Workers, NEW e,
             (\E t \in Templates : Receive(w, t) /\ e = [id |-> born + 1, of |-> t, gen |-> 0])
             \/ RunSpawned(w, e) \/ Collect(w, e)
      PROVE  SpanInv'
  <2>1. /\ stored' = stored /\ traces' = traces /\ work[w] = Idle /\ work'[w].pc \in {"store", "reject"}
        /\ \A v \in Workers \ {w} : work'[v] = work[v]
    BY <1>1, ArriveShape
  <2>2. Unspanned' = Unspanned
    BY <2>1 DEF Unspanned, At, Idle
  <2> QED
    BY <2>1, <2>2 DEF SpanInv
<1>2. ASSUME NEW w \in Workers, Step(w) PROVE SpanInv'
  <2> DEFINE ev == work[w].ev
  <2>1. /\ work[w] # Idle /\ ev \in Event
        /\ \A v \in Workers \ {w} : work'[v] = work[v]
        /\ work'[w] # Idle => work'[w].ev = ev
    BY <1>2, StepShape
  <2> HIDE DEF ev
  <2>2. \A v \in Workers \ {w} : At(v, "trace") => work[v].ev # ev
    BY <2>1 DEF PlaceInv, Busy, At, Idle, ev
  <2>3. CASE AddEvent(w)
    <3>1. /\ work[w].pc = "store" /\ stored' = stored \cup {ev} /\ work'[w].pc = "trace" /\ traces' = traces
      BY <1>2, <2>3, StepShape DEF AddEvent, At, ev
    <3>2. work'[w].ev = ev
      BY <2>1, <3>1 DEF Idle
    <3>3. Unspanned' = Unspanned \cup {ev}
      BY <2>1, <3>1, <3>2 DEF Unspanned, At
    <3>4. ev \notin stored
      BY <2>1, <3>1 DEF PlaceInv, Busy, ev
    <3>5. \A t \in Traces : {e \in stored' : e.of.trace = t} \ Unspanned' = {e \in stored : e.of.trace = t} \ Unspanned
      BY <3>1, <3>3, <3>4
    <3> QED
      BY <3>1, <3>5 DEF SpanInv
  <2>4. CASE UpsertTrace(w)
    <3>1. work[w].pc = "trace" /\ stored' = stored /\ work'[w].pc # "trace"
      BY <1>2, <2>4, StepShape DEF UpsertTrace, At, storeVars, Goto, Idle
    <3>2. ev \in stored /\ ev \in Unspanned /\ Ev(w).trace \in Traces \cup {None} /\ Ev(w) = ev.of
      BY <2>1, <3>1 DEF PlaceInv, Busy, ev, Unspanned, At, Ev, Event, Template
    <3>3. Unspanned' = Unspanned \ {ev}
      BY <2>1, <2>2, <3>1 DEF Unspanned, At, ev
    <3>4. SUFFICES ASSUME NEW t \in Traces
                   PROVE  /\ Range(traces'[t].spans) = {e \in stored : e.of.trace = t} \ (Unspanned \ {ev})
                          /\ \A i, j \in DOMAIN traces'[t].spans :
                                traces'[t].spans[i] = traces'[t].spans[j] => i = j
      BY <3>1, <3>3 DEF SpanInv
    <3>5. CASE t = ev.of.trace
      <4>1. t # None
        BY SetsAssumption
      <4>2. traces \in [Traces -> Trace]
        BY DEF TypeOK, Trace
      <4>3. traces' = [traces EXCEPT ![t] = WithSpan(traces[t], ev)]
        BY <2>4, <3>2, <3>5, <4>1 DEF UpsertTrace, ev
      <4>4. traces'[t].spans = Append(traces[t].spans, ev) /\ traces[t].spans \in Seq(Event)
        BY <2>1, <4>2, <4>3, SpanShape DEF Trace
      <4> DEFINE s == traces[t].spans
      <4>5. Range(s) = {e \in stored : e.of.trace = t} \ Unspanned /\ \A i, j \in DOMAIN s : s[i] = s[j] => i = j
        BY DEF SpanInv
      <4>6. s \in Seq(Event) /\ traces'[t].spans = Append(s, ev)
        BY <4>4
      <4> HIDE DEF s
      <4>7. Range(Append(s, ev)) = Range(s) \cup {ev}
        BY <2>1, <4>6, AppendRange
      <4>8. ev \notin Range(s)
        BY <3>2, <4>5
      <4>9. \A i, j \in DOMAIN Append(s, ev) : Append(s, ev)[i] = Append(s, ev)[j] => i = j
        <5>1. \A i \in DOMAIN s : s[i] # ev
          BY <4>8 DEF Range
        <5>2. /\ Len(s) \in Nat /\ DOMAIN s = 1..Len(s) /\ DOMAIN Append(s, ev) = 1..(Len(s) + 1)
              /\ \A i \in 1..Len(s) : Append(s, ev)[i] = s[i]
              /\ Append(s, ev)[Len(s) + 1] = ev
          BY <2>1, <4>6
        <5>3. \A i \in 1..(Len(s) + 1) : i \in 1..Len(s) \/ i = Len(s) + 1
          BY <5>2
        <5> DEFINE r == Append(s, ev)
        <5> HIDE DEF r
        <5> QED
          BY <4>5, <5>1, <5>2, <5>3
      <4>10. Range(s) \cup {ev} = {e \in stored : e.of.trace = t} \ (Unspanned \ {ev})
        BY <3>2, <3>5, <4>5
      <4> QED
        BY <4>6, <4>7, <4>9, <4>10
    <3>6. CASE t # ev.of.trace
      <4>1. traces'[t] = traces[t]
        BY <2>4, <3>2, <3>6 DEF UpsertTrace, TypeOK
      <4>2. {e \in stored : e.of.trace = t} \ (Unspanned \ {ev}) = {e \in stored : e.of.trace = t} \ Unspanned
        BY <3>6
      <4> QED
        BY <4>1, <4>2 DEF SpanInv
    <3> QED
      BY <3>5, <3>6
  <2>5. CASE ~AddEvent(w) /\ ~UpsertTrace(w)
    <3>1. stored' = stored /\ traces' = traces /\ work[w].pc # "trace" /\ work'[w].pc # "trace"
      BY <1>2, <2>5, StepShape DEF Idle
    <3>2. Unspanned' = Unspanned
      BY <2>1, <3>1 DEF Unspanned, At
    <3> QED
      BY <3>1, <3>2 DEF SpanInv
  <2> QED
    BY <2>3, <2>4, <2>5
<1>3. ASSUME NEW e \in bus, Lose(e) PROVE SpanInv'
  <2>1. work' = work /\ stored' = stored /\ traces' = traces
    BY <1>3 DEF Lose, storeVars
  <2>2. Unspanned' = Unspanned
    BY <2>1 DEF Unspanned, At
  <2> QED
    BY <2>1, <2>2 DEF SpanInv
<1>4. ASSUME NEW tenant \in Tenants \cup {None}, LineageQuery(tenant) PROVE SpanInv'
  <2>1. work' = work /\ stored' = stored /\ traces' = traces
    BY <1>4 DEF LineageQuery, storeVars
  <2>2. Unspanned' = Unspanned
    BY <2>1 DEF Unspanned, At
  <2> QED
    BY <2>1, <2>2 DEF SpanInv
<1>5. ASSUME NEW a \in Admins, Handle(a) PROVE SpanInv'
  BY <1>5, HandleFrame DEF SpanInv, Unspanned, At
<1>6. CASE UNCHANGED vars
  BY <1>6 DEF vars, SpanInv, Unspanned, At
<1> QED
  BY <1>1, <1>2, <1>3, <1>4, <1>5, <1>6, NextShape

\* The events of a trace that decide its state, and what they make of it.
Deciding(s) == {i \in DOMAIN s : s[i].of.status \in {"blocked", "error"} \/ s[i].of.closing}
Verdict(e) == IF e.of.status \in {"blocked", "error"} THEN e.of.status ELSE "completed"

Decided(tr) ==
    IF Deciding(tr.spans) = {} THEN tr.status = "in_progress" /\ tr.end = 0
    ELSE /\ tr.end = tr.spans[Len(tr.spans)].id
         /\ \E i \in Deciding(tr.spans) :
               (\A j \in Deciding(tr.spans) : j <= i) /\ tr.status = Verdict(tr.spans[i])

LEMMA DecidedAll == TraceDecided <=> \A t \in Traces : Decided(traces[t])
BY DEF TraceDecided, Decided, Deciding, Verdict

LEMMA DecidedSpan ==
  ASSUME NEW tr \in Trace, NEW e \in Event, Decided(tr)
  PROVE  Decided(WithSpan(tr, e))
<1> DEFINE s == tr.spans
           new == WithSpan(tr, e)
           r == new.spans
<1>1. /\ new \in Trace /\ r = Append(s, e)
      /\ new.status = IF e.of.status \in {"blocked", "error"} THEN e.of.status
                      ELSE IF e.of.closing THEN "completed" ELSE tr.status
      /\ new.end = IF new.status \in Closed THEN e.id ELSE tr.end
  BY SpanShape
<1>2. s \in Seq(Event)
  BY DEF Trace
<1> HIDE DEF new, s
<1>3. /\ Len(s) \in Nat /\ Len(s) + 1 \in Nat /\ DOMAIN s = 1..Len(s) /\ DOMAIN r = 1..(Len(s) + 1) /\ Len(r) = Len(s) + 1
      /\ \A i \in 1..Len(s) : r[i] = s[i]
      /\ r[Len(s) + 1] = e
  BY <1>1, <1>2
<1>4. e.of \in Template /\ e.of.closing \in BOOLEAN
  BY DEF Event, Template
<1> HIDE DEF r
<1>5. \A i \in 1..(Len(s) + 1) : i <= Len(s) + 1 /\ (i \in 1..Len(s) \/ i = Len(s) + 1)
  BY <1>3
<1>6. \A i \in 1..Len(s) : i \in 1..(Len(s) + 1)
  BY <1>3
<1>7. CASE e.of.status \in {"blocked", "error"} \/ e.of.closing
  <2>1. new.status = Verdict(e) /\ new.status \in Closed
    BY <1>1, <1>7 DEF Verdict, Closed
  <2>2. new.end = r[Len(r)].id
    BY <1>1, <1>3, <2>1
  <2>3. Len(s) + 1 \in Deciding(r)
    BY <1>3, <1>7 DEF Deciding
  <2>4. \A j \in Deciding(r) : j <= Len(s) + 1
    BY <1>3, <1>5 DEF Deciding
  <2> QED
    BY <1>3, <2>1, <2>2, <2>3, <2>4 DEF Decided, r, new
<1>8. CASE ~(e.of.status \in {"blocked", "error"} \/ e.of.closing)
  <2>1. new.status = tr.status
    BY <1>1, <1>8
  <2>2. Deciding(r) = Deciding(s)
    BY <1>3, <1>5, <1>6, <1>8 DEF Deciding
  <2>3. CASE Deciding(s) = {}
    <3>1. tr.status = "in_progress" /\ tr.end = 0
      BY <2>3 DEF Decided, s
    <3>2. new.status = "in_progress" /\ new.end = 0
      BY <1>1, <2>1, <3>1 DEF Closed
    <3> QED
      BY <2>2, <2>3, <3>2 DEF Decided, r, new
  <2>4. CASE Deciding(s) # {}
    <3>1. PICK i \in Deciding(s) : (\A j \in Deciding(s) : j <= i) /\ tr.status = Verdict(s[i])
      BY <2>4 DEF Decided, s
    <3>2. r[i] = s[i] /\ (s[i].of.status \in {"blocked", "error"} \/ s[i].of.closing)
      BY <1>3 DEF Deciding
    <3>3. tr.status \in Closed
      BY <3>1, <3>2 DEF Verdict, Closed
    <3>4. new.end = r[Len(r)].id
      BY <1>1, <1>3, <2>1, <3>3
    <3>5. new.status = Verdict(r[i])
      BY <2>1, <3>1, <3>2
    <3> QED
      BY <2>2, <2>4, <3>1, <3>4, <3>5 DEF Decided, r, new
  <2> QED
    BY <2>3, <2>4
<1> QED
  BY <1>7, <1>8 DEF new

LEMMA DecidedInit == Init => TraceDecided
<1>1. Decided(NoTrace)
  BY DEF Decided, Deciding, NoTrace
<1> QED
  BY <1>1, DecidedAll DEF Init

LEMMA DecidedStep ==
  ASSUME TypeOK, SeqInv, TraceDecided, [Next]_vars
  PROVE  TraceDecided'
<1>1. SUFFICES \A t \in Traces : Decided(traces'[t])
  BY DEF TraceDecided, Decided, Deciding, Verdict
<1>2. traces \in [Traces -> Trace] /\ \A t \in Traces : Decided(traces[t])
  BY DecidedAll DEF TypeOK, Trace
<1>3. traces' = traces \/ \E w \in Workers : UpsertTrace(w)
  <2>1. ASSUME NEW w \in Workers, Step(w) PROVE traces' = traces \/ UpsertTrace(w)
    BY <2>1, StepShape
  <2>2. ASSUME NEW a \in Admins, Handle(a) PROVE traces' = traces
    BY <2>2, HandleFrame
  <2>3. CASE UNCHANGED vars
    BY <2>3 DEF vars
  <2> QED
    BY <2>1, <2>2, <2>3 DEF Next, Receive, RunSpawned, Collect, Lose, LineageQuery, storeVars
<1>4. ASSUME NEW w \in Workers, UpsertTrace(w), NEW t \in Traces PROVE Decided(traces'[t])
  <2>1. work[w].ev \in Event
    BY <1>4, JobShape DEF UpsertTrace, At, Idle, Stage
  <2>2. \/ traces' = traces
        \/ traces' = [traces EXCEPT ![Ev(w).trace] = WithSpan(traces[Ev(w).trace], work[w].ev)]
    BY <1>4 DEF UpsertTrace
  <2> QED
    BY <1>2, <2>1, <2>2, DecidedSpan
<1> QED
  BY <1>2, <1>3, <1>4
--------------------------------------------------------------------------------
(* What is shown                                                              *)

LEMMA ShownInit == Init => ShownInv
BY DEF Init, ShownInv, ShownIsThere, At, Idle

\* While nothing is taken from the store, its traces or the screen, what was shown stays
\* there.
LEMMA ShownKept ==
  ASSUME ShownIsThere, stored \subseteq stored', shown \subseteq shown',
         \A t \in Traces : Spans(t) \subseteq Spans(t)',
         \A e \in stored : e.of.trace \in Traces \cup {None}
  PROVE  \A x \in shown : x[1] = "event" =>
            \E e \in stored' : /\ e.id = x[2]
                               /\ e.of.trace # None => e \in Spans(e.of.trace)'
                               /\ Warrants(e.of) => <<"incident", e.id>> \in shown'
<1> SUFFICES ASSUME NEW x \in shown, x[1] = "event"
             PROVE  \E e \in stored' : /\ e.id = x[2]
                                       /\ e.of.trace # None => e \in Spans(e.of.trace)'
                                       /\ Warrants(e.of) => <<"incident", e.id>> \in shown'
  OBVIOUS
<1>1. PICK e \in stored : /\ e.id = x[2]
                          /\ e.of.trace # None => e \in Spans(e.of.trace)
                          /\ Warrants(e.of) => <<"incident", e.id>> \in shown
  BY DEF ShownIsThere
<1> QED
  BY <1>1

LEMMA ShownStep ==
  ASSUME TypeOK, SeqInv, PlaceInv, SpanInv, ShownInv, [Next]_vars
  PROVE  ShownInv'
<1>0. /\ stored \subseteq Event /\ \A e \in Event : e.of.trace \in Traces \cup {None}
      /\ \A e \in stored : e.of.trace \in Traces \cup {None}
  <2>1. \A e \in Event : e.of.trace \in Traces \cup {None}
    BY DEF Event, Template
  <2> QED
    BY <2>1 DEF TypeOK
<1>1. ASSUME UNCHANGED <<stored, traces, shown>>
      PROVE  ShownIsThere'
  BY <1>1 DEF ShownInv, ShownIsThere, Spans
<1>2. ASSUME UNCHANGED <<stored, traces, shown>>, NEW w \in Workers, work'[w].pc # "show",
             \A v \in Workers \ {w} : work'[v] = work[v]
      PROVE  ShownInv'
  BY <1>1, <1>2 DEF ShownInv, At, Ev
<1>3. ASSUME NEW w \in Workers, NEW e,
             (\E t \in Templates : Receive(w, t) /\ e = [id |-> born + 1, of |-> t, gen |-> 0])
             \/ RunSpawned(w, e) \/ Collect(w, e)
      PROVE  ShownInv'
  <2>1. UNCHANGED <<stored, traces, shown>> /\ work'[w].pc # "show" /\ \A v \in Workers \ {w} : work'[v] = work[v]
    BY <1>3, ArriveShape
  <2> QED
    BY <1>2, <2>1
<1>4. ASSUME NEW w \in Workers, Step(w) PROVE ShownInv'
  <2> DEFINE ev == work[w].ev
  <2>1. /\ work[w] # Idle /\ ev \in Event
        /\ \A v \in Workers \ {w} : work'[v] = work[v]
        /\ work'[w] # Idle => work'[w].ev = ev
    BY <1>4, StepShape
  <2>2. ShownIsThere /\ \A v \in Workers : At(v, "show") /\ Warrants(Ev(v)) => <<"incident", work[v].ev.id>> \in shown
    BY DEF ShownInv
  <2>3. stored \subseteq stored'
    BY <1>4, StepShape DEF AddEvent
  <2>4. \A t \in Traces : Spans(t) \subseteq Spans(t)'
    <3>1. CASE traces' = traces
      BY <3>1 DEF Spans
    <3>2. CASE UpsertTrace(w)
      <4> SUFFICES ASSUME NEW t \in Traces PROVE Spans(t) \subseteq Spans(t)'
        OBVIOUS
      <4>1. traces \in [Traces -> Trace] /\ Ev(w) = ev.of
        BY DEF TypeOK, Trace, Ev
      <4>2. traces'[t] = traces[t] \/ traces'[t] = WithSpan(traces[t], ev)
        BY <3>2, <4>1 DEF UpsertTrace
      <4>3. traces[t].spans \in Seq(Event) /\ traces[t] \in Trace
        BY <4>1 DEF Trace
      <4> HIDE DEF ev
      <4>4. WithSpan(traces[t], ev).spans = Append(traces[t].spans, ev)
        BY <2>1, <4>3, SpanShape
      <4>5. Range(Append(traces[t].spans, ev)) = Range(traces[t].spans) \cup {ev}
        BY <2>1, <4>3, AppendRange
      <4> QED
        BY <4>2, <4>4, <4>5 DEF Spans
    <3> QED
      BY <1>4, <3>1, <3>2, StepShape
  <2>5. CASE Show(w)
    <3>1. work[w].pc = "show" /\ shown' = shown \cup {<<"event", ev.id>>}
      BY <2>5 DEF Show, At
    <3>2. work'[w].pc = "hooks" /\ stored' = stored /\ traces' = traces
      BY <2>5, <2>1, <3>1, GotoShape DEF Show, Stage, storeVars
    <3>3. ev \in stored
      BY <2>1, <3>1 DEF PlaceInv, Busy
    <3>4. ev \notin Unspanned
      <4>1. \A v \in Workers : At(v, "trace") => work[v].ev # ev
        BY <2>1, <3>1 DEF PlaceInv, Busy, At, Idle
      <4> HIDE DEF ev
      <4> QED
        BY <4>1 DEF Unspanned
    <3>5. ev.of.trace # None => ev \in Range(traces'[ev.of.trace].spans)
      <4>1. ev.of.trace # None => ev \in Spans(ev.of.trace)
        BY <1>0, <3>3, <3>4 DEF SpanInv, Spans
      <4> QED
        BY <3>2, <4>1 DEF Spans
    <3>6. Warrants(ev.of) => <<"incident", ev.id>> \in shown'
      BY <2>2, <3>1 DEF At, Ev
    <3>7. shown \subseteq shown' /\ \A x \in shown' \ shown : x[2] = ev.id
      BY <3>1
    <3>8. ShownIsThere'
      <4>1. \A x \in shown : x[1] = "event" =>
              \E e \in stored' : /\ e.id = x[2]
                                 /\ e.of.trace # None => e \in Spans(e.of.trace)'
                                 /\ Warrants(e.of) => <<"incident", e.id>> \in shown'
        BY <1>0, <2>2, <2>3, <2>4, <3>7, ShownKept
      <4> HIDE DEF ev
      <4>2. \A x \in shown' \ shown :
              \E e \in stored' : /\ e.id = x[2]
                                 /\ e.of.trace # None => e \in Spans(e.of.trace)'
                                 /\ Warrants(e.of) => <<"incident", e.id>> \in shown'
        BY <2>3, <3>3, <3>5, <3>6, <3>7 DEF Spans
      <4> QED
        BY <4>1, <4>2 DEF ShownIsThere
    <3>9. \A v \in Workers : (At(v, "show") /\ Warrants(Ev(v)) => <<"incident", work[v].ev.id>> \in shown)'
      BY <2>1, <2>2, <3>2, <3>7 DEF At, Ev
    <3> QED
      BY <3>8, <3>9 DEF ShownInv
  <2>6. CASE ~Show(w)
    <3>1. shown \subseteq shown' /\ \A x \in shown' \ shown : x[1] # "event"
      <4>1. CASE Announce(w)
        BY <4>1 DEF Announce
      <4>2. CASE Inspect(w)
        BY <4>2, InspectShape
      <4>3. CASE ~Announce(w) /\ ~Inspect(w)
        BY <1>4, <2>6, <4>3 DEF Step, Reject, AddEvent, UpsertTrace, AddChunkLineage, BypassCheck, CheckEvent,
                                ReadSeq, WriteSeq, AddIncident
      <4> QED
        BY <4>1, <4>2, <4>3
    <3>2. ShownIsThere'
      <4>1. \A x \in shown : x[1] = "event" =>
              \E e \in stored' : /\ e.id = x[2]
                                 /\ e.of.trace # None => e \in Spans(e.of.trace)'
                                 /\ Warrants(e.of) => <<"incident", e.id>> \in shown'
        BY <1>0, <2>2, <2>3, <2>4, <3>1, ShownKept
      <4> QED
        BY <3>1, <4>1 DEF ShownIsThere
    <3>3. At(w, "show")' /\ Warrants(ev.of) => <<"incident", ev.id>> \in shown'
      <4>1. CASE Announce(w)
        BY <4>1 DEF Announce
      <4>2. CASE CheckEvent(w)
        <5>1. Goto(w, IF Warrants(Ev(w)) THEN "incident" ELSE "show") /\ work[w].pc \in Stage
          BY <4>2, CheckShape DEF Stage
        <5>2. Warrants(ev.of) => Goto(w, "incident")
          BY <5>1 DEF Ev
        <5>3. Warrants(ev.of) => work'[w].pc = "incident"
          BY <5>1, <5>2, GotoShape DEF Stage
        <5> QED
          BY <5>3 DEF At
      <4>3. CASE ReadSeq(w) \/ WriteSeq(w) \/ AddIncident(w)
        BY <4>3, NumberShape DEF At
      <4>4. CASE Reject(w) \/ Inspect(w)
        BY <4>4 DEF Reject, Inspect, At, Idle, TypeOK
      <4>5. CASE AddEvent(w) \/ UpsertTrace(w) \/ AddChunkLineage(w) \/ BypassCheck(w)
        <5>1. PICK pc \in {"trace", "lineage", "bypass", "honey"} : Goto(w, pc)
          BY <4>5 DEF AddEvent, UpsertTrace, AddChunkLineage, BypassCheck
        <5>2. work[w].pc \in Stage
          BY <4>5 DEF AddEvent, UpsertTrace, AddChunkLineage, BypassCheck, At, Stage
        <5> QED
          BY <5>1, <5>2, GotoShape DEF Stage, At
      <4> QED
        BY <1>4, <2>6, <4>1, <4>2, <4>3, <4>4, <4>5 DEF Step
    <3>4. \A v \in Workers : (At(v, "show") /\ Warrants(Ev(v)) => <<"incident", work[v].ev.id>> \in shown)'
      <4>1. At(w, "show")' => work'[w].ev = ev
        BY <2>1 DEF At, Idle
      <4> QED
        BY <2>1, <2>2, <3>1, <3>3, <4>1 DEF At, Ev
    <3> QED
      BY <3>2, <3>4 DEF ShownInv
  <2> QED
    BY <2>5, <2>6
<1>5. ASSUME UNCHANGED <<work, stored, traces, shown>> PROVE ShownInv'
  BY <1>1, <1>5 DEF ShownInv, At, Ev
<1>6. ASSUME NEW e \in bus, Lose(e) PROVE UNCHANGED <<work, stored, traces, shown>>
  BY <1>6 DEF Lose, storeVars
<1>7. ASSUME NEW tenant \in Tenants \cup {None}, LineageQuery(tenant) PROVE UNCHANGED <<work, stored, traces, shown>>
  BY <1>7 DEF LineageQuery, storeVars
<1>8. ASSUME NEW a \in Admins, Handle(a) PROVE UNCHANGED <<work, stored, traces, shown>>
  BY <1>8, HandleFrame
<1>9. CASE UNCHANGED vars
  BY <1>5, <1>9 DEF vars
<1> QED
  BY <1>3, <1>4, <1>5, <1>6, <1>7, <1>8, <1>9, NextShape
--------------------------------------------------------------------------------
(* Triggers                                                                   *)

Checking == {"trace", "lineage", "bypass", "honey"}

\* Stored events that are past the honey stage, and those of them that name a token.
Past == stored \ Unchecked
Naming(t) == {e.id : e \in {d \in Past : d.of.type = "honey" /\ d.of.token = t}}

\* How far a step takes its event.
LEMMA StageStep ==
  ASSUME TypeOK, SeqInv, NEW w \in Workers, Step(w)
  PROVE  \/ work[w].pc = "store" /\ AddEvent(w) /\ work'[w].pc = "trace"
         \/ /\ work[w].pc \in Checking \ {"honey"} /\ work'[w].pc \in Checking
            /\ UNCHANGED <<stored, tokens, triggers, tokenSeq>>
         \/ work[w].pc = "honey" /\ CheckEvent(w) /\ work'[w].pc \notin Checking /\ UNCHANGED <<stored, tokenSeq>>
         \/ /\ work[w].pc \notin Checking /\ work'[w].pc \notin Checking
            /\ UNCHANGED <<stored, tokens, triggers, tokenSeq>>
<1> USE DEF storeVars, tokenVars
<1>1. CASE AddEvent(w)
  BY <1>1, StepShape DEF AddEvent, At
<1>2. CASE CheckEvent(w)
  <2>1. PICK pc \in {"incident", "show"} : Goto(w, pc)
    BY <1>2, CheckShape
  <2>2. work[w].pc = "honey"
    BY <1>2, CheckShape
  <2>3. work'[w].pc = pc
    BY <2>1, <2>2, GotoShape DEF Stage
  <2> QED
    BY <1>2, <2>2, <2>3 DEF CheckEvent, Checking
<1>3. CASE UpsertTrace(w) \/ AddChunkLineage(w) \/ BypassCheck(w)
  <2>1. PICK pc \in {"lineage", "bypass", "honey"} : Goto(w, pc)
    BY <1>3 DEF UpsertTrace, AddChunkLineage, BypassCheck
  <2>2. work[w].pc \in {"trace", "lineage", "bypass"}
    BY <1>3 DEF UpsertTrace, AddChunkLineage, BypassCheck, At
  <2>3. work'[w].pc = pc
    BY <2>1, <2>2, GotoShape DEF Stage
  <2>4. UNCHANGED <<stored, tokens, triggers, tokenSeq>>
    BY <1>3 DEF UpsertTrace, AddChunkLineage, BypassCheck
  <2> QED
    BY <2>2, <2>3, <2>4 DEF Checking
<1>4. CASE Announce(w) \/ Show(w)
  <2>1. PICK pc \in {"show", "hooks"} : Goto(w, pc)
    BY <1>4 DEF Announce, Show
  <2>2. work[w].pc \in {"announce", "show"}
    BY <1>4 DEF Announce, Show, At
  <2>3. work'[w].pc = pc
    BY <2>1, <2>2, GotoShape DEF Stage
  <2>4. UNCHANGED <<stored, tokens, triggers, tokenSeq>>
    BY <1>4 DEF Announce, Show
  <2> QED
    BY <2>2, <2>3, <2>4 DEF Checking
<1>5. CASE Reject(w) \/ Inspect(w)
  <2>1. work'[w] = Idle /\ work[w].pc \in {"reject", "hooks"}
    BY <1>5 DEF Reject, Inspect, At, TypeOK
  <2>2. UNCHANGED <<stored, tokens, triggers, tokenSeq>>
    BY <1>5 DEF Reject, Inspect
  <2> QED
    BY <2>1, <2>2 DEF Checking, Idle
<1>6. CASE ReadSeq(w) \/ WriteSeq(w) \/ AddIncident(w)
  <2>1. work[w].pc \in {"incident", "read", "written"} /\ work'[w].pc \in {"read", "written", "announce"}
    BY <1>6, NumberShape
  <2>2. UNCHANGED <<stored, tokens, triggers, tokenSeq>>
    BY <1>6 DEF ReadSeq, WriteSeq, AddIncident
  <2> QED
    BY <2>1, <2>2 DEF Checking
<1> QED
  BY <1>1, <1>2, <1>3, <1>4, <1>5, <1>6 DEF Step

\* Only CheckEvent takes an event past the honey stage.
LEMMA PastStep ==
  ASSUME TypeOK, SeqInv, PlaceInv, NEW w \in Workers, Step(w)
  PROVE  Past' = IF CheckEvent(w) THEN Past \cup {work[w].ev} ELSE Past
<1>1. PICK ev \in Event :
        /\ ev = work[w].ev /\ w \in Busy
        /\ \A v \in Workers \ {w} : work'[v] = work[v]
        /\ work'[w] # Idle => work'[w].ev = ev
  BY StepShape DEF Busy
<1>2. \A v \in Workers \ {w} : work[v].pc \in Checking => work[v].ev # ev
  BY <1>1 DEF PlaceInv, Busy, Idle, Checking
<1>3. /\ Unchecked = {work[v].ev : v \in {u \in Workers : work[u].pc \in Checking}}
      /\ Unchecked' = {work'[v].ev : v \in {u \in Workers : work'[u].pc \in Checking}}
  BY DEF Unchecked, Checking
<1>4. work'[w].pc \in Checking => work'[w].ev = ev
  BY <1>1 DEF Checking, Idle
<1>5. CASE work[w].pc = "store" /\ AddEvent(w) /\ work'[w].pc = "trace"
  <2>1. stored' = stored \cup {ev} /\ ev \notin stored
    BY <1>1, <1>5 DEF AddEvent, PlaceInv
  <2>2. Unchecked' = Unchecked \cup {ev}
    BY <1>1, <1>3, <1>4, <1>5 DEF Checking
  <2>3. ~CheckEvent(w)
    BY <1>5 DEF CheckEvent, At
  <2> QED
    BY <2>1, <2>2, <2>3 DEF Past
<1>6. CASE /\ work[w].pc \in Checking \ {"honey"} /\ work'[w].pc \in Checking
           /\ stored' = stored
  <2>1. Unchecked' = Unchecked
    BY <1>1, <1>3, <1>4, <1>6
  <2>2. ~CheckEvent(w)
    BY <1>6 DEF CheckEvent, At
  <2> QED
    BY <1>6, <2>1, <2>2 DEF Past
<1>7. CASE work[w].pc = "honey" /\ CheckEvent(w) /\ work'[w].pc \notin Checking /\ stored' = stored
  <2>1. Unchecked' = Unchecked \ {ev}
    BY <1>1, <1>2, <1>3, <1>7
  <2>2. ev \in stored
    BY <1>1, <1>7 DEF PlaceInv
  <2> QED
    BY <1>1, <1>7, <2>1, <2>2 DEF Past
<1>8. CASE work[w].pc \notin Checking /\ work'[w].pc \notin Checking /\ stored' = stored
  <2>1. Unchecked' = Unchecked
    BY <1>1, <1>3, <1>8
  <2>2. ~CheckEvent(w)
    BY <1>8 DEF CheckEvent, At, Checking
  <2> QED
    BY <1>8, <2>1, <2>2 DEF Past
<1> QED
  BY <1>5, <1>6, <1>7, <1>8, StageStep

LEMMA TriggersInit == Init => TriggersCounted
<1> SUFFICES ASSUME Init, NEW t \in TokenIds, tokens[t] # Absent
             PROVE  /\ tokens[t].count <= Len(triggers[t])
                    /\ t <= SeedTokens =>
                          /\ tokens[t].count = Len(triggers[t])
                          /\ Range(triggers[t]) =
                                {e.id : e \in {d \in stored \ Unchecked : d.of.type = "honey" /\ d.of.token = t}}
  BY DEF TriggersCounted
<1>1. tokens[t] = [status |-> "enabled", count |-> 0] /\ triggers[t] = <<>> /\ stored = {}
  BY DEF Init
<1> QED
  BY <1>1 DEF Range

\* The condition on one token.
CountedToken(t) ==
    tokens[t] # Absent =>
        /\ tokens[t].count <= Len(triggers[t])
        /\ t <= SeedTokens => tokens[t].count = Len(triggers[t]) /\ Range(triggers[t]) = Naming(t)

LEMMA TriggersStep ==
  ASSUME TypeOK, SeqInv, PlaceInv, TriggersCounted, [Next]_vars
  PROVE  TriggersCounted'
<1>1. /\ TriggersCounted <=> \A t \in TokenIds : CountedToken(t)
      /\ TriggersCounted' <=> \A t \in TokenIds : CountedToken(t)'
  BY DEF TriggersCounted, CountedToken, Naming, Past
<1>2. ASSUME UNCHANGED <<tokens, triggers>>, Past' = Past PROVE TriggersCounted'
  <2>1. \A t : Naming(t)' = Naming(t)
    BY <1>2 DEF Naming
  <2>2. \A t \in TokenIds : CountedToken(t)' <=> CountedToken(t)
    BY <1>2, <2>1 DEF CountedToken
  <2> QED
    BY <1>1, <2>2
<1>3. ASSUME NEW w \in Workers, NEW e,
             (\E t \in Templates : Receive(w, t) /\ e = [id |-> born + 1, of |-> t, gen |-> 0])
             \/ RunSpawned(w, e) \/ Collect(w, e)
      PROVE  TriggersCounted'
  <2>1. /\ UNCHANGED <<stored, tokens, triggers>> /\ work[w] = Idle /\ work'[w].pc \in {"store", "reject"}
        /\ \A v \in Workers \ {w} : work'[v] = work[v]
    BY <1>3, ArriveShape
  <2>2. Unchecked' = Unchecked
    BY <2>1 DEF Unchecked, Idle
  <2> QED
    BY <1>2, <2>1, <2>2 DEF Past
<1>4. ASSUME NEW w \in Workers, Step(w) PROVE TriggersCounted'
  <2>1. CASE ~CheckEvent(w)
    <3>1. Past' = Past
      BY <1>4, <2>1, PastStep
    <3>2. UNCHANGED <<tokens, triggers>>
      BY <1>4, <2>1, StageStep DEF AddEvent, tokenVars
    <3> QED
      BY <1>2, <3>1, <3>2
  <2>2. CASE CheckEvent(w)
    <3>1. PICK ev \in Event :
            /\ ev = work[w].ev /\ Past' = Past \cup {ev}
            /\ IF ev.of.type = "honey" THEN RecordTrigger(ev.of.token, ev.id) ELSE UNCHANGED <<tokens, triggers>>
      BY <1>4, <2>2, CheckShape, PastStep DEF Ev
    <3>2. ev.id \in Nat
      BY DEF Event
    <3>3. \A t : Naming(t)' = IF ev.of.type = "honey" /\ ev.of.token = t THEN Naming(t) \cup {ev.id} ELSE Naming(t)
      BY <3>1 DEF Naming
    <3> SUFFICES ASSUME NEW t \in TokenIds, CountedToken(t) PROVE CountedToken(t)'
      BY <1>1
    <3>4. CASE ev.of.type = "honey" /\ ev.of.token = t /\ tokens[t] # Absent
      <4>1. /\ tokens[t].count \in Nat /\ tokens'[t].count = tokens[t].count + 1
            /\ triggers'[t] = Append(triggers[t], ev.id)
        BY <3>1, <3>2, <3>4, RecordShape
      <4>2. triggers[t] \in Seq(Nat)
        BY DEF TypeOK
      <4>3. Len(triggers'[t]) = Len(triggers[t]) + 1 /\ Len(triggers[t]) \in Nat
        BY <3>2, <4>1, <4>2
      <4>4. Range(triggers'[t]) = Range(triggers[t]) \cup {ev.id}
        BY <3>2, <4>1, <4>2, AppendRange
      <4> QED
        BY <3>3, <3>4, <4>1, <4>3, <4>4 DEF CountedToken
    <3>5. CASE ~(ev.of.type = "honey" /\ ev.of.token = t)
      <4>1. tokens'[t] = tokens[t] /\ triggers'[t] = triggers[t]
        BY <3>1, <3>2, <3>5, RecordShape
      <4>2. Naming(t)' = Naming(t)
        BY <3>3, <3>5
      <4> QED
        BY <4>1, <4>2 DEF CountedToken
    <3>6. CASE ev.of.type = "honey" /\ ev.of.token = t /\ tokens[t] = Absent
      <4>1. tokens'[t] = Absent
        BY <3>1, <3>2, <3>6, RecordShape
      <4> QED
        BY <4>1 DEF CountedToken
    <3> QED
      BY <3>4, <3>5, <3>6
  <2> QED
    BY <2>1, <2>2
<1>5. ASSUME NEW e \in bus, Lose(e) PROVE TriggersCounted'
  <2>1. UNCHANGED <<work, stored, tokens, triggers>>
    BY <1>5 DEF Lose, storeVars, tokenVars
  <2> QED
    BY <1>2, <2>1 DEF Past, Unchecked
<1>6. ASSUME NEW tenant \in Tenants \cup {None}, LineageQuery(tenant) PROVE TriggersCounted'
  <2>1. UNCHANGED <<work, stored, tokens, triggers>>
    BY <1>6 DEF LineageQuery, storeVars, tokenVars
  <2> QED
    BY <1>2, <2>1 DEF Past, Unchecked
<1>7. ASSUME NEW a \in Admins, Handle(a) PROVE TriggersCounted'
  <2>1. UNCHANGED <<work, stored, triggers>>
    BY <1>7, HandleFrame
  <2>2. Past' = Past
    BY <2>1 DEF Past, Unchecked
  <2>3. \A t : Naming(t)' = Naming(t)
    BY <2>2 DEF Naming
  <2>4. CASE AddToken(a)
    <3>1. PICK id \in {admin[a].seq, tokenSeq} :
             tokens' = [tokens EXCEPT ![id] = [status |-> "enabled", count |-> 0]]
      BY <2>4 DEF AddToken
    <3>2. id > SeedTokens
      BY <2>4 DEF AddToken, SeqInv
    <3> SUFFICES ASSUME NEW t \in TokenIds, CountedToken(t) PROVE CountedToken(t)'
      BY <1>1
    <3>3. CASE t = id
      <4>1. tokens'[t] = [status |-> "enabled", count |-> 0]
        BY <3>1, <3>3 DEF TypeOK
      <4>2. Len(triggers[t]) \in Nat
        BY DEF TypeOK
      <4>3. ~(t <= SeedTokens)
        BY <3>2, <3>3, BoundsAssumption DEF TokenIds
      <4> QED
        BY <2>1, <4>1, <4>2, <4>3 DEF CountedToken
    <3>4. CASE t # id
      <4>1. tokens'[t] = tokens[t]
        BY <3>1, <3>4 DEF TypeOK
      <4> QED
        BY <2>1, <2>3, <4>1 DEF CountedToken
    <3> QED
      BY <3>3, <3>4
  <2>5. ASSUME NEW u \in TokenIds, DeleteToken(a, u) PROVE TriggersCounted'
    <3> SUFFICES ASSUME NEW t \in TokenIds, CountedToken(t) PROVE CountedToken(t)'
      BY <1>1
    <3>1. tokens'[t] = tokens[t] \/ tokens'[t] = Absent
      BY <2>5 DEF DeleteToken, TypeOK
    <3> QED
      BY <2>1, <2>3, <3>1 DEF CountedToken
  <2>6. CASE UNCHANGED tokens
    BY <1>2, <2>1, <2>2, <2>6
  <2> QED
    BY <1>7, <2>4, <2>5, <2>6 DEF Handle, ReadTokenSeq, WriteTokenSeq, ResolveRead, ResolveWrite, tokenVars
<1>8. CASE UNCHANGED vars
  BY <1>2, <1>8 DEF vars, Past, Unchecked
<1> QED
  BY <1>3, <1>4, <1>5, <1>6, <1>7, <1>8, NextShape
--------------------------------------------------------------------------------
(* Incidents, when one goroutine at a time processes events                   *)

Everywhere == spawned \cup bus \cup stored \cup {work[w].ev : w \in Busy}

\* An id names one event.
IdsDiffer == \A d, e \in Everywhere : d.id = e.id => d = e

\* Fresh ids name new events only.
LEMMA IdsGrow ==
  ASSUME TypeOK, PlaceInv, IdsDiffer, NEW New, Everywhere' \subseteq Everywhere \cup New,
         \A e \in New : e.id \in Nat /\ born < e.id, \A d, e \in New : d.id = e.id => d = e
  PROVE  IdsDiffer'
<1>1. \A e \in Everywhere : e.id \in Nat /\ e.id <= born
  <2>1. spawned \cup bus \cup stored \subseteq Event /\ \A w \in Busy : work[w].ev \in Event
    BY JobShape DEF TypeOK, Busy
  <2>2. \A e \in Event : e.id \in Nat
    BY DEF Event
  <2> QED
    BY <2>1, <2>2 DEF PlaceInv, Everywhere
<1>2. born \in Nat
  BY DEF TypeOK
<1>3. ASSUME NEW d \in Everywhere \cup New, NEW e \in Everywhere \cup New, d.id = e.id PROVE d = e
  <2>1. CASE d \in Everywhere /\ e \in Everywhere
    BY <1>3, <2>1 DEF IdsDiffer
  <2>2. CASE d \in New /\ e \in New
    BY <1>3, <2>2
  <2>3. CASE d \in Everywhere /\ e \in New
    BY <1>1, <1>2, <1>3, <2>3
  <2>4. CASE d \in New /\ e \in Everywhere
    BY <1>1, <1>2, <1>3, <2>4
  <2> QED
    BY <1>3, <2>1, <2>2, <2>3, <2>4
<1> HIDE DEF Everywhere
<1> QED
  BY <1>3 DEF IdsDiffer

\* The events that one step sends out have different ids.
LEMMA SentDiffer ==
  ASSUME TypeOK, SeqInv, NEW w \in Workers, Step(w)
  PROVE  \A d, e \in (spawned' \cup bus') \ (spawned \cup bus) : d.id = e.id => d = e
<1> USE DEF feedVars, storeVars
<1>1. CASE BypassCheck(w)
  <2>1. bus' = bus
    BY <1>1 DEF BypassCheck
  <2>2. spawned' = spawned \/ spawned' = spawned \cup {Caused(w, born + 1, BypassEvent(Ev(w)))}
    BY <1>1, BypassShape
  <2> QED
    BY <2>1, <2>2
<1>2. CASE CheckEvent(w)
  <2>1. spawned' = spawned
    BY <1>2 DEF CheckEvent
  <2>2. bus' = bus \/ bus' = bus \cup {Caused(w, born + 1, AlertEvent(Ev(w)))}
    BY <1>2, CheckShape
  <2> QED
    BY <2>1, <2>2
<1>3. CASE Announce(w)
  <2>1. spawned' = spawned
    BY <1>3 DEF Announce
  <2>2. bus' = bus \/ bus' = bus \cup {Caused(w, born + 1, IncidentEvent(Ev(w)))}
    BY <1>3 DEF Announce, Publish
  <2> QED
    BY <2>1, <2>2
<1>4. CASE Inspect(w)
  <2>1. bus' = bus
    BY <1>4 DEF Inspect
  <2>2. \A d, e \in spawned' \ spawned : d.id = e.id => d = e
    BY <1>4, InspectShape
  <2> QED
    BY <2>1, <2>2
<1>5. CASE ~(BypassCheck(w) \/ CheckEvent(w) \/ Announce(w) \/ Inspect(w))
  BY <1>5 DEF Step, Reject, AddEvent, UpsertTrace, AddChunkLineage, ReadSeq, WriteSeq, AddIncident, Show
<1> QED
  BY <1>1, <1>2, <1>3, <1>4, <1>5

LEMMA IdsStep ==
  ASSUME TypeOK, SeqInv, PlaceInv, IdsDiffer, [Next]_vars
  PROVE  IdsDiffer'
<1>0. born \in Nat
  BY DEF TypeOK
<1>1. ASSUME NEW w \in Workers, NEW e,
             (\E t \in Templates : Receive(w, t) /\ e = [id |-> born + 1, of |-> t, gen |-> 0])
             \/ RunSpawned(w, e) \/ Collect(w, e)
      PROVE  IdsDiffer'
  <2>1. /\ e \in Event /\ work'[w].ev = e
        /\ \A v \in Workers \ {w} : work'[v] = work[v]
        /\ \/ e.id = born + 1 /\ spawned' = spawned /\ bus' = bus
           \/ e \in spawned /\ spawned' \subseteq spawned /\ bus' = bus
           \/ e \in bus /\ spawned' = spawned /\ bus' \subseteq bus
        /\ stored' = stored
    BY <1>1, ArriveShape
  <2> DEFINE New == {e} \ Everywhere
  <2>2. Everywhere' \subseteq Everywhere \cup New
    BY <2>1 DEF Everywhere, Busy
  <2>3. \A d \in New : d = e /\ e.id = born + 1
    BY <2>1 DEF Everywhere
  <2> HIDE DEF New
  <2>4. (\A d \in New : d.id \in Nat /\ born < d.id) /\ \A c, d \in New : c.id = d.id => c = d
    BY <1>0, <2>3
  <2> QED
    BY <2>2, <2>4, IdsGrow
<1>2. ASSUME NEW w \in Workers, Step(w) PROVE IdsDiffer'
  <2> DEFINE New == (spawned' \cup bus') \ (spawned \cup bus)
  <2>1. /\ work[w] # Idle /\ \A v \in Workers \ {w} : work'[v] = work[v]
        /\ work'[w] # Idle => work'[w].ev = work[w].ev
        /\ \A e \in spawned' \ spawned : e \in Event /\ Fresh(e)
        /\ \A e \in bus' \ bus : e \in Event /\ Fresh(e)
    BY <1>2, StepShape
  <2>2. stored' \subseteq stored \cup {work[w].ev}
    BY <1>2, StepShape DEF AddEvent
  <2>3. Everywhere' \subseteq Everywhere \cup New
    <3>1. \A v \in Busy' : v \in Busy /\ work'[v].ev = work[v].ev
      BY <2>1 DEF Busy
    <3>2. w \in Busy
      BY <2>1 DEF Busy
    <3> QED
      BY <2>2, <3>1, <3>2 DEF Everywhere
  <2>4. \A e \in New : e.id \in Nat /\ born < e.id
    BY <2>1 DEF Fresh, Event
  <2>5. \A d, e \in New : d.id = e.id => d = e
    BY <1>2, SentDiffer
  <2> HIDE DEF New
  <2> QED
    BY <2>3, <2>4, <2>5, IdsGrow
<1>3. ASSUME UNCHANGED <<work, spawned, stored>>, bus' \subseteq bus PROVE IdsDiffer'
  BY <1>3 DEF IdsDiffer, Everywhere, Busy
<1>4. ASSUME NEW e \in bus, Lose(e) PROVE IdsDiffer'
  BY <1>3, <1>4 DEF Lose, storeVars
<1>5. ASSUME NEW tenant \in Tenants \cup {None}, LineageQuery(tenant) PROVE IdsDiffer'
  <2> DEFINE e == [id |-> born + 1, of |-> LineageEvent(tenant), gen |-> 1]
             New == {e}
  <2>1. UNCHANGED <<work, spawned, stored>> /\ bus' = bus \cup {e}
    BY <1>5 DEF LineageQuery, storeVars
  <2>2. e.id = born + 1
    OBVIOUS
  <2> HIDE DEF e
  <2>3. Everywhere' \subseteq Everywhere \cup New
    BY <2>1 DEF Everywhere, Busy
  <2>4. (\A d \in New : d.id \in Nat /\ born < d.id) /\ \A c, d \in New : c.id = d.id => c = d
    BY <1>0, <2>2
  <2> HIDE DEF New
  <2> QED
    BY <2>3, <2>4, IdsGrow
<1>6. ASSUME NEW a \in Admins, Handle(a) PROVE IdsDiffer'
  BY <1>3, <1>6, HandleFrame
<1>7. CASE UNCHANGED vars
  BY <1>3, <1>7 DEF vars
<1> QED
  BY <1>1, <1>2, <1>4, <1>5, <1>6, <1>7, NextShape

\* Resolving keeps the event of an incident.
Same(i) == incidents[i] # Absent => incidents'[i] # Absent /\ incidents'[i].event = incidents[i].event

HasNext(id) == \E i \in IncidentIds : incidents'[i] # Absent /\ incidents'[i].event = id

\* Numbers above the last one are free, and so is the last one until the goroutine that
\* took it has stored its incident; who resolves an incident holds a copy of it.
IncidentInv ==
    /\ \A i \in IncidentIds : i > incidentSeq => incidents[i] = Absent
    /\ \A w \in Workers : At(w, "read") => work[w].seq = incidentSeq
    /\ \A w \in Workers : At(w, "written") => work[w].seq = incidentSeq /\ incidents[incidentSeq] = Absent
    /\ \A a \in Admins : admin[a].pc = "resolve" =>
          incidents[admin[a].id] # Absent /\ admin[a].copy.event = incidents[admin[a].id].event

\* An event that warrants an incident has one before its goroutine goes on.
HonestInv ==
    /\ \A e \in stored : Warrants(e.of) /\ <<"event", e.id>> \in shown => HasIncident(e.id)
    /\ \A w \in Workers : At(w, "announce") \/ At(w, "show") => (Warrants(Ev(w)) => HasIncident(work[w].ev.id))

\* Two goroutines are between reading incidents.Manager.seq and storing the incident.
Overlapping == \E v, w \in Workers : v # w /\ {work[v].pc, work[w].pc} \subseteq Numbered

LEMMA HasKept ==
  ASSUME \A i \in IncidentIds : Same(i), NEW id, HasIncident(id)
  PROVE  HasNext(id)
BY DEF Same, HasIncident, HasNext

LEMMA IncidentInit == Init => IncidentInv /\ HonestInv /\ IdsDiffer
BY DEF Init, IncidentInv, HonestInv, IdsDiffer, Everywhere, Busy, At, Idle, AdminIdle

\* The handlers leave the numbers alone and every incident its event.
LEMMA HandleIncidents ==
  ASSUME TypeOK, SeqInv, IncidentInv, NEW a \in Admins, Handle(a)
  PROVE  IncidentInv' /\ \A i \in IncidentIds : Same(i)
<1> USE DEF incidentVars
<1>0. admin \in [Admins -> AdminJob] /\ incidents \in [IncidentIds -> Incident \cup {Absent}] /\ work' = work
  BY HandleFrame DEF TypeOK
<1>1. ASSUME UNCHANGED <<incidents, incidentSeq>>, \A b \in Admins \ {a} : admin'[b] = admin[b],
             admin'[a] = admin[a] \/ admin'[a].pc # "resolve"
      PROVE  IncidentInv' /\ \A i \in IncidentIds : Same(i)
  BY <1>0, <1>1 DEF IncidentInv, Same, At
<1>2. ASSUME NEW t \in TokenIds, DeleteToken(a, t) PROVE IncidentInv' /\ \A i \in IncidentIds : Same(i)
  BY <1>1, <1>2 DEF DeleteToken
<1>3. CASE ReadTokenSeq(a) \/ WriteTokenSeq(a) \/ AddToken(a)
  <2>1. UNCHANGED <<incidents, incidentSeq>>
    BY <1>3 DEF ReadTokenSeq, WriteTokenSeq, AddToken
  <2>2. (\A b \in Admins \ {a} : admin'[b] = admin[b]) /\ admin'[a].pc # "resolve"
    BY <1>0, <1>3 DEF ReadTokenSeq, WriteTokenSeq, AddToken, AdminIdle
  <2> QED
    BY <1>1, <2>1, <2>2
<1>4. ASSUME NEW i \in IncidentIds, NEW notes \in BOOLEAN, ResolveRead(a, i, notes)
      PROVE  IncidentInv' /\ \A j \in IncidentIds : Same(j)
  <2> DEFINE copy == [incidents[i] EXCEPT !.status = "resolved", !.notes = IF notes THEN a ELSE @]
  <2>1. incidents[i] # Absent /\ incidents[i] \in Incident
    BY <1>0, <1>4 DEF ResolveRead
  <2>2. copy.event = incidents[i].event
    BY <2>1 DEF Incident
  <2>3. admin' = [admin EXCEPT ![a] = [pc |-> "resolve", id |-> i, copy |-> copy]]
    BY <1>4 DEF ResolveRead
  <2> HIDE DEF copy
  <2>4. admin'[a].id = i /\ admin'[a].copy = copy /\ \A b \in Admins \ {a} : admin'[b] = admin[b]
    BY <1>0, <2>3
  <2>5. UNCHANGED <<incidents, incidentSeq>>
    BY <1>4 DEF ResolveRead
  <2> QED
    BY <1>0, <2>1, <2>2, <2>4, <2>5 DEF IncidentInv, Same, At
<1>5. CASE ResolveWrite(a)
  <2> DEFINE id == admin[a].id
  <2>1. admin[a].pc = "resolve" /\ admin[a].copy \in Incident /\ id \in IncidentIds
    BY <1>5, AdminShape DEF ResolveWrite
  <2>2. incidents[id] # Absent /\ admin[a].copy.event = incidents[id].event
    BY <2>1 DEF IncidentInv
  <2>3. /\ incidents'[id] = admin[a].copy /\ \A i \in IncidentIds \ {id} : incidents'[i] = incidents[i]
        /\ incidentSeq' = incidentSeq
    BY <1>0, <1>5, <2>1 DEF ResolveWrite
  <2>4. admin'[a].pc = "idle" /\ \A b \in Admins \ {a} : admin'[b] = admin[b]
    BY <1>0, <1>5 DEF ResolveWrite, AdminIdle
  <2>5. admin[a].copy # Absent
    BY <2>1 DEF Incident, Absent
  <2> HIDE DEF id
  <2>6. \A i \in IncidentIds : Same(i) /\ (incidents[i] = Absent => incidents'[i] = Absent)
    BY <2>2, <2>3, <2>5 DEF Same
  <2>7. \A b \in Admins : admin[b].pc = "resolve" => admin[b].id \in IncidentIds
    BY AdminShape
  <2>8. \A b \in Admins : admin'[b].pc = "resolve" =>
            admin'[b] = admin[b] /\ incidents'[admin[b].id] # Absent
            /\ admin[b].copy.event = incidents'[admin[b].id].event
    BY <2>4, <2>6, <2>7 DEF IncidentInv, Same
  <2>9. \A w \in Workers : At(w, "written") => incidentSeq \in IncidentIds
    BY BoundsAssumption DEF SeqInv, TypeOK, IncidentIds
  <2> QED
    BY <1>0, <2>3, <2>6, <2>8, <2>9 DEF IncidentInv, At
<1> QED
  BY <1>2, <1>3, <1>4, <1>5 DEF Handle

\* A goroutine that is alone with the counter takes a number nobody has.
LEMMA StepIncidents ==
  ASSUME ~Overlapping, ~Overlapping', TypeOK, SeqInv, IncidentInv, NEW w \in Workers, Step(w)
  PROVE  /\ IncidentInv' /\ \A i \in IncidentIds : Same(i)
         /\ AddIncident(w) => HasNext(work[w].ev.id)
<1> USE DEF incidentVars
<1>0. /\ incidents \in [IncidentIds -> Incident \cup {Absent}] /\ incidentSeq \in 0..MaxIncidents
      /\ work \in [Workers -> Job] /\ MaxIncidents \in Nat
  BY BoundsAssumption DEF TypeOK
<1>1. \A v \in Workers \ {w} : work'[v] = work[v]
  BY StepShape
<1>a. ASSUME work[w].pc \in Numbered \/ work'[w].pc \in Numbered
      PROVE  \A v \in Workers \ {w} : work'[v].pc \notin Numbered
  BY <1>1, <1>a DEF Overlapping
<1>2. admin' = admin
  BY DEF Step, Reject, AddEvent, UpsertTrace, AddChunkLineage, BypassCheck, CheckEvent,
         ReadSeq, WriteSeq, AddIncident, Announce, Show, Inspect
<1>3. CASE ReadSeq(w)
  <2>1. work'[w] = [pc |-> "read", ev |-> work[w].ev, seq |-> incidentSeq] /\ UNCHANGED <<incidents, incidentSeq>>
    BY <1>0, <1>3 DEF ReadSeq
  <2>2. work[w].pc = "incident"
    BY <1>3 DEF ReadSeq, At
  <2>3. ~AddIncident(w)
    BY <2>2 DEF AddIncident, At
  <2>4. \A v \in Workers \ {w} : work'[v].pc \notin Numbered
    BY <1>a, <2>1 DEF Numbered
  <2> QED
    BY <1>2, <2>1, <2>3, <2>4 DEF IncidentInv, Same, At, Numbered
<1>4. CASE WriteSeq(w)
  <2>1. work[w].pc = "read" /\ incidentSeq' = work[w].seq + 1 /\ incidents' = incidents
    BY <1>4 DEF WriteSeq, At
  <2>2. work[w].seq = incidentSeq /\ incidentSeq < MaxIncidents
    BY <2>1 DEF IncidentInv, SeqInv, At
  <2>3. work'[w].pc = "written" /\ work'[w].seq = incidentSeq + 1
    <3>1. work[w] \in [pc : Numbered, ev : Event, seq : 0..MaxIncidents]
      BY <2>1, JobShape DEF Numbered
    <3> DEFINE r == [[work[w] EXCEPT !.pc = "written"] EXCEPT !.seq = work[w].seq + 1]
    <3>2. r.pc = "written" /\ r.seq = work[w].seq + 1
      BY <3>1
    <3>3. work' = [work EXCEPT ![w] = r]
      BY <1>0, <1>4 DEF WriteSeq
    <3> HIDE DEF r
    <3> QED
      BY <1>0, <2>2, <3>2, <3>3
  <2>4. incidentSeq + 1 \in IncidentIds /\ incidents[incidentSeq + 1] = Absent
    BY <1>0, <2>2 DEF IncidentInv, IncidentIds
  <2>5. ~AddIncident(w)
    BY <2>1 DEF AddIncident, At
  <2>6. \A i \in IncidentIds : i > incidentSeq + 1 => i > incidentSeq
    BY <1>0 DEF IncidentIds
  <2>7. incidentSeq' = incidentSeq + 1
    BY <2>1, <2>2
  <2>8. \A v \in Workers \ {w} : work'[v].pc \notin Numbered
    BY <1>a, <2>1 DEF Numbered
  <2> QED
    BY <1>2, <2>1, <2>3, <2>4, <2>5, <2>6, <2>7, <2>8 DEF IncidentInv, Same, At, Numbered
<1>5. CASE AddIncident(w)
  <2> DEFINE incident == [event |-> work[w].ev.id, status |-> "open", notes |-> None]
  <2>1. work[w].pc = "written" /\ incidentSeq' = incidentSeq
    BY <1>5 DEF AddIncident, At
  <2>2. work[w].seq = incidentSeq /\ incidents[incidentSeq] = Absent /\ incidentSeq \in IncidentIds
    BY <1>0, <2>1 DEF IncidentInv, SeqInv, At, IncidentIds
  <2>3. incidents' = [incidents EXCEPT ![incidentSeq] = incident]
    BY <1>5, <2>2 DEF AddIncident
  <2>4. work'[w].pc = "announce"
    BY <1>5, NumberShape
  <2>5. incident # Absent /\ incident.event = work[w].ev.id
    BY DEF Absent
  <2> HIDE DEF incident
  <2>6. /\ incidents'[incidentSeq] = incident
        /\ \A i \in IncidentIds \ {incidentSeq} : incidents'[i] = incidents[i]
    BY <1>0, <2>2, <2>3
  <2>7. \A i \in IncidentIds : Same(i)
    BY <2>2, <2>6 DEF Same
  <2>8. \A i \in IncidentIds : i > incidentSeq => i # incidentSeq
    BY <1>0 DEF IncidentIds
  <2>9. \A a \in Admins : admin[a].pc = "resolve" => admin[a].id \in IncidentIds \ {incidentSeq}
    BY <2>2, AdminShape DEF IncidentInv
  <2>0. \A v \in Workers \ {w} : work'[v].pc \notin Numbered
    BY <1>a, <2>1 DEF Numbered
  <2>10. IncidentInv'
    BY <1>2, <2>0, <2>1, <2>4, <2>6, <2>8, <2>9 DEF IncidentInv, At, Numbered
  <2>11. \E i \in IncidentIds : incidents'[i] # Absent /\ incidents'[i].event = work[w].ev.id
    BY <2>2, <2>5, <2>6
  <2> QED
    BY <2>7, <2>10, <2>11 DEF HasNext
<1>6. CASE ~ReadSeq(w) /\ ~WriteSeq(w) /\ ~AddIncident(w)
  <2>1. UNCHANGED <<incidents, incidentSeq>>
    BY <1>6 DEF Step, Reject, AddEvent, UpsertTrace, AddChunkLineage, BypassCheck, CheckEvent,
                Announce, Show, Inspect
  <2>2. work'[w].pc \notin Numbered
    <3>1. CASE Reject(w) \/ Inspect(w)
      BY <1>0, <3>1 DEF Reject, Inspect, Idle, Numbered
    <3>2. CASE CheckEvent(w)
      <4>1. work[w].pc \in Stage /\ \E pc \in {"incident", "show"} : Goto(w, pc)
        BY <3>2, CheckShape DEF Stage
      <4> QED
        BY <4>1, GotoShape DEF Stage, Numbered
    <3>3. CASE AddEvent(w) \/ UpsertTrace(w) \/ AddChunkLineage(w) \/ BypassCheck(w) \/ Announce(w) \/ Show(w)
      <4>1. work[w].pc \in Stage
        BY <3>3 DEF AddEvent, UpsertTrace, AddChunkLineage, BypassCheck, Announce, Show, At, Stage
      <4>2. \E pc \in {"trace", "lineage", "bypass", "honey", "show", "hooks"} : Goto(w, pc)
        BY <3>3 DEF AddEvent, UpsertTrace, AddChunkLineage, BypassCheck, Announce, Show
      <4> QED
        BY <4>1, <4>2, GotoShape DEF Stage, Numbered
    <3> QED
      BY <1>6, <3>1, <3>2, <3>3 DEF Step
  <2> QED
    BY <1>1, <1>2, <1>6, <2>1, <2>2 DEF IncidentInv, Same, At, Numbered
<1> QED
  BY <1>3, <1>4, <1>5, <1>6

\* The only ways to the announcement, to the broadcast, and past it.
LEMMA Ways ==
  ASSUME TypeOK, SeqInv, NEW w \in Workers, Step(w)
  PROVE  /\ work'[w].pc = "announce" => AddIncident(w)
         /\ work'[w].pc = "show" => Announce(w) \/ (CheckEvent(w) /\ ~Warrants(Ev(w)))
         /\ \/ Show(w) /\ shown' = shown \cup {<<"event", work[w].ev.id>>}
            \/ shown \subseteq shown' /\ \A x \in shown' \ shown : x[1] # "event"
<1>1. CASE CheckEvent(w)
  <2>1. shown' = shown
    BY <1>1 DEF CheckEvent
  <2>2. Goto(w, IF Warrants(Ev(w)) THEN "incident" ELSE "show") /\ work[w].pc \in Stage
    BY <1>1, CheckShape DEF Stage
  <2>3. work'[w].pc = IF Warrants(Ev(w)) THEN "incident" ELSE "show"
    BY <2>2, GotoShape DEF Stage
  <2> QED
    BY <1>1, <2>1, <2>3
<1>2. CASE Reject(w) \/ Inspect(w)
  <2>1. work'[w].pc = "idle"
    BY <1>2 DEF Reject, Inspect, Idle, TypeOK
  <2>2. shown \subseteq shown' /\ \A x \in shown' \ shown : x[1] # "event"
    BY <1>2, InspectShape DEF Reject
  <2> QED
    BY <2>1, <2>2
<1>3. CASE ReadSeq(w) \/ WriteSeq(w) \/ AddIncident(w)
  <2>1. shown' = shown
    BY <1>3 DEF ReadSeq, WriteSeq, AddIncident
  <2>2. (ReadSeq(w) => work'[w].pc = "read") /\ (WriteSeq(w) => work'[w].pc = "written")
        /\ (AddIncident(w) => work'[w].pc = "announce")
    BY <1>3, NumberShape
  <2> QED
    BY <1>3, <2>1, <2>2
<1>4. CASE AddEvent(w) \/ UpsertTrace(w) \/ AddChunkLineage(w) \/ BypassCheck(w) \/ Show(w)
  <2>1. work[w].pc \in Stage
    BY <1>4 DEF AddEvent, UpsertTrace, AddChunkLineage, BypassCheck, Show, At, Stage
  <2>2. \E pc \in {"trace", "lineage", "bypass", "honey", "hooks"} : Goto(w, pc)
    BY <1>4 DEF AddEvent, UpsertTrace, AddChunkLineage, BypassCheck, Show
  <2>3. work'[w].pc \notin {"announce", "show"}
    BY <2>1, <2>2, GotoShape DEF Stage
  <2> QED
    BY <1>4, <2>3 DEF AddEvent, UpsertTrace, AddChunkLineage, BypassCheck, Show
<1>5. CASE Announce(w)
  <2>1. Goto(w, "show") /\ work[w].pc \in Stage /\ shown' = shown \cup {<<"incident", work[w].ev.id>>}
    BY <1>5 DEF Announce, At, Stage
  <2>2. work'[w].pc = "show"
    BY <2>1, GotoShape DEF Stage
  <2> QED
    BY <1>5, <2>1, <2>2
<1> QED
  BY <1>1, <1>2, <1>3, <1>4, <1>5 DEF Step

LEMMA HonestStep ==
  ASSUME ~Overlapping, ~Overlapping',
         TypeOK, SeqInv, PlaceInv, ShownInv, IdsDiffer, IncidentInv, HonestInv, [Next]_vars
  PROVE  IncidentInv' /\ HonestInv'
<1>1. ASSUME UNCHANGED <<stored, shown>>, \A i \in IncidentIds : Same(i),
             NEW w, \A v \in Workers \ {w} : work'[v] = work[v],
             w \in Workers => work'[w] = work[w] \/ work'[w].pc \notin {"announce", "show"}
      PROVE  HonestInv'
  <2>1. \A id : HasIncident(id) => HasNext(id)
    BY <1>1, HasKept
  <2>2. \A e \in stored' : Warrants(e.of) /\ <<"event", e.id>> \in shown' => HasNext(e.id)
    BY <1>1, <2>1 DEF HonestInv
  <2>3. ASSUME NEW v \in Workers, work'[v].pc \in {"announce", "show"}, Warrants(work'[v].ev.of)
        PROVE  HasNext(work'[v].ev.id)
    <3>1. work'[v] = work[v]
      BY <1>1, <2>3
    <3>2. HasIncident(work[v].ev.id)
      BY <2>3, <3>1 DEF HonestInv, At, Ev
    <3> QED
      BY <2>1, <3>1, <3>2
  <2> QED
    BY <2>2, <2>3 DEF HonestInv, HasIncident, HasNext, At, Ev
<1>2. ASSUME UNCHANGED <<incidents, incidentSeq, admin>>,
             NEW w, \A v \in Workers \ {w} : work'[v] = work[v],
             w \in Workers => work'[w] = work[w] \/ work'[w].pc \notin Numbered
      PROVE  IncidentInv' /\ \A i \in IncidentIds : Same(i)
  BY <1>2 DEF IncidentInv, Same, At, Numbered
<1>3. ASSUME UNCHANGED <<work, stored, shown, incidents, incidentSeq, admin>>
      PROVE  IncidentInv' /\ HonestInv'
  BY <1>1, <1>2, <1>3
<1>4. ASSUME NEW w \in Workers, NEW e,
             (\E t \in Templates : Receive(w, t) /\ e = [id |-> born + 1, of |-> t, gen |-> 0])
             \/ RunSpawned(w, e) \/ Collect(w, e)
      PROVE  IncidentInv' /\ HonestInv'
  <2>1. /\ \A v \in Workers \ {w} : work'[v] = work[v]
        /\ work'[w].pc \in {"store", "reject"}
        /\ UNCHANGED <<stored, shown, incidents, incidentSeq, admin>>
    BY <1>4, ArriveShape
  <2>2. IncidentInv' /\ \A i \in IncidentIds : Same(i)
    BY <1>2, <2>1 DEF Numbered
  <2> QED
    BY <1>1, <2>1, <2>2
<1>5. ASSUME NEW w \in Workers, Step(w) PROVE IncidentInv' /\ HonestInv'
  <2> DEFINE ev == work[w].ev
  <2>1. /\ IncidentInv' /\ \A i \in IncidentIds : Same(i)
        /\ AddIncident(w) => HasNext(ev.id)
    BY <1>5, StepIncidents
  <2>2. \A id : HasIncident(id) => HasNext(id)
    BY <2>1, HasKept
  <2>3. /\ \A v \in Workers \ {w} : work'[v] = work[v]
        /\ work'[w] # Idle => work'[w].ev = ev
        /\ work[w] # Idle
        /\ \/ work[w].pc = "store" /\ stored' = stored \cup {ev}
           \/ stored' = stored
    BY <1>5, StepShape DEF AddEvent
  <2>4. ev \in Everywhere /\ stored \subseteq Everywhere
    BY <2>3 DEF Everywhere, Busy
  <2>5. ASSUME NEW v \in Workers, work'[v].pc \in {"announce", "show"}, Warrants(work'[v].ev.of)
        PROVE  HasNext(work'[v].ev.id)
    <3>1. CASE v # w
      BY <2>2, <2>3, <2>5, <3>1 DEF HonestInv, At, Ev
    <3>2. CASE v = w
      <4>1. work'[w].ev = ev /\ Warrants(Ev(w))
        BY <2>3, <2>5, <3>2 DEF Idle, Ev
      <4>2. CASE AddIncident(w)
        BY <2>1, <3>2, <4>1, <4>2
      <4>3. CASE Announce(w)
        BY <2>2, <3>2, <4>1, <4>3 DEF Announce, HonestInv, At
      <4> QED
        BY <1>5, <2>5, <3>2, <4>1, <4>2, <4>3, Ways
    <3> QED
      BY <3>1, <3>2
  <2>6. ASSUME NEW e \in stored', Warrants(e.of), <<"event", e.id>> \in shown'
        PROVE  HasNext(e.id)
    <3>1. CASE <<"event", e.id>> \in shown
      <4>1. e \in stored
        <5>1. CASE e \in stored
          BY <5>1
        <5>2. CASE work[w].pc = "store" /\ e = ev
          <6>1. PICK d \in stored : d.id = e.id
            BY <3>1 DEF ShownInv, ShownIsThere
          <6>2. d = e
            BY <2>4, <5>2, <6>1 DEF IdsDiffer
          <6> QED
            BY <6>1, <6>2
        <5> QED
          BY <2>3, <2>6, <5>1, <5>2
      <4> QED
        BY <2>2, <2>6, <3>1, <4>1 DEF HonestInv
    <3>2. CASE <<"event", e.id>> \notin shown
      <4>1. Show(w) /\ shown' = shown \cup {<<"event", ev.id>>}
        BY <1>5, <2>6, <3>2, Ways
      <4>2. e.id = ev.id /\ work[w].pc = "show"
        BY <2>6, <3>2, <4>1 DEF Show, At
      <4>3. e \in Everywhere
        BY <2>3, <2>4, <2>6
      <4>4. e = ev
        BY <2>4, <4>2, <4>3 DEF IdsDiffer
      <4> QED
        BY <2>2, <2>6, <4>2, <4>4 DEF HonestInv, At, Ev
    <3> QED
      BY <3>1, <3>2
  <2>7. HonestInv'
    BY <2>5, <2>6 DEF HonestInv, HasIncident, HasNext, At, Ev
  <2> QED
    BY <2>1, <2>7
<1>6. ASSUME NEW e \in bus, Lose(e) PROVE IncidentInv' /\ HonestInv'
  BY <1>3, <1>6 DEF Lose, storeVars, incidentVars
<1>7. ASSUME NEW tenant \in Tenants \cup {None}, LineageQuery(tenant) PROVE IncidentInv' /\ HonestInv'
  BY <1>3, <1>7 DEF LineageQuery, storeVars, incidentVars
<1>8. ASSUME NEW a \in Admins, Handle(a) PROVE IncidentInv' /\ HonestInv'
  <2>1. UNCHANGED <<work, stored, shown>>
    BY <1>8, HandleFrame
  <2>2. IncidentInv' /\ \A i \in IncidentIds : Same(i)
    BY <1>8, HandleIncidents
  <2> QED
    BY <1>1, <2>1, <2>2
<1>9. CASE UNCHANGED vars
  BY <1>3, <1>9 DEF vars
<1> QED
  BY <1>4, <1>5, <1>6, <1>7, <1>8, <1>9, NextShape

\* Two operators are between the read and the write of the resolution of one incident.
Crossing ==
    \E a, b \in Admins :
        a # b /\ admin[a].pc = "resolve" /\ admin[b].pc = "resolve" /\ admin[a].id = admin[b].id

\* Who resolves an incident has the notes it has, or new ones.
NotesInv ==
    \A a \in Admins : admin[a].pc = "resolve" =>
        (admin[a].copy.notes = None => incidents[admin[a].id].notes = None)

Kept(i) == incidents[i] # Absent /\ incidents[i].notes # None => incidents'[i].notes # None

LEMMA NotesHandle ==
  ASSUME ~Crossing, TypeOK, IncidentInv, NotesInv, NEW a \in Admins, Handle(a)
  PROVE  NotesInv' /\ \A i \in IncidentIds : Kept(i)
<1> USE DEF incidentVars
<1>0. admin \in [Admins -> AdminJob] /\ incidents \in [IncidentIds -> Incident \cup {Absent}]
  BY DEF TypeOK
<1>1. ASSUME UNCHANGED incidents, \A b \in Admins \ {a} : admin'[b] = admin[b],
             admin'[a] = admin[a] \/ admin'[a].pc # "resolve"
      PROVE  NotesInv' /\ \A i \in IncidentIds : Kept(i)
  BY <1>1 DEF NotesInv, Kept
<1>2. ASSUME NEW t \in TokenIds, DeleteToken(a, t) PROVE NotesInv' /\ \A i \in IncidentIds : Kept(i)
  BY <1>1, <1>2 DEF DeleteToken
<1>3. CASE ReadTokenSeq(a) \/ WriteTokenSeq(a) \/ AddToken(a)
  <2>1. UNCHANGED incidents
    BY <1>3 DEF ReadTokenSeq, WriteTokenSeq, AddToken
  <2>2. (\A b \in Admins \ {a} : admin'[b] = admin[b]) /\ admin'[a].pc # "resolve"
    BY <1>0, <1>3 DEF ReadTokenSeq, WriteTokenSeq, AddToken, AdminIdle
  <2> QED
    BY <1>1, <2>1, <2>2
<1>4. ASSUME NEW i \in IncidentIds, NEW notes \in BOOLEAN, ResolveRead(a, i, notes)
      PROVE  NotesInv' /\ \A j \in IncidentIds : Kept(j)
  <2> DEFINE copy == [incidents[i] EXCEPT !.status = "resolved", !.notes = IF notes THEN a ELSE @]
  <2>1. incidents[i] \in Incident
    BY <1>0, <1>4 DEF ResolveRead
  <2>2. copy.notes = (IF notes THEN a ELSE incidents[i].notes) /\ a # None
    BY <2>1, SetsAssumption DEF Incident
  <2>3. admin' = [admin EXCEPT ![a] = [pc |-> "resolve", id |-> i, copy |-> copy]]
    BY <1>4 DEF ResolveRead
  <2> HIDE DEF copy
  <2>4. admin'[a].id = i /\ admin'[a].copy = copy /\ \A b \in Admins \ {a} : admin'[b] = admin[b]
    BY <1>0, <2>3
  <2>5. UNCHANGED incidents
    BY <1>4 DEF ResolveRead
  <2>6. copy.notes = None => incidents[i].notes = None
    BY <2>2
  <2> QED
    BY <2>4, <2>5, <2>6 DEF NotesInv, Kept
<1>5. CASE ResolveWrite(a)
  <2> DEFINE id == admin[a].id
  <2>1. admin[a].pc = "resolve" /\ id \in IncidentIds
    BY <1>5, AdminShape DEF ResolveWrite
  <2>2. incidents'[id] = admin[a].copy /\ \A i \in IncidentIds \ {id} : incidents'[i] = incidents[i]
    BY <1>0, <1>5, <2>1 DEF ResolveWrite
  <2>3. admin'[a].pc = "idle" /\ \A b \in Admins \ {a} : admin'[b] = admin[b]
    BY <1>0, <1>5 DEF ResolveWrite, AdminIdle
  <2>4. admin[a].copy.notes = None => incidents[id].notes = None
    BY <2>1 DEF NotesInv
  <2>5. \A b \in Admins \ {a} : admin[b].pc = "resolve" => admin[b].id \in IncidentIds \ {id}
    BY <2>1, AdminShape DEF Crossing
  <2> HIDE DEF id
  <2>6. \A i \in IncidentIds : Kept(i)
    BY <2>2, <2>4 DEF Kept
  <2>7. NotesInv'
    BY <2>2, <2>3, <2>5 DEF NotesInv
  <2> QED
    BY <2>6, <2>7
<1> QED
  BY <1>2, <1>3, <1>4, <1>5 DEF Handle

LEMMA NotesStep ==
  ASSUME ~Crossing, TypeOK, SeqInv, IncidentInv, NotesInv, [Next]_vars
  PROVE  NotesInv' /\ \A i \in IncidentIds : Kept(i)
<1>1. CASE UNCHANGED <<incidents, admin>>
  BY <1>1 DEF NotesInv, Kept
<1>2. ASSUME NEW w \in Workers, AddIncident(w) PROVE NotesInv' /\ \A i \in IncidentIds : Kept(i)
  <2> DEFINE incident == [event |-> work[w].ev.id, status |-> "open", notes |-> None]
             n == incidentSeq
  <2>1. n \in IncidentIds /\ incidents[n] = Absent /\ work[w].seq = n
    BY <1>2, BoundsAssumption DEF AddIncident, At, IncidentInv, SeqInv, TypeOK, IncidentIds
  <2>2. incidents' = [incidents EXCEPT ![n] = incident] /\ admin' = admin
    BY <1>2, <2>1 DEF AddIncident
  <2> HIDE DEF incident, n
  <2>3. \A i \in IncidentIds \ {n} : incidents'[i] = incidents[i]
    BY <2>2 DEF TypeOK
  <2>4. \A a \in Admins : admin[a].pc = "resolve" => admin[a].id \in IncidentIds \ {n}
    BY <2>1, AdminShape DEF IncidentInv
  <2> QED
    BY <2>1, <2>2, <2>3, <2>4 DEF NotesInv, Kept
<1>3. ASSUME NEW w \in Workers, Step(w), ~AddIncident(w) PROVE UNCHANGED <<incidents, admin>>
  BY <1>3 DEF Step, Reject, AddEvent, UpsertTrace, AddChunkLineage, BypassCheck, CheckEvent,
              ReadSeq, WriteSeq, Announce, Show, Inspect, incidentVars
<1>4. ASSUME NEW w \in Workers, NEW e,
             (\E t \in Templates : Receive(w, t)) \/ RunSpawned(w, e) \/ Collect(w, e)
      PROVE  UNCHANGED <<incidents, admin>>
  BY <1>4 DEF Receive, RunSpawned, Collect, incidentVars
<1>5. ASSUME NEW e, NEW tenant, Lose(e) \/ LineageQuery(tenant) PROVE UNCHANGED <<incidents, admin>>
  BY <1>5 DEF Lose, LineageQuery, incidentVars
<1>6. ASSUME NEW a \in Admins, Handle(a) PROVE NotesInv' /\ \A i \in IncidentIds : Kept(i)
  BY <1>6, NotesHandle
<1>7. CASE UNCHANGED vars
  BY <1>1, <1>7 DEF vars
<1> QED
  BY <1>1, <1>2, <1>3, <1>4, <1>5, <1>6, <1>7, NextShape
--------------------------------------------------------------------------------
(* The theorems                                                               *)

LEMMA PipelineInvCorrect == Spec => []PipelineInv
<1>1. Init => PipelineInv
  BY TypeInit, PlaceInit, SpanInit, DecidedInit, ShownInit, TriggersInit DEF PipelineInv
<1>2. PipelineInv /\ [Next]_vars => PipelineInv'
  BY TypeStep, PlaceStep, SpanStep, DecidedStep, ShownStep, TriggersStep DEF PipelineInv
<1> QED
  BY <1>1, <1>2, PTL DEF Spec

\* Process and the handlers keep every variable in its type: dead letters never outgrow
\* their buffer, and no number of an incident or a token leaves its range.
THEOREM TypeCorrect == Spec => []TypeOK
<1>1. PipelineInv => TypeOK
  BY DEF PipelineInv
<1> QED
  BY <1>1, PipelineInvCorrect, PTL

\* AddEvent and UpsertTrace keep the event store and the traces equal, each event once,
\* but for the events between the two, however the goroutines interleave.
THEOREM TracesCorrect == Spec => []TracesComplete
<1>1. PipelineInv => TracesComplete
  <2> SUFFICES ASSUME PipelineInv, NEW t \in Traces
               PROVE  /\ Spans(t) = {e \in stored : e.of.trace = t} \ Unspanned
                      /\ Cardinality(Spans(t)) = Len(traces[t].spans)
    BY DEF TracesComplete
  <2>1. traces[t].spans \in Seq(Event)
    BY DEF PipelineInv, TypeOK
  <2>2. /\ Range(traces[t].spans) = {e \in stored : e.of.trace = t} \ Unspanned
        /\ \A i, j \in DOMAIN traces[t].spans : traces[t].spans[i] = traces[t].spans[j] => i = j
    BY DEF PipelineInv, SpanInv
  <2> QED
    BY <2>1, <2>2, DistinctCount DEF Spans
<1> QED
  BY <1>1, PipelineInvCorrect, PTL

\* UpsertTrace gives a trace the state of the last span that decides one, however many
\* spans of either kind came before and after it.
THEOREM TraceDecidedCorrect == Spec => []TraceDecided
<1>1. PipelineInv => TraceDecided
  BY DEF PipelineInv
<1> QED
  BY <1>1, PipelineInvCorrect, PTL

\* Process broadcasts an event after storing it, putting it in its trace and announcing
\* its incident.
THEOREM ShownCorrect == Spec => []ShownIsThere
<1>1. PipelineInv => ShownIsThere
  BY DEF PipelineInv, ShownInv
<1> QED
  BY <1>1, PipelineInvCorrect, PTL

\* Of the events the tracker makes itself, the validator or the monitors stop all but the
\* detector's reports, and what the bypass monitor makes of a module's event.
THEOREM EchoCorrect == Spec => []OnlyReportsEcho
<1>1. PipelineInv => OnlyReportsEcho
  BY DEF PipelineInv, EchoInv, Own, OnlyReportsEcho
<1> QED
  BY <1>1, PipelineInvCorrect, PTL

\* RecordTrigger counts each trigger of a token of the configuration once, whatever
\* tokens the handlers create and delete meanwhile.
THEOREM TriggersCorrect == Spec => []TriggersCounted
<1>1. PipelineInv => TriggersCounted
  BY DEF PipelineInv
<1> QED
  BY <1>1, PipelineInvCorrect, PTL

\* Nothing takes an incident away before two goroutines have overlapped on the counter.
LEMMA SerialInv ==
  Spec /\ []~Overlapping => [](PipelineInv /\ IdsDiffer /\ IncidentInv /\ HonestInv)
<1>1. Init => IdsDiffer /\ IncidentInv /\ HonestInv
  BY IncidentInit
<1>2. PipelineInv /\ IdsDiffer /\ IncidentInv /\ HonestInv /\ ~Overlapping /\ ~Overlapping'
      /\ [Next]_vars => IdsDiffer' /\ IncidentInv' /\ HonestInv'
  BY IdsStep, HonestStep DEF PipelineInv
<1> QED
  BY <1>1, <1>2, PipelineInvCorrect, PTL DEF Spec

\* However many goroutines process events, AutoCreate has stored an incident for every
\* honey-token trigger before the trigger is shown, and no resolution of an operator takes
\* it away, unless at some time two of them have overlapped between reading the unlocked
\* counter and storing: that race, and nothing else, loses incidents.
THEOREM HoneyLostOnlyByRace == Spec => []HoneyHasIncident \/ <>Overlapping
<1>1. HonestInv => HoneyHasIncident
  BY DEF HonestInv, HoneyHasIncident, Warrants
<1> QED
  BY <1>1, SerialInv, PTL

\* Notes once given to an incident stay, unless at some time two operators have resolved
\* one incident at once, or two goroutines have overlapped on the counter and one incident
\* may have taken the place of another: Resolve loses notes in no other way.
THEOREM NotesLostOnlyByRace == Spec => NotesKept \/ <>Crossing \/ <>Overlapping
<1> DEFINE AllKept == \A i \in IncidentIds :
                        incidents[i] # Absent /\ incidents[i].notes # None => incidents'[i].notes # None
<1>1. Init => NotesInv
  BY DEF Init, NotesInv, AdminIdle
<1>2. PipelineInv /\ IdsDiffer /\ IncidentInv /\ HonestInv /\ NotesInv /\ ~Crossing /\ [Next]_vars
      => NotesInv' /\ [AllKept]_vars
  BY NotesStep DEF PipelineInv, Kept
<1>3. [AllKept]_vars => [\A i \in IncidentIds :
          incidents[i] # Absent /\ incidents[i].notes # None => incidents'[i].notes # None]_vars
  OBVIOUS
<1> HIDE DEF AllKept
<1> QED
  BY <1>1, <1>2, <1>3, SerialInv, PTL DEF Spec, NotesKept
================================================================================
