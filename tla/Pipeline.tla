------------------------------- MODULE Pipeline -------------------------------
(***************************************************************************)
(* What becomes of an event: processor.Process with the stages it calls    *)
(* (validator, store, bypass monitor, honey tokens, incidents, broadcast,  *)
(* hooks), the events the tracker itself sends back into it, and the REST  *)
(* handlers of honey tokens and incidents.                                 *)
(*                                                                         *)
(* Process runs in the goroutines of NATS, REST, gRPC and demo replays and *)
(* in those the bypass monitor and the anomaly detector start.  A worker   *)
(* is one of them; a step is one critical section.  Three kinds of events  *)
(* come back: what the bypass monitor and the detector synthesise, and     *)
(* what the publisher sends to bastion.events.tracker.*, since the         *)
(* collector subscribes to bastion.events.>.                               *)
(*                                                                         *)
(* The ring behind AddEvent is module EventStore, Evaluate is Alerts, the  *)
(* channels behind Broadcast are Hub, the other hooks are Monitor and Demo.*)
(***************************************************************************)
EXTENDS Integers, Sequences, FiniteSets, Functions

CONSTANTS
    Workers,        \* goroutines in Process
    Admins,         \* goroutines of REST handlers
    Traces, Tenants,
    Templates,      \* the events that modules send, but for their ids
    Detects,        \* Detects[type]: what the anomaly detector may find in such an event
    Publishing,     \* whether NATS is configured
    SeedTokens,     \* honey tokens of SeedDefaults, 3 in the code
    MaxDead,        \* dead letters kept, 200 in the code
    MinPrior,       \* entries the bypass monitor judges by, 10 in the code
    MaxExternal,    \* bound: events that modules send, and queries
    MaxFeedback,    \* bound: own events in a chain, each set off by the one before
    MaxTokens,      \* bound: numbers of honey tokens
    MaxIncidents    \* bound: numbers of incidents

None == "none"
Types == {"honey", "injection", "cross_tenant", "chunk", "anomaly", "bypass", "incident", "other"}
ValidStatuses == {"passed", "blocked", "error"}
Statuses == ValidStatuses \cup {"alerted", "created", "completed"}
Findings == {"warning", "critical"}     \* anomalies, by their severity

\* formed: type, module and severity pass the validator.  severe: critical or error.
\* closing: from the module llm or anchor.  exposed: a sensitive label, and the vault
\* skipped.  token: the honey token named, 0 when it is none of the tracker's.
Template ==
    [type : Types, formed : BOOLEAN, severe : BOOLEAN, status : Statuses, closing : BOOLEAN,
     trace : Traces \cup {None}, tenant : Tenants \cup {None},
     pipeline : {"full", "lite", "other", None}, exposed : BOOLEAN, token : 0..MaxTokens]

TokenIds == 1..MaxTokens
IncidentIds == 1..MaxIncidents

ASSUME SetsAssumption ==
    /\ IsFiniteSet(Workers)
    /\ None \notin Traces \cup Tenants \cup Admins
    /\ Templates \subseteq Template
    /\ Publishing \in BOOLEAN
    /\ Detects \in [Types -> SUBSET SUBSET Findings]
ASSUME BoundsAssumption ==
    /\ MaxDead \in Nat \ {0} /\ MinPrior \in Nat /\ MaxExternal \in Nat /\ MaxFeedback \in Nat
    /\ MaxTokens \in Nat /\ SeedTokens \in 0..MaxTokens /\ MaxIncidents \in Nat

VARIABLES
    work,       \* work[w]: the event a goroutine is processing and how far it got
    born,       \* ids of events given out so far
    sent,       \* events that modules have sent, and queries answered
    spawned,    \* events whose goroutine has been started and has not run yet
    bus,        \* events published to NATS and not yet delivered
    stored,     \* every event AddEvent was called with
    dead,       \* Validator.deadLetters, oldest first
    traces,     \* Store.traces
    lineage,    \* Store.lineage
    history,    \* bypass.Monitor.history: how many entries are full and how many are not
    tokens,     \* Store.tokens
    triggers,   \* Store.triggers
    tokenSeq,   \* honeytoken.Manager.seq
    incidents,  \* Store.incidents
    incidentSeq,\* incidents.Manager.seq
    admin,      \* what each handler is about to do
    shown       \* everything ever handed to Broadcast

vars == <<work, born, sent, spawned, bus, stored, dead, traces, lineage, history, tokens,
          triggers, tokenSeq, incidents, incidentSeq, admin, shown>>
feedVars == <<born, sent, spawned, bus>>
storeVars == <<stored, traces, lineage>>
tokenVars == <<tokens, triggers, tokenSeq>>
incidentVars == <<incidents, incidentSeq>>

\* gen: how many events back in the chain of its causes a module sent one.
Event == [id : Nat \ {0}, of : Template, gen : Nat]
Incident == [event : Nat \ {0}, status : {"open", "resolved"}, notes : Admins \cup {None}]
Absent == [status |-> "absent"]
Closed == {"completed", "blocked", "error"}
NoTrace == [spans |-> <<>>, status |-> "in_progress", pipeline |-> None, end |-> 0]

Idle == [pc |-> "idle"]
AdminIdle == [pc |-> "idle"]

Init ==
    /\ work = [w \in Workers |-> Idle] /\ admin = [a \in Admins |-> AdminIdle]
    /\ born = 0 /\ sent = 0 /\ spawned = {} /\ bus = {}
    /\ stored = {} /\ dead = <<>> /\ shown = {}
    /\ traces = [t \in Traces |-> NoTrace] /\ lineage = [t \in Traces |-> <<>>]
    /\ history = [t \in Tenants |-> [full |-> 0, other |-> 0]]
    /\ tokens = [t \in TokenIds |-> IF t <= SeedTokens THEN [status |-> "enabled", count |-> 0] ELSE Absent]
    /\ triggers = [t \in TokenIds |-> <<>>] /\ tokenSeq = SeedTokens
    /\ incidents = [i \in IncidentIds |-> Absent] /\ incidentSeq = 0
-----------------------------------------------------------------------------
(* Arrival and validation                                                    *)

\* Fault: any status is accepted.
Valid_AnyStatus(t) == t.formed

Valid(t) == t.formed /\ t.status \in ValidStatuses

Begin(w, e) ==
    /\ work[w] = Idle
    /\ work' = [work EXCEPT ![w] = [pc |-> IF Valid(e.of) THEN "store" ELSE "reject", ev |-> e]]

Receive(w, t) ==
    /\ sent < MaxExternal
    /\ Begin(w, [id |-> born + 1, of |-> t, gen |-> 0])
    /\ sent' = sent + 1 /\ born' = born + 1
    /\ UNCHANGED <<spawned, bus, storeVars, dead, history, tokenVars, incidentVars, admin, shown>>

\* A goroutine started by the bypass monitor or the anomaly sink.
RunSpawned(w, e) ==
    /\ e \in spawned
    /\ Begin(w, e)
    /\ spawned' = spawned \ {e}
    /\ UNCHANGED <<born, sent, bus, storeVars, dead, history, tokenVars, incidentVars, admin, shown>>

\* The collector receives what the publisher sent.
Collect(w, e) ==
    /\ e \in bus
    /\ Begin(w, e)
    /\ bus' = bus \ {e}
    /\ UNCHANGED <<born, sent, spawned, storeVars, dead, history, tokenVars, incidentVars, admin, shown>>

\* LineageByDataRef and LineageAudit publish that they have answered.
LineageEvent(tenant) ==
    [type |-> "other", formed |-> TRUE, severe |-> FALSE, status |-> "completed", closing |-> FALSE,
     trace |-> None, tenant |-> tenant, pipeline |-> None, exposed |-> FALSE, token |-> 0]

LineageQuery(tenant) ==
    /\ Publishing
    /\ sent < MaxExternal
    /\ bus' = bus \cup {[id |-> born + 1, of |-> LineageEvent(tenant), gen |-> 1]}
    /\ sent' = sent + 1 /\ born' = born + 1
    /\ UNCHANGED <<work, spawned, storeVars, dead, history, tokenVars, incidentVars, admin, shown>>

\* NATS is unavailable, or delivers at most once and did not.
Lose(e) ==
    /\ e \in bus
    /\ bus' = bus \ {e}
    /\ UNCHANGED <<work, born, sent, spawned, storeVars, dead, history, tokenVars, incidentVars, admin, shown>>

Goto(w, pc) == work' = [work EXCEPT ![w].pc = pc]
At(w, pc) == work[w].pc = pc
Ev(w) == work[w].ev.of
\* An event that the tracker makes of the one w is processing.
Caused(w, id, t) == [id |-> id, of |-> t, gen |-> work[w].ev.gen + 1]

Reject(w) ==
    /\ At(w, "reject")
    /\ LET all == Append(dead, work[w].ev.id)
       IN  dead' = IF Len(all) > MaxDead THEN SubSeq(all, Len(all) - MaxDead + 1, Len(all)) ELSE all
    /\ work' = [work EXCEPT ![w] = Idle]
    /\ UNCHANGED <<feedVars, storeVars, history, tokenVars, incidentVars, admin, shown>>
-----------------------------------------------------------------------------
(* The store                                                                 *)

AddEvent(w) ==
    /\ At(w, "store")
    /\ stored' = stored \cup {work[w].ev}
    /\ Goto(w, "trace")
    /\ UNCHANGED <<feedVars, traces, lineage, dead, history, tokenVars, incidentVars, admin, shown>>

\* Fault: a trace that is closed gets no more spans.
WithSpan_Closed(tr, e) ==
    LET status == IF e.of.status \in {"blocked", "error"} THEN e.of.status
                  ELSE IF e.of.closing THEN "completed" ELSE tr.status
    IN  IF tr.status \in Closed THEN tr
        ELSE [spans |-> Append(tr.spans, e), status |-> status,
              pipeline |-> IF tr.pipeline = None THEN e.of.pipeline ELSE tr.pipeline,
              end |-> IF status \in Closed THEN e.id ELSE tr.end]

\* Fault: what blocked or failed a trace is forgotten when a later span passes.
WithSpan_Reopen(tr, e) ==
    LET status == IF e.of.status \in {"blocked", "error"} THEN e.of.status
                  ELSE IF e.of.closing THEN "completed" ELSE "in_progress"
    IN  [spans |-> Append(tr.spans, e), status |-> status,
         pipeline |-> IF tr.pipeline = None THEN e.of.pipeline ELSE tr.pipeline,
         end |-> IF status \in Closed THEN e.id ELSE tr.end]

\* A trace with one more span.  end is the event whose time is its EndTime.
WithSpan(tr, e) ==
    LET status == IF e.of.status \in {"blocked", "error"} THEN e.of.status
                  ELSE IF e.of.closing THEN "completed" ELSE tr.status
    IN  [spans |-> Append(tr.spans, e), status |-> status,
         pipeline |-> IF tr.pipeline = None THEN e.of.pipeline ELSE tr.pipeline,
         end |-> IF status \in Closed THEN e.id ELSE tr.end]

UpsertTrace(w) ==
    /\ At(w, "trace")
    /\ traces' = IF Ev(w).trace = None THEN traces
                 ELSE [traces EXCEPT ![Ev(w).trace] = WithSpan(@, work[w].ev)]
    /\ Goto(w, IF Ev(w).type = "chunk" /\ Ev(w).trace # None THEN "lineage" ELSE "bypass")
    /\ UNCHANGED <<feedVars, stored, lineage, dead, history, tokenVars, incidentVars, admin, shown>>

AddChunkLineage(w) ==
    /\ At(w, "lineage")
    /\ lineage' = [lineage EXCEPT ![Ev(w).trace] = Append(@, work[w].ev.id)]
    /\ Goto(w, "bypass")
    /\ UNCHANGED <<feedVars, stored, traces, dead, history, tokenVars, incidentVars, admin, shown>>
-----------------------------------------------------------------------------
(* Bypass monitor                                                            *)

BypassEvent(t) ==
    [t EXCEPT !.type = "bypass", !.severe = FALSE, !.status = "error", !.closing = FALSE,
              !.pipeline = None, !.exposed = FALSE, !.token = 0]

\* At least MinPrior entries, and nine tenths of them full.
MostlyFull(prior) ==
    /\ prior.full + prior.other >= MinPrior
    /\ 10 * prior.full >= 9 * (prior.full + prior.other)

\* Entries older than an hour go first; timestamps are the clients', so any may be.
BypassCheck(w) ==
    /\ At(w, "bypass")
    /\ IF Ev(w).tenant = None \/ Ev(w).pipeline = None
       THEN UNCHANGED <<history, born, spawned>>
       ELSE \E full \in 0..history[Ev(w).tenant].full, other \in 0..history[Ev(w).tenant].other :
              LET prior == [full |-> full, other |-> other]
              IN  /\ history' = [history EXCEPT ![Ev(w).tenant] =
                        IF Ev(w).pipeline = "full" THEN [prior EXCEPT !.full = @ + 1]
                                                   ELSE [prior EXCEPT !.other = @ + 1]]
                  /\ IF Ev(w).exposed \/ (Ev(w).pipeline = "lite" /\ MostlyFull(prior))
                     THEN /\ spawned' = spawned \cup {Caused(w, born + 1, BypassEvent(Ev(w)))}
                          /\ born' = born + 1
                     ELSE UNCHANGED <<born, spawned>>
    /\ Goto(w, "honey")
    /\ UNCHANGED <<sent, bus, storeVars, dead, tokenVars, incidentVars, admin, shown>>
-----------------------------------------------------------------------------
(* Honey tokens                                                              *)

\* What the publisher sends about event t: EventHoneyTokenAlert, EventIncidentCreated.
AlertEvent(t) ==
    [t EXCEPT !.severe = TRUE, !.status = "alerted", !.closing = FALSE, !.pipeline = None, !.exposed = FALSE]
IncidentEvent(t) ==
    [t EXCEPT !.type = "incident", !.status = "created", !.closing = FALSE, !.pipeline = None,
              !.exposed = FALSE, !.token = 0]

Publish(w, t) ==
    IF Publishing
    THEN bus' = bus \cup {Caused(w, born + 1, t)} /\ born' = born + 1
    ELSE UNCHANGED <<bus, born>>

\* Fault: only the newest trigger of a token is kept.
RecordTrigger_Newest(t, id) ==
    IF t \in TokenIds /\ tokens[t] # Absent
    THEN /\ tokens' = [tokens EXCEPT ![t].count = @ + 1]
         /\ triggers' = [triggers EXCEPT ![t] = <<id>>]
    ELSE UNCHANGED <<tokens, triggers>>

\* RecordTrigger: a token that is not stored has no triggers.
RecordTrigger(t, id) ==
    IF t \in TokenIds /\ tokens[t] # Absent
    THEN /\ tokens' = [tokens EXCEPT ![t].count = @ + 1]
         /\ triggers' = [triggers EXCEPT ![t] = Append(@, id)]
    ELSE UNCHANGED <<tokens, triggers>>

Warrants(t) == t.type = "honey" \/ (t.type \in {"injection", "cross_tenant"} /\ t.severe)

CheckEvent(w) ==
    /\ At(w, "honey")
    /\ IF Ev(w).type = "honey"
       THEN RecordTrigger(Ev(w).token, work[w].ev.id) /\ Publish(w, AlertEvent(Ev(w)))
       ELSE UNCHANGED <<tokens, triggers, bus, born>>
    /\ Goto(w, IF Warrants(Ev(w)) THEN "incident" ELSE "show")
    /\ UNCHANGED <<sent, spawned, storeVars, dead, history, tokenSeq, incidentVars, admin, shown>>
-----------------------------------------------------------------------------
(* Incidents: AutoCreate increments seq without a lock, as a read and a write, *)
(* and takes the number just written, or what it reads back, for the id.       *)

ReadSeq(w) ==
    /\ At(w, "incident")
    /\ incidentSeq < MaxIncidents
    /\ work' = [work EXCEPT ![w] = [pc |-> "read", ev |-> work[w].ev, seq |-> incidentSeq]]
    /\ UNCHANGED <<feedVars, storeVars, dead, history, tokenVars, incidentVars, admin, shown>>

WriteSeq(w) ==
    /\ At(w, "read")
    /\ incidentSeq' = work[w].seq + 1
    /\ work' = [work EXCEPT ![w].pc = "written", ![w].seq = @ + 1]
    /\ UNCHANGED <<feedVars, storeVars, dead, history, tokenVars, incidents, admin, shown>>

\* Fault: the incident is stored and nobody is told.
AddIncident_Silent(w) ==
    /\ At(w, "written")
    /\ \E id \in {work[w].seq, incidentSeq} :
          incidents' = [incidents EXCEPT ![id] = [event |-> work[w].ev.id, status |-> "open", notes |-> None]]
    /\ work' = [work EXCEPT ![w] = [pc |-> "show", ev |-> work[w].ev]]
    /\ UNCHANGED <<feedVars, storeVars, dead, history, tokenVars, incidentSeq, admin, shown>>

AddIncident(w) ==
    /\ At(w, "written")
    /\ \E id \in {work[w].seq, incidentSeq} :
          incidents' = [incidents EXCEPT ![id] = [event |-> work[w].ev.id, status |-> "open", notes |-> None]]
    /\ work' = [work EXCEPT ![w] = [pc |-> "announce", ev |-> work[w].ev]]
    /\ UNCHANGED <<feedVars, storeVars, dead, history, tokenVars, incidentSeq, admin, shown>>

Announce(w) ==
    /\ At(w, "announce")
    /\ shown' = shown \cup {<<"incident", work[w].ev.id>>}
    /\ Publish(w, IncidentEvent(Ev(w)))
    /\ Goto(w, "show")
    /\ UNCHANGED <<sent, spawned, storeVars, dead, history, tokenVars, incidentVars, admin>>
-----------------------------------------------------------------------------
(* Broadcast and hooks                                                       *)

Show(w) ==
    /\ At(w, "show")
    /\ shown' = shown \cup {<<"event", work[w].ev.id>>}
    /\ Goto(w, "hooks")
    /\ UNCHANGED <<feedVars, storeVars, dead, history, tokenVars, incidentVars, admin>>

Rank(f) == IF f = "critical" THEN 2 ELSE 1

\* OnAnomaly: one event for each finding, with the user and trace of the one inspected.
AnomalyEvent(t, f) ==
    [t EXCEPT !.type = "anomaly", !.severe = (f = "critical"), !.status = "error", !.closing = FALSE,
              !.pipeline = None, !.exposed = FALSE, !.token = 0]

\* The detector sees its own events as well, and module Detector says what it finds.
Inspect(w) ==
    /\ At(w, "hooks")
    /\ \E found \in IF work[w].ev.gen < MaxFeedback THEN Detects[Ev(w).type] ELSE {{}} :
          /\ spawned' = spawned \cup {Caused(w, born + Rank(f), AnomalyEvent(Ev(w), f)) : f \in found}
          /\ shown' = shown \cup {<<"anomaly", born + Rank(f)>> : f \in found}
          /\ born' = IF found = {} THEN born ELSE born + 2
    /\ work' = [work EXCEPT ![w] = Idle]
    /\ UNCHANGED <<sent, bus, storeVars, dead, history, tokenVars, incidentVars, admin>>
-----------------------------------------------------------------------------
(* REST: creating and deleting honey tokens, resolving incidents              *)

ReadTokenSeq(a) ==
    /\ admin[a] = AdminIdle
    /\ tokenSeq < MaxTokens
    /\ admin' = [admin EXCEPT ![a] = [pc |-> "read", seq |-> tokenSeq]]
    /\ UNCHANGED <<work, feedVars, storeVars, dead, history, tokenVars, incidentVars, shown>>

WriteTokenSeq(a) ==
    /\ admin[a].pc = "read"
    /\ tokenSeq' = admin[a].seq + 1
    /\ admin' = [admin EXCEPT ![a] = [pc |-> "written", seq |-> admin[a].seq + 1]]
    /\ UNCHANGED <<work, feedVars, storeVars, dead, history, tokens, triggers, incidentVars, shown>>

AddToken(a) ==
    /\ admin[a].pc = "written"
    /\ \E id \in {admin[a].seq, tokenSeq} :
          tokens' = [tokens EXCEPT ![id] = [status |-> "enabled", count |-> 0]]
    /\ admin' = [admin EXCEPT ![a] = AdminIdle]
    /\ UNCHANGED <<work, feedVars, storeVars, dead, history, triggers, tokenSeq, incidentVars, shown>>

\* The triggers of a deleted token are kept.
DeleteToken(a, t) ==
    /\ admin[a] = AdminIdle
    /\ tokens[t] # Absent
    /\ tokens' = [tokens EXCEPT ![t] = Absent]
    /\ UNCHANGED <<work, feedVars, storeVars, dead, history, triggers, tokenSeq, incidentVars, admin, shown>>

\* Resolve: GetIncident, the changes to the copy, UpdateIncident.
ResolveRead(a, i, notes) ==
    /\ admin[a] = AdminIdle
    /\ incidents[i] # Absent
    /\ admin' = [admin EXCEPT ![a] =
          [pc |-> "resolve", id |-> i,
           copy |-> [incidents[i] EXCEPT !.status = "resolved", !.notes = IF notes THEN a ELSE @]]]
    /\ UNCHANGED <<work, feedVars, storeVars, dead, history, tokenVars, incidentVars, shown>>

ResolveWrite(a) ==
    /\ admin[a].pc = "resolve"
    /\ incidents' = [incidents EXCEPT ![admin[a].id] = admin[a].copy]
    /\ admin' = [admin EXCEPT ![a] = AdminIdle]
    /\ UNCHANGED <<work, feedVars, storeVars, dead, history, tokenVars, incidentSeq, shown>>
-----------------------------------------------------------------------------
Step(w) ==
    \/ Reject(w) \/ AddEvent(w) \/ UpsertTrace(w) \/ AddChunkLineage(w) \/ BypassCheck(w) \/ CheckEvent(w)
    \/ ReadSeq(w) \/ WriteSeq(w) \/ AddIncident(w) \/ Announce(w) \/ Show(w) \/ Inspect(w)

Handle(a) ==
    \/ \E t \in TokenIds : DeleteToken(a, t)
    \/ ReadTokenSeq(a) \/ WriteTokenSeq(a) \/ AddToken(a) \/ ResolveWrite(a)
    \/ \E i \in IncidentIds, notes \in BOOLEAN : ResolveRead(a, i, notes)

Next ==
    \/ \E w \in Workers, t \in Templates : Receive(w, t)
    \/ \E w \in Workers, e \in spawned : RunSpawned(w, e)
    \/ \E w \in Workers, e \in bus : Collect(w, e)
    \/ \E e \in bus : Lose(e)
    \/ \E tenant \in Tenants \cup {None} : LineageQuery(tenant)
    \/ \E w \in Workers : Step(w)
    \/ \E a \in Admins : Handle(a)

Spec == Init /\ [][Next]_vars
-----------------------------------------------------------------------------
(* Properties                                                                *)

\* What a goroutine in Process is at.
Job ==
    {Idle}
    \cup [pc : {"reject", "store", "trace", "lineage", "bypass", "honey", "incident", "announce", "show", "hooks"},
          ev : Event]
    \cup [pc : {"read", "written"}, ev : Event, seq : 0..MaxIncidents]

AdminJob ==
    {AdminIdle}
    \cup [pc : {"read", "written"}, seq : 0..MaxTokens]
    \cup [pc : {"resolve"}, id : IncidentIds, copy : Incident]

\* Variables have their types; the dead letters never outgrow their buffer.
TypeOK ==
    /\ work \in [Workers -> Job] /\ admin \in [Admins -> AdminJob]
    /\ born \in Nat /\ sent \in 0..MaxExternal
    /\ spawned \subseteq Event /\ bus \subseteq Event /\ stored \subseteq Event
    /\ dead \in Seq(Nat) /\ Len(dead) <= MaxDead
    /\ traces \in [Traces -> [spans : Seq(Event), status : Closed \cup {"in_progress"},
                              pipeline : {"full", "lite", "other", None}, end : Nat]]
    /\ lineage \in [Traces -> Seq(Nat)]
    /\ history \in [Tenants -> [full : Nat, other : Nat]]
    /\ tokens \in [TokenIds -> [status : {"enabled"}, count : Nat] \cup {Absent}]
    /\ triggers \in [TokenIds -> Seq(Nat)] /\ tokenSeq \in 0..MaxTokens
    /\ incidents \in [IncidentIds -> Incident \cup {Absent}] /\ incidentSeq \in 0..MaxIncidents
    /\ shown \subseteq {"event", "incident", "anomaly"} \X Nat

Spans(t) == Range(traces[t].spans)
Unspanned == {work[w].ev : w \in {v \in Workers : At(v, "trace")}}

\* Traces and the event store hold the same events, once each, but for those between
\* AddEvent and UpsertTrace, whatever order the goroutines ran in.
TracesComplete ==
    \A t \in Traces :
        /\ Spans(t) = {e \in stored : e.of.trace = t} \ Unspanned
        /\ Cardinality(Spans(t)) = Len(traces[t].spans)

\* The state of a trace is that of the last span that decides one, and once it is
\* closed its end is its newest span.
TraceDecided ==
    \A t \in Traces :
        LET spans    == traces[t].spans
            deciding == {i \in DOMAIN spans : spans[i].of.status \in {"blocked", "error"} \/ spans[i].of.closing}
        IN  IF deciding = {} THEN traces[t].status = "in_progress" /\ traces[t].end = 0
            ELSE /\ traces[t].end = spans[Len(spans)].id
                 /\ \E i \in deciding :
                       /\ \A j \in deciding : j <= i
                       /\ traces[t].status = IF spans[i].of.status \in {"blocked", "error"}
                                             THEN spans[i].of.status ELSE "completed"

Unchecked == {work[w].ev : w \in {v \in Workers : work[v].pc \in {"trace", "lineage", "bypass", "honey"}}}

\* A token of the configuration that nobody deleted has a trigger for each event that
\* named it and is past the honey stage, and counts them; a token created since may
\* have taken the number, and the triggers, of another, but never counts too many.
TriggersCounted ==
    \A t \in {u \in TokenIds : tokens[u] # Absent} :
        /\ tokens[t].count <= Len(triggers[t])
        /\ t <= SeedTokens =>
              /\ tokens[t].count = Len(triggers[t])
              /\ Range(triggers[t]) = {e.id : e \in {d \in stored \ Unchecked : d.of.type = "honey" /\ d.of.token = t}}

\* Whoever is shown an event finds it stored and in its trace, and was shown its
\* incident before.
ShownIsThere ==
    \A x \in shown : x[1] = "event" =>
        \E e \in stored :
            /\ e.id = x[2]
            /\ e.of.trace # None => e \in Spans(e.of.trace)
            /\ Warrants(e.of) => <<"incident", e.id>> \in shown

\* Of what the tracker sends back to itself, only the detector's reports set off
\* further events: the bypass monitor is set off neither by its own events nor by
\* reports, and of what the publisher sends, which the collector receives, nothing
\* gets past the validator.
OnlyReportsEcho ==
    \A e \in stored : e.gen > 0 =>
        e.of.type = "anomaly" \/ (e.of.type = "bypass" /\ e.gen = 1)
-----------------------------------------------------------------------------
(* What the source says and the code does not do                              *)

HasIncident(id) == \E i \in IncidentIds : incidents[i] # Absent /\ incidents[i].event = id

\* "Every honey-token trigger automatically creates a security incident, regardless of
\* severity" (docs/honey-token-injection.md:248).  Two goroutines at once give one number
\* to two incidents, and the second takes the place of the first.
HoneyHasIncident ==
    \A e \in stored : e.of.type = "honey" /\ <<"event", e.id>> \in shown => HasIncident(e.id)

\* "a detected anomaly is both broadcast to the dashboard and fed back into the processor
\* as a synthetic event, which triggers incident auto-creation"
\* (docs/management-features.md:364).  AutoCreate knows no such type.
AnomalyHasIncident ==
    \A e \in stored : e.of.type = "anomaly" /\ <<"event", e.id>> \in shown => HasIncident(e.id)

\* Notes given to an incident are not lost to a later resolution without notes, which
\* would keep them had it not read the incident before ("if notes" in Resolve).
NotesKept ==
    [][\A i \in IncidentIds :
          incidents[i] # Absent /\ incidents[i].notes # None => incidents'[i].notes # None]_vars
===============================================================================
