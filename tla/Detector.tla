-------------------------------- MODULE Detector --------------------------------
(***************************************************************************)
(* The anomaly detector (internal/anomaly/detector.go) and the sink that   *)
(* feeds what it finds back into the processor (cmd/tracker-cli/main.go).  *)
(* Every goroutine that processes an event runs Inspect: it adds the event *)
(* to the baseline of its kind, to the windows of its user and to the      *)
(* honey layers of its trace, each under a lock of its own, and reports    *)
(* what a window tells it in a later critical section.                     *)
(*                                                                         *)
(* A time is a number of ticks.  An event carries the time its sender put  *)
(* on it, which need not follow the order in which events are inspected;   *)
(* how the clocks of the senders and of the server compare is left open,   *)
(* so the server's own events have any time too.  A number tells events    *)
(* apart.  The logs of the windows and reported are not in the code: they  *)
(* keep what was added and reported in which order, for the properties.    *)
(***************************************************************************)
EXTENDS Integers, Sequences, FiniteSets

CONSTANTS
    Inspectors,     \* goroutines that may be in Inspect at a time
    Users,          \* tenant and user of an event
    Traces,
    NoUser, NoTrace,\* an event without one of them
    Templates,      \* what modules send: all of an event but its number and time
    MaxTime,        \* timestamps are in 0..MaxTime
    Minute,         \* a bucket of the baseline
    BaselineWindow, \* window_hours
    MinSamples,     \* fewer are no baseline (10)
    SigmaSquared,   \* sigma_threshold, squared
    UserWindow,     \* of high_freq_user (one minute)
    UserLimit,      \* high_freq_user_limit
    BlockWindow,    \* repeated_block_window
    BlockCount,     \* repeated_block_count
    LayerWindow,    \* how long a honey layer is remembered (10 minutes)
    OffHours,       \* times outside the active hours; none when they are not set
    Day,            \* how far Recent looks back (24 hours)
    Capacity,       \* reports kept (1000)
    MaxInspected,   \* bound on the events that are inspected
    MaxFed          \* bound on the detector's own among them

ASSUME WindowAssumption ==
    /\ {Minute, BaselineWindow, UserWindow, BlockWindow, LayerWindow, Capacity} \subseteq Nat \ {0}
    /\ {MaxTime, MinSamples, SigmaSquared, Day, MaxInspected, MaxFed} \subseteq Nat
ASSUME LimitAssumption == {UserLimit, BlockCount} \subseteq Nat
ASSUME TemplatesAssumption ==
    \A t \in Templates :
        t \in [module : {t.module}, type : {"request", "honey", "cross_tenant", "anomaly"},
               blocked : BOOLEAN, user : Users \cup {NoUser}, trace : Traces \cup {NoTrace}]
ASSUME NoneAssumption == NoUser \notin Users /\ NoTrace \notin Traces

VARIABLES
    inspected,  \* events taken up so far
    fed,        \* the detector's own among them
    work,       \* work[g]: the event goroutine g inspects, and what is left to do
    spawned,    \* own events whose goroutine has not started
    windows,    \* baselineTracker.windows
    baselines,  \* baselineTracker.baselines: what the last full window came to
    users,      \* userWindow.entries
    blocks,     \* blockWindow.entries
    layers,     \* honeyLayerTracker.modules
    times,      \* honeyLayerTracker.times
    detected,   \* Detector.detected
    userLog, blockLog, honeyLog,    \* what was added, in order
    reported    \* every report ever made

flowVars == <<inspected, fed, spawned>>
baseVars == <<windows, baselines>>
honeyVars == <<layers, times>>
logVars == <<userLog, blockLog, honeyLog>>
reportVars == <<detected, reported>>
vars == <<flowVars, work, baseVars, users, blocks, honeyVars, reportVars, logVars>>

Time == 0..MaxTime
Types == {"request", "honey", "cross_tenant", "anomaly"}
Template == [module : {t.module : t \in Templates} \cup {"tracker"}, type : Types, blocked : BOOLEAN,
             user : Users \cup {NoUser}, trace : Traces \cup {NoTrace}]
Event == [of : Template, at : Time, n : Nat \ {0}]
Stages == <<"baseline", "user", "block", "cross", "honey", "hours">>
Report == [ev : Event, pattern : {Stages[i] : i \in DOMAIN Stages}]

\* The patterns an event is still to be looked at for, and the next of them.
Left == (SUBSET (DOMAIN Stages)) \ {{}}
First(left) == CHOOSE i \in left : \A j \in left : i <= j
Pattern(left) == Stages[First(left)]

\* What a baseline is kept of, and the kinds of event there are.
Key(ev) == <<ev.of.module, ev.of.type>>
Keys == {<<t.module, t.type>> : t \in Templates} \cup {<<"tracker", "anomaly">>}
Modules == {t.module : t \in Templates}
Never == -1     \* the time of a trace without a layer

Entry == [at : Time, n : Nat \ {0}]
Idle == [ev |-> [n |-> 0], left |-> {}, hit |-> FALSE]

TypeOK ==
    /\ inspected \in 0..MaxInspected /\ fed \in 0..MaxFed
    /\ work \in [Inspectors -> [ev : Event, left : Left, hit : BOOLEAN] \cup {Idle}]
    /\ spawned \subseteq Report
    /\ windows \in [Keys -> SUBSET Entry]
    /\ baselines \in [Keys -> [samples : Nat, minutes : Nat, pairs : Nat]]
    /\ users \in [Users -> SUBSET Entry] /\ blocks \in [Users -> SUBSET Entry]
    /\ layers \in [Traces -> SUBSET (Modules \cup {"tracker"})]
    /\ times \in [Traces -> Time \cup {Never}]
    /\ detected \in Seq(Report) /\ Len(detected) <= Capacity
    /\ reported \subseteq Report
    /\ userLog \in [Users -> Seq(Entry)] /\ blockLog \in [Users -> Seq(Entry)]
    /\ honeyLog \in Seq(Event)

Init ==
    /\ inspected = 0 /\ fed = 0
    /\ work = [g \in Inspectors |-> Idle]
    /\ spawned = {}
    /\ windows = [k \in Keys |-> {}]
    /\ baselines = [k \in Keys |-> [samples |-> 0, minutes |-> 0, pairs |-> 0]]
    /\ users = [u \in Users |-> {}] /\ blocks = [u \in Users |-> {}]
    /\ layers = [t \in Traces |-> {}] /\ times = [t \in Traces |-> Never]
    /\ detected = <<>>
    /\ reported = {}
    /\ userLog = [u \in Users |-> <<>>] /\ blockLog = [u \in Users |-> <<>>]
    /\ honeyLog = <<>>

-----------------------------------------------------------------------------
(* Events come in *)

\* The conditions under which Inspect looks at an event for a pattern.  An event
\* of the type cross_tenant and one outside the active hours need no more.
Applies(stage, ev) ==
    \/ stage = "baseline"
    \/ stage = "user" /\ ev.of.user # NoUser /\ UserLimit > 0
    \/ stage = "block" /\ ev.of.blocked /\ ev.of.user # NoUser /\ BlockCount > 0
    \/ stage = "cross" /\ ev.of.type = "cross_tenant"
    \/ stage = "honey" /\ ev.of.type = "honey" /\ ev.of.trace # NoTrace
    \/ stage = "hours" /\ ev.at \in OffHours

Begin(g, t, at) ==
    LET ev == [of |-> t, at |-> at, n |-> inspected + 1]
    IN  /\ inspected < MaxInspected
        /\ inspected' = inspected + 1
        /\ work[g] = Idle
        /\ work' = [work EXCEPT ![g] = [ev |-> ev, hit |-> FALSE,
                        left |-> {i \in DOMAIN Stages : Applies(Stages[i], ev)}]]
        /\ UNCHANGED <<baseVars, users, blocks, honeyVars, reportVars, logVars>>

\* A module's event, with whatever time the module gave it.
Receive(g, t, at) ==
    /\ Begin(g, t, at)
    /\ UNCHANGED <<fed, spawned>>

\* OnAnomaly: the event that is made of a report, of the same user and trace.
OwnEvent(r) ==
    [r.ev.of EXCEPT !.module = "tracker", !.type = "anomaly", !.blocked = FALSE]

\* The goroutine OnAnomaly started; Process gives its event the time of the
\* server's clock.
TakeOwn(g, r, at) ==
    /\ fed < MaxFed
    /\ Begin(g, OwnEvent(r), at)
    /\ fed' = fed + 1
    /\ spawned' = spawned \ {r}

-----------------------------------------------------------------------------
(* The patterns, each under its lock *)

At(g, stage) == work[g].left # {} /\ Pattern(work[g].left) = stage /\ ~work[g].hit

\* On to the next pattern.
Rest(w) ==
    LET left == w.left \ {First(w.left)}
    IN  IF left = {} THEN Idle ELSE [w EXCEPT !.left = left, !.hit = FALSE]

\* The verdict of a window: the pattern is reported before the next is looked at.
Verdict(g, hit) ==
    work' = [work EXCEPT ![g] = IF hit THEN [@ EXCEPT !.hit = TRUE] ELSE Rest(@)]

\* Fault: an event exactly one window old still counts.
Within_Inclusive(entries, at, size) == {e \in entries : e.at >= at - size}

\* Fault: an event that comes late drops those it is behind.
Within_Past(entries, at, size) == {e \in entries : e.at > at - size /\ e.at <= at}

\* A window after an event was added: what the event is too late for is dropped.
Within(entries, at, size) == {e \in entries : e.at > at - size}
Added(entries, ev, size) == Within(entries, ev.at, size) \cup {[at |-> ev.at, n |-> ev.n]}

MinuteOf(e) == e.at \div Minute

\* Mean and deviation of the counts of the minutes come from the number of
\* samples, of minutes, and of pairs of samples in one minute (the sum of the
\* squared counts).
Stats(w) ==
    [samples |-> Cardinality(w),
     minutes |-> Cardinality({MinuteOf(e) : e \in w}),
     pairs |-> Cardinality({p \in w \X w : MinuteOf(p[1]) = MinuteOf(p[2])})]

\* More than sigma deviations above the mean: (c - mean) / stddev > sigma with all
\* fractions cleared, the variance being that of a sample.
Above(c, st) ==
    LET excess == st.minutes * c - st.samples
    IN  /\ excess > 0
        /\ excess * excess * (st.minutes - 1)
             > SigmaSquared * st.minutes * (st.minutes * st.pairs - st.samples * st.samples)

\* Fault: the rate of the minute is measured against the window before the event.
Spike_Before(w, ev) ==
    LET old == {e \in w : e.n # ev.n}
    IN  Cardinality(w) >= MinSamples
        /\ Above(Cardinality({e \in w : MinuteOf(e) = MinuteOf(ev)}), Stats(old))

Spike(w, ev) ==
    /\ Cardinality(w) >= MinSamples
    /\ Above(Cardinality({e \in w : MinuteOf(e) = MinuteOf(ev)}), Stats(w))

RecordBaseline(g) ==
    LET ev == work[g].ev
        w == Added(windows[Key(ev)], ev, BaselineWindow)
    IN  /\ At(g, "baseline")
        /\ windows' = [windows EXCEPT ![Key(ev)] = w]
        /\ baselines' = [baselines EXCEPT ![Key(ev)] =
                            IF Cardinality(w) >= MinSamples THEN Stats(w) ELSE @]
        /\ Verdict(g, Spike(w, ev))
        /\ UNCHANGED <<flowVars, users, blocks, honeyVars, reportVars, logVars>>

RecordUser(g) ==
    LET ev == work[g].ev
        w == Added(users[ev.of.user], ev, UserWindow)
    IN  /\ At(g, "user")
        /\ users' = [users EXCEPT ![ev.of.user] = w]
        /\ userLog' = [userLog EXCEPT ![ev.of.user] = Append(@, [at |-> ev.at, n |-> ev.n])]
        /\ Verdict(g, Cardinality(w) = UserLimit)
        /\ UNCHANGED <<flowVars, baseVars, blocks, honeyVars, reportVars, blockLog, honeyLog>>

RecordBlock(g) ==
    LET ev == work[g].ev
        w == Added(blocks[ev.of.user], ev, BlockWindow)
    IN  /\ At(g, "block")
        /\ blocks' = [blocks EXCEPT ![ev.of.user] = w]
        /\ blockLog' = [blockLog EXCEPT ![ev.of.user] = Append(@, [at |-> ev.at, n |-> ev.n])]
        /\ Verdict(g, Cardinality(w) >= BlockCount)
        /\ UNCHANGED <<flowVars, baseVars, users, honeyVars, reportVars, userLog, honeyLog>>

\* The traces, of any user, that an event is too late for.
Forgotten(at) == {t \in Traces : times[t] # Never /\ times[t] < at - LayerWindow}

RecordHoney(g) ==
    LET ev == work[g].ev
        gone == Forgotten(ev.at)
        hit == ev.of.trace
    IN  /\ At(g, "honey")
        /\ layers' = [t \in Traces |->
              (IF t \in gone THEN {} ELSE layers[t]) \cup IF t = hit THEN {ev.of.module} ELSE {}]
        /\ times' = [t \in Traces |->
              IF t = hit THEN ev.at ELSE IF t \in gone THEN Never ELSE times[t]]
        /\ honeyLog' = Append(honeyLog, ev)
        /\ Verdict(g, Cardinality(layers'[hit]) >= 2)
        /\ UNCHANGED <<flowVars, baseVars, users, blocks, reportVars, userLog, blockLog>>

\* fire: the report is kept, the oldest dropped when there are too many, and an
\* event of the detector's own is on its way.
Fire(g) ==
    LET r == [ev |-> work[g].ev, pattern |-> Pattern(work[g].left)]
    IN  /\ work[g].hit \/ At(g, "cross") \/ At(g, "hours")
        /\ detected' = Append(IF Len(detected) >= Capacity THEN Tail(detected) ELSE detected, r)
        /\ reported' = reported \cup {r}
        /\ spawned' = spawned \cup {r}
        /\ work' = [work EXCEPT ![g] = Rest(@)]
        /\ UNCHANGED <<inspected, fed, baseVars, users, blocks, honeyVars, logVars>>

Inspect(g) ==
    RecordBaseline(g) \/ RecordUser(g) \/ RecordBlock(g) \/ RecordHoney(g) \/ Fire(g)

Next ==
    \E g \in Inspectors :
        \/ \E t \in Templates, at \in Time : Receive(g, t, at)
        \/ \E r \in spawned, at \in Time : TakeOwn(g, r, at)
        \/ Inspect(g)

Spec == Init /\ [][Next]_vars

\* What GET /v1/anomaly/events answers at a time of the server's clock.
Recent(now) == SelectSeq(detected, LAMBDA r : r.ev.at > now - Day)

-----------------------------------------------------------------------------
(* Properties *)

\* The report was made, or its goroutine has left the window to make it.
Reports(ev, pattern) ==
    \/ \E r \in reported : r.ev.n = ev.n /\ r.pattern = pattern
    \/ \E g \in Inspectors : work[g].ev.n = ev.n /\ work[g].hit /\ Pattern(work[g].left) = pattern

\* How far the first i events of a log fell behind one added before them.
Lateness(log, i) ==
    LET behind == {log[p[1]].at - log[p[2]].at : p \in {q \in (1..i) \X (1..i) : q[1] <= q[2]}}
    IN  CHOOSE d \in behind : \A e \in behind : e <= d

\* How many of the first i events of a log are less than a span older than the i-th.
Rate(log, i, span) == Cardinality({j \in 1..i : log[j].at > log[i].at - span})

\* As long as the events of a user are added in the order of their times, the
\* event that makes it the limit within a minute is reported and no other, and so
\* is every blocked one from the configured count on.
ReportsExact ==
    \A u \in Users :
        /\ \A i \in DOMAIN userLog[u] : Lateness(userLog[u], i) = 0 =>
              (Reports(userLog[u][i], "user") <=> Rate(userLog[u], i, UserWindow) = UserLimit)
        /\ \A i \in DOMAIN blockLog[u] : Lateness(blockLog[u], i) = 0 =>
              (Reports(blockLog[u][i], "block") <=> Rate(blockLog[u], i, BlockWindow) >= BlockCount)

\* The earlier honey tokens of a trace that another module hit than the j-th.
OtherLayers(j) ==
    {i \in 1..j : /\ honeyLog[i].of.trace = honeyLog[j].of.trace
                  /\ honeyLog[i].of.module # honeyLog[j].of.module}

\* In any order, what is closer together than the window less the lateness is not
\* missed: a burst has been reported by its last event, so have blocks, and a trace
\* whose honey tokens two modules hit is an intrusion, unless a hit of any trace so
\* late or so far ahead came between that the first was forgotten.  Nothing else is
\* reported as an intrusion.
LateStillReported ==
    /\ \A u \in Users :
          /\ \A i \in DOMAIN userLog[u] :
                Rate(userLog[u], i, UserWindow - Lateness(userLog[u], i)) >= UserLimit
                    => \E j \in 1..i : Reports(userLog[u][j], "user")
          /\ \A i \in DOMAIN blockLog[u] :
                Rate(blockLog[u], i, BlockWindow - Lateness(blockLog[u], i)) >= BlockCount
                    => Reports(blockLog[u][i], "block")
    /\ \A j \in DOMAIN honeyLog :
          /\ (\E i \in OtherLayers(j) :
                  honeyLog[j].at - honeyLog[i].at <= LayerWindow - 2 * Lateness(honeyLog, j))
                  => Reports(honeyLog[j], "honey")
          /\ Reports(honeyLog[j], "honey") => OtherLayers(j) # {}

\* No spike is seen before enough minutes have events of the kind: however many
\* come in one minute, they raise the mean and the deviation with them.
SpikeNeedsMinutes ==
    [][\A g \in Inspectors :
        At(g, "baseline") /\ work'[g].hit =>
            LET st == baselines'[Key(work[g].ev)]
            IN  (st.minutes - 1) * (st.minutes - 1) > SigmaSquared * st.minutes]_vars

-----------------------------------------------------------------------------
(* What one would expect and the code does not do *)

\* The detector finds nothing in its own events: a report has no further report
\* in its train.
NoEcho == \A r \in reported : r.ev.of.type # "anomaly"
=============================================================================
