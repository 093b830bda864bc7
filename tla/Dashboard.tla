------------------------------- MODULE Dashboard -------------------------------
(***************************************************************************)
(* What the dashboards compute from the event ring (internal/store):       *)
(* DashboardSummary, TenantActivity, Topology and PipelineStats, each a    *)
(* loop over the newest events under Store.mu, and the list of recent      *)
(* activity of the REST handlers.                                          *)
(*                                                                         *)
(* A kind of event is here a record of what these loops look at.  Its time *)
(* is the one its sender put on it, so that the ring, which is in the      *)
(* order of arrival, need not be in the order of time.                     *)
(***************************************************************************)
EXTENDS EventStore, FiniteSetsExt, Functions

CONSTANTS
    Times,          \* timestamps, and the times at which a dashboard is asked for
    Modules,        \* the modules of the topology
    Tenants, Pipelines,
    FiveMinutes, Hour, Day,
    Slow,           \* mean latency in milliseconds above which a module is degraded (500)
    ActivityLimit   \* events in the list of recent activity (20)

Severities == {"info", "warning", "error", "critical"}
Kind == [at : Times, module : Modules, status : {"passed", "blocked", "error"}, severity : Severities,
         tenant : Tenants, pipeline : Pipelines, honey : BOOLEAN, ms : Nat]

ASSUME KindsAssumption == Kinds \subseteq Kind
ASSUME SpansAssumption ==
    /\ Times \subseteq Nat
    /\ FiveMinutes \in Nat /\ Hour \in Nat /\ Day \in Nat /\ Slow \in Nat /\ ActivityLimit \in Nat
    /\ Hour <= Day

-----------------------------------------------------------------------------
(* The loops over the ring *)

Stored == {Slot(i) : i \in 0..(Size - 1)}

\* ! Timestamp.Before(now - span)
Since(now, span) == {ev \in Stored : ev.kind.at >= now - span}

With(evs, Test(_)) == Cardinality({ev \in evs : Test(ev.kind)})

\* Fault: the walk is over at the end of the last hour.
Walked_Hour(now) ==
    {Slot(i) : i \in {j \in 0..(Size - 1) : \A k \in 0..j : Slot(k).kind.at >= now - Hour}}

\* The walk from the newest event ends at the first that is a day old.
Walked(now) ==
    {Slot(i) : i \in {j \in 0..(Size - 1) : \A k \in 0..j : Slot(k).kind.at >= now - Day}}

\* The counts of open incidents and firing alerts are those of their own maps, and
\* the five modules with most events are taken from volume.
DashboardSummary(now) ==
    LET lastHour == {ev \in Walked(now) : ev.kind.at > now - Hour}
    IN  [day |-> Cardinality(Walked(now)),
         hour |-> Cardinality(lastHour),
         blocked |-> With(lastHour, LAMBDA kind : kind.status = "blocked"),
         honey |-> With(Walked(now), LAMBDA kind : kind.honey),
         volume |-> [m \in Modules |-> With(Walked(now), LAMBDA kind : kind.module = m)]]

TenantActivity(now, tenant) ==
    LET own == {ev \in Since(now, Hour) : ev.kind.tenant = tenant}
    IN  [hour |-> Cardinality(own),
         blocked |-> With(own, LAMBDA kind : kind.status = "blocked"),
         honey |-> With(own, LAMBDA kind : kind.honey)]

\* More than three tenths errors is down; one tenth, or slow on average, degraded.
Health(total, errors, ms) ==
    IF total = 0 THEN "unknown"
    ELSE IF 10 * errors > 3 * total THEN "down"
    ELSE IF 10 * errors > total \/ ms > Slow * total THEN "degraded"
    ELSE "healthy"

TotalMs(evs) == MapThenSumSet(LAMBDA ev : ev.kind.ms, evs)

Topology(now) ==
    [m \in Modules |->
        LET own == {ev \in Since(now, FiveMinutes) : ev.kind.module = m}
            errors == With(own, LAMBDA kind : kind.status = "error")
        IN  [events |-> Cardinality(own),
             errors |-> errors,
             status |-> Health(Cardinality(own), errors, TotalMs(own))]]

\* Requests of the last hour by their pipeline, as the sentinel saw them.
NoPipeline == ""
PipelineStats(now) ==
    [p \in Pipelines \ {NoPipeline} |->
        With(Since(now, Hour), LAMBDA kind : kind.pipeline = p /\ kind.module = "sentinel")]

\* The newest events of each severity, merged: the answers that keep the newest by
\* their time, which may be equal.
RecentActivity ==
    LET merged == UNION {Range(RecentEvents({kind \in Kinds : kind.severity = sev}, ActivityLimit)) :
                             sev \in Severities \ {"info"}}
    IN  {evs \in kSubset(Min2(ActivityLimit, Cardinality(merged)), merged) :
            \A x \in evs, y \in merged \ evs : x.kind.at >= y.kind.at}

-----------------------------------------------------------------------------
(* Properties *)

\* How many events a client is listed that asks for them with the filter.
Listed(now, span, Test(_)) ==
    Len(RecentEvents({kind \in Kinds : kind.at >= now - span /\ Test(kind)}, MaxEvents))

\* No event that is a day old arrived after a newer one.
Timely(now) ==
    \A i, j \in 0..(Size - 1) :
        i < j /\ Slot(i).kind.at < now - Day => Slot(j).kind.at < now - Day

\* The events exactly an hour old, which one loop counts and the other does not.
OnTheHour(now, Test(_)) == With({ev \in Stored : ev.kind.at = now - Hour}, Test)

\* The sum of a function's values.
Total(f) == Cardinality(UNION {{x} \X (1..f[x]) : x \in DOMAIN f})

\* Every dashboard counts what the list of events with the same filter shows,
\* wherever the ring has wrapped around: the tenants and modules whatever the order
\* of the timestamps, the summary if no event a day old arrived after a newer one;
\* otherwise it counts too few and never too many.  The list of recent activity
\* holds the newest events when they arrived in the order of their time.
DashboardsAgree ==
    /\ \A now \in Times :
        LET s == DashboardSummary(now)
            Blocked(kind) == kind.status = "blocked"
            Any(kind) == TRUE
        IN  /\ \A t \in Tenants :
                  TenantActivity(now, t).hour = Listed(now, Hour, LAMBDA kind : kind.tenant = t)
            /\ \A m \in Modules :
                  LET n == Listed(now, FiveMinutes, LAMBDA kind : kind.module = m)
                  IN  Topology(now)[m].events = n /\ (Topology(now)[m].status = "unknown" <=> n = 0)
            /\ \A p \in Pipelines \ {NoPipeline} :
                  PipelineStats(now)[p] <= Listed(now, Hour, LAMBDA kind : kind.module = "sentinel")
            /\ s.day <= Listed(now, Day, Any)
            /\ s.hour <= Listed(now, Hour, Any) - OnTheHour(now, Any)
            /\ s.blocked <= Total([t \in Tenants |-> TenantActivity(now, t).blocked])
            /\ Timely(now) =>
                  /\ s.day = Listed(now, Day, Any)
                  /\ s.hour = Listed(now, Hour, Any) - OnTheHour(now, Any)
                  /\ s.blocked + OnTheHour(now, Blocked)
                        = Total([t \in Tenants |-> TenantActivity(now, t).blocked])
    /\ (\A i, j \in 0..(Size - 1) : i < j => Slot(i).kind.at >= Slot(j).kind.at) =>
           Range(RecentEvents({kind \in Kinds : kind.severity # "info"}, ActivityLimit)) \in RecentActivity

-----------------------------------------------------------------------------
(* What the source says and the code does not do *)

\* "ring buffer is newest-first; once we pass 24h we're done": no event of the last
\* day is behind one that is older.
SummaryComplete ==
    \A now \in Times : DashboardSummary(now).day = Cardinality(Since(now, Day))
=============================================================================
