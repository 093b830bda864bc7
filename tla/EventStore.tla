------------------------------ MODULE EventStore ------------------------------
(***************************************************************************)
(* The event ring buffer of the store (internal/store/memory.go) and the   *)
(* readers of it: AddEvent, GetEvent, RecentEvents, SearchEvents and the   *)
(* cursor pages of EventsPage, which one client walks while events keep    *)
(* arriving.  Each method is one critical section of Store.mu.             *)
(*                                                                         *)
(* An event is its id, the kind that filters tell apart, and its place n   *)
(* in the order of arrival, which the code does not keep.  The store takes *)
(* an event with the id it comes with, so ids repeat: the events of a demo *)
(* scenario carry the same ids in every replay.  Id 0 is the empty EventID *)
(* of a slot that was never written.  A query is the set of kinds it lets  *)
(* through.                                                                *)
(***************************************************************************)
EXTENDS Integers, Sequences, FiniteSets

CONSTANTS
    MaxEvents,      \* capacity of the ring
    Kinds,          \* what matchEvent and keyword search tell apart
    Queries,        \* the filters clients ask with
    DefaultPage,    \* page size when the request asks for none or too many (50)
    MaxPage,        \* largest page size a request may ask for (200)
    Limits,         \* the page sizes clients ask for
    Ids,            \* the ids that senders give to events, as often as they like
    MaxAdds,        \* bound on the events that ever arrive
    MaxGot          \* bound on the events in got, which a falling walk cannot reach

ASSUME MaxEventsAssumption == MaxEvents \in Nat \ {0}
ASSUME QueriesAssumption == Queries \subseteq SUBSET Kinds
ASSUME PageAssumption == DefaultPage \in Nat \ {0} /\ MaxPage \in Nat \ {0} /\ Limits \subseteq Int
ASSUME IdsAssumption == Ids \subseteq Nat \ {0}
ASSUME MaxAddsAssumption == MaxAdds \in Nat /\ MaxGot \in Nat

VARIABLES
    events,     \* Store.events
    head,       \* Store.head: the slot the next event goes to
    count,      \* Store.count: events ever written
    query,      \* the client's filter
    limit,      \* the page size the client asks for
    cursor,     \* the client's cursor; 0 is the empty string
    got,        \* the arrival numbers of the events the client was given, from the
                \* page on at which its walk began or last lost its place
    reading     \* FALSE once a page came without a next cursor

ringVars == <<events, head, count>>
clientVars == <<query, limit, cursor, got, reading>>
vars == <<ringVars, clientVars>>

Event == [id : Ids, n : 1..MaxAdds, kind : Kinds]
Blank == [id |-> 0]

Min2(a, b) == IF a < b THEN a ELSE b

\* Slots that hold an event, and the i-th newest of them, counted from 0.
Size == Min2(count, MaxEvents)
Slot(i) == events[(head - 1 - i + MaxEvents) % MaxEvents]

matchEvent(ev, q) == ev # Blank /\ ev.kind \in q

\* The positions of the events that pass, from the start-th newest on, and the
\* k-th of some positions.
Matching(start, q) == {i \in start..(Size - 1) : matchEvent(Slot(i), q)}
Nth(at, k) == CHOOSE i \in at : Cardinality({j \in at : j < i}) = k - 1

\* Fault: the loop begins one slot too far back.
Scan_OffByOne(start, q, n) ==
    LET at == {i \in (start + 1)..Size : matchEvent(Slot(i), q)}
    IN  [k \in 1..Min2(Cardinality(at), n) |-> Slot(Nth(at, k))]

\* The loop all readers share: matching events from the start-th newest on,
\* newest first, no more than n of them.
Scan(start, q, n) ==
    LET at == Matching(start, q)
    IN  [k \in 1..Min2(Cardinality(at), n) |-> Slot(Nth(at, k))]

RecentEvents(q, n) == Scan(0, q, n)
SearchEvents(kw, n) == Scan(0, kw, n)

\* The newest event with the id, as a set of at most one event.
GetEvent(id) ==
    {Slot(i) : i \in {j \in 0..(Size - 1) :
        Slot(j).id = id /\ \A k \in 0..(j - 1) : Slot(k).id # id}}

PageLimit(n) == IF n <= 0 \/ n > MaxPage THEN DefaultPage ELSE n

StartIdx_SkipOne(c) ==
    LET at == {i \in 0..(Size - 1) : c # 0 /\ Slot(i).id = c}
    IN  IF at = {} THEN 0 ELSE 2 + CHOOSE i \in at : \A j \in at : i <= j

\* Where a page begins: after the newest event whose id is the cursor, or at
\* the newest event when there is no cursor or it is not stored.
StartIdx(c) ==
    LET at == {i \in 0..(Size - 1) : c # 0 /\ Slot(i).id = c}
    IN  IF at = {} THEN 0 ELSE 1 + CHOOSE i \in at : \A j \in at : i <= j

EventsPage(q, c, n) == Scan(StartIdx(c), q, PageLimit(n))
NextCursor(page, n) == IF Len(page) = PageLimit(n) THEN page[Len(page)].id ELSE 0

RingTypeOK ==
    /\ events \in [0..(MaxEvents - 1) -> Event \cup {Blank}]
    /\ head \in 0..(MaxEvents - 1)
    /\ count \in 0..MaxAdds

Init ==
    /\ events = [i \in 0..(MaxEvents - 1) |-> Blank]
    /\ head = 0
    /\ count = 0
    /\ query \in Queries
    /\ limit \in Limits
    /\ cursor = 0
    /\ got = <<>>
    /\ reading = TRUE

\* The event that arrives next.
Arriving(kind, id) == [id |-> id, n |-> count + 1, kind |-> kind]

\* Fault: the first slot is never reused.
AddEvent_SkipFirst(kind, id) ==
    /\ count < MaxAdds
    /\ events' = [events EXCEPT ![head] = Arriving(kind, id)]
    /\ head' = IF head = MaxEvents - 1 THEN 1 ELSE head + 1
    /\ count' = count + 1
    /\ UNCHANGED clientVars

AddEvent(kind, id) ==
    /\ count < MaxAdds
    /\ events' = [events EXCEPT ![head] = Arriving(kind, id)]
    /\ head' = (head + 1) % MaxEvents
    /\ count' = count + 1
    /\ UNCHANGED clientVars

\* The newest event with the id of the cursor is not the one it was taken from.
CursorLost == cursor # 0 /\ ~\E ev \in GetEvent(cursor) : ev.n = got[Len(got)]

\* One request of the client for the page after its cursor.
FetchPage ==
    /\ reading
    /\ Len(got) <= MaxGot
    /\ LET page == EventsPage(query, cursor, limit)
           next == NextCursor(page, limit)
       IN  /\ got' = (IF CursorLost THEN <<>> ELSE got) \o [i \in 1..Len(page) |-> page[i].n]
           /\ cursor' = next
           /\ reading' = (next # 0)
    /\ UNCHANGED <<ringVars, query, limit>>

Next == (\E kind \in Kinds, id \in Ids : AddEvent(kind, id)) \/ FetchPage

Spec == Init /\ [][Next]_vars

\* A client that has a cursor asks for the next page.
LiveSpec == Spec /\ WF_vars(FetchPage)

-----------------------------------------------------------------------------
(* The ring implements the log of the newest events *)

Log == INSTANCE EventLog WITH
    Capacity <- MaxEvents,
    window <- [k \in 1..Size |-> Slot(k - 1)]

LogSpec == Log!Spec

\* Whatever the ring has wrapped around, the readers return what the log says: the
\* newest matching events, newest first, none of them a blank slot; and GetEvent the
\* newest event with the id, or none when no remembered event has it.
ReadsAgree ==
    /\ \A q \in Queries, n \in 1..MaxPage :
          Log!Newest(RecentEvents(q, n), {ev \in Event : ev.kind \in q}, n)
    /\ \A id \in Ids : \E answer \in {<<>>} \cup {<<ev>> : ev \in GetEvent(id)} :
          /\ Log!Newest(answer, {ev \in Event : ev.id = id}, 1)
          /\ {answer[k] : k \in DOMAIN answer} = GetEvent(id)

\* However many events arrive between its pages, and whatever their ids, a client has
\* been given events newest first and none twice since its walk began or last lost its
\* place, and has missed none that matches between the newest and the oldest of them:
\* "the cursor is the event_id of the last event on the previous page" and the next
\* page begins after it.  It loses its place only when that event was overwritten or a
\* newer one is stored with its id.
PagesExact ==
    /\ \A i, j \in DOMAIN got : i < j => got[i] > got[j]
    /\ \A k \in 0..(Size - 1) :
          LET ev == Slot(k)
          IN  got # <<>> /\ ev.kind \in query /\ ev.n <= got[1] /\ ev.n >= got[Len(got)]
                  => \E i \in DOMAIN got : got[i] = ev.n
    /\ CursorLost =>
          \/ got[Len(got)] <= count - MaxEvents
          \/ \E k \in 0..(Size - 1) : Slot(k).id = cursor /\ Slot(k).n > got[Len(got)]

\* Two stored events have one id.
SharedId == \E i, j \in 0..(Size - 1) : i # j /\ Slot(i).id = Slot(j).id


-----------------------------------------------------------------------------
(* What the source says and the code does not do *)

\* "EventsPage finds the cursor's position in the ring buffer, then collects the
\* next page after it": the cursor finds the event it was taken from.
CursorKept == ~CursorLost

\* "limit is capped at 200": a request for more gets a page of that size.
LimitCapped ==
    Len(EventsPage(Kinds, 0, MaxPage + 1)) = Min2(Size, MaxPage)
=============================================================================
