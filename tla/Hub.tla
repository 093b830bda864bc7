--------------------------------- MODULE Hub ---------------------------------
(***************************************************************************)
(* The fan-out hub (internal/hub/hub.go): the run loop that owns the set   *)
(* of members, the WebSocket clients with their two pumps, and the gRPC    *)
(* streams (StreamEvents of internal/api/grpc/server.go) that subscribe.   *)
(*                                                                         *)
(* The run loop is one goroutine; it serves one of its channels at a time, *)
(* and a broadcast is a step for the receive and one for each member it    *)
(* offers the message to, since members drain their channels meanwhile.    *)
(* A rendezvous on an unbuffered channel is one step of both sides.  A     *)
(* message is its number among those accepted and what filters tell apart. *)
(***************************************************************************)
EXTENDS Integers, Sequences, FiniteSets

CONSTANTS
    Sockets,        \* WebSocket clients
    Streams,        \* gRPC subscriptions
    EventTags,      \* what a filter may let through or not
    NoteTags,       \* messages of other types
    BroadcastCap,   \* capacity of Hub.broadcast
    SendCap,        \* capacity of a member's channel
    MaxAccepted,    \* bound on the messages accepted
    MaxFilters      \* bound on the set_filter messages of all clients

ASSUME KindsAssumption == Sockets \cap Streams = {} /\ EventTags \cap NoteTags = {}
ASSUME CapAssumption == BroadcastCap \in Nat \ {0} /\ SendCap \in Nat \ {0}
ASSUME BoundAssumption == MaxAccepted \in Nat /\ MaxFilters \in Nat
ASSUME SocketsAssumption == IsFiniteSet(Sockets)

Members == Sockets \cup Streams

VARIABLES
    broadcast,  \* Hub.broadcast
    accepted,   \* how many messages Broadcast did not drop
    members,    \* Hub.clients and Hub.subs
    gauge,      \* the gauge of WebSocket connections
    offering,   \* the message run is handing out, and to whom it still has to
    queue,      \* queue[x]: the channel of member x
    closed,     \* the members whose channel is closed
    broken,     \* members whose connection is closed or whose context is done
    reader,     \* reader[x]: how far ServeWS and readPump, or StreamEvents, are
    writer,     \* writer[x]: the writePump of client x
    filter,     \* filter[x]: the event tags x lets through
    seen,       \* history: what x was sent on its connection
    filterSince,\* history: messages accepted when x last set its filter
    missed,     \* history: members a message was withheld from
    filters     \* how many set_filter messages arrived

hubVars == <<broadcast, accepted, members, gauge, offering, closed>>
connVars == <<broken, reader, writer>>
filterVars == <<filter, filterSince, filters>>
vars == <<hubVars, queue, connVars, filterVars, seen, missed>>

Message == [n : 1..MaxAccepted, tag : EventTags \cup NoteTags]
NoMessage == [n |-> 0]

TypeOK ==
    /\ broadcast \in Seq(Message) /\ Len(broadcast) <= BroadcastCap
    /\ accepted \in 0..MaxAccepted
    /\ members \subseteq Members
    /\ gauge \in Int
    /\ offering \in [msg : Message \cup {NoMessage}, to : SUBSET Members]
    /\ offering.to # {} => offering.msg # NoMessage
    /\ queue \in [Members -> Seq(Message)]
    /\ \A x \in Members : Len(queue[x]) <= SendCap
    /\ closed \subseteq Members
    /\ broken \subseteq Members
    /\ reader \in [Members ->
            {"new", "registering", "reading", "unregistering", "closing", "done"}]
    /\ writer \in [Sockets -> {"new", "running", "done"}]
    /\ filter \in [Members -> SUBSET EventTags]
    /\ seen \in [Members -> Seq(Message)]
    /\ filterSince \in [Members -> 0..MaxAccepted]
    /\ missed \subseteq Members
    /\ filters \in 0..MaxFilters

Init ==
    /\ broadcast = <<>>
    /\ accepted = 0
    /\ members = {}
    /\ gauge = 0
    /\ offering = [msg |-> NoMessage, to |-> {}]
    /\ queue = [x \in Members |-> <<>>]
    /\ closed = {}
    /\ broken = {}
    /\ reader = [x \in Members |-> "new"]
    /\ writer = [x \in Sockets |-> "new"]
    /\ filter = [x \in Members |-> EventTags]
    /\ seen = [x \in Members |-> <<>>]
    /\ filterSince = [x \in Members |-> 0]
    /\ missed = {}
    /\ filters = 0

-----------------------------------------------------------------------------
(* Any goroutine *)

\* Broadcast never blocks: a message that finds the channel full is dropped, and
\* then nothing changes.
Broadcast(tag) ==
    /\ accepted < MaxAccepted
    /\ Len(broadcast) < BroadcastCap
    /\ broadcast' = Append(broadcast, [n |-> accepted + 1, tag |-> tag])
    /\ accepted' = accepted + 1
    /\ UNCHANGED <<members, gauge, offering, queue, closed, connVars, filterVars, seen, missed>>

-----------------------------------------------------------------------------
(* Members: ServeWS, the pumps, StreamEvents *)

\* ServeWS up to its send on register, or StreamEvents up to subRegister.  The
\* filter of a stream comes with the request; a client starts without one.
Join(x, f) ==
    /\ reader[x] = "new"
    /\ x \in Sockets => f = EventTags
    /\ reader' = [reader EXCEPT ![x] = "registering"]
    /\ filter' = [filter EXCEPT ![x] = f]
    /\ UNCHANGED <<hubVars, queue, broken, writer, filterSince, filters, seen, missed>>

SetFilter(x, f) ==
    /\ x \in Sockets /\ reader[x] = "reading" /\ x \notin broken
    /\ filters < MaxFilters
    /\ filters' = filters + 1
    /\ filter' = [filter EXCEPT ![x] = f]
    /\ filterSince' = [filterSince EXCEPT ![x] = accepted]
    /\ UNCHANGED <<hubVars, queue, connVars, seen, missed>>

\* The peer closes, vanishes until a deadline passes, or cancels its stream.
PeerLeaves(x) ==
    /\ reader[x] = "reading" /\ x \notin broken
    /\ broken' = broken \cup {x}
    /\ UNCHANGED <<hubVars, queue, reader, writer, filterVars, seen, missed>>

\* Fault: the read loop ends without unregistering.
ReadFails_Leave(x) ==
    /\ reader[x] = "reading" /\ x \in broken
    /\ reader' = [reader EXCEPT ![x] = "closing"]
    /\ UNCHANGED <<hubVars, queue, broken, writer, filterVars, seen, missed>>

\* ReadMessage fails, or StreamEvents finds its context done.
ReadFails(x) ==
    /\ reader[x] = "reading" /\ x \in broken
    /\ reader' = [reader EXCEPT ![x] = "unregistering"]
    /\ UNCHANGED <<hubVars, queue, broken, writer, filterVars, seen, missed>>

\* The end of readPump, once unregister was taken.
CloseConn(x) ==
    /\ reader[x] = "closing"
    /\ reader' = [reader EXCEPT ![x] = "done"]
    /\ broken' = broken \cup {x}
    /\ UNCHANGED <<hubVars, queue, writer, filterVars, seen, missed>>

\* Fault: the message stays in the channel.
WriteMessage_Peek(x) ==
    /\ writer[x] = "running" /\ queue[x] # <<>>
    /\ x \notin broken
    /\ seen' = [seen EXCEPT ![x] = Append(@, Head(queue[x]))]
    /\ UNCHANGED <<hubVars, queue, connVars, filterVars, missed>>

\* writePump takes a message and writes it.
WriteMessage(x) ==
    /\ writer[x] = "running" /\ queue[x] # <<>>
    /\ x \notin broken
    /\ queue' = [queue EXCEPT ![x] = Tail(@)]
    /\ seen' = [seen EXCEPT ![x] = Append(@, Head(queue[x]))]
    /\ UNCHANGED <<hubVars, connVars, filterVars, missed>>

\* A write of a message fails, on a closed connection or past the deadline.
WriteFails(x) ==
    /\ writer[x] = "running" /\ queue[x] # <<>>
    /\ queue' = [queue EXCEPT ![x] = Tail(@)]
    /\ writer' = [writer EXCEPT ![x] = "done"]
    /\ broken' = broken \cup {x}
    /\ UNCHANGED <<hubVars, reader, filterVars, seen, missed>>

\* The ping of the ticker fails.
PingFails(x) ==
    /\ writer[x] = "running"
    /\ writer' = [writer EXCEPT ![x] = "done"]
    /\ broken' = broken \cup {x}
    /\ UNCHANGED <<hubVars, queue, reader, filterVars, seen, missed>>

\* The channel is closed and drained.
WriterStops(x) ==
    /\ writer[x] = "running" /\ queue[x] = <<>> /\ x \in closed
    /\ writer' = [writer EXCEPT ![x] = "done"]
    /\ broken' = broken \cup {x}
    /\ UNCHANGED <<hubVars, queue, reader, filterVars, seen, missed>>

\* StreamEvents takes a message: it skips what is no event or does not pass the
\* filter of the request, and gives up when it cannot send.
StreamTakes(x) ==
    /\ x \in Streams /\ reader[x] = "reading" /\ queue[x] # <<>>
    /\ queue' = [queue EXCEPT ![x] = Tail(@)]
    /\ \/ /\ Head(queue[x]).tag \in filter[x] /\ x \notin broken
          /\ seen' = [seen EXCEPT ![x] = Append(@, Head(queue[x]))]
          /\ UNCHANGED <<reader, missed>>
       \/ /\ Head(queue[x]).tag \notin filter[x]
          /\ missed' = missed \cup {x}
          /\ UNCHANGED <<reader, seen>>
       \/ /\ Head(queue[x]).tag \in filter[x]
          /\ reader' = [reader EXCEPT ![x] = "unregistering"]
          /\ UNCHANGED <<seen, missed>>
    /\ UNCHANGED <<hubVars, broken, writer, filterVars>>

-----------------------------------------------------------------------------
(* The run loop *)

Idle == offering.to = {}

HubRegister(x) ==
    /\ Idle /\ reader[x] = "registering"
    /\ members' = members \cup {x}
    /\ reader' = [reader EXCEPT ![x] = "reading"]
    /\ IF x \in Sockets
       THEN gauge' = gauge + 1 /\ writer' = [writer EXCEPT ![x] = "running"]
       ELSE UNCHANGED <<gauge, writer>>
    /\ UNCHANGED <<broadcast, accepted, offering, closed, queue, broken, filterVars, seen, missed>>

\* Fault: the member whose channel is closed stays in the map.
HubUnregister_Keep(x) ==
    /\ Idle /\ reader[x] = "unregistering"
    /\ closed' = closed \cup {x}
    /\ gauge' = IF x \in Sockets THEN gauge - 1 ELSE gauge
    /\ reader' = [reader EXCEPT ![x] = IF x \in Sockets THEN "closing" ELSE "done"]
    /\ UNCHANGED <<broadcast, accepted, members, offering, queue, broken, writer, filterVars, seen, missed>>

HubUnregister(x) ==
    /\ Idle /\ reader[x] = "unregistering"
    /\ members' = members \ {x}
    /\ closed' = IF x \in members THEN closed \cup {x} ELSE closed
    /\ gauge' = IF x \in Sockets THEN gauge - 1 ELSE gauge
    /\ reader' = [reader EXCEPT ![x] = IF x \in Sockets THEN "closing" ELSE "done"]
    /\ UNCHANGED <<broadcast, accepted, offering, queue, broken, writer, filterVars, seen, missed>>

\* Fault: the channel is emptied and only its oldest message handed out.
HubTake_Flush ==
    /\ Idle /\ broadcast # <<>>
    /\ broadcast' = <<>>
    /\ offering' = [msg |-> Head(broadcast), to |-> members]
    /\ UNCHANGED <<accepted, members, gauge, closed, queue, connVars, filterVars, seen, missed>>

HubTake ==
    /\ Idle /\ broadcast # <<>>
    /\ broadcast' = Tail(broadcast)
    /\ offering' = [msg |-> Head(broadcast), to |-> members]
    /\ UNCHANGED <<accepted, members, gauge, closed, queue, connVars, filterVars, seen, missed>>

\* Fault: events pass that the filter names a severity or tenant against.
Allows_Any(x, m) == TRUE

\* allowsMessage; the hub filters nothing for a stream.
Allows(x, m) == x \in Streams \/ m.tag \in NoteTags \/ m.tag \in filter[x]

\* Fault: the send waits until the member's channel has room.
HubOffer_Blocking(x) ==
    /\ x \in offering.to
    /\ ~Allows(x, offering.msg) \/ Len(queue[x]) < SendCap
    /\ offering' = [offering EXCEPT !.to = @ \ {x}]
    /\ IF Allows(x, offering.msg)
       THEN queue' = [queue EXCEPT ![x] = Append(@, offering.msg)] /\ UNCHANGED missed
       ELSE missed' = missed \cup {x} /\ UNCHANGED queue
    /\ UNCHANGED <<broadcast, accepted, members, gauge, closed, connVars, filterVars, seen>>

\* One member's turn, in any order; a full channel or the filter skips it.
HubOffer(x) ==
    /\ x \in offering.to
    /\ offering' = [offering EXCEPT !.to = @ \ {x}]
    /\ IF Allows(x, offering.msg) /\ Len(queue[x]) < SendCap
       THEN queue' = [queue EXCEPT ![x] = Append(@, offering.msg)] /\ UNCHANGED missed
       ELSE missed' = missed \cup {x} /\ UNCHANGED queue
    /\ UNCHANGED <<broadcast, accepted, members, gauge, closed, connVars, filterVars, seen>>

-----------------------------------------------------------------------------
SocketStep(x) ==
    \/ WriteMessage(x) \/ WriteFails(x) \/ PingFails(x) \/ WriterStops(x)
    \/ \E f \in SUBSET EventTags : SetFilter(x, f)

MemberStep(x) ==
    \/ \E f \in SUBSET EventTags : Join(x, f)
    \/ PeerLeaves(x) \/ ReadFails(x) \/ CloseConn(x)

Run ==
    \/ HubTake
    \/ \E x \in Members : HubRegister(x) \/ HubUnregister(x) \/ HubOffer(x)

Next ==
    \/ \E tag \in EventTags \cup NoteTags : Broadcast(tag)
    \/ \E x \in Members : MemberStep(x)
    \/ \E x \in Sockets : SocketStep(x)
    \/ \E x \in Streams : StreamTakes(x)
    \/ Run

Spec == Init /\ [][Next]_vars

\* Every goroutine that can run is run, and select picks among ready channels at
\* random, so one that is ready again and again is picked: strong fairness for
\* registrations, however many broadcasts compete.  Nobody has to broadcast.
Fairness ==
    /\ WF_vars(HubTake)
    /\ \A x \in Members :
          /\ WF_vars(HubOffer(x))
          /\ SF_vars(HubRegister(x)) /\ SF_vars(HubUnregister(x))
          /\ WF_vars(ReadFails(x)) /\ WF_vars(CloseConn(x))
    /\ \A x \in Sockets :
          /\ WF_vars(WriteMessage(x) \/ WriteFails(x)) /\ WF_vars(WriterStops(x))
          /\ WF_vars(x \in broken /\ PingFails(x))
    /\ \A x \in Streams : WF_vars(StreamTakes(x))

LiveSpec == Spec /\ Fairness

-----------------------------------------------------------------------------
(* Properties *)

\* The run loop never sends on a closed channel and never closes one twice,
\* which would end the process: whoever it still has to serve is open.  The gauge
\* counts the clients in the map, though unregister lowers it whether or not the
\* client was there.
MapInStep ==
    /\ closed \cap (members \cup offering.to) = {}
    /\ gauge = Cardinality(members \cap Sockets)

\* What was accepted after a filter was set and reaches the connection passes
\* the filter, although the hub tests it against the filter of a later moment.
FilterRespected ==
    \A x \in Members : \A i \in DOMAIN seen[x] :
        LET m == seen[x][i]
        IN  m.n > filterSince[x] => m.tag \in NoteTags \cup filter[x]

Numbers(s) == [i \in DOMAIN s |-> s[i].n]

Served(x) == reader[x] = "reading" /\ (x \in Sockets => writer[x] = "running")

\* A member that was never skipped has a feed without a gap, from the first
\* message it got to the last one in its channel.
NoSilentGap ==
    \A x \in Members \ missed : Served(x) =>
        LET feed == Numbers(seen[x] \o queue[x])
            last == accepted - Len(broadcast) - (IF x \in offering.to THEN 1 ELSE 0)
        IN  feed # <<>> => feed = [i \in 1..Len(feed) |-> last - Len(feed) + i]

\* Whoever asks to join is served, however much is broadcast.
JoinServed ==
    \A x \in Members : reader[x] = "registering" ~> reader[x] # "registering"

\* A connection that broke is cleaned up: it leaves the map, and both of its
\* goroutines end.
BrokenEnds ==
    \A x \in Members : x \in broken ~>
        /\ x \notin members /\ reader[x] = "done"
        /\ x \in Sockets => writer[x] = "done"

\* The hub implements the lossy feed.
LossyFeed == INSTANCE Feed WITH
    Watchers <- Members,
    sent <- accepted,
    seen <- [x \in Members |-> Numbers(seen[x])]

FeedSpec == LossyFeed!Spec
=============================================================================
