------------------------------ MODULE Hub_proofs ------------------------------
(***************************************************************************)
(* Proofs about Hub, for any finite set of clients, any set of streams and *)
(* channels of any capacity: the run loop touches no closed channel, what  *)
(* reaches a connection is in order, filtered and without a silent gap,    *)
(* and the hub implements Feed.                                            *)
(***************************************************************************)
EXTENDS Hub, FiniteSetTheorems, SequenceTheorems, TLAPS

\* Where a member is decides whether the hub knows it and whether its channel can
\* be closed or hold anything yet.
MemberInv ==
    /\ \A x \in Members : x \in members <=> reader[x] \in {"reading", "unregistering"}
    /\ \A x \in closed : reader[x] \in {"closing", "done"}
    /\ \A x \in Members : reader[x] \in {"new", "registering"} => queue[x] = <<>> /\ seen[x] = <<>>
    /\ offering.to \subseteq members

GaugeInv == gauge = Cardinality(members \cap Sockets)

\* Messages the run loop has taken off broadcast, and how far member x was served:
\* the message in hand counts once it was offered to x.
Taken == accepted - Len(broadcast)
Reach(x) == IF x \in offering.to THEN Taken - 1 ELSE Taken

OrderOf(x) ==
    /\ \A i \in 1..Len(queue[x]) : queue[x][i].n <= Reach(x)
    /\ \A i \in 1..Len(seen[x]) : seen[x][i].n <= Reach(x)
    /\ \A i, j \in 1..Len(queue[x]) : i < j => queue[x][i].n < queue[x][j].n
    /\ \A i \in 1..Len(seen[x]), j \in 1..Len(queue[x]) : seen[x][i].n < queue[x][j].n

\* Along the way of a message to x, from what was seen over the channel of x and the
\* message in hand to broadcast, numbers only grow.
OrderInv ==
    /\ \A i \in 1..Len(broadcast) : broadcast[i].n = Taken + i
    /\ offering.to # {} => offering.msg.n = Taken
    /\ \A x \in Members : OrderOf(x)

Passes(x, m) == m.n > filterSince[x] => m.tag \in NoteTags \cup filter[x]

\* What a client's channel holds passes its filter as well, unless it was accepted
\* before the filter was set; a stream filters only what leaves its channel.
FilterInv ==
    \A x \in Members :
        /\ x \in Sockets => \A i \in 1..Len(queue[x]) : Passes(x, queue[x][i])
        /\ \A i \in 1..Len(seen[x]) : Passes(x, seen[x][i])

GapOf(x) ==
    /\ \A i \in 1..Len(queue[x]) : queue[x][i].n = Reach(x) - Len(queue[x]) + i
    /\ \A i \in 1..Len(seen[x]) : seen[x][i].n = Reach(x) - Len(queue[x]) - Len(seen[x]) + i

\* Counted back from how far x was served, the channel of x and what x has seen leave
\* no number out.
GapInv ==
    \A x \in Members \ missed : Served(x) => GapOf(x)

HubInv == TypeOK /\ MemberInv /\ GaugeInv /\ OrderInv /\ FilterInv /\ GapInv
-----------------------------------------------------------------------------
(* Types                                                                   *)

\* Taking the oldest message out of a channel.
LEMMA TailFacts ==
  ASSUME NEW S, NEW s \in Seq(S), s # <<>>
  PROVE  /\ Head(s) \in S /\ Head(s) = s[1] /\ 1 \in 1..Len(s)
         /\ Tail(s) \in Seq(S) /\ Len(s) \in Nat /\ Len(Tail(s)) = Len(s) - 1
         /\ \A i \in 1..Len(Tail(s)) : i + 1 \in 1..Len(s) /\ Tail(s)[i] = s[i + 1]
OBVIOUS

LEMMA TypeInit == Init => TypeOK
BY CapAssumption, BoundAssumption DEF Init, TypeOK, Members, Message, NoMessage

LEMMA TypeStep == TypeOK /\ MemberInv /\ [Next]_vars => TypeOK'
<1> SUFFICES ASSUME TypeOK, MemberInv, [Next]_vars PROVE TypeOK'
  OBVIOUS
<1> USE CapAssumption, BoundAssumption DEF hubVars, connVars, filterVars
<1>1. ASSUME NEW tag \in EventTags \cup NoteTags, Broadcast(tag) PROVE TypeOK'
  <2>1. [n |-> accepted + 1, tag |-> tag] \in Message
    BY <1>1 DEF Broadcast, TypeOK, Message
  <2> QED
    BY <1>1, <2>1 DEF Broadcast, TypeOK
<1>2. ASSUME NEW x \in Members, NEW f \in SUBSET EventTags, Join(x, f) PROVE TypeOK'
  BY <1>2 DEF Join, TypeOK
<1>3. ASSUME NEW x \in Members, NEW f \in SUBSET EventTags, SetFilter(x, f) PROVE TypeOK'
  BY <1>3 DEF SetFilter, TypeOK
<1>4. ASSUME NEW x \in Members, PeerLeaves(x) \/ ReadFails(x) \/ CloseConn(x) PROVE TypeOK'
  BY <1>4 DEF PeerLeaves, ReadFails, CloseConn, TypeOK
<1>5. ASSUME NEW x \in Sockets, WriteMessage(x) PROVE TypeOK'
  <2>1. x \in Members /\ queue[x] \in Seq(Message) /\ queue[x] # <<>>
    BY <1>5 DEF WriteMessage, TypeOK, Members
  <2>2. Head(queue[x]) \in Message /\ Tail(queue[x]) \in Seq(Message) /\ Len(Tail(queue[x])) <= SendCap
    BY <2>1, TailFacts DEF TypeOK
  <2>3. queue' = [queue EXCEPT ![x] = Tail(queue[x])] /\ seen' = [seen EXCEPT ![x] = Append(seen[x], Head(queue[x]))]
    BY <1>5 DEF WriteMessage
  <2> QED
    BY <1>5, <2>1, <2>2, <2>3 DEF WriteMessage, TypeOK
<1>6. ASSUME NEW x \in Sockets, WriteFails(x) PROVE TypeOK'
  <2>1. x \in Members /\ queue[x] \in Seq(Message) /\ queue[x] # <<>>
    BY <1>6 DEF WriteFails, TypeOK, Members
  <2>2. Tail(queue[x]) \in Seq(Message) /\ Len(Tail(queue[x])) <= SendCap
    BY <2>1, TailFacts DEF TypeOK
  <2>3. queue' = [queue EXCEPT ![x] = Tail(queue[x])]
    BY <1>6 DEF WriteFails
  <2> QED
    BY <1>6, <2>1, <2>2, <2>3 DEF WriteFails, TypeOK
<1>7. ASSUME NEW x \in Sockets, PingFails(x) \/ WriterStops(x) PROVE TypeOK'
  BY <1>7 DEF PingFails, WriterStops, TypeOK, Members
<1>8. ASSUME NEW x \in Streams, StreamTakes(x) PROVE TypeOK'
  <2>1. x \in Members /\ queue[x] \in Seq(Message) /\ queue[x] # <<>>
    BY <1>8 DEF StreamTakes, TypeOK, Members
  <2>2. Head(queue[x]) \in Message /\ Tail(queue[x]) \in Seq(Message) /\ Len(Tail(queue[x])) <= SendCap
    BY <2>1, TailFacts DEF TypeOK
  <2>3. /\ queue' = [queue EXCEPT ![x] = Tail(queue[x])]
        /\ seen' = seen \/ seen' = [seen EXCEPT ![x] = Append(seen[x], Head(queue[x]))]
        /\ missed' = missed \/ missed' = missed \cup {x}
        /\ reader' = reader \/ reader' = [reader EXCEPT ![x] = "unregistering"]
        /\ UNCHANGED <<hubVars, broken, writer, filterVars>>
    BY <1>8 DEF StreamTakes
  <2>4. queue' \in [Members -> Seq(Message)] /\ \A y \in Members : Len(queue'[y]) <= SendCap
    <3>1. \A y \in Members : queue'[y] = IF y = x THEN Tail(queue[x]) ELSE queue[y]
      BY <2>3 DEF TypeOK
    <3> QED
      BY <2>1, <2>2, <2>3, <3>1 DEF TypeOK
  <2>5. seen' \in [Members -> Seq(Message)]
    <3>1. Append(seen[x], Head(queue[x])) \in Seq(Message)
      BY <2>1, <2>2 DEF TypeOK
    <3> QED
      BY <2>1, <2>3, <3>1 DEF TypeOK
  <2>6. missed' \subseteq Members
    BY <2>1, <2>3 DEF TypeOK
  <2> QED
    BY <2>1, <2>3, <2>4, <2>5, <2>6, ZenonT(60) DEF TypeOK
<1>9. CASE HubTake
  <2>1. Head(broadcast) \in Message /\ Tail(broadcast) \in Seq(Message) /\ Len(Tail(broadcast)) <= BroadcastCap
    BY <1>9, TailFacts DEF HubTake, TypeOK
  <2>2. Head(broadcast) # NoMessage
    BY <2>1 DEF Message, NoMessage
  <2> QED
    BY <1>9, <2>1, <2>2 DEF HubTake, TypeOK
<1>10. ASSUME NEW x \in Members, HubRegister(x) \/ HubUnregister(x) PROVE TypeOK'
  <2>1. gauge' \in Int /\ members' \subseteq Members /\ closed' \subseteq Members
    BY <1>10 DEF HubRegister, HubUnregister, TypeOK
  <2>2. writer' \in [Sockets -> {"new", "running", "done"}]
    BY <1>10 DEF HubRegister, HubUnregister, TypeOK
  <2>3. reader' \in [Members ->
            {"new", "registering", "reading", "unregistering", "closing", "done"}]
    BY <1>10 DEF HubRegister, HubUnregister, TypeOK
  <2>4. UNCHANGED <<broadcast, accepted, offering, queue, broken, filterVars, seen, missed>>
    BY <1>10 DEF HubRegister, HubUnregister
  <2> QED
    BY <2>1, <2>2, <2>3, <2>4 DEF TypeOK
<1>11. ASSUME NEW x \in Members, HubOffer(x) PROVE TypeOK'
  <2>1. offering.msg \in Message
    BY <1>11 DEF HubOffer, TypeOK
  <2>2. offering' = [msg |-> offering.msg, to |-> offering.to \ {x}]
    BY <1>11 DEF HubOffer, TypeOK
  <2>3. /\ \/ queue' = queue
           \/ queue' = [queue EXCEPT ![x] = Append(queue[x], offering.msg)] /\ Len(queue[x]) < SendCap
        /\ missed' = missed \/ missed' = missed \cup {x}
        /\ UNCHANGED <<broadcast, accepted, members, gauge, closed, connVars, filterVars, seen>>
    BY <1>11 DEF HubOffer
  <2>4. queue' \in [Members -> Seq(Message)] /\ \A y \in Members : Len(queue'[y]) <= SendCap
    <3>1. CASE queue' = queue
      BY <3>1 DEF TypeOK
    <3>2. CASE queue' = [queue EXCEPT ![x] = Append(queue[x], offering.msg)] /\ Len(queue[x]) < SendCap
      <4>1. queue[x] \in Seq(Message)
        BY DEF TypeOK
      <4>2. /\ Append(queue[x], offering.msg) \in Seq(Message)
            /\ Len(Append(queue[x], offering.msg)) <= SendCap
        BY <2>1, <3>2, <4>1
      <4>3. \A y \in Members : queue'[y] = IF y = x THEN Append(queue[x], offering.msg) ELSE queue[y]
        BY <3>2 DEF TypeOK
      <4> QED
        BY <3>2, <4>2, <4>3 DEF TypeOK
    <3> QED
      BY <2>3, <3>1, <3>2
  <2>5. offering' \in [msg : Message \cup {NoMessage}, to : SUBSET Members] /\ (offering'.to # {} => offering'.msg # NoMessage)
    BY <1>11, <2>1, <2>2, ZenonT(60) DEF HubOffer, TypeOK
  <2> QED
    BY <2>3, <2>4, <2>5 DEF TypeOK
<1>12. CASE UNCHANGED vars
  BY <1>12 DEF vars, TypeOK
<1> QED
  BY <1>1, <1>2, <1>3, <1>4, <1>5, <1>6, <1>7, <1>8, <1>9, <1>10, <1>11, <1>12
  DEF Next, MemberStep, SocketStep, Run, Members

-----------------------------------------------------------------------------
(* Members and the gauge                                                   *)

LEMMA MembersStep == TypeOK /\ MemberInv /\ [Next]_vars => MemberInv'
<1> SUFFICES ASSUME TypeOK, MemberInv, [Next]_vars PROVE MemberInv'
  OBVIOUS
<1> USE DEF hubVars, connVars, filterVars, MemberInv
<1>1. ASSUME NEW tag \in EventTags \cup NoteTags, Broadcast(tag) PROVE MemberInv'
  BY <1>1 DEF Broadcast
<1>2. ASSUME NEW x \in Members, NEW f \in SUBSET EventTags, Join(x, f) PROVE MemberInv'
  BY <1>2 DEF Join, TypeOK
<1>3. ASSUME NEW x \in Members, NEW f \in SUBSET EventTags, SetFilter(x, f) PROVE MemberInv'
  BY <1>3 DEF SetFilter
<1>4. ASSUME NEW x \in Members, PeerLeaves(x) \/ ReadFails(x) \/ CloseConn(x) PROVE MemberInv'
  BY <1>4, ZenonT(60) DEF PeerLeaves, ReadFails, CloseConn, TypeOK
<1>5. ASSUME NEW x \in Members, WriteMessage(x) \/ WriteFails(x) \/ PingFails(x) \/ WriterStops(x)
      PROVE  MemberInv'
  <2>1. \/ queue' = queue
        \/ queue[x] # <<>> /\ queue' = [queue EXCEPT ![x] = Tail(queue[x])]
    BY <1>5 DEF WriteMessage, WriteFails, PingFails, WriterStops
  <2> QED
    BY <1>5, <2>1 DEF WriteMessage, WriteFails, PingFails, WriterStops, TypeOK
<1>6. ASSUME NEW x \in Members, StreamTakes(x) PROVE MemberInv'
  BY <1>6, ZenonT(60) DEF StreamTakes, TypeOK
<1>7. CASE HubTake
  BY <1>7 DEF HubTake, TypeOK
<1>8. ASSUME NEW x \in Members, HubRegister(x) PROVE MemberInv'
  BY <1>8 DEF HubRegister, Idle, TypeOK
<1>9. ASSUME NEW x \in Members, HubUnregister(x) PROVE MemberInv'
  BY <1>9 DEF HubUnregister, Idle, TypeOK
<1>10. ASSUME NEW x \in Members, HubOffer(x) PROVE MemberInv'
  <2>1. offering' = [msg |-> offering.msg, to |-> offering.to \ {x}]
    BY <1>10 DEF HubOffer, TypeOK
  <2>2. reader[x] \in {"reading", "unregistering"}
    BY <1>10 DEF HubOffer
  <2>3. \A y \in Members \ {x} : queue'[y] = queue[y]
    BY <1>10 DEF HubOffer, TypeOK
  <2> QED
    BY <1>10, <2>1, <2>2, <2>3 DEF HubOffer
<1>11. CASE UNCHANGED vars
  BY <1>11 DEF vars
<1> QED
  BY <1>1, <1>2, <1>3, <1>4, <1>5, <1>6, <1>7, <1>8, <1>9, <1>10, <1>11
  DEF Next, MemberStep, SocketStep, Run, Members

LEMMA GaugeStep == TypeOK /\ MemberInv /\ GaugeInv /\ [Next]_vars => GaugeInv'
<1> SUFFICES ASSUME TypeOK, MemberInv, GaugeInv, [Next]_vars PROVE GaugeInv'
  OBVIOUS
<1>1. IsFiniteSet(members \cap Sockets)
  BY SocketsAssumption, FS_Intersection
<1>2. ASSUME NEW x \in Members, HubRegister(x) PROVE GaugeInv'
  <2>1. x \notin members
    BY <1>2 DEF HubRegister, MemberInv
  <2>2. CASE x \in Sockets
    <3>1. members' \cap Sockets = (members \cap Sockets) \cup {x} /\ gauge' = gauge + 1
      BY <1>2, <2>2 DEF HubRegister
    <3> QED
      BY <1>1, <2>1, <3>1, FS_AddElement DEF GaugeInv
  <2>3. CASE x \notin Sockets
    <3>1. members' \cap Sockets = members \cap Sockets /\ gauge' = gauge
      BY <1>2, <2>3 DEF HubRegister
    <3> QED
      BY <3>1 DEF GaugeInv
  <2> QED
    BY <2>2, <2>3
<1>3. ASSUME NEW x \in Members, HubUnregister(x) PROVE GaugeInv'
  <2>1. x \in members
    BY <1>3 DEF HubUnregister, MemberInv
  <2>2. CASE x \in Sockets
    <3>1. members' \cap Sockets = (members \cap Sockets) \ {x} /\ gauge' = gauge - 1
      BY <1>3, <2>2 DEF HubUnregister
    <3> QED
      BY <1>1, <2>1, <2>2, <3>1, FS_RemoveElement DEF GaugeInv
  <2>3. CASE x \notin Sockets
    <3>1. members' \cap Sockets = members \cap Sockets /\ gauge' = gauge
      BY <1>3, <2>3 DEF HubUnregister
    <3> QED
      BY <3>1 DEF GaugeInv
  <2> QED
    BY <2>2, <2>3
<1>4. CASE UNCHANGED <<members, gauge>>
  BY <1>4 DEF GaugeInv
<1>5. UNCHANGED <<members, gauge>>
      \/ \E x \in Members : HubRegister(x) \/ HubUnregister(x)
  BY DEF Next, MemberStep, SocketStep, Run, vars, hubVars, Broadcast, Join, PeerLeaves, ReadFails,
         CloseConn, SetFilter, WriteMessage, WriteFails, PingFails, WriterStops, StreamTakes,
         HubTake, HubOffer
<1> QED
  BY <1>2, <1>3, <1>4, <1>5

-----------------------------------------------------------------------------
(* The way of a message                                                    *)

\* What a step does to the channel of member x and to what x has seen: the oldest
\* message moves on, or is dropped, or the message in hand is added or withheld.
Moves(x) ==
    /\ queue[x] # <<>>
    /\ queue' = [queue EXCEPT ![x] = Tail(queue[x])]
    /\ seen' = [seen EXCEPT ![x] = Append(seen[x], Head(queue[x]))]
    /\ x \in Streams => Head(queue[x]).tag \in filter[x]
    /\ UNCHANGED <<hubVars, reader, writer, filterVars, missed>>

Drops(x) ==
    /\ queue[x] # <<>>
    /\ queue' = [queue EXCEPT ![x] = Tail(queue[x])]
    /\ x \in missed' \/ ~Served(x)'
    /\ missed \subseteq missed'
    /\ \A y \in Members : Served(y)' => Served(y)
    /\ UNCHANGED <<hubVars, filterVars, seen>>

Adds(x) ==
    /\ x \in offering.to
    /\ offering' = [msg |-> offering.msg, to |-> offering.to \ {x}]
    /\ Allows(x, offering.msg)
    /\ queue' = [queue EXCEPT ![x] = Append(queue[x], offering.msg)]
    /\ UNCHANGED <<broadcast, accepted, members, reader, writer, filterVars, seen, missed>>

Withholds(x) ==
    /\ x \in offering.to
    /\ offering' = [msg |-> offering.msg, to |-> offering.to \ {x}]
    /\ missed' = missed \cup {x}
    /\ UNCHANGED <<broadcast, accepted, members, reader, writer, filterVars, seen, queue>>

\* A step that carries no message.
Carries == <<broadcast, accepted, offering, queue, seen, missed>>

LEMMA Carried ==
  ASSUME TypeOK, [Next]_vars
  PROVE  \/ UNCHANGED Carries
         \/ \E tag \in EventTags \cup NoteTags : Broadcast(tag)
         \/ HubTake
         \/ \E x \in Members : Moves(x) \/ Drops(x) \/ Adds(x) \/ Withholds(x)
<1> USE DEF hubVars, connVars, filterVars, Carries
<1>1. ASSUME NEW x \in Members, MemberStep(x) \/ HubRegister(x) \/ HubUnregister(x)
      PROVE  UNCHANGED Carries
  BY <1>1 DEF MemberStep, Join, PeerLeaves, ReadFails, CloseConn, HubRegister, HubUnregister
<1>2. ASSUME NEW x \in Sockets, SocketStep(x) PROVE UNCHANGED Carries \/ Moves(x) \/ Drops(x)
  <2>1. CASE WriteMessage(x)
    <3>1. x \notin Streams
      BY KindsAssumption
    <3> QED
      BY <2>1, <3>1 DEF WriteMessage, Moves
  <2>2. CASE WriteFails(x)
    <3>1. writer'[x] = "done" /\ reader' = reader /\ \A y \in Sockets \ {x} : writer'[y] = writer[y]
      BY <2>2 DEF WriteFails, TypeOK
    <3>2. ~Served(x)' /\ \A y \in Members : Served(y)' => Served(y)
      BY <3>1 DEF Served
    <3> QED
      BY <2>2, <3>2 DEF WriteFails, Drops
  <2>3. CASE PingFails(x) \/ WriterStops(x) \/ \E f \in SUBSET EventTags : SetFilter(x, f)
    BY <2>3 DEF PingFails, WriterStops, SetFilter
  <2> QED
    BY <1>2, <2>1, <2>2, <2>3 DEF SocketStep
<1>3. ASSUME NEW x \in Streams, StreamTakes(x) PROVE Moves(x) \/ Drops(x)
  <2>1. CASE seen' = seen
    <3>1. \/ missed' = missed \cup {x} /\ reader' = reader
          \/ missed' = missed /\ reader' = [reader EXCEPT ![x] = "unregistering"]
      BY <1>3, <2>1 DEF StreamTakes, TypeOK
    <3>2. (x \in missed' \/ ~Served(x)') /\ missed \subseteq missed'
      BY <3>1 DEF Served, TypeOK, Members
    <3>3. writer' = writer
      BY <1>3 DEF StreamTakes
    <3>4. \A y \in Members : Served(y)' => Served(y)
      BY <3>1, <3>3 DEF Served, TypeOK, Members
    <3> QED
      BY <1>3, <2>1, <3>2, <3>4 DEF StreamTakes, Drops
  <2>2. CASE seen' # seen
    BY <1>3, <2>2 DEF StreamTakes, Moves
  <2> QED
    BY <2>1, <2>2
<1>4. ASSUME NEW x \in Members, HubOffer(x) PROVE Adds(x) \/ Withholds(x)
  <2>1. offering' = [msg |-> offering.msg, to |-> offering.to \ {x}]
    BY <1>4 DEF HubOffer, TypeOK
  <2> QED
    BY <1>4, <2>1 DEF HubOffer, Adds, Withholds
<1>5. CASE UNCHANGED vars
  BY <1>5 DEF vars
<1> QED
  BY <1>1, <1>2, <1>3, <1>4, <1>5 DEF Next, Run, Members

\* The channels after each kind of step, member by member.
LEMMA MovesShape ==
  ASSUME TypeOK, NEW x \in Members, Moves(x), NEW y \in Members
  PROVE  IF y = x
         THEN /\ queue[x] \in Seq(Message) /\ seen[x] \in Seq(Message)
              /\ Len(queue'[x]) = Len(queue[x]) - 1 /\ Len(queue[x]) \in Nat \ {0}
              /\ Len(seen'[x]) = Len(seen[x]) + 1 /\ Len(seen[x]) \in Nat
              /\ \A i \in 1..Len(queue'[x]) : i + 1 \in 1..Len(queue[x]) /\ queue'[x][i] = queue[x][i + 1]
              /\ \A i \in 1..Len(seen[x]) : seen'[x][i] = seen[x][i]
              /\ seen'[x][Len(seen[x]) + 1] = queue[x][1]
              /\ 1 \in 1..Len(queue[x])
         ELSE queue'[y] = queue[y] /\ seen'[y] = seen[y]
<1>1. queue[x] \in Seq(Message) /\ seen[x] \in Seq(Message) /\ queue[x] # <<>>
  BY DEF TypeOK, Moves
<1>2. Head(queue[x]) = queue[x][1] /\ Head(queue[x]) \in Message
  BY <1>1
<1>3. CASE y = x
  <2>1. queue'[x] = Tail(queue[x]) /\ seen'[x] = Append(seen[x], Head(queue[x]))
    BY DEF Moves, TypeOK
  <2> QED
    BY <1>1, <1>2, <1>3, <2>1, TailFacts
<1>4. CASE y # x
  BY <1>4 DEF Moves, TypeOK
<1> QED
  BY <1>3, <1>4

LEMMA DropsShape ==
  ASSUME TypeOK, NEW x \in Members, Drops(x), NEW y \in Members
  PROVE  IF y = x
         THEN /\ queue[x] \in Seq(Message) /\ Len(queue[x]) \in Nat \ {0}
              /\ Len(queue'[x]) = Len(queue[x]) - 1
              /\ \A i \in 1..Len(queue'[x]) : i + 1 \in 1..Len(queue[x]) /\ queue'[x][i] = queue[x][i + 1]
         ELSE queue'[y] = queue[y]
<1>1. queue[x] \in Seq(Message) /\ queue[x] # <<>>
  BY DEF TypeOK, Drops
<1>2. CASE y = x
  <2>1. queue'[x] = Tail(queue[x])
    BY DEF Drops, TypeOK
  <2> QED
    BY <1>1, <1>2, <2>1, TailFacts
<1>3. CASE y # x
  BY <1>3 DEF Drops, TypeOK
<1> QED
  BY <1>2, <1>3

LEMMA AddsShape ==
  ASSUME TypeOK, NEW x \in Members, Adds(x), NEW y \in Members
  PROVE  IF y = x
         THEN /\ queue[x] \in Seq(Message) /\ Len(queue[x]) \in Nat
              /\ Len(queue'[x]) = Len(queue[x]) + 1
              /\ \A i \in 1..Len(queue[x]) : queue'[x][i] = queue[x][i]
              /\ queue'[x][Len(queue[x]) + 1] = offering.msg
              /\ offering.msg \in Message
         ELSE queue'[y] = queue[y]
<1>1. queue[x] \in Seq(Message) /\ offering.msg \in Message
  BY DEF TypeOK, Adds
<1>2. CASE y = x
  <2>1. queue'[x] = Append(queue[x], offering.msg)
    BY DEF Adds, TypeOK
  <2> QED
    BY <1>1, <1>2, <2>1
<1>3. CASE y # x
  BY <1>3 DEF Adds, TypeOK
<1> QED
  BY <1>2, <1>3

\* Numbers are numbers.
LEMMA NumberTypes ==
  ASSUME TypeOK
  PROVE  /\ \A m \in Message : m.n \in Nat
         /\ accepted \in Nat /\ Len(broadcast) \in Nat /\ Taken \in Int
         /\ \A x \in Members :
               /\ Reach(x) \in Int /\ filterSince[x] \in Nat
               /\ Len(queue[x]) \in Nat /\ Len(seen[x]) \in Nat
               /\ \A i \in 1..Len(queue[x]) : queue[x][i] \in Message
               /\ \A i \in 1..Len(seen[x]) : seen[x][i] \in Message
         /\ \A i \in 1..Len(broadcast) : broadcast[i] \in Message
<1>1. \A m \in Message : m.n \in Nat
  BY BoundAssumption DEF Message
<1>2. accepted \in Nat /\ Len(broadcast) \in Nat /\ Taken \in Int
  BY BoundAssumption DEF TypeOK, Taken
<1>3. ASSUME NEW x \in Members
      PROVE  /\ Reach(x) \in Int /\ filterSince[x] \in Nat
             /\ Len(queue[x]) \in Nat /\ Len(seen[x]) \in Nat
             /\ \A i \in 1..Len(queue[x]) : queue[x][i] \in Message
             /\ \A i \in 1..Len(seen[x]) : seen[x][i] \in Message
  <2>1. queue[x] \in Seq(Message) /\ seen[x] \in Seq(Message) /\ filterSince[x] \in Nat
    BY BoundAssumption DEF TypeOK
  <2> QED
    BY <1>2, <2>1 DEF Reach
<1>4. \A i \in 1..Len(broadcast) : broadcast[i] \in Message
  BY DEF TypeOK
<1> QED
  BY <1>1, <1>2, <1>3, <1>4

\* How far the steps get: nobody's reach ever shrinks.
LEMMA ReachStep ==
  ASSUME TypeOK, TypeOK', MemberInv, OrderInv
  PROVE  /\ UNCHANGED Carries => Taken' = Taken /\ \A y \in Members : Reach(y)' = Reach(y)
         /\ \A tag \in EventTags \cup NoteTags : Broadcast(tag) =>
               Taken' = Taken /\ \A y \in Members : Reach(y)' = Reach(y)
         /\ HubTake => /\ Taken' = Taken + 1
                       /\ \A y \in Members :
                             Reach(y)' = IF y \in members THEN Reach(y) ELSE Reach(y) + 1
         /\ \A x \in Members : Moves(x) \/ Drops(x) =>
               Taken' = Taken /\ \A y \in Members : Reach(y)' = Reach(y)
         /\ \A x \in Members : Adds(x) \/ Withholds(x) =>
               /\ Taken' = Taken /\ Reach(x) = Taken - 1
               /\ \A y \in Members : Reach(y)' = IF y = x THEN Reach(y) + 1 ELSE Reach(y)
<1> USE DEF Taken, Reach
<1>0. accepted \in Int /\ Len(broadcast) \in Int
  BY NumberTypes
<1>1. ASSUME UNCHANGED Carries PROVE Taken' = Taken /\ \A y \in Members : Reach(y)' = Reach(y)
  BY <1>1 DEF Carries
<1>2. ASSUME NEW tag \in EventTags \cup NoteTags, Broadcast(tag)
      PROVE  Taken' = Taken /\ \A y \in Members : Reach(y)' = Reach(y)
  <2>1. /\ accepted' = accepted + 1 /\ offering' = offering
        /\ Len(broadcast') = Len(broadcast) + 1
    BY <1>2 DEF Broadcast, TypeOK
  <2> QED
    BY <1>0, <2>1
<1>3. ASSUME HubTake
      PROVE  /\ Taken' = Taken + 1
             /\ \A y \in Members : Reach(y)' = IF y \in members THEN Reach(y) ELSE Reach(y) + 1
  <2>1. /\ broadcast # <<>> /\ broadcast \in Seq(Message) /\ broadcast' = Tail(broadcast)
        /\ offering'.to = members /\ accepted' = accepted /\ offering.to = {}
    BY <1>3 DEF HubTake, Idle, TypeOK
  <2>2. Len(broadcast') = Len(broadcast) - 1
    BY <2>1, TailFacts
  <2> QED
    BY <1>0, <2>1, <2>2
<1>4. ASSUME NEW x \in Members, Moves(x) \/ Drops(x)
      PROVE  Taken' = Taken /\ \A y \in Members : Reach(y)' = Reach(y)
  BY <1>4 DEF Moves, Drops, hubVars
<1>5. ASSUME NEW x \in Members, Adds(x) \/ Withholds(x)
      PROVE  /\ Taken' = Taken /\ Reach(x) = Taken - 1
             /\ \A y \in Members : Reach(y)' = IF y = x THEN Reach(y) + 1 ELSE Reach(y)
  <2>1. /\ x \in offering.to /\ offering'.to = offering.to \ {x}
        /\ UNCHANGED <<broadcast, accepted>>
    BY <1>5 DEF Adds, Withholds
  <2> QED
    BY <1>0, <2>1
<1> HIDE DEF Taken, Reach
<1> QED
  BY <1>1, <1>2, <1>3, <1>4, <1>5

LEMMA OrderStep == TypeOK /\ TypeOK' /\ MemberInv /\ OrderInv /\ [Next]_vars => OrderInv'
<1> SUFFICES ASSUME TypeOK, TypeOK', MemberInv, OrderInv, [Next]_vars PROVE OrderInv'
  OBVIOUS
<1>1. CASE UNCHANGED Carries
  <2>1. Taken' = Taken /\ \A y \in Members : Reach(y)' = Reach(y)
    BY <1>1, ReachStep
  <2> QED
    BY <1>1, <2>1 DEF Carries, OrderInv, OrderOf
<1>2. ASSUME NEW tag \in EventTags \cup NoteTags, Broadcast(tag) PROVE OrderInv'
  <2>1. /\ Len(broadcast') = Len(broadcast) + 1
        /\ \A i \in 1..Len(broadcast) : broadcast'[i] = broadcast[i]
        /\ broadcast'[Len(broadcast) + 1].n = accepted + 1
        /\ UNCHANGED <<offering, queue, seen>>
    BY <1>2 DEF Broadcast, TypeOK
  <2>2. Taken' = Taken /\ \A y \in Members : Reach(y)' = Reach(y)
    BY <1>2, ReachStep
  <2>3. accepted \in Nat /\ Len(broadcast) \in Nat /\ Taken = accepted - Len(broadcast)
    BY NumberTypes DEF Taken
  <2>4. \A i \in 1..Len(broadcast') : broadcast'[i].n = Taken' + i
    <3> SUFFICES ASSUME NEW i \in 1..Len(broadcast') PROVE broadcast'[i].n = Taken' + i
      OBVIOUS
    <3>1. CASE i = Len(broadcast) + 1
      BY <2>1, <2>2, <2>3, <3>1
    <3>2. CASE i # Len(broadcast) + 1
      <4>1. i \in 1..Len(broadcast)
        BY <2>1, <2>3, <3>2
      <4> QED
        BY <2>1, <2>2, <4>1 DEF OrderInv
    <3> QED
      BY <3>1, <3>2
  <2>5. ASSUME NEW y \in Members PROVE OrderOf(y)'
    <3>1. OrderOf(y)
      BY DEF OrderInv
    <3> QED
      BY <2>1, <2>2, <3>1 DEF OrderOf
  <2>6. offering'.to # {} => offering'.msg.n = Taken'
    BY <2>1, <2>2 DEF OrderInv
  <2> QED
    BY <2>4, <2>5, <2>6 DEF OrderInv
<1>3. CASE HubTake
  <2>1. /\ broadcast # <<>> /\ broadcast \in Seq(Message)
        /\ broadcast' = Tail(broadcast) /\ offering' = [msg |-> Head(broadcast), to |-> members]
        /\ UNCHANGED <<accepted, queue, seen>>
    BY <1>3 DEF HubTake, TypeOK
  <2>2. /\ Taken' = Taken + 1 /\ Taken \in Int
        /\ \A y \in Members : Reach(y)' = IF y \in members THEN Reach(y) ELSE Reach(y) + 1
    BY <1>3, ReachStep, NumberTypes
  <2>3. offering'.msg.n = Taken'
    BY <2>1, <2>2, TailFacts DEF OrderInv
  <2>4. \A i \in 1..Len(broadcast') : broadcast'[i].n = Taken' + i
    BY <2>1, <2>2, TailFacts DEF OrderInv
  <2>5. ASSUME NEW y \in Members PROVE OrderOf(y)'
    <3>1. OrderOf(y) /\ Reach(y) \in Int /\ Reach(y)' \in {Reach(y), Reach(y) + 1}
      BY <2>2, NumberTypes DEF OrderInv
    <3>2. /\ \A i \in 1..Len(queue[y]) : queue[y][i].n \in Int
          /\ \A i \in 1..Len(seen[y]) : seen[y][i].n \in Int
      BY NumberTypes
    <3> QED
      BY <2>1, <3>1, <3>2 DEF OrderOf
  <2> QED
    BY <2>3, <2>4, <2>5 DEF OrderInv
<1>4. ASSUME NEW x \in Members, Moves(x) \/ Drops(x) PROVE OrderInv'
  <2>1. UNCHANGED <<broadcast, offering>>
    BY <1>4 DEF Moves, Drops, hubVars
  <2>2. Taken' = Taken /\ \A y \in Members : Reach(y)' = Reach(y)
    BY <1>4, ReachStep
  <2>3. ASSUME NEW y \in Members PROVE OrderOf(y)'
    <3>1. OrderOf(y) /\ Reach(y)' = Reach(y) /\ Len(queue[y]) \in Nat /\ Len(seen[y]) \in Nat
      BY <2>2, NumberTypes DEF OrderInv
    <3>2. CASE Moves(x) /\ y = x
      <4>1. /\ Len(queue'[y]) = Len(queue[y]) - 1 /\ Len(queue[y]) \in Nat \ {0}
            /\ Len(seen'[y]) = Len(seen[y]) + 1
            /\ \A i \in 1..Len(queue'[y]) : i + 1 \in 1..Len(queue[y]) /\ queue'[y][i] = queue[y][i + 1]
            /\ \A i \in 1..Len(seen[y]) : seen'[y][i] = seen[y][i]
            /\ seen'[y][Len(seen[y]) + 1] = queue[y][1]
            /\ 1 \in 1..Len(queue[y])
        BY <3>2, MovesShape
      <4>2. \A i \in 1..Len(seen'[y]) :
               seen'[y][i] = queue[y][1] \/ \E j \in 1..Len(seen[y]) : seen'[y][i] = seen[y][j]
        BY <3>1, <4>1
      <4>3. /\ \A i \in 1..Len(queue'[y]) : queue'[y][i].n <= Reach(y)
            /\ \A i, j \in 1..Len(queue'[y]) : i < j => queue'[y][i].n < queue'[y][j].n
        <5>1. ASSUME NEW i \in 1..Len(queue'[y]) PROVE queue'[y][i].n <= Reach(y)
          BY <3>1, <4>1 DEF OrderOf
        <5>2. ASSUME NEW i \in 1..Len(queue'[y]), NEW j \in 1..Len(queue'[y]), i < j
              PROVE  queue'[y][i].n < queue'[y][j].n
          <6>1. i + 1 \in 1..Len(queue[y]) /\ j + 1 \in 1..Len(queue[y]) /\ i + 1 < j + 1
            BY <4>1, <5>2
          <6> QED
            BY <3>1, <4>1, <6>1 DEF OrderOf
        <5> QED
          BY <5>1, <5>2
      <4>4. ASSUME NEW i \in 1..Len(seen'[y])
            PROVE  /\ seen'[y][i].n <= Reach(y)
                   /\ \A j \in 1..Len(queue'[y]) : seen'[y][i].n < queue'[y][j].n
        <5>1. CASE seen'[y][i] = queue[y][1]
          <6>1. \A j \in 1..Len(queue'[y]) : 1 < j + 1
            OBVIOUS
          <6> QED
            BY <3>1, <4>1, <5>1, <6>1 DEF OrderOf
        <5>2. ASSUME NEW k \in 1..Len(seen[y]), seen'[y][i] = seen[y][k]
              PROVE  /\ seen'[y][i].n <= Reach(y)
                     /\ \A j \in 1..Len(queue'[y]) : seen'[y][i].n < queue'[y][j].n
          BY <3>1, <4>1, <5>2 DEF OrderOf
        <5> QED
          BY <4>2, <5>1, <5>2
      <4> QED
        BY <3>1, <4>3, <4>4 DEF OrderOf
    <3>3. CASE Drops(x) /\ y = x
      <4>1. /\ Len(queue'[y]) = Len(queue[y]) - 1 /\ Len(queue[y]) \in Nat \ {0}
            /\ \A i \in 1..Len(queue'[y]) : i + 1 \in 1..Len(queue[y]) /\ queue'[y][i] = queue[y][i + 1]
        BY <3>3, DropsShape
      <4>2. seen' = seen
        BY <3>3 DEF Drops
      <4>3. ASSUME NEW i \in 1..Len(queue'[y]), NEW j \in 1..Len(queue'[y]), i < j
            PROVE  queue'[y][i].n < queue'[y][j].n
        <5>1. i + 1 \in 1..Len(queue[y]) /\ j + 1 \in 1..Len(queue[y]) /\ i + 1 < j + 1
          BY <4>1, <4>3
        <5> QED
          BY <3>1, <4>1, <5>1 DEF OrderOf
      <4> QED
        BY <3>1, <4>1, <4>2, <4>3 DEF OrderOf
    <3>4. CASE y # x
      <4>1. queue'[y] = queue[y] /\ seen'[y] = seen[y]
        BY <1>4, <3>4, MovesShape, DropsShape DEF Drops
      <4> QED
        BY <3>1, <4>1 DEF OrderOf
    <3> QED
      BY <1>4, <3>2, <3>3, <3>4
  <2> QED
    BY <2>1, <2>2, <2>3 DEF OrderInv
<1>5. ASSUME NEW x \in Members, Adds(x) \/ Withholds(x) PROVE OrderInv'
  <2>1. /\ broadcast' = broadcast /\ seen' = seen /\ x \in offering.to
        /\ offering' = [msg |-> offering.msg, to |-> offering.to \ {x}]
    BY <1>5 DEF Adds, Withholds
  <2>2. /\ Taken' = Taken /\ Reach(x) = Taken - 1 /\ Taken \in Int
        /\ \A y \in Members : Reach(y)' = IF y = x THEN Reach(y) + 1 ELSE Reach(y)
    BY <1>5, ReachStep, NumberTypes
  <2>3. ASSUME NEW y \in Members PROVE OrderOf(y)'
    <3>1. /\ OrderOf(y) /\ Len(queue[y]) \in Nat /\ Reach(y) \in Int
          /\ \A i \in 1..Len(queue[y]) : queue[y][i].n \in Int
          /\ \A i \in 1..Len(seen[y]) : seen[y][i].n \in Int
      BY NumberTypes DEF OrderInv
    <3>2. CASE Adds(x) /\ y = x
      <4>1. /\ Len(queue'[y]) = Len(queue[y]) + 1
            /\ \A i \in 1..Len(queue[y]) : queue'[y][i] = queue[y][i]
            /\ queue'[y][Len(queue[y]) + 1] = offering.msg
        BY <3>2, AddsShape
      <4>2. offering.msg.n = Reach(y) + 1 /\ Reach(y)' = Reach(y) + 1
        BY <2>1, <2>2, <3>2 DEF OrderInv
      <4>3. \A i \in 1..Len(queue'[y]) : i \in 1..Len(queue[y]) \/ i = Len(queue[y]) + 1
        BY <3>1, <4>1
      <4>4. ASSUME NEW i \in 1..Len(queue'[y])
            PROVE  /\ queue'[y][i].n <= Reach(y) + 1
                   /\ \A j \in 1..Len(queue'[y]) : i < j => queue'[y][i].n < queue'[y][j].n
                   /\ \A j \in 1..Len(seen[y]) : seen[y][j].n < queue'[y][i].n
        <5>1. CASE i \in 1..Len(queue[y])
          <6>1. queue'[y][i] = queue[y][i] /\ queue[y][i].n <= Reach(y) /\ queue[y][i].n \in Int
            BY <3>1, <4>1, <5>1 DEF OrderOf
          <6>2. ASSUME NEW j \in 1..Len(queue'[y]), i < j PROVE queue'[y][i].n < queue'[y][j].n
            <7>1. CASE j \in 1..Len(queue[y])
              BY <3>1, <4>1, <5>1, <6>2, <7>1 DEF OrderOf
            <7>2. CASE j = Len(queue[y]) + 1
              BY <3>1, <4>1, <4>2, <6>1, <7>2, SMTT(60)
            <7> QED
              BY <4>3, <7>1, <7>2
          <6> QED
            BY <3>1, <5>1, <6>1, <6>2 DEF OrderOf
        <5>2. CASE i = Len(queue[y]) + 1
          BY <3>1, <4>1, <4>2, <5>2, SMTT(60) DEF OrderOf
        <5> QED
          BY <4>3, <5>1, <5>2
      <4>5. \A i \in 1..Len(seen[y]) : seen[y][i].n <= Reach(y) + 1
        BY <3>1 DEF OrderOf
      <4> QED
        BY <2>1, <4>2, <4>4, <4>5 DEF OrderOf
    <3>3. CASE Withholds(x) \/ y # x
      <4>1. queue'[y] = queue[y]
        BY <1>5, <3>3, AddsShape DEF Withholds
      <4>2. Reach(y)' \in {Reach(y), Reach(y) + 1}
        BY <2>2
      <4> QED
        BY <2>1, <3>1, <4>1, <4>2 DEF OrderOf
    <3> QED
      BY <1>5, <3>2, <3>3
  <2> QED
    BY <2>1, <2>2, <2>3 DEF OrderInv
<1> QED
  BY <1>1, <1>2, <1>3, <1>4, <1>5, Carried

-----------------------------------------------------------------------------
(* Filters                                                                 *)

LEMMA FilterStep ==
  TypeOK /\ TypeOK' /\ MemberInv /\ OrderInv /\ FilterInv /\ [Next]_vars => FilterInv'
<1> SUFFICES ASSUME TypeOK, TypeOK', MemberInv, OrderInv, FilterInv, [Next]_vars PROVE FilterInv'
  OBVIOUS
<1> DEFINE F(y) == /\ y \in Sockets => \A i \in 1..Len(queue[y]) : Passes(y, queue[y][i])
                   /\ \A i \in 1..Len(seen[y]) : Passes(y, seen[y][i])
<1>1. \A y \in Members : F(y)
  BY DEF FilterInv
<1>2. SUFFICES ASSUME NEW y \in Members PROVE F(y)'
  BY DEF FilterInv
<1>3. /\ F(y) /\ OrderOf(y) /\ Len(queue[y]) \in Nat /\ Len(seen[y]) \in Nat
      /\ Reach(y) \in Int /\ Taken \in Int /\ accepted \in Nat
      /\ Reach(y) <= Taken /\ Taken <= accepted
      /\ \A i \in 1..Len(queue[y]) : queue[y][i].n \in Nat
      /\ \A i \in 1..Len(seen[y]) : seen[y][i].n \in Nat
  <2>1. Reach(y) <= Taken /\ Taken <= accepted
    BY NumberTypes DEF Reach, Taken
  <2> QED
    BY <1>1, <2>1, NumberTypes DEF OrderInv
<1>4. ASSUME NEW x \in Members, NEW f \in SUBSET EventTags, Join(x, f) PROVE F(y)'
  <2>1. UNCHANGED <<queue, seen, filterSince>> /\ filter' = [filter EXCEPT ![x] = f]
    BY <1>4 DEF Join
  <2>2. CASE y = x
    <3>1. queue[y] = <<>> /\ seen[y] = <<>>
      BY <1>4, <2>2 DEF Join, MemberInv
    <3> QED
      BY <2>1, <3>1
  <2>3. CASE y # x
    <3>1. filter'[y] = filter[y]
      BY <2>1, <2>3 DEF TypeOK
    <3> QED
      BY <1>3, <2>1, <3>1 DEF Passes
  <2> QED
    BY <2>2, <2>3
<1>5. ASSUME NEW x \in Members, NEW f \in SUBSET EventTags, SetFilter(x, f) PROVE F(y)'
  <2>1. /\ UNCHANGED <<queue, seen>>
        /\ filter' = [filter EXCEPT ![x] = f] /\ filterSince' = [filterSince EXCEPT ![x] = accepted]
    BY <1>5 DEF SetFilter
  <2>2. CASE y = x
    <3>1. filterSince'[y] = accepted
      BY <2>1, <2>2 DEF TypeOK
    <3>2. /\ \A i \in 1..Len(queue[y]) : ~(queue[y][i].n > accepted)
          /\ \A i \in 1..Len(seen[y]) : ~(seen[y][i].n > accepted)
      BY <1>3, SMTT(60) DEF OrderOf
    <3> QED
      BY <2>1, <3>1, <3>2 DEF Passes
  <2>3. CASE y # x
    <3>1. filter'[y] = filter[y] /\ filterSince'[y] = filterSince[y]
      BY <2>1, <2>3 DEF TypeOK
    <3> QED
      BY <1>3, <2>1, <3>1 DEF Passes
  <2> QED
    BY <2>2, <2>3
<1>6. CASE UNCHANGED <<queue, seen, filter, filterSince>>
  BY <1>3, <1>6 DEF Passes
<1>7. ASSUME NEW x \in Members, Moves(x) PROVE F(y)'
  <2>1. UNCHANGED <<filter, filterSince>>
    BY <1>7 DEF Moves, filterVars
  <2>2. CASE y = x
    <3>1. /\ Len(queue'[y]) = Len(queue[y]) - 1 /\ Len(queue[y]) \in Nat \ {0}
          /\ Len(seen'[y]) = Len(seen[y]) + 1
          /\ \A i \in 1..Len(queue'[y]) : i + 1 \in 1..Len(queue[y]) /\ queue'[y][i] = queue[y][i + 1]
          /\ \A i \in 1..Len(seen[y]) : seen'[y][i] = seen[y][i]
          /\ seen'[y][Len(seen[y]) + 1] = queue[y][1]
          /\ 1 \in 1..Len(queue[y]) /\ queue[y] \in Seq(Message)
      BY <1>7, <2>2, MovesShape
    <3>2. Passes(y, queue[y][1])
      <4>1. CASE y \in Sockets
        BY <1>3, <3>1, <4>1
      <4>2. CASE y \in Streams
        <5>1. Head(queue[y]).tag \in filter[y] /\ Head(queue[y]) = queue[y][1]
          BY <1>7, <2>2, <3>1, <4>2 DEF Moves
        <5> QED
          BY <5>1 DEF Passes
      <4> QED
        BY <4>1, <4>2 DEF Members
    <3>3. \A m : Passes(y, m)' <=> Passes(y, m)
      BY <2>1 DEF Passes
    <3>4. ASSUME NEW i \in 1..Len(seen'[y]) PROVE Passes(y, seen'[y][i])
      <4>1. i \in 1..Len(seen[y]) \/ i = Len(seen[y]) + 1
        BY <1>3, <3>1
      <4> QED
        BY <1>3, <3>1, <3>2, <4>1
    <3>5. y \in Sockets => \A i \in 1..Len(queue'[y]) : Passes(y, queue'[y][i])
      BY <1>3, <3>1
    <3> QED
      BY <2>1, <3>4, <3>5 DEF Passes
  <2>3. CASE y # x
    <3>1. queue'[y] = queue[y] /\ seen'[y] = seen[y]
      BY <1>7, <2>3, MovesShape
    <3> QED
      BY <1>3, <2>1, <3>1 DEF Passes
  <2> QED
    BY <2>2, <2>3
<1>8. ASSUME NEW x \in Members, Drops(x) PROVE F(y)'
  <2>1. UNCHANGED <<filter, filterSince, seen>>
    BY <1>8 DEF Drops, filterVars
  <2>2. CASE y = x
    <3>1. \A i \in 1..Len(queue'[y]) : i + 1 \in 1..Len(queue[y]) /\ queue'[y][i] = queue[y][i + 1]
      BY <1>8, <2>2, DropsShape
    <3> QED
      BY <1>3, <2>1, <3>1 DEF Passes
  <2>3. CASE y # x
    <3>1. queue'[y] = queue[y]
      BY <1>8, <2>3, DropsShape
    <3> QED
      BY <1>3, <2>1, <3>1 DEF Passes
  <2> QED
    BY <2>2, <2>3
<1>9. ASSUME NEW x \in Members, Adds(x) PROVE F(y)'
  <2>1. UNCHANGED <<filter, filterSince, seen>>
    BY <1>9 DEF Adds, filterVars
  <2>2. CASE y = x
    <3>1. /\ Len(queue'[y]) = Len(queue[y]) + 1
          /\ \A i \in 1..Len(queue[y]) : queue'[y][i] = queue[y][i]
          /\ queue'[y][Len(queue[y]) + 1] = offering.msg
      BY <1>9, <2>2, AddsShape
    <3>2. y \in Sockets => Passes(y, offering.msg)
      BY <1>9, <2>2, KindsAssumption DEF Adds, Allows, Passes
    <3>3. \A i \in 1..Len(queue'[y]) : i \in 1..Len(queue[y]) \/ i = Len(queue[y]) + 1
      BY <1>3, <3>1
    <3>4. y \in Sockets => \A i \in 1..Len(queue'[y]) : Passes(y, queue'[y][i])
      BY <1>3, <3>1, <3>2, <3>3
    <3> QED
      BY <1>3, <2>1, <3>4 DEF Passes
  <2>3. CASE y # x
    <3>1. queue'[y] = queue[y]
      BY <1>9, <2>3, AddsShape
    <3> QED
      BY <1>3, <2>1, <3>1 DEF Passes
  <2> QED
    BY <2>2, <2>3
<1>10. \/ \E x \in Members, f \in SUBSET EventTags : Join(x, f) \/ SetFilter(x, f)
       \/ UNCHANGED <<queue, seen, filter, filterSince>>
       \/ \E x \in Members : Moves(x) \/ Drops(x) \/ Adds(x)
  <2>1. ASSUME NEW x \in Members,
               PeerLeaves(x) \/ ReadFails(x) \/ CloseConn(x) \/ HubRegister(x) \/ HubUnregister(x)
               \/ PingFails(x) \/ WriterStops(x)
        PROVE  UNCHANGED <<queue, seen, filter, filterSince>>
    BY <2>1 DEF PeerLeaves, ReadFails, CloseConn, HubRegister, HubUnregister, PingFails, WriterStops, filterVars
  <2>2. CASE HubTake \/ (\E tag \in EventTags \cup NoteTags : Broadcast(tag)) \/ UNCHANGED vars
    BY <2>2 DEF HubTake, Broadcast, vars, filterVars
  <2>3. ASSUME NEW x \in Members, WriteMessage(x) \/ WriteFails(x) \/ HubOffer(x) \/ StreamTakes(x)
        PROVE  UNCHANGED <<filter, filterSince>>
    BY <2>3 DEF WriteMessage, WriteFails, HubOffer, StreamTakes, filterVars
  <2>4. CASE UNCHANGED Carries
    <3>1. CASE \E x \in Members :
                  WriteMessage(x) \/ WriteFails(x) \/ HubOffer(x) \/ StreamTakes(x)
      BY <2>3, <2>4, <3>1 DEF Carries
    <3> QED
      BY <2>1, <2>2, <3>1 DEF Next, Run, MemberStep, SocketStep, Members
  <2>5. CASE \E x \in Members : Withholds(x)
    BY <2>5 DEF Withholds, filterVars
  <2> QED
    BY <2>2, <2>4, <2>5, Carried
<1> QED
  BY <1>4, <1>5, <1>6, <1>7, <1>8, <1>9, <1>10

-----------------------------------------------------------------------------
(* Gaps                                                                    *)

\* Whoever is served was served before, or has just been registered.
LEMMA ServedStep ==
  ASSUME TypeOK, [Next]_vars, NEW y \in Members, Served(y)'
  PROVE  Served(y) \/ HubRegister(y)
<1> USE DEF Served, connVars
<1>1. ASSUME NEW x \in Members, NEW f \in SUBSET EventTags, Join(x, f) PROVE Served(y)
  BY <1>1 DEF Join, TypeOK
<1>2. ASSUME NEW x \in Members, ReadFails(x) \/ CloseConn(x) \/ HubUnregister(x) PROVE Served(y)
  BY <1>2 DEF ReadFails, CloseConn, HubUnregister, TypeOK
<1>3. ASSUME NEW x \in Members, PeerLeaves(x) \/ WriteMessage(x) \/ HubOffer(x) PROVE Served(y)
  BY <1>3 DEF PeerLeaves, WriteMessage, HubOffer
<1>4. ASSUME NEW x \in Members, NEW f \in SUBSET EventTags, SetFilter(x, f) PROVE Served(y)
  BY <1>4 DEF SetFilter
<1>5. ASSUME NEW x \in Sockets, WriteFails(x) \/ PingFails(x) \/ WriterStops(x) PROVE Served(y)
  BY <1>5 DEF WriteFails, PingFails, WriterStops, TypeOK
<1>6. ASSUME NEW x \in Streams, StreamTakes(x) PROVE Served(y)
  <2>1. writer' = writer /\ (reader' = reader \/ reader' = [reader EXCEPT ![x] = "unregistering"])
    BY <1>6 DEF StreamTakes
  <2> QED
    BY <2>1 DEF TypeOK, Members
<1>7. ASSUME NEW x \in Members, HubRegister(x), x # y PROVE Served(y)
  <2>1. reader'[y] = reader[y] /\ (y \in Sockets => writer'[y] = writer[y])
    BY <1>7 DEF HubRegister, TypeOK
  <2> QED
    BY <2>1
<1>8. CASE HubTake \/ (\E tag \in EventTags \cup NoteTags : Broadcast(tag)) \/ UNCHANGED vars
  BY <1>8 DEF HubTake, Broadcast, vars
<1> QED
  BY <1>1, <1>2, <1>3, <1>4, <1>5, <1>6, <1>7, <1>8 DEF Next, MemberStep, SocketStep, Run, Members

LEMMA GapStep ==
  TypeOK /\ TypeOK' /\ MemberInv /\ OrderInv /\ GapInv /\ [Next]_vars => GapInv'
<1> SUFFICES ASSUME TypeOK, TypeOK', MemberInv, OrderInv, GapInv, [Next]_vars,
                    NEW y \in Members, y \notin missed', Served(y)'
             PROVE  GapOf(y)'
  BY DEF GapInv
<1>1. CASE HubRegister(y)
  <2>1. queue'[y] = <<>> /\ seen'[y] = <<>>
    BY <1>1 DEF HubRegister, MemberInv
  <2> QED
    BY <2>1 DEF GapOf
<1>2. CASE ~HubRegister(y)
  <2>1. Served(y) /\ y \in members
    BY <1>2, ServedStep DEF MemberInv, Served
  <2>2. y \notin missed
    <3>1. missed \subseteq missed'
      BY Carried DEF Carries, Broadcast, HubTake, Moves, Drops, Adds, Withholds
    <3> QED
      BY <3>1
  <2>3. /\ GapOf(y) /\ Len(queue[y]) \in Nat /\ Len(seen[y]) \in Nat /\ Reach(y) \in Int
    BY <2>1, <2>2, NumberTypes DEF GapInv
  <2>4. CASE UNCHANGED <<queue, seen>> /\ Reach(y)' = Reach(y)
    BY <2>3, <2>4 DEF GapOf
  <2>5. CASE UNCHANGED Carries \/ HubTake \/ \E tag \in EventTags \cup NoteTags : Broadcast(tag)
    <3>1. Reach(y)' = Reach(y)
      BY <2>1, <2>5, ReachStep
    <3>2. UNCHANGED <<queue, seen>>
      BY <2>5 DEF Carries, HubTake, Broadcast
    <3> QED
      BY <2>4, <3>1, <3>2
  <2>6. ASSUME NEW x \in Members, Moves(x) PROVE GapOf(y)'
    <3>1. Reach(y)' = Reach(y)
      BY <2>6, ReachStep
    <3>2. CASE y = x
      <4>1. /\ Len(queue'[y]) = Len(queue[y]) - 1 /\ Len(queue[y]) \in Nat \ {0}
            /\ Len(seen'[y]) = Len(seen[y]) + 1
            /\ \A i \in 1..Len(queue'[y]) : i + 1 \in 1..Len(queue[y]) /\ queue'[y][i] = queue[y][i + 1]
            /\ \A i \in 1..Len(seen[y]) : seen'[y][i] = seen[y][i]
            /\ seen'[y][Len(seen[y]) + 1] = queue[y][1]
            /\ 1 \in 1..Len(queue[y])
        BY <2>6, <3>2, MovesShape
      <4>2. ASSUME NEW i \in 1..Len(queue'[y]) PROVE queue'[y][i].n = Reach(y)' - Len(queue'[y]) + i
        <5>1. i + 1 \in 1..Len(queue[y]) /\ queue'[y][i] = queue[y][i + 1]
          BY <4>1
        <5>2. queue[y][i + 1].n = Reach(y) - Len(queue[y]) + (i + 1)
          BY <2>3, <5>1 DEF GapOf
        <5> QED
          BY <2>3, <3>1, <4>1, <5>1, <5>2, SMTT(60)
      <4>3. ASSUME NEW i \in 1..Len(seen'[y])
            PROVE  seen'[y][i].n = Reach(y)' - Len(queue'[y]) - Len(seen'[y]) + i
        <5>1. CASE i \in 1..Len(seen[y])
          <6>1. seen'[y][i].n = Reach(y) - Len(queue[y]) - Len(seen[y]) + i
            BY <2>3, <4>1, <5>1 DEF GapOf
          <6>2. Len(seen'[y]) = Len(seen[y]) + 1 /\ Len(queue'[y]) = Len(queue[y]) - 1
            BY <4>1
          <6> QED
            BY <2>3, <3>1, <6>1, <6>2
        <5>2. CASE i = Len(seen[y]) + 1
          <6>1. seen'[y][i].n = Reach(y) - Len(queue[y]) + 1
            BY <2>3, <4>1, <5>2 DEF GapOf
          <6>2. Len(seen'[y]) = Len(seen[y]) + 1 /\ Len(queue'[y]) = Len(queue[y]) - 1
            BY <4>1
          <6> QED
            BY <2>3, <3>1, <5>2, <6>1, <6>2
        <5> QED
          BY <2>3, <4>1, <5>1, <5>2
      <4> QED
        BY <4>2, <4>3 DEF GapOf
    <3>3. CASE y # x
      <4>1. queue'[y] = queue[y] /\ seen'[y] = seen[y]
        BY <2>6, <3>3, MovesShape
      <4> QED
        BY <2>3, <3>1, <4>1 DEF GapOf
    <3> QED
      BY <3>2, <3>3
  <2>7. ASSUME NEW x \in Members, Drops(x) PROVE GapOf(y)'
    <3>1. Reach(y)' = Reach(y) /\ seen' = seen
      BY <2>7, ReachStep DEF Drops
    <3>2. y # x
      BY <2>7 DEF Drops
    <3>3. queue'[y] = queue[y]
      BY <2>7, <3>2, DropsShape
    <3> QED
      BY <2>3, <3>1, <3>3 DEF GapOf
  <2>8. ASSUME NEW x \in Members, Adds(x) PROVE GapOf(y)'
    <3>1. /\ Reach(y)' = (IF y = x THEN Reach(y) + 1 ELSE Reach(y)) /\ seen' = seen
          /\ Taken \in Int /\ Reach(x) = Taken - 1
      BY <2>8, ReachStep, NumberTypes DEF Adds
    <3>2. CASE y = x
      <4>1. /\ Len(queue'[y]) = Len(queue[y]) + 1
            /\ \A i \in 1..Len(queue[y]) : queue'[y][i] = queue[y][i]
            /\ queue'[y][Len(queue[y]) + 1] = offering.msg
        BY <2>8, <3>2, AddsShape
      <4>2. offering.msg.n = Reach(y) + 1
        BY <2>8, <3>1, <3>2 DEF Adds, OrderInv
      <4>3. ASSUME NEW i \in 1..Len(queue'[y]) PROVE queue'[y][i].n = Reach(y)' - Len(queue'[y]) + i
        <5>1. CASE i \in 1..Len(queue[y])
          <6>1. queue'[y][i].n = Reach(y) - Len(queue[y]) + i
            BY <2>3, <4>1, <5>1 DEF GapOf
          <6>2. Len(queue'[y]) = Len(queue[y]) + 1
            BY <4>1
          <6>3. Reach(y)' = Reach(y) + 1
            BY <3>1, <3>2
          <6> QED
            BY <2>3, <5>1, <6>1, <6>2, <6>3, SMTT(60)
        <5>2. CASE i = Len(queue[y]) + 1
          BY <2>3, <3>1, <3>2, <4>1, <4>2, <5>2
        <5> QED
          BY <2>3, <4>1, <5>1, <5>2
      <4>4. ASSUME NEW i \in 1..Len(seen'[y])
            PROVE  seen'[y][i].n = Reach(y)' - Len(queue'[y]) - Len(seen'[y]) + i
        <5>1. i \in 1..Len(seen[y]) /\ seen'[y] = seen[y]
          BY <3>1
        <5>2. seen'[y][i].n = Reach(y) - Len(queue[y]) - Len(seen[y]) + i
          BY <2>3, <5>1 DEF GapOf
        <5>3. Len(queue'[y]) = Len(queue[y]) + 1
          BY <4>1
        <5>4. Reach(y)' = Reach(y) + 1
          BY <3>1, <3>2
        <5>5. Reach(y)' - Len(queue'[y]) - Len(seen'[y]) = Reach(y) - Len(queue[y]) - Len(seen[y])
          BY <2>3, <5>1, <5>3, <5>4
        <5> QED
          BY <5>2, <5>5
      <4> QED
        BY <4>3, <4>4 DEF GapOf
    <3>3. CASE y # x
      <4>1. queue'[y] = queue[y]
        BY <2>8, <3>3, AddsShape
      <4> QED
        BY <2>3, <3>1, <3>3, <4>1 DEF GapOf
    <3> QED
      BY <3>2, <3>3
  <2>9. ASSUME NEW x \in Members, Withholds(x) PROVE GapOf(y)'
    <3>1. y # x /\ UNCHANGED <<queue, seen>>
      BY <2>9 DEF Withholds
    <3>2. Reach(y)' = Reach(y)
      BY <2>9, <3>1, ReachStep
    <3> QED
      BY <2>4, <3>1, <3>2
  <2> QED
    BY <2>5, <2>6, <2>7, <2>8, <2>9, Carried
<1> QED
  BY <1>1, <1>2

-----------------------------------------------------------------------------
(* Theorems                                                                *)

LEMMA HubInvInit == Init => HubInv
<1> SUFFICES ASSUME Init PROVE HubInv
  OBVIOUS
<1>1. TypeOK
  BY TypeInit
<1>2. MemberInv
  BY DEF Init, MemberInv
<1>3. GaugeInv
  <2>1. members \cap Sockets = {} /\ gauge = 0
    BY DEF Init
  <2> QED
    BY <2>1, FS_EmptySet DEF GaugeInv
<1>4. OrderInv /\ FilterInv /\ GapInv
  <2>1. /\ Len(broadcast) = 0 /\ offering.to = {}
        /\ \A x \in Members : Len(queue[x]) = 0 /\ Len(seen[x]) = 0
    BY DEF Init
  <2> QED
    BY <2>1 DEF OrderInv, OrderOf, FilterInv, GapInv, GapOf
<1> QED
  BY <1>1, <1>2, <1>3, <1>4 DEF HubInv

LEMMA HubInvStep == HubInv /\ [Next]_vars => HubInv'
BY TypeStep, MembersStep, GaugeStep, OrderStep, FilterStep, GapStep DEF HubInv

LEMMA HubInvCorrect == Spec => []HubInv
BY HubInvInit, HubInvStep, PTL DEF Spec

\* Every state has its type: no channel outgrows its capacity.
THEOREM TypeCorrect == Spec => []TypeOK
<1>1. HubInv => TypeOK
  BY DEF HubInv
<1> QED
  BY <1>1, HubInvCorrect, PTL

\* Whatever the members do, the run loop sends on no closed channel and closes none
\* twice, and the gauge counts the clients in the map.
THEOREM MapCorrect == Spec => []MapInStep
<1>1. HubInv => MapInStep
  <2> SUFFICES ASSUME HubInv PROVE MapInStep
    OBVIOUS
  <2>1. closed \cap members = {}
    BY DEF HubInv, TypeOK, MemberInv
  <2> QED
    BY <2>1 DEF HubInv, MemberInv, GaugeInv, MapInStep
<1> QED
  BY <1>1, HubInvCorrect, PTL

\* What reaches a connection passes the filter in force, unless it was accepted before
\* the filter was set, for any filters and any moment they are set at.
THEOREM FilterCorrect == Spec => []FilterRespected
<1>1. HubInv => FilterRespected
  <2> SUFFICES ASSUME HubInv, NEW x \in Members, NEW i \in DOMAIN seen[x]
               PROVE  seen[x][i].n > filterSince[x] => seen[x][i].tag \in NoteTags \cup filter[x]
    BY DEF FilterRespected
  <2>1. i \in 1..Len(seen[x])
    BY DEF HubInv, TypeOK
  <2> QED
    BY <2>1 DEF HubInv, FilterInv, Passes
<1> QED
  BY <1>1, HubInvCorrect, PTL

\* A member that was never skipped has every message from its first to its latest.
THEOREM NoGapCorrect == Spec => []NoSilentGap
<1>1. HubInv => NoSilentGap
  <2> SUFFICES ASSUME HubInv, NEW x \in Members \ missed, Served(x)
               PROVE  LET feed == Numbers(seen[x] \o queue[x])
                          last == accepted - Len(broadcast) - (IF x \in offering.to THEN 1 ELSE 0)
                      IN  feed = [i \in 1..Len(feed) |-> last - Len(feed) + i]
    BY DEF NoSilentGap
  <2> DEFINE s == seen[x]
             q == queue[x]
             both == s \o q
             feed == Numbers(both)
             last == accepted - Len(broadcast) - (IF x \in offering.to THEN 1 ELSE 0)
  <2>1. /\ s \in Seq(Message) /\ q \in Seq(Message) /\ last = Reach(x) /\ Reach(x) \in Int
        /\ \A i \in 1..Len(q) : q[i].n = Reach(x) - Len(q) + i
        /\ \A i \in 1..Len(s) : s[i].n = Reach(x) - Len(q) - Len(s) + i
    <3>1. accepted \in Int /\ Len(broadcast) \in Int
      BY NumberTypes DEF HubInv
    <3> QED
      BY <3>1 DEF HubInv, TypeOK, GapInv, GapOf, Reach, Taken
  <2> HIDE DEF s, q, last
  <2>2. /\ DOMAIN both = 1..(Len(s) + Len(q)) /\ Len(s) \in Nat /\ Len(q) \in Nat
        /\ \A i \in 1..Len(s) : both[i] = s[i]
        /\ \A i \in 1..Len(q) : both[Len(s) + i] = q[i]
    BY <2>1
  <2> HIDE DEF both
  <2>3. \A i \in 1..(Len(s) + Len(q)) : both[i].n = Reach(x) - (Len(s) + Len(q)) + i
    <3> SUFFICES ASSUME NEW i \in 1..(Len(s) + Len(q))
                 PROVE  both[i].n = Reach(x) - (Len(s) + Len(q)) + i
      OBVIOUS
    <3>1. CASE i \in 1..Len(s)
      BY <2>1, <2>2, <3>1, SMTT(60)
    <3>2. CASE i \notin 1..Len(s)
      <4> DEFINE k == i - Len(s)
      <4>1. k \in 1..Len(q) /\ i = Len(s) + k
        BY <2>2, <3>2
      <4>2. q[k].n = Reach(x) - Len(q) + k
        BY <2>1, <4>1
      <4>3. both[i] = q[k]
        BY <2>2, <4>1
      <4> QED
        BY <2>1, <2>2, <4>1, <4>2, <4>3
    <3> QED
      BY <3>1, <3>2
  <2>4. feed = [i \in 1..(Len(s) + Len(q)) |-> Reach(x) - (Len(s) + Len(q)) + i]
    BY <2>2, <2>3 DEF Numbers
  <2>5. Len(feed) = Len(s) + Len(q)
    <3>1. feed \in [1..(Len(s) + Len(q)) -> Int] /\ Len(s) + Len(q) \in Nat
      BY <2>1, <2>2, <2>4
    <3> QED
      BY <3>1
  <2>6. feed = [i \in 1..Len(feed) |-> last - Len(feed) + i]
    BY <2>1, <2>4, <2>5
  <2> QED
    BY <2>6 DEF s, q, both, last
<1> QED
  BY <1>1, HubInvCorrect, PTL

-----------------------------------------------------------------------------
(* Refinement of Feed: a broadcast that is not dropped accepts a message,    *)
(* what a pump or a stream sends is seen, and every other step stutters.     *)

LEMMA MessageNumber == \A m \in Message : m.n \in Nat /\ m.n > 0
BY BoundAssumption DEF Message

LEMMA NumbersType ==
  ASSUME NEW s \in Seq(Message)
  PROVE  /\ Numbers(s) \in Seq(Nat) /\ Len(Numbers(s)) = Len(s)
         /\ \A i \in 1..Len(s) : Numbers(s)[i] = s[i].n
<1>1. \A i \in 1..Len(s) : s[i].n \in Nat
  BY MessageNumber
<1>2. Numbers(s) \in [1..Len(s) -> Nat] /\ Len(s) \in Nat
  BY <1>1 DEF Numbers
<1>3. Numbers(s) \in Seq(Nat) /\ Len(Numbers(s)) = Len(s)
  BY <1>2
<1> QED
  BY <1>3 DEF Numbers

LEMMA NumbersEmpty == Numbers(<<>>) = <<>>
<1>1. <<>> \in Seq(Message) /\ Len(<<>>) = 0
  OBVIOUS
<1>2. Numbers(<<>>) \in Seq(Nat) /\ Len(Numbers(<<>>)) = 0
  BY <1>1, NumbersType
<1> QED
  BY <1>2, EmptySeq

LEMMA NumbersAppend ==
  ASSUME NEW s \in Seq(Message), NEW m \in Message
  PROVE  Numbers(Append(s, m)) = Append(Numbers(s), m.n)
<1>1. Append(s, m) \in Seq(Message) /\ m.n \in Nat
  BY MessageNumber
<1> DEFINE a == Numbers(Append(s, m))
           b == Append(Numbers(s), m.n)
<1>2. /\ Len(Append(s, m)) = Len(s) + 1 /\ Len(s) \in Nat
      /\ \A i \in 1..Len(s) : Append(s, m)[i] = s[i]
      /\ Append(s, m)[Len(s) + 1] = m
  OBVIOUS
<1>3. /\ a \in Seq(Nat) /\ b \in Seq(Nat) /\ Len(a) = Len(s) + 1 /\ Len(b) = Len(s) + 1
      /\ \A i \in 1..Len(s) : b[i] = s[i].n
      /\ b[Len(s) + 1] = m.n
  <2>1. a \in Seq(Nat) /\ Len(a) = Len(s) + 1
    BY <1>1, <1>2, NumbersType
  <2>2. Numbers(s) \in Seq(Nat) /\ Len(Numbers(s)) = Len(s) /\ \A i \in 1..Len(s) : Numbers(s)[i] = s[i].n
    BY NumbersType
  <2> QED
    BY <1>1, <1>2, <2>1, <2>2
<1>4. ASSUME NEW i \in 1..Len(a) PROVE a[i] = b[i]
  <2>1. a[i] = Append(s, m)[i].n
    BY <1>1, <1>2, <1>3, NumbersType
  <2>2. CASE i \in 1..Len(s)
    BY <1>2, <1>3, <2>1, <2>2
  <2>3. CASE i = Len(s) + 1
    BY <1>2, <1>3, <2>1, <2>3
  <2> QED
    BY <1>2, <1>3, <2>2, <2>3
<1> HIDE DEF a, b
<1>5. a = b
  BY <1>3, <1>4, SeqEqual
<1> QED
  BY <1>5 DEF a, b

LEMMA FeedStep == HubInv /\ [Next]_vars => [LossyFeed!Next]_(LossyFeed!vars)
<1> SUFFICES ASSUME HubInv, [Next]_vars PROVE [LossyFeed!Next]_(LossyFeed!vars)
  OBVIOUS
<1> DEFINE shown == [x \in Members |-> Numbers(seen[x])]
<1> USE DEF HubInv
<1>1. CASE UNCHANGED <<accepted, seen>>
  BY <1>1 DEF LossyFeed!vars
<1>2. ASSUME NEW tag \in EventTags \cup NoteTags, Broadcast(tag) PROVE LossyFeed!Accept
  <2>1. accepted' = accepted + 1 /\ seen' = seen
    BY <1>2 DEF Broadcast
  <2> QED
    BY <2>1 DEF LossyFeed!Accept
<1>3. ASSUME NEW x \in Members, Moves(x) PROVE LossyFeed!See(x)
  <2>1. /\ queue[x] \in Seq(Message) /\ queue[x] # <<>> /\ seen[x] \in Seq(Message)
        /\ accepted' = accepted
    BY <1>3 DEF Moves, TypeOK, hubVars
  <2> DEFINE m == Head(queue[x])
  <2>2. m \in Message /\ m = queue[x][1] /\ 1 \in 1..Len(queue[x]) /\ m.n \in Nat
    BY <2>1, TailFacts, MessageNumber
  <2>3. m.n <= accepted
    <3>1. m.n <= Reach(x)
      BY <2>2 DEF OrderInv, OrderOf
    <3>2. Reach(x) <= accepted /\ Reach(x) \in Int /\ accepted \in Int
      BY NumberTypes DEF Reach, Taken
    <3> QED
      BY <2>2, <3>1, <3>2
  <2>4. LossyFeed!Newest(x) \in Nat /\ LossyFeed!Newest(x) < m.n
    <3>1. shown[x] = Numbers(seen[x])
      OBVIOUS
    <3>2. CASE seen[x] = <<>>
      <4>1. Numbers(seen[x]) = <<>>
        BY <3>2, NumbersEmpty
      <4>2. m.n > 0
        BY <2>2, MessageNumber
      <4> QED
        BY <2>2, <3>1, <4>1, <4>2 DEF LossyFeed!Newest
    <3>3. CASE seen[x] # <<>>
      <4>1. Len(seen[x]) \in 1..Len(seen[x])
        BY <2>1, <3>3
      <4>2. shown[x] # <<>> /\ shown[x][Len(shown[x])] = seen[x][Len(seen[x])].n
        BY <2>1, <3>1, <3>3, <4>1, NumbersType
      <4>3. seen[x][Len(seen[x])].n < m.n /\ seen[x][Len(seen[x])].n \in Nat
        BY <2>2, <4>1, NumberTypes DEF OrderInv, OrderOf
      <4> QED
        BY <4>2, <4>3 DEF LossyFeed!Newest
    <3> QED
      BY <3>2, <3>3
  <2>5. shown' = [shown EXCEPT ![x] = Append(shown[x], m.n)]
    <3>1. \A y \in Members : seen'[y] = IF y = x THEN Append(seen[x], m) ELSE seen[y]
      BY <1>3 DEF Moves, TypeOK
    <3>2. Numbers(seen'[x]) = Append(Numbers(seen[x]), m.n)
      BY <2>1, <2>2, <3>1, NumbersAppend
    <3>3. \A y \in Members : Numbers(seen'[y]) = IF y = x THEN Append(Numbers(seen[x]), m.n) ELSE Numbers(seen[y])
      BY <3>1, <3>2
    <3> QED
      BY <3>3
  <2>6. m.n \in (LossyFeed!Newest(x) + 1)..accepted
    BY <2>2, <2>3, <2>4
  <2> HIDE DEF m
  <2> QED
    BY <2>1, <2>5, <2>6 DEF LossyFeed!See
<1>4. ASSUME NEW x \in Members, Drops(x) \/ Adds(x) \/ Withholds(x) PROVE UNCHANGED <<accepted, seen>>
  BY <1>4 DEF Drops, Adds, Withholds, hubVars
<1>5. CASE UNCHANGED Carries \/ HubTake
  BY <1>1, <1>5 DEF Carries, HubTake
<1> QED
  BY <1>1, <1>2, <1>3, <1>4, <1>5, Carried DEF LossyFeed!Next

\* The hub implements the lossy feed: nobody sees a message twice, out of order, or one
\* that was not sent, whatever queues overflow, filters change and connections break.
THEOREM FeedRefined == Spec => FeedSpec
<1>1. Init => LossyFeed!Init
  <2> SUFFICES ASSUME Init PROVE LossyFeed!Init
    OBVIOUS
  <2>1. accepted = 0 /\ \A x \in Members : seen[x] = <<>>
    BY DEF Init
  <2>2. Numbers(<<>>) = <<>>
    BY NumbersEmpty
  <2>3. [x \in Members |-> Numbers(seen[x])] = [x \in Members |-> <<>>]
    BY <2>1, <2>2
  <2> QED
    BY <2>1, <2>3 DEF LossyFeed!Init
<1> QED
  BY <1>1, FeedStep, HubInvCorrect, PTL DEF Spec, FeedSpec, LossyFeed!Spec
=============================================================================
