------------------------------ MODULE Demo_proofs ------------------------------
(***************************************************************************)
(* Proofs about Demo, for any scenarios, recordings and replays: Stop      *)
(* closes each channel once, a stopped replay sends at most the event it   *)
(* was about to, and every replay sends its script in order and whole.     *)
(***************************************************************************)
EXTENDS Demo, SequenceTheorems, TLAPS

\* A replay sends an event after its cancellation only if it was firing by then, and
\* looks at the channel before it fires again.
Lateness(r) ==
    \/ late[r] = 0
    \/ late[r] = 1 /\ run[r].pc \in {"waiting", "returning", "done"} /\ run[r].cancelled

\* What a replay has sent is the script up to its next item; it fires at an event, and
\* gives up uncancelled only where no event is left.
Sent(r) ==
    IF run[r] = Unused THEN out[r] = <<>>
    ELSE /\ run[r].next = Len(out[r]) + 1 /\ Len(out[r]) <= Len(run[r].script)
         /\ \A i \in 1..Len(out[r]) : out[r][i] = run[r].script[i]
         /\ run[r].pc = "firing" => run[r].next <= Len(run[r].script) /\ run[r].script[run[r].next] = "event"
         /\ run[r].pc \in {"returning", "done"} /\ ~run[r].cancelled => Over(r)

\* A recording that was started has a name.
Named == rec.state = "recording" => rec.name \in Names

DemoInv ==
    TypeOK /\ ListedIsOpen /\ Named /\ (\A r \in Runs : Lateness(r)) /\ (\A r \in Runs : Sent(r))
--------------------------------------------------------------------------------
(* Types                                                                      *)

RunJob == [pc : {"waiting", "firing", "returning", "done"}, name : Names,
           script : Seq(Item), next : Nat, cancelled : BOOLEAN]

\* A started replay has a state, and a change of one component leaves the others.
LEMMA JobShape ==
  ASSUME TypeOK, NEW r \in Runs
  PROVE  /\ run[r] = Unused \/ run[r] \in RunJob
         /\ run[r] \in RunJob => run[r] # Unused /\ run[r].pc # "unused"
         /\ run[r].pc # "unused" => run[r] \in RunJob
<1>1. run[r] = Unused \/ run[r] \in RunJob
  BY DEF TypeOK, RunJob
<1>2. run[r] \in RunJob => run[r] # Unused /\ run[r].pc # "unused"
  BY DEF RunJob, Unused
<1>3. run[r] = Unused => run[r].pc = "unused"
  BY DEF Unused
<1> QED
  BY <1>1, <1>2, <1>3

Becomes(j, k, pc, next, cancelled) ==
    /\ k \in RunJob
    /\ k.pc = pc /\ k.name = j.name /\ k.script = j.script /\ k.next = next /\ k.cancelled = cancelled

LEMMA JobStep ==
  ASSUME NEW j \in RunJob
  PROVE  /\ \A pc \in {"waiting", "firing", "returning", "done"} :
               Becomes(j, [j EXCEPT !.pc = pc], pc, j.next, j.cancelled)
         /\ Becomes(j, [j EXCEPT !.next = @ + 1], j.pc, j.next + 1, j.cancelled)
         /\ Becomes(j, [j EXCEPT !.pc = "waiting", !.next = @ + 1], "waiting", j.next + 1, j.cancelled)
         /\ Becomes(j, [j EXCEPT !.cancelled = TRUE], j.pc, j.next, TRUE)
<1> DEFINE n == j.next + 1
<1>1. n \in Nat
  BY DEF RunJob
<1> HIDE DEF n
<1>2. \A pc \in {"waiting", "firing", "returning", "done"} :
         Becomes(j, [j EXCEPT !.pc = pc], pc, j.next, j.cancelled)
  BY DEF RunJob, Becomes
<1>3. Becomes(j, [j EXCEPT !.next = n], j.pc, n, j.cancelled)
  BY <1>1 DEF RunJob, Becomes
<1>4. Becomes(j, [j EXCEPT !.pc = "waiting", !.next = n], "waiting", n, j.cancelled)
  <2> DEFINE k == [j EXCEPT !.pc = "waiting"]
  <2>1. Becomes(j, k, "waiting", j.next, j.cancelled)
    BY <1>2
  <2> HIDE DEF k
  <2>2. Becomes(j, [k EXCEPT !.next = n], "waiting", n, j.cancelled)
    BY <1>1, <2>1 DEF RunJob, Becomes
  <2> QED
    BY <2>2 DEF k
<1>5. Becomes(j, [j EXCEPT !.cancelled = TRUE], j.pc, j.next, TRUE)
  BY DEF RunJob, Becomes
<1> QED
  BY <1>2, <1>3, <1>4, <1>5 DEF n

\* A step of one replay is seen in the others' terms as no step at all.
LEMMA OneRun ==
  ASSUME NEW r \in Runs, \A q \in Runs \ {r} : run'[q] = run[q] /\ out'[q] = out[q] /\ late'[q] = late[q],
         \A q \in Runs : Lateness(q) /\ Sent(q), Lateness(r)', Sent(r)'
  PROVE  /\ \A q \in Runs : Lateness(q)'
         /\ \A q \in Runs : Sent(q)'
BY SMTT(60) DEF Lateness, Sent, Over

\* The recorder's hook.
LEMMA RecordedType ==
  ASSUME TypeOK
  PROVE  Recorded \in [state : {"idle", "recording", "stopped"}, name : Names \cup {NoName}, count : 0..MaxRecorded]
<1> DEFINE Rec == [state : {"idle", "recording", "stopped"}, name : Names \cup {NoName}, count : 0..MaxRecorded]
<1>1. rec \in Rec
  BY DEF TypeOK
<1>2. rec.count < MaxRecorded => [rec EXCEPT !.count = @ + 1] \in Rec
  BY <1>1, MaxRecordedAssumption
<1> QED
  BY <1>1, <1>2 DEF Recorded

LEMMA NameKept ==
  ASSUME Named, rec \in [state : {"idle", "recording", "stopped"}, name : Names \cup {NoName}, count : 0..MaxRecorded],
         rec' = Recorded
  PROVE  Named'
BY DEF Named, Recorded

LEMMA DemoInit == Init => DemoInv
<1> SUFFICES ASSUME Init PROVE DemoInv
  OBVIOUS
<1>1. /\ scenarios = [n \in Builtin |-> Script(n)] /\ running = [n \in Names |-> NoRun]
      /\ run = [r \in Runs |-> Unused] /\ out = [r \in Runs |-> <<>>] /\ late = [r \in Runs |-> 0]
      /\ rec = [state |-> "idle", name |-> NoName, count |-> 0] /\ unsaved = {}
  BY DEF Init
<1>2. DOMAIN scenarios \subseteq Names /\ \A n \in DOMAIN scenarios : scenarios[n] \in Seq(Item)
  BY <1>1, ScriptAssumption DEF Names
<1>3. rec \in [state : {"idle", "recording", "stopped"}, name : Names \cup {NoName}, count : 0..MaxRecorded]
  BY <1>1, MaxRecordedAssumption
<1>4. TypeOK
  BY <1>1, <1>2, <1>3 DEF TypeOK
<1>5. ListedIsOpen
  BY <1>1 DEF ListedIsOpen
<1>6. \A r \in Runs : Lateness(r) /\ Sent(r)
  BY <1>1 DEF Lateness, Sent
<1> QED
  BY <1>1, <1>4, <1>5, <1>6 DEF DemoInv, Named
--------------------------------------------------------------------------------
(* Starting and stopping                                                      *)

LEMMA ReplayStep ==
  ASSUME DemoInv, NEW r \in Runs, NEW n \in Names, Replay(r, n)
  PROVE  DemoInv'
<1>1. TypeOK /\ ListedIsOpen /\ \A q \in Runs : Lateness(q) /\ Sent(q)
  BY DEF DemoInv
<1> DEFINE j == [pc |-> "waiting", name |-> n, script |-> scenarios[n], next |-> 1, cancelled |-> FALSE]
<1>2. scenarios[n] \in Seq(Item) /\ running[n] = NoRun /\ run[r] = Unused
  BY <1>1 DEF Replay, TypeOK
<1>3. j \in RunJob /\ j.pc = "waiting" /\ j.name = n /\ j.script = scenarios[n] /\ j.next = 1 /\ j.cancelled = FALSE
  BY <1>2 DEF RunJob
<1>4. run' = [run EXCEPT ![r] = j] /\ running' = [running EXCEPT ![n] = r]
      /\ UNCHANGED <<scenarios, out, late, rec, unsaved>>
  BY DEF Replay
<1> HIDE DEF j
<1>5. /\ run'[r] = j /\ \A q \in Runs \ {r} : run'[q] = run[q]
      /\ \A m \in Names : running'[m] = IF m = n THEN r ELSE running[m]
  BY <1>1, <1>4 DEF TypeOK
<1>6. TypeOK'
  BY <1>1, <1>3, <1>4 DEF TypeOK, RunJob
<1>7. ListedIsOpen'
  <2> SUFFICES ASSUME NEW m \in Names, running'[m] # NoRun
               PROVE  /\ run'[running'[m]].pc # "unused" /\ run'[running'[m]].name = m
                      /\ run'[running'[m]].pc # "done" /\ ~run'[running'[m]].cancelled
    BY DEF ListedIsOpen, Used
  <2>1. CASE m = n
    BY <1>3, <1>5, <2>1
  <2>2. CASE m # n
    <3>1. running'[m] = running[m] /\ running[m] \in Runs /\ run[running[m]].pc # "unused"
      BY <1>1, <1>5, <2>2 DEF ListedIsOpen, Used, TypeOK
    <3>2. running[m] # r
      BY <1>2, <3>1 DEF Unused
    <3> QED
      BY <1>1, <1>5, <2>2, <3>1, <3>2 DEF ListedIsOpen
  <2> QED
    BY <2>1, <2>2
<1>8. Lateness(r)'
  BY <1>1, <1>2, <1>4 DEF Lateness, Unused
<1>9. Sent(r)'
  <2>1. out[r] = <<>>
    BY <1>1, <1>2 DEF Sent
  <2>2. Len(scenarios[n]) \in Nat /\ Len(<<>>) = 0
    BY <1>2
  <2>3. j # Unused
    BY <1>3 DEF Unused
  <2> QED
    BY <1>3, <1>4, <1>5, <2>1, <2>2, <2>3 DEF Sent
<1>10. \A q \in Runs \ {r} : run'[q] = run[q] /\ out'[q] = out[q] /\ late'[q] = late[q]
  BY <1>4, <1>5
<1> QED
  BY <1>1, <1>4, <1>6, <1>7, <1>8, <1>9, <1>10, OneRun DEF DemoInv, Named

LEMMA StopStep ==
  ASSUME DemoInv, NEW n \in Names, Stop(n)
  PROVE  DemoInv'
<1>1. TypeOK /\ ListedIsOpen /\ \A q \in Runs : Lateness(q) /\ Sent(q)
  BY DEF DemoInv
<1>2. PICK r \in Runs : r = running[n]
  BY <1>1 DEF Stop, TypeOK
<1>3. run[r].pc # "unused" /\ run[r].name = n /\ run[r].pc # "done"
  BY <1>1, <1>2 DEF Stop, ListedIsOpen, Used
<1>4. run[r] \in RunJob
  BY <1>1, <1>3, JobShape
<1> DEFINE j == [run[r] EXCEPT !.cancelled = TRUE]
<1>5. j \in RunJob /\ j.pc = run[r].pc /\ j.name = run[r].name /\ j.script = run[r].script
      /\ j.next = run[r].next /\ j.cancelled = TRUE
  <2>1. Becomes(run[r], j, run[r].pc, run[r].next, TRUE)
    BY <1>4, JobStep
  <2> HIDE DEF j
  <2> QED
    BY <2>1 DEF Becomes
<1>6. run' = [run EXCEPT ![r] = j] /\ running' = [running EXCEPT ![n] = NoRun]
      /\ UNCHANGED <<scenarios, out, late, rec, unsaved>>
  BY <1>2 DEF Stop
<1> HIDE DEF j
<1>7. /\ run'[r] = j /\ \A q \in Runs \ {r} : run'[q] = run[q]
      /\ \A m \in Names : running'[m] = IF m = n THEN NoRun ELSE running[m]
  BY <1>1, <1>6 DEF TypeOK
<1>8. TypeOK'
  BY <1>1, <1>5, <1>6 DEF TypeOK, RunJob
<1>9. ListedIsOpen'
  <2> SUFFICES ASSUME NEW m \in Names, running'[m] # NoRun
               PROVE  /\ run'[running'[m]].pc # "unused" /\ run'[running'[m]].name = m
                      /\ run'[running'[m]].pc # "done" /\ ~run'[running'[m]].cancelled
    BY DEF ListedIsOpen, Used
  <2>1. m # n /\ running'[m] = running[m] /\ running[m] \in Runs
    BY <1>1, <1>7 DEF TypeOK
  <2>2. running[m] # r
    BY <1>1, <1>3, <2>1 DEF ListedIsOpen
  <2> QED
    BY <1>1, <1>7, <2>1, <2>2 DEF ListedIsOpen, Used
<1>10. Lateness(r)'
  BY <1>1, <1>5, <1>6, <1>7 DEF Lateness
<1>11. Sent(r)'
  <2>1. j # Unused /\ run[r] # Unused
    BY <1>3, <1>5 DEF Unused
  <2> QED
    BY <1>1, <1>5, <1>6, <1>7, <2>1 DEF Sent
<1>12. \A q \in Runs \ {r} : run'[q] = run[q] /\ out'[q] = out[q] /\ late'[q] = late[q]
  BY <1>6, <1>7
<1> QED
  BY <1>1, <1>6, <1>8, <1>9, <1>10, <1>11, <1>12, OneRun DEF DemoInv, Named
--------------------------------------------------------------------------------
(* The goroutine                                                              *)

\* A step that takes a replay on leaves the list right, unless it ends it.
LEMMA StillListed ==
  ASSUME TypeOK, ListedIsOpen, NEW r \in Runs, NEW j \in RunJob, run[r] \in RunJob,
         \A q \in Runs \ {r} : run'[q] = run[q], run'[r] = j,
         j.name = run[r].name, j.cancelled = run[r].cancelled, j.pc # "done", running' = running
  PROVE  ListedIsOpen'
<1> SUFFICES ASSUME NEW m \in Names, running[m] # NoRun
             PROVE  /\ run'[running[m]].pc # "unused" /\ run'[running[m]].name = m
                    /\ run'[running[m]].pc # "done" /\ ~run'[running[m]].cancelled
  BY DEF ListedIsOpen, Used
<1>1. running[m] \in Runs
  BY DEF TypeOK
<1>2. j.pc # "unused"
  BY DEF RunJob
<1> QED
  BY <1>1, <1>2 DEF ListedIsOpen, Used

\* What a replay has sent grows by the next item of its script.
LEMMA SentNext ==
  ASSUME NEW r \in Runs, Sent(r), run[r] \in RunJob, run'[r] \in RunJob, out[r] \in Seq(Item),
         run[r].next <= Len(run[r].script), run'[r].pc = "waiting", run'[r].script = run[r].script,
         run'[r].next = run[r].next + 1, NEW x \in Item, x = run[r].script[run[r].next],
         out'[r] = Append(out[r], x)
  PROVE  Sent(r)'
<1>1. run[r] # Unused /\ run'[r] # Unused
  BY DEF RunJob, Unused
<1> DEFINE s == run[r].script
           o == out[r]
<1>2. /\ run[r].next = Len(o) + 1 /\ Len(o) <= Len(s) /\ \A i \in 1..Len(o) : o[i] = s[i]
  BY <1>1 DEF Sent
<1>3. s \in Seq(Item) /\ Len(s) \in Nat /\ o \in Seq(Item) /\ Len(o) \in Nat
  BY DEF RunJob
<1>4. run[r].next <= Len(s) /\ x = s[run[r].next]
  OBVIOUS
<1> HIDE DEF s, o
<1> DEFINE p == Append(o, x)
<1>5. Len(p) = Len(o) + 1 /\ \A i \in 1..(Len(o) + 1) : p[i] = IF i = Len(o) + 1 THEN x ELSE o[i]
  BY <1>3
<1> HIDE DEF p
<1>6. \A i \in 1..Len(p) : p[i] = s[i]
  <2> SUFFICES ASSUME NEW i \in 1..(Len(o) + 1) PROVE p[i] = s[i]
    BY <1>5
  <2>1. CASE i = Len(o) + 1
    BY <1>2, <1>4, <1>5, <2>1
  <2>2. CASE i \in 1..Len(o)
    BY <1>2, <1>3, <1>5, <2>2, SMTT(60)
  <2> QED
    BY <1>3, <2>1, <2>2
<1>7. Len(p) <= Len(s) /\ run'[r].next = Len(p) + 1
  BY <1>2, <1>3, <1>4, <1>5
<1>8. out'[r] = p /\ run'[r].script = s
  BY DEF p, o, s
<1> QED
  BY <1>1, <1>6, <1>7, <1>8 DEF Sent

\* Where an event is left, the next item is in the script.
LEMMA NextInScript ==
  ASSUME NEW r \in Runs, run[r] \in RunJob, ~Over(r)
  PROVE  run[r].next <= Len(run[r].script)
BY DEF Over, RunJob

LEMMA AnnotateStep ==
  ASSUME DemoInv, NEW r \in Runs, Annotate(r)
  PROVE  DemoInv'
<1>1. TypeOK /\ ListedIsOpen /\ \A q \in Runs : Lateness(q) /\ Sent(q)
  BY DEF DemoInv
<1>2. run[r].pc = "waiting" /\ run[r] \in RunJob /\ ~Over(r)
  BY <1>1, JobShape DEF Annotate
<1> DEFINE j == [run[r] EXCEPT !.next = @ + 1]
<1>3. j \in RunJob /\ j.pc = run[r].pc /\ j.name = run[r].name /\ j.script = run[r].script
      /\ j.next = run[r].next + 1 /\ j.cancelled = run[r].cancelled
  <2>1. Becomes(run[r], j, run[r].pc, run[r].next + 1, run[r].cancelled)
    BY <1>2, JobStep
  <2> HIDE DEF j
  <2> QED
    BY <2>1 DEF Becomes
<1>4. run' = [run EXCEPT ![r] = j] /\ out' = [out EXCEPT ![r] = Append(out[r], "note")]
      /\ UNCHANGED <<scenarios, running, late, rec, unsaved>> /\ run[r].script[run[r].next] = "note"
  BY DEF Annotate
<1> HIDE DEF j
<1>5. run \in [Runs -> {Unused} \cup RunJob] /\ out \in [Runs -> Seq(Item)]
  BY <1>1 DEF TypeOK, RunJob
<1>6. /\ run'[r] = j /\ out'[r] = Append(out[r], "note")
      /\ \A q \in Runs \ {r} : run'[q] = run[q] /\ out'[q] = out[q]
  BY <1>4, <1>5
<1>7. Append(out[r], "note") \in Seq(Item) /\ "note" \in Item
  BY <1>5 DEF Item
<1>8. run' \in [Runs -> {Unused} \cup RunJob] /\ out' \in [Runs -> Seq(Item)]
  BY <1>3, <1>4, <1>5, <1>7
<1>9. TypeOK'
  BY <1>1, <1>4, <1>8 DEF TypeOK, RunJob
<1>10. ListedIsOpen'
  BY <1>1, <1>2, <1>3, <1>4, <1>6, StillListed
<1>11. Lateness(r)'
  BY <1>1, <1>3, <1>4, <1>6 DEF Lateness
<1>12. Sent(r)'
  BY <1>1, <1>2, <1>3, <1>4, <1>5, <1>6, <1>7, NextInScript, SentNext
<1> QED
  BY <1>1, <1>4, <1>6, <1>9, <1>10, <1>11, <1>12, OneRun DEF DemoInv, Named

LEMMA FireStep ==
  ASSUME DemoInv, NEW r \in Runs, Fire(r)
  PROVE  DemoInv'
<1>1. TypeOK /\ ListedIsOpen /\ \A q \in Runs : Lateness(q) /\ Sent(q)
  BY DEF DemoInv
<1>2. run[r].pc = "firing" /\ run[r] \in RunJob /\ run[r] # Unused
  BY <1>1, JobShape DEF Fire
<1> DEFINE j == [run[r] EXCEPT !.pc = "waiting", !.next = @ + 1]
<1>3. j \in RunJob /\ j.pc = "waiting" /\ j.name = run[r].name /\ j.script = run[r].script
      /\ j.next = run[r].next + 1 /\ j.cancelled = run[r].cancelled
  <2>1. Becomes(run[r], j, "waiting", run[r].next + 1, run[r].cancelled)
    BY <1>2, JobStep
  <2> HIDE DEF j
  <2> QED
    BY <2>1 DEF Becomes
<1>4. run' = [run EXCEPT ![r] = j] /\ out' = [out EXCEPT ![r] = Append(out[r], "event")]
      /\ late' = [late EXCEPT ![r] = late[r] + IF run[r].cancelled THEN 1 ELSE 0]
      /\ rec' = Recorded /\ UNCHANGED <<scenarios, running, unsaved>>
  BY DEF Fire
<1> HIDE DEF j
<1>5. run \in [Runs -> {Unused} \cup RunJob] /\ out \in [Runs -> Seq(Item)] /\ late \in [Runs -> Nat]
  BY <1>1 DEF TypeOK, RunJob
<1>6. late[r] = 0
  BY <1>1, <1>2 DEF Lateness
<1>7. /\ run'[r] = j /\ out'[r] = Append(out[r], "event") /\ late'[r] = IF run[r].cancelled THEN 1 ELSE 0
      /\ \A q \in Runs \ {r} : run'[q] = run[q] /\ out'[q] = out[q] /\ late'[q] = late[q]
  BY <1>4, <1>5, <1>6
<1>8. Append(out[r], "event") \in Seq(Item) /\ "event" \in Item
  BY <1>5 DEF Item
<1>9. run' \in [Runs -> {Unused} \cup RunJob] /\ out' \in [Runs -> Seq(Item)] /\ late' \in [Runs -> Nat]
  BY <1>3, <1>4, <1>5, <1>6, <1>8
<1>10. TypeOK'
  BY <1>1, <1>4, <1>9, RecordedType DEF TypeOK, RunJob
<1>11. ListedIsOpen'
  BY <1>1, <1>2, <1>3, <1>4, <1>7, StillListed
<1>12. Lateness(r)'
  BY <1>3, <1>7 DEF Lateness
<1>13. Sent(r)'
  <2>1. run[r].next <= Len(run[r].script) /\ run[r].script[run[r].next] = "event"
    BY <1>1, <1>2 DEF Sent
  <2> QED
    BY <1>1, <1>2, <1>3, <1>5, <1>7, <1>8, <2>1, SentNext
<1>14. Named'
  BY <1>1, <1>4, NameKept DEF DemoInv, TypeOK
<1> QED
  BY <1>1, <1>7, <1>10, <1>11, <1>12, <1>13, <1>14, OneRun DEF DemoInv

LEMMA DueStep ==
  ASSUME DemoInv, NEW r \in Runs, Due(r)
  PROVE  DemoInv'
<1>1. TypeOK /\ ListedIsOpen /\ \A q \in Runs : Lateness(q) /\ Sent(q)
  BY DEF DemoInv
<1>2. run[r].pc = "waiting" /\ run[r] \in RunJob /\ run[r] # Unused /\ ~Over(r) /\ ~run[r].cancelled
  BY <1>1, JobShape DEF Due
<1> DEFINE j == [run[r] EXCEPT !.pc = "firing"]
<1>3. j \in RunJob /\ j.pc = "firing" /\ j.name = run[r].name /\ j.script = run[r].script
      /\ j.next = run[r].next /\ j.cancelled = run[r].cancelled
  <2>1. Becomes(run[r], j, "firing", run[r].next, run[r].cancelled)
    BY <1>2, JobStep
  <2> HIDE DEF j
  <2> QED
    BY <2>1 DEF Becomes
<1>4. run' = [run EXCEPT ![r] = j] /\ UNCHANGED <<scenarios, running, out, late, rec, unsaved>>
      /\ run[r].script[run[r].next] = "event"
  BY DEF Due
<1> HIDE DEF j
<1>5. run \in [Runs -> {Unused} \cup RunJob]
  BY <1>1 DEF TypeOK, RunJob
<1>6. run'[r] = j /\ \A q \in Runs \ {r} : run'[q] = run[q] /\ out'[q] = out[q] /\ late'[q] = late[q]
  BY <1>4, <1>5
<1>7. run' \in [Runs -> {Unused} \cup RunJob]
  BY <1>3, <1>4, <1>5
<1>8. TypeOK'
  BY <1>1, <1>4, <1>7 DEF TypeOK, RunJob
<1>9. ListedIsOpen'
  BY <1>1, <1>2, <1>3, <1>4, <1>6, StillListed
<1>10. Lateness(r)'
  BY <1>1, <1>2, <1>4 DEF Lateness
<1>11. Sent(r)'
  <2>1. j # Unused
    BY <1>3 DEF RunJob, Unused
  <2> QED
    BY <1>1, <1>2, <1>3, <1>4, <1>6, <2>1, NextInScript DEF Sent
<1> QED
  BY <1>1, <1>4, <1>6, <1>8, <1>9, <1>10, <1>11, OneRun DEF DemoInv, Named

LEMMA ReturnStep ==
  ASSUME DemoInv, NEW r \in Runs, Return(r)
  PROVE  DemoInv'
<1>1. TypeOK /\ ListedIsOpen /\ \A q \in Runs : Lateness(q) /\ Sent(q)
  BY DEF DemoInv
<1>2. run[r].pc = "waiting" /\ run[r] \in RunJob /\ run[r] # Unused /\ (run[r].cancelled \/ Over(r))
  BY <1>1, JobShape DEF Return
<1> DEFINE j == [run[r] EXCEPT !.pc = "returning"]
<1>3. j \in RunJob /\ j.pc = "returning" /\ j.name = run[r].name /\ j.script = run[r].script
      /\ j.next = run[r].next /\ j.cancelled = run[r].cancelled
  <2>1. Becomes(run[r], j, "returning", run[r].next, run[r].cancelled)
    BY <1>2, JobStep
  <2> HIDE DEF j
  <2> QED
    BY <2>1 DEF Becomes
<1>4. run' = [run EXCEPT ![r] = j] /\ UNCHANGED <<scenarios, running, out, late, rec, unsaved>>
  BY DEF Return
<1> HIDE DEF j
<1>5. run \in [Runs -> {Unused} \cup RunJob]
  BY <1>1 DEF TypeOK, RunJob
<1>6. run'[r] = j /\ \A q \in Runs \ {r} : run'[q] = run[q] /\ out'[q] = out[q] /\ late'[q] = late[q]
  BY <1>4, <1>5
<1>7. run' \in [Runs -> {Unused} \cup RunJob]
  BY <1>3, <1>4, <1>5
<1>8. TypeOK'
  BY <1>1, <1>4, <1>7 DEF TypeOK, RunJob
<1>9. ListedIsOpen'
  BY <1>1, <1>2, <1>3, <1>4, <1>6, StillListed
<1>10. Lateness(r)'
  BY <1>1, <1>2, <1>3, <1>4, <1>6 DEF Lateness
<1>11. Sent(r)'
  <2>1. j # Unused
    BY <1>3 DEF RunJob, Unused
  <2> QED
    BY <1>1, <1>2, <1>3, <1>4, <1>6, <2>1 DEF Sent, Over
<1> QED
  BY <1>1, <1>4, <1>6, <1>8, <1>9, <1>10, <1>11, OneRun DEF DemoInv, Named

LEMMA UnlistStep ==
  ASSUME DemoInv, NEW r \in Runs, Unlist(r)
  PROVE  DemoInv'
<1>1. TypeOK /\ ListedIsOpen /\ \A q \in Runs : Lateness(q) /\ Sent(q)
  BY DEF DemoInv
<1>2. run[r].pc = "returning" /\ run[r] \in RunJob /\ run[r] # Unused
  BY <1>1, JobShape DEF Unlist
<1> DEFINE j == [run[r] EXCEPT !.pc = "done"]
           n == run[r].name
<1>3. j \in RunJob /\ j.pc = "done" /\ j.name = run[r].name /\ j.script = run[r].script
      /\ j.next = run[r].next /\ j.cancelled = run[r].cancelled
  <2>1. Becomes(run[r], j, "done", run[r].next, run[r].cancelled)
    BY <1>2, JobStep
  <2> HIDE DEF j
  <2> QED
    BY <2>1 DEF Becomes
<1>4. run' = [run EXCEPT ![r] = j] /\ running' = [running EXCEPT ![n] = NoRun]
      /\ UNCHANGED <<scenarios, out, late, rec, unsaved>>
  BY DEF Unlist
<1> HIDE DEF j
<1>5. run \in [Runs -> {Unused} \cup RunJob] /\ running \in [Names -> Runs \cup {NoRun}]
  BY <1>1 DEF TypeOK, RunJob
<1>6. /\ run'[r] = j /\ \A q \in Runs \ {r} : run'[q] = run[q] /\ out'[q] = out[q] /\ late'[q] = late[q]
      /\ \A m \in Names : running'[m] = IF m = n THEN NoRun ELSE running[m]
  BY <1>4, <1>5
<1>7. run' \in [Runs -> {Unused} \cup RunJob] /\ running' \in [Names -> Runs \cup {NoRun}]
  BY <1>3, <1>4, <1>5
<1>8. TypeOK'
  BY <1>1, <1>4, <1>7 DEF TypeOK, RunJob
<1>9. ListedIsOpen'
  <2> SUFFICES ASSUME NEW m \in Names, running'[m] # NoRun
               PROVE  /\ run'[running'[m]].pc # "unused" /\ run'[running'[m]].name = m
                      /\ run'[running'[m]].pc # "done" /\ ~run'[running'[m]].cancelled
    BY DEF ListedIsOpen, Used
  <2>1. m # n /\ running'[m] = running[m] /\ running[m] \in Runs
    BY <1>5, <1>6
  <2>2. running[m] # r
    BY <1>1, <2>1 DEF ListedIsOpen
  <2> QED
    BY <1>1, <1>6, <2>1, <2>2 DEF ListedIsOpen, Used
<1>10. Lateness(r)'
  BY <1>1, <1>2, <1>3, <1>4, <1>6 DEF Lateness
<1>11. Sent(r)'
  <2>1. j # Unused
    BY <1>3 DEF RunJob, Unused
  <2> QED
    BY <1>1, <1>2, <1>3, <1>4, <1>6, <2>1 DEF Sent, Over
<1> QED
  BY <1>1, <1>4, <1>6, <1>8, <1>9, <1>10, <1>11, OneRun DEF DemoInv, Named
--------------------------------------------------------------------------------
(* Recording                                                                  *)

\* A recording changes nothing about the replays.
LEMMA RunsKept ==
  ASSUME DemoInv, TypeOK', Named', UNCHANGED <<running, run, out, late>>
  PROVE  DemoInv'
BY DEF DemoInv, ListedIsOpen, Used, Lateness, Sent, Over

LEMMA RecordStep ==
  ASSUME DemoInv,
         \/ Inject \/ StopRecording
         \/ \E n \in Recordings : StartRecording(n)
         \/ \E sc \in unsaved : AddScenario(sc)
  PROVE  DemoInv'
<1>1. TypeOK
  BY DEF DemoInv
<1> DEFINE Rec == [state : {"idle", "recording", "stopped"}, name : Names \cup {NoName}, count : 0..MaxRecorded]
<1>2. rec \in Rec
  BY <1>1 DEF TypeOK
<1>3. CASE Inject
  <2>1. TypeOK'
    BY <1>1, <1>3, RecordedType DEF Inject, TypeOK
  <2>2. Named'
    BY <1>2, <1>3, NameKept DEF DemoInv, Inject
  <2> QED
    BY <1>3, <2>1, <2>2, RunsKept DEF Inject
<1>4. ASSUME NEW n \in Recordings, StartRecording(n) PROVE DemoInv'
  <2>1. [state |-> "recording", name |-> n, count |-> 0] \in Rec
    BY MaxRecordedAssumption DEF Names
  <2>2. TypeOK'
    BY <1>1, <1>4, <2>1 DEF StartRecording, TypeOK
  <2> QED
    BY <1>4, <2>2, RunsKept DEF StartRecording, Named, Names
<1>5. CASE StopRecording
  <2> DEFINE sc == [name |-> rec.name, script |-> [i \in 1..rec.count |-> "event"]]
  <2>1. rec.name \in Names
    BY <1>5 DEF StopRecording, DemoInv, Named
  <2>2. [i \in 1..rec.count |-> "event"] \in Seq(Item)
    BY <1>2 DEF Item
  <2>3. [rec EXCEPT !.state = "stopped"] \in Rec
    BY <1>2
  <2>4. rec' = [rec EXCEPT !.state = "stopped"] /\ rec'.state = "stopped" /\ unsaved' = unsaved \cup {sc}
        /\ UNCHANGED <<scenarios, running, run, out, late>>
    BY <1>2, <1>5 DEF StopRecording
  <2>5. sc \in [name : Names, script : Seq(Item)]
    BY <2>1, <2>2
  <2> HIDE DEF sc
  <2>6. TypeOK'
    BY <1>1, <2>3, <2>4, <2>5 DEF TypeOK
  <2> QED
    BY <2>4, <2>6, RunsKept DEF Named
<1>6. ASSUME NEW sc \in unsaved, AddScenario(sc) PROVE DemoInv'
  <2>1. sc.name \in Names /\ sc.script \in Seq(Item)
    BY <1>1 DEF TypeOK
  <2>2. unsaved' = unsaved \ {sc} /\ UNCHANGED <<running, run, out, late, rec>>
    BY <1>6 DEF AddScenario
  <2>3. /\ DOMAIN scenarios' = DOMAIN scenarios \cup {sc.name}
        /\ \A n \in DOMAIN scenarios' : scenarios'[n] = IF n = sc.name THEN sc.script ELSE scenarios[n]
    BY <1>6 DEF AddScenario
  <2>4. TypeOK'
    BY <1>1, <2>1, <2>2, <2>3 DEF TypeOK
  <2> QED
    BY <2>2, <2>4, RunsKept DEF DemoInv, Named
<1> QED
  BY <1>3, <1>4, <1>5, <1>6
--------------------------------------------------------------------------------
(* The theorems                                                               *)

LEMMA DemoInvCorrect == Spec => []DemoInv
<1>1. DemoInv /\ [Next]_vars => DemoInv'
  <2> SUFFICES ASSUME DemoInv, [Next]_vars PROVE DemoInv'
    OBVIOUS
  <2>1. ASSUME NEW r \in Runs, RunStep(r) PROVE DemoInv'
    BY <2>1, AnnotateStep, DueStep, FireStep, ReturnStep, UnlistStep DEF RunStep
  <2>2. CASE UNCHANGED vars
    <3>1. TypeOK' /\ Named'
      BY <2>2 DEF vars, DemoInv, TypeOK, Named
    <3> QED
      BY <2>2, <3>1, RunsKept DEF vars
  <2> QED
    BY <2>1, <2>2, ReplayStep, StopStep, RecordStep DEF Next
<1> QED
  BY <1>1, DemoInit, PTL DEF Spec

\* The engine and the recorder keep every variable in its type, whatever names
\* recordings are given and whatever is replayed meanwhile.
THEOREM TypeCorrect == Spec => []TypeOK
<1>1. DemoInv => TypeOK
  BY DEF DemoInv
<1> QED
  BY <1>1, DemoInvCorrect, PTL

\* Stop and the deferred delete leave only replays listed whose channel is open, so
\* Stop closes none twice, although the delete looks at no owner.
THEOREM ListedCorrect == Spec => []ListedIsOpen
<1>1. DemoInv => ListedIsOpen
  BY DEF DemoInv
<1> QED
  BY <1>1, DemoInvCorrect, PTL

\* A goroutine that Stop has cancelled sends at most the event it was about to send.
THEOREM StopCorrect == Spec => []StopLeavesOne
<1>1. DemoInv => StopLeavesOne
  BY DEF DemoInv, Lateness, StopLeavesOne
<1> QED
  BY <1>1, DemoInvCorrect, PTL

\* Replay sends the script it copied, in order and whole unless it is stopped, even if
\* a recording takes the scenario's name meanwhile.
THEOREM ReplayCorrect == Spec => []ReplayFaithful
<1>1. ASSUME DemoInv, NEW r \in Runs, Used(r)
      PROVE  /\ IsPrefix(out[r], run[r].script)
             /\ run[r].pc = "done" /\ ~run[r].cancelled =>
                   \A i \in DOMAIN run[r].script : run[r].script[i] = "event" => i \in DOMAIN out[r]
  <2> DEFINE s == run[r].script
             o == out[r]
  <2>1. run[r] \in RunJob /\ run[r] # Unused
    BY <1>1, JobShape DEF Used, DemoInv
  <2>2. s \in Seq(Item) /\ o \in Seq(Item) /\ Len(s) \in Nat /\ Len(o) \in Nat
        /\ DOMAIN s = 1..Len(s) /\ DOMAIN o = 1..Len(o)
    BY <1>1, <2>1 DEF RunJob, DemoInv, TypeOK
  <2>3. /\ run[r].next = Len(o) + 1 /\ Len(o) <= Len(s) /\ \A i \in 1..Len(o) : o[i] = s[i]
        /\ run[r].pc = "done" /\ ~run[r].cancelled => Over(r)
    BY <1>1, <2>1 DEF DemoInv, Sent
  <2>4. run[r].pc = "done" /\ ~run[r].cancelled =>
           \A i \in (Len(o) + 1)..Len(s) : s[i] = "note"
    BY <2>3 DEF Over
  <2> HIDE DEF s, o
  <2>5. IsPrefix(o, s)
    <3>1. SubSeq(o, 1, Len(o)) = o
      BY <2>2
    <3>2. /\ SubSeq(s, 1, Len(o)) \in Seq(Item) /\ Len(SubSeq(s, 1, Len(o))) = Len(o)
          /\ \A i \in 1..Len(o) : SubSeq(s, 1, Len(o))[i] = s[i]
      BY <2>2, <2>3
    <3>3. o = SubSeq(s, 1, Len(o))
      BY <2>2, <2>3, <3>2
    <3> QED
      BY <2>3, <3>1, <3>3 DEF IsPrefix
  <2>6. ASSUME run[r].pc = "done", ~run[r].cancelled, NEW i \in 1..Len(s), s[i] = "event"
        PROVE  i \in 1..Len(o)
    BY <2>2, <2>4, <2>6
  <2> QED
    BY <2>2, <2>5, <2>6 DEF s, o
<1>2. DemoInv => ReplayFaithful
  BY <1>1 DEF ReplayFaithful
<1> QED
  BY <1>2, DemoInvCorrect, PTL
--------------------------------------------------------------------------------
(* When no scenario is replayed twice at once.  The deferred delete removes     *)
(* whoever is listed, so the replay of a stopped scenario that is replayed      *)
(* again before its goroutine has returned takes the new one off the list.      *)

\* A replay on its way, stopped or not.
OnItsWay(r) == Used(r) /\ run[r].pc # "done"

\* A stopped replay is still on its way when its scenario is replayed again.
Lingering ==
    \E q, r \in Runs :
        /\ OnItsWay(q) /\ OnItsWay(r) /\ run[q].name = run[r].name
        /\ run[q].cancelled /\ ~run[r].cancelled

\* A replay nobody has stopped is listed.
OwnInv ==
    \A r \in Runs : OnItsWay(r) /\ ~run[r].cancelled => running[run[r].name] = r

\* A step that starts, stops and ends no replay.
LEMMA OwnKept ==
  ASSUME OwnInv, running' = running,
         \A q \in Runs : OnItsWay(q)' <=> OnItsWay(q),
         \A q \in Runs : OnItsWay(q) =>
             run'[q].name = run[q].name /\ run'[q].cancelled = run[q].cancelled
  PROVE  OwnInv'
BY DEF OwnInv

LEMMA OwnReplay ==
  ASSUME TypeOK, OwnInv, NEW r \in Runs, NEW n \in Names, Replay(r, n)
  PROVE  OwnInv'
<1> DEFINE j == [pc |-> "waiting", name |-> n, script |-> scenarios[n], next |-> 1, cancelled |-> FALSE]
<1>1. running[n] = NoRun /\ run[r] = Unused /\ n \in DOMAIN scenarios
  BY DEF Replay
<1>2. j.pc = "waiting" /\ j.name = n /\ j.cancelled = FALSE
  OBVIOUS
<1>3. run' = [run EXCEPT ![r] = j] /\ running' = [running EXCEPT ![n] = r]
  BY DEF Replay
<1> HIDE DEF j
<1>4. /\ run'[r] = j /\ \A q \in Runs \ {r} : run'[q] = run[q]
      /\ \A m \in Names : running'[m] = IF m = n THEN r ELSE running[m]
  BY <1>3 DEF TypeOK
<1>5. \A q \in Runs : OnItsWay(q) => run[q].name \in Names /\ q # r
  BY <1>1, JobShape DEF OnItsWay, Used, RunJob, Unused
<1>6. \A q \in Runs : OnItsWay(q) /\ ~run[q].cancelled => run[q].name # n
  BY <1>1, NoRunAssumption DEF OwnInv
<1>7. \A q \in Runs : OnItsWay(q)' <=> q = r \/ OnItsWay(q)
  BY <1>2, <1>4 DEF OnItsWay, Used
<1> SUFFICES ASSUME NEW p \in Runs, OnItsWay(p)', ~run'[p].cancelled
             PROVE  running'[run'[p].name] = p
  BY DEF OwnInv
<1>8. CASE p = r
  BY <1>2, <1>4, <1>6, <1>7, <1>8
<1>9. CASE p # r
  BY <1>2, <1>4, <1>5, <1>6, <1>7, <1>9 DEF OwnInv
<1> QED
  BY <1>8, <1>9

LEMMA OwnStop ==
  ASSUME TypeOK, ListedIsOpen, OwnInv, NEW n \in Names, Stop(n)
  PROVE  OwnInv'
<1>1. PICK r \in Runs : r = running[n]
  BY DEF Stop, TypeOK
<1>2. OnItsWay(r) /\ run[r].name = n /\ ~run[r].cancelled
  BY <1>1 DEF Stop, ListedIsOpen, OnItsWay
<1> DEFINE j == [run[r] EXCEPT !.cancelled = TRUE]
<1>3. j.pc = run[r].pc /\ j.name = n /\ j.cancelled = TRUE
  <2>1. Becomes(run[r], j, run[r].pc, run[r].next, TRUE)
    BY <1>2, JobShape, JobStep DEF OnItsWay, Used
  <2> QED
    BY <1>2, <2>1 DEF Becomes
<1>4. run' = [run EXCEPT ![r] = j] /\ running' = [running EXCEPT ![n] = NoRun]
  BY <1>1 DEF Stop
<1> HIDE DEF j
<1>5. /\ run'[r] = j /\ \A q \in Runs \ {r} : run'[q] = run[q]
      /\ \A m \in Names : running'[m] = IF m = n THEN NoRun ELSE running[m]
  BY <1>4 DEF TypeOK
<1>6. \A q \in Runs : OnItsWay(q)' <=> OnItsWay(q)
  BY <1>3, <1>5 DEF OnItsWay, Used
<1> SUFFICES ASSUME NEW p \in Runs, OnItsWay(p)', ~run'[p].cancelled
             PROVE  running'[run'[p].name] = p
  BY DEF OwnInv
<1>7. p # r /\ run'[p] = run[p] /\ OnItsWay(p) /\ ~run[p].cancelled /\ run[p].name \in Names
  BY <1>3, <1>5, <1>6, JobShape DEF OnItsWay, Used, RunJob
<1>8. run[p].name # n
  BY <1>1, <1>7 DEF OwnInv
<1> QED
  BY <1>3, <1>5, <1>6, <1>7, <1>8 DEF OwnInv

LEMMA OwnUnlist ==
  ASSUME TypeOK, OwnInv, ~Lingering, NEW r \in Runs, Unlist(r)
  PROVE  OwnInv'
<1> DEFINE j == [run[r] EXCEPT !.pc = "done"]
           n == run[r].name
<1>1. OnItsWay(r) /\ run[r] \in RunJob
  BY JobShape DEF Unlist, OnItsWay, Used
<1>2. j.pc = "done"
  BY <1>1, JobStep DEF Becomes
<1>3. run' = [run EXCEPT ![r] = j] /\ running' = [running EXCEPT ![n] = NoRun]
  BY DEF Unlist
<1> HIDE DEF j
<1>4. /\ run'[r] = j /\ \A q \in Runs \ {r} : run'[q] = run[q]
      /\ \A m \in Names : running'[m] = IF m = n THEN NoRun ELSE running[m]
  BY <1>3 DEF TypeOK
<1>5. \A q \in Runs : OnItsWay(q)' <=> q # r /\ OnItsWay(q)
  BY <1>2, <1>4 DEF OnItsWay, Used
<1> SUFFICES ASSUME NEW p \in Runs, OnItsWay(p)', ~run'[p].cancelled
             PROVE  running'[run'[p].name] = p
  BY DEF OwnInv
<1>6. p # r /\ run'[p] = run[p] /\ OnItsWay(p) /\ ~run[p].cancelled /\ run[p].name \in Names
  BY <1>4, <1>5, JobShape DEF OnItsWay, Used, RunJob
<1>7. n # run[p].name
  BY <1>1, <1>6 DEF OwnInv, Lingering
<1> QED
  BY <1>4, <1>5, <1>6, <1>7 DEF OwnInv

LEMMA OwnStep == DemoInv /\ OwnInv /\ ~Lingering /\ [Next]_vars => OwnInv'
<1> SUFFICES ASSUME DemoInv, OwnInv, ~Lingering, [Next]_vars PROVE OwnInv'
  OBVIOUS
<1>1. TypeOK /\ ListedIsOpen
  BY DEF DemoInv
<1>2. ASSUME NEW r \in Runs, NEW n \in Names, Replay(r, n) PROVE OwnInv'
  BY <1>1, <1>2, OwnReplay
<1>3. ASSUME NEW r \in Runs, Annotate(r) \/ Due(r) \/ Fire(r) \/ Return(r) PROVE OwnInv'
  <2>1. run[r] \in RunJob /\ run[r].pc \in {"waiting", "firing"} /\ running' = running
    BY <1>1, <1>3, JobShape DEF Annotate, Due, Fire, Return
  <2>2. PICK j : run' = [run EXCEPT ![r] = j] /\ j.name = run[r].name /\ j.cancelled = run[r].cancelled
                 /\ j.pc \in {"waiting", "firing", "returning"}
    <3>1. CASE Annotate(r)
      <4> DEFINE k == [run[r] EXCEPT !.next = @ + 1]
      <4>1. Becomes(run[r], k, run[r].pc, run[r].next + 1, run[r].cancelled)
        BY <2>1, JobStep
      <4>2. run' = [run EXCEPT ![r] = k]
        BY <3>1 DEF Annotate
      <4> HIDE DEF k
      <4> QED
        BY <2>1, <4>1, <4>2 DEF Becomes
    <3>2. CASE Due(r)
      <4> DEFINE k == [run[r] EXCEPT !.pc = "firing"]
      <4>1. Becomes(run[r], k, "firing", run[r].next, run[r].cancelled)
        BY <2>1, JobStep
      <4>2. run' = [run EXCEPT ![r] = k]
        BY <3>2 DEF Due
      <4> HIDE DEF k
      <4> QED
        BY <2>1, <4>1, <4>2 DEF Becomes
    <3>3. CASE Fire(r)
      <4> DEFINE k == [run[r] EXCEPT !.pc = "waiting", !.next = @ + 1]
      <4>1. Becomes(run[r], k, "waiting", run[r].next + 1, run[r].cancelled)
        BY <2>1, JobStep
      <4>2. run' = [run EXCEPT ![r] = k]
        BY <3>3 DEF Fire
      <4> HIDE DEF k
      <4> QED
        BY <2>1, <4>1, <4>2 DEF Becomes
    <3>4. CASE Return(r)
      <4> DEFINE k == [run[r] EXCEPT !.pc = "returning"]
      <4>1. Becomes(run[r], k, "returning", run[r].next, run[r].cancelled)
        BY <2>1, JobStep
      <4>2. run' = [run EXCEPT ![r] = k]
        BY <3>4 DEF Return
      <4> HIDE DEF k
      <4> QED
        BY <2>1, <4>1, <4>2 DEF Becomes
    <3> QED
      BY <1>3, <3>1, <3>2, <3>3, <3>4
  <2>3. run'[r] = j /\ \A q \in Runs \ {r} : run'[q] = run[q]
    BY <1>1, <2>2 DEF TypeOK
  <2>4. \A q \in Runs : OnItsWay(q)' <=> OnItsWay(q)
    BY <2>1, <2>2, <2>3 DEF OnItsWay, Used
  <2> QED
    BY <2>1, <2>2, <2>3, <2>4, OwnKept
<1>4. CASE UNCHANGED <<run, running>>
  BY <1>4, OwnKept DEF OnItsWay, Used
<1> QED
  BY <1>1, <1>2, <1>3, <1>4, OwnStop, OwnUnlist DEF Next, RunStep, vars, Inject, StopRecording,
     StartRecording, AddScenario

\* No scenario is replayed by two goroutines at once, unless at some time one has been
\* replayed again while its stopped replay was still on its way: Stop takes a replay off
\* the list before its goroutine returns, and nothing but that goroutine's late delete
\* defeats Replay's look at the list, for any number of replays, stops and recordings.
THEOREM TwiceOnlyByLateDelete == Spec => []NeverReplayedTwice \/ <>Lingering
<1>1. Init => OwnInv
  BY DEF Init, OwnInv, OnItsWay, Used, Unused
<1>2. OwnInv => NeverReplayedTwice
  BY DEF OwnInv, NeverReplayedTwice, Playing, OnItsWay, Used
<1> QED
  BY <1>1, <1>2, DemoInvCorrect, OwnStep, PTL DEF Spec
================================================================================
