--------------------------------- MODULE Demo ---------------------------------
(***************************************************************************)
(* Demo scenarios: the replay engine (internal/demo/engine.go), the        *)
(* recorder that turns live events into a scenario (recorder.go), and the  *)
(* REST handlers that drive both.                                          *)
(*                                                                         *)
(* A scenario is its script: events and annotations in the order of their  *)
(* offsets.  A replay is a goroutine with a copy of the script; Engine.mu  *)
(* is held in Replay, in Stop and in the deferred delete, and nowhere      *)
(* between.  Whether a delay has already passed when the goroutine looks   *)
(* is open, so an annotation may go out without a look at the cancel       *)
(* channel; an event never does.                                           *)
(***************************************************************************)
EXTENDS Integers, Sequences, SequencesExt

CONSTANTS
    Builtin,        \* names of the scenarios the engine is created with
    Script(_),      \* their scripts
    Recordings,     \* names operators give to recordings
    Runs,           \* goroutines started by Replay
    NoRun,          \* a scenario that is not running
    MaxRecorded     \* bound on the events of one recording

Item == {"event", "note"}

ASSUME ScriptAssumption == \A n \in Builtin : Script(n) \in Seq(Item)
ASSUME NoRunAssumption == NoRun \notin Runs
ASSUME MaxRecordedAssumption == MaxRecorded \in Nat

VARIABLES
    scenarios,  \* Engine.scenarios
    running,    \* Engine.running: the replay a scenario is listed with
    run,        \* run[r]: the state of replay r
    out,        \* history: what replay r has sent out
    late,       \* history: events replay r sent after it was cancelled
    rec,        \* the recorder's state, name and number of events
    unsaved     \* recordings stopped by a handler that has not added them yet

vars == <<scenarios, running, run, out, late, rec, unsaved>>

Names == Builtin \cup Recordings
NoName == ""
Unused == [pc |-> "unused"]
Used(r) == run[r].pc # "unused"

TypeOK ==
    /\ DOMAIN scenarios \subseteq Names
    /\ \A n \in DOMAIN scenarios : scenarios[n] \in Seq(Item)
    /\ running \in [Names -> Runs \cup {NoRun}]
    /\ run \in [Runs -> {Unused} \cup
            [pc : {"waiting", "firing", "returning", "done"}, name : Names,
             script : Seq(Item), next : Nat, cancelled : BOOLEAN]]
    /\ out \in [Runs -> Seq(Item)]
    /\ late \in [Runs -> Nat]
    /\ rec \in [state : {"idle", "recording", "stopped"}, name : Names \cup {NoName},
                count : 0..MaxRecorded]
    /\ unsaved \subseteq [name : Names, script : Seq(Item)]

Init ==
    /\ scenarios = [n \in Builtin |-> Script(n)]
    /\ running = [n \in Names |-> NoRun]
    /\ run = [r \in Runs |-> Unused]
    /\ out = [r \in Runs |-> <<>>]
    /\ late = [r \in Runs |-> 0]
    /\ rec = [state |-> "idle", name |-> NoName, count |-> 0]
    /\ unsaved = {}

-----------------------------------------------------------------------------
(* Starting and stopping a replay *)

Replay(r, n) ==
    /\ run[r] = Unused
    /\ n \in DOMAIN scenarios
    /\ running[n] = NoRun
    /\ running' = [running EXCEPT ![n] = r]
    /\ run' = [run EXCEPT ![r] = [pc |-> "waiting", name |-> n, script |-> scenarios[n],
                                  next |-> 1, cancelled |-> FALSE]]
    /\ UNCHANGED <<scenarios, out, late, rec, unsaved>>

\* Fault: the replay stays listed after its channel was closed.
Stop_KeepListed(n) ==
    /\ running[n] # NoRun
    /\ run' = [run EXCEPT ![running[n]].cancelled = TRUE]
    /\ UNCHANGED <<scenarios, running, out, late, rec, unsaved>>

Stop(n) ==
    /\ running[n] # NoRun
    /\ run' = [run EXCEPT ![running[n]].cancelled = TRUE]
    /\ running' = [running EXCEPT ![n] = NoRun]
    /\ UNCHANGED <<scenarios, out, late, rec, unsaved>>

-----------------------------------------------------------------------------
(* The goroutine of a replay *)

\* Fault: the loop ends before the last event.
Over_BeforeLast(r) ==
    \A i \in run[r].next..(Len(run[r].script) - 1) : run[r].script[i] = "note"

\* No event is left; annotations behind the last event are never reached.
Over(r) == \A i \in run[r].next..Len(run[r].script) : run[r].script[i] = "note"

Annotate(r) ==
    /\ run[r].pc = "waiting" /\ ~Over(r)
    /\ run[r].script[run[r].next] = "note"
    /\ run' = [run EXCEPT ![r].next = @ + 1]
    /\ out' = [out EXCEPT ![r] = Append(@, "note")]
    /\ UNCHANGED <<scenarios, running, late, rec, unsaved>>

\* Fault: an event whose time has come goes out without a last look at cancel.
Due_Unchecked(r) ==
    /\ run[r].pc = "waiting" /\ ~Over(r)
    /\ run[r].script[run[r].next] = "event"
    /\ run' = [run EXCEPT ![r].pc = "firing"]
    /\ UNCHANGED <<scenarios, running, out, late, rec, unsaved>>

\* The event's time has come and the channel was not closed at the last look.
Due(r) ==
    /\ run[r].pc = "waiting" /\ ~Over(r)
    /\ run[r].script[run[r].next] = "event"
    /\ ~run[r].cancelled
    /\ run' = [run EXCEPT ![r].pc = "firing"]
    /\ UNCHANGED <<scenarios, running, out, late, rec, unsaved>>

\* The recorder's hook: one more event, up to the bound, while it is recording.
Recorded == IF rec.state = "recording" /\ rec.count < MaxRecorded
            THEN [rec EXCEPT !.count = @ + 1] ELSE rec

\* sink.Process, hooks included, and on to the next event.
Fire(r) ==
    /\ run[r].pc = "firing"
    /\ run' = [run EXCEPT ![r].pc = "waiting", ![r].next = @ + 1]
    /\ out' = [out EXCEPT ![r] = Append(@, "event")]
    /\ late' = [late EXCEPT ![r] = @ + IF run[r].cancelled THEN 1 ELSE 0]
    /\ rec' = Recorded
    /\ UNCHANGED <<scenarios, running, unsaved>>

Return(r) ==
    /\ run[r].pc = "waiting"
    /\ run[r].cancelled \/ Over(r)
    /\ run' = [run EXCEPT ![r].pc = "returning"]
    /\ UNCHANGED <<scenarios, running, out, late, rec, unsaved>>

\* Fault: a replay waits for its own entry before it deletes it.
Unlist_Own(r) ==
    /\ run[r].pc = "returning" /\ running[run[r].name] = r
    /\ running' = [running EXCEPT ![run[r].name] = NoRun]
    /\ run' = [run EXCEPT ![r].pc = "done"]
    /\ UNCHANGED <<scenarios, out, late, rec, unsaved>>

\* The deferred delete, whoever is listed under the name by now.
Unlist(r) ==
    /\ run[r].pc = "returning"
    /\ running' = [running EXCEPT ![run[r].name] = NoRun]
    /\ run' = [run EXCEPT ![r].pc = "done"]
    /\ UNCHANGED <<scenarios, out, late, rec, unsaved>>

-----------------------------------------------------------------------------
(* Injection and recording *)

Inject ==
    /\ Recorded # rec
    /\ rec' = Recorded
    /\ UNCHANGED <<scenarios, running, run, out, late, unsaved>>

StartRecording(n) ==
    /\ rec.state # "recording"
    /\ rec' = [state |-> "recording", name |-> n, count |-> 0]
    /\ UNCHANGED <<scenarios, running, run, out, late, unsaved>>

\* Recorder.Stop, and later in the same handler Engine.AddScenario.
StopRecording ==
    /\ rec.state = "recording"
    /\ rec' = [rec EXCEPT !.state = "stopped"]
    /\ unsaved' = unsaved \cup
          {[name |-> rec.name, script |-> [i \in 1..rec.count |-> "event"]]}
    /\ UNCHANGED <<scenarios, running, run, out, late>>

AddScenario(sc) ==
    /\ sc \in unsaved
    /\ unsaved' = unsaved \ {sc}
    /\ scenarios' = [n \in DOMAIN scenarios \cup {sc.name} |->
                        IF n = sc.name THEN sc.script ELSE scenarios[n]]
    /\ UNCHANGED <<running, run, out, late, rec>>

-----------------------------------------------------------------------------
RunStep(r) == Annotate(r) \/ Due(r) \/ Fire(r) \/ Return(r) \/ Unlist(r)

Next ==
    \/ \E r \in Runs, n \in Names : Replay(r, n)
    \/ \E n \in Names : Stop(n)
    \/ \E n \in Recordings : StartRecording(n)
    \/ \E r \in Runs : RunStep(r)
    \/ Inject \/ StopRecording
    \/ \E sc \in unsaved : AddScenario(sc)

Spec == Init /\ [][Next]_vars

\* A started goroutine is run, and every delay of a script ends.
LiveSpec == Spec /\ \A r \in Runs : WF_vars(RunStep(r))

-----------------------------------------------------------------------------
(* Properties *)

\* The replay a scenario is listed with is still there and its channel is open:
\* Stop never closes a channel twice, which would end the process.
ListedIsOpen ==
    \A n \in Names : running[n] # NoRun =>
        /\ Used(running[n]) /\ run[running[n]].name = n
        /\ run[running[n]].pc # "done" /\ ~run[running[n]].cancelled

\* A cancelled replay sends at most the event it was about to send.
StopLeavesOne == \A r \in Runs : late[r] <= 1

\* A replay sends its script in order, whatever becomes of the scenario under its
\* name meanwhile, and all the script's events unless it is stopped.
ReplayFaithful ==
    \A r \in Runs : Used(r) =>
        /\ IsPrefix(out[r], run[r].script)
        /\ run[r].pc = "done" /\ ~run[r].cancelled =>
              \A i \in DOMAIN run[r].script : run[r].script[i] = "event" => i \in DOMAIN out[r]

\* Every replay ends and is taken off the list, stopped or not.
ReplayEnds == \A r \in Runs : Used(r) ~> Used(r) /\ run[r].pc = "done"

-----------------------------------------------------------------------------
(* What the source says and the code does not do *)

Playing(r) == run[r].pc \in {"waiting", "firing"} /\ ~run[r].cancelled

\* "Returns an error if the scenario doesn't exist or is already running": no
\* scenario is replayed by two goroutines at once.
NeverReplayedTwice ==
    \A r, q \in Runs :
        r # q /\ Playing(r) /\ Playing(q) => run[r].name # run[q].name
=============================================================================
