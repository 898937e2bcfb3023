------------------------------ MODULE RunStream ------------------------------
(***************************************************************************)
(* The events of a run on their way to a page that watches it              *)
(* (server/run_state.py, ws_run_stream of server/app.py, the events of     *)
(* server/runner.py).                                                      *)
(*                                                                         *)
(* The run's thread changes the run, then hands the event to the event     *)
(* loop for every queue that is subscribed.  A queue has a capacity: an    *)
(* event takes the place of an older one it makes obsolete, and the oldest *)
(* that may be lost makes room.  A page subscribes, gets a snapshot, then  *)
(* the events until "closed".  A cancel speaks from the event loop while   *)
(* the thread goes on for a while.                                         *)
(***************************************************************************)
EXTENDS Naturals, SequencesExt

CONSTANTS
    Capacity,  \* RUN_WS_QUEUE_MAXSIZE
    MaxShown,  \* bound: steps of the run
    MaxAsked,  \* bound: interventions of a human
    MaxLag     \* bound: calls the event loop is late with

ASSUME StreamAssumption ==
    /\ Capacity \in Nat \ {0} /\ MaxShown \in Nat /\ MaxAsked \in Nat
    /\ MaxLag \in Nat \ {0, 1}

VARIABLES
    shown,   \* run.steps by their index: "started" or "ended"
    status,  \* run.status
    asked,   \* interventions so far
    thread,  \* run_automation: [at, said], said is broadcast next
    calls,   \* call_soon_threadsafe, in order, for the queue of the page
    watcher, \* ws_run_stream and the page's reducer
    pending, \* the queue of this connection
    lost     \* steps whose latest event was trimmed

streamVars == <<shown, status, asked, thread, calls, watcher, pending, lost>>

Active == {"running", "awaiting_human"}
StepState == {"started", "ended"}
StreamEvent ==
    [type : {"step"}, index : 1..MaxShown, step : StepState]
    \cup [type : {"status"}, status : {"cancelled"}]
    \cup [type : {"done"}, status : {"pass", "error"}]
    \cup [type : {"human_intervention_required", "human_intervention_ended",
                  "report_ready", "closed"}]
Silence == [type |-> "nothing"]

Away == [at |-> "away", steps |-> <<>>, status |-> "running"]

StreamTypeOK ==
    /\ shown \in Seq(StepState) /\ Len(shown) <= MaxShown
    /\ status \in Active \cup {"pass", "error", "cancelled"}
    /\ asked \in 0..MaxAsked
    /\ thread \in [at : {"running", "reporting", "closing", "ended"},
                   said : StreamEvent \cup {Silence}, cancelled : BOOLEAN]
    /\ \A i \in DOMAIN calls : calls[i] \in StreamEvent
    /\ watcher.at \in {"away", "subscribed", "told", "streaming", "closed"}
    /\ \A i \in DOMAIN pending : pending[i] \in StreamEvent
    /\ Len(pending) <= Capacity
    /\ lost \subseteq 1..MaxShown

StreamInit ==
    /\ shown = <<>> /\ status = "running" /\ asked = 0
    /\ thread = [at |-> "running", said |-> Silence, cancelled |-> FALSE]
    /\ calls = <<>> /\ pending = <<>> /\ lost = {}
    /\ watcher = Away

-----------------------------------------------------------------------------
(* enqueue_run_event                                                         *)

Closed == [type |-> "closed"]
NeverDrop == {"human_intervention_required", "human_intervention_ended", "done",
              "report_ready", "closed"}

\* _coalesce_key
SameKey(e, f) ==
    \/ e.type = "status" /\ f.type = "status"
    \/ e.type = "step" /\ f.type = "step" /\ e.index = f.index

\* _coalesce_append: in place of the one it makes obsolete
Obsolete(q, e) == {i \in DOMAIN q : SameKey(q[i], e)}
Coalesced(q, e) ==
    IF Obsolete(q, e) = {} THEN Append(q, e)
    ELSE [q EXCEPT ![CHOOSE i \in Obsolete(q, e) : TRUE] = e]

\* Mutant: "closed" is not among the events that are kept.
DroppedClose(q) ==
    LET mayGo == {i \in DOMAIN q : q[i].type \notin NeverDrop \ {"closed"}} IN
    IF Len(q) <= Capacity THEN 0
    ELSE IF mayGo = {} THEN 1 ELSE CHOOSE i \in mayGo : \A j \in mayGo : i <= j

\* Mutant: nothing goes when none may be lost.
DroppedIfAllowed(q) ==
    LET mayGo == {i \in DOMAIN q : q[i].type \notin NeverDrop} IN
    IF Len(q) <= Capacity \/ mayGo = {} THEN 0
    ELSE CHOOSE i \in mayGo : \A j \in mayGo : i <= j

\* _trim_run_ws_events: the event that goes, or 0; one is enough, since the
\* queue grows by one
Dropped(q) ==
    LET mayGo == {i \in DOMAIN q : q[i].type \notin NeverDrop} IN
    IF Len(q) <= Capacity THEN 0
    ELSE IF mayGo = {} THEN 1 ELSE CHOOSE i \in mayGo : \A j \in mayGo : i <= j

-----------------------------------------------------------------------------
(* The run's thread.  It changes the run; what it says is broadcast next.    *)

\* Mutant: the page is subscribed once it has its snapshot.
SubscribedLate == watcher.at = "streaming"

Subscribed == watcher.at \in {"subscribed", "told", "streaming"}
ToWatcher(events) ==
    IF Subscribed THEN calls \o events ELSE calls

Quiet == thread.said = Silence
Say(p, e) == thread' = [thread EXCEPT !.at = p, !.said = e]

Broadcast ==
    /\ ~Quiet /\ Len(calls) < MaxLag
    /\ calls' = ToWatcher(<<thread.said>>)
    /\ thread' = [thread EXCEPT !.said = Silence]
    /\ UNCHANGED <<shown, status, asked, watcher, pending, lost>>

\* _upsert_step on step_start: an index of its own
StepStarts ==
    /\ Quiet /\ thread.at = "running" /\ Len(shown) < MaxShown
    /\ shown' = Append(shown, "started")
    /\ Say("running", [type |-> "step", index |-> Len(shown) + 1, step |-> "started"])
    /\ UNCHANGED <<status, asked, calls, watcher, pending, lost>>

\* step_end; a step that was interrupted may end after those of the human
StepEnds ==
    /\ Quiet /\ thread.at = "running"
    /\ \E i \in DOMAIN shown :
        /\ shown[i] = "started"
        /\ shown' = [shown EXCEPT ![i] = "ended"]
        /\ Say("running", [type |-> "step", index |-> i, step |-> "ended"])
    /\ UNCHANGED <<status, asked, calls, watcher, pending, lost>>

AskHuman ==
    /\ Quiet /\ thread.at = "running" /\ status # "awaiting_human" /\ asked < MaxAsked
    /\ status' = "awaiting_human" /\ asked' = asked + 1
    /\ Say("running", [type |-> "human_intervention_required"])
    /\ UNCHANGED <<shown, calls, watcher, pending, lost>>

HumanEnds ==
    /\ Quiet /\ thread.at = "running" /\ status = "awaiting_human"
    /\ status' = "running"
    /\ Say("running", [type |-> "human_intervention_ended"])
    /\ UNCHANGED <<shown, asked, calls, watcher, pending, lost>>

\* _set_terminal_status, unless the run was cancelled
RunDone ==
    /\ Quiet /\ thread.at = "running"
    /\ IF thread.cancelled THEN Say("reporting", Silence) /\ UNCHANGED status
       ELSE \E s \in {"pass", "error"} :
               status' = s /\ Say("reporting", [type |-> "done", status |-> s])
    /\ UNCHANGED <<shown, asked, calls, watcher, pending, lost>>

\* _generate_report, which may fail
RunReports ==
    /\ Quiet /\ thread.at = "reporting"
    /\ \/ status # "cancelled" /\ Say("closing", [type |-> "report_ready"])
       \/ Say("closing", Silence)
    /\ UNCHANGED <<shown, status, asked, calls, watcher, pending, lost>>

RunCloses ==
    /\ Quiet /\ thread.at = "closing"
    /\ Say("ended", Closed)
    /\ UNCHANGED <<shown, status, asked, calls, watcher, pending, lost>>

\* _cancel_active_run
CancelEvents ==
    /\ status \in Active /\ ~thread.cancelled /\ Len(calls) < MaxLag - 1
    /\ status' = "cancelled"
    /\ calls' = ToWatcher(<<[type |-> "status", status |-> "cancelled"], Closed>>)
    /\ thread' = [thread EXCEPT !.cancelled = TRUE]
    /\ UNCHANGED <<shown, asked, watcher, pending, lost>>

-----------------------------------------------------------------------------
(* The event loop: the queues, ws_run_stream and the page at its other end   *)

\* enqueue_run_event
Enqueue ==
    /\ calls # <<>>
    /\ calls' = Tail(calls)
    /\ LET q == Coalesced(pending, Head(calls))
           i == Dropped(q)
       IN  IF i = 0 THEN pending' = q /\ UNCHANGED lost
           ELSE /\ pending' = RemoveAt(q, i)
                /\ lost' = IF q[i].type = "step" THEN lost \cup {q[i].index} ELSE lost
    /\ UNCHANGED <<shown, status, asked, thread, watcher>>

Subscribe ==
    /\ watcher.at \in {"away", "closed"}
    /\ watcher' = [Away EXCEPT !.at = "subscribed"]
    /\ UNCHANGED <<shown, status, asked, thread, calls, pending, lost>>

\* to_dict; the send that follows lets the event loop go on
Snapshot ==
    /\ watcher.at = "subscribed"
    /\ watcher' = [watcher EXCEPT !.at = "told", !.steps = shown, !.status = status]
    /\ UNCHANGED <<shown, status, asked, thread, calls, pending, lost>>

\* unsubscribe: what is still on its way is for nobody, and the page starts over
Unsubscribe(at) ==
    /\ watcher' = [Away EXCEPT !.at = at]
    /\ calls' = <<>> /\ pending' = <<>> /\ lost' = {}

\* The send has returned; a run that is over by now is closed at once
SnapshotSent ==
    /\ watcher.at = "told"
    /\ \/ /\ status \in Active
          /\ watcher' = [watcher EXCEPT !.at = "streaming"]
          /\ UNCHANGED <<calls, pending, lost>>
       \/ /\ status \notin Active
          /\ Unsubscribe("closed")
    /\ UNCHANGED <<shown, status, asked, thread>>

\* The reducer of the page; upsertStep puts a step in its place
Applied(w, e) ==
    CASE e.type = "step" ->
             [w EXCEPT !.steps = [i \in 1..(IF Len(@) > e.index THEN Len(@) ELSE e.index) |->
                IF i = e.index THEN e.step ELSE IF i <= Len(@) THEN @[i] ELSE "missing"]]
      [] e.type \in {"status", "done"} -> [w EXCEPT !.status = e.status]
      [] e.type = "human_intervention_required" -> [w EXCEPT !.status = "awaiting_human"]
      [] e.type = "human_intervention_ended" -> [w EXCEPT !.status = "running"]
      [] OTHER -> w

Deliver ==
    /\ watcher.at = "streaming" /\ pending # <<>>
    /\ IF Head(pending) = Closed THEN Unsubscribe("closed")
       ELSE /\ watcher' = Applied(watcher, Head(pending))
            /\ pending' = Tail(pending)
            /\ lost' = IF Head(pending).type = "step" THEN lost \ {Head(pending).index} ELSE lost
            /\ UNCHANGED calls
    /\ UNCHANGED <<shown, status, asked, thread>>

\* The page goes away
HangUp ==
    /\ watcher.at \in {"told", "streaming"}
    /\ Unsubscribe("away")
    /\ UNCHANGED <<shown, status, asked, thread>>

StreamNext ==
    \/ Broadcast \/ StepStarts \/ StepEnds \/ AskHuman \/ HumanEnds
    \/ RunDone \/ RunReports \/ RunCloses \/ CancelEvents
    \/ Enqueue \/ Subscribe \/ Snapshot \/ SnapshotSent \/ Deliver \/ HangUp

StreamSpec == StreamInit /\ [][StreamNext]_streamVars

-----------------------------------------------------------------------------
\* A page that has seen all there is to see shows the run: nothing falls between
\* the subscription and the snapshot, no step takes the place of another, and only
\* the steps whose event was trimmed may differ.  (The status is that of the run
\* until a cancel, whose event may overtake those before it.)
PageCatchesUp ==
    (watcher.at = "streaming" /\ Quiet /\ calls = <<>> /\ pending = <<>>) =>
        /\ \A i \in DOMAIN shown :
            i \in lost \/ (i <= Len(watcher.steps) /\ watcher.steps[i] = shown[i])
        /\ thread.cancelled \/ watcher.status = status

\* Whatever was trimmed, the page that streams a run that is over is still told
\* to close: it never waits for a run without a thread.
CloseReachesThePage ==
    (watcher.at = "streaming" /\ thread.at = "ended" /\ Quiet /\ calls = <<>>
        /\ status \notin Active) => Closed \in ToSet(pending)
==============================================================================
