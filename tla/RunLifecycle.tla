----------------------------- MODULE RunLifecycle -----------------------------
(***************************************************************************)
(* One user's automation runs from POST /api/runs to the purge: the HTTP   *)
(* handlers of server/app.py, run_automation of server/runner.py with the  *)
(* parts of Executor and HitlController that decide when it ends, and a    *)
(* crash of the server.                                                    *)
(*                                                                         *)
(* A handler has no await in it, so handlers exclude each other; a run     *)
(* thread steps between any two statements.  _cancel_active_run is two     *)
(* actions because it sends browser.stop and writes the row in between.    *)
(* The browser is the local one: the Connect lease, which can only refuse  *)
(* or delay a start, is ConnectLease.                                      *)
(***************************************************************************)
EXTENDS RunRecords

\* The environment.  PurgeLive = FALSE: a user purges a run only when its thread
\* is over (the code lets go of a cancelled or finished run before that).
\* MayCrash = FALSE: the server stays up.
CONSTANTS PurgeLive, MayCrash

ASSUME EnvironmentAssumption == PurgeLive \in BOOLEAN /\ MayCrash \in BOOLEAN

VARIABLES
    thread,    \* [Runs -> run_automation and the RunState it works on]
    mode,      \* run_mode
    api        \* the run whose _cancel_active_run is under way, or NoRun

vars == <<recordVars, thread, mode, api>>

\* Program points of run_automation; at "persist" an executor may also never
\* have been.
WithExecutor == {"check", "executing", "step", "returned", "grading",
                 "teardown", "saved", "pointer", "persist"}
ThreadPc == WithExecutor \cup {"new", "spawned", "loading", "opening", "over"}

\* status, _cancelled, context.stopped and context.awaiting_human
Thread == [pc : ThreadPc, status : Status \cup {"none"},
           cancelled : BOOLEAN, stopped : BOOLEAN, awaiting : BOOLEAN]

TypeOK ==
    /\ RecordsTypeOK
    /\ thread \in [Runs -> Thread]
    /\ mode \in [Runs -> {"training", "manual", "automatic"}]
    /\ api \in RunOrNone

Idle == [pc |-> "new", status |-> "none",
         cancelled |-> FALSE, stopped |-> FALSE, awaiting |-> FALSE]

Init ==
    /\ RecordsInit
    /\ thread = [r \in Runs |-> Idle]
    /\ mode = [r \in Runs |-> "training"]
    /\ api = NoRun

objStatus == [r \in Runs |-> thread[r].status]
Known(r) == mem[r] # "none" \/ row[r] # "none"
Shown(r) == IF mem[r] = "none" THEN row[r] ELSE StatusIn(mem, objStatus, r)
Active(r) == StatusIn(mem, objStatus, r) \in ActiveStatus

-----------------------------------------------------------------------------
(* server/app.py *)

\* start_run.  A refused start only rehydrates, which ReadRun and ListRuns do.
StartRun(r, m, s) ==
    LET asked == IF m # "automatic" THEN mem
                 ELSE Rehydrated(mem, row, IF Known(s) THEN {s} ELSE Runs)
        new == [Idle EXCEPT !.pc = "spawned", !.status = "pending"]
    IN
    /\ api = NoRun
    /\ thread[r].pc = "new"
    /\ m = "automatic" => /\ s \in replays
                          /\ Known(s) \/ Dependents(asked, s) # {}
    /\ ActiveIn(asked, objStatus) = {}
    /\ thread' = [thread EXCEPT ![r] = new]
    /\ mode' = [mode EXCEPT ![r] = m]
    /\ source' = [source EXCEPT ![r] = IF m = "automatic" THEN s ELSE NoRun]
    /\ mem' \in Evict([asked EXCEPT ![r] = "own"], [objStatus EXCEPT ![r] = "pending"])
    /\ row' = [row EXCEPT ![r] = "pending"]
    /\ UNCHANGED <<replays, trained, api>>

\* The handlers that look a run up (_require_owned_run), and ws_run_stream
ReadRun(r) ==
    /\ api = NoRun
    /\ mem[r] = "none" /\ row[r] # "none"
    /\ mem' \in Evict(Rehydrated(mem, row, {r}), objStatus)
    /\ UNCHANGED <<row, replays, trained, source, thread, mode, api>>

\* GET /api/runs
ListRuns ==
    /\ api = NoRun
    /\ \E r \in Runs : mem[r] = "none" /\ row[r] # "none"
    /\ mem' \in Evict(Rehydrated(mem, row, Runs), objStatus)
    /\ UNCHANGED <<row, replays, trained, source, thread, mode, api>>

\* PUT /api/runs/{id}/replay
EditReplay(r) ==
    /\ api = NoRun
    /\ mem[r] # "none"
    /\ replays' = replays \cup {r}
    /\ UNCHANGED <<mem, row, trained, source, thread, mode, api>>

\* _cancel_active_run, up to the browser.stop
CancelMarks(r) ==
    /\ api = NoRun
    /\ Active(r)
    /\ api' = r
    /\ IF mem[r] = "own"
         THEN /\ thread' = [thread EXCEPT ![r].cancelled = TRUE, ![r].status = "cancelled",
                                          ![r].stopped = @ \/ thread[r].pc \in WithExecutor]
              /\ UNCHANGED mem
         ELSE /\ mem' = [mem EXCEPT ![r] = "cancelled"]
              /\ UNCHANGED thread
    /\ UNCHANGED <<row, replays, trained, source, mode>>

\* Mutant: the run is looked up again, and what _runs holds is written.
CancelPersistsHeld ==
    /\ api # NoRun
    /\ row' = [row EXCEPT ![api] = mem[api]]
    /\ api' = NoRun
    /\ UNCHANGED <<mem, replays, trained, source, thread, mode>>

\* ... and run.persist
CancelPersists ==
    /\ api # NoRun
    /\ row' = [row EXCEPT ![api] = StatusIn(mem, objStatus, api)]
    /\ api' = NoRun
    /\ UNCHANGED <<mem, replays, trained, source, thread, mode>>

Purgeable(r) == /\ Known(r) /\ Shown(r) \notin ActiveStatus
                /\ PurgeLive \/ thread[r].pc \in {"new", "over"}

\* Mutant: the replay goes with the run, whoever still replays it.
PurgeForgetsDependents(r) ==
    LET rows == [row EXCEPT ![r] = "none"]
        left == Rehydrated([mem EXCEPT ![r] = "none"], rows, Runs)
    IN
    /\ api = NoRun
    /\ Purgeable(r)
    /\ row' = rows
    /\ trained' = IF trained = r THEN NoRun ELSE trained
    /\ replays' = replays \ {r}
    /\ mem' \in Evict(left, objStatus)
    /\ UNCHANGED <<source, thread, mode, api>>

\* Mutant: the task keeps pointing at the run.
PurgeKeepsPointer(r) ==
    LET rows == [row EXCEPT ![r] = "none"]
        left == Rehydrated([mem EXCEPT ![r] = "none"], rows, Runs)
    IN
    /\ api = NoRun
    /\ Purgeable(r)
    /\ row' = rows
    /\ replays' = IF Dependents(left, r) = {} THEN replays \ {r} ELSE replays
    /\ mem' \in Evict(left, objStatus)
    /\ UNCHANGED <<trained, source, thread, mode, api>>

\* _purge_owned_runs of one run
Purge(r) ==
    LET rows == [row EXCEPT ![r] = "none"]
        left == Rehydrated([mem EXCEPT ![r] = "none"], rows, Runs)
        unused == {q \in {r, source[r]} \cap Runs : left[q] = "none" /\ Dependents(left, q) = {}}
    IN
    /\ api = NoRun
    /\ Purgeable(r)
    /\ row' = rows
    /\ trained' = IF trained = r THEN NoRun ELSE trained
    /\ replays' = replays \ unused
    /\ mem' \in Evict(left, objStatus)
    /\ UNCHANGED <<source, thread, mode, api>>

\* The server dies and comes back; nothing looks at the rows it left.
Restart ==
    /\ MayCrash
    /\ \E r \in Runs : thread[r].pc \notin {"new", "over"} \/ mem[r] # "none"
    /\ thread' = [r \in Runs |-> IF thread[r].pc = "new" THEN Idle
                                 ELSE [Idle EXCEPT !.pc = "over"]]
    /\ mem' = [r \in Runs |-> "none"]
    /\ api' = NoRun
    /\ UNCHANGED <<row, replays, trained, source, mode>>

-----------------------------------------------------------------------------
(* server/runner.py: run_automation *)

Step(r, from, t) ==
    /\ thread[r].pc = from
    /\ thread' = [thread EXCEPT ![r] = t]

\* A step that leaves the records alone.
Quietly(r, from, t) == Step(r, from, t) /\ UNCHANGED <<recordVars, mode, api>>

At(r, pc) == [thread[r] EXCEPT !.pc = pc]
Ends(r, pc, status) == [thread[r] EXCEPT !.pc = pc, !.status = status]
\* except ...: if run.status != "cancelled": _set_terminal_status
Raises(r, pc, status) ==
    Ends(r, pc, IF thread[r].status = "cancelled" THEN "cancelled" ELSE status)

\* The thread does not look whether the run was cancelled before it started.
Begin(r) == Quietly(r, "spawned", Ends(r, "loading", "running"))

\* An automatic run reads the replay of its source before anything else.
Loads(r) ==
    Quietly(r, "loading",
            IF mode[r] = "automatic" /\ source[r] \notin replays
              THEN Raises(r, "persist", "fail") ELSE At(r, "opening"))

\* Connect is offline, the browser or the LLM does not start
OpenFails(r) == Quietly(r, "opening", Raises(r, "persist", "fail"))

\* The browser is open and run.executor is set.
Opens(r) == Quietly(r, "opening", At(r, "check"))

\* Mutant: the status is asked, not the event.
CheckStatusOnly(r) ==
    Quietly(r, "check", IF thread[r].status = "cancelled" THEN Ends(r, "teardown", "cancelled")
                      ELSE At(r, "executing"))

CheckCancelled(r) ==
    Quietly(r, "check", IF thread[r].cancelled THEN Ends(r, "teardown", "cancelled")
                      ELSE At(r, "executing"))

-----------------------------------------------------------------------------
(* Executor.execute, execute_manual and the HITL loop.  "executing" is the     *)
(* point where _should_stop is asked, "step" where it has just said no; an      *)
(* automatic run asks nobody until its script has been worked through.          *)

KeepsGoing(r) ==
    /\ mode[r] = "training"
    /\ ~thread[r].stopped /\ ~thread[r].awaiting
    /\ Quietly(r, "executing", At(r, "step"))

StepDone(r) == mode[r] = "training" /\ Quietly(r, "step", At(r, "executing"))

\* request_intervention: asked for by the agent or by take_control; a manual
\* run begins with it
NeedsHuman(r) ==
    /\ \/ mode[r] = "training" /\ thread[r].pc = "step"
       \/ mode[r] = "manual" /\ thread[r].pc = "executing" /\ ~thread[r].awaiting
    /\ Quietly(r, thread[r].pc, [Ends(r, "executing", "awaiting_human") EXCEPT !.awaiting = TRUE])

\* return_control, and finish_manual in a manual run
HumanReturns(r) ==
    /\ thread[r].awaiting
    /\ Quietly(r, "executing",
               [Ends(r, IF mode[r] = "manual" THEN "step" ELSE "executing", "running")
                   EXCEPT !.awaiting = FALSE])

\* _fail_timeout; a demonstration has no deadline
HumanTimesOut(r) ==
    /\ thread[r].awaiting
    /\ mode[r] = "training"
    /\ Quietly(r, "executing",
               [Ends(r, "executing", "fail") EXCEPT !.awaiting = FALSE, !.stopped = TRUE])

\* execute returns None; it or execute_manual raises RequestCancelledError
SeesStop(r) ==
    /\ mode[r] # "automatic"
    /\ thread[r].stopped
    /\ thread[r].pc \in {"executing", "step"}
    /\ \/ mode[r] = "training" /\ Quietly(r, thread[r].pc, At(r, "returned"))
       \/ thread[r].cancelled /\ Quietly(r, thread[r].pc, Raises(r, "teardown", "cancelled"))

\* MaxStepsReachedError, MaxFailuresReachedError, any other exception
ExecuteFails(r) ==
    /\ thread[r].pc \in {"executing", "step"}
    /\ Quietly(r, thread[r].pc, Raises(r, "teardown", "fail"))

\* The task, the demonstration or the script is complete.
ExecuteReturns(r) ==
    Quietly(r, IF mode[r] = "automatic" THEN "executing" ELSE "step", At(r, "returned"))

\* The test after execute(): cancelled, hitl_timed_out (the other reason for
\* stopped), a result to grade, or none
AfterExecute(r) ==
    IF thread[r].cancelled \/ thread[r].status = "cancelled" \/ thread[r].stopped
      THEN Quietly(r, "returned", At(r, "teardown"))
      ELSE Quietly(r, "returned", At(r, "grading"))
           \/ Quietly(r, "returned", Ends(r, "teardown", "fail"))

\* _apply_criteria_verdict, _finalize_manual_demonstration
Grade(r) == \E verdict \in {"pass", "fail"} :
                Quietly(r, "grading", Ends(r, "teardown", verdict))

\* The checker's LLM call raises, or is interrupted
GradeFails(r) ==
    \/ Quietly(r, "grading", Raises(r, "teardown", "fail"))
    \/ /\ thread[r].stopped
       /\ Quietly(r, "grading", Raises(r, "teardown", "cancelled"))

-----------------------------------------------------------------------------
(* The finally block, after teardown_connect_and_browser *)

\* run.status != "cancelled": save_run_history, and what follows
SavesAnything(r) ==
    Quietly(r, "teardown",
            At(r, IF thread[r].status = "cancelled" THEN "persist" ELSE "saved"))

Trains(r) == mode[r] # "automatic"

\* _save_run_replay_data writes nothing when no action can be replayed; a
\* training that did not pass loses the replay it may have.
SaveReplay(r) ==
    /\ \/ /\ Trains(r) /\ thread[r].status = "pass"
          /\ Step(r, "saved", At(r, "pointer"))
          /\ replays' \in {replays, replays \cup {r}}
       \/ /\ Trains(r) /\ thread[r].status # "pass"
          /\ Step(r, "saved", At(r, "persist"))
          /\ replays' = replays \ {r}
       \/ /\ ~Trains(r)
          /\ Step(r, "saved", At(r, "persist"))
          /\ UNCHANGED replays
    /\ UNCHANGED <<mem, row, trained, source, mode, api>>

SetPointer(r) ==
    /\ Step(r, "pointer", At(r, "persist"))
    /\ trained' = IF r \in replays THEN r ELSE trained
    /\ UNCHANGED <<mem, row, replays, source, mode, api>>

\* Mutant: the cancel flag is trusted, not the status.
PersistCancelled(r) ==
    /\ Step(r, "persist", [At(r, "over") EXCEPT !.stopped = FALSE, !.awaiting = FALSE])
    /\ row' = [row EXCEPT ![r] = IF thread[r].cancelled THEN "cancelled" ELSE thread[r].status]
    /\ UNCHANGED <<mem, replays, trained, source, mode, api>>

\* run.executor = None (and its context with it); run.persist
Persist(r) ==
    /\ Step(r, "persist", [At(r, "over") EXCEPT !.stopped = FALSE, !.awaiting = FALSE])
    /\ row' = [row EXCEPT ![r] = thread[r].status]
    /\ UNCHANGED <<mem, replays, trained, source, mode, api>>

-----------------------------------------------------------------------------
ExecutorStep(r) ==
    \/ KeepsGoing(r) \/ StepDone(r) \/ NeedsHuman(r) \/ HumanTimesOut(r)
    \/ SeesStop(r) \/ ExecuteFails(r) \/ ExecuteReturns(r)

ThreadStep(r) ==
    \/ Begin(r) \/ Loads(r) \/ OpenFails(r) \/ Opens(r) \/ CheckCancelled(r)
    \/ ExecutorStep(r) \/ AfterExecute(r) \/ Grade(r) \/ GradeFails(r)
    \/ SavesAnything(r) \/ SaveReplay(r) \/ SetPointer(r) \/ Persist(r)

Handler ==
    \/ \E r \in Runs : \/ \E m \in {"training", "manual"} : StartRun(r, m, NoRun)
                       \/ \E s \in Runs \ {r} : StartRun(r, "automatic", s)
                       \/ ReadRun(r) \/ EditReplay(r) \/ CancelMarks(r) \/ Purge(r)
    \/ ListRuns
    \/ CancelPersists

Next == Handler \/ Restart \/ \E r \in Runs : ThreadStep(r) \/ HumanReturns(r)

Spec == Init /\ [][Next]_vars

\* Run threads are scheduled, and every call they make comes back (the LLM
\* requests, the replay actions and the browser have timeouts of their own).
\* Nothing obliges a human to return control, nor a user to send a request.
FairSpec == Spec /\ \A r \in Runs : WF_vars(ThreadStep(r))

-----------------------------------------------------------------------------
(* Properties *)

AtWork(r) == /\ thread[r].pc \in {"spawned", "loading", "opening", "check", "executing",
                                  "step", "returned", "grading"}
             /\ ~thread[r].cancelled /\ ~thread[r].stopped

\* One run at a time: whatever is evicted, rehydrated, purged or cancelled, the
\* start gate never lets a second run work beside one that nobody cancelled.
OneRunAtWork == \A q, r \in Runs : AtWork(q) /\ AtWork(r) => q = r

\* A run at work is in memory with its own object, so that DELETE reaches its
\* thread.
RunAtWorkIsControllable == \A r \in Runs : AtWork(r) => mem[r] = "own" /\ Active(r)

\* Once the thread is over and no cancel is under way, the row says what the
\* object in memory says: a restart changes no outcome.
OutcomeIsPersisted ==
    \A r \in Runs : thread[r].pc = "over" /\ mem[r] = "own" /\ api # r
                    => row[r] = thread[r].status

\* The task never points at a run whose replay is gone.
TrainedRunHasReplay == trained # NoRun => trained \in replays

\* As long as the user has an automatic run, no purge, of the source itself, of
\* another dependent or of anything else, takes the replay it needs away; only
\* the source's own thread may, when it did not pass.
SourceReplayIsKept ==
    [][\A r \in Runs :
          LET s == source[r] IN
          /\ s # NoRun /\ Known(r) /\ Known(r)'
          /\ s \in replays /\ thread'[s] = thread[s]
          => s \in replays']_vars

\* A cancelled run comes to an end.
CancelledRunEnds == \A r \in Runs : thread[r].cancelled ~> thread[r].pc = "over"

\* A cancelled run does not become the trained one.
CancelledRunDoesNotTrain == \A r \in Runs : thread[r].cancelled => trained # r

\* A purge is a hard delete: a run that was purged stays away.
PurgedRunStaysGone ==
    [][\A r \in Runs : thread[r].pc # "new" /\ ~Known(r) => row'[r] = "none"]_vars

\* Only a run that a thread works on stands in the way of a start.
StaleRunBlocksNobody ==
    \A r \in Runs : Active(r) => thread[r].pc \notin {"new", "over"}
==============================================================================
