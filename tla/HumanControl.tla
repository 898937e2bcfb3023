----------------------------- MODULE HumanControl -----------------------------
(***************************************************************************)
(* A human takes the browser from the agent and gives it back:             *)
(* HitlController of agent/hitl.py with the recorder of human actions, and *)
(* the loop of agent/executor.py (execute, execute_manual) that runs       *)
(* between two commands.                                                   *)
(*                                                                         *)
(* The run thread owns the browser.  HTTP handlers only queue a command,   *)
(* set hitl_interrupt and, for a cancel, context.stopped; the thread       *)
(* executes commands wherever it calls process_pending_commands.  A        *)
(* command takes two actions, because its submitter may give up between    *)
(* the test of command.cancelled and the end of the execution.             *)
(*                                                                         *)
(* What the models answer is nondeterministic.  Of the done and stuck      *)
(* recovery only the order of planner calls is here; its counters are the  *)
(* module DoneRecovery.                                                    *)
(***************************************************************************)
EXTENDS Naturals, Sequences

CONSTANTS
    Modes,       \* run modes to explore: "auto" (execute), "manual"
    Submitted,   \* bound: HITL commands a user submits
    MaxSteps,    \* options.max_steps
    PlanEvery,   \* options.planning_interval
    MaxFailures, \* options.max_failures
    MaxHuman,    \* bound: recorded actions of the human
    MaxFaults    \* bound: exceptions of recorder.start and of _flush_to_history

ASSUME HumanAssumption ==
    /\ Modes \subseteq {"auto", "manual"}
    /\ Submitted \in Nat /\ MaxHuman \in Nat /\ MaxFaults \in Nat
    /\ MaxSteps \in Nat \ {0} /\ PlanEvery \in Nat \ {0} /\ MaxFailures \in Nat \ {0}

VARIABLES
    runMode,   \* "auto" or "manual"
    ctx,       \* the flags of AgentContext
    at,        \* program point of the run thread
    then,      \* where _should_stop returns to, or what the planner is called for
    turn,      \* [step, nSteps, failures, planDone]
    cmds,      \* the HITL commands, in the order of their submission
    queue,     \* _command_queue: indices of cmds
    current,   \* the command being executed, or 0
    recorder,  \* HumanActionRecorder: [active, buf]
    outcome,   \* how the run thread left the executor, or "none"
    past,      \* context.history, "h" <<number>> of a human action, "a" of an agent's batch
    done       \* ghosts: [human, agent, faults] what happened in the browser

humanVars == <<runMode, ctx, at, then, turn, cmds, queue, current, recorder, outcome, past, done>>

Cmd == 1..Submitted
CmdAction == {"take", "return", "finish"}
Command == [action : CmdAction, queued : BOOLEAN, waiting : BOOLEAN,
            cancelled : BOOLEAN, done : BOOLEAN]

Flags == [paused : BOOLEAN, stopped : BOOLEAN, awaiting : BOOLEAN,
          controlling : BOOLEAN, interrupt : BOOLEAN,
          deadline : {"none", "armed", "passed"}, timedOut : BOOLEAN,
          forceReplan : BOOLEAN, handoff : BOOLEAN, finished : BOOLEAN]

\* Where process_pending_commands runs
Draining == {"stopping", "held", "drain", "head", "stuck", "manual"}
LoopAt == Draining \cup {"start", "gate", "plan", "nav", "batch", "settle", "criteria",
                       "grading", "leaving", "over"}
Outcome == {"none", "pass", "fail", "spoiled", "answer", "manual", "stopped", "limit", "error"}
Goal == {"before", "nav", "iterate", "loop", "confirm", "recover"}

Entry == {"h", "a"} \X Nat

HumanTypeOK ==
    /\ runMode \in Modes
    /\ ctx \in Flags
    /\ at \in LoopAt /\ then \in Goal
    /\ turn \in [step : 0..MaxSteps, nSteps : 0..MaxSteps,
                 failures : 0..MaxFailures, planDone : BOOLEAN]
    /\ cmds \in Seq(Command) /\ Len(cmds) \in 0..Submitted
    /\ queue \in Seq(Cmd)
    /\ current \in 0..Submitted
    /\ outcome \in Outcome
    /\ recorder \in [active : BOOLEAN, buf : Seq(Nat)]
    /\ past \in Seq(Entry)
    /\ done \in [human : 0..MaxHuman, agent : 0..MaxSteps, faults : 0..MaxFaults]

-----------------------------------------------------------------------------
(* HitlController: the commands' bodies, as functions of the whole state.    *)

State == [ctx |-> ctx, recorder |-> recorder, past |-> past, faults |-> done.faults]

\* Mutant: a second take-over starts the recording anew.
StartedAnew(r) == [active |-> TRUE, buf |-> <<>>]

\* recorder.start(): an active recorder keeps what it has
Started(r) == IF r.active THEN r ELSE [active |-> TRUE, buf |-> <<>>]

\* Mutant: no deadline for a human who takes the browser unasked.
IntervenedForever(c) == [c EXCEPT !.paused = TRUE, !.awaiting = TRUE]

\* request_intervention
Intervened(c) ==
    [c EXCEPT !.paused = TRUE, !.awaiting = TRUE,
              !.deadline = IF runMode = "manual" THEN "none" ELSE "armed"]

\* take_control; recorder.start() may raise, after human_controlling is set
Controlling(c) ==
    IF c.controlling THEN c
    ELSE [IF c.awaiting THEN c ELSE Intervened(c)
             EXCEPT !.controlling = TRUE, !.interrupt = FALSE]

TakeControl(s) ==
    {[s EXCEPT !.ctx = Controlling(s.ctx), !.recorder = Started(s.recorder)]}
    \cup IF s.recorder.active \/ s.faults = MaxFaults THEN {}
         ELSE {[s EXCEPT !.ctx = Controlling(s.ctx), !.faults = @ + 1]}

\* _capture_and_flush_recorded: stop the recorder and append to the history,
\* which may raise; the buffer is then put back
Flushed(s) ==
    LET stopped == [s EXCEPT !.recorder.active = FALSE]
        human == [i \in DOMAIN s.recorder.buf |-> <<"h", s.recorder.buf[i]>>]
    IN  {[stopped EXCEPT !.past = @ \o human, !.recorder.buf = <<>>]}
        \cup IF s.recorder.buf = <<>> \/ s.faults = MaxFaults THEN {}
             ELSE {[stopped EXCEPT !.faults = @ + 1]}

\* return_control
ReturnControl(s) ==
    IF ~s.ctx.controlling /\ ~s.ctx.awaiting THEN {s}
    ELSE {[f EXCEPT !.ctx = [@ EXCEPT !.controlling = FALSE, !.awaiting = FALSE,
                                      !.deadline = "none", !.forceReplan = TRUE,
                                      !.interrupt = FALSE, !.paused = FALSE,
                                      !.handoff = TRUE]] : f \in Flushed(s)}

\* finish_manual
FinishManual(s) ==
    IF runMode # "manual" THEN {s}
    ELSE {[f EXCEPT !.ctx = [@ EXCEPT !.controlling = FALSE, !.awaiting = FALSE,
                                      !.deadline = "none", !.interrupt = FALSE,
                                      !.finished = TRUE, !.paused = FALSE]]
             : f \in Flushed(s)}

\* flush_recorded_to_history
FlushRecorded(s) ==
    IF ~s.ctx.controlling /\ ~s.recorder.active /\ s.recorder.buf = <<>>
    THEN {s} ELSE Flushed(s)

Become(s) ==
    /\ ctx' = s.ctx /\ recorder' = s.recorder /\ past' = s.past
    /\ done' = [done EXCEPT !.faults = s.faults]

-----------------------------------------------------------------------------
HumanInit ==
    /\ runMode \in Modes
    /\ ctx = [paused |-> FALSE, stopped |-> FALSE, awaiting |-> FALSE,
              controlling |-> FALSE, interrupt |-> FALSE, deadline |-> "none",
              timedOut |-> FALSE, forceReplan |-> FALSE, handoff |-> FALSE,
              finished |-> FALSE]
    /\ at = IF runMode = "manual" THEN "start" ELSE "gate"
    /\ then = "before"
    /\ turn = [step |-> 0, nSteps |-> 0, failures |-> 0, planDone |-> FALSE]
    /\ cmds = <<>> /\ queue = <<>> /\ current = 0
    /\ recorder = [active |-> FALSE, buf |-> <<>>]
    /\ outcome = "none"
    /\ past = <<>>
    /\ done = [human |-> 0, agent |-> 0, faults |-> 0]

-----------------------------------------------------------------------------
(* HTTP handlers: submit_command and its API callers, and Executor.cancel    *)

InLoop == at \notin {"leaving", "over"}
Put(i) == queue' = Append(queue, i)
Submit(a) ==
    [action |-> a, queued |-> a # "take", waiting |-> a = "return",
     cancelled |-> FALSE, done |-> FALSE]

\* POST take-control: the flag first, the queue later (QueueTake)
SubmitTake ==
    /\ InLoop /\ Len(cmds) < Submitted
    /\ cmds' = Append(cmds, Submit("take"))
    /\ ctx' = [ctx EXCEPT !.interrupt = TRUE]
    /\ UNCHANGED <<runMode, at, then, turn, queue, current, recorder, outcome, past, done>>

QueueTake(i) ==
    /\ ~cmds[i].queued
    /\ cmds' = [cmds EXCEPT ![i].queued = TRUE]
    /\ Put(i)
    /\ UNCHANGED <<runMode, ctx, at, then, turn, current, recorder, outcome, past, done>>

\* POST return-control and finish-manual
SubmitOther(a) ==
    /\ InLoop /\ Len(cmds) < Submitted
    /\ a = IF runMode = "manual" THEN "finish" ELSE "return"
    /\ cmds' = Append(cmds, Submit(a))
    /\ Put(Len(cmds) + 1)
    /\ UNCHANGED <<runMode, ctx, at, then, turn, current, recorder, outcome, past, done>>

\* submit_command stops waiting for the answer, or has it
Answered(i) ==
    /\ cmds[i].waiting /\ cmds[i].done
    /\ cmds' = [cmds EXCEPT ![i].waiting = FALSE]
    /\ UNCHANGED <<runMode, ctx, at, then, turn, queue, current, recorder, outcome, past, done>>

GiveUp(i) ==
    /\ cmds[i].waiting /\ ~cmds[i].done
    /\ cmds' = [cmds EXCEPT ![i].waiting = FALSE, ![i].cancelled = TRUE]
    /\ UNCHANGED <<runMode, ctx, at, then, turn, queue, current, recorder, outcome, past, done>>

\* Executor.cancel on the event loop: flush, then context.stop()
CancelRun ==
    /\ InLoop /\ ~ctx.stopped
    /\ \E s \in FlushRecorded(State) : Become([s EXCEPT !.ctx.stopped = TRUE])
    /\ UNCHANGED <<runMode, at, then, turn, cmds, queue, current, outcome>>

-----------------------------------------------------------------------------
(* process_pending_commands                                                  *)

Runs(i, s) ==
    CASE cmds[i].action = "take"   -> TakeControl(s)
      [] cmds[i].action = "return" -> ReturnControl(s)
      [] OTHER                     -> FinishManual(s)

\* get_nowait, the test of command.cancelled, and the command itself
ExecuteCommand ==
    /\ at \in Draining /\ current = 0 /\ queue # <<>>
    /\ LET i == Head(queue) IN
       IF cmds[i].cancelled
       THEN /\ cmds' = [cmds EXCEPT ![i].done = TRUE]
            /\ UNCHANGED <<ctx, recorder, past, done, current>>
       ELSE /\ \E s \in Runs(i, State) : Become(s)
            /\ current' = i
            /\ UNCHANGED cmds
    /\ queue' = Tail(queue)
    /\ UNCHANGED <<runMode, at, then, turn, outcome>>

\* Mutant: only take_control itself lowers the interrupt.
EndCommandRaised ==
    /\ current # 0
    /\ cmds' = [cmds EXCEPT ![current].done = TRUE]
    /\ current' = 0
    /\ UNCHANGED <<runMode, ctx, at, then, turn, queue, recorder, outcome, past, done>>

\* the finally block
EndCommand ==
    /\ current # 0
    /\ cmds' = [cmds EXCEPT ![current].done = TRUE]
    /\ ctx' = [ctx EXCEPT !.interrupt = @ /\ cmds[current].action # "take"]
    /\ current' = 0
    /\ UNCHANGED <<runMode, at, then, turn, queue, recorder, outcome, past, done>>

Drained == current = 0 /\ queue = <<>>

-----------------------------------------------------------------------------
(* Executor.execute                                                          *)

Goto(p, t) == at' = p /\ then' = t /\ UNCHANGED outcome
Leave(o) == at' = "leaving" /\ outcome' = o /\ UNCHANGED then
Still == UNCHANGED <<runMode, cmds, queue, current>>

\* After the for loop: a plan that said done still goes to the criteria checker
EndLoop(o, t) ==
    /\ IF t.planDone THEN Goto("criteria", "iterate") ELSE Leave(o)
    /\ turn' = t

\* Mutant: one iteration too many.
IterateAgain(t) ==
    IF t.step = MaxSteps
    THEN EndLoop(IF ctx.stopped THEN "stopped" ELSE "limit", t)
    ELSE Goto("gate", "before") /\ turn' = [t EXCEPT !.step = @ + 1]

\* continue
Iterate(t) ==
    IF t.step + 1 = MaxSteps
    THEN EndLoop(IF ctx.stopped THEN "stopped" ELSE "limit", t)
    ELSE Goto("gate", "before") /\ turn' = [t EXCEPT !.step = @ + 1]

\* An exception counted by consecutive_failures; at the limit it ends the run
Fail(t) == [t EXCEPT !.failures = @ + 1]
AtLimit(t) == t.failures + 1 = MaxFailures

\* _should_stop returned False
Resume ==
    CASE then = "before"  -> Goto("head", then) /\ UNCHANGED turn
      [] then = "nav"     -> Goto("nav", then) /\ UNCHANGED turn
      [] then = "iterate" -> Iterate(turn)

\* check_timeout and _fail_timeout
TimeIsUp == runMode = "auto" /\ ctx.awaiting /\ ctx.deadline = "passed"
FailTimeout ==
    \E s \in IF ctx.controlling THEN FlushRecorded(State) ELSE {State} :
        Become([s EXCEPT !.ctx = [@ EXCEPT !.controlling = FALSE, !.awaiting = FALSE,
                                           !.timedOut = TRUE, !.stopped = TRUE]])

\* _should_stop: entry, commands, timeout; then the loop while paused
Gate ==
    /\ at = "gate"
    /\ IF ctx.stopped THEN EndLoop("stopped", turn)
       ELSE Goto("stopping", then) /\ UNCHANGED turn
    /\ Still /\ UNCHANGED <<ctx, recorder, past, done>>

ShouldStop ==
    /\ at \in {"stopping", "held"} /\ Drained
    /\ \/ /\ TimeIsUp
          /\ FailTimeout
          /\ EndLoop("stopped", turn)
       \/ /\ ~TimeIsUp
          /\ \/ at = "held" /\ ctx.stopped /\ EndLoop("stopped", turn)
             \/ at = "stopping" /\ ctx.paused /\ Goto("held", then) /\ UNCHANGED turn
             \/ at = "held" /\ ~ctx.stopped /\ ~ctx.paused /\ Resume
             \/ at = "stopping" /\ ~ctx.paused /\ Resume
          /\ UNCHANGED <<ctx, recorder, past, done>>
    /\ Still

\* Mutant: straight from the commands to the navigator.
DrainToNavigate ==
    /\ at = "drain" /\ Drained
    /\ Goto(IF then = "nav" THEN "nav" ELSE "gate", then)
    /\ Still /\ UNCHANGED <<turn, ctx, recorder, past, done>>

\* process_pending_commands, then _should_stop
Drain ==
    /\ at = "drain" /\ Drained
    /\ Goto("gate", then)
    /\ Still /\ UNCHANGED <<turn, ctx, recorder, past, done>>

\* The head of an iteration: plan (after the debrief of a handoff) or navigate
ShouldPlan == ctx.forceReplan \/ ctx.handoff \/ turn.nSteps % PlanEvery = 0
PlanOrNavigate ==
    /\ at = "head" /\ Drained
    /\ IF ShouldPlan THEN Goto("plan", "loop") ELSE Goto("drain", "nav")
    /\ ctx' = IF ShouldPlan THEN [ctx EXCEPT !.forceReplan = FALSE, !.handoff = FALSE] ELSE ctx
    /\ Still /\ UNCHANGED <<turn, recorder, past, done>>

\* The planner's answer, "none" when _run_planner returns None
Answers == {"none", "go", "done", "chat", "chatDone"}
Finished(a) == a \in {"done", "chatDone"}

AfterPlan(a, t) ==
    LET new == IF then = "recover" THEN t ELSE [t EXCEPT !.planDone = Finished(a)]
    IN  \/ /\ then = "loop" /\ ctx.interrupt
           /\ Goto("drain", "iterate") /\ turn' = new
        \/ /\ then # "loop" \/ ~ctx.interrupt
           /\ CASE then = "loop" /\ a = "chatDone" -> Leave("answer") /\ turn' = new
                [] Finished(a)  -> Goto("criteria", then) /\ turn' = new
                [] then = "loop" /\ a # "chat" -> Goto("drain", "nav") /\ turn' = new
                [] OTHER -> Iterate(new)

\* _run_planner: PlannerAgent.execute turns every error of the model into a
\* plan that is not done; observing the page may fail
RunPlanner ==
    /\ at = "plan"
    /\ \/ \E a \in Answers : /\ a = "none" <=> ctx.interrupt
                            /\ AfterPlan(a, IF a = "none" THEN turn
                                            ELSE [turn EXCEPT !.failures = 0])
       \/ ctx.stopped /\ Leave("stopped") /\ UNCHANGED turn
       \/ AtLimit(turn) /\ Leave("error") /\ UNCHANGED turn
       \/ ~AtLimit(turn) /\ AfterPlan("none", Fail(turn))
    /\ Still /\ UNCHANGED <<ctx, recorder, past, done>>

\* NavigatorAgent.execute up to its batch of actions
Navigate ==
    /\ at = "nav"
    /\ \/ ctx.interrupt /\ Goto("drain", "iterate") /\ UNCHANGED turn
       \/ ctx.stopped /\ Leave("stopped") /\ UNCHANGED turn
       \/ Leave("error") /\ UNCHANGED turn
       \/ ~ctx.interrupt /\ Goto("batch", then) /\ UNCHANGED turn
    /\ Still /\ UNCHANGED <<ctx, recorder, past, done>>

\* execute_multi: nothing is done when the run was interrupted or stopped before
Batch ==
    /\ at = "batch"
    /\ \/ ctx.interrupt /\ Goto("drain", "iterate") /\ UNCHANGED <<turn, done>>
       \/ ctx.stopped /\ ~ctx.interrupt /\ Iterate(turn) /\ UNCHANGED done
       \/ /\ ~ctx.interrupt /\ ~ctx.stopped
          /\ done' = [done EXCEPT !.agent = @ + 1]
          /\ Goto("settle", then) /\ UNCHANGED turn
    /\ Still /\ UNCHANGED <<ctx, recorder, past>>

\* After the batch: an interrupt leaves it out of the history.  What the step
\* leads to: a planner that confirms done or recovers, or the next iteration.
Settle ==
    /\ at = "settle"
    /\ \/ /\ ctx.interrupt
          /\ Goto("drain", "iterate") /\ UNCHANGED <<turn, past>>
       \/ Leave("error") /\ UNCHANGED <<turn, past>>
       \/ /\ ~ctx.interrupt
          /\ past' = Append(past, <<"a", done.agent>>)
          /\ LET next == [turn EXCEPT !.nSteps = @ + 1, !.failures = 0] IN
             IF ctx.stopped THEN Iterate(turn)
             ELSE \/ Goto("plan", "confirm") /\ turn' = next
                  \/ Goto("stuck", "recover") /\ turn' = next
                  \/ Iterate(next)
    /\ Still /\ UNCHANGED <<ctx, recorder, done>>

\* _handle_stuck_recovery: commands, then the planner
Stuck ==
    /\ at = "stuck" /\ Drained
    /\ Goto("plan", "recover")
    /\ Still /\ UNCHANGED <<turn, ctx, recorder, past, done>>

\* _finalize_with_criteria: the checker answers passed = FALSE to any exception,
\* that of a cancel or a take-over included
CheckCriteria ==
    /\ at = "criteria"
    /\ IF ctx.interrupt \/ ctx.stopped THEN Leave("spoiled") ELSE Goto("grading", then)
    /\ Still /\ UNCHANGED <<turn, ctx, recorder, past, done>>

Grade ==
    /\ at = "grading"
    /\ \/ Leave("pass") \/ Leave("fail")
       \/ (ctx.interrupt \/ ctx.stopped) /\ Leave("spoiled")
    /\ Still /\ UNCHANGED <<turn, ctx, recorder, past, done>>

\* The finally block of execute
Finally ==
    /\ at = "leaving"
    /\ at' = "over"
    /\ ctx' = [ctx EXCEPT !.interrupt = @ /\ runMode = "manual"]
    /\ Still /\ UNCHANGED <<then, turn, outcome, recorder, past, done>>

-----------------------------------------------------------------------------
(* Executor.execute_manual                                                   *)

StartManual ==
    /\ at = "start"
    /\ \E s \in TakeControl(State) :
        /\ Become(s)
        /\ IF s.recorder.active THEN Goto("manual", then) ELSE Leave("error")
    /\ Still /\ UNCHANGED turn

\* The loop's end; _finalize_manual_demonstration flushes once more
EndManual ==
    /\ at = "manual" /\ Drained
    /\ \/ ctx.stopped /\ Leave("stopped") /\ UNCHANGED <<ctx, recorder, past, done>>
       \/ /\ ~ctx.stopped /\ ctx.finished
          /\ \E s \in FlushRecorded(State) : \E t \in FlushRecorded(s) : Become(t)
          /\ Leave("manual")
    /\ Still /\ UNCHANGED turn

-----------------------------------------------------------------------------
(* The human and the clock                                                   *)

\* A click, key or text is reported while the run thread waits in the browser
HumanActs ==
    /\ recorder.active /\ at \in {"held", "manual", "plan"} /\ current = 0
    /\ done.human < MaxHuman
    /\ done' = [done EXCEPT !.human = @ + 1]
    /\ recorder' = [recorder EXCEPT !.buf = Append(@, done.human + 1)]
    /\ Still /\ UNCHANGED <<at, then, turn, ctx, outcome, past>>

DeadlinePasses ==
    /\ ctx.deadline = "armed"
    /\ ctx' = [ctx EXCEPT !.deadline = "passed"]
    /\ Still /\ UNCHANGED <<at, then, turn, outcome, recorder, past, done>>

-----------------------------------------------------------------------------
RunThread ==
    \/ ExecuteCommand \/ EndCommand
    \/ Gate \/ ShouldStop \/ Drain \/ PlanOrNavigate \/ RunPlanner
    \/ Navigate \/ Batch \/ Settle \/ Stuck
    \/ CheckCriteria \/ Grade \/ Finally
    \/ StartManual \/ EndManual

Handlers ==
    \/ SubmitTake \/ CancelRun
    \/ \E a \in {"return", "finish"} : SubmitOther(a)
    \/ \E i \in DOMAIN cmds : QueueTake(i) \/ Answered(i) \/ GiveUp(i)

HumanNext == RunThread \/ Handlers \/ HumanActs \/ DeadlinePasses

HumanSpec == HumanInit /\ [][HumanNext]_humanVars
FairHumanSpec == HumanSpec /\ WF_humanVars(RunThread) /\ WF_humanVars(DeadlinePasses)

-----------------------------------------------------------------------------
\* The agent observes, decides and acts only while no human has the browser.
AgentHandsOff == at \in {"nav", "batch", "settle"} => ~ctx.controlling

\* hitl_interrupt is up only for a take-over that is still to be executed or
\* ended: a stale flag would abort every later call of a model.
InterruptHasACause ==
    ctx.interrupt => \E i \in DOMAIN cmds : cmds[i].action = "take" /\ ~cmds[i].done

\* What the human did under recording is in the history or still recorded: once,
\* and in order; a browser error in between may only lose, not repeat.
HumanPast == {i \in DOMAIN past : past[i][1] = "h"}
HumanActionsKept ==
    LET buf == recorder.buf IN
    /\ \A i, j \in HumanPast : i < j => past[i][2] < past[j][2]
    /\ \A k, l \in DOMAIN buf : k < l => buf[k] < buf[l]
    /\ \A i \in HumanPast, k \in DOMAIN buf : past[i][2] < buf[k]
    /\ done.faults = 0 =>
          \A n \in 1..done.human : \/ \E i \in HumanPast : past[i][2] = n
                                   \/ \E k \in DOMAIN buf : buf[k] = n

\* After a human gave the browser back, the agent makes a new plan before it acts.
HandBackReplans == at = "nav" => ~ctx.handoff /\ ~ctx.forceReplan

\* A run that was not cancelled fails its criteria only by the checker's answer.
VerdictIsTheCheckers == outcome = "spoiled" => ctx.stopped

\* A run whose human never answers, or never gives the browser back, ends.
AutoRunEnds == runMode = "auto" ~> at = "over"
==============================================================================
