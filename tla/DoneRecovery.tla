----------------------------- MODULE DoneRecovery -----------------------------
(***************************************************************************)
(* When may the agent say that it is done, and what happens when it is     *)
(* stuck: the counters of AgentContext that NavigatorAgent.execute,        *)
(* Executor._navigate and agent/stuck_recovery.py share.                   *)
(*                                                                         *)
(* One iteration of Executor.execute is a navigator step, then either the  *)
(* planner's confirmation of a done or the stuck recovery.  What the       *)
(* models answer and what the page does is nondeterministic; a page is     *)
(* told from the next one by url and title only.                           *)
(***************************************************************************)
EXTENDS Naturals

CONSTANTS
    MaxTurns,        \* bound: iterations, options.max_steps
    MaxUnvalidated,  \* options.max_unvalidated_dones
    StaleThreshold,  \* STALE_PAGE_STEP_THRESHOLD
    MaxNoAction,     \* MAX_CONSECUTIVE_NO_ACTION_STEPS
    MaxCritics       \* MAX_CRITIC_RUNS_PER_EPISODE

ASSUME RecoveryAssumption ==
    /\ MaxTurns \in Nat /\ MaxCritics \in Nat
    /\ MaxUnvalidated \in Nat \ {0} /\ StaleThreshold \in Nat \ {0}
    /\ MaxNoAction \in Nat \ {0, 1}

VARIABLES
    phase,   \* where the iteration is
    spent,   \* iterations begun
    stuck,   \* the counters of AgentContext
    nav      \* the result of the last navigator step

recoveryVars == <<phase, spent, stuck, nav>>

Counters == [stale : 0..MaxTurns, episode : BOOLEAN, critics : 0..MaxCritics,
             unvalidated : 0..MaxUnvalidated, awaiting : BOOLEAN,
             noAction : 0..MaxNoAction, seen : BOOLEAN]

\* The fields of output["result"] that decide something.  "issues": a failed
\* verification or two without effect; "moved": url or title are new.
NavResult == [requestedDone : BOOLEAN, doneBlocked : BOOLEAN, onlyWait : BOOLEAN,
              onlyDone : BOOLEAN, autoWait : BOOLEAN, escalate : BOOLEAN,
              errors : BOOLEAN, issues : BOOLEAN, hint : BOOLEAN,
              elements : BOOLEAN, moved : BOOLEAN]

NoResult == CHOOSE r \in NavResult : \A f \in DOMAIN r : ~r[f]

Phase == {"navigate", "confirm", "progress", "critic", "escalate", "ended"}

RecoveryTypeOK ==
    /\ phase \in Phase /\ spent \in 0..MaxTurns
    /\ stuck \in Counters /\ nav \in NavResult

RecoveryInit ==
    /\ phase = "navigate" /\ spent = 0
    /\ stuck = [stale |-> 0, episode |-> FALSE, critics |-> 0, unvalidated |-> 0,
                awaiting |-> FALSE, noAction |-> 0, seen |-> FALSE]
    /\ nav = NoResult

-----------------------------------------------------------------------------
(* NavigatorAgent.execute                                                    *)

\* What the model answered: nothing usable, waiting, actions, done, or actions
\* and then done; "bad": every indexed action names an element that is not there
Answer == {"nothing", "wait", "act", "done", "act, done", "bad"}

\* Mutant: only a page that stays the same blocks a done
BlocksStaleDone(s) == s.stale >= 2

\* should_block_navigator_done
BlocksDone(s) == s.episode \/ s.stale >= 2 \/ s.unvalidated >= 1

\* What the batch met; "cut": it ended early because the page moved on, an element
\* was gone or a verification failed, so that a done after it is not reached
Page == [errors : BOOLEAN, issues : BOOLEAN, hint : BOOLEAN, elements : BOOLEAN,
         moved : BOOLEAN, cut : BOOLEAN]

Claims(a) == a \in {"done", "act, done"}

\* _consecutive_no_action_steps after the step: at the limit it is kept one below
NoActions(a, s) ==
    IF a # "nothing" THEN 0
    ELSE IF s.noAction + 1 >= MaxNoAction THEN MaxNoAction - 1 ELSE s.noAction + 1

Result(a, s, page) ==
    LET blocked == Claims(a) /\ BlocksDone(s)
        acts == a \in {"act", "act, done"}
    IN  [doneBlocked   |-> blocked,
         requestedDone |-> Claims(a) /\ ~blocked /\ ~(acts /\ (page.errors \/ page.cut)),
         onlyWait      |-> a \in {"nothing", "wait", "bad"} \/ (a = "done" /\ blocked),
         onlyDone      |-> a = "done" /\ ~blocked,
         autoWait      |-> a \in {"nothing", "bad"},
         escalate      |-> a = "nothing" /\ s.noAction + 1 >= MaxNoAction,
         errors        |-> acts /\ page.errors,
         issues        |-> acts /\ page.issues,
         hint          |-> acts /\ page.hint /\ ~page.issues,
         elements      |-> page.elements,
         moved         |-> page.moved]

\* _navigate up to the result; a done that was executed goes to the planner
NavigatorStep ==
    /\ phase = "navigate" /\ spent < MaxTurns
    /\ spent' = spent + 1
    /\ \E a \in Answer : \E page \in Page :
        /\ a \in {"act", "act, done", "bad"} => page.elements
        /\ nav' = Result(a, stuck, page)
        /\ stuck' = [stuck EXCEPT !.noAction = NoActions(a, stuck)]
    /\ phase' = IF nav'.requestedDone THEN "confirm" ELSE "progress"

-----------------------------------------------------------------------------
(* The planner confirms a done, or not                                       *)

Forgiven(s) == [s EXCEPT !.unvalidated = 0, !.episode = FALSE, !.awaiting = FALSE]

\* _check_task_completion and _finalize_with_criteria
End == phase' = "ended" /\ stuck' = Forgiven(stuck) /\ UNCHANGED <<spent, nav>>

\* _reject_premature_done
Rejected(s) == [s EXCEPT !.unvalidated = @ + 1, !.episode = TRUE, !.awaiting = TRUE]

Confirm == phase = "confirm" /\ End

Reject ==
    /\ phase = "confirm"
    /\ IF Rejected(stuck).unvalidated >= MaxUnvalidated THEN End
       ELSE /\ stuck' = Rejected(stuck)
            /\ phase' = "navigate"
            /\ UNCHANGED <<spent, nav>>

-----------------------------------------------------------------------------
(* _handle_stuck_recovery                                                    *)

\* _had_meaningful_progress; the first page is never "changed"
Changed == nav.moved /\ stuck.seen
Progress ==
    Changed \/ ~(nav.errors \/ nav.autoWait \/ nav.hint \/ nav.onlyDone \/ nav.onlyWait)

\* update_page_progress
UpdatedProgress(s) ==
    [IF Progress THEN [Forgiven(s) EXCEPT !.stale = 0, !.critics = 0]
     ELSE [s EXCEPT !.stale = IF s.seen /\ ~nav.moved THEN @ + 1 ELSE 1]
        EXCEPT !.seen = TRUE]

\* detect_stuck_signals and StuckSignals; an escalation counts as the limit
IdleWithElements(s) ==
    /\ nav.autoWait \/ nav.escalate
    /\ nav.elements
    /\ nav.escalate \/ s.noAction >= 2
NeedsPlanner(s) ==
    \/ IdleWithElements(s) \/ nav.hint \/ s.stale >= StaleThreshold
    \/ nav.errors \/ nav.issues
NeedsCritic(s) ==
    /\ s.critics < MaxCritics
    /\ \/ nav.hint \/ IdleWithElements(s)
       \/ s.stale >= StaleThreshold /\ (s.noAction >= 1 \/ nav.escalate)

RecoverStuck ==
    /\ phase = "progress"
    /\ LET s == UpdatedProgress(stuck)
           needed == NeedsPlanner(s) \/ nav.escalate
       IN  /\ stuck' = [s EXCEPT !.episode = @ \/ needed]
           /\ phase' = IF ~needed THEN "escalate" ELSE "critic"
    /\ UNCHANGED <<spent, nav>>

\* The recovery's planner call says done: the run is graded, unless it gave no
\* answer and none is known; then the rejection is forgiven and the run goes on
RecoveryDone == phase = "critic" /\ End

RecoveryDoneUnanswered ==
    /\ phase = "critic"
    /\ stuck' = Forgiven(stuck)
    /\ phase' = "escalate"
    /\ UNCHANGED <<spent, nav>>

\* It does not; the critic may suggest actions
RunCritic ==
    /\ phase = "critic"
    /\ \E n \in {0} \cup IF NeedsCritic(stuck) THEN {1} ELSE {} :
           stuck' = [stuck EXCEPT !.critics = @ + n]
    /\ phase' = "escalate"
    /\ UNCHANGED <<spent, nav>>

\* _should_escalate_done_recovery: idling after a blocked done ends the run
ShouldEscalate == stuck.awaiting /\ nav.doneBlocked /\ (nav.onlyWait \/ nav.autoWait)
Escalate ==
    /\ phase = "escalate"
    /\ IF ShouldEscalate THEN End
       ELSE phase' = "navigate" /\ UNCHANGED <<spent, stuck, nav>>

\* Between two steps: a planner that says done, or a human who had the browser
\* (return_control)
PlannedDone == phase = "navigate" /\ End

HandBackClears ==
    /\ phase = "navigate"
    /\ stuck' = [Forgiven(stuck) EXCEPT !.critics = 0, !.noAction = 0]
    /\ UNCHANGED <<phase, spent, nav>>

RecoveryNext ==
    \/ NavigatorStep \/ Confirm \/ Reject \/ RecoverStuck \/ RecoveryDone
    \/ RecoveryDoneUnanswered \/ RunCritic \/ Escalate \/ PlannedDone \/ HandBackClears

RecoverySpec == RecoveryInit /\ [][RecoveryNext]_recoveryVars

-----------------------------------------------------------------------------
\* After one rejected done every further one is blocked until the page shows
\* progress, which forgives the rejection.  So no done is ever confirmed with a
\* rejection outstanding, and the exit of a second failed confirmation is dead.
OneRejectionAtATime ==
    /\ phase = "confirm" => stuck.unvalidated = 0
    /\ stuck.unvalidated <= 1
==============================================================================
