----------------------------- MODULE ActionBatch -----------------------------
(***************************************************************************)
(* The actions of one answer of the navigator: how                         *)
(* NavigatorActionRegistry.execute_multi (actions/builder.py) carries them *)
(* out, what goes into the history, and which of them a replay of the run  *)
(* will repeat (reporting/builder.py, reporting/replay_script.py).         *)
(*                                                                         *)
(* A batch ends early: on an error, a failed verification, a page that     *)
(* moved on, an element that is gone, a take-over.  A commit (a button, or *)
(* Enter) is held back when a field that the batch filled has lost its     *)
(* text.  An action is named by its place in the batch; the text that an   *)
(* input writes is named by the same number.                               *)
(***************************************************************************)
EXTENDS Naturals, SequencesExt, Subsequences

CONSTANTS
    Inputs,      \* the form's fields
    MaxBatch,    \* options.max_actions_per_step
    MaxResets    \* bound: fields the page empties by itself

ASSUME BatchAssumption == MaxBatch \in Nat \ {0} /\ MaxResets \in Nat

VARIABLES
    batch,     \* [acts, retry]: the actions, and whether a failed one is retried (replay_history)
    todo,      \* "attempt", "retry", "wait", "refresh" or "over"
    place,      \* the place of the action at work
    results,   \* what execute_multi returns: [of, kind, status]
    held,      \* BatchState.mutations: [on, text]
    texts,      \* the page: the text in each field, 0 for none
    halted,    \* "interrupt": hitl_interrupt alone; "stop": paused or stopped
    commit,    \* had_commit, page_advanced (and of an attempt to be retried), last_step_had_commit
    deferring, \* page.defer_post_action_stable
    ran,       \* ghost: the actions that were carried out
    resets     \* ghost: how often the page emptied a field

batchVars == <<batch, todo, place, results, held, texts, halted, commit, deferring, ran, resets>>

\* "click" is one that commits nothing; "go" has no element: a navigation, a wait
BatchAction == [kind : {"input"}, on : Inputs]
       \cup [kind : {"commit", "click", "go", "done"}, on : {"none"}]
Status == {"verified", "no_effect", "unverified", "failed", "error"}
Place == 1..MaxBatch

BatchTypeOK ==
    /\ batch \in [acts : BoundedSeq(BatchAction, MaxBatch), retry : BOOLEAN]
    /\ todo \in {"attempt", "retry", "wait", "refresh", "over"}
    /\ place \in Place
    /\ results \in Seq([of : Place \cup {0}, status : Status])
    /\ held \subseteq [on : Inputs, text : Place]
    /\ texts \in [Inputs -> Place \cup {0}]
    /\ halted \in {"no", "interrupt", "stop"} /\ deferring \in BOOLEAN
    /\ commit \in [had : BOOLEAN, advanced : BOOLEAN, attempt : BOOLEAN, stuck : BOOLEAN]
    /\ ran \in Seq(Place) /\ resets \in 0..MaxResets

BatchInit ==
    /\ batch \in [acts : BoundedSeq(BatchAction, MaxBatch) \ {<<>>}, retry : BOOLEAN]
    /\ todo = "attempt" /\ place = 1
    /\ results = <<>> /\ held = {} /\ ran = <<>>
    /\ texts = [f \in Inputs |-> 0]
    /\ halted = "no" /\ deferring = TRUE
    /\ commit = [had |-> FALSE, advanced |-> FALSE, attempt |-> FALSE, stuck |-> FALSE]
    /\ resets = 0

AtWork == batch.acts[place]
IsLast == place = Len(batch.acts)
Indexed(a) == a.kind \in {"input", "commit", "click"}

-----------------------------------------------------------------------------
(* _run_action_attempt                                                       *)

\* apply_verification: what may be found, by the kind of action
Verified(a) ==
    CASE a.kind = "input" -> {"verified", "no_effect", "unverified", "failed", "error"}
      [] a.kind = "done"  -> {"verified"}
      [] OTHER            -> {"verified", "no_effect", "error"}

\* reverify_mutations
Regressed == \E m \in held : texts[m.on] # m.text

\* Mutant: only the first attempt of a commit looks at the fields.
BlockedOnce == AtWork.kind = "commit" /\ Regressed /\ todo = "attempt"

Blocked == AtWork.kind = "commit" /\ Regressed

Written(s) ==
    IF AtWork.kind # "input" THEN texts
    ELSE CASE s = "verified"  -> [texts EXCEPT ![AtWork.on] = place]
           [] s = "no_effect" -> [texts EXCEPT ![AtWork.on] = 0]
           [] OTHER           -> texts

\* The loop is left: record_commit_outcome, then the finally block
Leaves(c) ==
    /\ todo' = "over" /\ deferring' = FALSE
    /\ commit' = [c EXCEPT !.stuck = c.had /\ ~c.advanced]

\* A result that stands for no action: the notice that the batch was cut
Notice == [of |-> 0, status |-> "unverified"]
OutcomeHere(s) == [of |-> place, status |-> s]

\* What execute_multi does with the result of an action.  "moved": url or title
\* are others than before the action.
Keep(s, moved) ==
    LET c == IF AtWork.kind = "commit" THEN [commit EXCEPT !.had = TRUE, !.advanced = moved]
             ELSE commit
        stops == AtWork.kind = "done" \/ s \in {"error", "failed"}
        cut == ~stops /\ ~IsLast /\ moved
    IN  /\ held' = held \cup {m \in [on : {AtWork.on}, text : {place}] : AtWork.kind = "input" /\ s = "verified"}
        /\ results' = results \o <<OutcomeHere(s)>> \o (IF cut THEN <<Notice>> ELSE <<>>)
        /\ IF stops \/ cut \/ IsLast THEN Leaves(c)
           ELSE commit' = c /\ todo' = "refresh" /\ UNCHANGED deferring

\* The commit is held back; its result is the last of the batch
BlockCommit ==
    /\ todo \in {"attempt", "retry"} /\ Blocked
    /\ todo = "attempt" => halted = "no"
    /\ results' = Append(results, OutcomeHere("error"))
    /\ Leaves(commit)
    /\ UNCHANGED <<batch, place, held, texts, halted, ran, resets>>

Attempt ==
    /\ todo \in {"attempt", "retry"} /\ ~Blocked
    /\ todo = "attempt" => halted = "no"
    /\ ran' = Append(ran, place)
    /\ \E s \in Verified(AtWork), moved \in BOOLEAN :
        /\ moved => AtWork.kind \in {"commit", "click", "go"}
        /\ texts' = IF moved THEN [f \in Inputs |-> 0] ELSE Written(s)
        /\ IF s = "error" /\ batch.retry /\ todo = "attempt" /\ halted # "stop"
           THEN /\ todo' = "wait" /\ commit' = [commit EXCEPT !.attempt = moved]
                /\ UNCHANGED <<results, held, deferring>>
           ELSE Keep(s, moved)
    /\ UNCHANGED <<batch, place, halted, resets>>

\* sleep_or_abort is over: the same action once more, unless the run was stopped
RetryAttempt ==
    /\ todo = "wait" /\ halted # "stop"
    /\ todo' = "retry"
    /\ UNCHANGED <<batch, place, results, held, texts, halted, commit, deferring, ran, resets>>

RetryHalted ==
    /\ todo = "wait" /\ halted = "stop"
    /\ Keep("error", commit.attempt)
    /\ UNCHANGED <<batch, place, texts, halted, ran, resets>>

\* The page is read again for the next action, whose element may be gone
NextElement ==
    /\ todo = "refresh"
    /\ todo' = "attempt" /\ place' = place + 1
    /\ UNCHANGED <<batch, results, held, texts, halted, commit, deferring, ran, resets>>

ElementGone ==
    /\ todo = "refresh" /\ Indexed(batch.acts[place + 1])
    /\ results' = Append(results, Notice)
    /\ Leaves(commit)
    /\ UNCHANGED <<batch, place, held, texts, halted, ran, resets>>

\* A take-over, a pause or a stop before the next action
HaltBatch ==
    /\ todo = "attempt" /\ halted # "no"
    /\ Leaves(commit)
    /\ UNCHANGED <<batch, place, results, held, texts, halted, ran, resets>>

\* The browser fails: no results, and the commit flags of the step before stay
RaiseInBatch ==
    /\ todo # "over"
    /\ todo' = "over" /\ results' = <<>> /\ deferring' = FALSE
    /\ UNCHANGED <<batch, place, held, texts, halted, commit, ran, resets>>

-----------------------------------------------------------------------------
(* The page and the other threads                                            *)

ResetField(f) ==
    /\ todo # "over" /\ texts[f] # 0 /\ resets < MaxResets
    /\ texts' = [texts EXCEPT ![f] = 0]
    /\ resets' = resets + 1
    /\ UNCHANGED <<batch, todo, place, results, held, halted, commit, deferring, ran>>

HaltRequested ==
    /\ todo # "over"
    /\ halted' \in {"interrupt", "stop"} /\ halted' # halted /\ halted # "stop"
    /\ UNCHANGED <<batch, todo, place, results, held, texts, commit, deferring, ran, resets>>

BatchNext ==
    \/ BlockCommit \/ Attempt \/ RetryAttempt \/ RetryHalted
    \/ NextElement \/ ElementGone \/ HaltBatch \/ RaiseInBatch
    \/ \E f \in Inputs : ResetField(f)
    \/ HaltRequested

BatchSpec == BatchInit /\ [][BatchNext]_batchVars

-----------------------------------------------------------------------------
(* From the results to the steps of a replay                                 *)

\* build_action_timeline: the i-th result is taken for the i-th action; one
\* beyond the last action has no name and is left out
Timeline == [i \in 1..(IF Len(results) < Len(batch.acts) THEN Len(results) ELSE Len(batch.acts))
               |-> [of |-> i, status |-> results[i].status]]

\* Mutant: only what was seen to have an effect is replayed.
WithEffect(e) == batch.acts[e.of].kind # "done" /\ e.status = "verified"

\* _is_replayable
Replayable(e) == batch.acts[e.of].kind # "done" /\ e.status \notin {"error", "failed"}

\* build_replay_steps
ReplaySteps ==
    LET kept == Picked(Timeline, {i \in DOMAIN Timeline : Replayable(Timeline[i])})
    IN  [i \in DOMAIN kept |-> kept[i].of]

-----------------------------------------------------------------------------
\* A commit, tried again or not, is carried out only while every field that the
\* batch has filled still holds what was written.
CommitsHaveTheirFields ==
    [][ran' # ran /\ batch.acts[Last(ran')].kind = "commit"
        => \A m \in held : texts[m.on] = m.text]_batchVars

\* Every action of the history that was carried out, and not found to fail, is
\* replayed, once and in its place; beyond these at most one step is, the last.
Worked == {i \in Place : \E r \in Range(results) : r.of = i /\ r.status \notin {"error", "failed"}}
RecordedActionsAreReplayed ==
    todo = "over" =>
        LET stray == Range(ReplaySteps) \ Worked IN
        /\ \A i \in Worked : batch.acts[i].kind # "done" => i \in Range(ReplaySteps)
        /\ \A i, j \in DOMAIN ReplaySteps : i < j => ReplaySteps[i] < ReplaySteps[j]
        /\ stray = {} \/ stray = {Last(ReplaySteps)}

\* What is not carried out is not replayed either.  The code violates it: the
\* notice that the batch was cut stands where the next action's result would.
ReplayIsWhatRan == todo = "over" => Range(ReplaySteps) \subseteq Range(ran)
==============================================================================
