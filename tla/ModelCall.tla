------------------------------ MODULE ModelCall ------------------------------
(***************************************************************************)
(* One turn of an agent with the language model: llm/retry.py, chat_json   *)
(* and _post of the clients (llm/groq.py and llm/ollama.py are alike in    *)
(* this), get_json_response_with_raw (agents/base.py), and what each agent *)
(* makes of an exception.                                                  *)
(*                                                                         *)
(* A request blocks the run's thread until the API answers.  Meanwhile the *)
(* event loop may set cancel_event (cancel) or hitl_interrupt (a human     *)
(* takes control); both are looked at before each request and while the    *)
(* thread waits to try again.                                              *)
(*                                                                         *)
(* The repair after "all actions were rejected during validation" is left  *)
(* out: get_json_response_with_raw has put the valid actions in the place  *)
(* of those it was given, so that its condition (actions to validate, none *)
(* of them valid) never holds.                                             *)
(***************************************************************************)
EXTENDS Naturals

CONSTANTS MaxAttempts   \* _DEFAULT_MAX_ATTEMPTS
ASSUME ModelCallAssumption == MaxAttempts \in Nat \ {0}

VARIABLES
    request, \* where the request loop stands
    toldTo,    \* what the run has been told: "cancel", "hitl"
    ending, \* what the turn comes to
    made,    \* requests begun in this turn
    before   \* those begun when the run was first told, and was one on its way?

modelVars == <<request, toldTo, ending, made, before>>

Agent == {"navigator", "planner", "critic"}
NotTold == [made |-> 0, busy |-> FALSE]

ModelTypeOK ==
    /\ request \in [agent : Agent, json : BOOLEAN, attempt : 0..(MaxAttempts - 1),
                    repaired : BOOLEAN,
                    at : {"top", "post", "send", "sent", "sleep", "over"}]
    /\ toldTo \subseteq {"cancel", "hitl"}
    /\ ending \in {"none", "answered", "interrupted", "raised", "error", "swallowed"}
    /\ made \in 0..(4 * MaxAttempts)
    /\ before \in [made : 0..(4 * MaxAttempts), busy : BOOLEAN]

\* chat_json begins in JSON mode
Fresh(agent) == [agent |-> agent, json |-> TRUE, attempt |-> 0, repaired |-> FALSE,
                 at |-> "top"]

ModelInit ==
    /\ \E a \in Agent : request = Fresh(a)
    /\ toldTo = {} /\ ending = "none" /\ made = 0 /\ before = NotTold

\* What the event loop does: Executor.cancel, submit_hitl_command of a take-over
RunIsTold(what) ==
    /\ what \notin toldTo /\ request.at # "over"
    /\ toldTo' = toldTo \cup {what}
    /\ before' = IF toldTo = {} THEN [made |-> made, busy |-> request.at \in {"send", "sent"}]
                              ELSE before
    /\ UNCHANGED <<request, ending, made>>

-----------------------------------------------------------------------------
(* Exceptions, as classify_llm_error and the agents tell them apart          *)

\* What NavigatorAgent.execute makes of an exception: RequestCancelledError and the
\* errors that no retry mends leave it, HitlInterruptedError does not, the rest is
\* the step's error.  PlannerAgent.execute and suggest_actions swallow all.
EndsAs(agent, exception) ==
    IF agent # "navigator" THEN "swallowed"
    ELSE CASE exception \in {"cancelled", "refused"} -> "raised"
           [] exception = "interrupted" -> "interrupted"
           [] OTHER -> "error"

Raise(exception) ==
    /\ request' = [request EXCEPT !.at = "over"]
    /\ ending' = EndsAs(request.agent, exception)
    /\ UNCHANGED <<toldTo, made, before>>

\* Mutant: the client is not given the interrupt check.
AbortsOnCancel == "cancel" \in toldTo

\* _check_abort
Aborts == toldTo # {}
RaiseAbort == Raise(IF "cancel" \in toldTo THEN "cancelled" ELSE "interrupted")

GoTo(at) ==
    /\ request' = [request EXCEPT !.at = at]
    /\ UNCHANGED <<toldTo, ending, before>>

-----------------------------------------------------------------------------
(* call_with_retry, _post and chat_json                                      *)

\* The top of call_with_retry's loop, then _post: each looks for an abort
LookFirst ==
    /\ request.at = "top"
    /\ IF Aborts THEN RaiseAbort ELSE GoTo("post") /\ UNCHANGED made

LookAgain ==
    /\ request.at = "post"
    /\ IF Aborts THEN RaiseAbort ELSE GoTo("send") /\ UNCHANGED made

Send ==
    /\ request.at = "send"
    /\ GoTo("sent")
    /\ made' = made + 1

\* sleep_or_abort: looks for an abort before every slice and before it returns
WaitIsOver ==
    /\ request.at = "sleep"
    /\ IF Aborts THEN RaiseAbort
       ELSE /\ request' = [request EXCEPT !.at = "top", !.attempt = @ + 1]
            /\ UNCHANGED <<toldTo, ending, made, before>>

\* A status of 408, 429 or 5xx, or no answer at all
FailsForNow ==
    /\ request.at = "sent"
    /\ IF request.attempt + 1 < MaxAttempts THEN GoTo("sleep") /\ UNCHANGED made
       ELSE Raise("failed")

\* 400: the model may not know JSON mode, and is asked once more without it
BadRequest ==
    /\ request.at = "sent"
    /\ IF request.json
       THEN /\ request' = [request EXCEPT !.json = FALSE, !.attempt = 0, !.at = "top"]
            /\ UNCHANGED <<toldTo, ending, made, before>>
       ELSE Raise("refused")

Denied == request.at = "sent" /\ Raise("refused")           \* 401, 403
FailsForGood == request.at = "sent" /\ Raise("failed")      \* anything else

-----------------------------------------------------------------------------
(* get_json_response_with_raw, _invoke_navigator_with_recovery               *)

ModelAnswers ==
    /\ request.at = "sent"
    /\ request' = [request EXCEPT !.at = "over"]
    /\ ending' = "answered"
    /\ UNCHANGED <<toldTo, made, before>>

\* ResponseParseError: the navigator asks the model once to repair its answer
Unparsable ==
    /\ request.at = "sent"
    /\ IF request.agent = "navigator" /\ ~request.repaired
       THEN /\ request' = [Fresh(request.agent) EXCEPT !.repaired = TRUE]
            /\ UNCHANGED <<toldTo, ending, made, before>>
       ELSE Raise("unparsable")

ModelNext ==
    \/ \E what \in {"cancel", "hitl"} : RunIsTold(what)
    \/ LookFirst \/ LookAgain \/ Send \/ WaitIsOver
    \/ FailsForNow \/ BadRequest \/ Denied \/ FailsForGood
    \/ ModelAnswers \/ Unparsable

ModelSpec == ModelInit /\ [][ModelNext]_modelVars

-----------------------------------------------------------------------------
\* Once the run has been told to stop or to hand over, whatever retry, fallback or
\* repair was due, at most the request that was about to leave is made.  And a turn
\* in which nothing was on its way at that time does not end as an error of the
\* step, which would end the run that the human is about to take.
AbortIsHeeded ==
    toldTo # {} =>
        /\ made <= before.made + 1
        /\ ~before.busy => made = before.made /\ ending # "error"
==============================================================================
