---------------------------- MODULE MessageMemory ----------------------------
(***************************************************************************)
(* What the models are told: the message history of a run                  *)
(* (agent/messages/service.py) and the agents that write to it.            *)
(*                                                                         *)
(* The state of the page is in the history for one call of a model only,   *)
(* because its element indexes are stale afterwards.  Before a call the    *)
(* history is cut to the token limit: the oldest messages that nothing     *)
(* protects make room for one summary, then the state is truncated.  A     *)
(* hand-back of the browser makes every plan void.  Messages are known by  *)
(* their kind, and tokens are small numbers.                               *)
(***************************************************************************)
EXTENDS Naturals, SequencesExt, Subsequences

CONSTANTS
    TokenLimit,  \* settings.max_input_tokens
    MaxCalls,    \* bound: calls of a model
    MaxHandBacks \* bound: hand-backs

ASSUME MemoryAssumption == TokenLimit \in Nat /\ MaxCalls \in Nat /\ MaxHandBacks \in Nat

VARIABLES
    memory,    \* history.messages: [kind, tokens]
    tokens,    \* history.total_tokens
    told,      \* context.state_message_added
    summaryAt, \* _summary_message_index, or 0
    call,      \* who is calling a model, and how far: [by, at, plan]
    fresh,     \* context.post_hitl_fresh_start
    used       \* [calls, handBacks]

memoryVars == <<memory, tokens, told, summaryAt, call, fresh, used>>

\* "spent": a state that was truncated to nothing
Tokens == [init |-> 1, state |-> 4, spent |-> 1, summary |-> 1, plan |-> 2,
           void |-> 1, human |-> 1, note |-> 1, output |-> 2, interrupted |-> 1]
MessageKind == DOMAIN Tokens
Message == [kind : MessageKind, tokens : 1..4]

MemoryTypeOK ==
    /\ memory \in Seq(Message) /\ tokens \in Nat
    /\ told \in BOOLEAN /\ fresh \in BOOLEAN
    /\ summaryAt \in 0..Len(memory)
    /\ call \in [by : {"nobody", "navigator", "planner", "critic", "debrief"},
                 at : {"idle", "observed", "cutting", "answered"}, plan : Nat]
    /\ used \in [calls : 0..MaxCalls, handBacks : 0..MaxHandBacks]

Msg(k) == [kind |-> k, tokens |-> Tokens[k]]
Sum(s) == FoldLeft(LAMBDA n, m : n + m.tokens, 0, s)

MemoryInit ==
    /\ memory = <<Msg("init")>> /\ tokens = Tokens.init
    /\ told = FALSE /\ summaryAt = 0 /\ fresh = FALSE
    /\ call = [by |-> "nobody", at |-> "idle", plan |-> 0]
    /\ used = [calls |-> 0, handBacks |-> 0]

-----------------------------------------------------------------------------
(* MessageManager and MessageHistory, on h = [memory, tokens, summaryAt]     *)

History == [memory |-> memory, tokens |-> tokens, summaryAt |-> summaryAt]
Become2(h) == memory' = h.memory /\ tokens' = h.tokens /\ summaryAt' = h.summaryAt

\* add_message_with_tokens
Add(h, k) == [h EXCEPT !.memory = Append(@, Msg(k)), !.tokens = @ + Tokens[k]]
AddIf(h, k, b) == IF b THEN Add(h, k) ELSE h

\* insert: a position beyond the end is the end
AddAt(h, k, i) ==
    LET p == IF i > Len(h.memory) + 1 THEN Len(h.memory) + 1 ELSE i IN
    [memory |-> InsertAt(h.memory, p, Msg(k)), tokens |-> h.tokens + Tokens[k],
     summaryAt |-> IF h.summaryAt # 0 /\ i <= h.summaryAt THEN h.summaryAt + 1 ELSE h.summaryAt]

\* remove_message_at
Without(h, i) == [h EXCEPT !.memory = RemoveAt(@, i), !.tokens = @ - h.memory[i].tokens]

States(h) == {i \in DOMAIN h.memory : h.memory[i].kind = "state"}
LastOf(S) == CHOOSE i \in S : \A j \in S : j <= i
FirstOf(S) == CHOOSE i \in S : \A j \in S : i <= j

\* Mutant: the last message is taken for the state.
ForgetLast(h) == Without(h, Len(h.memory))

\* remove_last_state_message
ForgetState(h) == IF States(h) = {} THEN h ELSE Without(h, LastOf(States(h)))

\* remove_last_state_message_from_memory
Forgotten(h) == IF told THEN ForgetState(h) ELSE h

\* prepare_post_hitl_resume: the outputs after the last plan, then all plans.
\* total_tokens is left as it was.
Resumed(h) ==
    LET plans == {i \in DOMAIN h.memory : h.memory[i].kind = "plan"} IN
    [h EXCEPT !.memory = [i \in DOMAIN @ |->
        CASE @[i].kind = "plan" -> Msg("void")
          [] @[i].kind = "output" /\ (\A j \in plans : j < i) -> Msg("interrupted")
          [] OTHER -> @[i]]]

\* Mutant: only plans are protected.
TrimmableUnlessPlan(h) ==
    {i \in DOMAIN h.memory : h.memory[i].kind \notin {"init", "state", "summary", "plan"}}

\* _trimmable_indices
Trimmable(h) ==
    {i \in DOMAIN h.memory : h.memory[i].kind \notin {"init", "state", "summary", "plan", "human"}}

\* _ensure_summary_message: after the protected prefix, or where it is already
WithSummary(h) ==
    IF h.summaryAt # 0
    THEN [h EXCEPT !.memory[h.summaryAt] = Msg("summary"),
                   !.tokens = @ - h.memory[h.summaryAt].tokens + Tokens.summary]
    ELSE [h EXCEPT !.memory = InsertAt(@, 2, Msg("summary")),
                   !.tokens = @ + Tokens.summary, !.summaryAt = 2]

\* _truncate_last_state_message: what is left goes to the end
Truncated(h) ==
    LET i == LastOf(States(h))
        left == IF h.memory[i].tokens > h.tokens - TokenLimit
                THEN [kind |-> "state", tokens |-> h.memory[i].tokens - (h.tokens - TokenLimit)]
                ELSE Msg("spent")
        g == Without(h, i)
    IN  [g EXCEPT !.memory = Append(@, left), !.tokens = @ + left.tokens]

-----------------------------------------------------------------------------
(* A call of a model.  The agents hand over their messages before the cut,   *)
(* which thus is felt by the next call only.                                 *)

Idle == call.at = "idle"
Begin(by, at, plan) ==
    /\ Idle /\ used.calls < MaxCalls
    /\ call' = [by |-> by, at |-> at, plan |-> plan]
    /\ used' = [used EXCEPT !.calls = @ + 1]
At2(p) == call' = [call EXCEPT !.at = p]
End2 == call' = [by |-> "nobody", at |-> "idle", plan |-> 0]

\* add_state_message_to_memory: the results of the last actions, then the page
Told(h, results) == Add(AddIf(Forgotten(h), "note", results), "state")

\* The page is not readable: the results are told all the same
ObserveFails ==
    /\ Begin("nobody", "idle", 0)
    /\ \E results \in BOOLEAN : Become2(AddIf(Forgotten(History), "note", results))
    /\ told' = FALSE /\ UNCHANGED fresh

\* NavigatorAgent.execute; a note after the state warns of a commit without effect
NavigatorObserves ==
    /\ Begin("navigator", "observed", 0)
    /\ \E results, warned \in BOOLEAN : Become2(AddIf(Told(History, results), "note", warned))
    /\ told' = TRUE
    /\ fresh' = FALSE

\* _run_planner; it remembers where the plan belongs
PlannerObserves ==
    \E results \in BOOLEAN :
        LET h == Told(AddIf(History, "human", fresh), results) IN
        /\ Begin("planner", "observed", Len(h.memory))
        /\ Become2(h) /\ told' = TRUE /\ UNCHANGED fresh

\* Before the first step there is no page to tell of
PlannerStarts ==
    /\ used.calls = 0
    /\ Begin("planner", "cutting", Len(memory) + 1)
    /\ UNCHANGED <<memory, tokens, summaryAt, told, fresh>>

\* A take-over: the state is withdrawn, and no model is called
Interrupted ==
    /\ call.at = "observed"
    /\ Become2(Forgotten(History)) /\ told' = FALSE
    /\ End2 /\ UNCHANGED <<fresh, used>>

AskModel ==
    /\ call.at = "observed"
    /\ At2("cutting")
    /\ UNCHANGED <<memory, tokens, summaryAt, told, fresh, used>>

\* The critic is preceded by a hint; the debrief comes with the hand-back
CriticStarts ==
    /\ Begin("critic", "cutting", 0)
    /\ Become2(Add(History, "note")) /\ UNCHANGED <<told, fresh>>

\* return_control, then _run_hitl_debrief
HandBackPlans ==
    /\ used.handBacks < MaxHandBacks /\ Idle
    /\ Become2(Resumed(History))
    /\ fresh' = TRUE
    /\ call' = [by |-> "debrief", at |-> "cutting", plan |-> 0]
    /\ used' = [used EXCEPT !.handBacks = @ + 1]
    /\ UNCHANGED told

\* cut_messages, one round of its loop at a time
TooLong == tokens > TokenLimit
CutOldest ==
    /\ call.at = "cutting" /\ TooLong /\ Trimmable(History) # {}
    /\ LET i == FirstOf(Trimmable(History))
           h == Without(History, i)
           moved == [h EXCEPT !.summaryAt = IF @ > i THEN @ - 1 ELSE @]
       IN  Become2(WithSummary(moved))
    /\ UNCHANGED <<told, call, fresh, used>>

CutState ==
    /\ call.at = "cutting" /\ TooLong /\ Trimmable(History) = {} /\ States(History) # {}
    /\ Become2(Truncated(History))
    /\ UNCHANGED <<told, call, fresh, used>>

CutEnds ==
    /\ call.at = "cutting" /\ ~TooLong
    /\ At2("answered")
    /\ UNCHANGED <<memory, tokens, summaryAt, told, fresh, used>>

\* Nothing left to cut raises: an error of the navigator; the planner, the critic
\* and the debrief take it for a bad answer
CutFails ==
    /\ call.at = "cutting" /\ TooLong /\ Trimmable(History) = {} /\ States(History) = {}
    /\ IF call.by = "navigator"
       THEN Become2(Forgotten(History)) /\ told' = FALSE /\ End2
       ELSE At2("answered") /\ UNCHANGED <<memory, tokens, summaryAt, told>>
    /\ UNCHANGED <<fresh, used>>

\* The navigator: an error or a take-over; or notes on the answer, the answer
\* unless it was unusable, notes on the actions
NavigatorAnswers ==
    /\ call = [by |-> "navigator", at |-> "answered", plan |-> 0]
    /\ \E notes, output, after \in BOOLEAN :
           Become2(AddIf(AddIf(AddIf(Forgotten(History), "note", notes), "output", output), "note", after))
    /\ told' = FALSE /\ End2 /\ UNCHANGED <<fresh, used>>

\* The planner's answer is a plan, be it the one that stands for an error
PlannerAnswers ==
    /\ call.by = "planner" /\ call.at = "answered"
    /\ LET h == Forgotten(History) IN
       Become2(AddAt(h, "plan", call.plan)) \/ Become2(h)
    /\ told' = FALSE /\ End2 /\ UNCHANGED <<fresh, used>>

OthersAnswer ==
    /\ call.by \in {"critic", "debrief"} /\ call.at = "answered"
    /\ Become2(Add(History, IF call.by = "critic" THEN "note" ELSE "human"))
    /\ End2 /\ UNCHANGED <<told, fresh, used>>

MemoryNext ==
    \/ ObserveFails \/ NavigatorObserves \/ PlannerObserves \/ PlannerStarts
    \/ Interrupted \/ AskModel \/ CriticStarts \/ HandBackPlans
    \/ CutOldest \/ CutState \/ CutEnds \/ CutFails
    \/ NavigatorAnswers \/ PlannerAnswers \/ OthersAnswer

MemorySpec == MemoryInit /\ [][MemoryNext]_memoryVars

-----------------------------------------------------------------------------
\* No model ever reads the state of a page that is gone: the history holds one
\* state while a model is asked about it, and none between two calls.
OneStateWhileTold ==
    Cardinality(States(History)) <= IF told THEN 1 ELSE 0

\* A cut takes neither the task, nor a plan in force, nor what was said of the
\* human, and keeps their order.
Spared(s) == {i \in DOMAIN s : s[i].kind \in {"init", "plan", "human"}}
Kept(s) == Picked(s, Spared(s))
CutKeepsProtected == [][call.at = "cutting" => Kept(memory') = Kept(memory)]_memoryVars
==============================================================================
