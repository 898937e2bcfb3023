----------------------------- MODULE AgentProofs -----------------------------
(***************************************************************************)
(* Theorems about what the agents do within a step.                        *)
(*                                                                         *)
(* DoneRecovery, for any limits and any number of turns: the counters stay *)
(* within their limits, and a done is never confirmed with a rejection     *)
(* outstanding.  ModelCall, for any number of attempts: a turn has a       *)
(* bounded number of requests, and an abort is heeded.  MessageMemory, for *)
(* any token limit: the history holds one state of the page while a model  *)
(* is asked, and none between.                                             *)
(***************************************************************************)
EXTENDS DoneRecovery, ModelCall, MessageMemory,
        SubsequenceProofs, WellFoundedInduction

-----------------------------------------------------------------------------
(* DoneRecovery: the inductive invariant                                     *)

\* A page can be stale at most once per iteration, counted at its end.
StaleInv ==
    /\ stuck.stale <= spent
    /\ phase = "progress" => stuck.stale < spent

RecoveryInv == RecoveryTypeOK /\ StaleInv /\ OneRejectionAtATime

-----------------------------------------------------------------------------
(* Its operators                                                             *)

LEMMA NoResultType == NoResult \in NavResult
<1> DEFINE no == [requestedDone |-> FALSE, doneBlocked |-> FALSE, onlyWait |-> FALSE,
                  onlyDone |-> FALSE, autoWait |-> FALSE, escalate |-> FALSE,
                  errors |-> FALSE, issues |-> FALSE, hint |-> FALSE,
                  elements |-> FALSE, moved |-> FALSE]
<1>1. no \in NavResult
  BY DEF NavResult
<1>2. \A f \in DOMAIN no : ~no[f]
  OBVIOUS
<1>3. QED BY <1>1, <1>2 DEF NoResult

\* What a navigator step returns, and when it lets a done pass.
LEMMA ResultType ==
    ASSUME NEW a \in Answer, NEW s \in Counters, NEW page \in Page
    PROVE  /\ Result(a, s, page) \in NavResult
           /\ Result(a, s, page).requestedDone => ~BlocksDone(s)
<1> DEFINE blocked == Claims(a) /\ BlocksDone(s)
           acts == a \in {"act", "act, done"}
<1>1. /\ blocked \in BOOLEAN
      /\ (Claims(a) /\ ~blocked /\ ~(acts /\ (page.errors \/ page.cut))) \in BOOLEAN
      /\ (a \in {"nothing", "wait", "bad"} \/ (a = "done" /\ blocked)) \in BOOLEAN
      /\ (a = "done" /\ ~blocked) \in BOOLEAN
      /\ (a \in {"nothing", "bad"}) \in BOOLEAN
      /\ (a = "nothing" /\ s.noAction + 1 >= MaxNoAction) \in BOOLEAN
      /\ (acts /\ page.errors) \in BOOLEAN
      /\ (acts /\ page.issues) \in BOOLEAN
      /\ (acts /\ page.hint /\ ~page.issues) \in BOOLEAN
  OBVIOUS
<1>2. page.elements \in BOOLEAN /\ page.moved \in BOOLEAN
  BY DEF Page
<1>3. Result(a, s, page) \in NavResult
  BY Zenon, <1>1, <1>2 DEF Result, NavResult
<1>4. Result(a, s, page).requestedDone => ~BlocksDone(s)
  BY Zenon DEF Result
<1>5. QED BY <1>3, <1>4

LEMMA NoActionsType ==
    ASSUME NEW a, NEW s \in Counters
    PROVE  NoActions(a, s) \in 0..MaxNoAction
BY RecoveryAssumption DEF NoActions, Counters

LEMMA SmallCounts ==
    /\ 0 \in 0..MaxTurns /\ 0 \in 0..MaxCritics /\ 0 \in 0..MaxNoAction
    /\ 0 \in 0..MaxUnvalidated /\ 1 \in 0..MaxUnvalidated
BY RecoveryAssumption

LEMMA ForgivenType ==
    ASSUME NEW s \in Counters
    PROVE  /\ Forgiven(s) \in Counters
           /\ Forgiven(s).unvalidated = 0
           /\ Forgiven(s).stale = s.stale
<1>1. 0 \in 0..MaxUnvalidated
  BY SmallCounts
<1>2. QED BY <1>1 DEF Forgiven, Counters

-----------------------------------------------------------------------------
(* The invariant holds at first, and every step keeps it                     *)

LEMMA RecoveryInvFirst == RecoveryInit => RecoveryInv
<1> SUFFICES ASSUME RecoveryInit PROVE RecoveryInv
  OBVIOUS
<1>1. nav \in NavResult
  BY NoResultType DEF RecoveryInit
<1>2. stuck \in Counters /\ phase \in Phase /\ spent \in 0..MaxTurns
  BY RecoveryAssumption DEF RecoveryInit, Counters, Phase
<1>3. QED
  BY <1>1, <1>2 DEF RecoveryInit, RecoveryInv, RecoveryTypeOK, StaleInv, OneRejectionAtATime

\* The run's end, and whatever forgives the rejection
LEMMA EndKeeps == ASSUME RecoveryInv, End PROVE RecoveryInv'
<1>1. stuck' \in Counters /\ stuck'.unvalidated = 0 /\ stuck'.stale = stuck.stale
  BY ForgivenType DEF End, RecoveryInv, RecoveryTypeOK
<1>2. phase' = "ended" /\ UNCHANGED <<spent, nav>>
  BY DEF End
<1>3. QED
  BY <1>1, <1>2 DEF RecoveryInv, RecoveryTypeOK, Phase, StaleInv, OneRejectionAtATime

LEMMA NavigatorStepKeeps == ASSUME RecoveryInv, NavigatorStep PROVE RecoveryInv'
<1>1. PICK a \in Answer, page \in Page :
         /\ nav' = Result(a, stuck, page)
         /\ stuck' = [stuck EXCEPT !.noAction = NoActions(a, stuck)]
  BY DEF NavigatorStep
<1>2. stuck \in Counters /\ spent \in 0..MaxTurns /\ spent < MaxTurns /\ spent' = spent + 1
  BY DEF NavigatorStep, RecoveryInv, RecoveryTypeOK
<1>3. phase' = IF nav'.requestedDone THEN "confirm" ELSE "progress"
  BY DEF NavigatorStep
<1>4. nav' \in NavResult /\ (nav'.requestedDone => ~BlocksDone(stuck))
  BY <1>1, <1>2, ResultType
<1>5. /\ stuck' \in Counters
      /\ stuck'.unvalidated = stuck.unvalidated /\ stuck'.stale = stuck.stale
  <2>1. NoActions(a, stuck) \in 0..MaxNoAction
    BY <1>2, NoActionsType
  <2>2. QED BY <1>1, <1>2, <2>1 DEF Counters
<1>6. RecoveryTypeOK'
  BY RecoveryAssumption, <1>2, <1>3, <1>4, <1>5 DEF RecoveryTypeOK, Phase
<1>7. StaleInv'
  BY RecoveryAssumption, <1>2, <1>5 DEF RecoveryInv, StaleInv, Counters
<1>8. OneRejectionAtATime'
  BY <1>2, <1>3, <1>4, <1>5 DEF RecoveryInv, OneRejectionAtATime, BlocksDone, Counters
<1>9. QED BY <1>6, <1>7, <1>8 DEF RecoveryInv

LEMMA RejectKeeps == ASSUME RecoveryInv, Reject PROVE RecoveryInv'
<1>1. CASE Rejected(stuck).unvalidated >= MaxUnvalidated
  BY <1>1, EndKeeps DEF Reject
<1>2. CASE ~(Rejected(stuck).unvalidated >= MaxUnvalidated)
  <2>1. /\ phase = "confirm" /\ phase' = "navigate" /\ stuck' = Rejected(stuck)
        /\ UNCHANGED <<spent, nav>>
    BY <1>2 DEF Reject
  <2>2. stuck \in Counters /\ stuck.unvalidated = 0
    BY <2>1 DEF RecoveryInv, RecoveryTypeOK, OneRejectionAtATime
  <2>3. stuck' \in Counters /\ stuck'.unvalidated = 1 /\ stuck'.stale = stuck.stale
    <3>1. stuck' = [stuck EXCEPT !.unvalidated = 1, !.episode = TRUE, !.awaiting = TRUE]
      BY <2>1, <2>2 DEF Rejected
    <3>2. 1 \in 0..MaxUnvalidated
      BY SmallCounts
    <3>3. QED BY <2>2, <3>1, <3>2 DEF Counters
  <2>4. QED
    BY <2>1, <2>3 DEF RecoveryInv, RecoveryTypeOK, Phase, StaleInv, OneRejectionAtATime
<1>3. QED BY <1>1, <1>2

LEMMA RecoverStuckKeeps == ASSUME RecoveryInv, RecoverStuck PROVE RecoveryInv'
<1> DEFINE s == UpdatedProgress(stuck)
<1>1. /\ phase = "progress" /\ phase' \in {"escalate", "critic"}
      /\ stuck' = [s EXCEPT !.episode = @ \/ (NeedsPlanner(s) \/ nav.escalate)]
      /\ UNCHANGED <<spent, nav>>
  BY Zenon DEF RecoverStuck
<1>2. /\ stuck \in Counters /\ spent \in 0..MaxTurns /\ stuck.stale < spent
      /\ stuck.unvalidated <= 1
  BY <1>1 DEF RecoveryInv, RecoveryTypeOK, StaleInv, OneRejectionAtATime
<1>3. s \in Counters /\ s.stale <= spent /\ s.unvalidated <= 1
  <2>1. CASE Progress
    <3>1. s = [[Forgiven(stuck) EXCEPT !.stale = 0, !.critics = 0] EXCEPT !.seen = TRUE]
      BY <2>1 DEF UpdatedProgress
    <3>2. Forgiven(stuck) \in Counters /\ Forgiven(stuck).unvalidated = 0
      BY <1>2, ForgivenType
    <3>3. 0 \in 0..MaxTurns /\ 0 \in 0..MaxCritics /\ 0 <= spent
      BY SmallCounts, RecoveryAssumption, <1>2
    <3>4. s \in Counters /\ s.stale = 0 /\ s.unvalidated = 0
      BY <3>1, <3>2, <3>3 DEF Counters
    <3>5. QED BY <3>3, <3>4
  <2>2. CASE ~Progress
    <3>1. PICK n \in {stuck.stale + 1, 1} :
             s = [[stuck EXCEPT !.stale = n] EXCEPT !.seen = TRUE]
      BY <2>2 DEF UpdatedProgress
    <3>2. n \in 0..MaxTurns /\ n <= spent
      BY RecoveryAssumption, <1>2 DEF Counters
    <3>3. QED BY <1>2, <3>1, <3>2 DEF Counters
  <2>3. QED BY <2>1, <2>2
<1> HIDE DEF s
<1>4. PICK e \in BOOLEAN : stuck' = [s EXCEPT !.episode = e]
  <2>1. s.episode \/ (NeedsPlanner(s) \/ nav.escalate) \in BOOLEAN
    OBVIOUS
  <2>2. QED BY <1>1
<1>5. stuck' \in Counters /\ stuck'.stale = s.stale /\ stuck'.unvalidated = s.unvalidated
  BY <1>3, <1>4 DEF Counters
<1>6. QED
  BY <1>1, <1>3, <1>5 DEF RecoveryInv, RecoveryTypeOK, Phase, StaleInv, OneRejectionAtATime

LEMMA RunCriticKeeps == ASSUME RecoveryInv, RunCritic PROVE RecoveryInv'
<1>1. PICK n \in {0} \cup (IF NeedsCritic(stuck) THEN {1} ELSE {}) :
         stuck' = [stuck EXCEPT !.critics = @ + n]
  BY DEF RunCritic
<1>2. phase' = "escalate" /\ UNCHANGED <<spent, nav>> /\ stuck \in Counters
  BY DEF RunCritic, RecoveryInv, RecoveryTypeOK
<1>3. stuck.critics + n \in 0..MaxCritics
  BY RecoveryAssumption, <1>2 DEF NeedsCritic, Counters
<1>4. /\ stuck' \in Counters
      /\ stuck'.stale = stuck.stale /\ stuck'.unvalidated = stuck.unvalidated
  BY <1>1, <1>2, <1>3 DEF Counters
<1>5. QED
  BY <1>2, <1>4 DEF RecoveryInv, RecoveryTypeOK, Phase, StaleInv, OneRejectionAtATime

LEMMA ForgiveKeeps ==
    ASSUME RecoveryInv, phase' \in {"escalate", "navigate"}, UNCHANGED <<spent, nav>>,
           \/ stuck' = Forgiven(stuck)
           \/ stuck' = [Forgiven(stuck) EXCEPT !.critics = 0, !.noAction = 0]
    PROVE  RecoveryInv'
<1>1. stuck \in Counters
  BY DEF RecoveryInv, RecoveryTypeOK
<1>2. stuck' \in Counters /\ stuck'.unvalidated = 0 /\ stuck'.stale = stuck.stale
  <2>1. /\ Forgiven(stuck) \in Counters
        /\ Forgiven(stuck).unvalidated = 0 /\ Forgiven(stuck).stale = stuck.stale
    BY <1>1, ForgivenType
  <2>2. CASE stuck' = Forgiven(stuck)
    BY <2>1, <2>2
  <2>3. CASE stuck' = [Forgiven(stuck) EXCEPT !.critics = 0, !.noAction = 0]
    BY <2>1, <2>3, SmallCounts DEF Counters
  <2>4. QED BY <2>2, <2>3
<1>3. QED
  BY <1>2 DEF RecoveryInv, RecoveryTypeOK, Phase, StaleInv, OneRejectionAtATime

LEMMA RecoveryInvKept == RecoveryInv /\ [RecoveryNext]_recoveryVars => RecoveryInv'
<1> SUFFICES ASSUME RecoveryInv, [RecoveryNext]_recoveryVars PROVE RecoveryInv'
  OBVIOUS
<1>1. CASE NavigatorStep  BY <1>1, NavigatorStepKeeps
<1>2. CASE Confirm  BY <1>2, EndKeeps DEF Confirm
<1>3. CASE Reject  BY <1>3, RejectKeeps
<1>4. CASE RecoverStuck  BY <1>4, RecoverStuckKeeps
<1>5. CASE RecoveryDone  BY <1>5, EndKeeps DEF RecoveryDone
<1>6. CASE RecoveryDoneUnanswered  BY <1>6, ForgiveKeeps DEF RecoveryDoneUnanswered
<1>7. CASE RunCritic  BY <1>7, RunCriticKeeps
<1>8. CASE Escalate
  <2>1. CASE ShouldEscalate  BY <1>8, <2>1, EndKeeps DEF Escalate
  <2>2. CASE ~ShouldEscalate
    BY <1>8, <2>2
       DEF Escalate, RecoveryInv, RecoveryTypeOK, Phase, StaleInv, OneRejectionAtATime
  <2>3. QED BY <2>1, <2>2
<1>9. CASE PlannedDone  BY <1>9, EndKeeps DEF PlannedDone
<1>10. CASE HandBackClears  BY <1>10, ForgiveKeeps DEF HandBackClears
<1>11. CASE UNCHANGED recoveryVars
  BY <1>11 DEF recoveryVars, RecoveryInv, RecoveryTypeOK, StaleInv, OneRejectionAtATime
<1>12. QED
  BY <1>1, <1>2, <1>3, <1>4, <1>5, <1>6, <1>7, <1>8, <1>9, <1>10, <1>11 DEF RecoveryNext

\* No step of the executor, the planner or the checker breaks the invariant of the
\* done and stuck recovery.
THEOREM RecoveryInvAlways == RecoverySpec => []RecoveryInv
<1>1. RecoveryInit => RecoveryInv  BY RecoveryInvFirst
<1>2. RecoveryInv /\ [RecoveryNext]_recoveryVars => RecoveryInv'  BY RecoveryInvKept
<1>3. QED BY <1>1, <1>2, PTL DEF RecoverySpec

-----------------------------------------------------------------------------
\* Every counter of the recovery stays within its limit, whatever the models answer.
THEOREM RecoveryTypeCorrectness == RecoverySpec => []RecoveryTypeOK
<1>1. RecoveryInv => RecoveryTypeOK  BY DEF RecoveryInv
<1>2. QED BY <1>1, RecoveryInvAlways, PTL

\* No done reaches the planner while an earlier one is rejected, and no second one
\* is ever rejected.
THEOREM RejectionSafety == RecoverySpec => []OneRejectionAtATime
<1>1. RecoveryInv => OneRejectionAtATime  BY DEF RecoveryInv
<1>2. QED BY <1>1, RecoveryInvAlways, PTL

-----------------------------------------------------------------------------
(* ModelCall: the inductive invariant                                        *)

\* The requests that the loops which are over may have made: with and without
\* JSON mode, of the question and of its repair.
Past ==
    IF request.repaired THEN IF request.json THEN 2 * MaxAttempts ELSE 3 * MaxAttempts
                        ELSE IF request.json THEN 0 ELSE MaxAttempts

\* Is the request of this attempt among those made?
Begun == IF request.at \in {"sent", "sleep"} THEN 1 ELSE 0

\* A loop makes a request per attempt, and a wait is followed by one more.
CountInv ==
    request.at # "over" =>
        /\ made <= Past + request.attempt + Begun
        /\ request.at = "sleep" => request.attempt + 1 < MaxAttempts
        /\ ending = "none"

\* Once the run has been told, only the request that was on its way then goes on.
HeedInv ==
    toldTo # {} =>
        /\ made <= before.made + 1
        /\ request.at = "send" => before.busy /\ made = before.made
        /\ request.at = "sent" => before.busy
        /\ ~before.busy => made = before.made /\ ending # "error"

ModelInv == ModelTypeOK /\ CountInv /\ HeedInv

\* The type of request
Request == [agent : Agent, json : BOOLEAN, attempt : 0..(MaxAttempts - 1), repaired : BOOLEAN,
            at : {"top", "post", "send", "sent", "sleep", "over"}]

-----------------------------------------------------------------------------
(* It holds at first, and every step keeps it                                *)

LEMMA ModelInvFirst == ModelInit => ModelInv
BY ModelCallAssumption
   DEF ModelInit, Fresh, NotTold, ModelInv, ModelTypeOK, CountInv, HeedInv, Past, Begun, Agent

\* An exception ends the turn; only those of an abort may follow one that was
\* told when no request was on its way.
LEMMA RaiseKeeps ==
    ASSUME ModelInv, request.at # "over",
           NEW exception \in {"cancelled", "interrupted", "refused", "failed", "unparsable"},
           Raise(exception),
           toldTo # {} => before.busy \/ exception \in {"cancelled", "interrupted"}
    PROVE  ModelInv'
<1>1. EndsAs(request.agent, exception) \in {"interrupted", "raised", "error", "swallowed"}
  BY DEF EndsAs
<1>2. exception \in {"cancelled", "interrupted"} => EndsAs(request.agent, exception) # "error"
  BY DEF EndsAs
<1>3. ModelTypeOK'
  BY <1>1 DEF ModelInv, ModelTypeOK, Raise
<1>4. CountInv'
  BY DEF ModelInv, ModelTypeOK, CountInv, Raise
<1>5. HeedInv'
  BY <1>2 DEF ModelInv, ModelTypeOK, HeedInv, Raise
<1>6. QED BY <1>3, <1>4, <1>5 DEF ModelInv

LEMMA AbortKeeps ==
    ASSUME ModelInv, request.at # "over", RaiseAbort
    PROVE  ModelInv'
<1>1. CASE "cancel" \in toldTo
  BY <1>1, RaiseKeeps DEF RaiseAbort
<1>2. CASE "cancel" \notin toldTo
  BY <1>2, RaiseKeeps DEF RaiseAbort
<1>3. QED BY <1>1, <1>2

\* A step that ends nothing leads to the next point of a loop.
LEMMA GoToKeeps ==
    ASSUME ModelInv, NEW at \in {"post", "send"}, ~Aborts, GoTo(at), UNCHANGED made,
           request.at \in {"top", "post"}
    PROVE  ModelInv'
<1>1. ModelTypeOK'
  BY DEF ModelInv, ModelTypeOK, GoTo
<1>2. CountInv'
  BY DEF ModelInv, ModelTypeOK, CountInv, Past, Begun, GoTo
<1>3. HeedInv'
  BY DEF ModelInv, HeedInv, GoTo, Aborts
<1>4. QED BY <1>1, <1>2, <1>3 DEF ModelInv

LEMMA ModelInvKept == ModelInv /\ [ModelNext]_modelVars => ModelInv'
<1> SUFFICES ASSUME ModelInv, [ModelNext]_modelVars PROVE ModelInv'
  OBVIOUS
<1>1. ASSUME NEW what \in {"cancel", "hitl"}, RunIsTold(what) PROVE ModelInv'
  <2>1. ModelTypeOK'
    BY <1>1 DEF RunIsTold, ModelInv, ModelTypeOK
  <2>2. CountInv'
    BY <1>1 DEF RunIsTold, ModelInv, CountInv, Past, Begun
  <2>3. CASE toldTo = {}
    <3>1. /\ before' = [made |-> made, busy |-> request.at \in {"send", "sent"}]
          /\ UNCHANGED <<request, ending, made>>
          /\ request.at # "over"
      BY <1>1, <2>3 DEF RunIsTold
    <3>2. before'.made = made /\ (before'.busy <=> request.at \in {"send", "sent"})
      BY <3>1
    <3>3. ending = "none" /\ made \in Nat
      BY <3>1 DEF ModelInv, ModelTypeOK, CountInv
    <3>4. HeedInv'
      BY <3>1, <3>2, <3>3 DEF HeedInv
    <3>5. QED BY <2>1, <2>2, <3>4 DEF ModelInv
  <2>4. CASE toldTo # {}
    BY <1>1, <2>1, <2>2, <2>4 DEF RunIsTold, ModelInv, HeedInv
  <2>5. QED BY <2>3, <2>4
<1>2. CASE LookFirst
  <2>1. CASE Aborts
    BY <1>2, <2>1, AbortKeeps DEF LookFirst
  <2>2. CASE ~Aborts
    <3>1. GoTo("post") /\ UNCHANGED made /\ request.at \in {"top", "post"}
      BY <1>2, <2>2 DEF LookFirst
    <3>2. QED BY <2>2, <3>1, GoToKeeps
  <2>3. QED BY <2>1, <2>2
<1>3. CASE LookAgain
  <2>1. CASE Aborts
    BY <1>3, <2>1, AbortKeeps DEF LookAgain
  <2>2. CASE ~Aborts
    <3>1. GoTo("send") /\ UNCHANGED made /\ request.at \in {"top", "post"}
      BY <1>3, <2>2 DEF LookAgain
    <3>2. QED BY <2>2, <3>1, GoToKeeps
  <2>3. QED BY <2>1, <2>2
<1>4. CASE Send
  <2>1. /\ request.at = "send" /\ request' = [request EXCEPT !.at = "sent"]
        /\ made' = made + 1 /\ UNCHANGED <<toldTo, ending, before>>
    BY <1>4 DEF Send, GoTo
  <2>2. made <= Past + request.attempt /\ Past <= 3 * MaxAttempts /\ made \in Nat
    BY ModelCallAssumption, <2>1 DEF ModelInv, ModelTypeOK, CountInv, Past, Begun
  <2>3. ModelTypeOK'
    BY ModelCallAssumption, <2>1, <2>2 DEF ModelInv, ModelTypeOK, Past
  <2>4. CountInv'
    BY ModelCallAssumption, <2>1 DEF ModelInv, ModelTypeOK, CountInv, Past, Begun
  <2>5. HeedInv'
    BY <2>1 DEF ModelInv, ModelTypeOK, HeedInv
  <2>6. QED BY <2>3, <2>4, <2>5 DEF ModelInv
<1>5. CASE WaitIsOver
  <2>1. CASE Aborts
    BY <1>5, <2>1, AbortKeeps DEF WaitIsOver
  <2>2. CASE ~Aborts
    <3>1. /\ request.at = "sleep"
          /\ request' = [request EXCEPT !.at = "top", !.attempt = @ + 1]
          /\ UNCHANGED <<toldTo, ending, made, before>>
      BY <1>5, <2>2 DEF WaitIsOver
    <3>2. request.attempt + 1 \in 0..(MaxAttempts - 1) /\ request \in Request
      BY ModelCallAssumption, <3>1 DEF ModelInv, ModelTypeOK, CountInv, Request
    <3>2a. request' \in Request
      BY <3>1, <3>2 DEF Request
    <3>2b. ModelTypeOK'
      BY <3>1, <3>2a DEF ModelInv, ModelTypeOK, Request
    <3>3. CountInv'
      BY ModelCallAssumption, <3>1 DEF ModelInv, ModelTypeOK, CountInv, Past, Begun
    <3>4. HeedInv'
      BY <2>2, <3>1 DEF ModelInv, HeedInv, Aborts
    <3>5. QED BY <3>2b, <3>3, <3>4 DEF ModelInv
  <2>3. QED BY <2>1, <2>2
<1>6. CASE FailsForNow
  <2>1. CASE request.attempt + 1 < MaxAttempts
    <3>1. /\ request.at = "sent" /\ request' = [request EXCEPT !.at = "sleep"]
          /\ UNCHANGED <<toldTo, ending, made, before>>
      BY <1>6, <2>1 DEF FailsForNow, GoTo
    <3>2. ModelTypeOK'
      BY ModelCallAssumption, <3>1 DEF ModelInv, ModelTypeOK
    <3>3. CountInv'
      BY ModelCallAssumption, <2>1, <3>1 DEF ModelInv, ModelTypeOK, CountInv, Past, Begun
    <3>4. HeedInv'
      BY <3>1 DEF ModelInv, ModelTypeOK, HeedInv
    <3>5. QED BY <3>2, <3>3, <3>4 DEF ModelInv
  <2>2. CASE ~(request.attempt + 1 < MaxAttempts)
    BY <1>6, <2>2, RaiseKeeps DEF FailsForNow, ModelInv, HeedInv
  <2>3. QED BY <2>1, <2>2
<1>7. CASE BadRequest
  <2>1. CASE request.json
    <3>1. /\ request.at = "sent"
          /\ request' = [request EXCEPT !.json = FALSE, !.attempt = 0, !.at = "top"]
          /\ UNCHANGED <<toldTo, ending, made, before>>
      BY <1>7, <2>1 DEF BadRequest
    <3>2. request' \in Request
      <4>1. 0 \in 0..(MaxAttempts - 1) /\ request \in Request
        BY ModelCallAssumption DEF ModelInv, ModelTypeOK, Request
      <4>2. QED BY <3>1, <4>1 DEF Request
    <3>2a. ModelTypeOK'
      BY <3>1, <3>2 DEF ModelInv, ModelTypeOK, Request
    <3>3. CountInv'
      BY ModelCallAssumption, <2>1, <3>1 DEF ModelInv, ModelTypeOK, CountInv, Past, Begun
    <3>4. HeedInv'
      BY <3>1 DEF ModelInv, ModelTypeOK, HeedInv
    <3>5. QED BY <3>2a, <3>3, <3>4 DEF ModelInv
  <2>2. CASE ~request.json
    BY <1>7, <2>2, RaiseKeeps DEF BadRequest, ModelInv, HeedInv
  <2>3. QED BY <2>1, <2>2
<1>8. CASE Denied
  BY <1>8, RaiseKeeps DEF Denied, ModelInv, HeedInv
<1>9. CASE FailsForGood
  BY <1>9, RaiseKeeps DEF FailsForGood, ModelInv, HeedInv
<1>10. CASE ModelAnswers
  BY <1>10 DEF ModelAnswers, ModelInv, ModelTypeOK, CountInv, HeedInv
<1>11. CASE Unparsable
  <2>1. CASE request.agent = "navigator" /\ ~request.repaired
    <3>1. /\ request.at = "sent"
          /\ request' = [Fresh(request.agent) EXCEPT !.repaired = TRUE]
          /\ UNCHANGED <<toldTo, ending, made, before>>
      BY <1>11, <2>1 DEF Unparsable
    <3>2. request' = [agent |-> request.agent, json |-> TRUE, attempt |-> 0,
                      repaired |-> TRUE, at |-> "top"]
      BY <3>1 DEF Fresh
    <3>2a. request' \in Request
      <4>1. 0 \in 0..(MaxAttempts - 1) /\ request.agent \in Agent
        BY ModelCallAssumption DEF ModelInv, ModelTypeOK
      <4>2. QED BY <3>2, <4>1 DEF Request
    <3>3. ModelTypeOK'
      BY <3>1, <3>2a DEF ModelInv, ModelTypeOK, Request
    <3>4. CountInv'
      BY ModelCallAssumption, <2>1, <3>1, <3>2 DEF ModelInv, ModelTypeOK, CountInv, Past, Begun
    <3>5. HeedInv'
      BY <3>1, <3>2 DEF ModelInv, ModelTypeOK, HeedInv
    <3>6. QED BY <3>3, <3>4, <3>5 DEF ModelInv
  <2>2. CASE ~(request.agent = "navigator" /\ ~request.repaired)
    BY <1>11, <2>2, RaiseKeeps DEF Unparsable, ModelInv, HeedInv
  <2>3. QED BY <2>1, <2>2
<1>12. CASE UNCHANGED modelVars
  BY <1>12 DEF modelVars, ModelInv, ModelTypeOK, CountInv, HeedInv, Past, Begun
<1>13. QED
  BY <1>1, <1>2, <1>3, <1>4, <1>5, <1>6, <1>7, <1>8, <1>9, <1>10, <1>11, <1>12 DEF ModelNext

\* No attempt, answer, retry or abort of a call breaks the invariant of a turn with
\* the language model.
THEOREM ModelInvAlways == ModelSpec => []ModelInv
<1>1. ModelInit => ModelInv  BY ModelInvFirst
<1>2. ModelInv /\ [ModelNext]_modelVars => ModelInv'  BY ModelInvKept
<1>3. QED BY <1>1, <1>2, PTL DEF ModelSpec

-----------------------------------------------------------------------------
\* A turn makes at most four times MaxAttempts requests (the bound of made), and
\* its request loop never runs past its last attempt.
THEOREM ModelTypeCorrectness == ModelSpec => []ModelTypeOK
<1>1. ModelInv => ModelTypeOK  BY DEF ModelInv
<1>2. QED BY <1>1, ModelInvAlways, PTL

\* After a cancel or a take-over no retry, fallback or repair asks the model again,
\* and the abort is not taken for an error of the step.
THEOREM AbortSafety == ModelSpec => []AbortIsHeeded
<1>1. ModelInv => AbortIsHeeded
  BY DEF ModelInv, ModelTypeOK, HeedInv, AbortIsHeeded
<1>2. QED BY <1>1, ModelInvAlways, PTL

-----------------------------------------------------------------------------
(* MessageMemory: histories and their states                                 *)

\* A message, however many tokens the cut has left it
Piece == [kind : MessageKind, tokens : Int]

\* The task is first, the summary is where summaryAt says, and a state comes after it.
Ordered(q, s) ==
    /\ Len(q) >= 1 /\ q[1].kind = "init"
    /\ s \in 0..Len(q) /\ (s # 0 => q[s].kind = "summary")
    /\ \A i \in 1..Len(q) : q[i].kind = "state" => i > s

NoState(q) == \A i \in 1..Len(q) : q[i].kind # "state"
OneState(q) == \A i, j \in 1..Len(q) : q[i].kind = "state" /\ q[j].kind = "state" => i = j

\* A plan is never put before the task.
Calls == {c \in [by : {"nobody", "navigator", "planner", "critic", "debrief"},
                 at : {"idle", "observed", "cutting", "answered"}, plan : Nat] :
            c.by = "planner" => c.plan >= 2}

MemoryInv ==
    /\ memory \in Seq(Piece) /\ tokens \in Int /\ told \in BOOLEAN
    /\ Ordered(memory, summaryAt)
    /\ OneState(memory) /\ (~told => NoState(memory))
    /\ call \in Calls

LEMMA Kinds ==
    /\ MessageKind = {"init", "state", "spent", "summary", "plan", "void", "human", "note",
                      "output", "interrupted"}
    /\ \A k \in MessageKind : Tokens[k] \in Int /\ Msg(k) \in Piece /\ Msg(k).kind = k
<1>1. MessageKind = {"init", "state", "spent", "summary", "plan", "void", "human", "note",
                     "output", "interrupted"}
  BY DEF MessageKind, Tokens
<1>2. \A k \in MessageKind : Tokens[k] \in Int
  BY <1>1 DEF Tokens
<1>. QED
  BY <1>1, <1>2 DEF Msg, Piece

LEMMA Added ==
    ASSUME NEW q \in Seq(Piece), NEW e \in Piece, NEW s, Ordered(q, s)
    PROVE  /\ Append(q, e) \in Seq(Piece) /\ Ordered(Append(q, e), s)
           /\ Len(Append(q, e)) = Len(q) + 1
           /\ NoState(q) => OneState(Append(q, e))
           /\ OneState(q) /\ e.kind # "state" => OneState(Append(q, e))
           /\ NoState(q) /\ e.kind # "state" => NoState(Append(q, e))
<1>. DEFINE p == Append(q, e)
<1>1. /\ p \in Seq(Piece) /\ Len(q) \in Nat /\ Len(p) = Len(q) + 1
      /\ \A i \in 1..Len(q) : p[i] = q[i]
      /\ p[Len(q) + 1] = e
  BY AppendProperties, LenProperties
<1>. HIDE DEF p
<1>2. Ordered(p, s)
  <2>1. s \in 0..Len(q) /\ s \in 0..Len(p) /\ Len(p) >= 1
    BY <1>1 DEF Ordered
  <2>2. p[1].kind = "init" /\ (s # 0 => p[s].kind = "summary")
    BY <1>1, <2>1 DEF Ordered
  <2>3. ASSUME NEW i \in 1..Len(p), p[i].kind = "state" PROVE i > s
    BY <1>1, <2>1, <2>3 DEF Ordered
  <2>. QED
    BY <2>1, <2>2, <2>3 DEF Ordered
<1>3. NoState(q) => OneState(p)
  BY <1>1 DEF NoState, OneState
<1>4. OneState(q) /\ e.kind # "state" => OneState(p)
  BY <1>1 DEF OneState
<1>5. NoState(q) /\ e.kind # "state" => NoState(p)
  BY <1>1 DEF NoState
<1>. QED
  BY <1>1, <1>2, <1>3, <1>4, <1>5 DEF p

\* A message but the task is taken away: one behind the summary, or before it.
LEMMA Taken ==
    ASSUME NEW q \in Seq(Piece), NEW i \in 2..Len(q), NEW s, Ordered(q, s), i # s
    PROVE  /\ RemoveAt(q, i) \in Seq(Piece)
           /\ Ordered(RemoveAt(q, i), IF s > i THEN s - 1 ELSE s)
           /\ OneState(q) => OneState(RemoveAt(q, i))
           /\ NoState(q) => NoState(RemoveAt(q, i))
           /\ OneState(q) /\ q[i].kind = "state" => NoState(RemoveAt(q, i))
<1>. DEFINE n == Len(q)
            a == SubSeq(q, 1, i - 1)
            b == SubSeq(q, i + 1, n)
            p == RemoveAt(q, i)
<1>1. n \in Nat /\ i \in Nat /\ 2 <= i /\ i <= n /\ \A k \in 1..n : q[k] \in Piece
  BY LenProperties, ElementOfSeq
<1>2. a \in Seq(Piece) /\ Len(a) = i - 1 /\ \A k \in 1..(i - 1) : a[k] = q[k]
  <2>1. \A k \in 1..(i - 1) : q[k] \in Piece
    BY <1>1
  <2>2. /\ a \in Seq(Piece) /\ Len(a) = IF 1 <= i - 1 THEN (i - 1) - 1 + 1 ELSE 0
        /\ \A k \in 1..((i - 1) - 1 + 1) : a[k] = q[1 + k - 1]
    BY <1>1, <2>1, SubSeqProperties
  <2>. QED
    BY <1>1, <2>2
<1>3. b \in Seq(Piece) /\ Len(b) = n - i /\ \A k \in 1..(n - i) : b[k] = q[i + k]
  <2>1. \A k \in (i + 1)..n : q[k] \in Piece
    BY <1>1
  <2>2. /\ b \in Seq(Piece) /\ Len(b) = IF i + 1 <= n THEN n - (i + 1) + 1 ELSE 0
        /\ \A k \in 1..(n - (i + 1) + 1) : b[k] = q[(i + 1) + k - 1]
    BY <1>1, <2>1, SubSeqProperties
  <2>. QED
    BY <1>1, <2>2
<1>. HIDE DEF a, b
<1>4. p \in Seq(Piece) /\ Len(p) = n - 1
      /\ \A k \in 1..(n - 1) : p[k] = IF k < i THEN q[k] ELSE q[k + 1]
  <2>1. /\ a \o b \in Seq(Piece) /\ Len(a \o b) = Len(a) + Len(b)
        /\ \A k \in 1..(Len(a) + Len(b)) :
              (a \o b)[k] = IF k <= Len(a) THEN a[k] ELSE b[k - Len(a)]
    BY <1>2, <1>3, ConcatProperties
  <2>2. p = a \o b
    BY DEF RemoveAt, a, b
  <2>3. Len(a) + Len(b) = n - 1
    BY <1>1, <1>2, <1>3
  <2>4. ASSUME NEW k \in 1..(n - 1)
        PROVE  (a \o b)[k] = IF k < i THEN q[k] ELSE q[k + 1]
    <3>1. (a \o b)[k] = IF k <= i - 1 THEN a[k] ELSE b[k - (i - 1)]
      BY <1>2, <2>1, <2>3
    <3>2. CASE k < i
      BY <1>1, <1>2, <3>1, <3>2
    <3>3. CASE ~(k < i)
      <4>1. k - (i - 1) \in 1..(n - i) /\ i + (k - (i - 1)) = k + 1 /\ ~(k <= i - 1)
        BY <1>1, <3>3
      <4>. QED
        BY <1>3, <3>1, <3>3, <4>1
    <3>. QED
      BY <3>2, <3>3
  <2>. QED
    BY <2>1, <2>2, <2>3, <2>4
<1>. HIDE DEF p
\* Where each message that is left was before
<1>5. ASSUME NEW k \in 1..Len(p)
      PROVE  \E l \in 1..n : l # i /\ p[k] = q[l] /\ l = IF k < i THEN k ELSE k + 1
  <2>1. CASE k < i
    BY <1>1, <1>4, <2>1
  <2>2. CASE ~(k < i)
    <3>1. k + 1 \in 1..n /\ k + 1 # i /\ p[k] = q[k + 1]
      BY <1>1, <1>4, <2>2
    <3>. QED
      BY <2>2, <3>1
  <2>. QED
    BY <2>1, <2>2
<1>6. Ordered(p, IF s > i THEN s - 1 ELSE s)
  <2>. DEFINE t == IF s > i THEN s - 1 ELSE s
  <2>1. s \in 0..n /\ t \in 0..(n - 1) /\ Len(p) = n - 1 /\ n - 1 >= 1
    BY <1>1, <1>4 DEF Ordered
  <2>2. p[1].kind = "init"
    BY <1>1, <1>4, <2>1 DEF Ordered
  <2>3. t # 0 => p[t].kind = "summary"
    <3>1. CASE s > i
      <4>1. t \in 1..(n - 1) /\ ~(t < i) /\ t + 1 = s
        BY <1>1, <2>1, <3>1
      <4>2. p[t] = q[s]
        BY <1>4, <4>1
      <4>. QED
        BY <1>1, <2>1, <3>1, <4>2 DEF Ordered
    <3>2. CASE ~(s > i)
      <4>1. t = s /\ s < i
        BY <1>1, <2>1, <3>2
      <4>2. s # 0 => p[s] = q[s]
        BY <1>1, <1>4, <2>1, <4>1
      <4>. QED
        BY <4>1, <4>2 DEF Ordered
    <3>. QED
      BY <3>1, <3>2
  <2>4. ASSUME NEW k \in 1..Len(p), p[k].kind = "state" PROVE k > t
    <3>1. PICK l \in 1..n : l # i /\ p[k] = q[l] /\ l = IF k < i THEN k ELSE k + 1
      BY <1>5
    <3>2. l > s
      BY <2>4, <3>1 DEF Ordered
    <3>. QED
      BY <1>1, <2>1, <3>1, <3>2
  <2>. QED
    BY <2>1, <2>2, <2>3, <2>4 DEF Ordered
<1>7. OneState(q) => OneState(p)
  <2>. SUFFICES ASSUME OneState(q), NEW k \in 1..Len(p), NEW m \in 1..Len(p),
                       p[k].kind = "state", p[m].kind = "state"
                PROVE  k = m
    BY DEF OneState
  <2>1. PICK l \in 1..n : l # i /\ p[k] = q[l] /\ l = IF k < i THEN k ELSE k + 1
    BY <1>5
  <2>2. PICK o \in 1..n : o # i /\ p[m] = q[o] /\ o = IF m < i THEN m ELSE m + 1
    BY <1>5
  <2>3. l = o
    BY <2>1, <2>2 DEF OneState
  <2>. QED
    BY <1>1, <2>1, <2>2, <2>3
<1>8. OneState(q) /\ q[i].kind = "state" => NoState(p)
  <2>. SUFFICES ASSUME OneState(q), q[i].kind = "state", NEW k \in 1..Len(p)
                PROVE  p[k].kind # "state"
    BY DEF NoState
  <2>1. PICK l \in 1..n : l # i /\ p[k] = q[l]
    BY <1>5
  <2>. QED
    BY <1>1, <2>1 DEF OneState
<1>9. NoState(q) => NoState(p)
  BY <1>5 DEF NoState
<1>. QED
  BY <1>4, <1>6, <1>7, <1>8, <1>9 DEF p

\* A message that is no state is put in behind the task; the summary goes to the
\* second place.
LEMMA PutIn ==
    ASSUME NEW q \in Seq(Piece), NEW e \in Piece, e.kind # "state",
           NEW s, Ordered(q, s), NEW i \in 2..(Len(q) + 1)
    PROVE  /\ InsertAt(q, i, e) \in Seq(Piece)
           /\ Ordered(InsertAt(q, i, e), IF s # 0 /\ i <= s THEN s + 1 ELSE s)
           /\ s = 0 /\ i = 2 /\ e.kind = "summary" => Ordered(InsertAt(q, i, e), 2)
           /\ OneState(q) => OneState(InsertAt(q, i, e))
           /\ NoState(q) => NoState(InsertAt(q, i, e))
<1>. DEFINE n == Len(q)
            a == SubSeq(q, 1, i - 1)
            b == SubSeq(q, i, n)
            p == InsertAt(q, i, e)
<1>1. n \in Nat /\ i \in Nat /\ 2 <= i /\ i <= n + 1 /\ \A k \in 1..n : q[k] \in Piece
  BY LenProperties, ElementOfSeq
<1>2. a \in Seq(Piece) /\ Len(a) = i - 1 /\ \A k \in 1..(i - 1) : a[k] = q[k]
  <2>1. \A k \in 1..(i - 1) : q[k] \in Piece
    BY <1>1
  <2>2. /\ a \in Seq(Piece) /\ Len(a) = IF 1 <= i - 1 THEN (i - 1) - 1 + 1 ELSE 0
        /\ \A k \in 1..((i - 1) - 1 + 1) : a[k] = q[1 + k - 1]
    BY <1>1, <2>1, SubSeqProperties
  <2>. QED
    BY <1>1, <2>2
<1>3. b \in Seq(Piece) /\ Len(b) = n - i + 1 /\ \A k \in 1..(n - i + 1) : b[k] = q[i + k - 1]
  <2>1. \A k \in i..n : q[k] \in Piece
    BY <1>1
  <2>2. /\ b \in Seq(Piece) /\ Len(b) = IF i <= n THEN n - i + 1 ELSE 0
        /\ \A k \in 1..(n - i + 1) : b[k] = q[i + k - 1]
    BY <1>1, <2>1, SubSeqProperties
  <2>. QED
    BY <1>1, <2>2
<1>. HIDE DEF a, b
<1>4. /\ Append(a, e) \in Seq(Piece) /\ Len(Append(a, e)) = i
      /\ \A k \in 1..(i - 1) : Append(a, e)[k] = q[k]
      /\ Append(a, e)[i] = e /\ a \o <<e>> = Append(a, e)
  <2>1. /\ Append(a, e) \in Seq(Piece) /\ Len(Append(a, e)) = Len(a) + 1
        /\ \A k \in 1..Len(a) : Append(a, e)[k] = a[k]
        /\ Append(a, e)[Len(a) + 1] = e
    BY <1>2, AppendProperties
  <2>2. a \o <<e>> = Append(a, e)
    BY <1>2, AppendIsConcat
  <2>. QED
    BY <1>1, <1>2, <2>1, <2>2
<1>5. /\ p \in Seq(Piece) /\ Len(p) = n + 1 /\ p[i] = e
      /\ \A k \in 1..(n + 1) : k # i => p[k] = IF k < i THEN q[k] ELSE q[k - 1]
  <2>. DEFINE c == Append(a, e)
  <2>1. c \in Seq(Piece) /\ Len(c) = i /\ c[i] = e /\ \A k \in 1..(i - 1) : c[k] = q[k]
    BY <1>4
  <2>2. p = c \o b
    BY <1>4 DEF InsertAt, a, b
  <2>. HIDE DEF c
  <2>3. /\ c \o b \in Seq(Piece) /\ Len(c \o b) = Len(c) + Len(b)
        /\ \A k \in 1..(Len(c) + Len(b)) :
              (c \o b)[k] = IF k <= Len(c) THEN c[k] ELSE b[k - Len(c)]
    BY <1>3, <2>1, ConcatProperties
  <2>4. Len(c) + Len(b) = n + 1
    BY <1>1, <1>3, <2>1
  <2>5. ASSUME NEW k \in 1..(n + 1), k # i
        PROVE  (c \o b)[k] = IF k < i THEN q[k] ELSE q[k - 1]
    <3>1. (c \o b)[k] = IF k <= i THEN c[k] ELSE b[k - i]
      BY <2>1, <2>3, <2>4
    <3>2. CASE k < i
      BY <1>1, <2>1, <3>1, <3>2
    <3>3. CASE k > i
      <4>1. k - i \in 1..(n - i + 1) /\ i + (k - i) - 1 = k - 1 /\ ~(k <= i) /\ ~(k < i)
        BY <1>1, <3>3
      <4>. QED
        BY <1>3, <3>1, <4>1
    <3>4. k < i \/ k > i
      BY <1>1, <2>5
    <3>. QED
      BY <3>2, <3>3, <3>4, Zenon
  <2>6. (c \o b)[i] = e
    BY <1>1, <2>1, <2>3, <2>4
  <2>. QED
    BY <2>2, <2>3, <2>4, <2>5, <2>6
<1>. HIDE DEF p
\* Where each message but the new one was before
<1>6. ASSUME NEW k \in 1..Len(p), k # i
      PROVE  \E l \in 1..n : p[k] = q[l] /\ l = IF k < i THEN k ELSE k - 1
  <2>1. CASE k < i
    BY <1>1, <1>5, <2>1
  <2>2. CASE k > i
    <3>1. k - 1 \in 1..n /\ p[k] = q[k - 1] /\ ~(k < i)
      BY <1>1, <1>5, <2>2
    <3>. QED
      BY <3>1
  <2>. QED
    BY <1>1, <1>5, <1>6, <2>1, <2>2
<1>7. s \in 0..n /\ Len(p) \in Nat /\ Len(p) >= 1 /\ p[1].kind = "init"
  BY <1>1, <1>5 DEF Ordered
<1>8. Ordered(p, IF s # 0 /\ i <= s THEN s + 1 ELSE s)
  <2>. DEFINE t == IF s # 0 /\ i <= s THEN s + 1 ELSE s
  <2>1. t \in 0..Len(p)
    BY <1>1, <1>5, <1>7
  <2>2. t # 0 => p[t].kind = "summary"
    <3>1. CASE s # 0 /\ i <= s
      <4>1. s + 1 \in 1..(n + 1) /\ s + 1 # i /\ ~(s + 1 < i) /\ (s + 1) - 1 = s
        BY <1>1, <1>7, <3>1
      <4>2. p[s + 1] = q[s]
        BY <1>5, <4>1
      <4>. QED
        BY <3>1, <4>2 DEF Ordered
    <3>2. CASE s # 0 /\ ~(i <= s)
      <4>1. s \in 1..(n + 1) /\ s # i /\ s < i
        BY <1>1, <1>7, <3>2
      <4>2. p[s] = q[s]
        BY <1>5, <4>1
      <4>. QED
        BY <3>2, <4>2 DEF Ordered
    <3>. QED
      BY <3>1, <3>2
  <2>3. ASSUME NEW k \in 1..Len(p), p[k].kind = "state" PROVE k > t
    <3>1. k # i
      BY <1>5, <2>3
    <3>2. PICK l \in 1..n : p[k] = q[l] /\ l = IF k < i THEN k ELSE k - 1
      BY <1>6, <3>1
    <3>3. l > s
      BY <2>3, <3>2 DEF Ordered
    <3>. QED
      BY <1>1, <1>5, <1>7, <3>1, <3>2, <3>3
  <2>. QED
    BY <1>7, <2>1, <2>2, <2>3 DEF Ordered
<1>9. s = 0 /\ i = 2 /\ e.kind = "summary" => Ordered(p, 2)
  <2>. SUFFICES ASSUME s = 0, i = 2, e.kind = "summary" PROVE Ordered(p, 2)
    OBVIOUS
  <2>1. 2 \in 0..Len(p) /\ p[2].kind = "summary"
    BY <1>1, <1>5
  <2>2. ASSUME NEW k \in 1..Len(p), p[k].kind = "state" PROVE k > 2
    <3>1. k # 2 /\ k # 1
      BY <1>5, <1>7, <2>2
    <3>. QED
      BY <1>5, <3>1
  <2>. QED
    BY <1>7, <2>1, <2>2 DEF Ordered
<1>10. OneState(q) => OneState(p)
  <2>. SUFFICES ASSUME OneState(q), NEW k \in 1..Len(p), NEW m \in 1..Len(p),
                       p[k].kind = "state", p[m].kind = "state"
                PROVE  k = m
    BY DEF OneState
  <2>1. k # i /\ m # i
    BY <1>5
  <2>2. PICK l \in 1..n : p[k] = q[l] /\ l = IF k < i THEN k ELSE k - 1
    BY <1>6, <2>1
  <2>3. PICK o \in 1..n : p[m] = q[o] /\ o = IF m < i THEN m ELSE m - 1
    BY <1>6, <2>1
  <2>4. l = o
    BY <2>2, <2>3 DEF OneState
  <2>. QED
    BY <1>1, <1>5, <2>1, <2>2, <2>3, <2>4
<1>11. NoState(q) => NoState(p)
  <2>. SUFFICES ASSUME NoState(q), NEW k \in 1..Len(p) PROVE p[k].kind # "state"
    BY DEF NoState
  <2>1. CASE k = i
    BY <1>5, <2>1
  <2>2. CASE k # i
    BY <1>6, <2>2 DEF NoState
  <2>. QED
    BY <2>1, <2>2
<1>. QED
  BY <1>5, <1>8, <1>9, <1>10, <1>11 DEF p

\* Messages are replaced in place by what is neither a state nor out of place.
LEMMA Replaced ==
    ASSUME NEW q \in Seq(Piece), NEW s, Ordered(q, s), NEW p \in [1..Len(q) -> Piece],
           \A i \in 1..Len(q) :
              /\ p[i].kind = "state" => q[i].kind = "state"
              /\ q[i].kind = "init" => p[i].kind = "init"
              /\ q[i].kind = "summary" => p[i].kind = "summary"
    PROVE  /\ p \in Seq(Piece) /\ Ordered(p, s)
           /\ OneState(q) => OneState(p)
           /\ NoState(q) => NoState(p)
<1>1. Len(q) \in Nat
  BY LenProperties
<1>2. p \in Seq(Piece) /\ Len(p) = Len(q)
  BY <1>1, SeqDef, LenProperties
<1>3. Ordered(p, s)
  <2>1. s \in 0..Len(q) /\ Len(q) >= 1 /\ q[1].kind = "init"
        /\ (s # 0 => q[s].kind = "summary")
    BY DEF Ordered
  <2>2. p[1].kind = "init" /\ (s # 0 => p[s].kind = "summary")
    BY <1>1, <2>1
  <2>3. \A i \in 1..Len(p) : p[i].kind = "state" => i > s
    BY <1>2 DEF Ordered
  <2>. QED
    BY <1>2, <2>1, <2>2, <2>3 DEF Ordered
<1>4. OneState(q) => OneState(p)
  BY <1>2 DEF OneState
<1>5. NoState(q) => NoState(p)
  BY <1>2 DEF NoState
<1>. QED
  BY <1>2, <1>3, <1>4, <1>5

-----------------------------------------------------------------------------
(* What the operators of MessageManager make of a history                    *)

Histories == [memory : Seq(Piece), tokens : Int, summaryAt : Nat]
Good(h) == h \in Histories /\ Ordered(h.memory, h.summaryAt)

LEMMA AddGood ==
    ASSUME NEW h, Good(h), NEW k \in MessageKind
    PROVE  /\ Good(Add(h, k)) /\ Len(Add(h, k).memory) = Len(h.memory) + 1
           /\ NoState(h.memory) => OneState(Add(h, k).memory)
           /\ OneState(h.memory) /\ k # "state" => OneState(Add(h, k).memory)
           /\ NoState(h.memory) /\ k # "state" => NoState(Add(h, k).memory)
<1>. DEFINE g == Add(h, k)
<1>1. Msg(k) \in Piece /\ Msg(k).kind = k /\ Tokens[k] \in Int
  BY Kinds
<1>2. /\ h \in Histories /\ h.memory \in Seq(Piece) /\ h.tokens \in Int
      /\ Ordered(h.memory, h.summaryAt)
  BY DEF Good, Histories
<1>3. g = [h EXCEPT !.memory = Append(h.memory, Msg(k)), !.tokens = h.tokens + Tokens[k]]
  BY DEF Add
<1>4. Append(h.memory, Msg(k)) \in Seq(Piece) /\ h.tokens + Tokens[k] \in Int
  BY <1>1, <1>2, Added
<1>. HIDE DEF g
<1>5. /\ g \in Histories /\ g.memory = Append(h.memory, Msg(k))
      /\ g.summaryAt = h.summaryAt
  BY <1>2, <1>3, <1>4 DEF Histories
<1>. QED
  BY <1>1, <1>2, <1>5, Added DEF Good, g

LEMMA AddIfGood ==
    ASSUME NEW h, Good(h), NEW k \in MessageKind \ {"state"}, NEW b \in BOOLEAN
    PROVE  /\ Good(AddIf(h, k, b)) /\ Len(AddIf(h, k, b).memory) >= Len(h.memory)
           /\ OneState(h.memory) => OneState(AddIf(h, k, b).memory)
           /\ NoState(h.memory) => NoState(AddIf(h, k, b).memory)
<1>1. Len(h.memory) \in Nat
  BY LenProperties DEF Good, Histories
<1>2. CASE b
  <2>1. AddIf(h, k, b) = Add(h, k)
    BY <1>2 DEF AddIf
  <2>. QED
    BY <1>1, <2>1, AddGood
<1>3. CASE ~b
  <2>1. AddIf(h, k, b) = h
    BY <1>3 DEF AddIf
  <2>. QED
    BY <1>1, <2>1
<1>. QED
  BY <1>2, <1>3

LEMMA StateFound ==
    ASSUME NEW h, Good(h), OneState(h.memory), States(h) # {}
    PROVE  /\ LastOf(States(h)) \in 2..Len(h.memory)
           /\ h.memory[LastOf(States(h))].kind = "state"
           /\ LastOf(States(h)) > h.summaryAt
<1>1. /\ h.memory \in Seq(Piece) /\ Len(h.memory) \in Nat /\ DOMAIN h.memory = 1..Len(h.memory)
  BY LenProperties DEF Good, Histories
<1>2. PICK i \in 1..Len(h.memory) : h.memory[i].kind = "state"
  BY <1>1 DEF States
<1>3. States(h) = {i}
  BY <1>1, <1>2 DEF States, OneState
<1>4. LastOf(States(h)) = i
  BY <1>2, <1>3 DEF LastOf
<1>5. i > h.summaryAt /\ i # 1
  BY <1>2 DEF Good, Ordered
<1>. QED
  BY <1>1, <1>2, <1>4, <1>5

LEMMA WithoutGood ==
    ASSUME NEW h, Good(h), NEW i \in 2..Len(h.memory), i > h.summaryAt
    PROVE  /\ Good(Without(h, i))
           /\ OneState(h.memory) /\ h.memory[i].kind = "state" => NoState(Without(h, i).memory)
<1>. DEFINE g == Without(h, i)
<1>1. /\ h \in Histories /\ h.memory \in Seq(Piece) /\ h.tokens \in Int /\ h.summaryAt \in Nat
      /\ Ordered(h.memory, h.summaryAt) /\ Len(h.memory) \in Nat
  <2>1. h \in Histories /\ Ordered(h.memory, h.summaryAt)
    BY DEF Good
  <2>2. h.memory \in Seq(Piece) /\ h.tokens \in Int /\ h.summaryAt \in Nat
    BY <2>1 DEF Histories
  <2>. QED
    BY <2>1, <2>2, LenProperties
<1>2. h.memory[i].tokens \in Int
  <2>1. h.memory \in [1..Len(h.memory) -> Piece] /\ i \in 1..Len(h.memory)
    BY <1>1, LenProperties
  <2>2. h.memory[i] \in Piece
    BY <2>1
  <2>. QED
    BY <2>2 DEF Piece
<1>3. /\ RemoveAt(h.memory, i) \in Seq(Piece)
      /\ Ordered(RemoveAt(h.memory, i), h.summaryAt)
      /\ OneState(h.memory) /\ h.memory[i].kind = "state" => NoState(RemoveAt(h.memory, i))
  <2>1. i # h.summaryAt /\ ~(h.summaryAt > i)
    BY <1>1
  <2>. QED
    BY <1>1, <2>1, Taken
<1>4. g = [h EXCEPT !.memory = RemoveAt(h.memory, i), !.tokens = h.tokens - h.memory[i].tokens]
  BY DEF Without
<1>5. h.tokens - h.memory[i].tokens \in Int
  BY <1>1, <1>2
<1>. HIDE DEF g
<1>6. /\ g \in Histories /\ g.memory = RemoveAt(h.memory, i) /\ g.summaryAt = h.summaryAt
  BY <1>1, <1>3, <1>4, <1>5 DEF Histories
<1>. QED
  BY <1>3, <1>6 DEF Good, g

LEMMA ForgetGood ==
    ASSUME NEW h, Good(h), OneState(h.memory)
    PROVE  Good(ForgetState(h)) /\ NoState(ForgetState(h).memory)
<1>1. CASE States(h) = {}
  <2>1. ForgetState(h) = h
    BY <1>1 DEF ForgetState
  <2>2. DOMAIN h.memory = 1..Len(h.memory)
    BY LenProperties DEF Good, Histories
  <2>. QED
    BY <1>1, <2>1, <2>2 DEF States, NoState
<1>2. CASE States(h) # {}
  <2>1. ForgetState(h) = Without(h, LastOf(States(h)))
    BY <1>2 DEF ForgetState
  <2>. QED
    BY <1>2, <2>1, StateFound, WithoutGood
<1>. QED
  BY <1>1, <1>2

LEMMA ForgottenGood ==
    ASSUME told \in BOOLEAN, NEW h, Good(h), OneState(h.memory), ~told => NoState(h.memory)
    PROVE  Good(Forgotten(h)) /\ NoState(Forgotten(h).memory)
BY ForgetGood DEF Forgotten

LEMMA HistoryGood ==
    ASSUME MemoryInv
    PROVE  /\ Good(History) /\ OneState(History.memory) /\ History.memory = memory
           /\ ~told => NoState(History.memory)
           /\ Good(Forgotten(History)) /\ NoState(Forgotten(History).memory)
           /\ Len(memory) \in Nat
<1>1. summaryAt \in Nat /\ Len(memory) \in Nat
  BY LenProperties DEF MemoryInv, Ordered
<1>2. /\ Good(History) /\ OneState(History.memory) /\ History.memory = memory
      /\ ~told => NoState(History.memory)
  BY <1>1 DEF MemoryInv, Good, Histories, History
<1>. QED
  BY <1>1, <1>2, ForgottenGood DEF MemoryInv

LEMMA ToldGood ==
    ASSUME told \in BOOLEAN, NEW h, Good(h), OneState(h.memory), ~told => NoState(h.memory),
           NEW results \in BOOLEAN
    PROVE  /\ Good(Told(h, results)) /\ OneState(Told(h, results).memory)
           /\ Len(Told(h, results).memory) >= 2
<1>. DEFINE f == AddIf(Forgotten(h), "note", results)
            g == Add(f, "state")
<1>1. "note" \in MessageKind \ {"state"} /\ "state" \in MessageKind
  BY Kinds
<1>2. Good(Forgotten(h)) /\ NoState(Forgotten(h).memory)
  BY ForgottenGood
<1>3. Good(f) /\ NoState(f.memory)
  BY <1>1, <1>2, AddIfGood
<1>. HIDE DEF f
<1>4. Good(g) /\ OneState(g.memory) /\ Len(g.memory) = Len(f.memory) + 1
  BY <1>1, <1>3, AddGood
<1>5. Len(f.memory) \in Nat /\ Len(f.memory) >= 1
  BY <1>3, LenProperties DEF Good, Histories, Ordered
<1>. QED
  BY <1>4, <1>5 DEF f, Told

LEMMA AddAtGood ==
    ASSUME NEW h, Good(h), NoState(h.memory), NEW i \in Nat, i >= 2
    PROVE  Good(AddAt(h, "plan", i)) /\ NoState(AddAt(h, "plan", i).memory)
<1>. DEFINE g == AddAt(h, "plan", i)
            s == h.summaryAt
            n == Len(h.memory)
            p == IF i > n + 1 THEN n + 1 ELSE i
            t == IF s # 0 /\ i <= s THEN s + 1 ELSE s
<1>1. /\ h.memory \in Seq(Piece) /\ h.tokens \in Int /\ Ordered(h.memory, s)
  BY DEF Good, Histories
<1>2. n \in Nat /\ n >= 1 /\ s \in 0..n
  BY <1>1, LenProperties DEF Ordered
<1>3. Msg("plan") \in Piece /\ Msg("plan").kind = "plan" /\ Tokens["plan"] \in Int
  BY Kinds
<1>4. g = [memory |-> InsertAt(h.memory, p, Msg("plan")), tokens |-> h.tokens + Tokens["plan"],
           summaryAt |-> t]
  BY DEF AddAt
<1>5. p \in 2..(n + 1) /\ t \in Nat
  BY <1>2
<1>6. (s # 0 /\ p <= s) <=> (s # 0 /\ i <= s)
  BY <1>2
<1>. HIDE DEF g, p
<1>7. /\ InsertAt(h.memory, p, Msg("plan")) \in Seq(Piece)
      /\ Ordered(InsertAt(h.memory, p, Msg("plan")), IF s # 0 /\ p <= s THEN s + 1 ELSE s)
      /\ NoState(InsertAt(h.memory, p, Msg("plan")))
  BY <1>1, <1>3, <1>5, PutIn
<1>8. Ordered(InsertAt(h.memory, p, Msg("plan")), t)
  <2>1. t = IF s # 0 /\ p <= s THEN s + 1 ELSE s
    BY <1>6
  <2>. HIDE DEF t
  <2>. QED
    BY <1>7, <2>1
<1>. HIDE DEF t
<1>9. h.tokens + Tokens["plan"] \in Int
  BY <1>1, <1>3
<1>10. /\ g \in Histories /\ g.summaryAt = t
       /\ g.memory = InsertAt(h.memory, p, Msg("plan"))
  BY <1>4, <1>5, <1>7, <1>9 DEF Histories
<1>. QED
  BY <1>7, <1>8, <1>10 DEF Good, g

LEMMA WithSummaryGood ==
    ASSUME NEW h, Good(h)
    PROVE  /\ Good(WithSummary(h))
           /\ OneState(h.memory) => OneState(WithSummary(h).memory)
           /\ NoState(h.memory) => NoState(WithSummary(h).memory)
<1>. DEFINE q == h.memory
            s == h.summaryAt
            m == Msg("summary")
<1>1. h \in Histories /\ q \in Seq(Piece) /\ h.tokens \in Int /\ s \in Nat /\ Ordered(q, s)
  <2>1. h \in Histories /\ Ordered(q, s)
    BY DEF Good
  <2>. QED
    BY <2>1 DEF Histories
<1>2. Len(q) \in Nat /\ Len(q) >= 1 /\ s \in 0..Len(q) /\ q \in [1..Len(q) -> Piece]
  BY <1>1, LenProperties DEF Ordered
<1>3. m \in Piece /\ m.kind = "summary" /\ Tokens.summary \in Int
  <2>1. "summary" \in MessageKind
    BY Kinds
  <2>. QED
    BY <2>1, Kinds
<1>4. CASE s # 0
  <2>. DEFINE p == [q EXCEPT ![s] = m]
              t == h.tokens - q[s].tokens + Tokens.summary
  <2>1. WithSummary(h) = [h EXCEPT !.memory = p, !.tokens = t]
    BY <1>1, <1>4 DEF WithSummary, Histories
  <2>2. s \in 1..Len(q) /\ q[s].kind = "summary" /\ q[s].tokens \in Int
    BY <1>1, <1>2, <1>4 DEF Ordered, Piece
  <2>3. p \in [1..Len(q) -> Piece] /\ t \in Int
    BY <1>1, <1>2, <1>3, <2>2
  <2>4. \A i \in 1..Len(q) : p[i] = IF i = s THEN m ELSE q[i]
    BY <1>2, <2>2
  <2>5. \A i \in 1..Len(q) :
           /\ p[i].kind = "state" => q[i].kind = "state"
           /\ q[i].kind = "init" => p[i].kind = "init"
           /\ q[i].kind = "summary" => p[i].kind = "summary"
    BY <1>3, <2>2, <2>4
  <2>. HIDE DEF p, t
  <2>6. /\ p \in Seq(Piece) /\ Ordered(p, s)
        /\ OneState(q) => OneState(p)
        /\ NoState(q) => NoState(p)
    BY <1>1, <2>3, <2>5, Replaced
  <2>. HIDE DEF q, s
  <2>7. /\ WithSummary(h) \in Histories
        /\ WithSummary(h).memory = p /\ WithSummary(h).summaryAt = h.summaryAt
    BY <1>1, <2>1, <2>3, <2>6 DEF Histories
  <2>. QED
    BY <2>6, <2>7 DEF Good, q, s
<1>5. CASE s = 0
  <2>. DEFINE p == InsertAt(q, 2, m)
              t == h.tokens + Tokens.summary
  <2>1. WithSummary(h) = [h EXCEPT !.memory = p, !.tokens = t, !.summaryAt = 2]
    BY <1>5 DEF WithSummary
  <2>2. 2 \in 2..(Len(q) + 1) /\ t \in Int /\ m.kind # "state"
    BY <1>1, <1>2, <1>3
  <2>3. /\ p \in Seq(Piece) /\ Ordered(p, 2)
        /\ OneState(q) => OneState(p)
        /\ NoState(q) => NoState(p)
    BY <1>1, <1>3, <1>5, <2>2, PutIn
  <2>. HIDE DEF p, t, q, s
  <2>4. /\ WithSummary(h) \in Histories
        /\ WithSummary(h).memory = p /\ WithSummary(h).summaryAt = 2
    <3>1. h \in Histories /\ p \in Seq(Piece) /\ t \in Int
      BY <1>1, <2>2, <2>3
    <3>2. PICK g : g = [h EXCEPT !.memory = p, !.tokens = t, !.summaryAt = 2]
      OBVIOUS
    <3>3. g \in Histories /\ g.memory = p /\ g.summaryAt = 2
      BY <3>1, <3>2 DEF Histories
    <3>. QED
      BY <2>1, <3>2, <3>3
  <2>. QED
    BY <2>3, <2>4 DEF Good, q
<1>. QED
  BY <1>4, <1>5

LEMMA ResumedGood ==
    ASSUME NEW h, Good(h)
    PROVE  /\ Good(Resumed(h))
           /\ OneState(h.memory) => OneState(Resumed(h).memory)
           /\ NoState(h.memory) => NoState(Resumed(h).memory)
<1>. DEFINE q == h.memory
            plans == {i \in DOMAIN q : q[i].kind = "plan"}
            p == [i \in DOMAIN q |->
                    CASE q[i].kind = "plan" -> Msg("void")
                      [] q[i].kind = "output" /\ (\A j \in plans : j < i) -> Msg("interrupted")
                      [] OTHER -> q[i]]
<1>1. h \in Histories /\ q \in Seq(Piece) /\ Ordered(q, h.summaryAt)
  <2>1. h \in Histories /\ Ordered(q, h.summaryAt)
    BY DEF Good
  <2>. QED
    BY <2>1 DEF Histories
<1>2. q \in [1..Len(q) -> Piece] /\ DOMAIN q = 1..Len(q)
  BY <1>1, LenProperties
<1>3. /\ Msg("void") \in Piece /\ Msg("void").kind = "void"
      /\ Msg("interrupted") \in Piece /\ Msg("interrupted").kind = "interrupted"
  <2>1. "void" \in MessageKind /\ "interrupted" \in MessageKind
    BY Kinds
  <2>. QED
    BY <2>1, Kinds
<1>4. Resumed(h) = [h EXCEPT !.memory = p]
  BY DEF Resumed
<1>. HIDE DEF plans
<1>5. ASSUME NEW i \in 1..Len(q)
      PROVE  /\ p[i] \in Piece
             /\ p[i].kind = "state" => q[i].kind = "state"
             /\ q[i].kind = "init" => p[i].kind = "init"
             /\ q[i].kind = "summary" => p[i].kind = "summary"
  <2>1. p[i] \in {Msg("void"), Msg("interrupted"), q[i]}
    BY <1>2
  <2>2. q[i].kind \notin {"plan", "output"} => p[i] = q[i]
    BY <1>2
  <2>3. q[i] \in Piece
    BY <1>2
  <2>. QED
    BY <1>3, <2>1, <2>2, <2>3
<1>6. DOMAIN p = 1..Len(q)
  BY <1>2
<1>7. p \in [1..Len(q) -> Piece]
  BY <1>5, <1>6, Zenon
<1>. HIDE DEF p
<1>8. /\ p \in Seq(Piece) /\ Ordered(p, h.summaryAt)
      /\ OneState(q) => OneState(p)
      /\ NoState(q) => NoState(p)
  BY <1>1, <1>5, <1>7, Replaced
<1>. HIDE DEF q
<1>9. /\ Resumed(h) \in Histories
      /\ Resumed(h).memory = p /\ Resumed(h).summaryAt = h.summaryAt
  BY <1>1, <1>4, <1>8 DEF Histories
<1>. QED
  BY <1>8, <1>9 DEF Good, q

Below == {ss \in Nat \X Nat : ss[1] < ss[2]}

LEMMA FirstFound ==
    ASSUME NEW h, Good(h), Trimmable(h) # {}
    PROVE  /\ FirstOf(Trimmable(h)) \in Trimmable(h)
           /\ FirstOf(Trimmable(h)) \in 2..Len(h.memory)
           /\ FirstOf(Trimmable(h)) # h.summaryAt
<1>. DEFINE T == Trimmable(h)
<1>1. h.memory \in Seq(Piece) /\ Ordered(h.memory, h.summaryAt)
  BY DEF Good, Histories
<1>2. DOMAIN h.memory = 1..Len(h.memory) /\ Len(h.memory) \in Nat
  BY <1>1, LenProperties
<1>3. T \subseteq 1..Len(h.memory) /\ T \subseteq Nat
  BY <1>2 DEF Trimmable
<1>4. \E i \in T : \A j \in T : i <= j
  <2>1. IsWellFoundedOn(Below, Nat)
    BY NatLessThanWellFounded DEF OpToRel, Below
  <2>2. PICK i \in T : \A j \in T : ~(<<j, i>> \in Below)
    BY <1>3, <2>1, WFMin, Zenon
  <2>3. ASSUME NEW j \in T PROVE i <= j
    <3>1. i \in Nat /\ j \in Nat /\ <<j, i>> \notin Below
      BY <1>3, <2>2
    <3>. QED
      BY <3>1 DEF Below
  <2>. QED
    BY <2>3
<1>5. FirstOf(T) \in T
  BY <1>4, Zenon DEF FirstOf
<1>6. \A i \in T : i # 1 /\ i # h.summaryAt
  BY <1>1 DEF Trimmable, Ordered
<1>. QED
  BY <1>2, <1>3, <1>5, <1>6

\* What cut_messages takes away in one round, and puts in its place
Moved(h, i) == [Without(h, i) EXCEPT !.summaryAt = IF @ > i THEN @ - 1 ELSE @]

LEMMA MovedGood ==
    ASSUME NEW h, Good(h), Trimmable(h) # {}
    PROVE  LET i == FirstOf(Trimmable(h)) IN
           /\ Good(Moved(h, i)) /\ Moved(h, i).memory = RemoveAt(h.memory, i)
           /\ OneState(h.memory) => OneState(Moved(h, i).memory)
           /\ NoState(h.memory) => NoState(Moved(h, i).memory)
<1>1. PICK i \in 2..Len(h.memory) : i = FirstOf(Trimmable(h)) /\ i # h.summaryAt
  BY FirstFound
<1>. DEFINE s == h.summaryAt
            t == IF s > i THEN s - 1 ELSE s
            q == RemoveAt(h.memory, i)
            u == h.tokens - h.memory[i].tokens
<1>2. h \in Histories /\ Ordered(h.memory, s)
  BY DEF Good
<1>3. h.memory \in Seq(Piece) /\ h.tokens \in Int /\ s \in Nat
  BY <1>2 DEF Histories
<1>4. i \in Nat /\ i \in 1..Len(h.memory) /\ h.memory \in [1..Len(h.memory) -> Piece]
  BY <1>3, LenProperties
<1>5. u \in Int /\ t \in Nat
  <2>1. h.memory[i] \in Piece
    BY <1>4
  <2>. QED
    BY <1>3, <1>4, <2>1 DEF Piece
<1>6. /\ q \in Seq(Piece) /\ Ordered(q, t)
      /\ OneState(h.memory) => OneState(q)
      /\ NoState(h.memory) => NoState(q)
  BY <1>1, <1>2, <1>3, Taken
<1>7. Moved(h, i) = [h EXCEPT !.memory = q, !.tokens = u, !.summaryAt = t]
  BY <1>2 DEF Moved, Without, Histories
<1>. HIDE DEF q, u, t, s
<1>8. PICK g : g = [h EXCEPT !.memory = q, !.tokens = u, !.summaryAt = t]
  OBVIOUS
<1>9. g \in Histories /\ g.memory = q /\ g.summaryAt = t
  BY <1>2, <1>5, <1>6, <1>8 DEF Histories
<1>10. Moved(h, FirstOf(Trimmable(h))) = g
  BY <1>1, <1>7, <1>8
<1>11. Good(g)
  BY <1>6, <1>9 DEF Good
<1>. QED
  BY <1>1, <1>6, <1>9, <1>10, <1>11 DEF q

LEMMA OldestCut ==
    ASSUME NEW h, Good(h), Trimmable(h) # {}
    PROVE  LET g == WithSummary(Moved(h, FirstOf(Trimmable(h)))) IN
           /\ Good(g)
           /\ OneState(h.memory) => OneState(g.memory)
           /\ NoState(h.memory) => NoState(g.memory)
BY MovedGood, WithSummaryGood

LEMMA TruncatedGood ==
    ASSUME NEW h, Good(h), OneState(h.memory), States(h) # {}
    PROVE  Good(Truncated(h)) /\ OneState(Truncated(h).memory)
<1>. DEFINE i == LastOf(States(h))
            left == IF h.memory[i].tokens > h.tokens - TokenLimit
                    THEN [kind |-> "state", tokens |-> h.memory[i].tokens - (h.tokens - TokenLimit)]
                    ELSE Msg("spent")
            g == Without(h, i)
            q == Append(g.memory, left)
            t == g.tokens + left.tokens
<1>1. /\ i \in 2..Len(h.memory) /\ i > h.summaryAt /\ h.memory[i].kind = "state"
  BY StateFound
<1>2. h.memory \in Seq(Piece) /\ h.tokens \in Int
  BY DEF Good, Histories
<1>3. h.memory[i].tokens \in Int
  <2>1. i \in 1..Len(h.memory) /\ h.memory \in [1..Len(h.memory) -> Piece]
    BY <1>1, <1>2, LenProperties
  <2>2. h.memory[i] \in Piece
    BY <2>1
  <2>. QED
    BY <2>2 DEF Piece
<1>4. Good(g) /\ NoState(g.memory)
  BY <1>1, WithoutGood
<1>5. left \in Piece
  <2>1. Msg("spent") \in Piece /\ "state" \in MessageKind
    BY Kinds
  <2>2. TokenLimit \in Int
    BY MemoryAssumption
  <2>. HIDE DEF i
  <2>3. h.memory[i].tokens - (h.tokens - TokenLimit) \in Int
    BY <1>2, <1>3, <2>2
  <2>. QED
    BY <2>1, <2>3 DEF Piece
<1>6. Truncated(h) = [g EXCEPT !.memory = q, !.tokens = t]
  BY DEF Truncated
<1>. HIDE DEF left, g
<1>7. g \in Histories /\ g.memory \in Seq(Piece) /\ g.tokens \in Int /\ left.tokens \in Int
  BY <1>4, <1>5 DEF Good, Histories, Piece
<1>8. q \in Seq(Piece) /\ Ordered(q, g.summaryAt) /\ OneState(q)
  BY <1>4, <1>5, <1>7, Added DEF Good
<1>9. t \in Int
  BY <1>7
<1>. HIDE DEF q, t
<1>10. PICK f : f = [g EXCEPT !.memory = q, !.tokens = t]
  OBVIOUS
<1>11. f \in Histories /\ f.memory = q /\ f.summaryAt = g.summaryAt
  BY <1>7, <1>8, <1>9, <1>10 DEF Histories
<1>. QED
  BY <1>6, <1>8, <1>10, <1>11 DEF Good

-----------------------------------------------------------------------------
(* The steps                                                                 *)

LEMMA Becomes ==
    ASSUME NEW h, Good(h), Become2(h), told' \in BOOLEAN, call' \in Calls,
           OneState(h.memory), ~told' => NoState(h.memory)
    PROVE  MemoryInv'
<1>1. h.memory \in Seq(Piece) /\ h.tokens \in Int /\ Ordered(h.memory, h.summaryAt)
  BY DEF Good, Histories
<1>2. memory' = h.memory /\ tokens' = h.tokens /\ summaryAt' = h.summaryAt
  BY DEF Become2
<1>. QED
  BY <1>1, <1>2 DEF MemoryInv

\* A call goes on, ends, or begins.
LEMMA CallGoes ==
    ASSUME call \in Calls
    PROVE  /\ \A p \in {"idle", "observed", "cutting", "answered"} : At2(p) => call' \in Calls
           /\ End2 => call' \in Calls
BY DEF At2, End2, Calls

LEMMA CallBegins ==
    ASSUME NEW by \in {"nobody", "navigator", "planner", "critic", "debrief"},
           NEW p \in {"idle", "observed", "cutting", "answered"}, NEW n \in Nat,
           by = "planner" => n >= 2,
           Begin(by, p, n) \/ call' = [by |-> by, at |-> p, plan |-> n]
    PROVE  call' \in Calls
BY DEF Begin, Calls

LEMMA NoneIsOne == ASSUME NEW q, NoState(q) PROVE OneState(q)
BY DEF NoState, OneState

LEMMA MemoryInvFirst == MemoryInit => MemoryInv
<1>. SUFFICES ASSUME MemoryInit PROVE MemoryInv
  OBVIOUS
<1>1. "init" \in MessageKind /\ Msg("init") \in Piece /\ Msg("init").kind = "init"
      /\ Tokens["init"] \in Int
  BY Kinds
<1>2. memory = <<Msg("init")>> /\ tokens = Tokens["init"] /\ summaryAt = 0 /\ told = FALSE
      /\ call = [by |-> "nobody", at |-> "idle", plan |-> 0]
  BY DEF MemoryInit
<1>3. memory \in Seq(Piece) /\ Len(memory) = 1 /\ memory[1] = Msg("init")
  BY <1>1, <1>2
<1>4. Ordered(memory, summaryAt) /\ OneState(memory) /\ NoState(memory)
  BY <1>1, <1>2, <1>3 DEF Ordered, OneState, NoState
<1>5. call \in Calls
  BY <1>2 DEF Calls
<1>. QED
  BY <1>1, <1>2, <1>3, <1>4, <1>5 DEF MemoryInv

LEMMA MemoryInvKept == MemoryInv /\ [MemoryNext]_memoryVars => MemoryInv'
<1>. SUFFICES ASSUME MemoryInv, [MemoryNext]_memoryVars PROVE MemoryInv'
  OBVIOUS
<1>1. /\ Good(History) /\ OneState(History.memory) /\ History.memory = memory
      /\ ~told => NoState(History.memory)
      /\ Good(Forgotten(History)) /\ NoState(Forgotten(History).memory)
      /\ OneState(Forgotten(History).memory) /\ Len(memory) \in Nat
  BY HistoryGood, NoneIsOne
<1>2. call \in Calls /\ told \in BOOLEAN
  BY DEF MemoryInv
<1>3. "note" \in MessageKind \ {"state"} /\ "human" \in MessageKind \ {"state"}
      /\ "output" \in MessageKind \ {"state"}
  BY Kinds
<1>4. CASE ObserveFails
  <2>1. PICK results \in BOOLEAN : Become2(AddIf(Forgotten(History), "note", results))
    BY <1>4 DEF ObserveFails
  <2>2. call' \in Calls /\ told' = FALSE
    BY <1>4, CallBegins DEF ObserveFails
  <2>3. /\ Good(AddIf(Forgotten(History), "note", results))
        /\ NoState(AddIf(Forgotten(History), "note", results).memory)
        /\ OneState(AddIf(Forgotten(History), "note", results).memory)
    BY <1>1, <1>3, AddIfGood
  <2>. QED
    BY <2>1, <2>2, <2>3, Becomes
<1>5. CASE NavigatorObserves
  <2>1. PICK results, warned \in BOOLEAN : Become2(AddIf(Told(History, results), "note", warned))
    BY <1>5 DEF NavigatorObserves
  <2>2. call' \in Calls /\ told' = TRUE
    BY <1>5, CallBegins DEF NavigatorObserves
  <2>3. Good(Told(History, results)) /\ OneState(Told(History, results).memory)
    BY <1>1, <1>2, ToldGood
  <2>4. /\ Good(AddIf(Told(History, results), "note", warned))
        /\ OneState(AddIf(Told(History, results), "note", warned).memory)
    BY <1>3, <2>3, AddIfGood
  <2>. QED
    BY <2>1, <2>2, <2>4, Becomes
<1>6. CASE PlannerObserves
  <2>. DEFINE f == AddIf(History, "human", fresh)
  <2>1. PICK results \in BOOLEAN :
           /\ Begin("planner", "observed", Len(Told(f, results).memory))
           /\ Become2(Told(f, results)) /\ told' = TRUE
    BY <1>6 DEF PlannerObserves
  <2>2. Good(f) /\ OneState(f.memory) /\ (~told => NoState(f.memory))
    <3>1. CASE fresh
      <4>1. f = Add(History, "human") /\ "human" # "state"
        BY <3>1 DEF AddIf
      <4>. QED
        BY <1>1, <1>3, <4>1, AddGood
    <3>2. CASE ~fresh
      BY <1>1, <3>2 DEF AddIf
    <3>. QED
      BY <3>1, <3>2
  <2>. HIDE DEF f
  <2>3. /\ Good(Told(f, results)) /\ OneState(Told(f, results).memory)
        /\ Len(Told(f, results).memory) >= 2
    BY <1>2, <2>2, ToldGood
  <2>4. Len(Told(f, results).memory) \in Nat
    BY <2>3, LenProperties DEF Good, Histories
  <2>5. call' \in Calls
    BY <2>1, <2>3, <2>4, CallBegins
  <2>. QED
    BY <2>1, <2>3, <2>5, Becomes
<1>7. CASE PlannerStarts
  <2>1. Len(memory) >= 1
    BY DEF MemoryInv, Ordered
  <2>2. Begin("planner", "cutting", Len(memory) + 1) /\ Len(memory) + 1 \in Nat
        /\ Len(memory) + 1 >= 2
    BY <1>1, <1>7, <2>1 DEF PlannerStarts
  <2>3. call' \in Calls
    BY <2>2, CallBegins
  <2>. QED
    BY <1>7, <2>3 DEF PlannerStarts, MemoryInv
<1>8. CASE Interrupted
  <2>1. call' \in Calls
    BY <1>2, <1>8, CallGoes DEF Interrupted
  <2>2. Become2(Forgotten(History)) /\ told' = FALSE
    BY <1>8 DEF Interrupted
  <2>. QED
    BY <1>1, <2>1, <2>2, Becomes
<1>9. CASE AskModel
  <2>1. call' \in Calls
    BY <1>2, <1>9, CallGoes DEF AskModel
  <2>. QED
    BY <1>9, <2>1 DEF AskModel, MemoryInv
<1>10. CASE CriticStarts
  <2>1. call' \in Calls
    BY <1>10, CallBegins DEF CriticStarts
  <2>2. Become2(Add(History, "note")) /\ told' = told
    BY <1>10 DEF CriticStarts
  <2>3. /\ Good(Add(History, "note")) /\ OneState(Add(History, "note").memory)
        /\ ~told => NoState(Add(History, "note").memory)
    BY <1>1, <1>3, AddGood
  <2>. QED
    BY <1>2, <2>1, <2>2, <2>3, Becomes
<1>11. CASE HandBackPlans
  <2>1. call' \in Calls
    BY <1>11, CallBegins DEF HandBackPlans
  <2>2. Become2(Resumed(History)) /\ told' = told
    BY <1>11 DEF HandBackPlans
  <2>3. /\ Good(Resumed(History)) /\ OneState(Resumed(History).memory)
        /\ ~told => NoState(Resumed(History).memory)
    BY <1>1, ResumedGood
  <2>. QED
    BY <1>2, <2>1, <2>2, <2>3, Becomes
<1>12. CASE CutOldest
  <2>. DEFINE g == WithSummary(Moved(History, FirstOf(Trimmable(History))))
  <2>1. Trimmable(History) # {} /\ Become2(g) /\ UNCHANGED <<told, call>>
    BY <1>12 DEF CutOldest, Moved
  <2>2. Good(g) /\ OneState(g.memory) /\ (~told => NoState(g.memory))
    BY <1>1, <2>1, OldestCut
  <2>. HIDE DEF g
  <2>. QED
    BY <1>2, <2>1, <2>2, Becomes
<1>13. CASE CutState
  <2>1. States(History) # {} /\ Become2(Truncated(History)) /\ UNCHANGED <<told, call>>
    BY <1>13 DEF CutState
  <2>2. told
    <3>1. DOMAIN memory = 1..Len(memory)
      BY LenProperties DEF MemoryInv
    <3>2. States(History) = {i \in DOMAIN memory : memory[i].kind = "state"}
      BY <1>1 DEF States
    <3>. QED
      BY <1>1, <2>1, <3>1, <3>2 DEF NoState
  <2>3. Good(Truncated(History)) /\ OneState(Truncated(History).memory)
    BY <1>1, <2>1, TruncatedGood
  <2>. QED
    BY <1>2, <2>1, <2>2, <2>3, Becomes
<1>14. CASE CutEnds
  <2>1. call' \in Calls
    BY <1>2, <1>14, CallGoes DEF CutEnds
  <2>. QED
    BY <1>14, <2>1 DEF CutEnds, MemoryInv
<1>15. CASE CutFails
  <2>1. CASE call.by = "navigator"
    <3>1. Become2(Forgotten(History)) /\ told' = FALSE /\ call' \in Calls
      BY <1>2, <1>15, <2>1, CallGoes DEF CutFails
    <3>. QED
      BY <1>1, <3>1, Becomes
  <2>2. CASE call.by # "navigator"
    <3>1. UNCHANGED <<memory, tokens, summaryAt, told>> /\ call' \in Calls
      BY <1>2, <1>15, <2>2, CallGoes DEF CutFails
    <3>. QED
      BY <3>1 DEF MemoryInv
  <2>. QED
    BY <2>1, <2>2
<1>16. CASE NavigatorAnswers
  <2>. DEFINE a(n) == AddIf(Forgotten(History), "note", n)
              b(n, o) == AddIf(a(n), "output", o)
              c(n, o, l) == AddIf(b(n, o), "note", l)
  <2>1. PICK n, o, l \in BOOLEAN : Become2(c(n, o, l))
    BY <1>16 DEF NavigatorAnswers
  <2>2. call' \in Calls /\ told' = FALSE
    BY <1>2, <1>16, CallGoes DEF NavigatorAnswers
  <2>3. Good(a(n)) /\ NoState(a(n).memory)
    BY <1>1, <1>3, AddIfGood
  <2>. HIDE DEF a
  <2>4. Good(b(n, o)) /\ NoState(b(n, o).memory)
    BY <1>3, <2>3, AddIfGood
  <2>. HIDE DEF b
  <2>5. Good(c(n, o, l)) /\ NoState(c(n, o, l).memory)
    BY <1>3, <2>4, AddIfGood
  <2>. HIDE DEF c
  <2>. QED
    BY <2>1, <2>2, <2>5, Becomes, NoneIsOne
<1>17. CASE PlannerAnswers
  <2>. DEFINE h == Forgotten(History)
  <2>1. call.by = "planner" /\ told' = FALSE /\ call' \in Calls
        /\ (Become2(AddAt(h, "plan", call.plan)) \/ Become2(h))
    BY <1>2, <1>17, CallGoes DEF PlannerAnswers
  <2>2. call.plan \in Nat /\ call.plan >= 2
    BY <1>2, <2>1 DEF Calls
  <2>3. Good(AddAt(h, "plan", call.plan)) /\ NoState(AddAt(h, "plan", call.plan).memory)
    BY <1>1, <2>2, AddAtGood
  <2>4. CASE Become2(h)
    BY <1>1, <2>1, <2>4, Becomes
  <2>5. CASE Become2(AddAt(h, "plan", call.plan))
    BY <2>1, <2>3, <2>5, Becomes, NoneIsOne
  <2>. QED
    BY <2>1, <2>4, <2>5
<1>18. CASE OthersAnswer
  <2>1. PICK k \in {"note", "human"} : Become2(Add(History, k))
    BY <1>18 DEF OthersAnswer
  <2>2. call' \in Calls /\ told' = told
    BY <1>2, <1>18, CallGoes DEF OthersAnswer
  <2>3. /\ Good(Add(History, k)) /\ OneState(Add(History, k).memory)
        /\ ~told => NoState(Add(History, k).memory)
    BY <1>1, <1>3, AddGood
  <2>. QED
    BY <1>2, <2>1, <2>2, <2>3, Becomes
<1>19. CASE UNCHANGED memoryVars
  BY <1>19 DEF memoryVars, MemoryInv
<1>. QED
  BY <1>4, <1>5, <1>6, <1>7, <1>8, <1>9, <1>10, <1>11, <1>12, <1>13, <1>14, <1>15, <1>16, <1>17,
     <1>18, <1>19
  DEF MemoryNext

\* While a model is asked, the history holds the state of the page once; between
\* two calls it holds none, however the history was cut, resumed or interrupted.
THEOREM StateSafety == MemorySpec => []OneStateWhileTold
<1>1. MemoryInv => OneStateWhileTold
  <2>. SUFFICES ASSUME MemoryInv PROVE OneStateWhileTold
    OBVIOUS
  <2>1. /\ DOMAIN memory = 1..Len(memory)
        /\ OneState(memory) /\ (~told => NoState(memory))
    BY LenProperties DEF MemoryInv
  <2>2. States(History) = {i \in DOMAIN memory : memory[i].kind = "state"}
    BY DEF States, History
  <2>3. CASE States(History) = {}
    <3>1. Cardinality(States(History)) = 0
      BY <2>3, FS_EmptySet
    <3>. QED
      BY <3>1 DEF OneStateWhileTold
  <2>4. CASE States(History) # {}
    <3>. PICK i \in States(History) : TRUE
      BY <2>4
    <3>1. States(History) = {i}
      <4>1. i \in 1..Len(memory) /\ memory[i].kind = "state"
        BY <2>1, <2>2
      <4>2. ASSUME NEW j \in States(History) PROVE j = i
        <5>1. j \in 1..Len(memory) /\ memory[j].kind = "state"
          BY <2>1, <2>2
        <5>. QED BY <2>1, <4>1, <5>1 DEF OneState
      <4>. QED BY <4>2
    <3>2. Cardinality(States(History)) = 1
      BY <3>1, FS_Singleton
    <3>3. told
      BY <2>1, <2>2, <2>4 DEF NoState
    <3>. QED
      BY <3>2, <3>3 DEF OneStateWhileTold
  <2>. QED
    BY <2>3, <2>4
<1>. QED
  BY <1>1, MemoryInvFirst, MemoryInvKept, PTL DEF MemorySpec

-----------------------------------------------------------------------------
(* MessageMemory: what a cut keeps                                           *)

LEMMA SparedPlaces ==
    ASSUME NEW q \in Seq(Piece)
    PROVE  /\ Spared(q) \subseteq Int /\ IsFiniteSet(Spared(q))
           /\ Spared(q) = {i \in 1..Len(q) : q[i].kind \in {"init", "plan", "human"}}
<1>1. Len(q) \in Nat /\ DOMAIN q = 1..Len(q)
  BY LenProperties
<1>2. Spared(q) \in SUBSET (1..Len(q)) /\ IsFiniteSet(1..Len(q))
  BY <1>1, FS_Interval DEF Spared
<1>. QED BY <1>1, <1>2, FS_Subset DEF Spared

\* p is q without the message at i.
LessOne(q, p, i) ==
    /\ Len(p) = Len(q) - 1
    /\ \A k \in 1..(i - 1) : p[k] = q[k]
    /\ \A k \in i..(Len(q) - 1) : p[k] = q[k + 1]

\* A message that is not protected makes no difference to those that are.
LEMMA OneUnprotected ==
    ASSUME NEW q \in Seq(Piece), NEW p \in Seq(Piece), NEW i \in 1..Len(q), LessOne(q, p, i),
           q[i].kind \notin {"init", "plan", "human"}
    PROVE  Kept(p) = Kept(q)
<1>. DEFINE S == Spared(p)
            T == Spared(q)
            n == Len(q)
            f == [k \in S |-> IF k < i THEN k ELSE k + 1]
<1>1. /\ n \in Nat /\ i \in Nat /\ 1 <= i /\ i <= n /\ Len(p) = n - 1
      /\ \A k \in 1..(i - 1) : p[k] = q[k]
      /\ \A k \in i..(n - 1) : p[k] = q[k + 1]
  BY LenProperties DEF LessOne
<1>2. /\ S \subseteq Int /\ IsFiniteSet(S) /\ T \subseteq Int /\ IsFiniteSet(T)
      /\ S = {k \in 1..(n - 1) : p[k].kind \in {"init", "plan", "human"}}
      /\ T = {k \in 1..n : q[k].kind \in {"init", "plan", "human"}}
  BY <1>1, SparedPlaces
<1>. HIDE DEF S, T, n
<1>3. ASSUME NEW k \in S
      PROVE  /\ f[k] \in T /\ p[k] = q[f[k]] /\ k \in Int
             /\ f[k] = IF k < i THEN k ELSE k + 1
  <2>0. k \in 1..(n - 1) /\ k \in Int
    BY <1>2
  <2>1. f[k] \in 1..n /\ p[k] = q[f[k]]
    <3>1. CASE k < i
      <4>1. f[k] = k /\ k \in 1..(i - 1) /\ k \in 1..n
        BY <1>1, <2>0, <3>1
      <4>. QED BY <1>1, <4>1
    <3>2. CASE ~(k < i)
      <4>1. f[k] = k + 1 /\ k \in i..(n - 1) /\ k + 1 \in 1..n
        BY <1>1, <2>0, <3>2
      <4>. QED BY <1>1, <4>1
    <3>. QED BY <3>1, <3>2
  <2>2. p[k].kind \in {"init", "plan", "human"}
    BY <1>2
  <2>3. q[f[k]].kind \in {"init", "plan", "human"}
    BY <2>1, <2>2
  <2>. QED BY <1>2, <2>0, <2>1, <2>3
<1>4. f \in [S -> T]
  BY <1>3
<1>5. ASSUME NEW k \in T PROVE \E j \in S : f[j] = k
  <2>0. k \in 1..n /\ k \in Int /\ q[k].kind \in {"init", "plan", "human"}
    BY <1>2
  <2>1. k # i
    BY <2>0
  <2>2. CASE k < i
    <3>1. k \in 1..(i - 1) /\ k \in 1..(n - 1)
      BY <1>1, <2>0, <2>2
    <3>2. p[k] = q[k]
      BY <1>1, <3>1
    <3>3. k \in S
      BY <1>2, <2>0, <3>1, <3>2
    <3>. QED BY <1>3, <2>2, <3>3
  <2>3. CASE ~(k < i)
    <3>1. k - 1 \in i..(n - 1) /\ k - 1 \in 1..(n - 1) /\ (k - 1) + 1 = k /\ ~(k - 1 < i)
      BY <1>1, <2>0, <2>1, <2>3
    <3>2. p[k - 1] = q[k]
      BY <1>1, <3>1
    <3>3. k - 1 \in S
      BY <1>2, <2>0, <3>1, <3>2
    <3>4. f[k - 1] = k
      BY <1>3, <3>1, <3>3
    <3>. QED BY <3>3, <3>4
  <2>. QED BY <2>2, <2>3
<1>6. ASSUME NEW k \in S, NEW l \in S
      PROVE  /\ f[k] = f[l] => k = l
             /\ k <= l <=> f[k] <= f[l]
  <2>1. k \in Int /\ l \in Int /\ i \in Int
    BY <1>1, <1>3
  <2>2. f[k] = (IF k < i THEN k ELSE k + 1) /\ f[l] = (IF l < i THEN l ELSE l + 1)
    BY <1>3
  <2>. HIDE DEF f
  <2>. QED BY <2>1, <2>2
<1>7. \A k \in S : p[k] = q[f[k]]
  BY <1>3
<1>. HIDE DEF f
<1>8. Picked(p, S) = Picked(q, T)
  <2>1. PICK g : g = f
    OBVIOUS
  <2>2. g \in [S -> T] /\ \A k \in S : p[k] = q[g[k]]
    BY <1>4, <1>7, <2>1
  <2>3. \A k, l \in S : g[k] = g[l] => k = l
    BY <1>6, <2>1
  <2>4. \A k, l \in S : k <= l <=> g[k] <= g[l]
    BY <1>6, <2>1
  <2>5. \A k \in T : \E j \in S : g[j] = k
    BY <1>5, <2>1
  <2>6. Corresponds(g, p, S, q, T)
    BY <2>2, <2>3, <2>4, <2>5 DEF Corresponds
  <2>. QED BY <1>2, <2>6, SamePicked
<1>. QED BY <1>8 DEF Kept, S, T

\* One that is replaced by another makes none either.
LEMMA OneReplaced ==
    ASSUME NEW q \in Seq(Piece), NEW p \in Seq(Piece), Len(p) = Len(q), NEW i \in 1..Len(q),
           q[i].kind \notin {"init", "plan", "human"}, p[i].kind \notin {"init", "plan", "human"},
           \A k \in 1..Len(q) : k # i => p[k] = q[k]
    PROVE  Kept(p) = Kept(q)
<1>1. /\ Spared(q) = {k \in 1..Len(q) : q[k].kind \in {"init", "plan", "human"}}
      /\ Spared(p) = {k \in 1..Len(q) : p[k].kind \in {"init", "plan", "human"}}
      /\ Spared(q) \subseteq Int /\ IsFiniteSet(Spared(q))
  BY SparedPlaces
<1>2. Spared(p) = Spared(q) /\ \A k \in Spared(q) : p[k] = q[k]
  <2>1. \A k \in 1..Len(q) : /\ k # i => p[k] = q[k]
                             /\ k = i => k \notin Spared(p) /\ k \notin Spared(q)
    BY <1>1
  <2>. QED BY <1>1, <2>1
<1>3. \A n \in 1..Cardinality(Spared(q)) : p[Nth(Spared(q), n)] = q[Nth(Spared(q), n)]
  BY <1>1, <1>2, NthFacts
<1>. QED BY <1>2, <1>3, Zenon DEF Kept, Picked

LEMMA WithoutKeeps ==
    ASSUME NEW h, Good(h), NEW i \in 1..Len(h.memory),
           h.memory[i].kind \notin {"init", "plan", "human"}
    PROVE  /\ Kept(RemoveAt(h.memory, i)) = Kept(h.memory)
           /\ RemoveAt(h.memory, i) \in Seq(Piece)
<1>1. h.memory \in Seq(Piece)
  BY DEF Good, Histories
<1>2. RemoveAt(h.memory, i) \in Seq(Piece) /\ LessOne(h.memory, RemoveAt(h.memory, i), i)
  BY <1>1, RemovedAt DEF LessOne
<1>. QED BY <1>1, <1>2, OneUnprotected

LEMMA WithSummaryKeeps ==
    ASSUME NEW h, Good(h)
    PROVE  Kept(WithSummary(h).memory) = Kept(h.memory)
<1>. DEFINE q == h.memory
            s == h.summaryAt
            m == Msg("summary")
<1>1. h \in Histories /\ q \in Seq(Piece) /\ s \in Nat /\ Ordered(q, s)
  <2>1. h \in Histories /\ Ordered(q, s)
    BY DEF Good
  <2>. QED BY <2>1 DEF Histories
<1>2. Len(q) \in Nat /\ Len(q) >= 1 /\ s \in 0..Len(q)
  BY <1>1, LenProperties DEF Ordered
<1>3. m \in Piece /\ m.kind = "summary"
  <2>1. "summary" \in MessageKind
    BY Kinds
  <2>. QED BY <2>1, Kinds
<1>. HIDE DEF m
<1>4. CASE s # 0
  <2>1. WithSummary(h).memory = [q EXCEPT ![s] = m]
    <3>1. PICK t : t = h.tokens - q[s].tokens + Tokens.summary
      OBVIOUS
    <3>2. WithSummary(h) = [h EXCEPT !.memory = [q EXCEPT ![s] = m], !.tokens = t]
      BY <1>1, <1>4, <3>1 DEF WithSummary, m, Histories
    <3>. QED BY <1>1, <3>2 DEF Histories
  <2>2. s \in 1..Len(q) /\ q[s].kind = "summary"
    BY <1>1, <1>2, <1>4 DEF Ordered
  <2>3. PICK p : p = [q EXCEPT ![s] = m]
    OBVIOUS
  <2>4. /\ p \in Seq(Piece) /\ Len(p) = Len(q)
        /\ \A k \in 1..Len(q) : p[k] = IF k = s THEN m ELSE q[k]
    BY <1>1, <1>3, <2>2, <2>3, ExceptSeq
  <2>5. p[s].kind = "summary" /\ \A k \in 1..Len(q) : k # s => p[k] = q[k]
    BY <1>3, <2>2, <2>4
  <2>. HIDE DEF q, s
  <2>6. Kept(p) = Kept(q)
    BY <1>1, <2>2, <2>4, <2>5, OneReplaced
  <2>. QED BY <2>1, <2>3, <2>6 DEF q
<1>5. CASE s = 0
  <2>1. WithSummary(h).memory = InsertAt(q, 2, m)
    <3>1. PICK t : t = h.tokens + Tokens.summary
      OBVIOUS
    <3>2. WithSummary(h) = [h EXCEPT !.memory = InsertAt(q, 2, m), !.tokens = t, !.summaryAt = 2]
      BY <1>5, <3>1 DEF WithSummary, m
    <3>. QED BY <1>1, <3>2 DEF Histories
  <2>2. PICK p : p = InsertAt(q, 2, m)
    OBVIOUS
  <2>3. 2 \in 1..(Len(q) + 1)
    BY <1>2
  <2>. HIDE DEF q, s
  <2>4. /\ p \in Seq(Piece) /\ Len(p) = Len(q) + 1 /\ p[2] = m
        /\ \A k \in 1..(2 - 1) : p[k] = q[k]
        /\ \A k \in 2..Len(q) : p[k + 1] = q[k]
    BY <1>1, <1>3, <2>2, <2>3, InsertedAt
  <2>5. LessOne(p, q, 2) /\ 2 \in 1..Len(p) /\ p[2].kind = "summary"
    BY <1>2, <1>3, <2>4 DEF LessOne
  <2>6. Kept(q) = Kept(p)
    BY <1>1, <2>4, <2>5, OneUnprotected
  <2>. QED BY <2>1, <2>2, <2>6 DEF q
<1>. QED BY <1>4, <1>5

LEMMA OldestCutKeeps ==
    ASSUME NEW h, Good(h), Trimmable(h) # {}
    PROVE  Kept(WithSummary(Moved(h, FirstOf(Trimmable(h)))).memory) = Kept(h.memory)
<1>1. PICK i : i = FirstOf(Trimmable(h))
  OBVIOUS
<1>2. i \in Trimmable(h) /\ i \in 2..Len(h.memory) /\ i # h.summaryAt
  BY <1>1, FirstFound
<1>3. h \in Histories /\ h.memory \in Seq(Piece) /\ Len(h.memory) \in Nat /\ h.summaryAt \in Nat
  <2>1. h \in Histories
    BY DEF Good
  <2>. QED BY <2>1, LenProperties DEF Histories
<1>4. h.memory[i].kind \notin {"init", "plan", "human"} /\ i \in 1..Len(h.memory)
  BY <1>2, <1>3 DEF Trimmable
<1>5. Kept(RemoveAt(h.memory, i)) = Kept(h.memory)
  BY <1>4, WithoutKeeps
<1>6. Good(Moved(h, i)) /\ Moved(h, i).memory = RemoveAt(h.memory, i)
  BY <1>1, MovedGood
<1>7. Kept(WithSummary(Moved(h, i)).memory) = Kept(Moved(h, i).memory)
  BY <1>6, WithSummaryKeeps
<1>. QED BY <1>1, <1>5, <1>6, <1>7

LEMMA TruncatedKeeps ==
    ASSUME NEW h, Good(h), OneState(h.memory), States(h) # {}
    PROVE  Kept(Truncated(h).memory) = Kept(h.memory)
<1>1. PICK i, left :
         /\ i = LastOf(States(h))
         /\ left = IF h.memory[i].tokens > h.tokens - TokenLimit
                   THEN [kind |-> "state", tokens |-> h.memory[i].tokens - (h.tokens - TokenLimit)]
                   ELSE Msg("spent")
  OBVIOUS
<1>2. i \in 2..Len(h.memory) /\ h.memory[i].kind = "state" /\ i > h.summaryAt
  BY <1>1, StateFound
<1>3. /\ h \in Histories /\ h.memory \in Seq(Piece) /\ h.tokens \in Int /\ Len(h.memory) \in Nat
      /\ h.summaryAt \in Nat
  <2>1. h \in Histories
    BY DEF Good
  <2>. QED BY <2>1, LenProperties DEF Histories
<1>4. left \in Piece /\ left.kind \notin {"init", "plan", "human"}
  <2>1. Msg("spent") \in Piece /\ Msg("spent").kind = "spent" /\ "state" \in MessageKind
    BY Kinds
  <2>2. h.memory[i].tokens \in Int
    <3>1. h.memory[i] \in Piece
      BY <1>2, <1>3, ElementOfSeq
    <3>. QED BY <3>1 DEF Piece
  <2>3. h.memory[i].tokens - (h.tokens - TokenLimit) \in Int
    BY <1>3, <2>2, MemoryAssumption
  <2>. QED BY <1>1, <2>1, <2>3 DEF Piece
<1>5. i \in 1..Len(h.memory)
  BY <1>2, <1>3
<1>6. PICK g : g = RemoveAt(h.memory, i)
  OBVIOUS
<1>7. g \in Seq(Piece) /\ Kept(g) = Kept(h.memory)
  BY <1>2, <1>5, <1>6, WithoutKeeps
<1>8. PICK p : p = Append(g, left)
  OBVIOUS
<1>9. /\ p \in Seq(Piece) /\ Len(g) \in Nat /\ Len(p) = Len(g) + 1 /\ p[Len(g) + 1] = left
      /\ \A k \in 1..Len(g) : p[k] = g[k]
  BY <1>4, <1>7, <1>8, AppendProperties, LenProperties
<1>10. LessOne(p, g, Len(g) + 1) /\ Len(g) + 1 \in 1..Len(p)
  BY <1>9 DEF LessOne
<1>11. Kept(g) = Kept(p)
  BY <1>4, <1>7, <1>9, <1>10, OneUnprotected
<1>12. Truncated(h).memory = p
  <2>1. PICK f : f = Without(h, i)
    OBVIOUS
  <2>2. f = [h EXCEPT !.memory = g, !.tokens = h.tokens - h.memory[i].tokens]
    BY <1>6, <2>1 DEF Without
  <2>3. DOMAIN f = DOMAIN h /\ f.memory = g
    BY <1>3, <2>2 DEF Histories
  <2>4. Truncated(h) = [f EXCEPT !.memory = Append(f.memory, left), !.tokens = f.tokens + left.tokens]
    BY <1>1, <2>1 DEF Truncated
  <2>. QED BY <1>3, <1>8, <2>3, <2>4 DEF Histories
<1>. QED BY <1>7, <1>11, <1>12

\* However short the token limit is: a cut takes neither the task, nor a plan in
\* force, nor what was said of the human, and keeps their order.
THEOREM CutSafety == MemorySpec => CutKeepsProtected
<1>1. ASSUME MemoryInv, [MemoryNext]_memoryVars, call.at = "cutting"
      PROVE  Kept(memory') = Kept(memory)
  <2>1. /\ Good(History) /\ OneState(History.memory) /\ History.memory = memory
        /\ Good(Forgotten(History))
    BY <1>1, HistoryGood
  <2>2. \/ UNCHANGED memory
        \/ CutOldest \/ CutState
        \/ CutFails /\ Become2(Forgotten(History))
    BY <1>1 DEF MemoryNext, ObserveFails, NavigatorObserves, PlannerObserves, PlannerStarts,
         Interrupted, AskModel, CriticStarts, HandBackPlans, CutEnds, CutFails, NavigatorAnswers,
         PlannerAnswers, OthersAnswer, Begin, Idle, memoryVars
  <2>3. CASE UNCHANGED memory
    BY <2>3
  <2>4. CASE CutOldest
    <3>1. /\ Trimmable(History) # {}
          /\ memory' = WithSummary(Moved(History, FirstOf(Trimmable(History)))).memory
      BY <2>4 DEF CutOldest, Moved, Become2
    <3>. QED BY <2>1, <3>1, OldestCutKeeps
  <2>5. CASE CutState
    <3>1. States(History) # {} /\ memory' = Truncated(History).memory
      BY <2>5 DEF CutState, Become2
    <3>. QED BY <2>1, <3>1, TruncatedKeeps
  <2>6. CASE CutFails /\ Become2(Forgotten(History))
    <3>1. States(History) = {} /\ memory' = Forgotten(History).memory
      BY <2>6 DEF CutFails, Become2
    <3>2. Forgotten(History) = History
      BY <3>1 DEF Forgotten, ForgetState
    <3>. QED BY <2>1, <3>1, <3>2
  <2>. QED BY <2>2, <2>3, <2>4, <2>5, <2>6
<1>2. MemoryInv /\ [MemoryNext]_memoryVars
        => [call.at = "cutting" => Kept(memory') = Kept(memory)]_memoryVars
  BY <1>1
<1>. QED BY <1>2, MemoryInvFirst, MemoryInvKept, PTL DEF MemorySpec, CutKeepsProtected
==============================================================================
