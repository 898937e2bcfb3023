---------------------------- MODULE ReplayProofs -----------------------------
(*****************************************************************************)
(* Proofs about what is recorded of a run and what a recorded run is worth   *)
(* when it is carried out again: that a step of a replay finds the tab it    *)
(* was recorded on (ReplayTabs), that an action of a batch hits an element   *)
(* that looks as the one that was seen and a replayed click the element      *)
(* that was recorded (ElementFinder), that a commit is carried out only      *)
(* while the fields hold what was written and every recorded action is       *)
(* carried out again, in its place (ActionBatch), that what a human typed    *)
(* and clicked is in the trace, in its order (HumanCapture), and that the    *)
(* script of a run is there as long as a run plays it and a delete takes a   *)
(* family of runs as a whole and nothing else (TaskPurge).                   *)
(*****************************************************************************)
EXTENDS ReplayTabs, ElementFinder, ActionBatch, HumanCapture, TaskPurge,
        SubsequenceProofs

-----------------------------------------------------------------------------
(* Sequences whose elements have no type of their own                        *)

IsSequence(s) == \E S : s \in Seq(S)

LEMMA SeqLarger == ASSUME NEW S, NEW T, S \subseteq T PROVE Seq(S) \subseteq Seq(T)
BY SeqDef

\* Append keeps what was there and adds one at the end, whatever that is.
LEMMA AppendIsSequence ==
    ASSUME NEW s, NEW e, IsSequence(s)
    PROVE  /\ IsSequence(Append(s, e)) /\ Len(s) \in Nat
           /\ Len(Append(s, e)) = Len(s) + 1
           /\ Append(s, e)[Len(s) + 1] = e
           /\ \A i \in 1..Len(s) : Append(s, e)[i] = s[i]
<1>1. PICK S : s \in Seq(S) BY DEF IsSequence
<1>2. s \in Seq(S \cup {e}) BY <1>1, SeqLarger
<1>3. Append(s, e) \in Seq(S \cup {e}) /\ Len(s) \in Nat /\ Len(Append(s, e)) = Len(s) + 1
    BY <1>2, AppendProperties, LenProperties
<1>4. Append(s, e)[Len(s) + 1] = e /\ \A i \in 1..Len(s) : Append(s, e)[i] = s[i]
    BY <1>2, AppendProperties
<1>. QED BY <1>3, <1>4 DEF IsSequence

-----------------------------------------------------------------------------
(* ReplayTabs: the browser before every step is the browser of the training  *)

\* What a recorded step makes of a browser, in the training and in the replay
AfterStep(b, s, k) ==
    CASE s.act = "element" -> b
      [] s.act = "open"    -> NewPage(b, k)
      [] s.act = "switch"  -> SwitchTab(b, s.id)
      [] s.act = "close"   -> CloseTab(b, s.id)

\* A step that could be recorded while the browser was b
RecordedOn(s, b) ==
    /\ s.act \in {"element", "open", "switch", "close"}
    /\ s.from = CurrentPage(b).from
    /\ s.act = "switch" => Has(b, s.id)
    /\ s.act = "close" => s.id = b.current

\* b[k] is the training's browser before its k-th step
IsHistory(b, steps) ==
    /\ b[1] = Launched
    /\ \A k \in 1..Len(steps) : RecordedOn(steps[k], b[k]) /\ b[k + 1] = AfterStep(b[k], steps[k], k)

\* The replay has done the steps before its cursor, each where it was recorded,
\* and its browser is the one that the training had before the step at the cursor
ReplayFollows(b) ==
    /\ Len(worked) = cursor - 1 /\ cursor <= Len(script) + 1
    /\ \A i \in 1..(cursor - 1) : worked[i] = script[i].from
    /\ stage = "replay" => browser = b[cursor]

TabsInv ==
    /\ IsSequence(script) /\ IsSequence(worked)
    /\ cursor \in Nat \ {0} /\ Len(script) \in Nat /\ Len(worked) \in Nat
    /\ stage = "training" => cursor = 1 /\ worked = <<>>
    /\ drift = {} => \E b :
         /\ IsHistory(b, script)
         /\ IF stage = "training" THEN browser = b[Len(script) + 1] ELSE ReplayFollows(b)

\* The browsers of the training are as many as wanted: one more step, one more browser.
LEMMA HistoryGrows ==
    ASSUME NEW b, NEW steps, NEW s, NEW next, IsSequence(steps), IsHistory(b, steps),
           RecordedOn(s, b[Len(steps) + 1]),
           next = AfterStep(b[Len(steps) + 1], s, Len(steps) + 1)
    PROVE  \E c : IsHistory(c, Append(steps, s)) /\ c[Len(Append(steps, s)) + 1] = next
<1>. DEFINE n == Len(steps)
            q == Append(steps, s)
            c == [k \in 1..(n + 2) |-> IF k = n + 2 THEN next ELSE b[k]]
<1>1. n \in Nat /\ Len(q) = n + 1 /\ q[n + 1] = s /\ \A i \in 1..n : q[i] = steps[i]
    BY AppendIsSequence
<1>2. c[n + 2] = next /\ \A k \in 1..(n + 1) : c[k] = b[k]
    BY <1>1
<1>3. b[1] = Launched /\ \A k \in 1..n : RecordedOn(steps[k], b[k]) /\ b[k + 1] = AfterStep(b[k], steps[k], k)
    BY DEF IsHistory
<1>4. RecordedOn(s, b[n + 1]) /\ next = AfterStep(b[n + 1], s, n + 1)
    OBVIOUS
<1>. HIDE DEF n, q, c
<1>5. c[1] = Launched
    BY <1>1, <1>2, <1>3
<1>6. ASSUME NEW k \in 1..Len(q)
      PROVE  RecordedOn(q[k], c[k]) /\ c[k + 1] = AfterStep(c[k], q[k], k)
    <2>1. CASE k = n + 1
        <3>1. q[k] = s /\ c[k] = b[n + 1] /\ c[k + 1] = next
            BY <1>1, <1>2, <2>1
        <3>. QED BY <3>1, <1>4, <2>1
    <2>2. CASE k \in 1..n
        <3>1. q[k] = steps[k] /\ c[k] = b[k] /\ c[k + 1] = b[k + 1]
            BY <1>1, <1>2, <2>2
        <3>. QED BY <3>1, <1>3, <2>2
    <2>. QED BY <2>1, <2>2, <1>1
<1>7. IsHistory(c, q)
    BY <1>5, <1>6 DEF IsHistory
<1>8. c[Len(q) + 1] = next
    BY <1>1, <1>2
<1>. QED BY <1>7, <1>8 DEF q

LEMMA TabsInvFirst == ReplayInit => TabsInv
<1>. SUFFICES ASSUME ReplayInit PROVE TabsInv
    OBVIOUS
<1>1. <<>> \in Seq({}) /\ Len(<<>>) = 0
    BY EmptySeq
<1>2. IsSequence(script) /\ IsSequence(worked) /\ Len(script) = 0 /\ Len(worked) = 0
    BY <1>1 DEF ReplayInit, IsSequence
<1>3. IsHistory([k \in {1} |-> Launched], script)
    BY <1>2 DEF IsHistory
<1>4. \E b : IsHistory(b, script) /\ browser = b[Len(script) + 1]
    <2>. WITNESS [k \in {1} |-> Launched]
    <2>1. browser = [k \in {1} |-> Launched][Len(script) + 1]
        BY <1>2 DEF ReplayInit
    <2>. QED BY <1>3, <2>1
<1>. QED BY <1>2, <1>4 DEF TabsInv, ReplayInit

-----------------------------------------------------------------------------
(* The steps of the training                                                 *)

LEMMA TrainKeepsTabs ==
    ASSUME TabsInv, Training,
           TrainElement \/ TrainOpen \/ \E id \in Nat : TrainSwitch(id) \/ TrainClose(id)
    PROVE  TabsInv'
<1>1. PICK s : /\ script' = Append(script, s) /\ s.from = CurrentPage(browser).from
               /\ UNCHANGED <<stage, cursor, again, worked>>
               /\ drift' = {} => /\ drift = {} /\ RecordedOn(s, browser)
                                 /\ browser' = AfterStep(browser, s, Len(script) + 1)
    <2>1. CASE TrainElement
        BY <2>1 DEF TrainElement, RecordTab, RecordedOn, AfterStep
    <2>2. CASE TrainOpen
        BY <2>2 DEF TrainOpen, RecordTab, RecordedOn, AfterStep
    <2>3. ASSUME NEW id \in Nat, TrainSwitch(id)
          PROVE  \E s : /\ script' = Append(script, s) /\ s.from = CurrentPage(browser).from
                        /\ UNCHANGED <<stage, cursor, again, worked>>
                        /\ drift' = {} => /\ drift = {} /\ RecordedOn(s, browser)
                                          /\ browser' = AfterStep(browser, s, Len(script) + 1)
        BY <2>3 DEF TrainSwitch, RecordTab, RecordedOn, AfterStep
    <2>4. ASSUME NEW id \in Nat, TrainClose(id)
          PROVE  \E s : /\ script' = Append(script, s) /\ s.from = CurrentPage(browser).from
                        /\ UNCHANGED <<stage, cursor, again, worked>>
                        /\ drift' = {} => /\ drift = {} /\ RecordedOn(s, browser)
                                          /\ browser' = AfterStep(browser, s, Len(script) + 1)
        <3>. DEFINE s == [act |-> "close", id |-> id, from |-> CurrentPage(browser).from]
        <3>1. s.act = "close" /\ s.id = id /\ s.from = CurrentPage(browser).from
            OBVIOUS
        <3>2. script' = Append(script, s) /\ UNCHANGED <<stage, cursor, again, worked>>
            BY <2>4 DEF TrainClose, RecordTab
        <3>3. /\ browser' = CloseTab(browser, id)
              /\ drift' = IF id = browser.current THEN drift ELSE drift \cup {"other tab"}
            BY <2>4 DEF TrainClose
        <3>. HIDE DEF s
        <3>4. ASSUME drift' = {}
              PROVE  drift = {} /\ id = browser.current
            BY <3>3, <3>4
        <3>5. RecordedOn(s, browser) <=> id = browser.current
            BY <3>1 DEF RecordedOn
        <3>6. AfterStep(browser, s, Len(script) + 1) = CloseTab(browser, id)
            BY <3>1 DEF AfterStep
        <3>. QED BY <3>1, <3>2, <3>3, <3>4, <3>5, <3>6
    <2>. QED BY <2>1, <2>2, <2>3, <2>4
<1>2. stage = "training" /\ stage' = "training" /\ cursor' = 1 /\ worked' = <<>>
    BY <1>1 DEF TabsInv, Training
<1>3. IsSequence(script') /\ IsSequence(worked') /\ Len(script') \in Nat /\ Len(worked') \in Nat
    BY <1>1, AppendIsSequence DEF TabsInv
<1>4. ASSUME drift' = {}
      PROVE  \E b : IsHistory(b, script') /\ browser' = b[Len(script') + 1]
    <2>1. PICK b : IsHistory(b, script) /\ browser = b[Len(script) + 1]
        BY <1>1, <1>2, <1>4 DEF TabsInv
    <2>2. IsSequence(script) /\ RecordedOn(s, b[Len(script) + 1])
            /\ browser' = AfterStep(b[Len(script) + 1], s, Len(script) + 1)
        BY <1>1, <1>4, <2>1 DEF TabsInv
    <2>3. \E c : IsHistory(c, Append(script, s)) /\ c[Len(Append(script, s)) + 1] = browser'
        BY <2>1, <2>2, HistoryGrows
    <2>. QED BY <2>3, <1>1
<1>. QED BY <1>2, <1>3, <1>4 DEF TabsInv

-----------------------------------------------------------------------------
(* The steps of the replay                                                   *)

\* A step that only stops, ends, retries or starts: no tab is touched.
LEMMA StandingKeepsTabs ==
    ASSUME TabsInv, UNCHANGED <<browser, script, cursor, worked, drift>>,
           stage # "training", stage' # "training", stage' = "replay" => stage = "replay"
    PROVE  TabsInv'
BY DEF TabsInv, ReplayFollows

\* A step done: the browser is what the training's became by the same step.
LEMMA DoneKeepsTabs ==
    ASSUME TabsInv, stage = "replay", cursor <= Len(script), Done(CurrentPage(browser).from),
           drift' = drift,
           drift = {} /\ RecordedOn(script[cursor], browser)
               => browser' = AfterStep(browser, script[cursor], cursor)
    PROVE  TabsInv'
<1>. DEFINE w == Append(worked, CurrentPage(browser).from)
<1>1. /\ worked' = w /\ cursor' = cursor + 1 /\ script' = script /\ stage' = stage
      /\ cursor \in Nat \ {0} /\ Len(script) \in Nat /\ IsSequence(worked) /\ IsSequence(script)
    BY DEF TabsInv, Done
<1>2. /\ IsSequence(w) /\ Len(worked) \in Nat /\ Len(w) = Len(worked) + 1
      /\ w[Len(worked) + 1] = CurrentPage(browser).from
      /\ \A i \in 1..Len(worked) : w[i] = worked[i]
    BY <1>1, AppendIsSequence
<1>. HIDE DEF w
<1>3. ASSUME drift = {}
      PROVE  \E b : IsHistory(b, script) /\ ReplayFollows(b)'
    <2>1. PICK b : IsHistory(b, script) /\ ReplayFollows(b)
        BY <1>3 DEF TabsInv
    <2>2. /\ RecordedOn(script[cursor], b[cursor])
          /\ b[cursor + 1] = AfterStep(b[cursor], script[cursor], cursor)
        BY <2>1, <1>1 DEF IsHistory
    <2>3. browser = b[cursor] /\ Len(worked) = cursor - 1
            /\ \A i \in 1..(cursor - 1) : worked[i] = script[i].from
        BY <2>1 DEF ReplayFollows
    <2>4. browser' = b[cursor + 1] /\ CurrentPage(browser).from = script[cursor].from
        BY <2>2, <2>3, <1>3 DEF RecordedOn
    <2>5. Len(worked') = cursor' - 1 /\ cursor' <= Len(script') + 1
        BY <1>1, <1>2, <2>3
    <2>6. ASSUME NEW i \in 1..(cursor' - 1)
          PROVE  worked'[i] = script'[i].from
        <3>1. CASE i = cursor
            BY <3>1, <1>1, <1>2, <2>3, <2>4
        <3>2. CASE i \in 1..(cursor - 1)
            BY <3>2, <1>1, <1>2, <2>3
        <3>. QED BY <3>1, <3>2, <1>1
    <2>7. ReplayFollows(b)'
        BY <2>4, <2>5, <2>6, <1>1 DEF ReplayFollows
    <2>. QED BY <2>1, <2>7
<1>. QED BY <1>1, <1>2, <1>3 DEF TabsInv

LEMMA FailingKeepsTabs ==
    ASSUME TabsInv, stage = "replay", StepFails, drift' = {} => browser' = browser /\ drift = {}
    PROVE  TabsInv'
<1>1. stage' \in {"replay", "failed"} /\ UNCHANGED <<script, cursor, worked>>
    BY DEF StepFails
<1>2. stage # "training" /\ stage' # "training"
    BY <1>1
<1>. QED BY <1>1, <1>2 DEF TabsInv, ReplayFollows

LEMMA TabsInvKept == ASSUME TabsInv, [ReplayNext]_replayVars PROVE TabsInv'
<1>1. CASE UNCHANGED replayVars
    BY <1>1 DEF TabsInv, ReplayFollows, replayVars
<1>2. CASE TrainElement \/ TrainOpen
    BY <1>2, TrainKeepsTabs DEF TrainElement, TrainOpen
<1>3. CASE \E id \in 1..(MaxRecorded + 2) : TrainSwitch(id) \/ TrainClose(id)
    <2>1. PICK id \in Nat : TrainSwitch(id) \/ TrainClose(id)
        BY <1>3, ReplayAssumption
    <2>2. Training
        BY <2>1 DEF TrainSwitch, TrainClose
    <2>. QED BY <2>1, <2>2, TrainKeepsTabs
<1>4. CASE TrainOpenFails
    <2>1. drift' # {} /\ UNCHANGED <<stage, script, cursor, worked>>
        BY <1>4 DEF TrainOpenFails
    <2>. QED BY <2>1 DEF TabsInv
<1>5. CASE StartReplay
    <2>1. /\ stage = "training" /\ stage' = "replay" /\ browser' = Launched
          /\ UNCHANGED <<script, cursor, again, worked, drift>>
        BY <1>5 DEF StartReplay, Training
    <2>2. cursor = 1 /\ worked = <<>> /\ Len(script) \in Nat
        BY <2>1 DEF TabsInv
    <2>3. Len(worked') = cursor' - 1 /\ cursor' <= Len(script') + 1
        BY <2>1, <2>2, EmptySeq
    <2>4. ASSUME NEW b, IsHistory(b, script)
          PROVE  ReplayFollows(b)'
        <3>1. browser' = b[cursor']
            BY <2>1, <2>2, <2>4 DEF IsHistory
        <3>. QED BY <3>1, <2>1, <2>2, <2>3 DEF ReplayFollows
    <2>. QED BY <2>1, <2>4 DEF TabsInv
<1>6. CASE ReplayElement
    <2>1. AtStep /\ Step.act = "element" /\ UNCHANGED <<browser, drift>>
        BY <1>6 DEF ReplayElement
    <2>2. stage = "replay" /\ cursor <= Len(script) /\ script[cursor].act = "element"
        BY <2>1 DEF AtStep, Step
    <2>3. CASE StepFails
        BY <2>1, <2>2, <2>3, FailingKeepsTabs
    <2>4. CASE Done(PageOfStep.from)
        <3>1. browser' = AfterStep(browser, script[cursor], cursor)
            BY <2>1, <2>2 DEF AfterStep
        <3>. QED BY <2>1, <2>2, <2>4, <3>1, DoneKeepsTabs DEF PageOfStep
    <2>. QED BY <1>6, <2>3, <2>4 DEF ReplayElement
<1>7. CASE ReplayOpen
    <2>1. stage = "replay" /\ cursor <= Len(script) /\ script[cursor].act = "open"
        BY <1>7 DEF ReplayOpen, AtStep, Step
    <2>2. CASE browser' = NewPage(browser, cursor) /\ Done(PageOfStep.from) /\ UNCHANGED drift
        <3>1. browser' = AfterStep(browser, script[cursor], cursor)
            BY <2>1, <2>2 DEF AfterStep
        <3>. QED BY <2>1, <2>2, <3>1, DoneKeepsTabs DEF PageOfStep
    <2>3. CASE StepFails /\ drift' = drift \cup {"second tab"}
        <3>1. drift' # {}
            BY <2>3
        <3>. QED BY <2>1, <2>3, <3>1, FailingKeepsTabs
    <2>4. CASE StepFails /\ UNCHANGED <<browser, drift>>
        BY <2>1, <2>4, FailingKeepsTabs
    <2>. QED BY <1>7, <2>2, <2>3, <2>4 DEF ReplayOpen
<1>8. CASE ReplaySwitch
    <2>1. stage = "replay" /\ cursor <= Len(script) /\ script[cursor].act = "switch" /\ drift' = drift
        BY <1>8 DEF ReplaySwitch, AtStep, Step
    <2>2. CASE browser' = SwitchTab(browser, Step.id) /\ Done(PageOfStep.from)
        <3>1. browser' = AfterStep(browser, script[cursor], cursor)
            BY <2>1, <2>2 DEF AfterStep, Step
        <3>. QED BY <2>1, <2>2, <3>1, DoneKeepsTabs DEF PageOfStep
    <2>3. CASE StepFails /\ UNCHANGED browser
        BY <2>1, <2>3, FailingKeepsTabs
    <2>. QED BY <1>8, <2>2, <2>3 DEF ReplaySwitch
<1>9. CASE ReplayClose
    <2>1. /\ stage = "replay" /\ cursor <= Len(script) /\ script[cursor].act = "close" /\ drift' = drift
          /\ browser' = CloseTab(browser, browser.current) /\ Done(PageOfStep.from)
        BY <1>9 DEF ReplayClose, AtStep, Step
    <2>2. RecordedOn(script[cursor], browser) => browser' = AfterStep(browser, script[cursor], cursor)
        BY <2>1 DEF AfterStep, RecordedOn
    <2>. QED BY <2>1, <2>2, DoneKeepsTabs DEF PageOfStep
<1>10. CASE ReplayNoPage
    <2>1. /\ UNCHANGED <<browser, script, cursor, worked, drift>>
          /\ stage = "replay" /\ stage' = "crashed"
        BY <1>10 DEF ReplayNoPage
    <2>. QED BY <2>1, StandingKeepsTabs
<1>11. CASE EndReplay
    <2>1. /\ UNCHANGED <<browser, script, cursor, worked, drift>>
          /\ stage = "replay" /\ stage' = "grade"
        BY <1>11 DEF EndReplay
    <2>. QED BY <2>1, StandingKeepsTabs
<1>. QED BY <1>1, <1>2, <1>3, <1>4, <1>5, <1>6, <1>7, <1>8, <1>9, <1>10, <1>11 DEF ReplayNext

\* While nothing has set the tab numbers of the two browsers apart, every step of the
\* replay is done on the tab it was recorded on, for a script of any length.
THEOREM TabSafety == ReplaySpec => []StepsFindTheirTab
<1>1. ASSUME TabsInv
      PROVE  StepsFindTheirTab
    <2>. SUFFICES ASSUME drift = {}, NEW i \in DOMAIN worked
                  PROVE  worked[i] = script[i].from
        BY DEF StepsFindTheirTab
    <2>1. PICK S : worked \in Seq(S)
        BY <1>1 DEF TabsInv, IsSequence
    <2>2. i \in 1..Len(worked)
        BY <2>1, LenProperties
    <2>3. CASE stage = "training"
        <3>1. Len(worked) = 0
            BY <1>1, <2>3, EmptySeq DEF TabsInv
        <3>. QED BY <2>2, <3>1
    <2>4. CASE stage # "training"
        <3>1. cursor \in Nat /\ Len(worked) = cursor - 1
                /\ \A k \in 1..(cursor - 1) : worked[k] = script[k].from
            BY <1>1, <2>4 DEF TabsInv, ReplayFollows
        <3>. QED BY <2>2, <3>1
    <2>. QED BY <2>3, <2>4
<1>. QED BY <1>1, TabsInvFirst, TabsInvKept, PTL DEF ReplaySpec

-----------------------------------------------------------------------------
(* ElementFinder: what a batch acts on                                       *)

\* A batch goes from the look to the handle to the action and acts once; what was
\* seen does not change between the handle and the action.
PinInv ==
    /\ finding = [use |-> finding.use, again |-> finding.again, at |-> finding.at]
    /\ finding.use = "batch" =>
         /\ finding.at \in {"remap", "pin", "done", "missed"}
         /\ finding.at # "done" => acted = Nobody
         /\ acted # Nobody => Matches(seen, acted)

LEMMA MovesTheSearch == ASSUME NEW p, PinInv, At(p)
                        PROVE  /\ finding'.at = p /\ finding'.use = finding.use
                               /\ finding' = [use |-> finding'.use, again |-> finding'.again, at |-> finding'.at]
BY DEF PinInv, At

\* The handle is taken only from an element with the identity of what was seen.
LEMMA PinnedMatches == ASSUME NEW e \in Pinned PROVE Matches(seen, e)
BY DEF Pinned

\* What only a replay does says nothing about a batch.
LEMMA ReplayKeepsPin ==
    ASSUME PinInv, finding.use # "batch",
           finding' = finding \/ (\E p : At(p)) \/ Fails
    PROVE  PinInv'
<1>1. CASE finding' = finding
    BY <1>1 DEF PinInv
<1>2. ASSUME NEW p, At(p)
      PROVE  PinInv'
    BY <1>2, MovesTheSearch DEF PinInv
<1>3. CASE Fails
    <2>1. PICK u, g, a : finding = [use |-> u, again |-> g, at |-> a] /\ u # "batch"
        BY DEF PinInv
    <2>2. \/ finding' = [use |-> u, again |-> g, at |-> "missed"]
          \/ finding' = [use |-> u, again |-> TRUE, at |-> "poll"]
        BY <1>3, <2>1 DEF Fails
    <2>. QED BY <2>1, <2>2 DEF PinInv
<1>. QED BY <1>1, <1>2, <1>3

LEMMA PinInvFirst == FinderInit => PinInv
<1>. SUFFICES ASSUME FinderInit PROVE PinInv
    OBVIOUS
<1>1. PICK use \in {"replay", "batch"} :
          finding = [use |-> use, again |-> FALSE, at |-> IF use = "replay" THEN "poll" ELSE "remap"]
    BY DEF FinderInit
<1>2. acted = Nobody
    BY DEF FinderInit
<1>. QED BY <1>1, <1>2 DEF PinInv

LEMMA PinInvKept == ASSUME PinInv, [FinderNext]_finderVars PROVE PinInv'
<1>1. CASE UNCHANGED finderVars
    BY <1>1 DEF PinInv, finderVars, Matches
<1>2. CASE Poll \/ PollDeadline \/ Verify \/ ActReplay \/ ActReplayFails \/ Press
    <2>1. finding.at \in {"poll", "verify", "act", "press"}
        BY <1>2 DEF Poll, PollDeadline, Verify, ActReplay, ActReplayFails, Press
    <2>2. finding.use # "batch"
        BY <2>1 DEF PinInv
    <2>3. (\E p : At(p)) \/ Fails
        BY <1>2 DEF Poll, PollDeadline, Verify, ActReplay, ActReplayFails, Press, ActOn
    <2>. QED BY <2>2, <2>3, ReplayKeepsPin
<1>3. CASE Remap
    <2>1. /\ finding.at = "remap" /\ acted' = acted
          /\ At("missed") \/ At("pin")
        BY <1>3 DEF Remap
    <2>2. /\ finding'.at \in {"missed", "pin"} /\ finding'.use = finding.use
          /\ finding' = [use |-> finding'.use, again |-> finding'.again, at |-> finding'.at]
        BY <2>1, MovesTheSearch
    <2>. QED BY <2>1, <2>2 DEF PinInv
<1>4. CASE Pin
    <2>1. PICK e \in Pinned : acted' = e /\ At("done")
        BY <1>4 DEF Pin, ActOn
    <2>2. Matches(seen, e) /\ seen' = seen
        BY <1>4, PinnedMatches DEF Pin
    <2>3. Matches(seen', acted')
        BY <2>1, <2>2
    <2>4. /\ finding'.at = "done" /\ finding'.use = finding.use
          /\ finding' = [use |-> finding'.use, again |-> finding'.again, at |-> finding'.at]
        BY <2>1, MovesTheSearch
    <2>. QED BY <2>3, <2>4 DEF PinInv, Matches
<1>5. CASE PinMisses
    <2>1. finding.at = "pin" /\ acted' = acted /\ seen' = seen /\ At("missed")
        BY <1>5 DEF PinMisses
    <2>2. /\ finding'.at = "missed" /\ finding'.use = finding.use
          /\ finding' = [use |-> finding'.use, again |-> finding'.again, at |-> finding'.at]
        BY <2>1, MovesTheSearch
    <2>. QED BY <2>1, <2>2 DEF PinInv
<1>6. CASE Appear \/ Disappear \/ Toggle
    <2>1. UNCHANGED <<finding, seen, acted>>
        BY <1>6 DEF Appear, Disappear, Toggle, Change
    <2>. QED BY <2>1 DEF PinInv, Matches
<1>. QED BY <1>1, <1>2, <1>3, <1>4, <1>5, <1>6 DEF FinderNext

\* However often the page changes between the look at it and the action, a batch acts
\* on an element that has the identity of the one that was seen, or on none.
THEOREM PinSafety == FinderSpec => []PinnedLooksAsSeen
<1>1. PinInv => PinnedLooksAsSeen
    BY DEF PinInv, PinnedLooksAsSeen
<1>. QED BY <1>1, PinInvFirst, PinInvKept, PTL DEF FinderSpec

-----------------------------------------------------------------------------
(* ActionBatch: a commit and the fields before it                            *)

\* What was carried out is a list of places.
RanInv == place \in Nat /\ ran \in Seq(Nat)

\* Only an attempt carries anything out, at the place of the action at work.
LEMMA OnlyAttemptsRun ==
    ASSUME [BatchNext]_batchVars
    PROVE  /\ place' \in {place, place + 1}
           /\ ran' = ran \/ (Attempt /\ ran' = Append(ran, place))
BY DEF BatchNext, BlockCommit, Attempt, RetryAttempt, RetryHalted, NextElement, ElementGone,
       HaltBatch, RaiseInBatch, ResetField, HaltRequested, batchVars

LEMMA RanInvFirst == BatchInit => RanInv
BY EmptySeq DEF BatchInit, RanInv

LEMMA RanInvKept == ASSUME RanInv, [BatchNext]_batchVars PROVE RanInv'
<1>1. place \in Nat /\ ran \in Seq(Nat)
    BY DEF RanInv
<1>2. place' \in Nat /\ (ran' = ran \/ ran' = Append(ran, place))
    BY <1>1, OnlyAttemptsRun
<1>3. Append(ran, place) \in Seq(Nat)
    BY <1>1, AppendProperties
<1>. QED BY <1>1, <1>2, <1>3 DEF RanInv

\* In a batch of any length, with any fields, a commit is carried out, the first time or
\* again, only while every field filled so far holds what was written into it.
THEOREM CommitSafety == BatchSpec => CommitsHaveTheirFields
<1>1. ASSUME RanInv, [BatchNext]_batchVars, ran' # ran, batch.acts[Last(ran')].kind = "commit",
             NEW m \in held
      PROVE  texts[m.on] = m.text
    <2>1. Attempt /\ ran' = Append(ran, place)
        BY <1>1, OnlyAttemptsRun
    <2>2. Len(ran) \in Nat /\ Len(ran') = Len(ran) + 1 /\ ran'[Len(ran) + 1] = place
        BY <1>1, <2>1, AppendProperties, LenProperties DEF RanInv
    <2>3. Last(ran') = place
        BY <2>2 DEF Last
    <2>4. AtWork.kind = "commit" /\ ~Blocked
        BY <1>1, <2>1, <2>3 DEF Attempt, AtWork
    <2>. QED BY <1>1, <2>4 DEF Blocked, Regressed
<1>2. RanInv /\ [BatchNext]_batchVars
        => [ran' # ran /\ batch.acts[Last(ran')].kind = "commit"
                => \A m \in held : texts[m.on] = m.text]_batchVars
    BY <1>1
<1>. QED BY <1>2, RanInvFirst, RanInvKept, PTL DEF BatchSpec, CommitsHaveTheirFields

-----------------------------------------------------------------------------
(* ElementFinder: what a replay acts on                                      *)

\* An element that a person takes for the recorded one looks as it was recorded.
SameLook(r, list) == \A i \in DOMAIN list :
    list[i].key = r.key => list[i].testid = r.testid /\ list[i].name = r.name

\* What a page that only grew at one side still has of the recorded one
HasFront(r, list) ==
    r.count <= Len(list) /\ \A i \in 1..r.count : list[i].shown /\ list[i].key = i
HasEnd(r, list) ==
    Len(list) # 0 /\ list[Len(list)].shown /\ list[Len(list)].key = r.count

FinderInv ==
    /\ FinderTypeOK
    /\ acted # Nobody => finding.at = "done"
    /\ finding.use = "replay" => finding.at \notin {"remap", "pin"}
    /\ recorded.index \in 1..recorded.count
    /\ recorded.key = recorded.index /\ recorded.key <= MaxListed
    /\ recorded.kind = "last" => recorded.index = recorded.count
    /\ SameLook(recorded, elements)
    /\ changes.kinds \subseteq {"end"} => HasFront(recorded, elements)
    /\ changes.kinds \subseteq {"front"} => HasEnd(recorded, elements)
    /\ ReplayedClickHitsTarget

-----------------------------------------------------------------------------
LEMMA OnlyIsThere ==
    ASSUME NEW list, NEW places, Only(list, places) # Nobody
    PROVE  \E i : places = {i} /\ Only(list, places) = list[i]
<1>1. PICK i \in places : places = {i}
  BY DEF Only
<1>2. Only(list, places) = list[CHOOSE j \in places : TRUE]
  BY <1>1 DEF Only
<1>3. (CHOOSE j \in places : TRUE) = i
  BY <1>1
<1>. QED BY <1>1, <1>2, <1>3

LEMMA CandidatesAreShown ==
    ASSUME NEW r, NEW list
    PROVE  Candidates(r, list) \subseteq Visible(list) /\ Visible(list) \subseteq DOMAIN list
BY DEF Candidates, Where, Visible

\* Up to a place i before which all are shown, i are shown.
LEMMA OrdinalOfPlace ==
    ASSUME NEW list, NEW n \in Nat, NEW i \in 1..n, DOMAIN list \subseteq Nat \ {0},
           1..n \subseteq Visible(list)
    PROVE  Cardinality({j \in Visible(list) : j <= i}) = i
<1>1. \A j \in Visible(list) : j \in Nat \ {0}
  BY DEF Visible
<1>2. \A j \in 1..i : j \in 1..n
  OBVIOUS
<1>3. {j \in Visible(list) : j <= i} = 1..i
  <2>1. ASSUME NEW j \in Visible(list), j <= i PROVE j \in 1..i
    BY <1>1, <2>1
  <2>2. ASSUME NEW j \in 1..i PROVE j \in Visible(list) /\ j <= i
    BY <1>2
  <2>. QED BY <2>1, <2>2
<1>4. Cardinality(1..i) = i
  BY FS_Interval
<1>. QED BY <1>3, <1>4

\* What the locator finds is the target, under the conditions of the property.
LEMMA FoundIsTarget ==
    ASSUME FinderInv, Found # Nobody
    PROVE  /\ Found \in Element
           /\ recorded.kind \in {"testid", "role"} => Target \subseteq {Found}
           /\ changes.kinds \subseteq {"end"} /\ recorded.kind \in {"first", "nth", "relative"}
                 => Found.key = recorded.key
           /\ changes.kinds \subseteq {"front"} /\ recorded.kind = "last" => Found.key = recorded.key
<1>. DEFINE r == recorded
            list == elements
            C == Candidates(r, list)
<1>1. /\ list \in Seq(Element) /\ Len(list) \in Nat /\ DOMAIN list = 1..Len(list)
      /\ r.count \in Nat /\ r.index \in Nat /\ r.index \in 1..r.count /\ r.key = r.index
  <2>1. list \in Seq(Element) /\ r.count \in Nat /\ r.index \in Nat
    BY DEF FinderInv, FinderTypeOK
  <2>. QED BY <2>1, LenProperties DEF FinderInv
<1>2. PICK k : C = {k} /\ Found = list[k]
  BY OnlyIsThere DEF Found, Located
<1>3. C \subseteq Visible(list) /\ Visible(list) \subseteq DOMAIN list /\ k \in Visible(list)
  BY <1>2, CandidatesAreShown
<1>4. Found \in Element
  BY <1>1, <1>2, <1>3, ElementOfSeq
<1>5. ASSUME r.kind \in {"testid", "role"}, NEW e \in Target PROVE e = Found
  <2>1. e \in ToSet(list) /\ e.key = r.key /\ e.shown
    BY DEF Target
  <2>2. PICK i \in DOMAIN list : e = list[i]
    BY <2>1 DEF ToSet
  <2>3. list[i].testid = r.testid /\ list[i].name = r.name
    BY <2>1, <2>2 DEF FinderInv, SameLook
  <2>4. i \in Visible(list)
    BY <2>1, <2>2 DEF Visible
  <2>5. i \in C
    BY <1>5, <2>3, <2>4 DEF Candidates, Where
  <2>. QED BY <1>2, <2>2, <2>5
<1>6. ASSUME changes.kinds \subseteq {"end"}, r.kind \in {"first", "nth", "relative"}
      PROVE  Found.key = r.key
  <2>1. HasFront(r, list)
    BY <1>6 DEF FinderInv
  <2>2. r.count <= Len(list) /\ \A i \in 1..r.count : list[i].shown /\ list[i].key = i
    BY <2>1 DEF HasFront
  <2>3. \A i \in 1..r.count : i \in DOMAIN list
    BY <1>1, <2>2
  <2>4. 1..r.count \subseteq Visible(list)
    BY <2>2, <2>3 DEF Visible
  <2>5. r.index \in Visible(list)
    BY <1>1, <2>4
  <2>6. r.index \in C
    <3>1. CASE r.kind = "relative"
      BY <2>5, <3>1 DEF Candidates
    <3>2. CASE r.kind \in {"first", "nth"}
      <4>1. DOMAIN list \subseteq Nat \ {0}
        BY <1>1
      <4>2. Cardinality({j \in Visible(list) : j <= r.index}) = r.index
        BY <1>1, <2>4, <4>1, OrdinalOfPlace
      <4>. QED BY <2>5, <3>2, <4>2 DEF Candidates
    <3>. QED BY <1>6, <3>1, <3>2
  <2>7. k = r.index
    BY <1>2, <2>6
  <2>. QED BY <1>1, <1>2, <2>2, <2>7
<1>7. ASSUME changes.kinds \subseteq {"front"}, r.kind = "last"
      PROVE  Found.key = r.key
  <2>1. HasEnd(r, list) /\ r.index = r.count
    BY <1>7 DEF FinderInv
  <2>2. Len(list) \in DOMAIN list /\ \A j \in DOMAIN list : j <= Len(list)
    BY <1>1, <2>1 DEF HasEnd
  <2>3. Len(list) \in Visible(list)
    BY <2>1, <2>2 DEF HasEnd, Visible
  <2>4. Len(list) \in C
    BY <1>3, <1>7, <2>2, <2>3 DEF Candidates
  <2>. QED BY <1>1, <1>2, <2>1, <2>4 DEF HasEnd
<1>. QED BY <1>4, <1>5, <1>6, <1>7

-----------------------------------------------------------------------------
LEMMA FinderStarts == ASSUME FinderInit PROVE FinderInv
<1>1. PICK n, rooted, use, look, i :
         /\ n \in 1..MaxListed /\ i \in 1..n /\ use \in {"replay", "batch"}
         /\ look \in [1..n -> (TestIds \cup {""}) \X (Names \cup {""})]
         /\ elements = [j \in 1..n |-> [key |-> j, testid |-> look[j][1], name |-> look[j][2], shown |-> TRUE]]
         /\ recorded = Capture(elements, i, rooted)
         /\ finding = [use |-> use, again |-> FALSE, at |-> IF use = "replay" THEN "poll" ELSE "remap"]
         /\ seen = Place0 /\ acted = Nobody
         /\ changes = [kinds |-> {}, n |-> 0]
  <2>1. PICK n \in 1..MaxListed, rooted \in BOOLEAN, use \in {"replay", "batch"} :
          \E look \in [1..n -> (TestIds \cup {""}) \X (Names \cup {""})] :
            /\ elements = [j \in 1..n |-> [key |-> j, testid |-> look[j][1], name |-> look[j][2], shown |-> TRUE]]
            /\ \E i \in 1..n : recorded = Capture(elements, i, rooted)
            /\ finding = [use |-> use, again |-> FALSE, at |-> IF use = "replay" THEN "poll" ELSE "remap"]
            /\ seen = Place0 /\ acted = Nobody
            /\ changes = [kinds |-> {}, n |-> 0]
    BY DEF FinderInit
  <2>2. PICK look \in [1..n -> (TestIds \cup {""}) \X (Names \cup {""})] :
            /\ elements = [j \in 1..n |-> [key |-> j, testid |-> look[j][1], name |-> look[j][2], shown |-> TRUE]]
            /\ \E i \in 1..n : recorded = Capture(elements, i, rooted)
            /\ finding = [use |-> use, again |-> FALSE, at |-> IF use = "replay" THEN "poll" ELSE "remap"]
            /\ seen = Place0 /\ acted = Nobody
            /\ changes = [kinds |-> {}, n |-> 0]
    BY <2>1
  <2>3. PICK i \in 1..n : recorded = Capture(elements, i, rooted)
    BY <2>2
  <2>. QED BY <2>2, <2>3, Zenon
<1>2. /\ n \in Nat \ {0} /\ n <= MaxListed /\ MaxListed \in Nat
      /\ i \in 1..n /\ i \in Nat /\ i <= n /\ MaxChanges \in Nat
  <2>1. n \in 1..MaxListed /\ i \in 1..n
    BY <1>1
  <2>2. MaxListed \in Nat /\ MaxChanges \in Nat
    BY FinderAssumption
  <2>. QED BY <2>1, <2>2
<1>3. ASSUME NEW j \in 1..n
      PROVE  elements[j] \in Element /\ elements[j].key = j /\ elements[j].shown = TRUE
  <2>1. elements[j] = [key |-> j, testid |-> look[j][1], name |-> look[j][2], shown |-> TRUE]
    BY <1>1
  <2>2. look[j] \in (TestIds \cup {""}) \X (Names \cup {""})
    BY <1>1
  <2>3. look[j][1] \in TestIds \cup {""} /\ look[j][2] \in Names \cup {""}
    BY <2>2
  <2>4. j \in Nat
    BY <1>2
  <2>5. PICK t, m, e : t = look[j][1] /\ m = look[j][2] /\ e = elements[j]
    OBVIOUS
  <2>6. e = [key |-> j, testid |-> t, name |-> m, shown |-> TRUE]
    BY <2>1, <2>5
  <2>7. t \in TestIds \cup {""} /\ m \in Names \cup {""}
    BY <2>3, <2>5
  <2>8. e \in Element /\ e.key = j /\ e.shown = TRUE
    BY <2>4, <2>6, <2>7 DEF Element
  <2>. QED BY <2>5, <2>8
<1>4. elements \in Seq(Element) /\ Len(elements) = n /\ DOMAIN elements = 1..n
  <2>1. elements \in [1..n -> Element]
    <3>1. elements = [j \in 1..n |-> elements[j]]
      BY <1>1, Zenon
    <3>2. \A j \in 1..n : elements[j] \in Element
      BY <1>3
    <3>. QED BY <3>1, <3>2, Zenon
  <2>2. elements \in Seq(Element)
    <3>1. n \in Nat
      BY <1>2
    <3>. QED BY <2>1, <3>1, SeqDef, Zenon
  <2>3. DOMAIN elements = 1..Len(elements) /\ DOMAIN elements = 1..n /\ Len(elements) \in Nat
    BY <2>1, <2>2, LenProperties
  <2>4. Len(elements) = n
    <3>1. PICK m : m = Len(elements)
      OBVIOUS
    <3>2. 1..m = 1..n /\ m \in Nat /\ n \in Nat /\ n >= 1
      <4>1. 1..m = 1..n /\ m \in Nat
        BY <2>3, <3>1, Zenon
      <4>2. n \in Nat /\ n >= 1
        BY <1>2
      <4>. QED BY <4>1, <4>2
    <3>3. n \in 1..m
      BY <3>2
    <3>4. m \in 1..n
      BY <3>2, <3>3
    <3>. QED BY <3>1, <3>2, <3>3, <3>4
  <2>. QED BY <2>2, <2>3, <2>4
<1>5. /\ recorded.key = i /\ recorded.index = i /\ recorded.count = n
      /\ recorded.testid = elements[i].testid /\ recorded.name = elements[i].name
      /\ recorded.kind \in Kind
      /\ recorded.kind = "last" => i = n
      /\ recorded = [kind |-> recorded.kind, key |-> i, testid |-> elements[i].testid, name |-> elements[i].name,
                     index |-> i, count |-> n]
  <2>1. PICK k : /\ recorded = [kind |-> k, key |-> elements[i].key, testid |-> elements[i].testid,
                                name |-> elements[i].name, index |-> i, count |-> Len(elements)]
                 /\ k = CASE Alone(elements, i, "testid") -> "testid"
                          [] ~Alone(elements, i, "testid") /\ Alone(elements, i, "name") -> "role"
                          [] OTHER -> IF rooted THEN "relative" ELSE UnlabeledSetKind(i, Len(elements))
    BY <1>1 DEF Capture
  <2>2. k \in Kind /\ (k = "last" => i = n)
    BY <1>4, <2>1 DEF UnlabeledSetKind, Kind, Counted
  <2>3. elements[i].key = i
    BY <1>2, <1>3
  <2>. QED BY <1>4, <2>1, <2>2, <2>3
<1>6. FinderTypeOK
  <2>1. recorded \in [kind : Kind, key : Nat, testid : TestIds \cup {""}, name : Names \cup {""},
                      index : Nat, count : Nat]
    <3>1. elements[i].testid \in TestIds \cup {""} /\ elements[i].name \in Names \cup {""}
      BY <1>2, <1>3 DEF Element
    <3>. QED BY <1>2, <1>5, <3>1
  <2>2. seen \in [at : Nat, testid : TestIds \cup {""}, name : Names \cup {""}] /\ acted \in Element
    BY <1>1 DEF Place0, Nobody, Element
  <2>3. changes \in [kinds : SUBSET Changing, n : 0..MaxChanges]
    <3>1. 0 \in 0..MaxChanges /\ {} \in SUBSET Changing
      BY <1>2
    <3>2. changes = [kinds |-> {}, n |-> 0]
      BY <1>1
    <3>. QED BY <3>1, <3>2
  <2>4. finding \in [use : {"replay", "batch"}, again : BOOLEAN,
                    at : {"poll", "verify", "act", "remap", "pin", "press", "done", "missed"}]
    BY <1>1
  <2>. QED BY <1>4, <2>1, <2>2, <2>3, <2>4 DEF FinderTypeOK
<1>7. SameLook(recorded, elements)
  BY <1>3, <1>4, <1>5 DEF SameLook
<1>8. HasFront(recorded, elements) /\ HasEnd(recorded, elements)
  <2>1. n \in 1..n /\ n # 0 /\ n <= n
    BY <1>2
  <2>2. \A j \in 1..n : elements[j].shown /\ elements[j].key = j
    BY <1>3
  <2>. QED BY <1>4, <1>5, <2>1, <2>2 DEF HasFront, HasEnd
<1>9. acted = Nobody /\ (finding.use = "replay" => finding.at \notin {"remap", "pin"})
  BY <1>1
<1>. QED BY <1>2, <1>5, <1>6, <1>7, <1>8, <1>9 DEF FinderInv, ReplayedClickHitsTarget

\* A step of the search that acts on nothing
LEMMA SearchKeeps ==
    ASSUME FinderInv, finding.at # "done", UNCHANGED <<elements, recorded, acted, changes>>,
           finding' \in [use : {"replay", "batch"}, again : BOOLEAN,
                    at : {"poll", "verify", "act", "remap", "pin", "press", "done", "missed"}],
           seen' \in [at : Nat, testid : TestIds \cup {""}, name : Names \cup {""}],
           finding'.use = "replay" => finding'.at \notin {"remap", "pin"}
    PROVE  FinderInv'
<1>1. acted = Nobody /\ acted' = Nobody
  BY DEF FinderInv
<1>2. FinderTypeOK'
  BY DEF FinderInv, FinderTypeOK
<1>3. ReplayedClickHitsTarget'
  BY <1>1 DEF ReplayedClickHitsTarget
<1>. QED BY <1>1, <1>2, <1>3 DEF FinderInv

LEMMA ActKeeps ==
    ASSUME FinderInv, finding.use = "replay", Found # Nobody, ActOn(Found),
           UNCHANGED <<elements, recorded, seen, changes>>
    PROVE  FinderInv'
<1>1. acted' = Found /\ finding' = [finding EXCEPT !.at = "done"]
  BY DEF ActOn, At
<1>2. /\ Found \in Element
      /\ recorded.kind \in {"testid", "role"} => Target \subseteq {Found}
      /\ changes.kinds \subseteq {"end"} /\ recorded.kind \in {"first", "nth", "relative"}
            => Found.key = recorded.key
      /\ changes.kinds \subseteq {"front"} /\ recorded.kind = "last" => Found.key = recorded.key
  BY FoundIsTarget
<1>3. FinderTypeOK' /\ finding'.at = "done" /\ finding'.use = finding.use
  BY <1>1, <1>2 DEF FinderInv, FinderTypeOK
<1>4. Target' = Target
  BY DEF Target
<1>5. ReplayedClickHitsTarget'
  BY <1>1, <1>2, <1>4 DEF ReplayedClickHitsTarget
<1>. QED BY <1>3, <1>5 DEF FinderInv

LEMMA PlacesOfTree ==
    ASSUME FinderInv
    PROVE  RemapPlace(recorded, elements) \in {0} \cup DOMAIN elements
<1>. DEFINE r == recorded
            list == elements
<1>1. /\ Len(list) \in Nat /\ DOMAIN list = 1..Len(list)
      /\ r.count \in Nat /\ r.index \in Nat /\ r.index \in 1..r.count
  <2>1. list \in Seq(Element) /\ r.count \in Nat /\ r.index \in Nat
    BY DEF FinderInv, FinderTypeOK
  <2>. QED BY <2>1, LenProperties DEF FinderInv
<1>2. ~(Len(list) < r.count) => Len(list) \in DOMAIN list /\ r.index \in DOMAIN list
  BY <1>1
<1>. HIDE DEF r, list
<1>3. TreePlace(r, list) \in {0} \cup DOMAIN list
  <2>. DEFINE the(attr) == {i \in DOMAIN list : list[i][attr] = r[attr] /\ Alone(list, i, attr)}
              counted == IF Len(list) < r.count THEN {}
                         ELSE IF r.kind = "last" THEN {Len(list)} ELSE {r.index}
              places == CASE r.kind \in {"testid"} -> the("testid")
                          [] r.kind = "role" -> the("name")
                          [] r.kind = "relative" -> DOMAIN list \cap {r.index}
                          [] r.kind = "nth" -> {i \in counted : Fingerprint(list, list[i]) = RecordedPrint(r)}
                          [] OTHER -> counted
  <2>1. counted \subseteq DOMAIN list
    BY <1>2
  <2>. HIDE DEF counted
  <2>2. the("testid") \subseteq DOMAIN list /\ the("name") \subseteq DOMAIN list
    OBVIOUS
  <2>. HIDE DEF the
  <2>3. places \subseteq DOMAIN list
    BY <2>1, <2>2
  <2>4. TreePlace(r, list) = IF places = {} THEN 0 ELSE CHOOSE i \in places : TRUE
    BY DEF TreePlace, the, counted
  <2>. HIDE DEF places
  <2>. QED BY <2>3, <2>4
<1>4. HashMatch(r, list) => r.index \in DOMAIN list
  BY DEF HashMatch
<1>. QED BY <1>3, <1>4 DEF RemapPlace, r, list

LEMMA ChangedElements ==
    ASSUME FinderInv, NEW kind \in Changing, NEW list, Change(kind, list),
           list \in Seq(Element), SameLook(recorded, list),
           changes.kinds \subseteq {"end"} /\ kind = "end" => HasFront(recorded, list),
           changes.kinds \subseteq {"front"} /\ kind = "front" => HasEnd(recorded, list)
    PROVE  FinderInv'
<1>1. /\ elements' = list /\ finding.at # "done" /\ changes.n < MaxChanges
      /\ changes' = [kinds |-> changes.kinds \cup {kind}, n |-> changes.n + 1]
      /\ recorded' = recorded /\ finding' = finding /\ seen' = seen /\ acted' = acted
  BY DEF Change
<1>2. acted = Nobody
  BY <1>1 DEF FinderInv
<1>3. FinderTypeOK'
  <2>1. changes.n \in 0..MaxChanges /\ MaxChanges \in Nat /\ changes.kinds \in SUBSET Changing
    BY FinderAssumption DEF FinderInv, FinderTypeOK
  <2>2. changes.n + 1 \in 0..MaxChanges
    BY <1>1, <2>1
  <2>3. changes' \in [kinds : SUBSET Changing, n : 0..MaxChanges]
    BY <1>1, <2>1, <2>2
  <2>. QED BY <1>1, <2>3 DEF FinderInv, FinderTypeOK
<1>4. changes'.kinds \subseteq {"end"} => HasFront(recorded, list)
  <2>1. changes'.kinds = changes.kinds \cup {kind}
    BY <1>1
  <2>. QED BY <2>1
<1>5. changes'.kinds \subseteq {"front"} => HasEnd(recorded, list)
  <2>1. changes'.kinds = changes.kinds \cup {kind}
    BY <1>1
  <2>. QED BY <2>1
<1>6. ReplayedClickHitsTarget'
  BY <1>1, <1>2 DEF ReplayedClickHitsTarget
<1>. QED BY <1>1, <1>2, <1>3, <1>4, <1>5, <1>6 DEF FinderInv

LEMMA AppearKeeps == ASSUME FinderInv, Appear PROVE FinderInv'
<1>1. PICK e : /\ e \in Element /\ e.key # recorded.key
               /\ Change("front", <<e>> \o elements) \/ Change("end", elements \o <<e>>)
  <2>1. PICK t, m, x, e :
          /\ t \in TestIds \cup {""} /\ m \in Names \cup {""} /\ x = MaxListed + changes.n + 1
          /\ e = [key |-> x, testid |-> t, name |-> m, shown |-> TRUE]
          /\ Change("front", <<e>> \o elements) \/ Change("end", elements \o <<e>>)
    BY Zenon DEF Appear
  <2>2. x \in Nat /\ x # recorded.key
    <3>1. changes.n \in 0..MaxChanges /\ recorded.key \in Nat /\ recorded.key <= MaxListed
      BY DEF FinderInv, FinderTypeOK
    <3>2. MaxListed \in Nat /\ MaxChanges \in Nat
      BY FinderAssumption
    <3>3. PICK c, y : c = changes.n /\ y = recorded.key
      OBVIOUS
    <3>4. c \in Nat /\ y \in Nat /\ y <= MaxListed /\ x = MaxListed + c + 1
      <4>1. x = MaxListed + c + 1
        BY <2>1, <3>3
      <4>2. c \in 0..MaxChanges /\ y \in Nat /\ y <= MaxListed
        BY <3>1, <3>3
      <4>. QED BY <3>2, <4>1, <4>2
    <3>5. x \in Nat /\ x # y
      BY <3>2, <3>4
    <3>. QED BY <3>3, <3>5
  <2>3. e \in Element /\ e.key = x
    BY <2>1, <2>2 DEF Element
  <2>. QED BY <2>1, <2>2, <2>3
<1>2. /\ elements \in Seq(Element) /\ Len(elements) \in Nat /\ DOMAIN elements = 1..Len(elements)
      /\ recorded.count \in Nat /\ recorded.index \in 1..recorded.count
  <2>1. elements \in Seq(Element) /\ recorded.count \in Nat
    BY DEF FinderInv, FinderTypeOK
  <2>2. recorded.index \in 1..recorded.count
    BY DEF FinderInv
  <2>. QED BY <2>1, <2>2, LenProperties
<1>. DEFINE new == <<e>>
<1>4. new \in Seq(Element) /\ Len(new) = 1 /\ new[1] = e
  BY <1>1
<1>. HIDE DEF new
<1>5. CASE Change("front", new \o elements)
  <2>. DEFINE q == new \o elements
  <2>0. /\ q \in Seq(Element) /\ Len(q) = Len(new) + Len(elements)
        /\ \A i \in 1..(Len(new) + Len(elements)) : q[i] = IF i <= Len(new) THEN new[i] ELSE elements[i - Len(new)]
    BY <1>2, <1>4, ConcatProperties
  <2>. HIDE DEF q
  <2>1. /\ q \in Seq(Element) /\ Len(q) = Len(elements) + 1
        /\ \A i \in 1..(1 + Len(elements)) : q[i] = IF i <= 1 THEN new[i] ELSE elements[i - 1]
    BY <1>2, <1>4, <2>0
  <2>2. DOMAIN q = 1..(Len(elements) + 1)
    BY <2>1, LenProperties
  <2>3. ASSUME NEW i \in DOMAIN q PROVE \/ q[i] = e
                                        \/ i - 1 \in DOMAIN elements /\ q[i] = elements[i - 1]
    BY <1>2, <1>4, <2>1, <2>2
  <2>4. SameLook(recorded, q)
    BY <1>1, <2>3 DEF FinderInv, SameLook
  <2>5. HasEnd(recorded, elements) => HasEnd(recorded, q)
    <3>1. ASSUME Len(elements) # 0 PROVE Len(q) # 0 /\ q[Len(q)] = elements[Len(elements)]
      BY <1>2, <2>1, <3>1
    <3>. QED BY <3>1 DEF HasEnd
  <2>6. Change("front", q)
    BY <1>5 DEF q
  <2>7. changes.kinds \subseteq {"front"} => HasEnd(recorded, q)
    BY <2>5 DEF FinderInv
  <2>. QED BY <2>1, <2>4, <2>6, <2>7, ChangedElements DEF Changing
<1>6. CASE Change("end", elements \o new)
  <2>. DEFINE q == elements \o new
  <2>0. /\ q \in Seq(Element) /\ Len(q) = Len(elements) + Len(new)
        /\ \A i \in 1..(Len(elements) + Len(new)) :
              q[i] = IF i <= Len(elements) THEN elements[i] ELSE new[i - Len(elements)]
    BY <1>2, <1>4, ConcatProperties
  <2>. HIDE DEF q
  <2>1. /\ q \in Seq(Element) /\ Len(q) = Len(elements) + 1
        /\ \A i \in 1..(Len(elements) + 1) : q[i] = IF i <= Len(elements) THEN elements[i] ELSE new[i - Len(elements)]
    BY <1>2, <1>4, <2>0
  <2>2. DOMAIN q = 1..(Len(elements) + 1)
    BY <2>1, LenProperties
  <2>3. ASSUME NEW i \in DOMAIN q PROVE \/ q[i] = e
                                        \/ i \in DOMAIN elements /\ q[i] = elements[i]
    <3>1. CASE i <= Len(elements)
      BY <1>2, <2>1, <2>2, <3>1
    <3>2. CASE ~(i <= Len(elements))
      <4>1. i - Len(elements) = 1
        BY <1>2, <2>2, <3>2
      <4>. QED BY <1>4, <2>1, <2>2, <3>2, <4>1
    <3>. QED BY <3>1, <3>2
  <2>4. SameLook(recorded, q)
    BY <1>1, <2>3 DEF FinderInv, SameLook
  <2>5. HasFront(recorded, elements) => HasFront(recorded, q)
    <3>1. ASSUME recorded.count <= Len(elements)
          PROVE  recorded.count <= Len(q) /\ \A i \in 1..recorded.count : q[i] = elements[i]
      BY <1>2, <2>1, <3>1
    <3>. QED BY <3>1 DEF HasFront
  <2>6. Change("end", q)
    BY <1>6 DEF q
  <2>7. changes.kinds \subseteq {"end"} => HasFront(recorded, q)
    BY <2>5 DEF FinderInv
  <2>. QED BY <2>1, <2>4, <2>6, <2>7, ChangedElements DEF Changing
<1>. QED BY <1>1, <1>5, <1>6 DEF new

LEMMA DisappearKeeps == ASSUME FinderInv, Disappear PROVE FinderInv'
<1>1. PICK k \in DOMAIN elements : Change("gone", RemoveAt(elements, k))
  BY DEF Disappear
<1>. DEFINE q == RemoveAt(elements, k)
            a == SubSeq(elements, 1, k - 1)
            b == SubSeq(elements, k + 1, Len(elements))
<1>2. /\ elements \in Seq(Element) /\ Len(elements) \in Nat /\ DOMAIN elements = 1..Len(elements)
      /\ k \in 1..Len(elements) /\ k \in Nat
  <2>1. elements \in Seq(Element)
    BY DEF FinderInv, FinderTypeOK
  <2>. QED BY <2>1, LenProperties
<1>3. \A i \in 1..Len(elements) : elements[i] \in Element
  BY <1>2, ElementOfSeq
<1>4. /\ a \in Seq(Element) /\ Len(a) = k - 1
      /\ \A i \in 1..(k - 1) : a[i] = elements[i]
  <2>1. 1 \in Int /\ k - 1 \in Int /\ \A i \in 1..(k - 1) : elements[i] \in Element
    BY <1>2, <1>3
  <2>2. /\ a \in Seq(Element) /\ Len(a) = IF 1 <= k - 1 THEN k - 1 - 1 + 1 ELSE 0
        /\ \A i \in 1..(k - 1 - 1 + 1) : a[i] = elements[1 + i - 1]
    BY <2>1, SubSeqProperties
  <2>. HIDE DEF a
  <2>. QED BY <1>2, <2>2
<1>5. /\ b \in Seq(Element) /\ Len(b) = Len(elements) - k
      /\ \A i \in 1..(Len(elements) - k) : b[i] = elements[k + i]
  <2>1. k + 1 \in Int /\ Len(elements) \in Int /\ \A i \in (k + 1)..Len(elements) : elements[i] \in Element
    BY <1>2, <1>3
  <2>2. /\ b \in Seq(Element) /\ Len(b) = IF k + 1 <= Len(elements) THEN Len(elements) - (k + 1) + 1 ELSE 0
        /\ \A i \in 1..(Len(elements) - (k + 1) + 1) : b[i] = elements[k + 1 + i - 1]
    BY <2>1, SubSeqProperties
  <2>. HIDE DEF b
  <2>3. Len(b) = Len(elements) - k
    BY <1>2, <2>2
  <2>4. ASSUME NEW i \in 1..(Len(elements) - k) PROVE b[i] = elements[k + i]
    <3>1. i \in 1..(Len(elements) - (k + 1) + 1) /\ k + 1 + i - 1 = k + i
      BY <1>2
    <3>. QED BY <2>2, <3>1
  <2>. QED BY <2>2, <2>3, <2>4
<1>6. q = a \o b
  BY DEF RemoveAt
<1>. HIDE DEF a, b, q
<1>7. /\ q \in Seq(Element) /\ Len(q) = Len(a) + Len(b)
      /\ \A i \in 1..(Len(a) + Len(b)) : q[i] = IF i <= Len(a) THEN a[i] ELSE b[i - Len(a)]
  BY <1>4, <1>5, <1>6, ConcatProperties
<1>8. DOMAIN q = 1..(Len(elements) - 1)
  BY <1>2, <1>4, <1>5, <1>7, LenProperties
<1>9. ASSUME NEW i \in DOMAIN q PROVE \E j \in DOMAIN elements : q[i] = elements[j]
  <2>1. CASE i <= k - 1
    <3>1. i \in DOMAIN elements /\ q[i] = elements[i]
      BY <1>2, <1>4, <1>5, <1>7, <1>8, <2>1
    <3>. QED BY <3>1
  <2>2. CASE ~(i <= k - 1)
    <3>1. i + 1 \in DOMAIN elements /\ i - (k - 1) \in 1..(Len(elements) - k) /\ k + (i - (k - 1)) = i + 1
      BY <1>2, <1>8, <2>2
    <3>2. q[i] = b[i - (k - 1)]
      BY <1>2, <1>4, <1>5, <1>7, <1>8, <2>2
    <3>3. q[i] = elements[i + 1]
      BY <1>5, <3>1, <3>2
    <3>. QED BY <3>1, <3>3
  <2>. QED BY <2>1, <2>2
<1>10. SameLook(recorded, q)
  BY <1>9 DEF FinderInv, SameLook
<1>11. Change("gone", q)
  BY <1>1 DEF q
<1>. QED BY <1>7, <1>10, <1>11, ChangedElements DEF Changing

LEMMA ToggleKeeps == ASSUME FinderInv, Toggle PROVE FinderInv'
<1>1. PICK k \in DOMAIN elements : Change("hidden", [elements EXCEPT ![k].shown = ~@])
  BY DEF Toggle
<1>. DEFINE q == [elements EXCEPT ![k].shown = ~@]
<1>2. /\ elements \in Seq(Element) /\ Len(elements) \in Nat /\ DOMAIN elements = 1..Len(elements)
  <2>1. elements \in Seq(Element)
    BY DEF FinderInv, FinderTypeOK
  <2>. QED BY <2>1, LenProperties
<1>3. \A i \in DOMAIN elements : elements[i] \in Element
  BY <1>2, ElementOfSeq
<1>4. /\ DOMAIN q = DOMAIN elements
      /\ q[k] = [elements[k] EXCEPT !.shown = ~elements[k].shown]
      /\ \A i \in DOMAIN elements \ {k} : q[i] = elements[i]
  OBVIOUS
<1>. HIDE DEF q
<1>5. q[k] \in Element /\ q[k].key = elements[k].key /\ q[k].testid = elements[k].testid /\ q[k].name = elements[k].name
  <2>1. PICK d, h, x : d = elements[k] /\ h = q[k] /\ x = ~elements[k].shown
    OBVIOUS
  <2>2. d \in Element /\ h = [d EXCEPT !.shown = x] /\ x \in BOOLEAN
    BY <1>3, <1>4, <2>1
  <2>3. h \in Element /\ h.key = d.key /\ h.testid = d.testid /\ h.name = d.name
    BY <2>2 DEF Element
  <2>. QED BY <2>1, <2>3
<1>6. q \in Seq(Element)
  <2>1. \A i \in 1..Len(elements) : q[i] \in Element
    BY <1>2, <1>3, <1>4, <1>5
  <2>2. q = [i \in 1..Len(elements) |-> q[i]]
    BY <1>2, <1>4 DEF q
  <2>3. q \in [1..Len(elements) -> Element]
    BY <2>1, <2>2
  <2>. QED BY <1>2, <2>3, SeqDef
<1>7. SameLook(recorded, q)
  <2>1. ASSUME NEW i \in DOMAIN q, q[i].key = recorded.key
        PROVE  q[i].testid = recorded.testid /\ q[i].name = recorded.name
    <3>1. /\ i \in DOMAIN elements /\ q[i].key = elements[i].key
          /\ q[i].testid = elements[i].testid /\ q[i].name = elements[i].name
      <4>1. CASE i = k
        BY <1>5, <4>1
      <4>2. CASE i # k
        <5>1. q[i] = elements[i] /\ i \in DOMAIN elements
          BY <1>4, <4>2
        <5>. QED BY <5>1
      <4>. QED BY <4>1, <4>2
    <3>. QED BY <2>1, <3>1 DEF FinderInv, SameLook
  <2>. QED BY <2>1 DEF SameLook
<1>8. Change("hidden", q)
  BY <1>1 DEF q
<1>. QED BY <1>6, <1>7, <1>8, ChangedElements DEF Changing

LEMMA FinderStep == ASSUME FinderInv, [FinderNext]_finderVars PROVE FinderInv'
<1>. DEFINE Finding == [use : {"replay", "batch"}, again : BOOLEAN,
                    at : {"poll", "verify", "act", "remap", "pin", "press", "done", "missed"}]
            Seen == [at : Nat, testid : TestIds \cup {""}, name : Names \cup {""}]
<1>0. finding \in Finding /\ seen \in Seen /\ (finding.use = "replay" => finding.at \notin {"remap", "pin"})
  BY DEF FinderInv, FinderTypeOK
<1>1. CASE UNCHANGED finderVars
  <2>1. UNCHANGED <<elements, recorded, finding, seen, acted, changes>>
    BY <1>1 DEF finderVars
  <2>2. FinderTypeOK'
    BY <2>1 DEF FinderInv, FinderTypeOK
  <2>3. Target' = Target
    BY <2>1 DEF Target
  <2>4. ReplayedClickHitsTarget'
    BY <2>1, <2>3 DEF FinderInv, ReplayedClickHitsTarget
  <2>. QED BY <2>1, <2>2, <2>4 DEF FinderInv
<1>2. ASSUME NEW p \in {"poll", "verify", "act", "remap", "pin", "press", "done", "missed"}, At(p)
      PROVE  finding' \in Finding /\ finding'.use = finding.use /\ finding'.at = p
  BY <1>0, <1>2 DEF At
<1>3. ASSUME Fails PROVE finding' \in Finding /\ finding'.at \in {"missed", "poll"}
  BY <1>0, <1>3 DEF Fails
<1>4. CASE Poll \/ PollDeadline \/ Verify \/ ActReplayFails \/ PinMisses
  <2>1. finding.at # "done" /\ UNCHANGED <<elements, recorded, acted, changes, seen>>
    BY <1>4 DEF Poll, PollDeadline, Verify, ActReplayFails, PinMisses
  <2>2. \/ Fails
        \/ \E p \in {"verify", "act", "press", "missed"} : At(p)
    BY <1>4 DEF Poll, PollDeadline, Verify, ActReplayFails, PinMisses
  <2>3. finding' \in Finding /\ finding'.at \notin {"remap", "pin"}
    BY <1>2, <1>3, <2>2
  <2>. QED BY <1>0, <2>1, <2>3, SearchKeeps
<1>5. CASE ActReplay
  <2>1. Found # Nobody /\ ActOn(Found) /\ UNCHANGED <<elements, recorded, seen, changes>> /\ finding.at = "act"
    BY <1>5 DEF ActReplay
  <2>2. CASE finding.use = "replay"
    BY <2>1, <2>2, ActKeeps
  <2>3. CASE finding.use # "replay"
    <3>1. acted' = Found /\ finding' = [finding EXCEPT !.at = "done"] /\ Found \in Element
      BY <2>1, FoundIsTarget DEF ActOn, At
    <3>2. FinderTypeOK' /\ finding'.at = "done" /\ finding'.use # "replay"
      BY <1>0, <2>1, <2>3, <3>1 DEF FinderInv, FinderTypeOK
    <3>. QED BY <2>1, <3>2 DEF FinderInv, ReplayedClickHitsTarget
  <2>. QED BY <2>2, <2>3
<1>6. CASE Press
  <2>1. finding.at = "press" /\ finding.use = "replay" /\ UNCHANGED <<elements, recorded, seen, changes>>
    BY <1>6 DEF Press
  <2>2. CASE Found = Nobody
    <3>1. Fails /\ acted' = acted
      BY <1>6, <2>2 DEF Press
    <3>2. finding' \in Finding /\ finding'.at \notin {"remap", "pin"}
      BY <1>3, <3>1
    <3>. QED BY <1>0, <2>1, <3>1, <3>2, SearchKeeps
  <2>3. CASE Found # Nobody
    <3>1. ActOn(Found)
      BY <1>6, <2>3 DEF Press
    <3>. QED BY <2>1, <2>3, <3>1, ActKeeps
  <2>. QED BY <2>2, <2>3
<1>7. CASE Remap
  <2>1. PICK i : i = RemapPlace(recorded, elements)
    OBVIOUS
  <2>2. i \in {0} \cup DOMAIN elements
    BY <2>1, PlacesOfTree
  <2>3. /\ finding.at = "remap" /\ UNCHANGED <<elements, recorded, acted, changes>>
        /\ seen' = SeenAt(i) /\ (At("missed") \/ At("pin"))
    BY <1>7, <2>1 DEF Remap
  <2>4. SeenAt(i) \in Seen
    <3>1. CASE i = 0
      BY <3>1 DEF SeenAt, Place0
    <3>2. CASE i # 0
      <4>1. i \in DOMAIN elements /\ elements \in Seq(Element)
        BY <2>2, <3>2 DEF FinderInv, FinderTypeOK
      <4>2. elements[i] \in Element /\ i \in Nat
        BY <4>1, LenProperties, ElementOfSeq
      <4>. QED BY <3>2, <4>2 DEF SeenAt, Element
    <3>. QED BY <3>1, <3>2
  <2>5. seen' \in Seen /\ finding' \in Finding /\ finding'.use # "replay"
    BY <1>0, <1>2, <2>3, <2>4
  <2>. QED BY <2>3, <2>5, SearchKeeps
<1>8. CASE Pin
  <2>1. PICK e \in Pinned : acted' = e /\ finding' = [finding EXCEPT !.at = "done"]
    BY <1>8 DEF Pin, ActOn, At
  <2>2. e \in Element
    <3>1. elements \in Seq(Element)
      BY DEF FinderInv, FinderTypeOK
    <3>2. \A i \in DOMAIN elements : elements[i] \in Element
      BY <3>1, LenProperties, ElementOfSeq
    <3>3. \A d \in ToSet(elements) : d \in Element
      BY <3>2 DEF ToSet
    <3>4. e \in ToSet(elements) \/ (seen.at \in DOMAIN elements /\ e = elements[seen.at])
      BY DEF Pinned
    <3>. QED BY <3>2, <3>3, <3>4
  <2>3. finding.at = "pin" /\ UNCHANGED <<elements, recorded, seen, changes>>
    BY <1>8 DEF Pin
  <2>4. finding'.at = "done" /\ finding'.use = finding.use /\ FinderTypeOK'
    BY <1>0, <2>1, <2>2, <2>3 DEF FinderInv, FinderTypeOK
  <2>5. CASE finding.use = "replay"
    BY <2>3, <2>5 DEF FinderInv
  <2>6. CASE finding.use # "replay"
    BY <2>3, <2>4, <2>6 DEF FinderInv, ReplayedClickHitsTarget
  <2>. QED BY <2>5, <2>6
<1>9. CASE Appear \/ Disappear \/ Toggle
  BY <1>9, AppearKeeps, DisappearKeeps, ToggleKeeps
<1>. QED BY <1>1, <1>4, <1>5, <1>6, <1>7, <1>8, <1>9 DEF FinderNext

\* A replayed action on an element recorded by a test id or a name acts on that
\* element if it is to be seen, whatever else came or went; one recorded by its place
\* is found again when the page only grew on the side its place is not counted from.
THEOREM ReplayHitsTheTarget == FinderSpec => []ReplayedClickHitsTarget
<1>1. FinderInv => ReplayedClickHitsTarget
  BY DEF FinderInv
<1>2. FinderInit => FinderInv
  BY FinderStarts
<1>3. FinderInv /\ [FinderNext]_finderVars => FinderInv'
  BY FinderStep
<1>. QED BY <1>1, <1>2, <1>3, PTL DEF FinderSpec

-----------------------------------------------------------------------------
(* ActionBatch: from the results to the steps of a replay                    *)

Outcome == [of : Place \cup {0}, status : Status]

\* The i-th result is that of the i-th action, but for a notice that ends the batch.
InPlace(q, over) ==
    \A i \in 1..Len(q) : \/ q[i].of = i
                         \/ over /\ i = Len(q) /\ q[i].of = 0

BatchInv ==
    /\ Len(batch.acts) \in 1..MaxBatch /\ place \in 1..Len(batch.acts)
    /\ results \in Seq(Outcome) /\ Len(results) <= Len(batch.acts)
    /\ InPlace(results, todo = "over")
    /\ todo \in {"attempt", "retry", "wait"} => Len(results) = place - 1
    /\ todo = "refresh" => Len(results) = place /\ place # Len(batch.acts)

LEMMA Outcomes ==
    /\ MaxBatch \in Nat
    /\ Notice \in Outcome /\ Notice.of = 0
    /\ \A s \in Status : place \in Place => OutcomeHere(s) \in Outcome /\ OutcomeHere(s).of = place
<1>1. MaxBatch \in Nat
  BY BatchAssumption
<1>2. Notice \in Outcome /\ Notice.of = 0
  BY DEF Notice, Outcome, Status
<1>3. ASSUME NEW s \in Status, place \in Place PROVE OutcomeHere(s) \in Outcome /\ OutcomeHere(s).of = place
  BY <1>3 DEF OutcomeHere, Outcome
<1>. QED BY <1>1, <1>2, <1>3

\* A result is added in its place, or a notice that ends the batch.
LEMMA ResultAdded ==
    ASSUME NEW q \in Seq(Outcome), InPlace(q, FALSE), NEW e \in Outcome, NEW over \in BOOLEAN,
           e.of = Len(q) + 1 \/ (over /\ e.of = 0)
    PROVE  /\ Append(q, e) \in Seq(Outcome) /\ Len(Append(q, e)) = Len(q) + 1
           /\ InPlace(Append(q, e), over)
<1>. DEFINE p == Append(q, e)
<1>1. /\ p \in Seq(Outcome) /\ Len(q) \in Nat /\ Len(p) = Len(q) + 1
      /\ \A i \in 1..Len(q) : p[i] = q[i]
      /\ p[Len(q) + 1] = e
  BY AppendProperties, LenProperties
<1>. HIDE DEF p
<1>2. ASSUME NEW i \in 1..Len(p) PROVE p[i].of = i \/ (over /\ i = Len(p) /\ p[i].of = 0)
  <2>1. CASE i = Len(q) + 1
    BY <1>1, <2>1
  <2>2. CASE i # Len(q) + 1
    <3>1. i \in 1..Len(q)
      BY <1>1, <2>2
    <3>2. q[i].of = i
      BY <3>1 DEF InPlace
    <3>. QED BY <1>1, <3>1, <3>2
  <2>. QED BY <2>1, <2>2
<1>. QED BY <1>1, <1>2 DEF InPlace, p

\* What stays of the invariant when the results do
LEMMA ResultsStay ==
    ASSUME BatchInv, UNCHANGED <<batch, results>>, place' = place,
           \/ todo' = todo
           \/ todo \in {"attempt", "retry", "wait"} /\ todo' \in {"attempt", "retry", "wait"}
           \/ todo' = "over"
    PROVE  BatchInv'
<1>1. InPlace(results', todo' = "over")
  <2>1. InPlace(results, todo = "over") /\ todo' # "over" => InPlace(results, todo' = "over")
    BY DEF InPlace
  <2>2. InPlace(results, todo = "over") => InPlace(results, TRUE)
    BY DEF InPlace
  <2>3. todo' = "over" => InPlace(results, todo' = "over")
    BY <2>2 DEF BatchInv, InPlace
  <2>. QED BY <2>1, <2>3 DEF BatchInv
<1>. QED BY <1>1 DEF BatchInv

LEMMA KeepKeeps ==
    ASSUME BatchInv, todo \in {"attempt", "retry", "wait"}, NEW s \in Status, NEW moved,
           Keep(s, moved), UNCHANGED <<batch, place>>
    PROVE  BatchInv'
<1>. DEFINE n == Len(batch.acts)
            e == OutcomeHere(s)
            p == Append(results, e)
            stops == AtWork.kind = "done" \/ s \in {"error", "failed"}
            cut == ~stops /\ ~IsLast /\ moved
<1>1. /\ n \in 1..MaxBatch /\ n \in Nat /\ place \in 1..n /\ place \in Nat /\ place <= n
      /\ results \in Seq(Outcome) /\ Len(results) = place - 1 /\ InPlace(results, FALSE)
  <2>1. InPlace(results, todo = "over") /\ todo # "over"
    BY DEF BatchInv
  <2>2. InPlace(results, FALSE)
    BY <2>1 DEF InPlace
  <2>3. n \in 1..MaxBatch /\ place \in 1..n /\ MaxBatch \in Nat
    BY Outcomes DEF BatchInv
  <2>4. results \in Seq(Outcome) /\ Len(results) = place - 1
    BY DEF BatchInv
  <2>5. n \in Nat /\ place \in Nat /\ place <= n
    BY <2>3
  <2>. QED BY <2>2, <2>3, <2>4, <2>5
<1>2. e \in Outcome /\ e.of = place /\ Notice \in Outcome /\ Notice.of = 0
  <2>1. place \in Place
    <3>1. MaxBatch \in Nat
      BY Outcomes
    <3>. QED BY <1>1, <3>1 DEF Place
  <2>. QED BY <2>1, Outcomes
<1>3. /\ p \in Seq(Outcome) /\ Len(p) = place
      /\ InPlace(p, FALSE) /\ InPlace(p, TRUE)
  <2>1. e.of = Len(results) + 1
    BY <1>1, <1>2
  <2>. HIDE DEF e
  <2>2. p \in Seq(Outcome) /\ Len(p) = Len(results) + 1 /\ InPlace(p, FALSE)
    BY <1>1, <1>2, <2>1, ResultAdded
  <2>3. InPlace(p, TRUE)
    BY <1>1, <1>2, <2>1, ResultAdded
  <2>4. Len(p) = place
    BY <1>1, <2>2
  <2>. QED BY <2>2, <2>3, <2>4
<1>4. /\ results' = results \o <<e>> \o (IF cut THEN <<Notice>> ELSE <<>>)
      /\ \/ todo' = "over"
         \/ ~(cut \/ IsLast) /\ todo' = "refresh"
      /\ cut => todo' = "over" /\ ~IsLast
  BY DEF Keep, Leaves
<1>5. results \o <<e>> = p
  BY <1>1, <1>2, AppendIsConcat
<1>. HIDE DEF e, p, cut
<1>6. CASE cut
  <2>1. results' = Append(p, Notice) /\ todo' = "over" /\ place # n
    <3>1. results' = p \o <<Notice>>
      BY <1>4, <1>5, <1>6
    <3>2. Append(p, Notice) = p \o <<Notice>>
      BY <1>2, <1>3, AppendIsConcat
    <3>. QED BY <1>4, <1>6, <3>1, <3>2 DEF IsLast
  <2>2. PICK q : q = Append(p, Notice)
    OBVIOUS
  <2>3. q \in Seq(Outcome) /\ Len(q) = Len(p) + 1 /\ InPlace(q, TRUE)
    BY <1>2, <1>3, <2>2, ResultAdded
  <2>4. Len(q) <= n
    BY <1>1, <1>3, <2>1, <2>3
  <2>5. results' = q /\ todo' = "over" /\ batch' = batch /\ place' = place
    BY <2>1, <2>2
  <2>6. InPlace(results', todo' = "over")
    BY <2>3, <2>5 DEF InPlace
  <2>. QED BY <1>1, <2>3, <2>4, <2>5, <2>6 DEF BatchInv
<1>7. CASE ~cut
  <2>1. results' = p
    BY <1>3, <1>4, <1>5, <1>7, ConcatEmptySeq
  <2>2. batch' = batch /\ place' = place /\ (todo' = "over" \/ (todo' = "refresh" /\ place # n))
    BY <1>4 DEF IsLast
  <2>3. InPlace(results', todo' = "over")
    <3>1. CASE todo' = "over"
      BY <1>3, <2>1, <3>1 DEF InPlace
    <3>2. CASE todo' # "over"
      BY <1>3, <2>1, <3>2 DEF InPlace
    <3>. QED BY <3>1, <3>2
  <2>. QED BY <1>1, <1>3, <2>1, <2>2, <2>3 DEF BatchInv
<1>. QED BY <1>6, <1>7

LEMMA BatchInvFirst == ASSUME BatchInit PROVE BatchInv
<1>1. PICK m \in 0..MaxBatch : batch.acts \in [1..m -> BatchAction]
  <2>1. batch.acts \in BoundedSeq(BatchAction, MaxBatch) \ {<<>>}
    BY DEF BatchInit
  <2>. QED BY <2>1 DEF BoundedSeq, SeqOf
<1>2. m \in Nat /\ m <= MaxBatch /\ MaxBatch \in Nat
  BY Outcomes
<1>3. batch.acts \in Seq(BatchAction) /\ Len(batch.acts) = m
  BY <1>1, <1>2, ListOfLength
<1>4. batch.acts # <<>>
  BY DEF BatchInit
<1>5. m # 0
  BY <1>3, <1>4, EmptySeq
<1>6. m \in 1..MaxBatch /\ 1 \in 1..m
  BY <1>2, <1>5
<1>7. results = <<>> /\ place = 1 /\ todo = "attempt"
  BY DEF BatchInit
<1>8. results \in Seq(Outcome) /\ Len(results) = 0
  BY <1>7, EmptySeq
<1>9. InPlace(results, todo = "over")
  BY <1>8 DEF InPlace
<1>10. Len(results) <= m /\ Len(results) = place - 1
  BY <1>2, <1>7, <1>8
<1>. QED BY <1>3, <1>6, <1>7, <1>8, <1>9, <1>10 DEF BatchInv

LEMMA BatchInvKept == ASSUME BatchInv, [BatchNext]_batchVars PROVE BatchInv'
<1>0. /\ Len(batch.acts) \in Nat /\ place \in 1..Len(batch.acts) /\ place \in Nat
      /\ results \in Seq(Outcome) /\ InPlace(results, todo = "over") /\ place \in Place
      /\ Len(batch.acts) \in 1..MaxBatch /\ Len(results) <= Len(batch.acts)
  <2>1. Len(batch.acts) \in 1..MaxBatch /\ place \in 1..Len(batch.acts) /\ MaxBatch \in Nat
    BY Outcomes DEF BatchInv
  <2>2. Len(batch.acts) \in Nat /\ place \in Nat /\ place \in Place
    BY <2>1 DEF Place
  <2>. QED BY <2>1, <2>2 DEF BatchInv
<1>1. CASE UNCHANGED batchVars
  BY <1>1, ResultsStay DEF batchVars
<1>2. CASE RetryAttempt \/ HaltBatch \/ ((\E f \in Inputs : ResetField(f)) \/ HaltRequested)
  <2>1. UNCHANGED <<batch, results>> /\ place' = place
    BY <1>2 DEF RetryAttempt, HaltBatch, ResetField, HaltRequested
  <2>2. \/ todo' = todo
        \/ todo \in {"attempt", "retry", "wait"} /\ todo' \in {"attempt", "retry", "wait"}
        \/ todo' = "over"
    BY <1>2 DEF RetryAttempt, HaltBatch, Leaves, ResetField, HaltRequested
  <2>. QED BY <2>1, <2>2, ResultsStay
<1>3. CASE BlockCommit
  <2>1. /\ todo \in {"attempt", "retry"} /\ results' = Append(results, OutcomeHere("error"))
        /\ todo' = "over" /\ UNCHANGED <<batch, place>>
    BY <1>3 DEF BlockCommit, Leaves
  <2>2. InPlace(results, FALSE) /\ Len(results) = place - 1
    BY <1>0, <2>1 DEF BatchInv, InPlace
  <2>3. OutcomeHere("error") \in Outcome /\ OutcomeHere("error").of = place
    BY <1>0, Outcomes DEF Status
  <2>4. OutcomeHere("error").of = Len(results) + 1
    BY <1>0, <2>2, <2>3
  <2>5. PICK q : q = results'
    OBVIOUS
  <2>6. q \in Seq(Outcome) /\ Len(q) = Len(results) + 1 /\ InPlace(q, TRUE)
    BY <1>0, <2>1, <2>2, <2>3, <2>4, <2>5, ResultAdded
  <2>7. Len(q) <= Len(batch.acts)
    BY <1>0, <2>2, <2>6
  <2>8. InPlace(results', todo' = "over")
    BY <2>1, <2>5, <2>6 DEF InPlace
  <2>. QED BY <1>0, <2>1, <2>5, <2>6, <2>7, <2>8 DEF BatchInv
<1>4. CASE Attempt
  <2>1. PICK s \in Verified(AtWork), moved \in BOOLEAN :
          \/ todo' = "wait" /\ UNCHANGED results
          \/ Keep(s, moved)
    BY <1>4 DEF Attempt
  <2>2. todo \in {"attempt", "retry"} /\ UNCHANGED <<batch, place>>
    BY <1>4 DEF Attempt
  <2>3. s \in Status
    BY DEF Verified, Status
  <2>4. CASE todo' = "wait" /\ UNCHANGED results
    BY <2>2, <2>4, ResultsStay
  <2>5. CASE Keep(s, moved)
    BY <2>2, <2>3, <2>5, KeepKeeps
  <2>. QED BY <2>1, <2>4, <2>5
<1>5. CASE RetryHalted
  <2>1. todo = "wait" /\ Keep("error", commit.attempt) /\ UNCHANGED <<batch, place>>
    BY <1>5 DEF RetryHalted
  <2>. QED BY <2>1, KeepKeeps DEF Status
<1>6. CASE NextElement
  <2>1. /\ todo = "refresh" /\ todo' = "attempt" /\ place' = place + 1
        /\ UNCHANGED <<batch, results>>
    BY <1>6 DEF NextElement
  <2>2. Len(results) = place /\ place # Len(batch.acts)
    BY <2>1 DEF BatchInv
  <2>3. place + 1 \in 1..Len(batch.acts) /\ Len(results) = (place + 1) - 1
    BY <1>0, <2>2
  <2>4. InPlace(results', todo' = "over")
    BY <1>0, <2>1 DEF InPlace
  <2>. QED BY <1>0, <2>1, <2>3, <2>4 DEF BatchInv
<1>7. CASE ElementGone
  <2>1. /\ todo = "refresh" /\ results' = Append(results, Notice)
        /\ todo' = "over" /\ UNCHANGED <<batch, place>>
    BY <1>7 DEF ElementGone, Leaves
  <2>2. InPlace(results, FALSE) /\ Len(results) = place /\ place # Len(batch.acts)
    BY <1>0, <2>1 DEF BatchInv, InPlace
  <2>3. PICK q : q = results'
    OBVIOUS
  <2>4. q \in Seq(Outcome) /\ Len(q) = Len(results) + 1 /\ InPlace(q, TRUE)
    BY <1>0, <2>1, <2>2, <2>3, Outcomes, ResultAdded
  <2>5. Len(q) <= Len(batch.acts)
    BY <1>0, <2>2, <2>4
  <2>6. InPlace(results', todo' = "over")
    BY <2>1, <2>3, <2>4 DEF InPlace
  <2>. QED BY <1>0, <2>1, <2>3, <2>4, <2>5, <2>6 DEF BatchInv
<1>8. CASE RaiseInBatch
  <2>1. todo' = "over" /\ results' = <<>> /\ UNCHANGED <<batch, place>>
    BY <1>8 DEF RaiseInBatch
  <2>2. results' \in Seq(Outcome) /\ Len(results') = 0
    BY <2>1, EmptySeq
  <2>3. InPlace(results', todo' = "over")
    BY <2>2 DEF InPlace
  <2>. QED BY <1>0, <2>1, <2>2, <2>3 DEF BatchInv
<1>. QED BY <1>1, <1>2, <1>3, <1>4, <1>5, <1>6, <1>7, <1>8 DEF BatchNext

\* What a replay takes from results that are in their places
LEMMA ReplayedPlaces ==
    ASSUME BatchInv
    PROVE  LET S == {i \in 1..Len(results) : Replayable(Timeline[i])} IN
           /\ S \subseteq Int /\ IsFiniteSet(S)
           /\ \A i \in 1..Len(results) : Timeline[i] = [of |-> i, status |-> results[i].status]
           /\ DOMAIN ReplaySteps = 1..Cardinality(S) /\ ReplaySteps \in Seq(Nat)
           /\ Len(ReplaySteps) = Cardinality(S)
           /\ \A n \in 1..Cardinality(S) : ReplaySteps[n] = Nth(S, n)
           /\ Range(ReplaySteps) = S
<1>. DEFINE m == Len(results)
            S == {i \in 1..m : Replayable(Timeline[i])}
<1>1. m \in Nat /\ m <= Len(batch.acts) /\ Len(batch.acts) \in Nat
  <2>1. results \in Seq(Outcome) /\ Len(batch.acts) \in 1..MaxBatch /\ m <= Len(batch.acts) /\ MaxBatch \in Nat
    BY Outcomes DEF BatchInv
  <2>. QED BY <2>1, LenProperties
<1>2. Timeline = [i \in 1..m |-> [of |-> i, status |-> results[i].status]]
  <2>1. (IF Len(results) < Len(batch.acts) THEN Len(results) ELSE Len(batch.acts)) = m
    BY <1>1
  <2>. QED BY <2>1, Zenon DEF Timeline
<1>3. S \in SUBSET (1..m) /\ IsFiniteSet(S)
  <2>1. S \in SUBSET (1..m)
    OBVIOUS
  <2>2. IsFiniteSet(1..m)
    BY <1>1, FS_Interval
  <2>. HIDE DEF S
  <2>. QED BY <2>1, <2>2, FS_Subset
<1>4. S \subseteq Int /\ Cardinality(S) \in Nat
  BY <1>1, <1>3, FS_CardinalityType
<1>5. \A n \in 1..Cardinality(S) : Nth(S, n) \in S
  BY <1>3, <1>4, NthFacts
<1>6. {i \in DOMAIN Timeline : Replayable(Timeline[i])} = S
  BY <1>2
<1>. HIDE DEF m, S
<1>7. ReplaySteps = [n \in 1..Cardinality(S) |-> Timeline[Nth(S, n)].of]
  BY <1>6 DEF ReplaySteps, Picked
<1>8. ASSUME NEW n \in 1..Cardinality(S) PROVE ReplaySteps[n] = Nth(S, n) /\ ReplaySteps[n] \in Nat
  <2>1. Nth(S, n) \in 1..m
    BY <1>3, <1>5
  <2>2. Timeline[Nth(S, n)].of = Nth(S, n)
    BY <1>2, <2>1
  <2>. QED BY <1>1, <1>7, <2>1, <2>2
<1>9. ReplaySteps \in [1..Cardinality(S) -> Nat]
  BY <1>7, <1>8
<1>10. ReplaySteps \in Seq(Nat) /\ Len(ReplaySteps) = Cardinality(S) /\ DOMAIN ReplaySteps = 1..Cardinality(S)
  BY <1>4, <1>9, ListOfLength
<1>11. Range(ReplaySteps) = S
  <2>1. ASSUME NEW i \in S PROVE i \in Range(ReplaySteps)
    <3>1. Rank(S, i) \in 1..Cardinality(S) /\ Nth(S, Rank(S, i)) = i
      BY <1>3, <1>4, NthFacts
    <3>2. ReplaySteps[Rank(S, i)] = i
      BY <1>8, <3>1
    <3>. QED BY <1>10, <3>1, <3>2 DEF Range
  <2>2. ASSUME NEW i \in Range(ReplaySteps) PROVE i \in S
    BY <1>5, <1>8, <1>10 DEF Range
  <2>. QED BY <2>1, <2>2
<1>12. \A i \in 1..m : Timeline[i] = [of |-> i, status |-> results[i].status]
  BY <1>2
<1>. QED BY <1>3, <1>4, <1>8, <1>10, <1>11, <1>12 DEF S, m

LEMMA ReplayTells == BatchInv => RecordedActionsAreReplayed
<1>. SUFFICES ASSUME BatchInv, todo = "over" PROVE RecordedActionsAreReplayed
  BY DEF RecordedActionsAreReplayed
<1>. DEFINE m == Len(results)
            S == {i \in 1..m : Replayable(Timeline[i])}
            fine(i) == results[i].status \notin {"error", "failed"}
<1>1. /\ S \subseteq Int /\ IsFiniteSet(S)
      /\ \A i \in 1..m : Timeline[i] = [of |-> i, status |-> results[i].status]
      /\ DOMAIN ReplaySteps = 1..Cardinality(S) /\ Len(ReplaySteps) = Cardinality(S)
      /\ \A n \in 1..Cardinality(S) : ReplaySteps[n] = Nth(S, n)
      /\ Range(ReplaySteps) = S
  BY ReplayedPlaces
<1>2. /\ m \in Nat /\ DOMAIN results = 1..m /\ 1..m \subseteq Place
      /\ \A i \in 1..m : results[i].of = i \/ (i = m /\ results[i].of = 0)
  <2>1. results \in Seq(Outcome) /\ m <= Len(batch.acts) /\ Len(batch.acts) \in 1..MaxBatch /\ MaxBatch \in Nat
    BY Outcomes DEF BatchInv
  <2>2. m \in Nat /\ DOMAIN results = 1..m
    BY <2>1, LenProperties
  <2>3. 1..m \subseteq Place
    BY <2>1, <2>2 DEF Place
  <2>. QED BY <2>2, <2>3 DEF BatchInv, InPlace
<1>3. \A i \in 1..m : i \in S <=> batch.acts[i].kind # "done" /\ fine(i)
  <2>1. ASSUME NEW i \in 1..m PROVE i \in S <=> batch.acts[i].kind # "done" /\ fine(i)
    <3>1. Timeline[i] = [of |-> i, status |-> results[i].status]
      BY <1>1
    <3>2. Replayable(Timeline[i]) <=> batch.acts[i].kind # "done" /\ fine(i)
      BY <3>1 DEF Replayable
    <3>. QED BY <3>2
  <2>. QED BY <2>1
<1>4. ASSUME NEW i \in Worked PROVE i \in 1..m /\ fine(i)
  <2>1. PICK r \in Range(results) : r.of = i /\ r.status \notin {"error", "failed"}
    BY DEF Worked
  <2>2. PICK j \in 1..m : r = results[j]
    BY <1>2, <2>1 DEF Range
  <2>3. i # 0
    <3>1. i \in 1..MaxBatch /\ MaxBatch \in Nat
      BY Outcomes DEF Worked, Place
    <3>. QED BY <3>1
  <2>4. j = i
    BY <1>2, <2>1, <2>2, <2>3
  <2>. QED BY <2>1, <2>2, <2>4
<1>5. ASSUME NEW i \in Worked, batch.acts[i].kind # "done" PROVE i \in Range(ReplaySteps)
  BY <1>1, <1>3, <1>4, <1>5
<1>6. ASSUME NEW i \in DOMAIN ReplaySteps, NEW j \in DOMAIN ReplaySteps, i < j
      PROVE  ReplaySteps[i] < ReplaySteps[j]
  BY <1>1, <1>6, NthFacts
<1>7. ASSUME NEW i \in S, i \notin Worked PROVE i = m
  <2>1. i \in 1..m /\ i \in Place /\ fine(i) /\ results[i] \in Range(results)
    BY <1>2, <1>3 DEF Range
  <2>2. results[i].of # i
    BY <1>7, <2>1 DEF Worked
  <2>. QED BY <1>2, <2>1, <2>2
<1>8. m \in S => Last(ReplaySteps) = m
  <2>. SUFFICES ASSUME m \in S PROVE Last(ReplaySteps) = m
    OBVIOUS
  <2>1. PICK c : c = Cardinality(S)
    OBVIOUS
  <2>2. PICK r : r = Rank(S, m)
    OBVIOUS
  <2>. HIDE DEF S
  <2>3. /\ c \in Nat /\ r \in 1..c /\ Nth(S, r) = m
        /\ \A n \in 1..c : Nth(S, n) \in S
        /\ \A k, n \in 1..c : k < n => Nth(S, k) < Nth(S, n)
    BY <1>1, <2>1, <2>2, NthFacts
  <2>4. c \in 1..c
    BY <2>3
  <2>5. Nth(S, c) \in 1..m
    BY <2>3, <2>4 DEF S
  <2>6. r = c
    <3>1. ASSUME r < c PROVE FALSE
      <4>1. Nth(S, r) < Nth(S, c)
        BY <2>3, <2>4, <3>1
      <4>2. PICK x : x = Nth(S, c)
        OBVIOUS
      <4>3. m < x /\ x \in 1..m /\ m \in Nat
        BY <1>2, <2>3, <2>5, <4>1, <4>2
      <4>. HIDE DEF m
      <4>. QED BY <4>3
    <3>. QED BY <2>3, <3>1
  <2>7. Last(ReplaySteps) = ReplaySteps[c]
    BY <1>1, <2>1 DEF Last
  <2>. QED BY <1>1, <2>1, <2>3, <2>4, <2>6, <2>7
<1>9. S \ Worked = {} \/ S \ Worked = {Last(ReplaySteps)}
  <2>1. CASE S \ Worked = {}
    BY <2>1
  <2>2. CASE S \ Worked # {}
    <3>1. S \ Worked = {m} /\ m \in S
      BY <1>7, <2>2
    <3>. QED BY <1>8, <3>1
  <2>. QED BY <2>1, <2>2
<1>. HIDE DEF S, m
<1>. QED BY <1>1, <1>5, <1>6, <1>9 DEF RecordedActionsAreReplayed

\* In a batch of any length, however it ends: every action that was carried out and
\* not found to fail is replayed, once and in its place; beyond these at most one
\* step is, the last.
THEOREM ReplayIsComplete == BatchSpec => []RecordedActionsAreReplayed
<1>1. BatchInit => BatchInv
  BY BatchInvFirst
<1>2. BatchInv /\ [BatchNext]_batchVars => BatchInv'
  BY BatchInvKept
<1>. QED BY <1>1, <1>2, ReplayTells, PTL DEF BatchSpec

-----------------------------------------------------------------------------
(* What is said of a trace s, whatever the state                             *)

Texts == {"click", "keys", "input"}

InOrder(s) == \A i, j \in DOMAIN s :
    i < j /\ s[i].kind \in Texts /\ s[j].kind \in Texts /\ s[i].tab = s[j].tab /\ s[i].doc = s[j].doc
        => s[i].n < s[j].n

\* What s has of document d of tab t was done before gesture n
Before(s, t, d, n) == \A i \in DOMAIN s :
    s[i].kind \in Texts /\ s[i].tab = t /\ s[i].doc = d => s[i].n < n

\* s is of documents that pages pg have or had, and of gestures up to g
Bounded(s, pg, g) == \A i \in DOMAIN s :
    s[i].kind \in Texts => s[i].doc <= pg[s[i].tab].doc /\ s[i].n <= g

IsText(r, t, d, f) == r.kind = "input" /\ r.tab = t /\ r.doc = d /\ r.on = f
LastText(s, t, d, f, n) == \E i \in DOMAIN s :
    /\ IsText(s[i], t, d, f) /\ s[i].n >= n
    /\ \A j \in DOMAIN s : IsText(s[j], t, d, f) => j <= i

LastScroll(s, c, x) == \E i \in DOMAIN s :
    /\ IsScrollOf(s[i], c) /\ s[i].n = x
    /\ \A j \in DOMAIN s : IsScrollOf(s[j], c) => j <= i

-----------------------------------------------------------------------------
LEMMA RecordKinds ==
    ASSUME NEW r \in Record
    PROVE  /\ r.kind \in Texts \cup {"scroll", "url"} /\ r.tab \in Tabs /\ r.doc \in Nat
           /\ r.kind \in Texts => r.n \in Nat
BY DEF Record, Texts

\* A record that is added at the end.
LEMMA AppendKeeps ==
    ASSUME NEW s \in Seq(Record), NEW r \in Record
    PROVE  /\ Append(s, r) \in Seq(Record)
           /\ Len(s) \in Nat /\ DOMAIN s = 1..Len(s) /\ DOMAIN Append(s, r) = 1..(Len(s) + 1)
           /\ Append(s, r)[Len(s) + 1] = r
           /\ \A i \in DOMAIN s : i \in DOMAIN Append(s, r) /\ Append(s, r)[i] = s[i] /\ s[i] \in Record
           /\ \A i \in DOMAIN Append(s, r) : i \in DOMAIN s \/ i = Len(s) + 1
<1>1. /\ Append(s, r) \in Seq(Record) /\ Len(Append(s, r)) = Len(s) + 1 /\ Len(s) \in Nat
      /\ \A i \in 1..Len(s) : Append(s, r)[i] = s[i]
      /\ Append(s, r)[Len(s) + 1] = r
  BY AppendProperties, LenProperties
<1>2. DOMAIN s = 1..Len(s) /\ DOMAIN Append(s, r) = 1..Len(Append(s, r))
  BY <1>1, LenProperties
<1>3. \A i \in DOMAIN s : s[i] \in Record
  BY <1>2, ElementOfSeq
<1>. QED BY <1>1, <1>2, <1>3

LEMMA AppendOrder ==
    ASSUME NEW s \in Seq(Record), NEW r \in Record, InOrder(s),
           r.kind \in Texts => Before(s, r.tab, r.doc, r.n)
    PROVE  InOrder(Append(s, r))
<1>. DEFINE q == Append(s, r)
<1>1. /\ Len(s) \in Nat /\ DOMAIN s = 1..Len(s) /\ DOMAIN q = 1..(Len(s) + 1) /\ q[Len(s) + 1] = r
      /\ \A i \in DOMAIN s : q[i] = s[i]
  BY AppendKeeps
<1>. HIDE DEF q
<1>2. SUFFICES ASSUME NEW i \in DOMAIN q, NEW j \in DOMAIN q, i < j, q[i].kind \in Texts,
                      q[j].kind \in Texts, q[i].tab = q[j].tab, q[i].doc = q[j].doc
               PROVE  q[i].n < q[j].n
  BY DEF InOrder, q
<1>3. i \in DOMAIN s
  BY <1>1, <1>2
<1>4. CASE j \in DOMAIN s
  BY <1>1, <1>2, <1>3, <1>4 DEF InOrder
<1>5. CASE j = Len(s) + 1
  BY <1>1, <1>2, <1>3, <1>5 DEF Before
<1>. QED BY <1>1, <1>4, <1>5

LEMMA AppendBefore ==
    ASSUME NEW s \in Seq(Record), NEW r \in Record, NEW t, NEW d, NEW n, Before(s, t, d, n),
           r.kind \in Texts /\ r.tab = t /\ r.doc = d => r.n < n
    PROVE  Before(Append(s, r), t, d, n)
BY AppendKeeps DEF Before

LEMMA AppendBounded ==
    ASSUME NEW s \in Seq(Record), NEW r \in Record, NEW pg, NEW g, Bounded(s, pg, g),
           r.kind \in Texts => r.doc <= pg[r.tab].doc /\ r.n <= g
    PROVE  Bounded(Append(s, r), pg, g)
BY AppendKeeps DEF Bounded

LEMMA AppendText ==
    ASSUME NEW s \in Seq(Record), NEW r \in Record, NEW t, NEW d, NEW f, NEW n,
           IF IsText(r, t, d, f) THEN r.n >= n ELSE LastText(s, t, d, f, n)
    PROVE  LastText(Append(s, r), t, d, f, n)
<1>. DEFINE q == Append(s, r)
<1>1. /\ Len(s) \in Nat /\ DOMAIN s = 1..Len(s) /\ DOMAIN q = 1..(Len(s) + 1) /\ q[Len(s) + 1] = r
      /\ \A i \in DOMAIN s : q[i] = s[i]
  BY AppendKeeps
<1>. HIDE DEF q
<1>2. CASE IsText(r, t, d, f)
  <2>1. Len(s) + 1 \in DOMAIN q /\ \A j \in DOMAIN q : j <= Len(s) + 1
    BY <1>1
  <2>. QED BY <1>1, <1>2, <2>1 DEF LastText, q
<1>3. CASE ~IsText(r, t, d, f)
  <2>1. PICK i \in DOMAIN s : /\ IsText(s[i], t, d, f) /\ s[i].n >= n
                              /\ \A j \in DOMAIN s : IsText(s[j], t, d, f) => j <= i
    BY <1>3 DEF LastText
  <2>2. i \in DOMAIN q /\ q[i] = s[i]
    BY <1>1
  <2>3. ASSUME NEW j \in DOMAIN q, IsText(q[j], t, d, f) PROVE j <= i
    <3>1. j \in DOMAIN s
      BY <1>1, <1>3, <2>3
    <3>. QED BY <1>1, <2>1, <2>3, <3>1
  <2>4. IsText(q[i], t, d, f) /\ q[i].n >= n
    BY <2>1, <2>2
  <2>. QED BY <2>2, <2>3, <2>4 DEF LastText, q
<1>. QED BY <1>2, <1>3

LEMMA AppendLastScroll ==
    ASSUME NEW s \in Seq(Record), NEW r \in Record, NEW c, NEW x,
           IF IsScrollOf(r, c) THEN r.n = x ELSE LastScroll(s, c, x)
    PROVE  LastScroll(Append(s, r), c, x)
<1>. DEFINE q == Append(s, r)
<1>1. /\ Len(s) \in Nat /\ DOMAIN s = 1..Len(s) /\ DOMAIN q = 1..(Len(s) + 1) /\ q[Len(s) + 1] = r
      /\ \A i \in DOMAIN s : q[i] = s[i]
  BY AppendKeeps
<1>. HIDE DEF q
<1>2. CASE IsScrollOf(r, c)
  <2>1. Len(s) + 1 \in DOMAIN q /\ \A j \in DOMAIN q : j <= Len(s) + 1
    BY <1>1
  <2>. QED BY <1>1, <1>2, <2>1 DEF LastScroll, q
<1>3. CASE ~IsScrollOf(r, c)
  <2>1. PICK i \in DOMAIN s : /\ IsScrollOf(s[i], c) /\ s[i].n = x
                              /\ \A j \in DOMAIN s : IsScrollOf(s[j], c) => j <= i
    BY <1>3 DEF LastScroll
  <2>2. i \in DOMAIN q /\ q[i] = s[i]
    BY <1>1
  <2>3. ASSUME NEW j \in DOMAIN q, IsScrollOf(q[j], c) PROVE j <= i
    <3>1. j \in DOMAIN s
      BY <1>1, <1>3, <2>3
    <3>. QED BY <1>1, <2>1, <2>3, <3>1
  <2>. QED BY <2>1, <2>2, <2>3 DEF LastScroll, q
<1>. QED BY <1>2, <1>3

-----------------------------------------------------------------------------
(* A scroll may replace the last record, when that is a scroll of the same    *)
(* container; what is not a scroll stays where it is.                        *)

LEMMA ScrollAppendedShape ==
    ASSUME NEW s \in Seq(Record), NEW r \in Record, r.kind = "scroll"
    PROVE  \/ /\ ScrollAppended(s, r) = s
              /\ Len(s) \in DOMAIN s /\ IsScrollOf(s[Len(s)], r.on) /\ s[Len(s)].n = r.n
           \/ \E q \in Seq(Record) :
                /\ ScrollAppended(s, r) = Append(q, r)
                /\ DOMAIN q \subseteq DOMAIN s /\ \A i \in DOMAIN q : q[i] = s[i]
                /\ \A i \in DOMAIN s \ DOMAIN q : s[i].kind = "scroll"
<1>0. s \in Seq(Record) /\ Len(s) \in Nat /\ DOMAIN s = 1..Len(s)
  BY LenProperties
<1>1. CASE s # <<>> /\ Last(s).kind = "scroll" /\ Last(s).on = r.on /\ Last(s).n = r.n
  <2>1. ScrollAppended(s, r) = s
    BY <1>1 DEF ScrollAppended
  <2>2. IsScrollOf(s[Len(s)], r.on) /\ s[Len(s)].n = r.n
    BY <1>1 DEF Last, IsScrollOf
  <2>3. Len(s) \in DOMAIN s
    BY <1>0, <1>1, EmptySeq
  <2>. QED BY <2>1, <2>2, <2>3
<1>2. CASE s # <<>> /\ Last(s).kind = "scroll" /\ Last(s).on = r.on /\ Last(s).n # r.n
  <2>. DEFINE q == Front(s)
  <2>1. ScrollAppended(s, r) = Append(q, r)
    BY <1>2 DEF ScrollAppended
  <2>2. Len(s) \in Nat \ {0}
    BY <1>0, <1>2, EmptySeq
  <2>3. /\ q \in Seq(Record) /\ Len(q) = Len(s) - 1
        /\ \A i \in 1..(Len(s) - 1) : q[i] = s[i]
    BY <1>0, <2>2, SubSeqProperties DEF Front
  <2>4. DOMAIN q = 1..(Len(s) - 1)
    BY <2>3, LenProperties
  <2>5. \A i \in DOMAIN s \ DOMAIN q : i = Len(s)
    BY <1>0, <2>2, <2>4
  <2>6. s[Len(s)].kind = "scroll"
    BY <1>2 DEF Last
  <2>7. DOMAIN q \subseteq DOMAIN s
    BY <1>0, <2>2, <2>4
  <2>. HIDE DEF q
  <2>. QED BY <2>1, <2>3, <2>4, <2>5, <2>6, <2>7
<1>3. CASE ~(s # <<>> /\ Last(s).kind = "scroll" /\ Last(s).on = r.on)
  <2>1. ScrollAppended(s, r) = Append(s, r)
    BY <1>3 DEF ScrollAppended
  <2>. QED BY <1>0, <2>1
<1>. QED BY <1>1, <1>2, <1>3

\* What is left when scrolls at the end are taken away says the same about the rest.
LEMMA PrefixKeeps ==
    ASSUME NEW s \in Seq(Record), NEW q \in Seq(Record),
           DOMAIN q \subseteq DOMAIN s, \A i \in DOMAIN q : q[i] = s[i],
           \A i \in DOMAIN s \ DOMAIN q : s[i].kind = "scroll"
    PROVE  /\ InOrder(s) => InOrder(q)
           /\ \A t, d, n : Before(s, t, d, n) => Before(q, t, d, n)
           /\ \A pg, g : Bounded(s, pg, g) => Bounded(q, pg, g)
           /\ \A t, d, f, n : LastText(s, t, d, f, n) => LastText(q, t, d, f, n)
<1>1. InOrder(s) => InOrder(q)
  BY DEF InOrder
<1>2. \A t, d, n : Before(s, t, d, n) => Before(q, t, d, n)
  BY DEF Before
<1>3. \A pg, g : Bounded(s, pg, g) => Bounded(q, pg, g)
  BY DEF Bounded
<1>4. ASSUME NEW t, NEW d, NEW f, NEW n, LastText(s, t, d, f, n) PROVE LastText(q, t, d, f, n)
  <2>1. PICK i \in DOMAIN s : /\ IsText(s[i], t, d, f) /\ s[i].n >= n
                              /\ \A j \in DOMAIN s : IsText(s[j], t, d, f) => j <= i
    BY <1>4 DEF LastText
  <2>2. i \in DOMAIN q
    BY <2>1 DEF IsText
  <2>. QED BY <2>1, <2>2 DEF LastText
<1>. QED BY <1>1, <1>2, <1>3, <1>4

LEMMA ScrollKeeps ==
    ASSUME NEW s \in Seq(Record), NEW r \in Record, r.kind = "scroll"
    PROVE  /\ ScrollAppended(s, r) \in Seq(Record)
           /\ InOrder(s) => InOrder(ScrollAppended(s, r))
           /\ \A t, d, n : Before(s, t, d, n) => Before(ScrollAppended(s, r), t, d, n)
           /\ \A pg, g : Bounded(s, pg, g) => Bounded(ScrollAppended(s, r), pg, g)
           /\ \A t, d, f, n : LastText(s, t, d, f, n) => LastText(ScrollAppended(s, r), t, d, f, n)
           /\ LastScroll(ScrollAppended(s, r), r.on, r.n)
<1>0. Len(s) \in Nat /\ DOMAIN s = 1..Len(s) /\ r.kind \notin Texts
  BY LenProperties DEF Texts
<1>1. CASE /\ ScrollAppended(s, r) = s
           /\ Len(s) \in DOMAIN s /\ IsScrollOf(s[Len(s)], r.on) /\ s[Len(s)].n = r.n
  <2>1. LastScroll(s, r.on, r.n)
    BY <1>0, <1>1 DEF LastScroll
  <2>. QED BY <1>1, <2>1
<1>2. CASE \E q \in Seq(Record) :
                /\ ScrollAppended(s, r) = Append(q, r)
                /\ DOMAIN q \subseteq DOMAIN s /\ \A i \in DOMAIN q : q[i] = s[i]
                /\ \A i \in DOMAIN s \ DOMAIN q : s[i].kind = "scroll"
  <2>1. PICK q \in Seq(Record) :
                /\ ScrollAppended(s, r) = Append(q, r)
                /\ DOMAIN q \subseteq DOMAIN s /\ \A i \in DOMAIN q : q[i] = s[i]
                /\ \A i \in DOMAIN s \ DOMAIN q : s[i].kind = "scroll"
    BY <1>2
  <2>2. /\ InOrder(s) => InOrder(q)
        /\ \A t, d, n : Before(s, t, d, n) => Before(q, t, d, n)
        /\ \A pg, g : Bounded(s, pg, g) => Bounded(q, pg, g)
        /\ \A t, d, f, n : LastText(s, t, d, f, n) => LastText(q, t, d, f, n)
    BY <2>1, PrefixKeeps
  <2>3. ScrollAppended(s, r) \in Seq(Record)
    BY <2>1, AppendKeeps
  <2>4. InOrder(s) => InOrder(ScrollAppended(s, r))
    BY <1>0, <2>1, <2>2, AppendOrder
  <2>5. ASSUME NEW t, NEW d, NEW n, Before(s, t, d, n) PROVE Before(ScrollAppended(s, r), t, d, n)
    BY <1>0, <2>1, <2>2, <2>5, AppendBefore
  <2>6. ASSUME NEW pg, NEW g, Bounded(s, pg, g) PROVE Bounded(ScrollAppended(s, r), pg, g)
    BY <1>0, <2>1, <2>2, <2>6, AppendBounded
  <2>7. ASSUME NEW t, NEW d, NEW f, NEW n, LastText(s, t, d, f, n)
        PROVE  LastText(ScrollAppended(s, r), t, d, f, n)
    <3>1. ~IsText(r, t, d, f) /\ LastText(q, t, d, f, n)
      BY <2>2, <2>7 DEF IsText
    <3>. QED BY <2>1, <3>1, AppendText
  <2>8. LastScroll(ScrollAppended(s, r), r.on, r.n)
    <3>1. IsScrollOf(r, r.on)
      BY DEF IsScrollOf
    <3>. QED BY <2>1, <3>1, AppendLastScroll
  <2>. QED BY <2>3, <2>4, <2>5, <2>6, <2>7, <2>8
<1>. QED BY <1>1, <1>2, ScrollAppendedShape

-----------------------------------------------------------------------------
(* What holds of a trace s with pages pg, ghosts ty and sc, and g gestures    *)

PageState == [doc : Nat, url : Urls, focus : Fields \cup {"none"},
              pending : [Fields -> Nat], scroll : Scroll \cup {Nothing}]

PageInv(pg, g) == \A t \in Tabs, f \in Fields :
    pg[t].pending[f] # 0 => pg[t].focus = f /\ pg[t].pending[f] <= g

OrderInv(s, pg, g) ==
    /\ InOrder(s)
    /\ Bounded(s, pg, g)
    /\ \A t \in Tabs, f \in Fields :
         pg[t].pending[f] # 0 => Before(s, t, pg[t].doc, pg[t].pending[f])

\* While the recorder is active, a text is in the trace or held back by its page.
TextInv(s, pg, ty) == \A t \in OwnTabs, f \in Fields :
    ty[t][f] # 0 =>
        IF pg[t].pending[f] = 0 THEN LastText(s, t, pg[t].doc, f, ty[t][f])
        ELSE ty[t][f] <= pg[t].pending[f]

TextDone(s, pg, ty) == \A t \in OwnTabs, f \in Fields :
    ty[t][f] # 0 => LastText(s, t, pg[t].doc, f, ty[t][f])

OnlyScrolled(sc, t) == sc[t] \in Scroll /\ \A u \in Tabs \ {t} : sc[u] = Nothing

\* The same of a scroll, when no other tab was scrolled.
ScrollInv(s, pg, sc, active) ==
    /\ \A t \in Tabs : sc[t] = Nothing => pg[t].scroll = Nothing
    /\ \A t \in OwnTabs : OnlyScrolled(sc, t) =>
         IF pg[t].scroll = Nothing THEN LastScroll(s, sc[t].on, sc[t].pos)
         ELSE active /\ pg[t].scroll = sc[t]

CaptureInv ==
    /\ CaptureTypeOK
    /\ PageInv(page, count.gestures)
    /\ OrderInv(trace, page, count.gestures)
    /\ holder # "flushing" => unflushed = {}
    /\ holder = "flushing" => \A t \in OwnTabs \ unflushed :
         page[t].scroll = Nothing /\ \A f \in Fields : page[t].pending[f] = 0
    /\ IF Recording THEN TextInv(trace, page, typed) ELSE TextDone(trace, page, typed)
    /\ ScrollInv(trace, page, scrolled, Recording)

-----------------------------------------------------------------------------
\* A page may forget what it holds back, hold back a new gesture, or be replaced.
LEMMA OrderWeakens ==
    ASSUME NEW s \in Seq(Record), NEW pg, NEW pg2, NEW g \in Nat, NEW g2 \in Nat,
           OrderInv(s, pg, g), g <= g2,
           \A t \in Tabs : pg[t].doc \in Nat /\ pg2[t].doc \in Nat /\ pg[t].doc <= pg2[t].doc,
           \A t \in Tabs, f \in Fields :
              \/ pg2[t].pending[f] = 0
              \/ pg2[t].pending[f] = g + 1
              \/ pg2[t].pending[f] = pg[t].pending[f] /\ pg2[t].doc = pg[t].doc
    PROVE  OrderInv(s, pg2, g2)
<1>1. \A i \in DOMAIN s : s[i] \in Record
  BY LenProperties, ElementOfSeq
<1>2. \A i \in DOMAIN s : s[i].tab \in Tabs /\ s[i].doc \in Nat /\ (s[i].kind \in Texts => s[i].n \in Nat)
  BY <1>1, RecordKinds
<1>3. Bounded(s, pg2, g2)
  <2>1. SUFFICES ASSUME NEW i \in DOMAIN s, s[i].kind \in Texts
                 PROVE  s[i].doc <= pg2[s[i].tab].doc /\ s[i].n <= g2
    BY DEF Bounded
  <2>2. s[i].doc <= pg[s[i].tab].doc /\ s[i].n <= g
    BY <2>1 DEF Bounded, OrderInv
  <2>3. pg[s[i].tab].doc \in Nat /\ pg2[s[i].tab].doc \in Nat /\ pg[s[i].tab].doc <= pg2[s[i].tab].doc
    BY <1>2
  <2>. QED BY <1>2, <2>1, <2>2, <2>3
<1>4. ASSUME NEW t \in Tabs, NEW f \in Fields, pg2[t].pending[f] # 0
      PROVE  Before(s, t, pg2[t].doc, pg2[t].pending[f])
  <2>1. CASE pg2[t].pending[f] = g + 1
    <3>1. \A i \in DOMAIN s : s[i].kind \in Texts => s[i].n < g + 1
      BY <1>2 DEF OrderInv, Bounded
    <3>. QED BY <2>1, <3>1 DEF Before
  <2>2. CASE pg2[t].pending[f] = pg[t].pending[f] /\ pg2[t].doc = pg[t].doc
    BY <1>4, <2>2 DEF OrderInv
  <2>. QED BY <1>4, <2>1, <2>2
<1>. QED BY <1>3, <1>4 DEF OrderInv

\* The record of gesture g + 1, in a page that holds nothing back.
LEMMA GestureAppended ==
    ASSUME NEW s \in Seq(Record), NEW r \in Record, NEW pg, NEW g \in Nat, NEW ty, NEW sc, NEW a,
           \A t \in Tabs : pg[t].doc \in Nat,
           OrderInv(s, pg, g), TextInv(s, pg, ty), ScrollInv(s, pg, sc, a),
           r.kind \in {"click", "keys"}, r.n = g + 1, r.doc = pg[r.tab].doc,
           \A f \in Fields : pg[r.tab].pending[f] = 0
    PROVE  /\ Append(s, r) \in Seq(Record) /\ OrderInv(Append(s, r), pg, g + 1)
           /\ TextInv(Append(s, r), pg, ty) /\ ScrollInv(Append(s, r), pg, sc, a)
<1>1. r.tab \in Tabs /\ r.kind \in Texts /\ r.doc \in Nat /\ g + 1 \in Nat
  BY RecordKinds DEF Texts
<1>2. OrderInv(s, pg, g + 1)
  BY OrderWeakens
<1>3. Before(s, r.tab, r.doc, r.n)
  <2>1. \A i \in DOMAIN s : s[i] \in Record
    BY LenProperties, ElementOfSeq
  <2>2. \A i \in DOMAIN s : s[i].kind \in Texts => s[i].n \in Nat
    BY <2>1, RecordKinds
  <2>3. \A i \in DOMAIN s : s[i].kind \in Texts => s[i].n < g + 1
    BY <2>2 DEF OrderInv, Bounded
  <2>. QED BY <2>3 DEF Before
<1>4. InOrder(Append(s, r))
  BY <1>2, <1>3, AppendOrder DEF OrderInv
<1>5. Bounded(Append(s, r), pg, g + 1)
  <2>1. Bounded(s, pg, g + 1) /\ r.doc <= pg[r.tab].doc /\ r.n <= g + 1
    BY <1>1, <1>2 DEF OrderInv
  <2>. QED BY <2>1, AppendBounded
<1>6. ASSUME NEW t \in Tabs, NEW f \in Fields, pg[t].pending[f] # 0
      PROVE  Before(Append(s, r), t, pg[t].doc, pg[t].pending[f])
  <2>1. Before(s, t, pg[t].doc, pg[t].pending[f]) /\ r.tab # t
    BY <1>6 DEF OrderInv
  <2>. QED BY <2>1, AppendBefore
<1>7. ASSUME NEW t \in OwnTabs, NEW f \in Fields, ty[t][f] # 0
      PROVE  IF pg[t].pending[f] = 0 THEN LastText(Append(s, r), t, pg[t].doc, f, ty[t][f])
             ELSE ty[t][f] <= pg[t].pending[f]
  <2>1. ~IsText(r, t, pg[t].doc, f)
    BY DEF IsText
  <2>. QED BY <1>7, <2>1, AppendText DEF TextInv
<1>8. ASSUME NEW t \in OwnTabs, OnlyScrolled(sc, t)
      PROVE  IF pg[t].scroll = Nothing THEN LastScroll(Append(s, r), sc[t].on, sc[t].pos)
             ELSE a /\ pg[t].scroll = sc[t]
  <2>1. ~IsScrollOf(r, sc[t].on)
    BY DEF IsScrollOf
  <2>. QED BY <1>8, <2>1, AppendLastScroll DEF ScrollInv
<1>9. Append(s, r) \in Seq(Record)
  BY AppendKeeps
<1>. QED BY <1>4, <1>5, <1>6, <1>7, <1>8, <1>9 DEF OrderInv, TextInv, ScrollInv

-----------------------------------------------------------------------------
\* When a field is left its text is in the trace, while the recorder is active.
LEMMA LeaveKeeps ==
    ASSUME CaptureInv, Recording, NEW t \in Tabs, NEW pg, NEW s,
           s = LeaveField(trace, t, page[t]),
           \A u \in Tabs : pg[u].doc = page[u].doc /\ pg[u].scroll = page[u].scroll,
           \A u \in Tabs \ {t}, f \in Fields : pg[u].pending[f] = page[u].pending[f],
           \A f \in Fields : pg[t].pending[f] = 0
    PROVE  /\ s \in Seq(Record) /\ OrderInv(s, pg, count.gestures)
           /\ TextInv(s, pg, typed) /\ ScrollInv(s, pg, scrolled, Recording)
<1>. DEFINE p == page[t]
            g == count.gestures
<1>1. /\ trace \in Seq(Record) /\ g \in Nat /\ OwnTabs \subseteq Tabs
      /\ \A u \in Tabs : page[u] \in PageState
      /\ "none" \notin Fields
  BY CaptureAssumption DEF CaptureInv, CaptureTypeOK, PageState
<1>2. \A u \in Tabs : /\ page[u].doc \in Nat /\ page[u].focus \in Fields \cup {"none"}
                      /\ \A f \in Fields : page[u].pending[f] \in Nat
  BY <1>1 DEF PageState
<1>3. \A f \in Fields : p.pending[f] # 0 => p.focus = f /\ p.pending[f] <= g
  BY DEF CaptureInv, PageInv
<1>4. OrderInv(trace, page, g) /\ TextInv(trace, page, typed) /\ ScrollInv(trace, page, scrolled, Recording)
  BY DEF CaptureInv
<1>5. OrderInv(trace, pg, g)
  <2>1. \A u \in Tabs : page[u].doc \in Nat /\ pg[u].doc \in Nat /\ page[u].doc <= pg[u].doc
    BY <1>2
  <2>2. \A u \in Tabs, f \in Fields :
          \/ pg[u].pending[f] = 0
          \/ pg[u].pending[f] = g + 1
          \/ pg[u].pending[f] = page[u].pending[f] /\ pg[u].doc = page[u].doc
    OBVIOUS
  <2>. HIDE DEF g
  <2>. QED BY <1>1, <1>4, <2>1, <2>2, OrderWeakens
<1>6. CASE p.focus = "none" \/ p.pending[p.focus] = 0
  <2>1. s = trace
    BY <1>6 DEF LeaveField, InputFlushed
  <2>2. \A u \in Tabs, f \in Fields : pg[u].pending[f] = page[u].pending[f]
    BY <1>1, <1>2, <1>3, <1>6
  <2>3. TextInv(s, pg, typed)
    BY <1>1, <1>4, <2>1, <2>2 DEF TextInv
  <2>4. ScrollInv(s, pg, scrolled, Recording)
    BY <1>1, <1>4, <2>1 DEF ScrollInv
  <2>. QED BY <1>1, <1>5, <2>1, <2>3, <2>4
<1>7. CASE p.focus # "none" /\ p.pending[p.focus] # 0
  <2>. DEFINE e == p.focus
              r == Rec("input", t, e, p.pending[e])
  <2>1. e \in Fields /\ p.pending[e] \in Nat \ {0} /\ p.pending[e] <= g
    BY <1>2, <1>3, <1>7
  <2>2. r \in Record /\ r.kind = "input" /\ r.tab = t /\ r.doc = p.doc /\ r.on = e /\ r.n = p.pending[e]
    BY <1>2, <2>1 DEF Rec, Record
  <2>3. s = Append(trace, r)
    BY <1>7, <2>2 DEF LeaveField, InputFlushed, Reported
  <2>. HIDE DEF r
  <2>4. r.kind \in Texts
    BY <2>2 DEF Texts
  <2>5. Before(trace, r.tab, r.doc, r.n)
    BY <1>4, <2>1, <2>2 DEF OrderInv
  <2>6. InOrder(s)
    BY <1>1, <1>5, <2>2, <2>3, <2>5, AppendOrder DEF OrderInv
  <2>7. Bounded(s, pg, g)
    <3>1. Bounded(trace, pg, g) /\ r.doc <= pg[r.tab].doc /\ r.n <= g
      BY <1>2, <1>5, <2>1, <2>2 DEF OrderInv
    <3>. QED BY <1>1, <2>2, <2>3, <3>1, AppendBounded
  <2>8. ASSUME NEW u \in Tabs, NEW f \in Fields, pg[u].pending[f] # 0
        PROVE  Before(s, u, pg[u].doc, pg[u].pending[f])
    <3>1. u # t
      BY <2>8
    <3>2. Before(trace, u, pg[u].doc, pg[u].pending[f])
      BY <1>5, <2>8 DEF OrderInv
    <3>. QED BY <1>1, <2>2, <2>3, <3>1, <3>2, AppendBefore
  <2>9. ASSUME NEW u \in OwnTabs, NEW f \in Fields, typed[u][f] # 0
        PROVE  IF pg[u].pending[f] = 0 THEN LastText(s, u, pg[u].doc, f, typed[u][f])
               ELSE typed[u][f] <= pg[u].pending[f]
    <3>1. u \in Tabs /\ pg[u].doc = page[u].doc
      BY <1>1
    <3>2. IF page[u].pending[f] = 0 THEN LastText(trace, u, pg[u].doc, f, typed[u][f])
          ELSE typed[u][f] <= page[u].pending[f]
      BY <1>4, <2>9, <3>1 DEF TextInv
    <3>3. CASE u = t /\ f = e
      <4>1. pg[u].pending[f] = 0 /\ typed[u][f] <= r.n
        BY <2>1, <2>2, <3>2, <3>3
      <4>2. IsText(r, u, pg[u].doc, f) /\ r.n >= typed[u][f]
        BY <2>2, <3>1, <3>3, <4>1 DEF IsText
      <4>. QED BY <1>1, <2>2, <2>3, <4>1, <4>2, AppendText
    <3>4. CASE u # t \/ f # e
      <4>1. pg[u].pending[f] = page[u].pending[f] /\ ~IsText(r, u, pg[u].doc, f)
        BY <1>3, <2>2, <3>1, <3>4 DEF IsText
      <4>. QED BY <1>1, <2>2, <2>3, <3>2, <4>1, AppendText
    <3>. QED BY <3>3, <3>4
  <2>10. ASSUME NEW u \in OwnTabs, OnlyScrolled(scrolled, u)
        PROVE  IF pg[u].scroll = Nothing THEN LastScroll(s, scrolled[u].on, scrolled[u].pos)
               ELSE Recording /\ pg[u].scroll = scrolled[u]
    <3>1. ~IsScrollOf(r, scrolled[u].on)
      BY <2>2 DEF IsScrollOf
    <3>2. u \in Tabs
      BY <1>1
    <3>3. IF pg[u].scroll = Nothing THEN LastScroll(trace, scrolled[u].on, scrolled[u].pos)
          ELSE Recording /\ pg[u].scroll = scrolled[u]
      BY <1>4, <2>10, <3>2 DEF ScrollInv
    <3>. QED BY <1>1, <2>2, <2>3, <3>1, <3>3, AppendLastScroll
  <2>11. \A u \in Tabs : scrolled[u] = Nothing => pg[u].scroll = Nothing
    BY <1>4 DEF ScrollInv
  <2>12. s \in Seq(Record)
    BY <1>1, <2>2, <2>3, AppendKeeps
  <2>. QED BY <2>6, <2>7, <2>8, <2>9, <2>10, <2>11, <2>12 DEF OrderInv, TextInv, ScrollInv
<1>. QED BY <1>6, <1>7

\* Functions on no and on one number are sequences.
LEMMA EmptyFunction == ASSUME NEW S, NEW d \in [1..0 -> S] PROVE d = <<>>
<1>1. d \in Seq(S)
  BY SeqDef
<1>2. DOMAIN d = 1..Len(d) /\ Len(d) \in Nat /\ DOMAIN d = {}
  BY <1>1, LenProperties
<1>3. Len(d) = 0
  BY <1>2
<1>. QED BY <1>1, <1>3, EmptySeq

LEMMA OneElement == ASSUME NEW S, NEW r \in S, NEW d, d = [i \in 1..1 |-> r] PROVE d = <<r>>
<1>1. d \in [1..1 -> S]
  OBVIOUS
<1>2. d \in Seq(S)
  BY <1>1, SeqDef
<1>3. DOMAIN d = 1..Len(d) /\ Len(d) \in Nat /\ DOMAIN d = 1..1
  BY <1>2, LenProperties
<1>4. Len(d) = 1
  BY <1>3
<1>5. <<r>> \in Seq(S) /\ Len(<<r>>) = 1 /\ <<r>>[1] = r
  OBVIOUS
<1>. QED BY <1>2, <1>4, <1>5, SeqEqual

\* A page holds back the text of the focused field only, so that to ask every
\* field is to leave that one.
LEMMA OneFieldIsHeld ==
    ASSUME CaptureInv, Recording, NEW t \in Tabs
    PROVE  InputsFlushed(trace, t, page[t]) = LeaveField(trace, t, page[t])
<1>. DEFINE p == page[t]
            H == {f \in Fields : p.pending[f] # 0}
            q == SetToSeq(H)
            d == [i \in DOMAIN q |-> Rec("input", t, q[i], p.pending[q[i]])]
<1>1. /\ trace \in Seq(Record) /\ p \in PageState /\ "none" \notin Fields
      /\ \A f \in Fields : p.pending[f] # 0 => p.focus = f
  BY CaptureAssumption DEF CaptureInv, CaptureTypeOK, PageState, PageInv
<1>2. InputsFlushed(trace, t, p) = trace \o d
  BY DEF InputsFlushed
<1>3. CASE p.focus = "none" \/ p.pending[p.focus] = 0
  <2>1. H = {}
    BY <1>1, <1>3
  <2>2. Cardinality(H) = 0
    BY <2>1, FS_EmptySet
  <2>3. q = CHOOSE f \in [1..0 -> {}] : IsInjective(f)
    BY <2>1, <2>2 DEF SetToSeq
  <2>4. [i \in 1..0 |-> i] \in [1..0 -> {}] /\ IsInjective([i \in 1..0 |-> i])
    BY DEF IsInjective
  <2>5. q \in [1..0 -> {}]
    BY <2>3, <2>4
  <2>6. d \in [1..0 -> Record]
    BY <2>5
  <2>. HIDE DEF d
  <2>7. d = <<>>
    BY <2>6, EmptyFunction
  <2>8. trace \o <<>> = trace
    BY <1>1, ConcatEmptySeq
  <2>9. LeaveField(trace, t, p) = trace
    BY <1>3 DEF LeaveField, InputFlushed
  <2>. QED BY <1>2, <2>7, <2>8, <2>9
<1>4. CASE p.focus # "none" /\ p.pending[p.focus] # 0
  <2>. DEFINE e == p.focus
              r == Rec("input", t, e, p.pending[e])
              one == [i \in 1..1 |-> e]
  <2>0. e \in Fields
    BY <1>1, <1>4 DEF PageState
  <2>1. H = {e}
    BY <1>1, <1>4, <2>0
  <2>2. Cardinality(H) = 1
    BY <2>1, FS_Singleton
  <2>3. q = CHOOSE f \in [1..1 -> {e}] : IsInjective(f)
    BY <2>1, <2>2 DEF SetToSeq
  <2>4. one \in [1..1 -> {e}] /\ IsInjective(one)
    BY DEF IsInjective
  <2>5. q \in [1..1 -> {e}]
    BY <2>3, <2>4
  <2>6. DOMAIN q = 1..1 /\ q[1] = e
    BY <2>5
  <2>7. d = [i \in 1..1 |-> r]
    BY <2>6
  <2>8. r \in Record
    BY <1>1, <2>0 DEF PageState, Rec, Record
  <2>. HIDE DEF d, r
  <2>9. d = <<r>>
    BY <2>7, <2>8, OneElement
  <2>10. Append(trace, r) = trace \o <<r>>
    BY <1>1, <2>8, AppendIsConcat
  <2>11. LeaveField(trace, t, p) = Append(trace, r)
    BY <1>4 DEF LeaveField, InputFlushed, Reported, Rec, r
  <2>. QED BY <1>2, <2>9, <2>10, <2>11
<1>. QED BY <1>3, <1>4

\* Pages pg2 are pages pg when that of tab t has reported its scroll
ScrollDropped(pg, pg2, t) ==
    /\ \A u \in Tabs : /\ pg2[u].doc = pg[u].doc
                       /\ \A f \in Fields : pg2[u].pending[f] = pg[u].pending[f]
    /\ \A u \in Tabs \ {t} : pg2[u].scroll = pg[u].scroll
    /\ pg2[t].scroll = Nothing

\* When a page reports the scroll it holds back, the trace ends with it.
ActiveInv(s, pg, g, ty, sc) ==
    s \in Seq(Record) /\ OrderInv(s, pg, g) /\ TextInv(s, pg, ty) /\ ScrollInv(s, pg, sc, Recording)

LEMMA ScrollFlushKeeps ==
    ASSUME Recording, CaptureTypeOK, NEW t \in Tabs, NEW s, NEW pg, NEW pg2, NEW g, NEW ty, NEW sc,
           ActiveInv(s, pg, g, ty, sc), pg[t].scroll = page[t].scroll, ScrollDropped(pg, pg2, t)
    PROVE  ActiveInv(ScrollFlushed(s, t, page[t]), pg2, g, ty, sc)
<1>. DEFINE p == page[t]
            r == Rec("scroll", t, p.scroll.on, p.scroll.pos)
            s2 == ScrollFlushed(s, t, p)
<1>. SUFFICES s2 \in Seq(Record) /\ OrderInv(s2, pg2, g) /\ TextInv(s2, pg2, ty) /\ ScrollInv(s2, pg2, sc, Recording)
  BY DEF ActiveInv
<1>. s \in Seq(Record) /\ OrderInv(s, pg, g) /\ TextInv(s, pg, ty) /\ ScrollInv(s, pg, sc, Recording)
  BY DEF ActiveInv
<1>0. \A i \in DOMAIN s : s[i] \in Record
  BY LenProperties, ElementOfSeq
<1>1. \A i \in DOMAIN s : s[i].tab \in Tabs
  BY <1>0, RecordKinds
<1>2. OrderInv(s, pg2, g)
  <2>1. Bounded(s, pg2, g)
    BY <1>1 DEF Bounded, OrderInv, ScrollDropped
  <2>. QED BY <2>1 DEF OrderInv, ScrollDropped
<1>3. TextInv(s, pg2, ty)
  BY CaptureAssumption DEF TextInv, ScrollDropped
<1>4. CASE p.scroll = Nothing
  <2>1. s2 = s
    BY <1>4 DEF ScrollFlushed
  <2>2. ScrollInv(s, pg2, sc, Recording)
    <3>1. \A u \in Tabs : pg2[u].scroll = pg[u].scroll
      BY <1>4 DEF ScrollDropped
    <3>. QED BY <3>1, CaptureAssumption DEF ScrollInv
  <2>. QED BY <1>2, <1>3, <2>1, <2>2
<1>5. CASE p.scroll # Nothing
  <2>1. p.scroll \in Scroll /\ p.doc \in Nat
    BY <1>5 DEF CaptureTypeOK
  <2>2. p.scroll.on \in Containers /\ p.scroll.pos \in Positions
    BY <2>1 DEF Scroll
  <2>3. r \in Record /\ r.kind = "scroll" /\ r.on = p.scroll.on /\ r.n = p.scroll.pos
    BY <2>1, <2>2 DEF Rec, Record
  <2>4. s2 = ScrollAppended(s, r)
    BY <1>5, <2>3 DEF ScrollFlushed, Reported
  <2>. HIDE DEF r, s2
  <2>5. /\ s2 \in Seq(Record)
        /\ InOrder(s2)
        /\ \A u, d, n : Before(s, u, d, n) => Before(s2, u, d, n)
        /\ Bounded(s2, pg2, g)
        /\ \A u, d, f, n : LastText(s, u, d, f, n) => LastText(s2, u, d, f, n)
        /\ LastScroll(s2, p.scroll.on, p.scroll.pos)
    BY <1>2, <2>3, <2>4, ScrollKeeps DEF OrderInv
  <2>6. OrderInv(s2, pg2, g)
    BY <1>2, <2>5 DEF OrderInv
  <2>7. TextInv(s2, pg2, ty)
    BY <1>3, <2>5 DEF TextInv
  <2>8. ASSUME NEW u \in OwnTabs, OnlyScrolled(sc, u)
        PROVE  IF pg2[u].scroll = Nothing THEN LastScroll(s2, sc[u].on, sc[u].pos)
               ELSE Recording /\ pg2[u].scroll = sc[u]
    <3>1. CASE u = t
      <4>1. pg[t].scroll = sc[t]
        BY <1>5, <2>8, <3>1 DEF ScrollInv
      <4>. QED BY <2>5, <3>1, <4>1, CaptureAssumption DEF ScrollDropped
    <3>2. CASE u # t
      <4>1. sc[t] = Nothing
        BY <2>8, <3>2 DEF OnlyScrolled
      <4>2. pg[t].scroll = Nothing
        BY <4>1 DEF ScrollInv
      <4>. QED BY <1>5, <4>2
    <3>. QED BY <3>1, <3>2
  <2>9. \A u \in Tabs : sc[u] = Nothing => pg2[u].scroll = Nothing
    BY DEF ScrollInv, ScrollDropped
  <2>. QED BY <2>5, <2>6, <2>7, <2>8, <2>9 DEF ScrollInv, s2
<1>. QED BY <1>4, <1>5

-----------------------------------------------------------------------------
(* The actions                                                               *)

LEMMA CaptureFacts ==
    ASSUME CaptureInv
    PROVE  /\ trace \in Seq(Record) /\ count.gestures \in Nat /\ count.gestures \in 0..MaxGestures
           /\ MaxGestures \in Nat /\ OwnTabs \subseteq Tabs /\ Attached \in OwnTabs /\ "none" \notin Fields
           /\ Nothing \notin Scroll /\ Past \notin Scroll /\ Nothing # Past
           /\ DOMAIN page = Tabs /\ DOMAIN typed = Tabs /\ DOMAIN scrolled = Tabs
           /\ \A t \in Tabs : /\ page[t] \in PageState
                              /\ typed[t] \in [Fields -> Nat]
                              /\ scrolled[t] \in Scroll \cup {Nothing, Past}
<1>1. Attached \in OwnTabs
  BY CaptureAssumption DEF Attached
<1>2. Nothing \notin Scroll /\ Past \notin Scroll /\ Nothing # Past
  BY CaptureAssumption DEF Nothing, Past, Scroll
<1>. QED BY <1>1, <1>2, CaptureAssumption DEF CaptureInv, CaptureTypeOK, PageState

\* A page after its field was left
LEMMA FocusedFacts ==
    ASSUME CaptureInv, NEW t \in Tabs, NEW f \in Fields \cup {"none"}
    PROVE  LET q == Focused(page[t], f) IN
           /\ q \in PageState /\ q.focus = f /\ q.doc = page[t].doc /\ q.scroll = page[t].scroll
           /\ q.url = page[t].url /\ \A e \in Fields : q.pending[e] = 0
<1>. DEFINE p == page[t]
            u == Unheld(p, p.focus)
<1>1. p \in PageState /\ "none" \notin Fields
  BY CaptureFacts
<1>2. \A e \in Fields : p.pending[e] # 0 => p.focus = e
  BY DEF CaptureInv, PageInv
<1>3. /\ u \in PageState /\ u.doc = p.doc /\ u.scroll = p.scroll /\ u.url = p.url
      /\ \A e \in Fields : u.pending[e] = 0
  <2>1. CASE p.focus = "none"
    <3>1. u = p /\ \A e \in Fields : p.pending[e] = 0
      BY <1>1, <1>2, <2>1 DEF Unheld
    <3>. QED BY <1>1, <3>1
  <2>2. CASE p.focus # "none"
    <3>. DEFINE h == [p.pending EXCEPT ![p.focus] = 0]
    <3>1. p.focus \in Fields /\ p.pending \in [Fields -> Nat]
      BY <1>1, <2>2 DEF PageState
    <3>2. h \in [Fields -> Nat] /\ \A e \in Fields : h[e] = 0
      BY <1>2, <3>1
    <3>3. u = [p EXCEPT !.pending = h]
      BY <2>2 DEF Unheld
    <3>. HIDE DEF h, u
    <3>. QED BY <1>1, <3>2, <3>3 DEF PageState
  <2>. QED BY <2>1, <2>2
<1>4. Focused(p, f) = [u EXCEPT !.focus = f]
  BY DEF Focused
<1>. HIDE DEF u
<1>. QED BY <1>3, <1>4 DEF PageState

\* While the recorder is not active, nothing is recorded.
LEMMA SilentLeave ==
    ASSUME ~Recording, NEW t, NEW p
    PROVE  LeaveField(trace, t, p) = trace
BY DEF LeaveField, InputFlushed, Reported

LEMMA TypeKeeps ==
    ASSUME CaptureInv, NEW t \in Tabs, NEW f \in Fields, Type(t, f)
    PROVE  CaptureInv'
<1>. DEFINE p == page[t]
            g == count.gestures
            q == IF p.focus = f THEN p ELSE Focused(p, f)
            h == [q.pending EXCEPT ![f] = g + 1]
            s == IF p.focus = f THEN trace ELSE LeaveField(trace, t, p)
<1>1. /\ trace \in Seq(Record) /\ g \in Nat /\ g \in 0..MaxGestures /\ MaxGestures \in Nat /\ p \in PageState
      /\ DOMAIN page = Tabs /\ DOMAIN typed = Tabs /\ OwnTabs \subseteq Tabs
      /\ \A u \in Tabs : page[u] \in PageState /\ typed[u] \in [Fields -> Nat]
  BY CaptureFacts
<1>2. /\ holder # "flushing" /\ g < MaxGestures /\ count' = [count EXCEPT !.gestures = g + 1]
      /\ trace' = s /\ page' = [page EXCEPT ![t] = [q EXCEPT !.pending[f] = g + 1]]
      /\ typed' = IF holder = "human" THEN [typed EXCEPT ![t][f] = g + 1] ELSE typed
      /\ scrolled' = scrolled /\ holder' = holder /\ unflushed' = unflushed /\ lastUrl' = lastUrl
  BY DEF Type, Gesture, Number, Steady
<1>3. /\ q \in PageState /\ q.focus = f /\ q.doc = p.doc /\ q.scroll = p.scroll
      /\ \A e \in Fields \ {f} : q.pending[e] = 0
  <2>1. CASE p.focus = f
    <3>1. \A e \in Fields : p.pending[e] # 0 => p.focus = e
      BY DEF CaptureInv, PageInv
    <3>. QED BY <1>1, <2>1, <3>1
  <2>2. CASE p.focus # f
    BY <2>2, FocusedFacts
  <2>. QED BY <2>1, <2>2
<1>4. h \in [Fields -> Nat] /\ h[f] = g + 1 /\ \A e \in Fields \ {f} : h[e] = 0
  BY <1>1, <1>3 DEF PageState
<1>5. page'[t] = [q EXCEPT !.pending = h] /\ \A u \in Tabs \ {t} : page'[u] = page[u]
  BY <1>1, <1>2
<1>. HIDE DEF q, h, s
<1>6. /\ page'[t] \in PageState /\ page'[t].focus = f /\ page'[t].doc = p.doc /\ page'[t].scroll = p.scroll
      /\ page'[t].pending = h
  BY <1>3, <1>4, <1>5 DEF PageState
<1>7. count'.gestures = g + 1 /\ g + 1 \in Nat /\ count' \in [gestures : 0..MaxGestures, takeOvers : 0..MaxTakeOvers]
  <2>1. count \in [gestures : 0..MaxGestures, takeOvers : 0..MaxTakeOvers]
    BY DEF CaptureInv, CaptureTypeOK
  <2>2. g + 1 \in 0..MaxGestures /\ g + 1 \in Nat
    BY <1>1, <1>2
  <2>. HIDE DEF g
  <2>. QED BY <1>2, <2>1, <2>2
<1>8. page' \in [Tabs -> PageState]
  <2>1. page' \in [Tabs -> PageState] <=> DOMAIN page' = Tabs /\ \A u \in Tabs : page'[u] \in PageState
    <3>1. page' = [u \in Tabs |-> page'[u]]
      BY <1>1, <1>2
    <3>. QED BY <3>1
  <2>2. DOMAIN page' = Tabs
    BY <1>1, <1>2
  <2>. QED BY <1>1, <1>5, <1>6, <2>1, <2>2
<1>9. PageInv(page', count'.gestures)
  <2>1. SUFFICES ASSUME NEW u \in Tabs, NEW e \in Fields, page'[u].pending[e] # 0
                 PROVE  page'[u].focus = e /\ page'[u].pending[e] <= g + 1
    BY <1>7 DEF PageInv
  <2>2. CASE u = t
    BY <1>1, <1>4, <1>6, <2>1, <2>2
  <2>3. CASE u # t
    <3>1. page'[u] = page[u] /\ page[u].focus = e /\ page[u].pending[e] <= g /\ page[u].pending[e] \in Nat
      BY <1>1, <1>5, <2>1, <2>3 DEF CaptureInv, PageInv, PageState
    <3>. QED BY <1>1, <3>1
  <2>. QED BY <2>2, <2>3
<1>10. \A u \in Tabs : /\ page'[u].doc = page[u].doc /\ page'[u].scroll = page[u].scroll
                       /\ page[u].doc \in Nat /\ page'[u].doc \in Nat
  BY <1>1, <1>5, <1>6 DEF PageState
<1>11. typed' \in [Tabs -> [Fields -> Nat]] /\ DOMAIN typed' = Tabs
  BY <1>1, <1>2, <1>7 DEF CaptureInv, CaptureTypeOK
<1>12. s \in Seq(Record) /\ OrderInv(s, page', g + 1)
  <2>1. ASSUME NEW s2 \in Seq(Record), NEW pg, OrderInv(s2, pg, g),
               \A u \in Tabs : pg[u].doc = page[u].doc,
               \A u \in Tabs \ {t}, e \in Fields : pg[u].pending[e] = page[u].pending[e]
        PROVE  OrderInv(s2, page', g + 1)
    <3>1. \A u \in Tabs : pg[u].doc \in Nat /\ page'[u].doc \in Nat /\ pg[u].doc <= page'[u].doc
      BY <1>10, <2>1
    <3>2. ASSUME NEW u \in Tabs, NEW e \in Fields
          PROVE  \/ page'[u].pending[e] = 0
                 \/ page'[u].pending[e] = g + 1
                 \/ page'[u].pending[e] = pg[u].pending[e] /\ page'[u].doc = pg[u].doc
      <4>1. CASE u = t
        BY <1>4, <1>6, <4>1
      <4>2. CASE u # t
        BY <1>5, <2>1, <4>2
      <4>. QED BY <4>1, <4>2
    <3>3. PICK pg2, k : pg2 = page' /\ k = g
      OBVIOUS
    <3>4. k \in Nat /\ k + 1 \in Nat /\ k <= k + 1
      BY <1>1, <3>3
    <3>5. OrderInv(s2, pg2, k + 1)
      <4>1. \A u \in Tabs : pg[u].doc \in Nat /\ pg2[u].doc \in Nat /\ pg[u].doc <= pg2[u].doc
        BY <3>1, <3>3
      <4>2. \A u \in Tabs, e \in Fields :
                 \/ pg2[u].pending[e] = 0
                 \/ pg2[u].pending[e] = k + 1
                 \/ pg2[u].pending[e] = pg[u].pending[e] /\ pg2[u].doc = pg[u].doc
        BY <3>2, <3>3
      <4>3. OrderInv(s2, pg, k)
        BY <2>1, <3>3
      <4>. QED BY <2>1, <3>4, <4>1, <4>2, <4>3, OrderWeakens
    <3>. QED BY <3>3, <3>5
  <2>2. CASE s = trace
    <3>1. OrderInv(trace, page, g)
      BY DEF CaptureInv
    <3>. QED BY <1>1, <2>1, <2>2, <3>1
  <2>3. CASE s # trace
    <3>1. Recording /\ s = LeaveField(trace, t, p)
      BY <2>3, SilentLeave DEF s
    <3>2. PICK pg : pg = [page EXCEPT ![t] = Focused(p, f)]
      OBVIOUS
    <3>3. pg[t] = Focused(p, f) /\ \A u \in Tabs \ {t} : pg[u] = page[u]
      BY <1>1, <3>2
    <3>4. pg[t].doc = p.doc /\ pg[t].scroll = p.scroll /\ \A e \in Fields : pg[t].pending[e] = 0
      BY <3>3, FocusedFacts
    <3>5. \A u \in Tabs : pg[u].doc = page[u].doc /\ pg[u].scroll = page[u].scroll
      BY <3>3, <3>4
    <3>6. s \in Seq(Record) /\ OrderInv(s, pg, g)
      BY <3>1, <3>3, <3>4, <3>5, LeaveKeeps
    <3>. QED BY <2>1, <3>3, <3>5, <3>6
  <2>. QED BY <1>1, <2>2, <2>3
<1>13. IF Recording THEN TextInv(s, page', typed') ELSE TextDone(s, page', typed')
  <2>1. CASE ~Recording
    <3>1. s = trace /\ typed' = typed
      BY <1>2, <2>1, SilentLeave DEF s, Recording
    <3>2. TextDone(trace, page, typed)
      BY <2>1 DEF CaptureInv
    <3>. QED BY <1>1, <1>10, <2>1, <3>1, <3>2 DEF TextDone
  <2>2. CASE Recording
    <3>1. holder = "human"
      BY <1>2, <2>2 DEF CaptureInv, CaptureTypeOK, Recording
    <3>2. typed'[t][f] = g + 1 /\ \A u \in Tabs, e \in Fields : u # t \/ e # f => typed'[u][e] = typed[u][e]
      BY <1>1, <1>2, <3>1
    <3>3. ASSUME NEW u \in OwnTabs, NEW e \in Fields, typed'[u][e] # 0
          PROVE  IF page'[u].pending[e] = 0 THEN LastText(s, u, page'[u].doc, e, typed'[u][e])
                 ELSE typed'[u][e] <= page'[u].pending[e]
      <4>0. u \in Tabs
        BY <1>1
      <4>1. CASE u = t /\ e = f
        <5>1. page'[u].pending[e] = g + 1 /\ typed'[u][e] = g + 1
          BY <1>4, <1>6, <3>2, <4>1
        <5>2. g + 1 # 0 /\ g + 1 <= g + 1
          BY <1>1
        <5>. QED BY <5>1, <5>2
      <4>2. CASE u # t \/ e # f
        <5>1. typed'[u][e] = typed[u][e] /\ typed[u][e] # 0 /\ page'[u].doc = page[u].doc
          BY <1>10, <3>2, <3>3, <4>0, <4>2
        <5>2. CASE p.focus = f
          <6>1. s = trace
            BY <5>2 DEF s
          <6>0. \A d \in Fields : p.pending[d] # 0 => p.focus = d
            BY DEF CaptureInv, PageInv
          <6>2. page'[u].pending[e] = page[u].pending[e]
            <7>1. CASE u = t
              BY <1>4, <1>6, <4>2, <5>2, <6>0, <7>1
            <7>2. CASE u # t
              BY <1>5, <4>0, <7>2
            <7>. QED BY <7>1, <7>2
          <6>. QED BY <2>2, <5>1, <6>1, <6>2 DEF CaptureInv, TextInv
        <5>3. CASE p.focus # f
          <6>1. s = LeaveField(trace, t, p)
            BY <5>3 DEF s
          <6>2. PICK pg : pg = [page EXCEPT ![t] = Focused(p, f)]
            OBVIOUS
          <6>3. pg[t] = Focused(p, f) /\ \A v \in Tabs \ {t} : pg[v] = page[v]
            BY <1>1, <6>2
          <6>4. pg[t].doc = p.doc /\ pg[t].scroll = p.scroll /\ \A d \in Fields : pg[t].pending[d] = 0
            BY <6>3, FocusedFacts
          <6>5. \A v \in Tabs : pg[v].doc = page[v].doc /\ pg[v].scroll = page[v].scroll
            BY <6>3, <6>4
          <6>6. TextInv(s, pg, typed)
            BY <2>2, <6>1, <6>3, <6>4, <6>5, LeaveKeeps
          <6>7. page'[u].pending[e] = pg[u].pending[e]
            BY <1>4, <1>5, <1>6, <4>0, <4>2, <6>3, <6>4
          <6>. QED BY <4>0, <5>1, <6>5, <6>6, <6>7 DEF TextInv
        <5>. QED BY <5>2, <5>3
      <4>. QED BY <4>1, <4>2
    <3>. QED BY <2>2, <3>3 DEF TextInv
  <2>. QED BY <2>1, <2>2
<1>14. ScrollInv(s, page', scrolled, Recording)
  <2>1. CASE s = trace
    <3>1. ScrollInv(trace, page, scrolled, Recording)
      BY DEF CaptureInv
    <3>. QED BY <1>1, <1>10, <2>1, <3>1 DEF ScrollInv
  <2>2. CASE s # trace
    <3>1. Recording /\ s = LeaveField(trace, t, p)
      BY <2>2, SilentLeave DEF s
    <3>2. PICK pg : pg = [page EXCEPT ![t] = Focused(p, f)]
      OBVIOUS
    <3>3. pg[t] = Focused(p, f) /\ \A u \in Tabs \ {t} : pg[u] = page[u]
      BY <1>1, <3>2
    <3>4. pg[t].doc = p.doc /\ pg[t].scroll = p.scroll /\ \A e \in Fields : pg[t].pending[e] = 0
      BY <3>3, FocusedFacts
    <3>5. \A u \in Tabs : pg[u].doc = page[u].doc /\ pg[u].scroll = page[u].scroll
      BY <3>3, <3>4
    <3>6. ScrollInv(s, pg, scrolled, Recording)
      BY <3>1, <3>3, <3>4, <3>5, LeaveKeeps
    <3>. QED BY <1>1, <1>10, <3>5, <3>6 DEF ScrollInv
  <2>. QED BY <2>1, <2>2
<1>15. CaptureTypeOK'
  <2>1. CaptureTypeOK
    BY DEF CaptureInv
  <2>. QED BY <1>2, <1>7, <1>8, <1>11, <1>12, <2>1 DEF CaptureTypeOK, PageState
<1>16. Recording' = Recording
  BY <1>2 DEF Recording
<1>. QED BY <1>2, <1>7, <1>9, <1>12, <1>13, <1>14, <1>15, <1>16 DEF CaptureInv

\* A click and a key leave the field, and are then recorded.
LEMMA GestureKeeps ==
    ASSUME CaptureInv, NEW t \in Tabs, NEW k \in {"click", "keys"}, NEW o \in Fields \cup {"other"}, NEW q \in PageState,
           Gesture, holder = "human",
           trace' = Reported(LeaveField(trace, t, page[t]), Rec(k, t, o, Number)),
           page' = [page EXCEPT ![t] = q],
           q.doc = page[t].doc, q.scroll = page[t].scroll, \A f \in Fields : q.pending[f] = 0,
           UNCHANGED <<typed, scrolled>>, Steady
    PROVE  CaptureInv'
<1>. DEFINE g == count.gestures
            s == LeaveField(trace, t, page[t])
            r == Rec(k, t, o, g + 1)
<1>1. /\ g \in Nat /\ g \in 0..MaxGestures /\ MaxGestures \in Nat
      /\ DOMAIN page = Tabs /\ OwnTabs \subseteq Tabs
      /\ \A u \in Tabs : page[u] \in PageState
  BY CaptureFacts
<1>2. /\ g < MaxGestures /\ count' = [count EXCEPT !.gestures = g + 1] /\ Recording /\ Recording' = Recording
      /\ typed' = typed /\ scrolled' = scrolled /\ holder' = holder /\ unflushed' = unflushed /\ lastUrl' = lastUrl
  BY DEF Gesture, Number, Steady, Recording
<1>3. page'[t] = q /\ \A u \in Tabs \ {t} : page'[u] = page[u]
  BY <1>1
<1>4. page' \in [Tabs -> PageState]
  BY <1>1
<1>5. \A u \in Tabs : page'[u].doc = page[u].doc /\ page'[u].scroll = page[u].scroll /\ page'[u].doc \in Nat
  BY <1>1, <1>3 DEF PageState
<1>6. s \in Seq(Record) /\ OrderInv(s, page', g) /\ TextInv(s, page', typed) /\ ScrollInv(s, page', scrolled, Recording)
  <2>1. PICK pg : pg = page'
    OBVIOUS
  <2>2. /\ \A u \in Tabs : pg[u].doc = page[u].doc /\ pg[u].scroll = page[u].scroll
        /\ \A u \in Tabs \ {t}, f \in Fields : pg[u].pending[f] = page[u].pending[f]
        /\ \A f \in Fields : pg[t].pending[f] = 0
    BY <1>3, <1>5, <2>1
  <2>3. /\ s \in Seq(Record) /\ OrderInv(s, pg, count.gestures)
        /\ TextInv(s, pg, typed) /\ ScrollInv(s, pg, scrolled, Recording)
    BY <1>2, <2>2, LeaveKeeps
  <2>. QED BY <2>1, <2>3
<1>7. r \in Record /\ r.kind = k /\ r.n = g + 1 /\ r.tab = t /\ r.doc = page'[t].doc
  BY <1>1, <1>5 DEF Rec, Record, PageState
<1>8. trace' = Append(s, r)
  BY <1>2, <1>7 DEF Reported, Number
<1>9. /\ trace' \in Seq(Record) /\ OrderInv(trace', page', g + 1)
      /\ TextInv(trace', page', typed) /\ ScrollInv(trace', page', scrolled, Recording)
  <2>. HIDE DEF g, s, r
  <2>1. PICK pg : pg = page'
    OBVIOUS
  <2>2. /\ \A f \in Fields : pg[r.tab].pending[f] = 0
        /\ \A u \in Tabs : pg[u].doc \in Nat
        /\ r.kind \in {"click", "keys"} /\ r.n = g + 1 /\ r.doc = pg[r.tab].doc
        /\ s \in Seq(Record) /\ OrderInv(s, pg, g) /\ TextInv(s, pg, typed) /\ ScrollInv(s, pg, scrolled, Recording)
    BY <1>3, <1>5, <1>6, <1>7, <2>1
  <2>3. /\ Append(s, r) \in Seq(Record) /\ OrderInv(Append(s, r), pg, g + 1)
        /\ TextInv(Append(s, r), pg, typed) /\ ScrollInv(Append(s, r), pg, scrolled, Recording)
    BY <1>1, <1>7, <2>2, GestureAppended
  <2>. QED BY <1>8, <2>1, <2>3
<1>10. count'.gestures = g + 1 /\ count' \in [gestures : 0..MaxGestures, takeOvers : 0..MaxTakeOvers]
  <2>1. count \in [gestures : 0..MaxGestures, takeOvers : 0..MaxTakeOvers]
    BY DEF CaptureInv, CaptureTypeOK
  <2>2. g + 1 \in 0..MaxGestures
    BY <1>1, <1>2
  <2>. HIDE DEF g
  <2>. QED BY <1>2, <2>1, <2>2
<1>11. PageInv(page', g + 1)
  <2>1. SUFFICES ASSUME NEW u \in Tabs, NEW e \in Fields, page'[u].pending[e] # 0
                 PROVE  page'[u].focus = e /\ page'[u].pending[e] <= g + 1
    BY DEF PageInv
  <2>2. page'[u] = page[u]
    BY <1>3, <2>1
  <2>3. page[u].focus = e /\ page[u].pending[e] <= g /\ page[u].pending[e] \in Nat
    BY <1>1, <2>1, <2>2 DEF CaptureInv, PageInv, PageState
  <2>. QED BY <1>1, <2>2, <2>3
<1>12. CaptureTypeOK'
  <2>1. CaptureTypeOK
    BY DEF CaptureInv
  <2>. QED BY <1>2, <1>4, <1>9, <1>10, <2>1 DEF CaptureTypeOK, PageState
<1>13. holder' # "flushing" /\ unflushed' = {}
  BY <1>2 DEF CaptureInv
<1>. QED BY <1>2, <1>9, <1>10, <1>11, <1>12, <1>13 DEF CaptureInv

LEMMA ClickKeeps == ASSUME CaptureInv, NEW t \in Tabs, Click(t) PROVE CaptureInv'
<1>1. /\ Focused(page[t], "none") \in PageState
      /\ Focused(page[t], "none").doc = page[t].doc /\ Focused(page[t], "none").scroll = page[t].scroll
      /\ \A e \in Fields : Focused(page[t], "none").pending[e] = 0
  BY FocusedFacts
<1>2. page' = [page EXCEPT ![t] = Focused(page[t], "none")]
  BY DEF Click
<1>. QED BY <1>1, <1>2, GestureKeeps DEF Click

LEMMA PressKeyKeeps == ASSUME CaptureInv, NEW t \in Tabs, PressKey(t) PROVE CaptureInv'
<1>. DEFINE e == page[t].focus
            q == Unheld(page[t], e)
            f == Focused(page[t], e)
<1>1. e \in Fields /\ page[t] \in PageState
  BY CaptureFacts DEF PressKey, PageState
<1>2. /\ f \in PageState
      /\ f.doc = page[t].doc /\ f.scroll = page[t].scroll
      /\ \A d \in Fields : f.pending[d] = 0
  BY <1>1, FocusedFacts
<1>3. q = f
  <2>1. q \in PageState /\ q.focus = e
    BY <1>1 DEF Unheld, PageState
  <2>2. f = [q EXCEPT !.focus = e]
    BY DEF Focused
  <2>. HIDE DEF q, f
  <2>. QED BY <2>1, <2>2 DEF PageState
<1>4. page' = [page EXCEPT ![t] = q]
  BY DEF PressKey
<1>. HIDE DEF q, f
<1>. QED BY <1>1, <1>2, <1>3, <1>4, GestureKeeps DEF PressKey

LEMMA ScrollToKeeps ==
    ASSUME CaptureInv, NEW t \in Tabs, NEW c \in Containers, NEW x \in Positions, ScrollTo(t, c, x)
    PROVE  CaptureInv'
<1>. DEFINE g == count.gestures
            n == [on |-> c, pos |-> x]
<1>1. /\ trace \in Seq(Record) /\ g \in Nat /\ g \in 0..MaxGestures /\ MaxGestures \in Nat
      /\ DOMAIN page = Tabs /\ DOMAIN scrolled = Tabs /\ OwnTabs \subseteq Tabs /\ Nothing \notin Scroll
      /\ \A u \in Tabs : page[u] \in PageState
      /\ CaptureTypeOK
  BY CaptureFacts DEF CaptureInv
<1>2. /\ g < MaxGestures /\ count' = [count EXCEPT !.gestures = g + 1] /\ Recording /\ Recording' = Recording
      /\ page' = [page EXCEPT ![t].scroll = n] /\ scrolled' = [scrolled EXCEPT ![t] = n]
      /\ trace' = trace
      /\ typed' = typed /\ holder' = holder /\ unflushed' = unflushed /\ lastUrl' = lastUrl /\ holder = "human"
  BY DEF ScrollTo, Gesture, Number, Steady, Recording
<1>3. n \in Scroll /\ n # Nothing
  BY <1>1 DEF Scroll
<1>. HIDE DEF n
<1>4. /\ \A u \in Tabs \ {t} : page'[u] = page[u] /\ scrolled'[u] = scrolled[u]
      /\ page'[t] = [page[t] EXCEPT !.scroll = n] /\ scrolled'[t] = n
  BY <1>1, <1>2
<1>5. /\ page'[t] \in PageState /\ page'[t].scroll = n
      /\ \A u \in Tabs : page'[u].doc = page[u].doc /\ page'[u].focus = page[u].focus
                         /\ page'[u].pending = page[u].pending /\ page[u].doc \in Nat
  <2>1. /\ page'[t] \in PageState /\ page'[t].scroll = n /\ page'[t].doc = page[t].doc
        /\ page'[t].focus = page[t].focus /\ page'[t].pending = page[t].pending
    <3>1. PICK p, q : p = page[t] /\ q = page'[t]
      OBVIOUS
    <3>2. p \in PageState /\ q = [p EXCEPT !.scroll = n]
      BY <1>1, <1>4, <3>1
    <3>3. /\ q \in PageState /\ q.scroll = n /\ q.doc = p.doc
          /\ q.focus = p.focus /\ q.pending = p.pending
      BY <1>3, <3>2 DEF PageState
    <3>. QED BY <3>1, <3>3
  <2>2. \A u \in Tabs : page[u].doc \in Nat
    BY <1>1 DEF PageState
  <2>. QED BY <1>4, <2>1, <2>2
<1>6. page' \in [Tabs -> PageState]
  <2>1. DOMAIN page' = Tabs /\ page' = [u \in Tabs |-> page'[u]]
    BY <1>1, <1>2
  <2>2. \A u \in Tabs : page'[u] \in PageState
    BY <1>1, <1>4, <1>5
  <2>. QED BY <2>1, <2>2
<1>7. scrolled' \in [Tabs -> Scroll \cup {Nothing, Past}]
  BY <1>1, <1>2, <1>3 DEF CaptureTypeOK
<1>8. g + 1 \in Nat /\ g + 1 \in 0..MaxGestures /\ g <= g + 1
  BY <1>1, <1>2
<1>9. count'.gestures = g + 1 /\ count' \in [gestures : 0..MaxGestures, takeOvers : 0..MaxTakeOvers]
  <2>. HIDE DEF g
  <2>. QED BY <1>1, <1>2, <1>8 DEF CaptureTypeOK
<1>10. CaptureTypeOK'
  BY <1>1, <1>2, <1>6, <1>7, <1>9 DEF CaptureTypeOK, PageState
<1>11. PageInv(page', g + 1)
  <2>1. SUFFICES ASSUME NEW u \in Tabs, NEW e \in Fields, page'[u].pending[e] # 0
                 PROVE  page'[u].focus = e /\ page'[u].pending[e] <= g + 1
    BY DEF PageInv
  <2>2. page'[u].pending = page[u].pending /\ page'[u].focus = page[u].focus
    BY <1>5
  <2>3. page[u].focus = e /\ page[u].pending[e] <= g /\ page[u].pending[e] \in Nat
    BY <1>1, <2>1, <2>2 DEF CaptureInv, PageInv, PageState
  <2>. QED BY <1>1, <2>2, <2>3
<1>12. OrderInv(trace, page', g + 1)
  <2>1. PICK pg : pg = page'
    OBVIOUS
  <2>2. OrderInv(trace, page, g)
    BY DEF CaptureInv
  <2>. HIDE DEF g
  <2>3. \A u \in Tabs : page[u].doc \in Nat /\ pg[u].doc \in Nat /\ page[u].doc <= pg[u].doc
    BY <1>5, <2>1
  <2>4. OrderInv(trace, pg, g + 1)
    BY <1>1, <1>5, <1>8, <2>1, <2>2, <2>3, OrderWeakens
  <2>. QED BY <2>1, <2>4
<1>13. TextInv(trace, page', typed)
  BY <1>1, <1>2, <1>5 DEF CaptureInv, TextInv
<1>14. ScrollInv(trace, page', scrolled', Recording)
  <2>1. ASSUME NEW u \in Tabs, scrolled'[u] = Nothing PROVE page'[u].scroll = Nothing
    <3>1. u # t
      BY <1>3, <1>4, <2>1
    <3>. QED BY <1>4, <2>1, <3>1 DEF CaptureInv, ScrollInv
  <2>2. ASSUME NEW u \in OwnTabs, OnlyScrolled(scrolled', u)
        PROVE  page'[u].scroll # Nothing /\ page'[u].scroll = scrolled'[u]
    <3>1. u = t
      BY <1>1, <1>3, <1>4, <2>2 DEF OnlyScrolled
    <3>. QED BY <1>3, <1>4, <1>5, <3>1
  <2>. QED BY <1>2, <2>1, <2>2 DEF ScrollInv
<1>15. holder' # "flushing" /\ unflushed' = {}
  BY <1>2 DEF CaptureInv
<1>. QED BY <1>2, <1>9, <1>10, <1>11, <1>12, <1>13, <1>14, <1>15 DEF CaptureInv

\* Pages that agree with the old ones but for what tab t holds back
LEMMA UnheldPages ==
    ASSUME CaptureInv, NEW t \in Tabs, NEW pg,
           pg[t].doc = page[t].doc, pg[t].focus = page[t].focus,
           \A f \in Fields : pg[t].pending[f] = 0 \/ pg[t].pending[f] = page[t].pending[f],
           \A u \in Tabs \ {t} : pg[u] = page[u]
    PROVE  /\ PageInv(pg, count.gestures)
           /\ \A u \in Tabs : pg[u].doc = page[u].doc /\ page[u].doc \in Nat
<1>1. \A u \in Tabs : page[u] \in PageState
  BY CaptureFacts
<1>2. \A u \in Tabs : pg[u].doc = page[u].doc /\ page[u].doc \in Nat
  BY <1>1 DEF PageState
<1>3. PageInv(pg, count.gestures)
  <2>1. SUFFICES ASSUME NEW u \in Tabs, NEW e \in Fields, pg[u].pending[e] # 0
                 PROVE  pg[u].focus = e /\ pg[u].pending[e] <= count.gestures
    BY DEF PageInv
  <2>2. pg[u].pending[e] = page[u].pending[e] /\ pg[u].focus = page[u].focus
    BY <2>1
  <2>. QED BY <2>1, <2>2 DEF CaptureInv, PageInv
<1>. QED BY <1>2, <1>3

LEMMA ScrollStopsKeeps == ASSUME CaptureInv, NEW t \in Tabs, ScrollStops(t) PROVE CaptureInv'
<1>. DEFINE g == count.gestures
            q == [page[t] EXCEPT !.scroll = Nothing]
            s == ScrollFlushed(trace, t, page[t])
<1>1. /\ trace \in Seq(Record) /\ g \in Nat /\ OwnTabs \subseteq Tabs /\ CaptureTypeOK
      /\ page[t] \in PageState /\ page[t].scroll # Nothing
      /\ trace' = s /\ page' = [page EXCEPT ![t] = q]
      /\ typed' = typed /\ scrolled' = scrolled /\ count' = count
      /\ holder' = holder /\ unflushed' = unflushed /\ lastUrl' = lastUrl
      /\ Recording' = Recording
  BY CaptureFacts DEF ScrollStops, Steady, Recording, CaptureInv
<1>2. /\ q \in PageState /\ q.doc = page[t].doc /\ q.focus = page[t].focus /\ q.pending = page[t].pending
      /\ q.scroll = Nothing
  BY <1>1 DEF PageState
<1>. HIDE DEF q, s
<1>3. PICK pg : pg = page'
  OBVIOUS
<1>4. /\ pg \in [Tabs -> PageState] /\ PageInv(pg, g)
      /\ pg[t] = q /\ \A u \in Tabs \ {t} : pg[u] = page[u]
      /\ \A u \in Tabs : pg[u].doc = page[u].doc /\ page[u].doc \in Nat
  <2>1. pg \in [Tabs -> PageState] /\ pg[t] = q /\ \A u \in Tabs \ {t} : pg[u] = page[u]
    BY <1>1, <1>2, <1>3 DEF CaptureTypeOK, PageState
  <2>2. /\ pg[t].doc = page[t].doc /\ pg[t].focus = page[t].focus
        /\ \A f \in Fields : pg[t].pending[f] = page[t].pending[f]
    BY <1>2, <2>1
  <2>. QED BY <2>1, <2>2, UnheldPages
<1>5. \A u \in Tabs : pg[u].doc = page[u].doc /\ \A f \in Fields : pg[u].pending[f] = page[u].pending[f]
  BY <1>2, <1>4
<1>8. /\ s \in Seq(Record) /\ OrderInv(s, pg, g) /\ ScrollInv(s, pg, scrolled, Recording)
      /\ IF Recording THEN TextInv(s, pg, typed) ELSE TextDone(s, pg, typed)
  <2>6. CASE Recording
    <3>1. /\ OrderInv(trace, page, g) /\ TextInv(trace, page, typed) /\ ScrollInv(trace, page, scrolled, Recording)
      BY <2>6 DEF CaptureInv, ScrollInv
    <3>2. \A u \in Tabs \ {t} : pg[u].scroll = page[u].scroll
      BY <1>4
    <3>3. pg[t].scroll = Nothing
      BY <1>2, <1>4
    <3>4. s \in Seq(Record) /\ OrderInv(s, pg, g) /\ TextInv(s, pg, typed) /\ ScrollInv(s, pg, scrolled, Recording)
      <4>1. ActiveInv(trace, page, g, typed, scrolled)
        BY <1>1, <3>1 DEF ActiveInv
      <4>2. ScrollDropped(page, pg, t)
        BY <1>5, <3>2, <3>3 DEF ScrollDropped
      <4>3. ActiveInv(s, pg, g, typed, scrolled)
        BY <1>1, <2>6, <4>1, <4>2, ScrollFlushKeeps DEF s
      <4>. QED BY <4>3 DEF ActiveInv
    <3>5. s \in Seq(Record) /\ OrderInv(s, pg, g) /\ TextInv(s, pg, typed) /\ ScrollInv(s, pg, scrolled, Recording)
      BY <2>6, <3>4 DEF ScrollInv
    <3>. QED BY <2>6, <3>5
  <2>7. CASE ~Recording
    <3>1. s = trace
      BY <2>7 DEF s, ScrollFlushed, Reported
    <3>2. OrderInv(trace, pg, g)
      <4>1. OrderInv(trace, page, g)
        BY DEF CaptureInv
      <4>2. g <= g
        BY <1>1
      <4>. HIDE DEF g
      <4>3. \A u \in Tabs : page[u].doc \in Nat /\ pg[u].doc \in Nat /\ page[u].doc <= pg[u].doc
        BY <1>4
      <4>. QED BY <1>1, <1>5, <4>1, <4>2, <4>3, OrderWeakens
    <3>3. TextDone(trace, pg, typed)
      BY <1>1, <1>4, <2>7 DEF CaptureInv, TextDone
    <3>4. ScrollInv(trace, pg, scrolled, Recording)
      <4>1. ASSUME NEW u \in Tabs, scrolled[u] = Nothing PROVE pg[u].scroll = Nothing
        BY <1>2, <1>4, <4>1 DEF CaptureInv, ScrollInv
      <4>2. ASSUME NEW u \in OwnTabs, OnlyScrolled(scrolled, u)
            PROVE  pg[u].scroll = Nothing /\ LastScroll(trace, scrolled[u].on, scrolled[u].pos)
        <5>1. page[u].scroll = Nothing /\ LastScroll(trace, scrolled[u].on, scrolled[u].pos)
          BY <2>7, <4>2 DEF CaptureInv, ScrollInv
        <5>. QED BY <1>1, <1>2, <1>4, <5>1
      <4>. QED BY <4>1, <4>2 DEF ScrollInv
    <3>. QED BY <1>1, <2>7, <3>1, <3>2, <3>3, <3>4
  <2>. QED BY <2>6, <2>7
<1>9. CaptureTypeOK'
  BY <1>1, <1>3, <1>4, <1>8 DEF CaptureTypeOK, PageState
<1>10. holder = "flushing" => \A u \in OwnTabs \ unflushed :
         pg[u].scroll = Nothing /\ \A f \in Fields : pg[u].pending[f] = 0
  <2>1. ASSUME holder = "flushing", NEW u \in OwnTabs \ unflushed
        PROVE  pg[u].scroll = Nothing /\ \A f \in Fields : pg[u].pending[f] = 0
    <3>1. page[u].scroll = Nothing /\ \A f \in Fields : page[u].pending[f] = 0
      BY <2>1 DEF CaptureInv
    <3>. QED BY <1>1, <1>2, <1>4, <1>5, <3>1
  <2>. QED BY <2>1
<1>11. holder # "flushing" => unflushed = {}
  BY DEF CaptureInv
<1>. QED BY <1>1, <1>3, <1>4, <1>8, <1>9, <1>10, <1>11 DEF CaptureInv

LEMMA FlushPageKeeps == ASSUME CaptureInv, NEW t \in Tabs, FlushPage(t) PROVE CaptureInv'
<1>. DEFINE g == count.gestures
            z == [f \in Fields |-> 0]
            q1 == [page[t] EXCEPT !.pending = z]
            q == [page[t] EXCEPT !.pending = z, !.scroll = Nothing]
            s1 == InputsFlushed(trace, t, page[t])
            s == AllFlushed(trace, t, page[t])
<1>1. /\ trace \in Seq(Record) /\ g \in Nat /\ OwnTabs \subseteq Tabs /\ CaptureTypeOK
      /\ page[t] \in PageState /\ t \in OwnTabs
      /\ unflushed' = unflushed \ {t}
      /\ trace' = s /\ page' = [page EXCEPT ![t] = q]
      /\ typed' = typed /\ scrolled' = scrolled /\ count' = count
      /\ holder' = holder /\ lastUrl' = lastUrl
      /\ Recording' = Recording /\ holder = "flushing" /\ Recording
  BY CaptureFacts DEF FlushPage, Recording, CaptureInv, CaptureTypeOK
<1>2. z \in [Fields -> Nat] /\ \A f \in Fields : z[f] = 0
  OBVIOUS
<1>3. /\ q \in PageState /\ q.doc = page[t].doc /\ q.focus = page[t].focus /\ q.pending = z /\ q.scroll = Nothing
      /\ q1 \in PageState /\ q1.doc = page[t].doc /\ q1.focus = page[t].focus /\ q1.pending = z
      /\ q1.scroll = page[t].scroll
  <2>. HIDE DEF z
  <2>. QED BY <1>1, <1>2 DEF PageState
<1>. HIDE DEF q, q1, z
<1>4. PICK pg, pg2 : pg = [page EXCEPT ![t] = q1] /\ pg2 = page'
  OBVIOUS
<1>5. /\ pg2 \in [Tabs -> PageState] /\ PageInv(pg2, g)
      /\ pg2[t] = q /\ \A u \in Tabs \ {t} : pg2[u] = page[u]
  <2>1. pg2 \in [Tabs -> PageState] /\ pg2[t] = q /\ \A u \in Tabs \ {t} : pg2[u] = page[u]
    BY <1>1, <1>3, <1>4 DEF CaptureTypeOK, PageState
  <2>2. /\ pg2[t].doc = page[t].doc /\ pg2[t].focus = page[t].focus
        /\ \A f \in Fields : pg2[t].pending[f] = 0
    BY <1>2, <1>3, <2>1
  <2>. QED BY <2>1, <2>2, UnheldPages
<1>6. /\ pg[t] = q1 /\ \A u \in Tabs \ {t} : pg[u] = page[u]
      /\ \A u \in Tabs : pg[u].doc = page[u].doc /\ page[u].doc \in Nat
  <2>1. pg[t] = q1 /\ \A u \in Tabs \ {t} : pg[u] = page[u]
    BY <1>1, <1>4 DEF CaptureTypeOK
  <2>2. /\ pg[t].doc = page[t].doc /\ pg[t].focus = page[t].focus
        /\ \A f \in Fields : pg[t].pending[f] = 0
    BY <1>2, <1>3, <2>1
  <2>. QED BY <2>1, <2>2, UnheldPages
<1>7. /\ s1 \in Seq(Record) /\ OrderInv(s1, pg, g)
      /\ TextInv(s1, pg, typed) /\ ScrollInv(s1, pg, scrolled, Recording)
  <2>1. s1 = LeaveField(trace, t, page[t])
    BY <1>1, OneFieldIsHeld
  <2>2. \A u \in Tabs : pg[u].doc = page[u].doc /\ pg[u].scroll = page[u].scroll
    BY <1>3, <1>6
  <2>3. \A f \in Fields : pg[t].pending[f] = 0
    BY <1>2, <1>3, <1>6
  <2>4. /\ s1 \in Seq(Record) /\ OrderInv(s1, pg, count.gestures)
        /\ TextInv(s1, pg, typed) /\ ScrollInv(s1, pg, scrolled, Recording)
    BY <1>1, <1>6, <2>1, <2>2, <2>3, LeaveKeeps
  <2>5. ScrollInv(s1, pg, scrolled, Recording)
    BY <1>1, <2>4 DEF ScrollInv
  <2>. QED BY <2>4, <2>5
<1>8. s = ScrollFlushed(s1, t, page[t])
  BY DEF AllFlushed
<1>. HIDE DEF s, s1
<1>9. /\ s \in Seq(Record) /\ OrderInv(s, pg2, g)
      /\ TextInv(s, pg2, typed) /\ ScrollInv(s, pg2, scrolled, Recording)
  <2>1. \A u \in Tabs : /\ pg2[u].doc = pg[u].doc
                        /\ \A f \in Fields : pg2[u].pending[f] = pg[u].pending[f]
    BY <1>3, <1>5, <1>6
  <2>2. \A u \in Tabs \ {t} : pg2[u].scroll = pg[u].scroll
    BY <1>5, <1>6
  <2>3. pg2[t].scroll = Nothing /\ pg[t].scroll = page[t].scroll
    BY <1>3, <1>5, <1>6
  <2>4. ActiveInv(s1, pg, g, typed, scrolled)
    BY <1>7 DEF ActiveInv
  <2>5. ScrollDropped(pg, pg2, t)
    BY <2>1, <2>2, <2>3 DEF ScrollDropped
  <2>6. ActiveInv(s, pg2, g, typed, scrolled)
    BY <1>1, <1>8, <2>3, <2>4, <2>5, ScrollFlushKeeps
  <2>. QED BY <2>6 DEF ActiveInv
<1>10. ScrollInv(s, pg2, scrolled, Recording)
  BY <1>1, <1>9 DEF ScrollInv
<1>11. CaptureTypeOK'
  BY <1>1, <1>4, <1>5, <1>9 DEF CaptureTypeOK, PageState
<1>12. ASSUME NEW u \in OwnTabs \ unflushed'
       PROVE  pg2[u].scroll = Nothing /\ \A f \in Fields : pg2[u].pending[f] = 0
  <2>1. CASE u = t
    BY <1>2, <1>3, <1>5, <2>1
  <2>2. CASE u # t
    <3>1. u \in OwnTabs \ unflushed /\ pg2[u] = page[u]
      BY <1>1, <1>5, <1>12, <2>2
    <3>. QED BY <1>1, <3>1 DEF CaptureInv
  <2>. QED BY <2>1, <2>2
<1>. QED BY <1>1, <1>4, <1>5, <1>9, <1>10, <1>11, <1>12 DEF CaptureInv

LEMMA PageNavigatesKeeps == ASSUME CaptureInv, NEW t \in Tabs, NEW u \in Urls, PageNavigates(t, u) PROVE CaptureInv'
<1>. DEFINE g == count.gestures
            z == [f \in Fields |-> 0]
            q == [doc |-> page[t].doc + 1, url |-> u, focus |-> "none", pending |-> z, scroll |-> Nothing]
            r == [Rec("url", t, u, 0) EXCEPT !.doc = @ + 1]
<1>1. /\ trace \in Seq(Record) /\ g \in Nat /\ g \in 0..MaxGestures /\ MaxGestures \in Nat
      /\ DOMAIN page = Tabs /\ DOMAIN scrolled = Tabs /\ DOMAIN typed = Tabs
      /\ OwnTabs \subseteq Tabs /\ Nothing \notin Scroll /\ Past \notin Scroll /\ Past # Nothing
      /\ \A v \in Tabs : page[v] \in PageState /\ page[v].doc \in Nat
      /\ CaptureTypeOK
  BY CaptureFacts DEF CaptureInv, PageState
<1>2. /\ g < MaxGestures /\ count' = [count EXCEPT !.gestures = g + 1] /\ Recording /\ Recording' = Recording
      /\ page' = [page EXCEPT ![t] = q]
      /\ scrolled' = [scrolled EXCEPT ![t] = IF @ = Nothing THEN @ ELSE Past]
      /\ typed' = [typed EXCEPT ![t] = z]
      /\ trace' = trace \/ trace' = Append(trace, r)
      /\ lastUrl' \in {lastUrl, u}
      /\ holder' = holder /\ unflushed' = unflushed /\ holder = "human"
  BY DEF PageNavigates, Gesture, Number, Recording
<1>3. z \in [Fields -> Nat] /\ \A f \in Fields : z[f] = 0
  OBVIOUS
<1>4. /\ q \in PageState /\ q.doc = page[t].doc + 1 /\ q.pending = z /\ q.scroll = Nothing
  <2>. HIDE DEF z
  <2>. QED BY <1>1, <1>3 DEF PageState
<1>5. r \in Record /\ r.kind = "url"
  BY <1>1 DEF Rec, Record
<1>. HIDE DEF q, z, r
<1>6. /\ page'[t] = q /\ \A v \in Tabs \ {t} : page'[v] = page[v] /\ scrolled'[v] = scrolled[v] /\ typed'[v] = typed[v]
      /\ typed'[t] = z
      /\ scrolled'[t] = IF scrolled[t] = Nothing THEN Nothing ELSE Past
  BY <1>1, <1>2
<1>7. page' \in [Tabs -> PageState] /\ scrolled' \in [Tabs -> Scroll \cup {Nothing, Past}] /\ typed' \in [Tabs -> [Fields -> Nat]]
  <2>1. page' \in [Tabs -> PageState]
    BY <1>1, <1>2, <1>4
  <2>2. scrolled' \in [Tabs -> Scroll \cup {Nothing, Past}]
    BY <1>1, <1>2 DEF CaptureTypeOK
  <2>3. typed' \in [Tabs -> [Fields -> Nat]]
    BY <1>1, <1>2, <1>3 DEF CaptureTypeOK
  <2>. QED BY <2>1, <2>2, <2>3
<1>8. g + 1 \in Nat /\ g + 1 \in 0..MaxGestures /\ g <= g + 1
  BY <1>1, <1>2
<1>9. count'.gestures = g + 1 /\ count' \in [gestures : 0..MaxGestures, takeOvers : 0..MaxTakeOvers]
  <2>. HIDE DEF g
  <2>. QED BY <1>1, <1>2, <1>8 DEF CaptureTypeOK
<1>10. PageInv(page', g + 1)
  <2>1. SUFFICES ASSUME NEW v \in Tabs, NEW e \in Fields, page'[v].pending[e] # 0
                 PROVE  page'[v].focus = e /\ page'[v].pending[e] <= g + 1
    BY DEF PageInv
  <2>2. page'[v] = page[v]
    BY <1>3, <1>4, <1>6, <2>1
  <2>3. page[v].focus = e /\ page[v].pending[e] <= g /\ page[v].pending[e] \in Nat
    BY <1>1, <2>1, <2>2 DEF CaptureInv, PageInv, PageState
  <2>. QED BY <1>1, <2>2, <2>3
<1>11. OrderInv(trace, page', g + 1)
  <2>1. PICK pg : pg = page'
    OBVIOUS
  <2>2. OrderInv(trace, page, g)
    BY DEF CaptureInv
  <2>3. \A v \in Tabs : page[v].doc \in Nat /\ pg[v].doc \in Nat /\ page[v].doc <= pg[v].doc
    <3>1. page[t].doc + 1 \in Nat /\ page[t].doc <= page[t].doc + 1
      BY <1>1
    <3>2. pg[t].doc = page[t].doc + 1
      BY <1>4, <1>6, <2>1
    <3>3. \A v \in Tabs \ {t} : pg[v].doc = page[v].doc
      BY <1>6, <2>1
    <3>. QED BY <1>1, <3>1, <3>2, <3>3
  <2>4. ASSUME NEW v \in Tabs, NEW f \in Fields
        PROVE  \/ pg[v].pending[f] = 0
               \/ pg[v].pending[f] = page[v].pending[f] /\ pg[v].doc = page[v].doc
    BY <1>3, <1>4, <1>6, <2>1
  <2>. HIDE DEF g
  <2>5. OrderInv(trace, pg, g + 1)
    BY <1>1, <1>8, <2>2, <2>3, <2>4, OrderWeakens
  <2>. QED BY <2>1, <2>5
<1>12. TextInv(trace, page', typed')
  <2>1. ASSUME NEW v \in OwnTabs, NEW f \in Fields, typed'[v][f] # 0
        PROVE  IF page'[v].pending[f] = 0 THEN LastText(trace, v, page'[v].doc, f, typed'[v][f])
               ELSE typed'[v][f] <= page'[v].pending[f]
    <3>1. v \in Tabs /\ v # t
      BY <1>1, <1>3, <1>6, <2>1
    <3>2. page'[v] = page[v] /\ typed'[v] = typed[v]
      BY <1>6, <3>1
    <3>. QED BY <1>2, <2>1, <3>2 DEF CaptureInv, TextInv
  <2>. QED BY <2>1 DEF TextInv
<1>13. ScrollInv(trace, page', scrolled', Recording)
  <2>1. ASSUME NEW v \in Tabs, scrolled'[v] = Nothing PROVE page'[v].scroll = Nothing
    BY <1>4, <1>6, <2>1 DEF CaptureInv, ScrollInv
  <2>2. ASSUME NEW v \in OwnTabs, OnlyScrolled(scrolled', v)
        PROVE  IF page'[v].scroll = Nothing THEN LastScroll(trace, scrolled'[v].on, scrolled'[v].pos)
               ELSE Recording /\ page'[v].scroll = scrolled'[v]
    <3>1. v \in Tabs /\ v # t
      BY <1>1, <1>6, <2>2 DEF OnlyScrolled
    <3>2. page'[v] = page[v] /\ scrolled'[v] = scrolled[v]
      BY <1>6, <3>1
    <3>3. OnlyScrolled(scrolled, v)
      <4>1. scrolled[t] = Nothing
        BY <1>1, <1>6, <2>2, <3>1 DEF OnlyScrolled
      <4>2. ASSUME NEW w \in Tabs \ {v} PROVE scrolled[w] = Nothing
        BY <1>6, <2>2, <4>1 DEF OnlyScrolled
      <4>. QED BY <2>2, <3>2, <4>2 DEF OnlyScrolled
    <3>. QED BY <3>2, <3>3 DEF CaptureInv, ScrollInv
  <2>. QED BY <2>1, <2>2 DEF ScrollInv
<1>14. /\ trace' \in Seq(Record) /\ OrderInv(trace', page', g + 1)
       /\ TextInv(trace', page', typed') /\ ScrollInv(trace', page', scrolled', Recording)
  <2>1. CASE trace' = trace
    BY <1>1, <1>11, <1>12, <1>13, <2>1
  <2>2. CASE trace' = Append(trace, r)
    <3>1. PICK pg, ty, sc, n : pg = page' /\ ty = typed' /\ sc = scrolled' /\ n = g + 1
      OBVIOUS
    <3>2. OrderInv(trace, pg, n) /\ TextInv(trace, pg, ty) /\ ScrollInv(trace, pg, sc, Recording)
      BY <1>11, <1>12, <1>13, <3>1
    <3>3. r.kind \notin Texts /\ \A v, d, f : ~IsText(r, v, d, f)
      BY <1>5 DEF Texts, IsText
    <3>4. \A c : ~IsScrollOf(r, c)
      BY <1>5 DEF IsScrollOf
    <3>5. Append(trace, r) \in Seq(Record)
      BY <1>1, <1>5, AppendKeeps
    <3>6. InOrder(Append(trace, r)) /\ Bounded(Append(trace, r), pg, n)
      BY <1>1, <1>5, <3>2, <3>3, AppendOrder, AppendBounded DEF OrderInv
    <3>7. ASSUME NEW v \in Tabs, NEW f \in Fields, pg[v].pending[f] # 0
          PROVE  Before(Append(trace, r), v, pg[v].doc, pg[v].pending[f])
      BY <1>1, <1>5, <3>2, <3>3, <3>7, AppendBefore DEF OrderInv
    <3>8. ASSUME NEW v \in OwnTabs, NEW f \in Fields, ty[v][f] # 0
          PROVE  IF pg[v].pending[f] = 0 THEN LastText(Append(trace, r), v, pg[v].doc, f, ty[v][f])
                 ELSE ty[v][f] <= pg[v].pending[f]
      BY <1>1, <1>5, <3>2, <3>3, <3>8, AppendText DEF TextInv
    <3>9. ASSUME NEW v \in OwnTabs, OnlyScrolled(sc, v)
          PROVE  IF pg[v].scroll = Nothing THEN LastScroll(Append(trace, r), sc[v].on, sc[v].pos)
                 ELSE Recording /\ pg[v].scroll = sc[v]
      BY <1>1, <1>5, <3>2, <3>4, <3>9, AppendLastScroll DEF ScrollInv
    <3>10. OrderInv(Append(trace, r), pg, n)
      BY <3>6, <3>7 DEF OrderInv
    <3>11. TextInv(Append(trace, r), pg, ty)
      BY <3>8 DEF TextInv
    <3>12. ScrollInv(Append(trace, r), pg, sc, Recording)
      BY <3>2, <3>9 DEF ScrollInv
    <3>. QED BY <2>2, <3>1, <3>5, <3>10, <3>11, <3>12
  <2>. QED BY <1>2, <2>1, <2>2
<1>15. CaptureTypeOK'
  BY <1>1, <1>2, <1>7, <1>9, <1>14 DEF CaptureTypeOK, PageState
<1>16. holder' # "flushing" /\ unflushed' = {}
  BY <1>2 DEF CaptureInv
<1>. QED BY <1>2, <1>9, <1>10, <1>14, <1>15, <1>16 DEF CaptureInv

LEMMA TakeBrowserKeeps == ASSUME CaptureInv, TakeBrowser PROVE CaptureInv'
<1>1. /\ OwnTabs \subseteq Tabs /\ Nothing \notin Scroll /\ Past \notin Scroll /\ Attached \in OwnTabs /\ Nothing # Past
      /\ \A t \in Tabs : page[t] \in PageState /\ page[t].doc \in Nat
      /\ CaptureTypeOK
  BY CaptureFacts DEF CaptureInv, PageState
<1>2. /\ holder = "agent" /\ holder' = "human" /\ trace' = <<>> /\ lastUrl' = page[Attached].url
      /\ typed' = [t \in Tabs |-> [f \in Fields |-> 0]]
      /\ scrolled' = [t \in Tabs |-> IF page[t].scroll = Nothing THEN Nothing ELSE Past]
      /\ count.takeOvers < MaxTakeOvers /\ count' = [count EXCEPT !.takeOvers = @ + 1]
      /\ unflushed' = unflushed /\ page' = page
  BY DEF TakeBrowser
<1>3. /\ count'.gestures = count.gestures
      /\ count' \in [gestures : 0..MaxGestures, takeOvers : 0..MaxTakeOvers]
  <2>1. count.takeOvers \in 0..MaxTakeOvers /\ MaxTakeOvers \in Nat
    BY <1>1, CaptureAssumption DEF CaptureTypeOK
  <2>2. count.takeOvers + 1 \in 0..MaxTakeOvers
    BY <1>2, <2>1
  <2>. QED BY <1>1, <1>2, <2>2 DEF CaptureTypeOK
<1>4. scrolled' \in [Tabs -> Scroll \cup {Nothing, Past}] /\ typed' \in [Tabs -> [Fields -> Nat]]
  BY <1>2
<1>5. <<>> \in Seq(Record) /\ DOMAIN <<>> = {} /\ lastUrl' \in Urls
  BY <1>1, <1>2 DEF PageState
<1>6. CaptureTypeOK'
  BY <1>1, <1>2, <1>3, <1>4, <1>5 DEF CaptureTypeOK
<1>7. OrderInv(<<>>, page, count.gestures)
  BY <1>5 DEF OrderInv, InOrder, Bounded, Before
<1>8. TextInv(<<>>, page, typed')
  BY <1>1, <1>2 DEF TextInv
<1>9. ScrollInv(<<>>, page, scrolled', TRUE)
  <2>1. ASSUME NEW t \in Tabs PROVE /\ scrolled'[t] = Nothing => page[t].scroll = Nothing
                                    /\ ~OnlyScrolled(scrolled', t)
    <3>1. scrolled'[t] = IF page[t].scroll = Nothing THEN Nothing ELSE Past
      BY <1>2
    <3>. QED BY <1>1, <3>1 DEF OnlyScrolled
  <2>. QED BY <1>1, <2>1 DEF ScrollInv
<1>10. Recording'
  BY <1>2 DEF Recording
<1>11. ScrollInv(<<>>, page, scrolled', Recording')
  BY <1>9, <1>10 DEF ScrollInv
<1>12. holder' # "flushing" /\ unflushed' = {}
  BY <1>2 DEF CaptureInv
<1>13. PageInv(page, count.gestures)
  BY DEF CaptureInv
<1>. QED BY <1>2, <1>3, <1>6, <1>7, <1>8, <1>10, <1>11, <1>12, <1>13 DEF CaptureInv

LEMMA HandBackKeeps == ASSUME CaptureInv, HandBack PROVE CaptureInv'
<1>1. /\ holder = "human" /\ holder' = "flushing" /\ unflushed' = OwnTabs
      /\ page' = page /\ trace' = trace /\ lastUrl' = lastUrl /\ typed' = typed
      /\ scrolled' = scrolled /\ count' = count /\ Recording /\ Recording'
  BY DEF HandBack, Recording
<1>2. CaptureTypeOK'
  BY <1>1 DEF CaptureInv, CaptureTypeOK
<1>3. ScrollInv(trace, page, scrolled, Recording')
  BY <1>1 DEF CaptureInv, ScrollInv
<1>. QED BY <1>1, <1>2, <1>3 DEF CaptureInv

LEMMA StopRecorderKeeps == ASSUME CaptureInv, StopRecorder PROVE CaptureInv'
<1>1. /\ holder = "flushing" /\ unflushed = {} /\ holder' = "agent" /\ unflushed' = unflushed
      /\ page' = page /\ trace' = trace /\ lastUrl' = lastUrl /\ typed' = typed
      /\ scrolled' = scrolled /\ count' = count /\ Recording /\ ~Recording'
  BY DEF StopRecorder, Recording
<1>2. CaptureTypeOK'
  BY <1>1 DEF CaptureInv, CaptureTypeOK
<1>3. \A t \in OwnTabs : page[t].scroll = Nothing /\ \A f \in Fields : page[t].pending[f] = 0
  BY <1>1 DEF CaptureInv
<1>4. TextDone(trace, page, typed)
  BY <1>1, <1>3 DEF CaptureInv, TextInv, TextDone
<1>5. ScrollInv(trace, page, scrolled, Recording')
  BY <1>1, <1>3 DEF CaptureInv, ScrollInv
<1>. QED BY <1>1, <1>2, <1>4, <1>5 DEF CaptureInv

LEMMA CaptureStarts == ASSUME CaptureInit PROVE CaptureInv
<1>1. /\ holder = "agent" /\ unflushed = {} /\ trace = <<>>
      /\ typed = [t \in Tabs |-> [f \in Fields |-> 0]]
      /\ scrolled = [t \in Tabs |-> Nothing]
      /\ count = [gestures |-> 0, takeOvers |-> 0]
  BY DEF CaptureInit
<1>2. PICK u \in Urls :
        /\ page = [t \in Tabs |-> [doc |-> 0, url |-> u, focus |-> "none",
                                   pending |-> [f \in Fields |-> 0], scroll |-> Nothing]]
        /\ lastUrl = u
  BY DEF CaptureInit
<1>3. page \in [Tabs -> PageState] /\ \A t \in Tabs : page[t].scroll = Nothing /\ \A f \in Fields : page[t].pending[f] = 0
  <2>. DEFINE q == [doc |-> 0, url |-> u, focus |-> "none", pending |-> [f \in Fields |-> 0], scroll |-> Nothing]
  <2>1. q \in PageState /\ q.scroll = Nothing /\ \A f \in Fields : q.pending[f] = 0
    BY DEF PageState
  <2>2. page = [t \in Tabs |-> q]
    BY <1>2
  <2>. HIDE DEF q
  <2>. QED BY <2>1, <2>2
<1>4. CaptureTypeOK
  <2>1. <<>> \in Seq(Record)
    OBVIOUS
  <2>2. 0 \in 0..MaxGestures /\ 0 \in 0..MaxTakeOvers
    BY CaptureAssumption
  <2>. QED BY <1>1, <1>2, <1>3, <2>1, <2>2 DEF CaptureTypeOK, PageState
<1>5. PageInv(page, count.gestures)
  BY <1>3 DEF PageInv
<1>6. DOMAIN trace = {}
  BY <1>1
<1>7. OrderInv(trace, page, count.gestures)
  BY <1>3, <1>6 DEF OrderInv, InOrder, Bounded
<1>8. TextDone(trace, page, typed)
  BY <1>1, CaptureAssumption DEF TextDone
<1>9. ScrollInv(trace, page, scrolled, Recording)
  <2>1. Nothing \notin Scroll
    BY CaptureAssumption DEF Nothing, Scroll
  <2>2. \A t \in Tabs : scrolled[t] = Nothing /\ ~OnlyScrolled(scrolled, t)
    BY <1>1, <2>1 DEF OnlyScrolled
  <2>. QED BY <1>3, <2>2, CaptureAssumption DEF ScrollInv
<1>10. ~Recording
  BY <1>1 DEF Recording
<1>. QED BY <1>1, <1>4, <1>5, <1>7, <1>8, <1>9, <1>10 DEF CaptureInv

LEMMA CaptureStep == ASSUME CaptureInv, [CaptureNext]_captureVars PROVE CaptureInv'
<1>1. CASE UNCHANGED captureVars
  BY <1>1 DEF captureVars, CaptureInv, CaptureTypeOK, Recording
<1>2. ASSUME NEW t \in Tabs, NEW f \in Fields, Type(t, f) PROVE CaptureInv'
  BY <1>2, TypeKeeps
<1>3. ASSUME NEW t \in Tabs, Click(t) \/ PressKey(t) \/ ScrollStops(t) \/ FlushPage(t) PROVE CaptureInv'
  BY <1>3, ClickKeeps, PressKeyKeeps, ScrollStopsKeeps, FlushPageKeeps
<1>4. ASSUME NEW t \in Tabs, NEW c \in Containers, NEW x \in Positions, ScrollTo(t, c, x) PROVE CaptureInv'
  BY <1>4, ScrollToKeeps
<1>5. ASSUME NEW t \in Tabs, NEW u \in Urls, PageNavigates(t, u) PROVE CaptureInv'
  BY <1>5, PageNavigatesKeeps
<1>6. CASE TakeBrowser \/ HandBack \/ StopRecorder
  BY <1>6, TakeBrowserKeeps, HandBackKeeps, StopRecorderKeeps
<1>. QED BY <1>1, <1>2, <1>3, <1>4, <1>5, <1>6 DEF CaptureNext

\* The invariant on which the theorems below rest.
THEOREM CaptureInvariant == CaptureSpec => []CaptureInv
<1>1. CaptureInit => CaptureInv
  BY CaptureStarts
<1>2. CaptureInv /\ [CaptureNext]_captureVars => CaptureInv'
  BY CaptureStep
<1>. QED BY <1>1, <1>2, PTL DEF CaptureSpec

\* After a hand-back the trace has, for every field of a page the agent opened,
\* the text that the human left in it, and nothing later of that field.
THEOREM HandedBackTextIsRecorded == CaptureSpec => []TextIsRecorded
<1>1. ASSUME CaptureInv PROVE TextIsRecorded
  <2>1. SUFFICES ASSUME holder = "agent", NEW t \in OwnTabs, NEW f \in Fields, typed[t][f] # 0
                 PROVE  \E i \in DOMAIN trace :
                           /\ IsTextOf(trace[i], t, f) /\ trace[i].n >= typed[t][f]
                           /\ \A j \in DOMAIN trace : IsTextOf(trace[j], t, f) => j <= i
    BY DEF TextIsRecorded
  <2>2. LastText(trace, t, page[t].doc, f, typed[t][f])
    BY <1>1, <2>1 DEF CaptureInv, Recording, TextDone
  <2>. QED BY <2>2 DEF LastText, IsText, IsTextOf
<1>. QED BY <1>1, CaptureInvariant, PTL

\* What was done in one document is in the trace in the order it was done in; and
\* the trace ends with where the only tab that was scrolled was left.
THEOREM GesturesStayInOrder == CaptureSpec => []GesturesAreKept
<1>1. ASSUME CaptureInv PROVE GesturesAreKept
  <2>1. ASSUME NEW i \in DOMAIN trace, NEW j \in DOMAIN trace, i < j,
               {trace[i].kind, trace[j].kind} \subseteq {"click", "keys", "input"},
               trace[i].tab = trace[j].tab, trace[i].doc = trace[j].doc
        PROVE  trace[i].n < trace[j].n
    BY <1>1, <2>1 DEF CaptureInv, OrderInv, InOrder, Texts
  <2>2. ASSUME holder = "agent", NEW t \in OwnTabs, scrolled[t] \in Scroll, \A u \in Tabs \ {t} : scrolled[u] = Nothing
        PROVE  \E i \in DOMAIN trace :
                    /\ IsScrollOf(trace[i], scrolled[t].on) /\ trace[i].n = scrolled[t].pos
                    /\ \A j \in DOMAIN trace : IsScrollOf(trace[j], scrolled[t].on) => j <= i
    <3>1. OnlyScrolled(scrolled, t) /\ ~Recording
      BY <2>2 DEF OnlyScrolled, Recording
    <3>2. LastScroll(trace, scrolled[t].on, scrolled[t].pos)
      BY <1>1, <3>1 DEF CaptureInv, ScrollInv
    <3>. QED BY <3>2 DEF LastScroll
  <2>. QED BY <2>1, <2>2 DEF GesturesAreKept
<1>. QED BY <1>1, CaptureInvariant, PTL

\* The variables have their types.
THEOREM CaptureTypeCorrect == CaptureSpec => []CaptureTypeOK
<1>1. CaptureInv => CaptureTypeOK
  BY DEF CaptureInv
<1>. QED BY <1>1, CaptureInvariant, PTL

-----------------------------------------------------------------------------
(* TaskPurge, for any number of projects, tests and runs                     *)

\* An automatic run plays a run that was started before and is over by now, so
\* that no finally block deletes the script it plays.
SourceInv ==
    \A d \in Owned :
        /\ runs[d].source \in 0..Len(runs)
        /\ runs[d].source \in Owned => ~runs[runs[d].source].active

\* The pointer of a test names one of its own runs.
TrainedInv ==
    \A t \in Tests :
        /\ tests[t].trained \in 0..Len(runs)
        /\ tests[t].trained \in Owned => runs[tests[t].trained].test = t

ScriptInv == SourceInv /\ ScriptsHaveAnOwner /\ DependentsFindTheirScript
TestInv == TrainedInv /\ RunsHaveTheirTest
IInv == PurgeTypeOK /\ ScriptInv /\ TestInv

-----------------------------------------------------------------------------
(* What the steps do to the runs, whatever becomes of the tests              *)

LEMMA RunFacts ==
    ASSUME PurgeTypeOK
    PROVE  /\ DOMAIN runs = 1..Len(runs) /\ Len(runs) \in Nat
           /\ \A r \in DOMAIN runs : runs[r] \in Run
           /\ Owned \subseteq 1..Len(runs) /\ 0 \notin Owned
BY LenProperties, ElementOfSeq DEF PurgeTypeOK, Owned

\* A function on 1..n is a sequence.
LEMMA FunctionIsSeq ==
    ASSUME NEW S, NEW n \in Nat, NEW f \in [1..n -> S]
    PROVE  f \in Seq(S) /\ Len(f) = n /\ DOMAIN f = 1..n
BY SeqDef

\* runs' keeps the runs of kept, with their source, site and test
Survive(kept) ==
    /\ Owned' = kept
    /\ \A r \in kept : /\ runs'[r].source = runs[r].source
                       /\ runs'[r].site = runs[r].site
                       /\ runs'[r].test = runs[r].test
                       /\ runs'[r].active => runs[r].active

LEMMA PurgeSurvivors ==
    ASSUME PurgeTypeOK, NEW gone \in SUBSET Owned, PurgeRuns(gone)
    PROVE  /\ runs' \in Seq(Run) /\ Len(runs') = Len(runs)
           /\ DOMAIN runs' = DOMAIN runs
           /\ Survive(Owned \ gone)
<1>1. DOMAIN runs = 1..Len(runs) /\ Len(runs) \in Nat /\ \A r \in DOMAIN runs : runs[r] \in Run
  BY RunFacts
<1>2. Gone \in Run
  BY DEF Gone, Run
<1>3. runs' \in [1..Len(runs) -> Run]
  BY <1>1, <1>2 DEF PurgeRuns
<1>4. runs' \in Seq(Run) /\ Len(runs') = Len(runs) /\ DOMAIN runs' = 1..Len(runs)
  BY <1>1, <1>3, FunctionIsSeq
<1>5. \A r \in DOMAIN runs : runs'[r] = IF r \in gone THEN Gone ELSE runs[r]
  BY <1>1 DEF PurgeRuns
<1>6. Owned' = Owned \ gone
  BY <1>1, <1>4, <1>5 DEF Owned, Gone
<1>7. QED BY <1>1, <1>4, <1>5, <1>6 DEF Survive, Owned

LEMMA EndSurvivors ==
    ASSUME PurgeTypeOK, NEW r \in Owned, runs' = [runs EXCEPT ![r].active = FALSE]
    PROVE  /\ runs' \in Seq(Run) /\ Len(runs') = Len(runs)
           /\ DOMAIN runs' = DOMAIN runs
           /\ Survive(Owned)
<1>1. DOMAIN runs = 1..Len(runs) /\ Len(runs) \in Nat /\ \A x \in DOMAIN runs : runs[x] \in Run
  BY RunFacts
<1>2. runs' \in [1..Len(runs) -> Run]
  BY <1>1 DEF Run
<1>3. runs' \in Seq(Run) /\ Len(runs') = Len(runs) /\ DOMAIN runs' = 1..Len(runs)
  BY <1>1, <1>2, FunctionIsSeq
<1>4. \A x \in DOMAIN runs :
        /\ runs'[x].known = runs[x].known /\ runs'[x].source = runs[x].source
        /\ runs'[x].site = runs[x].site /\ runs'[x].test = runs[x].test
        /\ runs'[x].active => runs[x].active
  BY <1>1 DEF Run
<1>5. Owned' = Owned
  BY <1>1, <1>3, <1>4 DEF Owned
<1>6. QED BY <1>1, <1>3, <1>4, <1>5 DEF Survive, Owned

-----------------------------------------------------------------------------
(* Purges                                                                    *)

\* The scripts that stay are those of a run that stays, or is played by one.
LEMMA PurgeKeepsScripts ==
    ASSUME PurgeTypeOK, ScriptInv, NEW gone \in SUBSET Owned, PurgeRuns(gone)
    PROVE  /\ runs' \in Seq(Run) /\ scripts' \subseteq DOMAIN runs' /\ ScriptInv'
<1>1. /\ runs' \in Seq(Run) /\ Len(runs') = Len(runs) /\ DOMAIN runs' = DOMAIN runs
      /\ Survive(Owned \ gone)
  BY PurgeSurvivors
<1>2. Owned' = Owned \ gone /\ \A d \in Owned' : runs'[d].source = runs[d].source
  BY <1>1 DEF Survive
<1>3. \A x \in scripts :
        x \in scripts' <=> \/ x \in Owned \ gone
                           \/ \E d \in Owned \ gone : runs[d].source = x
                           \/ x \notin gone /\ \A d \in gone : runs[d].source # x
  <2> DEFINE sources == {runs[d].source : d \in gone}
  <2>1. scripts' = scripts \ {r \in gone \cup sources :
                        r \notin Owned \ gone /\ ~\E d \in Owned \ gone : runs[d].source = r}
    BY DEF PurgeRuns, ScriptsAfter, Played
  <2>2. \A x : x \in sources <=> \E d \in gone : runs[d].source = x
    OBVIOUS
  <2> HIDE DEF sources
  <2>3. QED BY <2>1, <2>2
<1>4. scripts' \subseteq scripts
  BY DEF PurgeRuns, ScriptsAfter
<1>5. SourceInv'
  BY <1>1, <1>2 DEF ScriptInv, SourceInv, Survive
<1>6. ScriptsHaveAnOwner'
  BY <1>2, <1>3, <1>4 DEF ScriptInv, ScriptsHaveAnOwner, Played
<1>7. DependentsFindTheirScript'
  <2> SUFFICES ASSUME NEW d \in Owned \ gone, runs[d].source # 0
               PROVE  runs[d].source \in scripts'
    BY <1>2 DEF DependentsFindTheirScript
  <2>1. runs[d].source \in scripts
    BY DEF ScriptInv, DependentsFindTheirScript
  <2>2. QED BY <2>1, <1>3
<1>8. QED BY <1>1, <1>4, <1>5, <1>6, <1>7 DEF PurgeTypeOK, ScriptInv

\* clear_last_trained_run_id leaves no pointer at a purged run.
LEMMA UntrainedFacts ==
    ASSUME PurgeTypeOK, NEW gone \in SUBSET Owned
    PROVE  /\ Untrained(gone) \in [Tests -> Test]
           /\ \A t \in Tests :
                /\ Untrained(gone)[t].listed = tests[t].listed
                /\ Untrained(gone)[t].site = tests[t].site
                /\ Untrained(gone)[t].trained =
                       IF tests[t].trained \in gone THEN 0 ELSE tests[t].trained
BY DEF PurgeTypeOK, Untrained, Test

\* The loop finds the runs it starts from and what was replayed from any of them,
\* and no other.
LEMMA FamilyFacts ==
    ASSUME PurgeTypeOK, NEW base \in SUBSET Owned, NEW s
    PROVE  /\ base \subseteq Family(base, s) /\ Family(base, s) \subseteq Owned
           /\ \A d \in Owned :
                (runs[d].source \in Family(base, s) /\ runs[d].site \in {0, s})
                    => d \in Family(base, s)
           /\ \A d \in Family(base, s) \ base : runs[d].source # 0
<1> DEFINE closed(F) == \A d \in Owned :
                (runs[d].source \in F /\ runs[d].site \in {0, s}) => d \in F
           fam == {r \in Owned : \A F \in SUBSET Owned :
                      (base \subseteq F /\ closed(F)) => r \in F}
<1>1. Family(base, s) = fam
  BY DEF Family
<1>2. base \subseteq fam /\ fam \subseteq Owned
  OBVIOUS
<1>3. closed(fam)
  <2> SUFFICES ASSUME NEW d \in Owned, runs[d].source \in fam, runs[d].site \in {0, s},
                      NEW F \in SUBSET Owned, base \subseteq F, closed(F)
               PROVE  d \in F
    OBVIOUS
  <2>1. runs[d].source \in F
    OBVIOUS
  <2>2. QED BY <2>1
<1>4. \A d \in fam \ base : runs[d].source # 0
  <2> DEFINE replayed == {d \in Owned : d \in base \/ runs[d].source # 0}
  <2>1. 0 \notin Owned
    BY RunFacts
  <2>2. replayed \in SUBSET Owned /\ base \subseteq replayed /\ closed(replayed)
    BY <2>1
  <2>3. fam \subseteq replayed
    BY <2>2
  <2>4. QED BY <2>3
<1> HIDE DEF fam
<1>5. QED BY <1>1, <1>2, <1>3, <1>4

-----------------------------------------------------------------------------
(* The invariant holds at first, and every step keeps it                     *)

LEMMA InitInv == PurgeInit => IInv
<1> SUFFICES ASSUME PurgeInit PROVE IInv
  OBVIOUS
<1>1. runs \in Seq(Run) /\ Len(runs) = 0 /\ DOMAIN runs = {} /\ Owned = {}
  BY DEF PurgeInit, Owned
<1>2. Unlisted \in Test
  BY DEF Unlisted, Test
<1>3. PurgeTypeOK
  BY <1>1, <1>2 DEF PurgeInit, PurgeTypeOK
<1>4. ScriptInv
  BY <1>1 DEF PurgeInit, ScriptInv, SourceInv, ScriptsHaveAnOwner, DependentsFindTheirScript
<1>5. TestInv
  BY <1>1 DEF PurgeInit, Unlisted, TestInv, TrainedInv, RunsHaveTheirTest
<1>6. QED BY <1>3, <1>4, <1>5 DEF IInv

\* A test is listed under an id that no run bears.
LEMMA ListingKeeps ==
    ASSUME IInv, NEW s \in Sites, NEW new \in SUBSET FreeTests,
           tests' = Listing(new, s), sites \subseteq sites', sites' \subseteq Sites,
           UNCHANGED <<runs, scripts>>
    PROVE  IInv'
<1>1. Owned' = Owned
  BY DEF Owned
<1>2. tests' \in [Tests -> Test]
  BY DEF IInv, PurgeTypeOK, Listing, Test
<1>3. \A t \in Tests : tests'[t].trained = 0 \/ tests'[t] = tests[t]
  BY DEF Listing
<1>4. \A t \in Tests : tests[t].listed => tests'[t] = tests[t]
  BY DEF Listing, FreeTests
<1>5. PurgeTypeOK'
  BY <1>2 DEF IInv, PurgeTypeOK
<1>6. ScriptInv'
  BY <1>1 DEF IInv, ScriptInv, SourceInv, ScriptsHaveAnOwner, DependentsFindTheirScript, Played
<1>7. TrainedInv'
  BY <1>1, <1>3, RunFacts DEF IInv, TestInv, TrainedInv
<1>8. RunsHaveTheirTest'
  <2>1. \A r \in Owned : runs[r].test # 0 => runs[r].test \in Tests
    BY RunFacts DEF IInv, Run, Owned
  <2>2. QED BY <1>1, <1>4, <2>1 DEF IInv, TestInv, RunsHaveTheirTest
<1>9. QED BY <1>5, <1>6, <1>7, <1>8 DEF IInv, TestInv

LEMMA StartKeeps == ASSUME IInv, StartRun PROVE IInv'
<1>0. PICK s \in sites \cup {0}, src \in Playable \cup {0} : \E t \in TestsOfSite(s) \cup {0} :
         runs' = Append(runs, [known |-> TRUE, site |-> s, test |-> t,
                               source |-> src, active |-> TRUE])
  BY DEF StartRun
<1>1. PICK t \in TestsOfSite(s) \cup {0} :
         runs' = Append(runs, [known |-> TRUE, site |-> s, test |-> t,
                               source |-> src, active |-> TRUE])
  BY <1>0
<1> DEFINE new == [known |-> TRUE, site |-> s, test |-> t, source |-> src, active |-> TRUE]
           n == Len(runs) + 1
<1>2. /\ DOMAIN runs = 1..Len(runs) /\ Len(runs) \in Nat
      /\ Owned \subseteq 1..Len(runs) /\ 0 \notin Owned
  BY RunFacts DEF IInv
<1>3. /\ UNCHANGED <<sites, tests, scripts>>
      /\ \A r \in Owned : ~runs[r].active
  BY DEF StartRun
<1>4. src \in 0..Len(runs) /\ (src # 0 => src \in scripts)
  BY <1>2 DEF Playable, IInv, PurgeTypeOK
<1>5. new \in Run
  BY <1>4 DEF Run, TestsOfSite, IInv, PurgeTypeOK
<1>6. /\ runs' \in Seq(Run) /\ Len(runs') = n /\ DOMAIN runs' = 1..n
      /\ \A i \in 1..Len(runs) : runs'[i] = runs[i]
      /\ runs'[n] = new
  BY <1>1, <1>5, AppendProperties, LenProperties DEF IInv, PurgeTypeOK
<1>7. Owned' = Owned \cup {n}
  BY <1>2, <1>6 DEF Owned
<1> HIDE DEF new
<1>8. new.source = src /\ new.site = s /\ new.test = t
  BY DEF new
<1>9. \A r \in Owned : runs'[r] = runs[r]
  BY <1>2, <1>6
<1>10. PurgeTypeOK'
  BY <1>2, <1>3, <1>6 DEF IInv, PurgeTypeOK
<1>11. SourceInv'
  <2> SUFFICES ASSUME NEW d \in Owned'
               PROVE  /\ runs'[d].source \in 0..n
                      /\ runs'[d].source \in Owned' => ~runs'[runs'[d].source].active
    BY <1>6 DEF SourceInv
  <2>1. runs'[d].source \in 0..Len(runs)
    BY <1>2, <1>4, <1>6, <1>7, <1>8 DEF IInv, ScriptInv, SourceInv
  <2>2. runs'[d].source \in Owned' => runs'[d].source \in Owned
    BY <1>2, <1>7, <2>1
  <2>3. QED BY <1>2, <1>3, <1>9, <2>1, <2>2
<1>12. ScriptsHaveAnOwner'
  BY <1>3, <1>7, <1>9 DEF IInv, ScriptInv, ScriptsHaveAnOwner, Played
<1>13. DependentsFindTheirScript'
  BY <1>3, <1>4, <1>6, <1>7, <1>8, <1>9 DEF IInv, ScriptInv, DependentsFindTheirScript
<1>14. TrainedInv'
  BY <1>2, <1>3, <1>6, <1>7, <1>9 DEF IInv, TestInv, TrainedInv
<1>15. RunsHaveTheirTest'
  BY <1>3, <1>6, <1>7, <1>8, <1>9 DEF IInv, TestInv, RunsHaveTheirTest, TestsOfSite
<1>16. QED BY <1>10, <1>11, <1>12, <1>13, <1>14, <1>15 DEF IInv, ScriptInv, TestInv

LEMMA EndKeeps == ASSUME IInv, RunEnds PROVE IInv'
<1>1. PICK r \in Owned :
        /\ runs[r].active
        /\ runs' = [runs EXCEPT ![r].active = FALSE]
        /\ \/ UNCHANGED <<scripts, tests>>
           \/ runs[r].source = 0 /\ scripts' = scripts \ {r} /\ UNCHANGED tests
           \/ /\ runs[r].source = 0
              /\ scripts' = scripts \cup {r}
              /\ tests' = [t \in Tests |->
                    IF t = runs[r].test /\ tests[t].listed /\ tests[t].site = runs[r].site
                    THEN [tests[t] EXCEPT !.trained = r] ELSE tests[t]]
  BY DEF RunEnds
<1>2. /\ runs' \in Seq(Run) /\ Len(runs') = Len(runs) /\ DOMAIN runs' = DOMAIN runs
      /\ Survive(Owned)
  BY <1>1, EndSurvivors DEF IInv
<1>3. /\ DOMAIN runs = 1..Len(runs) /\ Len(runs) \in Nat
      /\ Owned \subseteq 1..Len(runs) /\ 0 \notin Owned /\ r \in 1..Len(runs)
  BY RunFacts DEF IInv
<1>4. \A t \in Tests :
        /\ tests'[t] \in Test
        /\ tests'[t].listed = tests[t].listed /\ tests'[t].site = tests[t].site
        /\ tests'[t].trained = tests[t].trained
              \/ (tests'[t].trained = r /\ t = runs[r].test)
  BY <1>1, <1>3 DEF IInv, PurgeTypeOK, Test
<1>5. tests' \in [Tests -> Test]
  BY <1>1, <1>3 DEF IInv, PurgeTypeOK, Test
<1>6. \A d \in Owned : runs[d].source # r
  BY <1>1 DEF IInv, ScriptInv, SourceInv
<1>7. /\ scripts' \subseteq scripts \cup {r}
      /\ scripts \ {r} \subseteq scripts'
      /\ UNCHANGED sites
  BY <1>1 DEF RunEnds
<1>8. PurgeTypeOK'
  BY <1>2, <1>3, <1>5, <1>7 DEF IInv, PurgeTypeOK
<1>9. SourceInv'
  BY <1>2 DEF IInv, ScriptInv, SourceInv, Survive
<1>10. ScriptsHaveAnOwner'
  BY <1>2, <1>7 DEF IInv, ScriptInv, ScriptsHaveAnOwner, Played, Survive
<1>11. DependentsFindTheirScript'
  BY <1>2, <1>6, <1>7 DEF IInv, ScriptInv, DependentsFindTheirScript, Survive
<1>12. TrainedInv'
  BY <1>2, <1>3, <1>4 DEF IInv, TestInv, TrainedInv, Survive
<1>13. RunsHaveTheirTest'
  <2>1. \A x \in Owned : runs[x].test # 0 => runs[x].test \in Tests
    BY RunFacts DEF IInv, Run, Owned
  <2>2. QED BY <1>2, <1>4, <1>7, <2>1 DEF IInv, TestInv, RunsHaveTheirTest, Survive
<1>14. QED BY <1>8, <1>9, <1>10, <1>11, <1>12, <1>13 DEF IInv, ScriptInv, TestInv

LEMMA EditKeeps == ASSUME IInv, EditScript PROVE IInv'
<1>1. PICK r \in Owned : scripts' = scripts \cup {r}
  BY DEF EditScript
<1>2. UNCHANGED <<sites, tests, runs>> /\ Owned' = Owned
  BY DEF EditScript, Owned
<1>3. PurgeTypeOK'
  BY <1>1, <1>2 DEF IInv, PurgeTypeOK, Owned
<1>4. ScriptInv'
  BY <1>1, <1>2 DEF IInv, ScriptInv, SourceInv, ScriptsHaveAnOwner,
                    DependentsFindTheirScript, Played
<1>5. TestInv'
  BY <1>2 DEF IInv, TestInv, TrainedInv, RunsHaveTheirTest
<1>6. QED BY <1>3, <1>4, <1>5 DEF IInv

\* A purge keeps the invariant if it leaves no pointer at a run that goes, and no
\* run without its project and its test.
LEMMA PurgeKeeps ==
    ASSUME IInv, NEW gone \in SUBSET Owned, PurgeRuns(gone), sites' \subseteq sites,
           tests' \in [Tests -> Test],
           \A t \in Tests : tests'[t].trained = 0 \/ tests'[t].trained = tests[t].trained,
           \A r \in Owned \ gone :
                /\ runs[r].site \in sites' \cup {0}
                /\ runs[r].test # 0 => /\ tests'[runs[r].test].listed
                                      /\ tests'[runs[r].test].site = runs[r].site
    PROVE  IInv'
<1>1. /\ Len(runs') = Len(runs) /\ Survive(Owned \ gone)
  BY PurgeSurvivors DEF IInv
<1>2. runs' \in Seq(Run) /\ scripts' \subseteq DOMAIN runs' /\ ScriptInv'
  BY PurgeKeepsScripts DEF IInv
<1>3. PurgeTypeOK'
  BY <1>2 DEF IInv, PurgeTypeOK
<1>4. TrainedInv'
  BY <1>1, RunFacts DEF IInv, TestInv, TrainedInv, Survive
<1>5. RunsHaveTheirTest'
  BY <1>1 DEF RunsHaveTheirTest, Survive
<1>6. QED BY <1>2, <1>3, <1>4, <1>5 DEF IInv, TestInv

LEMMA PurgeRunKeeps == ASSUME IInv, PurgeRun PROVE IInv'
<1>1. PICK r \in Owned : PurgeRuns({r}) /\ tests' = Untrained({r})
  BY DEF PurgeRun
<1>2. sites' = sites
  BY DEF PurgeRun
<1>3. {r} \in SUBSET Owned
  OBVIOUS
<1>4. /\ tests' \in [Tests -> Test]
      /\ \A t \in Tests :
            /\ tests'[t].listed = tests[t].listed /\ tests'[t].site = tests[t].site
            /\ tests'[t].trained = 0 \/ tests'[t].trained = tests[t].trained
  BY <1>1, <1>3, UntrainedFacts DEF IInv
<1>5. \A x \in Owned : runs[x].test # 0 => runs[x].test \in Tests
  BY RunFacts DEF IInv, Run, Owned
<1>6. \A x \in Owned \ {r} :
        /\ runs[x].site \in sites' \cup {0}
        /\ runs[x].test # 0 => /\ tests'[runs[x].test].listed
                              /\ tests'[runs[x].test].site = runs[x].site
  BY <1>2, <1>4, <1>5 DEF IInv, TestInv, RunsHaveTheirTest
<1>7. PICK gone \in SUBSET Owned : gone = {r}
  BY <1>3
<1>8. QED BY <1>1, <1>2, <1>4, <1>6, <1>7, PurgeKeeps

\* The runs that go with a test, and those that go with a project
LEMMA TestFamily ==
    ASSUME IInv, NEW t \in Tests, NEW base \in SUBSET (RunsOfTest(t) \cup MayBearItsName(t)),
           RunsOfTest(t) \subseteq base, NEW s
    PROVE  /\ Family(base, s) \in SUBSET Owned /\ RunsOfTest(t) \subseteq Family(base, s)
           /\ \A d \in Owned :
                (runs[d].source \in Family(base, s) /\ runs[d].site \in {0, s})
                    => d \in Family(base, s)
           /\ \A d \in Family(base, s) : runs[d].test \in {0, t} \/ runs[d].source # 0
<1>1. PurgeTypeOK
  BY DEF IInv
<1>2. base \in SUBSET Owned
  BY DEF RunsOfTest, MayBearItsName
<1>3. \A d \in base : runs[d].test \in {0, t}
  BY DEF RunsOfTest, MayBearItsName, IInv, TestInv, TrainedInv
<1>4. /\ base \subseteq Family(base, s) /\ Family(base, s) \subseteq Owned
      /\ \A d \in Owned :
           (runs[d].source \in Family(base, s) /\ runs[d].site \in {0, s})
               => d \in Family(base, s)
      /\ \A d \in Family(base, s) \ base : runs[d].source # 0
  BY <1>1, <1>2, FamilyFacts, Zenon
<1>5. QED BY <1>3, <1>4

LEMMA SiteFamily ==
    ASSUME IInv, NEW s \in sites, NEW gone, gone = Family(RunsOfSite(s), s)
    PROVE  /\ gone \in SUBSET Owned /\ RunsOfSite(s) \subseteq gone
           /\ \A d \in Owned : (runs[d].source \in gone /\ runs[d].site \in {0, s}) => d \in gone
           /\ \A d \in gone : runs[d].test \in TestsOfSite(s) \cup {0} \/ runs[d].source # 0
<1>1. RunsOfSite(s) \in SUBSET Owned
  BY DEF RunsOfSite
<1>2. \A d \in RunsOfSite(s) : runs[d].test \in TestsOfSite(s) \cup {0}
  <2> SUFFICES ASSUME NEW d \in RunsOfSite(s), runs[d].test # 0
               PROVE  runs[d].test \in TestsOfSite(s)
    OBVIOUS
  <2>1. runs[d].test \in Tests
    BY RunFacts DEF IInv, Run, Owned, RunsOfSite
  <2>2. CASE runs[d].site = s
    BY <2>1, <2>2 DEF RunsOfSite, TestsOfSite, IInv, TestInv, RunsHaveTheirTest
  <2>3. CASE runs[d].test \in TestsOfSite(s)
    BY <2>3
  <2>4. CASE \E t \in TestsOfSite(s) : d = tests[t].trained
    BY <2>4 DEF RunsOfSite, TestsOfSite, IInv, TestInv, TrainedInv
  <2>5. QED BY <2>2, <2>3, <2>4 DEF RunsOfSite
<1>3. QED BY <1>1, <1>2, FamilyFacts DEF IInv

\* A test's delete, with what goes along
LEMMA TestDeleted ==
    ASSUME IInv, DeleteTest
    PROVE  \E t \in Tests, gone \in SUBSET Owned :
             /\ PurgeRuns(gone) /\ sites' = sites /\ tests' \in [Tests -> Test]
             /\ tests[t].listed /\ ~tests'[t].listed
             /\ \A x \in Tests :
                   /\ x # t => tests'[x].listed = tests[x].listed /\ tests'[x].site = tests[x].site
                   /\ tests'[x].trained = 0 \/ tests'[x].trained = tests[x].trained
             /\ \A d \in Owned \ gone : runs[d].test # t
             /\ \A d \in Owned :
                   (runs[d].source \in gone /\ runs[d].site \in {0, tests[t].site}) => d \in gone
             /\ \A d \in gone : runs[d].test \in {0, t} \/ runs[d].source # 0
<1>1. PICK t \in Tests \ FreeTests : \E named \in SUBSET MayBearItsName(t) :
        LET gone == Family(RunsOfTest(t) \cup named, tests[t].site) IN
        /\ PurgeRuns(gone)
        /\ tests' = [Untrained(gone) EXCEPT ![t] = Unlisted]
  BY DEF DeleteTest
<1>2. PICK named \in SUBSET MayBearItsName(t) :
        LET gone == Family(RunsOfTest(t) \cup named, tests[t].site) IN
        /\ PurgeRuns(gone)
        /\ tests' = [Untrained(gone) EXCEPT ![t] = Unlisted]
  BY <1>1
<1>3. PICK base \in SUBSET (RunsOfTest(t) \cup MayBearItsName(t)) :
        base = RunsOfTest(t) \cup named
  OBVIOUS
<1>4. PICK s : s = tests[t].site
  OBVIOUS
<1>5. PICK gone : gone = Family(base, s)
  OBVIOUS
<1>6. PurgeRuns(gone) /\ tests' = [Untrained(gone) EXCEPT ![t] = Unlisted]
  BY <1>2, <1>3, <1>4, <1>5
<1>7. t \in Tests /\ tests[t].listed /\ RunsOfTest(t) \subseteq base
  BY <1>3 DEF FreeTests
<1>8. /\ Family(base, s) \in SUBSET Owned /\ RunsOfTest(t) \subseteq Family(base, s)
      /\ \A d \in Owned :
           (runs[d].source \in Family(base, s) /\ runs[d].site \in {0, s})
               => d \in Family(base, s)
      /\ \A d \in Family(base, s) : runs[d].test \in {0, t} \/ runs[d].source # 0
  BY <1>7, TestFamily, Zenon
<1>9. Unlisted \in Test /\ Unlisted.trained = 0 /\ ~Unlisted.listed
  BY DEF Unlisted, Test
<1>10. PICK old : old = Untrained(gone)
  OBVIOUS
<1>11. /\ old \in [Tests -> Test]
       /\ \A x \in Tests :
             /\ old[x].listed = tests[x].listed /\ old[x].site = tests[x].site
             /\ old[x].trained = 0 \/ old[x].trained = tests[x].trained
  BY <1>5, <1>8, <1>10, UntrainedFacts DEF IInv
<1>12. tests' = [old EXCEPT ![t] = Unlisted]
  BY <1>6, <1>10
<1>13. /\ tests' \in [Tests -> Test] /\ ~tests'[t].listed
       /\ \A x \in Tests :
             /\ x # t => tests'[x].listed = tests[x].listed /\ tests'[x].site = tests[x].site
             /\ tests'[x].trained = 0 \/ tests'[x].trained = tests[x].trained
  BY <1>7, <1>9, <1>11, <1>12
<1>14. \A d \in Owned \ gone : runs[d].test # t
  BY <1>5, <1>8 DEF RunsOfTest
<1>15. sites' = sites /\ gone \in SUBSET Owned
  BY <1>5, <1>8 DEF DeleteTest
<1>16. /\ \A d \in Owned :
             (runs[d].source \in gone /\ runs[d].site \in {0, tests[t].site}) => d \in gone
       /\ \A d \in gone : runs[d].test \in {0, t} \/ runs[d].source # 0
  BY <1>4, <1>5, <1>8
<1>17. QED BY <1>6, <1>7, <1>13, <1>14, <1>15, <1>16

LEMMA DeleteTestKeeps == ASSUME IInv, DeleteTest PROVE IInv'
<1>1. PICK t \in Tests, gone \in SUBSET Owned :
        /\ PurgeRuns(gone) /\ sites' = sites /\ tests' \in [Tests -> Test]
        /\ \A x \in Tests :
              /\ x # t => tests'[x].listed = tests[x].listed /\ tests'[x].site = tests[x].site
              /\ tests'[x].trained = 0 \/ tests'[x].trained = tests[x].trained
        /\ \A d \in Owned \ gone : runs[d].test # t
  BY TestDeleted
<1>2. \A x \in Owned : runs[x].test # 0 => runs[x].test \in Tests
  BY RunFacts DEF IInv, Run, Owned
<1>3. \A x \in Owned \ gone :
        /\ runs[x].site \in sites' \cup {0}
        /\ runs[x].test # 0 => /\ tests'[runs[x].test].listed
                              /\ tests'[runs[x].test].site = runs[x].site
  BY <1>1, <1>2 DEF IInv, TestInv, RunsHaveTheirTest
<1>4. QED BY <1>1, <1>3, PurgeKeeps

\* A project's delete, with what goes along
LEMMA SiteDeleted ==
    ASSUME IInv, DeleteSite
    PROVE  \E s \in sites, gone \in SUBSET Owned :
             /\ PurgeRuns(gone) /\ sites' = sites \ {s} /\ tests' \in [Tests -> Test]
             /\ \A x \in Tests :
                   /\ x \in TestsOfSite(s) => ~tests'[x].listed
                   /\ x \notin TestsOfSite(s) => /\ tests'[x].listed = tests[x].listed
                                                /\ tests'[x].site = tests[x].site
                   /\ tests'[x].trained = 0 \/ tests'[x].trained = tests[x].trained
             /\ \A d \in Owned \ gone : runs[d].site # s /\ runs[d].test \notin TestsOfSite(s)
             /\ \A d \in Owned : (runs[d].source \in gone /\ runs[d].site \in {0, s}) => d \in gone
             /\ \A d \in gone : runs[d].test \in TestsOfSite(s) \cup {0} \/ runs[d].source # 0
<1>1. PICK s \in sites :
        LET gone == Family(RunsOfSite(s), s) IN
        /\ PurgeRuns(gone)
        /\ tests' = [t \in Tests |-> IF t \in TestsOfSite(s) THEN Unlisted
                                     ELSE Untrained(gone)[t]]
        /\ sites' = sites \ {s}
  BY DEF DeleteSite
<1>2. PICK gone : /\ gone = Family(RunsOfSite(s), s)
                  /\ PurgeRuns(gone)
                  /\ tests' = [t \in Tests |-> IF t \in TestsOfSite(s) THEN Unlisted
                                               ELSE Untrained(gone)[t]]
                  /\ sites' = sites \ {s}
  BY <1>1
<1>3. /\ gone \in SUBSET Owned /\ RunsOfSite(s) \subseteq gone
      /\ \A d \in Owned : (runs[d].source \in gone /\ runs[d].site \in {0, s}) => d \in gone
      /\ \A d \in gone : runs[d].test \in TestsOfSite(s) \cup {0} \/ runs[d].source # 0
  BY <1>2, SiteFamily
<1>4. Unlisted \in Test /\ Unlisted.trained = 0 /\ ~Unlisted.listed
  BY DEF Unlisted, Test
<1>5. /\ tests' \in [Tests -> Test]
      /\ \A x \in Tests :
            /\ x \in TestsOfSite(s) => ~tests'[x].listed
            /\ x \notin TestsOfSite(s) => /\ tests'[x].listed = tests[x].listed
                                         /\ tests'[x].site = tests[x].site
            /\ tests'[x].trained = 0 \/ tests'[x].trained = tests[x].trained
  BY <1>2, <1>3, <1>4, UntrainedFacts DEF IInv
<1>6. \A x \in Owned \ gone : runs[x].site # s /\ runs[x].test \notin TestsOfSite(s)
  BY <1>3 DEF RunsOfSite
<1>7. QED BY <1>2, <1>3, <1>5, <1>6

LEMMA DeleteSiteKeeps == ASSUME IInv, DeleteSite PROVE IInv'
<1>1. PICK s \in sites, gone \in SUBSET Owned :
        /\ PurgeRuns(gone) /\ sites' = sites \ {s} /\ tests' \in [Tests -> Test]
        /\ \A x \in Tests :
              /\ x \notin TestsOfSite(s) => /\ tests'[x].listed = tests[x].listed
                                           /\ tests'[x].site = tests[x].site
              /\ tests'[x].trained = 0 \/ tests'[x].trained = tests[x].trained
        /\ \A d \in Owned \ gone : runs[d].site # s /\ runs[d].test \notin TestsOfSite(s)
  BY SiteDeleted
<1>2. \A x \in Owned : runs[x].test # 0 => runs[x].test \in Tests
  BY RunFacts DEF IInv, Run, Owned
<1>3. \A x \in Owned \ gone :
        /\ runs[x].site \in sites' \cup {0}
        /\ runs[x].test # 0 => /\ tests'[runs[x].test].listed
                              /\ tests'[runs[x].test].site = runs[x].site
  BY <1>1, <1>2 DEF IInv, TestInv, RunsHaveTheirTest
<1>4. QED BY <1>1, <1>3, PurgeKeeps

-----------------------------------------------------------------------------
(* The theorems                                                              *)

LEMMA NextKeeps == IInv /\ [PurgeNext]_purgeVars => IInv'
<1> SUFFICES ASSUME IInv, [PurgeNext]_purgeVars PROVE IInv'
  OBVIOUS
<1>1. CASE CreateSite
  <2>1. PICK s \in Sites \ sites, new \in SUBSET FreeTests :
            sites' = sites \cup {s} /\ tests' = Listing(new, s)
    BY <1>1 DEF CreateSite
  <2>2. QED BY <1>1, <2>1, ListingKeeps DEF CreateSite, IInv, PurgeTypeOK
<1>2. CASE AddTests
  <2>1. PICK s \in sites, new \in SUBSET FreeTests : tests' = Listing(new, s)
    BY <1>2 DEF AddTests
  <2>2. QED BY <1>2, <2>1, ListingKeeps DEF AddTests, IInv, PurgeTypeOK
<1>3. CASE UNCHANGED purgeVars
  BY <1>3 DEF purgeVars, IInv, PurgeTypeOK, ScriptInv, SourceInv, ScriptsHaveAnOwner,
              DependentsFindTheirScript, TestInv, TrainedInv, RunsHaveTheirTest, Owned, Played
<1>4. QED BY <1>1, <1>2, <1>3, StartKeeps, EndKeeps, EditKeeps, PurgeRunKeeps,
             DeleteTestKeeps, DeleteSiteKeeps DEF PurgeNext

\* No start or end of a run, no edit of a test and no delete breaks the invariant of
\* projects, tests, runs and scripts.
THEOREM InvHolds == PurgeSpec => []IInv
<1>1. QED BY InitInv, NextKeeps, PTL DEF PurgeSpec

\* The projects, the tests, the runs and the scripts on disk keep their shape.
THEOREM PurgeTypeCorrectness == PurgeSpec => []PurgeTypeOK
<1>1. IInv => PurgeTypeOK
  BY DEF IInv
<1>2. QED BY <1>1, InvHolds, PTL

\* No delete leaves a replay script on disk that no run of the user can reach.
THEOREM ScriptOwnerSafety == PurgeSpec => []ScriptsHaveAnOwner
<1>1. IInv => ScriptsHaveAnOwner
  BY DEF IInv, ScriptInv
<1>2. QED BY <1>1, InvHolds, PTL

\* No delete takes the script that an automatic run which stays still plays.
THEOREM DependentSafety == PurgeSpec => []DependentsFindTheirScript
<1>1. IInv => DependentsFindTheirScript
  BY DEF IInv, ScriptInv
<1>2. QED BY <1>1, InvHolds, PTL

\* No run is left behind by its project or its test.
THEOREM RunsTestSafety == PurgeSpec => []RunsHaveTheirTest
<1>1. IInv => RunsHaveTheirTest
  BY DEF IInv, TestInv
<1>2. QED BY <1>1, InvHolds, PTL

-----------------------------------------------------------------------------
(* What a delete takes along                                                 *)

FamilyTaken ==
    /\ \A s \in Deserted : \A d \in Owned \ Lost :
          runs[d].source \in Lost => runs[d].site \notin {0, s}
    /\ \A r \in Lost :
          /\ ~runs[r].active
          /\ Delisted # {} => \/ runs[r].test \in Delisted \cup {0}
                              \/ runs[r].source # 0

\* The runs that go in a purge are those it was asked to take.
LEMMA LostIsGone ==
    ASSUME IInv, NEW gone \in SUBSET Owned, PurgeRuns(gone)
    PROVE  Lost = gone /\ \A r \in gone : ~runs[r].active
<1>1. Owned' = Owned \ gone
  BY PurgeSurvivors DEF IInv, Survive
<1>2. Lost = Owned \ Owned'
  BY DEF Lost, Owned
<1>3. QED BY <1>1, <1>2 DEF PurgeRuns

\* A step that deletes no test and no project and loses no active run
LEMMA NoneDelisted ==
    ASSUME \A t \in Tests : tests[t].listed => tests'[t].listed, sites \subseteq sites',
           \A r \in Lost : ~runs[r].active
    PROVE  FamilyTaken
<1>1. Delisted = {} /\ Deserted = {}
  BY DEF Delisted, Deserted
<1>2. QED BY <1>1 DEF FamilyTaken

LEMMA DeleteTestTakes == ASSUME IInv, DeleteTest PROVE FamilyTaken
<1>1. PICK t \in Tests, gone \in SUBSET Owned :
        /\ PurgeRuns(gone) /\ sites' = sites
        /\ tests[t].listed /\ ~tests'[t].listed
        /\ \A x \in Tests : x # t => tests'[x].listed = tests[x].listed
        /\ \A d \in Owned :
              (runs[d].source \in gone /\ runs[d].site \in {0, tests[t].site}) => d \in gone
        /\ \A d \in gone : runs[d].test \in {0, t} \/ runs[d].source # 0
  BY TestDeleted
<1>2. Lost = gone /\ \A r \in gone : ~runs[r].active
  BY <1>1, LostIsGone
<1>3. Delisted = {t}
  BY <1>1 DEF Delisted
<1>4. Deserted = {tests[t].site}
  BY <1>1, <1>3 DEF Deserted
<1>5. QED BY <1>1, <1>2, <1>3, <1>4 DEF FamilyTaken

LEMMA DeleteSiteTakes == ASSUME IInv, DeleteSite PROVE FamilyTaken
<1>1. PICK s \in sites, gone \in SUBSET Owned :
        /\ PurgeRuns(gone) /\ sites' = sites \ {s}
        /\ \A x \in Tests :
              /\ x \in TestsOfSite(s) => ~tests'[x].listed
              /\ x \notin TestsOfSite(s) => tests'[x].listed = tests[x].listed
        /\ \A d \in Owned : (runs[d].source \in gone /\ runs[d].site \in {0, s}) => d \in gone
        /\ \A d \in gone : runs[d].test \in TestsOfSite(s) \cup {0} \/ runs[d].source # 0
  BY SiteDeleted
<1>2. Lost = gone /\ \A r \in gone : ~runs[r].active
  BY <1>1, LostIsGone
<1>3. Delisted = TestsOfSite(s)
  BY <1>1 DEF Delisted, TestsOfSite
<1>4. Deserted = {s}
  BY <1>1, <1>3 DEF Deserted, TestsOfSite
<1>5. QED BY <1>1, <1>2, <1>3, <1>4 DEF FamilyTaken

\* The steps that delete at most a run
LEMMA OthersTake ==
    ASSUME IInv, [PurgeNext]_purgeVars, ~DeleteTest, ~DeleteSite
    PROVE  FamilyTaken
<1>1. CASE CreateSite
  <2>1. Lost = {}
    BY <1>1 DEF CreateSite, Lost, Owned
  <2>2. QED BY <1>1, <2>1, NoneDelisted DEF CreateSite, Listing
<1>2. CASE AddTests
  <2>1. Lost = {}
    BY <1>2 DEF AddTests, Lost, Owned
  <2>2. QED BY <1>2, <2>1, NoneDelisted DEF AddTests, Listing
<1>3. CASE StartRun
  <2>1. Lost = {}
    <3>1. \A r \in DOMAIN runs : r \in DOMAIN runs' /\ runs'[r] = runs[r]
      BY <1>3, RunFacts, AppendProperties, LenProperties DEF StartRun, IInv, PurgeTypeOK
    <3>2. QED BY <3>1 DEF Lost, Owned
  <2>2. QED BY <1>3, <2>1, NoneDelisted DEF StartRun
<1>4. CASE RunEnds
  <2>1. PICK r \in Owned : runs' = [runs EXCEPT ![r].active = FALSE]
    BY <1>4 DEF RunEnds
  <2>2. Owned' = Owned
    BY <2>1, EndSurvivors DEF IInv, Survive
  <2>3. Lost = {}
    BY <2>2 DEF Lost, Owned
  <2>4. \A t \in Tests : tests'[t].listed = tests[t].listed
    BY <1>4 DEF RunEnds, IInv, PurgeTypeOK, Test
  <2>5. QED BY <1>4, <2>3, <2>4, NoneDelisted DEF RunEnds
<1>5. CASE EditScript
  <2>1. Lost = {}
    BY <1>5 DEF EditScript, Lost, Owned
  <2>2. QED BY <1>5, <2>1, NoneDelisted DEF EditScript
<1>6. CASE PurgeRun
  <2>1. PICK r \in Owned : PurgeRuns({r}) /\ tests' = Untrained({r})
    BY <1>6 DEF PurgeRun
  <2>2. PICK gone \in SUBSET Owned : gone = {r}
    OBVIOUS
  <2>3. PurgeRuns(gone) /\ tests' = Untrained(gone)
    BY <2>1, <2>2
  <2>4. \A t \in Tests : tests'[t].listed = tests[t].listed
    BY <2>3, UntrainedFacts DEF IInv
  <2>5. Lost = gone /\ \A x \in gone : ~runs[x].active
    BY <2>3, LostIsGone
  <2>6. QED BY <1>6, <2>4, <2>5, NoneDelisted DEF PurgeRun
<1>7. CASE UNCHANGED purgeVars
  <2>1. Lost = {}
    BY <1>7 DEF purgeVars, Lost, Owned
  <2>2. QED BY <1>7, <2>1, NoneDelisted DEF purgeVars
<1>8. QED BY <1>1, <1>2, <1>3, <1>4, <1>5, <1>6, <1>7 DEF PurgeNext

\* A deleted test or project takes along all that was replayed from it, no active
\* run and no training of another test.
THEOREM FamilySafety == PurgeSpec => DeletesTakeTheFamily
<1>1. IInv /\ [PurgeNext]_purgeVars => [FamilyTaken]_purgeVars
  BY DeleteTestTakes, DeleteSiteTakes, OthersTake
<1>2. PurgeSpec => [][FamilyTaken]_purgeVars
  BY <1>1, InvHolds, PTL DEF PurgeSpec
<1>3. QED BY <1>2 DEF DeletesTakeTheFamily, FamilyTaken
=============================================================================
