----------------------------- MODULE ReplayTabs -----------------------------
(***************************************************************************)
(* A run that passed is replayed without a model: the recorded steps are   *)
(* carried out again in a new browser (runner._script_replay_with_events,  *)
(* reporting/replay_executor.py).  What this module asks is on which tab.  *)
(*                                                                         *)
(* BrowserContext numbers the tabs it opens and never uses a number twice. *)
(* A step names a tab by that number, or means the current tab; the number *)
(* finds the same tab again only if the replay opens the tabs that the     *)
(* training opened.  Numbers are one above the code's, so that 0 is None.  *)
(***************************************************************************)
EXTENDS Naturals, SequencesExt

CONSTANT MaxRecorded  \* bound: recorded steps

ASSUME ReplayAssumption == MaxRecorded \in Nat

VARIABLES
    stage,    \* "training", "replay", or how the replay ended
    browser,  \* BrowserContext: [pages, current, next]; "from" of a page is a ghost
    script,   \* replay_steps: [act, id, from]; "from" is a ghost
    cursor,   \* the step of the replay
    again,    \* it failed once and is tried again
    worked,   \* ghost: per step done in the replay, the tab it was done on
    drift     \* ghost: what makes numbers and tabs disagree

replayVars == <<stage, browser, script, cursor, again, worked, drift>>

\* A tab comes from the step that opened it, 0 being the first tab of every run
Extra == MaxRecorded + 1
From == 0..Extra
Tab == [id : Nat \ {0}, from : From]
ReplayStep == [act : {"element", "open", "switch", "close"}, id : Nat, from : From]

ReplayTypeOK ==
    /\ stage \in {"training", "replay", "grade", "failed", "crashed"}
    /\ browser \in [pages : Seq(Tab), current : Nat, next : Nat]
    /\ script \in Seq(ReplayStep)
    /\ cursor \in 1..(MaxRecorded + 1) /\ again \in BOOLEAN
    /\ worked \in Seq(From)
    /\ drift \subseteq {"lost tab", "other tab", "second tab"}

-----------------------------------------------------------------------------
(* BrowserContext                                                            *)

NewPage(b, from) ==
    [pages |-> Append(b.pages, [id |-> b.next, from |-> from]),
     current |-> b.next, next |-> b.next + 1]

Has(b, id) == \E i \in DOMAIN b.pages : b.pages[i].id = id
CurrentPage(b) == b.pages[CHOOSE i \in DOMAIN b.pages : b.pages[i].id = b.current]

SwitchTab(b, id) == [b EXCEPT !.current = id]

\* close_tab: the current tab is followed by the first that is left
CloseTab(b, id) ==
    LET left == SelectSeq(b.pages, LAMBDA p : p.id # id) IN
    [b EXCEPT !.pages = left,
              !.current = IF @ # id THEN @ ELSE IF left = <<>> THEN 0 ELSE left[1].id]

\* launch, then new_page(home_page_url)
Launched == NewPage([pages |-> <<>>, current |-> 0, next |-> 1], 0)

ReplayInit ==
    /\ stage = "training" /\ browser = Launched
    /\ script = <<>> /\ cursor = 1 /\ again = FALSE
    /\ worked = <<>> /\ drift = {}

-----------------------------------------------------------------------------
(* The training: the navigator's actions on tabs.  Only an action without    *)
(* error becomes a step; without a current tab the run cannot pass.          *)

Training == stage = "training" /\ browser.current # 0
RecordTab(act, id) ==
    /\ Len(script) < MaxRecorded
    /\ script' = Append(script, [act |-> act, id |-> id, from |-> CurrentPage(browser).from])
    /\ UNCHANGED <<stage, cursor, again, worked>>

TrainElement ==
    /\ Training /\ RecordTab("element", 0)
    /\ UNCHANGED <<browser, drift>>

TrainOpen ==
    /\ Training /\ RecordTab("open", 0)
    /\ browser' = NewPage(browser, Len(script) + 1)
    /\ UNCHANGED drift

\* goto raises: the action is an error, and the tab is there all the same
TrainOpenFails ==
    /\ Training /\ "lost tab" \notin drift   \* bound: once
    /\ browser' = NewPage(browser, Extra)
    /\ drift' = drift \cup {"lost tab"}
    /\ UNCHANGED <<stage, script, cursor, again, worked>>

TrainSwitch(id) ==
    /\ Training /\ Has(browser, id) /\ RecordTab("switch", id)
    /\ browser' = SwitchTab(browser, id)
    /\ UNCHANGED drift

TrainClose(id) ==
    /\ Training /\ Has(browser, id) /\ RecordTab("close", id)
    /\ browser' = CloseTab(browser, id)
    /\ drift' = IF id = browser.current THEN drift ELSE drift \cup {"other tab"}

\* The run passes and its script is replayed in a new browser
StartReplay ==
    /\ Training /\ script # <<>>
    /\ stage' = "replay" /\ browser' = Launched
    /\ UNCHANGED <<script, cursor, again, worked, drift>>

-----------------------------------------------------------------------------
(* execute_replay_steps, called with one step at a time                      *)

Step == script[cursor]
AtStep == stage = "replay" /\ cursor <= Len(script) /\ browser.current # 0

\* Mutant: the page is looked up once, before the first step.
PageOfReplay == browser.pages[1]

\* The page is looked up before every step
PageOfStep == CurrentPage(browser)

\* The step is done: next one, or the end of the script
Done(from) ==
    /\ worked' = Append(worked, from)
    /\ cursor' = cursor + 1 /\ again' = FALSE
    /\ UNCHANGED <<stage, script>>

\* An error is retried once; then it ends the replay (_replay_stop_reason)
StepFails ==
    /\ IF again THEN stage' = "failed" /\ UNCHANGED again
       ELSE again' = TRUE /\ UNCHANGED stage
    /\ UNCHANGED <<script, cursor, worked>>

ReplayElement ==
    /\ AtStep /\ Step.act = "element"
    /\ Done(PageOfStep.from) \/ StepFails
    /\ UNCHANGED <<browser, drift>>

ReplayOpen ==
    /\ AtStep /\ Step.act = "open"
    /\ \/ /\ browser' = NewPage(browser, cursor)
          /\ Done(PageOfStep.from) /\ UNCHANGED drift
       \/ /\ browser' = NewPage(browser, Extra)
          /\ StepFails /\ drift' = drift \cup {"second tab"}
       \/ StepFails /\ UNCHANGED <<browser, drift>>   \* its address is not allowed

ReplaySwitch ==
    /\ AtStep /\ Step.act = "switch"
    /\ IF Has(browser, Step.id)
       THEN browser' = SwitchTab(browser, Step.id) /\ Done(PageOfStep.from)
       ELSE StepFails /\ UNCHANGED browser
    /\ UNCHANGED drift

\* The current tab is closed, whichever the training closed
ReplayClose ==
    /\ AtStep /\ Step.act = "close"
    /\ browser' = CloseTab(browser, browser.current)
    /\ Done(PageOfStep.from) /\ UNCHANGED drift

\* get_current_page raises outside of the step's own try
ReplayNoPage ==
    /\ stage = "replay" /\ cursor <= Len(script) /\ browser.current = 0
    /\ stage' = "crashed"
    /\ UNCHANGED <<browser, script, cursor, again, worked, drift>>

EndReplay ==
    /\ stage = "replay" /\ cursor = Len(script) + 1
    /\ stage' = "grade"
    /\ UNCHANGED <<browser, script, cursor, again, worked, drift>>

ReplayNext ==
    \/ TrainElement \/ TrainOpen \/ TrainOpenFails \/ StartReplay
    \/ \E id \in 1..(MaxRecorded + 2) : TrainSwitch(id) \/ TrainClose(id)
    \/ ReplayElement \/ ReplayOpen \/ ReplaySwitch \/ ReplayClose
    \/ ReplayNoPage \/ EndReplay

ReplaySpec == ReplayInit /\ [][ReplayNext]_replayVars

-----------------------------------------------------------------------------
\* A replayed step works on the tab it was recorded on, unless an open_tab failed
\* half way (in the training or in the replay) or the training closed a tab that
\* was not the current one.
StepsFindTheirTab ==
    drift = {} => \A i \in DOMAIN worked :
        script[i].act \in {"element", "close"} => worked[i] = script[i].from
==============================================================================
