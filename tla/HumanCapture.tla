----------------------------- MODULE HumanCapture -----------------------------
(***************************************************************************)
(* How what a human does in the browser becomes a trace: the capture       *)
(* script that agent/hitl.py injects in every page, and its                *)
(* HumanActionRecorder.                                                    *)
(*                                                                         *)
(* The script reports clicks and keys at once, but holds back the text of  *)
(* a field until the field is left, and a scroll until it has stopped for  *)
(* 400 ms.  The hand-back asks every page that the agent opened for what   *)
(* it holds back, and only then stops the recorder.  A gesture is known by *)
(* its number, a position of a scrolled container by a number too.         *)
(***************************************************************************)
EXTENDS Naturals, SequencesExt

CONSTANTS
    Tabs,         \* the tabs of the browser
    OwnTabs,      \* those in BrowserContext._pages; a human may open others
    Fields,       \* text fields of a page
    Containers,   \* what can be scrolled: the window and elements
    Positions,    \* scroll positions, in percent
    Urls,         \* addresses of documents
    MaxGestures,  \* bound: gestures of human and agent
    MaxTakeOvers  \* bound: times the human takes the browser

ASSUME CaptureAssumption ==
    /\ OwnTabs \subseteq Tabs /\ OwnTabs # {} /\ Urls # {}
    /\ "none" \notin Fields /\ "nothing" \notin Containers /\ "past" \notin Containers
    /\ MaxGestures \in Nat /\ MaxTakeOvers \in Nat

VARIABLES
    holder,    \* "agent", "human", or "flushing" while control is handed back
    unflushed, \* the tabs flush_pending_inputs has still to ask
    page,      \* per tab: the document and what its capture script holds back
    trace,     \* _recorded
    lastUrl,   \* _last_url
    typed,     \* ghost: what the human typed last into each field of the documents
    scrolled,  \* ghost: the human's last scroll in each document
    count      \* gestures and take-overs so far

captureVars == <<holder, unflushed, page, trace, lastUrl, typed, scrolled, count>>

Attached == CHOOSE t \in OwnTabs : TRUE   \* get_current_page: nobody switches tabs meanwhile

Nothing == [on |-> "nothing", pos |-> 0]
Past == [on |-> "past", pos |-> 0]        \* a scroll in a document that was left
Scroll == [on : Containers, pos : Positions]
Record == [kind : {"click", "keys", "input"}, tab : Tabs, doc : Nat, on : Fields \cup {"other"}, n : Nat]
          \cup [kind : {"scroll"}, tab : Tabs, doc : Nat, on : Containers, n : Positions]
          \cup [kind : {"url"}, tab : Tabs, doc : Nat, on : Urls, n : {0}]

CaptureTypeOK ==
    /\ holder \in {"agent", "human", "flushing"}
    /\ unflushed \subseteq OwnTabs
    /\ page \in [Tabs -> [doc : Nat, url : Urls, focus : Fields \cup {"none"},
                          pending : [Fields -> Nat], scroll : Scroll \cup {Nothing}]]
    /\ trace \in Seq(Record)
    /\ lastUrl \in Urls
    /\ typed \in [Tabs -> [Fields -> Nat]]
    /\ scrolled \in [Tabs -> Scroll \cup {Nothing, Past}]
    /\ count \in [gestures : 0..MaxGestures, takeOvers : 0..MaxTakeOvers]

CaptureInit ==
    /\ holder = "agent" /\ unflushed = {}
    /\ \E u \in Urls :
        /\ page = [t \in Tabs |-> [doc |-> 0, url |-> u, focus |-> "none",
                                   pending |-> [f \in Fields |-> 0], scroll |-> Nothing]]
        /\ lastUrl = u
    /\ trace = <<>>
    /\ typed = [t \in Tabs |-> [f \in Fields |-> 0]]
    /\ scrolled = [t \in Tabs |-> Nothing]
    /\ count = [gestures |-> 0, takeOvers |-> 0]

-----------------------------------------------------------------------------
(* HumanActionRecorder                                                       *)

Rec(k, t, o, n) == [kind |-> k, tab |-> t, doc |-> page[t].doc, on |-> o, n |-> n]

\* _record_scroll: a container scrolled twice in a row keeps its last position.
\* Tabs and documents are not told apart.
ScrollAppended(s, r) ==
    IF s # <<>> /\ Last(s).kind = "scroll" /\ Last(s).on = r.on
    THEN IF Last(s).n = r.n THEN s ELSE Append(Front(s), r)
    ELSE Append(s, r)

\* _handle_capture_event: what comes while the recorder is not active is dropped
Recording == holder # "agent"
Reported(s, r) ==
    IF ~Recording THEN s
    ELSE IF r.kind = "scroll" THEN ScrollAppended(s, r) ELSE Append(s, r)

-----------------------------------------------------------------------------
(* The capture script.  Operators on a trace s and the state p of tab t.     *)

\* flushInput
InputFlushed(s, t, p, f) ==
    IF f = "none" \/ p.pending[f] = 0 THEN s ELSE Reported(s, Rec("input", t, f, p.pending[f]))
Unheld(p, f) == IF f = "none" THEN p ELSE [p EXCEPT !.pending[f] = 0]

\* blur and change of the focused field; the focus goes to f
LeaveField(s, t, p) == InputFlushed(s, t, p, p.focus)
Focused(p, f) == [Unheld(p, p.focus) EXCEPT !.focus = f]

\* flushScroll
ScrollFlushed(s, t, p) ==
    IF p.scroll = Nothing THEN s ELSE Reported(s, Rec("scroll", t, p.scroll.on, p.scroll.pos))

\* Every field that holds something back, one after the other
InputsFlushed(s, t, p) ==
    LET held == SetToSeq({f \in Fields : p.pending[f] # 0}) IN
    IF Recording THEN s \o [i \in DOMAIN held |-> Rec("input", t, held[i], p.pending[held[i]])]
    ELSE s

\* __saFlushPendingInputs: every field, then the scroll; the fields alone are a mutant
AllFlushed(s, t, p) ==
    ScrollFlushed(InputsFlushed(s, t, p), t, p)

Gesture ==
    /\ holder # "flushing" /\ count.gestures < MaxGestures
    /\ count' = [count EXCEPT !.gestures = @ + 1]
Number == count.gestures + 1
Steady == UNCHANGED <<holder, unflushed, lastUrl>>

\* Text into a field: by a human, or by the agent's input_text
Type(t, f) ==
    /\ Gesture
    /\ holder = "agent" => t = Attached
    /\ LET p == page[t] IN
        /\ trace' = IF p.focus = f THEN trace ELSE LeaveField(trace, t, p)
        /\ page' = [page EXCEPT ![t] =
                      [IF p.focus = f THEN p ELSE Focused(p, f) EXCEPT !.pending[f] = Number]]
    /\ typed' = IF holder = "human" THEN [typed EXCEPT ![t][f] = Number] ELSE typed
    /\ UNCHANGED scrolled /\ Steady

Click(t) ==
    /\ Gesture /\ holder = "human"
    /\ trace' = Reported(LeaveField(trace, t, page[t]), Rec("click", t, "other", Number))
    /\ page' = [page EXCEPT ![t] = Focused(@, "none")]
    /\ UNCHANGED <<typed, scrolled>> /\ Steady

\* Mutant: keydown does not flush the field
PressKeyOnly(t) ==
    /\ Gesture /\ holder = "human" /\ page[t].focus # "none"
    /\ trace' = Reported(trace, Rec("keys", t, page[t].focus, Number))
    /\ UNCHANGED <<page, typed, scrolled>> /\ Steady

\* Enter, Tab or Escape in the focused field
PressKey(t) ==
    /\ Gesture /\ holder = "human" /\ page[t].focus # "none"
    /\ trace' = Reported(LeaveField(trace, t, page[t]), Rec("keys", t, page[t].focus, Number))
    /\ page' = [page EXCEPT ![t] = Unheld(@, @.focus)]
    /\ UNCHANGED <<typed, scrolled>> /\ Steady

\* A scroll event replaces the one held back and restarts the timer
ScrollTo(t, c, x) ==
    /\ Gesture /\ holder = "human"
    /\ page' = [page EXCEPT ![t].scroll = [on |-> c, pos |-> x]]
    /\ scrolled' = [scrolled EXCEPT ![t] = [on |-> c, pos |-> x]]
    /\ UNCHANGED <<trace, typed>> /\ Steady

ScrollStops(t) ==
    /\ page[t].scroll # Nothing
    /\ trace' = ScrollFlushed(trace, t, page[t])
    /\ page' = [page EXCEPT ![t].scroll = Nothing]
    /\ UNCHANGED <<typed, scrolled, count>> /\ Steady

\* A new document: its script starts empty; what the old one held back is gone.
\* _on_navigate records the address of the attached tab when it is another one.
PageNavigates(t, u) ==
    /\ Gesture /\ holder = "human"
    /\ page' = [page EXCEPT ![t] = [doc |-> @.doc + 1, url |-> u, focus |-> "none",
                                    pending |-> [f \in Fields |-> 0], scroll |-> Nothing]]
    /\ LET known == t # Attached \/ u = lastUrl IN
        /\ lastUrl' = IF known THEN lastUrl ELSE u
        /\ trace' = IF known THEN trace
                    ELSE Append(trace, [Rec("url", t, u, 0) EXCEPT !.doc = @ + 1])
    /\ typed' = [typed EXCEPT ![t] = [f \in Fields |-> 0]]
    /\ scrolled' = [scrolled EXCEPT ![t] = IF @ = Nothing THEN @ ELSE Past]
    /\ UNCHANGED <<holder, unflushed>>

-----------------------------------------------------------------------------
\* take_control: recorder.start
TakeBrowser ==
    /\ holder = "agent" /\ count.takeOvers < MaxTakeOvers
    /\ holder' = "human"
    /\ trace' = <<>>
    /\ lastUrl' = page[Attached].url
    /\ typed' = [t \in Tabs |-> [f \in Fields |-> 0]]
    /\ scrolled' = [t \in Tabs |-> IF page[t].scroll = Nothing THEN Nothing ELSE Past]
    /\ count' = [count EXCEPT !.takeOvers = @ + 1]
    /\ UNCHANGED <<unflushed, page>>

\* Mutant: the recorder stops before the pages are asked
StopAtOnce ==
    /\ holder = "human"
    /\ holder' = "agent"
    /\ UNCHANGED <<unflushed, page, trace, lastUrl, typed, scrolled, count>>

\* _capture_and_flush_recorded: every page is asked, then the recorder stops
HandBack ==
    /\ holder = "human"
    /\ holder' = "flushing" /\ unflushed' = OwnTabs
    /\ UNCHANGED <<page, trace, lastUrl, typed, scrolled, count>>

FlushPage(t) ==
    /\ t \in unflushed
    /\ unflushed' = unflushed \ {t}
    /\ trace' = AllFlushed(trace, t, page[t])
    /\ page' = [page EXCEPT ![t].pending = [f \in Fields |-> 0], ![t].scroll = Nothing]
    /\ UNCHANGED <<holder, lastUrl, typed, scrolled, count>>

StopRecorder ==
    /\ holder = "flushing" /\ unflushed = {}
    /\ holder' = "agent"
    /\ UNCHANGED <<unflushed, page, trace, lastUrl, typed, scrolled, count>>

CaptureNext ==
    \/ \E t \in Tabs :
        \/ \E f \in Fields : Type(t, f)
        \/ Click(t) \/ PressKey(t) \/ ScrollStops(t) \/ FlushPage(t)
        \/ \E c \in Containers, x \in Positions : ScrollTo(t, c, x)
        \/ \E u \in Urls : PageNavigates(t, u)
    \/ TakeBrowser \/ HandBack \/ StopRecorder

CaptureSpec == CaptureInit /\ [][CaptureNext]_captureVars

-----------------------------------------------------------------------------
\* After the hand-back the trace tells, of every field of the agent's pages, the
\* text the human left in it.
IsTextOf(r, t, f) == r.kind = "input" /\ r.tab = t /\ r.doc = page[t].doc /\ r.on = f
TextIsRecorded ==
    holder = "agent" /\ count.takeOvers > 0 =>
        \A t \in OwnTabs, f \in Fields :
            typed[t][f] # 0 =>
                \E i \in DOMAIN trace :
                    /\ IsTextOf(trace[i], t, f) /\ trace[i].n >= typed[t][f]
                    /\ \A j \in DOMAIN trace : IsTextOf(trace[j], t, f) => j <= i

\* What was done in a document is replayed in the order it was done in, scrolls
\* apart: a text comes before the key that submits it.  And when only one tab was
\* scrolled, the trace ends with where the human left it.
IsScrollOf(r, c) == r.kind = "scroll" /\ r.on = c
GesturesAreKept ==
    /\ \A i, j \in DOMAIN trace :
        i < j /\ {trace[i].kind, trace[j].kind} \subseteq {"click", "keys", "input"}
        /\ trace[i].tab = trace[j].tab /\ trace[i].doc = trace[j].doc
            => trace[i].n < trace[j].n
    /\ holder = "agent" =>
        \A t \in OwnTabs :
            scrolled[t] \in Scroll /\ (\A u \in Tabs \ {t} : scrolled[u] = Nothing) =>
                \E i \in DOMAIN trace :
                    /\ IsScrollOf(trace[i], scrolled[t].on) /\ trace[i].n = scrolled[t].pos
                    /\ \A j \in DOMAIN trace : IsScrollOf(trace[j], scrolled[t].on) => j <= i
==============================================================================
