---------------------------- MODULE ElementFinder ----------------------------
(***************************************************************************)
(* Which element does an action act on?  An element is recorded when it is *)
(* observed (browser/history.py); later it is found again on a page that   *)
(* may have changed: by a replay (browser/locators.py), or between two     *)
(* actions of a batch (actions/builder.py, browser/page.py).               *)
(*                                                                         *)
(* The page is a list of elements of one tag in one parent.  Of all that   *)
(* may tell elements apart there are two attributes: "testid", which is    *)
(* part of the attributes hash, and "name", the text, which is not.  An    *)
(* element's key is a ghost: what a person takes for the same element.     *)
(* Iframes, shadow roots and leaves inside a match are left out.           *)
(***************************************************************************)
EXTENDS Naturals, FiniteSets, SequencesExt

CONSTANTS
    TestIds, Names,  \* values of the two attributes
    MaxListed,       \* bound: elements of the recorded page
    MaxChanges       \* bound: changes of the page

ASSUME FinderAssumption ==
    /\ "" \notin TestIds /\ "" \notin Names
    /\ MaxListed \in Nat \ {0} /\ MaxChanges \in Nat

VARIABLES
    elements,  \* the page
    recorded,  \* what was captured of the target
    finding,   \* where the search is, and its use: "replay", or "batch"
    seen,      \* batch: what the remap found, by its place in the tree
    acted,     \* the element acted on, or Nobody
    changes    \* ghost: how the page has changed

finderVars == <<elements, recorded, finding, seen, acted, changes>>

Element == [key : Nat, testid : TestIds \cup {""}, name : Names \cup {""}, shown : BOOLEAN]
Nobody == [key |-> 0, testid |-> "", name |-> "", shown |-> FALSE]
Place0 == [at |-> 0, testid |-> "", name |-> ""]

Counted == {"first", "last", "nth"}
Kind == {"testid", "role", "relative"} \cup Counted
Changing == {"front", "end", "gone", "hidden"}

FinderTypeOK ==
    /\ elements \in Seq(Element)
    /\ recorded \in [kind : Kind, key : Nat, testid : TestIds \cup {""}, name : Names \cup {""},
                     index : Nat, count : Nat]
    /\ finding \in [use : {"replay", "batch"}, again : BOOLEAN,
                    at : {"poll", "verify", "act", "remap", "pin", "press", "done", "missed"}]
    /\ seen \in [at : Nat, testid : TestIds \cup {""}, name : Names \cup {""}]
    /\ acted \in Element
    /\ changes \in [kinds : SUBSET Changing, n : 0..MaxChanges]

-----------------------------------------------------------------------------
(* Capture: _build_locator_capture keeps the first way to name the element   *)
(* that is unique in the observed tree.                                      *)

Alone(list, i, attr) ==
    list[i][attr] # "" /\ \A j \in DOMAIN list : list[j][attr] = list[i][attr] => j = i

UnlabeledSetKind(i, n) == IF n >= 2 /\ i = 1 THEN "first" ELSE IF n >= 2 /\ i = n THEN "last" ELSE "nth"

Capture(list, i, rooted) ==
    [kind   |-> CASE Alone(list, i, "testid") -> "testid"
                  [] ~Alone(list, i, "testid") /\ Alone(list, i, "name") -> "role"
                  [] OTHER -> IF rooted THEN "relative" ELSE UnlabeledSetKind(i, Len(list)),
     key    |-> list[i].key, testid |-> list[i].testid, name |-> list[i].name,
     index  |-> i, count |-> Len(list)]

FinderInit ==
    \E n \in 1..MaxListed, rooted \in BOOLEAN, use \in {"replay", "batch"} :
        \E look \in [1..n -> (TestIds \cup {""}) \X (Names \cup {""})] :
            /\ elements = [i \in 1..n |-> [key |-> i, testid |-> look[i][1], name |-> look[i][2],
                                           shown |-> TRUE]]
            /\ \E i \in 1..n : recorded = Capture(elements, i, rooted)
            /\ finding = [use |-> use, again |-> FALSE,
                          at |-> IF use = "replay" THEN "poll" ELSE "remap"]
            /\ seen = Place0 /\ acted = Nobody
            /\ changes = [kinds |-> {}, n |-> 0]

-----------------------------------------------------------------------------
(* What a candidate stands for                                               *)

\* recorded_element_identity and actual_identity_snapshot_matches
HasIdentity(r) == r.testid # "" \/ r.name # ""
Matches(r, e) == /\ r.testid # "" => e.testid = r.testid
                 /\ r.name # "" => e.name = r.name

\* Places of a list, and the element there when it is the only one
Visible(list) == {i \in DOMAIN list : list[i].shown}
Where(list, attr, value) == {i \in Visible(list) : list[i][attr] = value}
Only(list, places) ==
    IF \E i \in places : places = {i} THEN list[CHOOSE i \in places : TRUE] ELSE Nobody

\* Its neighbours: how many siblings, and whether there is one on either side
Fingerprint(list, e) ==
    LET i == CHOOSE j \in DOMAIN list : list[j] = e
    IN  <<Len(list), i > 1, i < Len(list)>>
RecordedPrint(r) == <<r.count, r.index > 1, r.index < r.count>>

\* apply_locator, and the ordinal of a counted set: what can be seen of the matches
Candidates(r, list) ==
    LET shown == Visible(list) IN
    CASE r.kind = "testid"   -> Where(list, "testid", r.testid)
      [] r.kind = "role"     -> Where(list, "name", r.name)
      [] r.kind = "relative" -> shown \cap {r.index}
      [] r.kind = "last"     -> {i \in shown : \A j \in shown : j <= i}
      [] OTHER               -> {i \in shown : Cardinality({j \in shown : j <= i}) = r.index}

\* Mutant: of several matches the first one is taken.
LocatedFirst(r, list) ==
    LET found == Candidates(r, list)
    IN  Only(list, {i \in found : \A j \in found : i <= j})

\* unique_locator_or_none, as Playwright evaluates it at every use
Located(r, list) == Only(list, Candidates(r, list))

\* try_resolve_from_candidates: a set must not have shrunk, and inside of it the
\* neighbours must be the recorded ones
Resolves(r, list) ==
    /\ Located(r, list) # Nobody
    /\ r.kind \in Counted => Cardinality(Visible(list)) >= r.count
    /\ r.kind = "nth" => Fingerprint(list, Located(r, list)) = RecordedPrint(r)

Found == Located(recorded, elements)

-----------------------------------------------------------------------------
(* Replay: resolve_replay_locator, the identity gate, the action             *)

At(p) == finding' = [finding EXCEPT !.at = p]

\* An error: the step is tried once more
Fails == finding' = IF finding.again \/ finding.use = "batch" THEN [finding EXCEPT !.at = "missed"]
                    ELSE [finding EXCEPT !.at = "poll", !.again = TRUE]

Poll ==
    /\ finding.at = "poll" /\ Resolves(recorded, elements)
    /\ At("verify")
    /\ UNCHANGED <<elements, recorded, seen, acted, changes>>

PollDeadline ==
    /\ finding.at = "poll" /\ ~Resolves(recorded, elements)
    /\ Fails
    /\ UNCHANGED <<elements, recorded, seen, acted, changes>>

\* assert_locator_matches_identity
Verify ==
    /\ finding.at = "verify"
    /\ IF HasIdentity(recorded) /\ (Found = Nobody \/ ~Matches(recorded, Found)) THEN Fails ELSE At("act")
    /\ UNCHANGED <<elements, recorded, seen, acted, changes>>

ActOn(e) == acted' = e /\ At("done")

\* click or fill: on what the locator finds now
ActReplay ==
    /\ finding.at = "act" /\ Found # Nobody
    /\ ActOn(Found)
    /\ UNCHANGED <<elements, recorded, seen, changes>>

\* click_with_fallback: something is in the way, or nothing is found in time;
\* the identity is checked again before el.click().  A fill only fails.
ActReplayFails ==
    /\ finding.at = "act"
    /\ \/ Fails
       \/ /\ HasIdentity(recorded) => Found # Nobody /\ Matches(recorded, Found)
          /\ At("press")
    /\ UNCHANGED <<elements, recorded, seen, acted, changes>>

Press ==
    /\ finding.at = "press" /\ finding.use = "replay"
    /\ IF Found = Nobody THEN Fails /\ UNCHANGED acted ELSE ActOn(Found)
    /\ UNCHANGED <<elements, recorded, seen, changes>>

-----------------------------------------------------------------------------
(* Batch: the element is found in the tree read after the last action        *)

SeenAt(i) == IF i = 0 THEN Place0
             ELSE [at |-> i, testid |-> elements[i].testid, name |-> elements[i].name]

\* find_history_element_in_tree: branch, attributes and xpath; the text is in none
HashMatch(r, list) == r.index \in DOMAIN list /\ list[r.index].shown /\ list[r.index].testid = r.testid

\* _nth_structure_matches and _resolve_locator_kind_in_tree.  In the tree a
\* hidden element counts.
TreePlace(r, list) ==
    LET the(attr) == {i \in DOMAIN list : list[i][attr] = r[attr] /\ Alone(list, i, attr)}
        counted == IF Len(list) < r.count THEN {}
                   ELSE IF r.kind = "last" THEN {Len(list)} ELSE {r.index}
        places == CASE r.kind \in {"testid"} -> the("testid")
                    [] r.kind = "role" -> the("name")
                    [] r.kind = "relative" -> DOMAIN list \cap {r.index}
                    [] r.kind = "nth" -> {i \in counted : Fingerprint(list, list[i]) = RecordedPrint(r)}
                    [] OTHER -> counted
    IN  IF places = {} THEN 0 ELSE CHOOSE i \in places : TRUE

\* resolve_history_element_in_tree, and what _resolve_element_for_action falls
\* back to: the element that now has the same xpath
RemapPlace(r, list) ==
    IF HashMatch(r, list) /\ (r.kind \in Counted => r.kind = "nth" /\ TreePlace(r, list) = r.index)
    THEN r.index
    ELSE IF TreePlace(r, list) # 0 THEN TreePlace(r, list)
    ELSE IF r.index \in DOMAIN list /\ list[r.index].shown THEN r.index ELSE 0

Remap ==
    /\ finding.at = "remap"
    /\ seen' = SeenAt(RemapPlace(recorded, elements))
    /\ IF seen'.at = 0 THEN At("missed") ELSE At("pin")
    /\ UNCHANGED <<elements, recorded, acted, changes>>

\* Mutant: the handle is taken by its xpath alone.
PinnedByXPath == IF seen.at \in DOMAIN elements THEN {elements[seen.at]} ELSE {}

\* _query_unique_handle: by xpath, or else by css, with the identity of what was seen
Pinned ==
    LET byXPath == IF seen.at \in DOMAIN elements /\ Matches(seen, elements[seen.at])
                   THEN {elements[seen.at]} ELSE {}
        sameCss == {e \in ToSet(elements) : seen.testid # "" => e.testid = seen.testid}
        byCss == IF ~HasIdentity(seen) /\ Cardinality(sameCss) > 1 THEN {}
                 ELSE {e \in sameCss : Matches(seen, e)}
    IN  IF byXPath # {} THEN byXPath ELSE IF Cardinality(byCss) = 1 THEN byCss ELSE {}

\* _locate_element_with_retry; a handle stays with its element
Pin ==
    /\ finding.at = "pin" /\ Pinned # {}
    /\ \E e \in Pinned : ActOn(e)
    /\ UNCHANGED <<elements, recorded, seen, changes>>

PinMisses ==
    /\ finding.at = "pin"
    /\ At("missed")
    /\ UNCHANGED <<elements, recorded, seen, acted, changes>>

-----------------------------------------------------------------------------
(* The page changes by itself                                                *)

Change(kind, list) ==
    /\ finding.at \notin {"done", "missed"} /\ changes.n < MaxChanges
    /\ elements' = list
    /\ changes' = [kinds |-> changes.kinds \cup {kind}, n |-> changes.n + 1]
    /\ UNCHANGED <<recorded, finding, seen, acted>>

Appear ==
    \E t \in TestIds \cup {""}, m \in Names \cup {""} :
        LET new == <<[key |-> MaxListed + changes.n + 1, testid |-> t, name |-> m, shown |-> TRUE]>>
        IN  Change("front", new \o elements) \/ Change("end", elements \o new)
Disappear == \E i \in DOMAIN elements : Change("gone", RemoveAt(elements, i))
Toggle == \E i \in DOMAIN elements : Change("hidden", [elements EXCEPT ![i].shown = ~@])

FinderNext ==
    \/ Poll \/ PollDeadline \/ Verify \/ ActReplay \/ ActReplayFails \/ Press
    \/ Remap \/ Pin \/ PinMisses
    \/ Appear \/ Disappear \/ Toggle

FinderSpec == FinderInit /\ [][FinderNext]_finderVars

-----------------------------------------------------------------------------
Target == {e \in ToSet(elements) : e.key = recorded.key /\ e.shown}

\* A replayed action on an element recorded by a unique name or test id acts on
\* that element, if it is still to be seen, whatever else appeared meanwhile.  One
\* recorded as the first of a set, or inside of it, is found again when the set only
\* grew at its end, and one recorded as the last when it only grew at its front.
ReplayedClickHitsTarget ==
    finding.use = "replay" /\ acted # Nobody =>
        /\ recorded.kind \in {"testid", "role"} => Target \subseteq {acted}
        /\ changes.kinds \subseteq {"end"} /\ recorded.kind \in {"first", "nth", "relative"}
              => acted.key = recorded.key
        /\ changes.kinds \subseteq {"front"} /\ recorded.kind = "last" => acted.key = recorded.key

\* The page may change between the look at it and the action of a batch: the
\* action hits an element that looks like the one that was seen, or none.
PinnedLooksAsSeen ==
    finding.use = "batch" /\ acted # Nobody => Matches(seen, acted)
==============================================================================
