------------------------------ MODULE TaskPurge ------------------------------
(***************************************************************************)
(* What goes when a user deletes a project, a test or a run                *)
(* (_runs_for_website, _runs_for_website_task, _purge_owned_runs and the   *)
(* handlers of server/app.py, storage/websites.py).  The code calls a      *)
(* project a website and a test a website task.                            *)
(*                                                                         *)
(* A run may belong to a site and to one of its tests, or only bear a      *)
(* test's name; an automatic run plays the replay script of its source,    *)
(* which may be gone itself as long as the script is kept for the runs     *)
(* that play it.  The handlers run on the event loop without an await, one *)
(* after the other; RunLifecycle has what a run's thread does meanwhile,   *)
(* here its end is one step.  The names of tests and runs are left open:   *)
(* which runs bear the name of a test is found out when it is deleted.     *)
(***************************************************************************)
EXTENDS Naturals, Sequences

CONSTANTS
    MaxSites,    \* bound: websites at a time
    MaxTests,    \* bound: website tasks at a time
    MaxLaunched  \* bound: runs ever started

ASSUME PurgeAssumption ==
    /\ MaxSites \in Nat /\ MaxTests \in Nat /\ MaxLaunched \in Nat

Sites == 1..MaxSites   \* ids, as those of runs are; 0 is None
Tests == 1..MaxTests

VARIABLES
    sites,   \* the websites there are
    tests,   \* their tasks
    runs,    \* every run ever started, by its number
    scripts  \* the runs whose replay script is on disk

purgeVars == <<sites, tests, runs, scripts>>

Test == [listed : BOOLEAN, site : Sites \cup {0}, trained : Nat]
Unlisted == [listed |-> FALSE, site |-> 0, trained |-> 0]

\* known: in memory or in the database
Run == [known : BOOLEAN, site : Sites \cup {0}, test : Tests \cup {0},
        source : Nat, active : BOOLEAN]
Gone == [known |-> FALSE, site |-> 0, test |-> 0, source |-> 0, active |-> FALSE]

PurgeTypeOK ==
    /\ sites \subseteq Sites
    /\ tests \in [Tests -> Test]
    /\ runs \in Seq(Run)
    /\ scripts \subseteq DOMAIN runs

PurgeInit ==
    /\ sites = {} /\ tests = [t \in Tests |-> Unlisted]
    /\ runs = <<>> /\ scripts = {}

Owned == {r \in DOMAIN runs : runs[r].known}

-----------------------------------------------------------------------------
(* Websites and their tasks.  The code draws new ids; one that is free again *)
(* is as good as new, since no run bears it (RunsHaveTheirTest).             *)

Listing(new, s) ==
    [t \in Tests |-> IF t \in new THEN [listed |-> TRUE, site |-> s, trained |-> 0]
                     ELSE tests[t]]
FreeTests == {t \in Tests : ~tests[t].listed}
TestsOfSite(s) == {t \in Tests : tests[t].listed /\ tests[t].site = s}

\* create_website; import_website lists tests too, those before the first bad one
CreateSite ==
    /\ \E s \in Sites \ sites : \E new \in SUBSET FreeTests :
        /\ sites' = sites \cup {s}
        /\ tests' = Listing(new, s)
    /\ UNCHANGED <<runs, scripts>>

\* create_website_task, import_website_tasks
AddTests ==
    /\ \E s \in sites : \E new \in SUBSET FreeTests :
        tests' = Listing(new, s)
    /\ UNCHANGED <<sites, runs, scripts>>

-----------------------------------------------------------------------------
(* Runs                                                                      *)

\* _user_has_automatic_dependent, among the runs rest
Played(rest, r) == \E d \in rest : runs[d].source = r

\* _user_can_use_source_replay
Playable == {r \in scripts : r \in Owned \/ Played(Owned, r)}

\* start_run: one at a time, of a website and a task that are there
StartRun ==
    /\ Len(runs) < MaxLaunched
    /\ \A r \in Owned : ~runs[r].active
    /\ \E s \in sites \cup {0}, src \in Playable \cup {0} : \E t \in TestsOfSite(s) \cup {0} :
        runs' = Append(runs, [known |-> TRUE, site |-> s, test |-> t,
                              source |-> src, active |-> TRUE])
    /\ UNCHANGED <<sites, tests, scripts>>

\* _cancel_active_run and the finally block of run_automation.  A training that
\* passed saves its script, if it can be written, and becomes its test's; one
\* that failed loses the script a user has put there.
RunEnds ==
    /\ \E r \in Owned :
        /\ runs[r].active
        /\ runs' = [runs EXCEPT ![r].active = FALSE]
        /\ \/ UNCHANGED <<scripts, tests>>
           \/ runs[r].source = 0 /\ scripts' = scripts \ {r} /\ UNCHANGED tests
           \/ /\ runs[r].source = 0
              /\ scripts' = scripts \cup {r}
              /\ tests' = [t \in Tests |->
                    IF t = runs[r].test /\ tests[t].listed /\ tests[t].site = runs[r].site
                    THEN [tests[t] EXCEPT !.trained = r] ELSE tests[t]]
    /\ UNCHANGED sites

\* update_run_replay: of any run, an automatic one as well
EditScript ==
    /\ \E r \in Owned : scripts' = scripts \cup {r}
    /\ UNCHANGED <<sites, tests, runs>>

-----------------------------------------------------------------------------
(* _purge_owned_runs                                                         *)

\* Mutant: the script of a source that went before is left.
ScriptsWithOrphans(gone) ==
    scripts \ {r \in gone : ~Played(Owned \ gone, r)}

\* Mutant: scripts go with their runs.
ScriptsUnretained(gone) ==
    scripts \ (gone \cup {r \in {runs[d].source : d \in gone} :
                            r \notin Owned \ gone /\ ~Played(Owned \ gone, r)})

\* The scripts of the purged runs and of the sources they played, but those that
\* a run which stays still plays
ScriptsAfter(gone) ==
    scripts \ {r \in gone \cup {runs[d].source : d \in gone} :
                  r \notin Owned \ gone /\ ~Played(Owned \ gone, r)}

\* clear_last_trained_run_id
Untrained(gone) ==
    [t \in Tests |-> IF tests[t].trained \in gone THEN [tests[t] EXCEPT !.trained = 0]
                     ELSE tests[t]]

\* Refused as a whole while one of the runs is active
PurgeRuns(gone) ==
    /\ \A r \in gone : ~runs[r].active
    /\ runs' = [r \in DOMAIN runs |-> IF r \in gone THEN Gone ELSE runs[r]]
    /\ scripts' = ScriptsAfter(gone)

\* DELETE of a run
PurgeRun ==
    /\ \E r \in Owned : PurgeRuns({r}) /\ tests' = Untrained({r})
    /\ UNCHANGED sites

\* Mutant: one round over the runs.
FamilyOneRound(base, s) ==
    base \cup {r \in Owned : runs[r].source \in base /\ runs[r].site \in {0, s}}

\* The loop at the end of both: the smallest set of runs with base and every
\* automatic run of the site, or of none, whose source is in it
Family(base, s) ==
    {r \in Owned : \A F \in SUBSET Owned :
        (/\ base \subseteq F
         /\ \A d \in Owned : (runs[d].source \in F /\ runs[d].site \in {0, s}) => d \in F)
        => r \in F}

\* Mutant: the runs of the test by its name and its pointer alone.
RunsOfOldTest(t) == {r \in Owned : r = tests[t].trained}

RunsOfTest(t) == {r \in Owned : runs[r].test = t \/ r = tests[t].trained}

\* Runs that may bear the name of the test, or its text if it has no name: only
\* those without a test of their own count.
MayBearItsName(t) == {r \in Owned : runs[r].test = 0 /\ runs[r].site = tests[t].site}

\* delete_website_task, _runs_for_website_task
DeleteTest ==
    /\ \E t \in Tests \ FreeTests : \E named \in SUBSET MayBearItsName(t) :
        LET gone == Family(RunsOfTest(t) \cup named, tests[t].site) IN
        /\ PurgeRuns(gone)
        /\ tests' = [Untrained(gone) EXCEPT ![t] = Unlisted]
    /\ UNCHANGED sites

\* delete_website, _runs_for_website; its tasks go with it
RunsOfSite(s) ==
    {r \in Owned : \/ runs[r].site = s \/ runs[r].test \in TestsOfSite(s)
                   \/ \E t \in TestsOfSite(s) : r = tests[t].trained}

DeleteSite ==
    \E s \in sites :
        LET gone == Family(RunsOfSite(s), s) IN
        /\ PurgeRuns(gone)
        /\ tests' = [t \in Tests |-> IF t \in TestsOfSite(s) THEN Unlisted
                                     ELSE Untrained(gone)[t]]
        /\ sites' = sites \ {s}

PurgeNext ==
    \/ CreateSite \/ AddTests \/ StartRun \/ RunEnds \/ EditScript
    \/ PurgeRun \/ DeleteTest \/ DeleteSite

PurgeSpec == PurgeInit /\ [][PurgeNext]_purgeVars

-----------------------------------------------------------------------------
\* Whatever is deleted in whatever order, no script is left on disk that no run
\* of the user can reach: its own run is there, or one that plays it.
ScriptsHaveAnOwner == \A r \in scripts : r \in Owned \/ Played(Owned, r)

\* An automatic run finds the script of its source as long as it is there itself,
\* even when the source has gone with its test, or with many others at once.
DependentsFindTheirScript ==
    \A d \in Owned : runs[d].source # 0 => runs[d].source \in scripts

\* A deleted test or project leaves no run behind that belongs to it, so that no
\* run that is listed or ends names a project or a test that is not there.
RunsHaveTheirTest ==
    \A r \in Owned :
        /\ runs[r].site \in sites \cup {0}
        /\ runs[r].test # 0 =>
               tests[runs[r].test].listed /\ tests[runs[r].test].site = runs[r].site

Lost == Owned \ {r \in DOMAIN runs' : runs'[r].known}
Delisted == {t \in Tests : tests[t].listed /\ ~tests'[t].listed}
Deserted == {tests[t].site : t \in Delisted} \cup (sites \ sites')

\* A test or project goes with all that was replayed from it, at any remove: no
\* automatic run of the site or of none is left behind whose source has gone.  And
\* it takes nothing else along: no active run, no training of another test.
DeletesTakeTheFamily ==
    [][/\ \A s \in Deserted : \A d \in Owned \ Lost :
            runs[d].source \in Lost => runs[d].site \notin {0, s}
       /\ \A r \in Lost :
            /\ ~runs[r].active
            /\ Delisted # {} => \/ runs[r].test \in Delisted \cup {0}
                                \/ runs[r].source # 0]_purgeVars
==============================================================================
