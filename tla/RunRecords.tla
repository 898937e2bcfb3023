------------------------------ MODULE RunRecords ------------------------------
(***************************************************************************)
(* Where one user's automation runs are recorded: the RunState objects in  *)
(* memory (server/run_state.py), their rows in the database (run_store.py), *)
(* their replay scripts (replay_store.py) and the task's                    *)
(* last_trained_run_id (storage/websites.py).  The history, the report and  *)
(* the screenshots of a run are read by nobody here and are left out.       *)
(*                                                                         *)
(* A run may have two RunState objects: the one its thread works on, and a  *)
(* copy rehydrated from the row after the first was evicted or the server   *)
(* was restarted.                                                          *)
(***************************************************************************)
EXTENDS Naturals, FiniteSets

CONSTANTS
    Runs,       \* run ids
    NoRun,      \* None
    MaxMem      \* _MAX_RUNS_IN_MEMORY

ASSUME RecordsAssumption == /\ NoRun \notin Runs
                            /\ MaxMem \in Nat

RunOrNone == Runs \cup {NoRun}

\* Mutant: a run that waits for its human is not active.
ActiveWithoutHuman == {"pending", "running"}

ActiveStatus == {"pending", "running", "awaiting_human"}
\* "fail" stands for the code's "fail" and "error".
Status == ActiveStatus \cup {"pass", "fail", "cancelled"}

VARIABLES
    mem,       \* _runs: "none", "own" (the thread's object) or a copy's status
    row,       \* RunRow.status, or "none"
    replays,   \* the runs whose replay script is on disk
    trained,   \* last_trained_run_id of the task the runs belong to
    source     \* source_run_id of an automatic run, or NoRun

recordVars == <<mem, row, replays, trained, source>>

RecordsTypeOK ==
    /\ mem \in [Runs -> Status \cup {"none", "own"}]
    /\ row \in [Runs -> Status \cup {"none"}]
    /\ replays \subseteq Runs
    /\ trained \in RunOrNone
    /\ source \in [Runs -> RunOrNone]

RecordsInit ==
    /\ mem = [r \in Runs |-> "none"]
    /\ row = [r \in Runs |-> "none"]
    /\ replays = {}
    /\ trained = NoRun
    /\ source = [r \in Runs |-> NoRun]

\* The status a lookup in memory m shows, when the threads' objects have obj.
StatusIn(m, obj, r) == IF m[r] = "own" THEN obj[r] ELSE m[r]
ActiveIn(m, obj) == {r \in Runs : StatusIn(m, obj, r) \in ActiveStatus}

\* get_run_for_user and list_runs_for_user read the rows of S that are not in
\* memory.
Rehydrated(m, rows, S) ==
    [r \in Runs |-> IF r \in S /\ m[r] = "none" THEN rows[r] ELSE m[r]]

\* Mutant: running runs are evicted as well.
EvictAny(m, obj) ==
    LET held == {r \in Runs : m[r] # "none"}
        excess == IF Cardinality(held) > MaxMem THEN Cardinality(held) - MaxMem ELSE 0
    IN  {[r \in Runs |-> IF r \in out THEN "none" ELSE m[r]] :
            out \in {e \in SUBSET held : Cardinality(e) = excess}}

\* _evict_old_runs: down to MaxMem objects as far as finished ones go.  Which
\* of them finished first is left open.
Evict(m, obj) ==
    LET held == {r \in Runs : m[r] # "none"}
        finished == held \ ActiveIn(m, obj)
        excess == IF Cardinality(held) > MaxMem THEN Cardinality(held) - MaxMem ELSE 0
        n == IF excess > Cardinality(finished) THEN Cardinality(finished) ELSE excess
    IN  {[r \in Runs |-> IF r \in out THEN "none" ELSE m[r]] :
            out \in {e \in SUBSET finished : Cardinality(e) = n}}

\* _user_has_automatic_dependent, over what list_runs_for_user returned
Dependents(m, s) == {r \in Runs : m[r] # "none" /\ source[r] = s}
==============================================================================
