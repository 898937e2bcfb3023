-------------------------- MODULE RunLifecycleProofs --------------------------
(***************************************************************************)
(* Theorems about RunLifecycle, for any number of runs, any size of the    *)
(* memory and any environment unless one is named.                         *)
(***************************************************************************)
EXTENDS RunLifecycle, TLAPS

MemStatus == Status \cup {"none", "own"}

-----------------------------------------------------------------------------
(* Operators *)

\* Eviction drops finished objects and changes nothing else.
LEMMA EvictKeeps ==
    ASSUME NEW m \in [Runs -> MemStatus], NEW obj, NEW n \in Evict(m, obj)
    PROVE  /\ n \in [Runs -> MemStatus]
           /\ \A r \in Runs : n[r] \in {m[r], "none"}
           /\ \A r \in ActiveIn(m, obj) : n[r] = m[r]
<1> DEFINE held == {r \in Runs : m[r] # "none"}
           finished == held \ ActiveIn(m, obj)
<1>1. PICK out \in SUBSET finished : n = [r \in Runs |-> IF r \in out THEN "none" ELSE m[r]]
  BY Zenon DEF Evict
<1>2. QED BY <1>1 DEF MemStatus, ActiveIn

\* Rehydration fills what was not in memory, from the rows.
LEMMA RehydratedKeeps ==
    ASSUME NEW m \in [Runs -> MemStatus], NEW rows \in [Runs -> Status \cup {"none"}], NEW S
    PROVE  /\ Rehydrated(m, rows, S) \in [Runs -> MemStatus]
           /\ \A r \in Runs : m[r] # "none" => Rehydrated(m, rows, S)[r] = m[r]
           /\ \A r \in Runs : Rehydrated(m, rows, S)[r] \in {m[r], rows[r]}
           /\ \A r \in Runs \cap S : m[r] = "none" => Rehydrated(m, rows, S)[r] = rows[r]
BY DEF Rehydrated, MemStatus

-----------------------------------------------------------------------------
(* Type correctness *)

LEMMA InitType == Init => TypeOK
BY RecordsAssumption DEF Init, RecordsInit, TypeOK, RecordsTypeOK, Idle, Thread, ThreadPc,
   RunOrNone, Status

\* The memory that any handler leaves behind.
LEMMA HandlerMem ==
    ASSUME TypeOK, NEW r \in Runs, NEW S, NEW obj,
           \/ mem' \in Evict(Rehydrated(mem, row, S), obj)
           \/ mem' \in Evict([mem EXCEPT ![r] = "own"], obj)
           \/ mem' \in Evict([Rehydrated(mem, row, S) EXCEPT ![r] = "own"], obj)
           \/ mem' \in Evict(Rehydrated([mem EXCEPT ![r] = "none"],
                                        [row EXCEPT ![r] = "none"], S), obj)
    PROVE  mem' \in [Runs -> MemStatus]
<1>1. mem \in [Runs -> MemStatus] /\ row \in [Runs -> Status \cup {"none"}]
  BY DEF TypeOK, RecordsTypeOK, MemStatus
<1>2. /\ [mem EXCEPT ![r] = "none"] \in [Runs -> MemStatus]
      /\ [mem EXCEPT ![r] = "own"] \in [Runs -> MemStatus]
      /\ [row EXCEPT ![r] = "none"] \in [Runs -> Status \cup {"none"}]
  BY <1>1 DEF MemStatus
<1>3. /\ Rehydrated(mem, row, S) \in [Runs -> MemStatus]
      /\ Rehydrated([mem EXCEPT ![r] = "none"], [row EXCEPT ![r] = "none"], S)
            \in [Runs -> MemStatus]
  BY <1>1, <1>2, RehydratedKeeps
<1>4. [Rehydrated(mem, row, S) EXCEPT ![r] = "own"] \in [Runs -> MemStatus]
  BY <1>3 DEF MemStatus
<1>5. QED BY <1>1, <1>2, <1>3, <1>4, EvictKeeps

LEMMA HandlerType == ASSUME TypeOK, Handler PROVE TypeOK'
<1> USE DEF TypeOK, RecordsTypeOK
<1>1. ASSUME NEW r \in Runs, NEW m \in {"training", "manual", "automatic"},
             NEW s \in RunOrNone, StartRun(r, m, s)
      PROVE  TypeOK'
  <2>1. mem' \in [Runs -> MemStatus]
    BY <1>1, HandlerMem DEF StartRun
  <2>2. thread' \in [Runs -> Thread] /\ row' \in [Runs -> Status \cup {"none"}]
    BY <1>1 DEF StartRun, Idle, Thread, ThreadPc, Status, ActiveStatus
  <2>3. QED BY <1>1, <2>1, <2>2 DEF StartRun, MemStatus, RunOrNone
<1>2. ASSUME NEW r \in Runs, ReadRun(r) PROVE TypeOK'
  BY <1>2, HandlerMem DEF ReadRun, MemStatus
<1>3. ASSUME NEW r \in Runs, EditReplay(r) PROVE TypeOK'
  BY <1>3 DEF EditReplay
<1>4. ASSUME NEW r \in Runs, CancelMarks(r) PROVE TypeOK'
  <2> DEFINE stop == thread[r].stopped \/ thread[r].pc \in WithExecutor
             t == [thread[r] EXCEPT !.cancelled = TRUE, !.status = "cancelled",
                                    !.stopped = stop]
  <2>1. t \in Thread
    <3>1. stop \in BOOLEAN
      BY Zenon DEF Thread
    <3> HIDE DEF stop
    <3>2. \A u \in Thread, b \in BOOLEAN :
            [u EXCEPT !.cancelled = TRUE, !.status = "cancelled", !.stopped = b] \in Thread
      BY DEF Thread, Status
    <3>3. QED BY <3>1, <3>2
  <2>2. thread' \in {thread, [thread EXCEPT ![r] = t]}
    BY <1>4, Zenon DEF CancelMarks
  <2>3. thread' \in [Runs -> Thread]
    <3> HIDE DEF t
    <3>1. QED BY <2>1, <2>2
  <2>4. mem' \in [Runs -> MemStatus]
    BY <1>4 DEF CancelMarks, Status, MemStatus
  <2>5. QED BY <1>4, <2>3, <2>4 DEF CancelMarks, MemStatus, RunOrNone
<1>5. ASSUME NEW r \in Runs, Purge(r) PROVE TypeOK'
  <2>1. mem' \in [Runs -> MemStatus]
    BY <1>5, HandlerMem DEF Purge
  <2>2. row' \in [Runs -> Status \cup {"none"}] /\ replays' \subseteq Runs
    BY <1>5 DEF Purge
  <2>3. QED BY <1>5, <2>1, <2>2 DEF Purge, MemStatus, RunOrNone
<1>6. CASE ListRuns
  BY <1>6, HandlerMem DEF ListRuns, MemStatus
<1>7. CASE CancelPersists
  <2>1. api \in Runs
    BY <1>7 DEF CancelPersists, RunOrNone
  <2>2. StatusIn(mem, objStatus, api) \in Status \cup {"none"}
    BY <2>1 DEF StatusIn, objStatus, Thread
  <2>3. QED BY <1>7, <2>2 DEF CancelPersists, RunOrNone
<1>8. QED BY <1>1, <1>2, <1>3, <1>4, <1>5, <1>6, <1>7 DEF Handler, RunOrNone

\* What a step of the thread of r may make of it.
LEMMA ThreadRecords ==
    ASSUME TypeOK, NEW r \in Runs, NEW pc \in ThreadPc, NEW status \in Status
    PROVE  /\ At(r, pc) \in Thread
           /\ Ends(r, pc, status) \in Thread
           /\ Raises(r, pc, status) \in Thread
           /\ \A a \in BOOLEAN : [Ends(r, pc, status) EXCEPT !.awaiting = a] \in Thread
           /\ [Ends(r, pc, status) EXCEPT !.awaiting = FALSE, !.stopped = TRUE] \in Thread
           /\ [At(r, pc) EXCEPT !.stopped = FALSE, !.awaiting = FALSE] \in Thread
BY DEF TypeOK, At, Ends, Raises, Thread, Status

LEMMA QuietType ==
    ASSUME TypeOK, NEW r \in Runs, NEW from, NEW t \in Thread, Quietly(r, from, t)
    PROVE  TypeOK'
BY DEF TypeOK, RecordsTypeOK, Quietly, Step, recordVars

LEMMA ExecutorType == ASSUME TypeOK, NEW r \in Runs, ExecutorStep(r) PROVE TypeOK'
<1> USE DEF ThreadPc, WithExecutor, Status, ActiveStatus
<1>1. CASE KeepsGoing(r) \/ StepDone(r)
  BY <1>1, ThreadRecords, QuietType DEF KeepsGoing, StepDone
<1>2. CASE NeedsHuman(r)
  BY <1>2, ThreadRecords, QuietType DEF NeedsHuman
<1>3. CASE HumanTimesOut(r)
  BY <1>3, ThreadRecords, QuietType DEF HumanTimesOut
<1>4. CASE SeesStop(r)
  BY <1>4, ThreadRecords, QuietType DEF SeesStop
<1>5. CASE ExecuteFails(r) \/ ExecuteReturns(r)
  BY <1>5, ThreadRecords, QuietType DEF ExecuteFails, ExecuteReturns
<1>6. QED BY <1>1, <1>2, <1>3, <1>4, <1>5 DEF ExecutorStep

LEMMA ThreadStepType ==
    ASSUME TypeOK, NEW r \in Runs, ThreadStep(r) \/ HumanReturns(r)
    PROVE  TypeOK'
<1> USE DEF ThreadPc, WithExecutor, Status, ActiveStatus
<1>1. CASE Begin(r) \/ Loads(r) \/ OpenFails(r) \/ Opens(r) \/ CheckCancelled(r)
  BY <1>1, ThreadRecords, QuietType DEF Begin, Loads, OpenFails, Opens, CheckCancelled
<1>2. CASE ExecutorStep(r)
  BY <1>2, ExecutorType
<1>3. CASE AfterExecute(r) \/ Grade(r) \/ GradeFails(r)
  <2>1. CASE AfterExecute(r)
    BY <1>3, <2>1, ThreadRecords, QuietType DEF AfterExecute
  <2>2. CASE Grade(r)
    BY <1>3, <2>2, ThreadRecords, QuietType DEF Grade
  <2>3. CASE GradeFails(r)
    BY <1>3, <2>3, ThreadRecords, QuietType DEF GradeFails
  <2>4. QED BY <1>3, <2>1, <2>2, <2>3
<1>4. CASE SavesAnything(r) \/ HumanReturns(r)
  BY <1>4, ThreadRecords, QuietType DEF SavesAnything, HumanReturns
<1>5. CASE SaveReplay(r)
  <2>1. PICK pc \in {"pointer", "persist"} : thread' = [thread EXCEPT ![r] = At(r, pc)]
    BY <1>5, Zenon DEF SaveReplay, Step
  <2>2. thread' \in [Runs -> Thread]
    BY <2>1, ThreadRecords DEF TypeOK
  <2>3. QED BY <1>5, <2>2 DEF SaveReplay, TypeOK, RecordsTypeOK
<1>6. CASE SetPointer(r)
  <2>1. thread' \in [Runs -> Thread]
    BY <1>6, ThreadRecords DEF SetPointer, Step, TypeOK
  <2>2. QED BY <1>6, <2>1 DEF SetPointer, TypeOK, RecordsTypeOK, RunOrNone
<1>7. CASE Persist(r)
  <2>1. thread' \in [Runs -> Thread]
    BY <1>7, ThreadRecords DEF Persist, Step, TypeOK
  <2>2. thread[r].status \in Status \cup {"none"}
    BY DEF TypeOK, Thread
  <2>3. QED BY <1>7, <2>1, <2>2 DEF Persist, TypeOK, RecordsTypeOK
<1>8. QED BY <1>1, <1>2, <1>3, <1>4, <1>5, <1>6, <1>7 DEF ThreadStep

LEMMA RestartType == ASSUME TypeOK, Restart PROVE TypeOK'
<1>1. \A pc \in ThreadPc : [Idle EXCEPT !.pc = pc] \in Thread
  BY DEF Idle, Thread
<1>2. Idle \in Thread
  BY DEF Idle, Thread, ThreadPc
<1>3. thread' \in [Runs -> Thread]
  BY <1>1, <1>2 DEF Restart, ThreadPc
<1>4. QED BY <1>3 DEF Restart, TypeOK, RecordsTypeOK, RunOrNone

LEMMA TypeInductive == TypeOK /\ [Next]_vars => TypeOK'
<1> SUFFICES ASSUME TypeOK, [Next]_vars PROVE TypeOK'
  OBVIOUS
<1>1. CASE UNCHANGED vars
  BY <1>1 DEF vars, recordVars, TypeOK, RecordsTypeOK
<1>2. QED BY <1>1, HandlerType, RestartType, ThreadStepType DEF Next

\* Every record, every run object and every thread keeps its type.
THEOREM TypeCorrectness == Spec => []TypeOK
BY InitType, TypeInductive, PTL DEF Spec

-----------------------------------------------------------------------------
(* One run at a time *)

\* OneRunAtWork is not inductive: the start gate sees a run through the memory,
\* so a run at work must be there, with its own object, and shown as active.
WorkInv == TypeOK /\ RunAtWorkIsControllable /\ OneRunAtWork

\* A run at work is in sight of whatever counts active runs.
LEMMA AtWorkIsSeen ==
    ASSUME WorkInv, NEW q \in Runs, AtWork(q)
    PROVE  /\ mem[q] = "own" /\ thread[q].status \in ActiveStatus
           /\ \A m : m[q] = "own" => q \in ActiveIn(m, objStatus)
           /\ Known(q) /\ Shown(q) \in ActiveStatus
BY DEF WorkInv, RunAtWorkIsControllable, Active, StatusIn, objStatus, ActiveIn, Known, Shown

\* A handler that moves no thread and drops no run at work keeps the invariant.
LEMMA MemKeepsWork ==
    ASSUME WorkInv, TypeOK', thread' = thread,
           \A q \in Runs : AtWork(q) => mem'[q] = mem[q]
    PROVE  WorkInv'
BY DEF WorkInv, RunAtWorkIsControllable, OneRunAtWork, AtWork, Active, StatusIn, objStatus

\* A thread step does not bring a run to work, and moves no other thread.
LEMMA ThreadKeepsWork ==
    ASSUME WorkInv, TypeOK', NEW r \in Runs, UNCHANGED mem,
           \A q \in Runs \ {r} : thread'[q] = thread[q],
           AtWork(r)' => AtWork(r) /\ thread'[r].status \in ActiveStatus
    PROVE  WorkInv'
BY DEF WorkInv, RunAtWorkIsControllable, OneRunAtWork, AtWork, Active, StatusIn, objStatus

LEMMA StartKeepsWork ==
    ASSUME WorkInv, TypeOK', NEW r \in Runs, NEW m, NEW s, StartRun(r, m, s)
    PROVE  WorkInv'
<1> DEFINE S == IF Known(s) THEN {s} ELSE Runs
           asked == IF m # "automatic" THEN mem ELSE Rehydrated(mem, row, S)
           new == [asked EXCEPT ![r] = "own"]
           obj == [objStatus EXCEPT ![r] = "pending"]
<1>0. mem \in [Runs -> MemStatus] /\ row \in [Runs -> Status \cup {"none"}]
  BY DEF WorkInv, TypeOK, RecordsTypeOK, MemStatus
<1>1. /\ asked \in [Runs -> MemStatus]
      /\ \A q \in Runs : mem[q] = "own" => asked[q] = "own"
  BY <1>0, RehydratedKeeps
<1>2. ActiveIn(asked, objStatus) = {} /\ mem' \in Evict(new, obj)
  BY Zenon DEF StartRun
<1>3. \A q \in Runs : ~AtWork(q)
  BY <1>1, <1>2, AtWorkIsSeen
<1>4. thread' = [thread EXCEPT ![r] = [Idle EXCEPT !.pc = "spawned", !.status = "pending"]]
  BY DEF StartRun
<1>5. \A q \in Runs \ {r} : ~AtWork(q)'
  BY <1>3, <1>4 DEF AtWork, WorkInv, TypeOK
<1>6. mem'[r] = "own"
  <2> HIDE DEF asked
  <2>1. new \in [Runs -> MemStatus] /\ new[r] = "own"
    BY <1>1 DEF MemStatus
  <2>2. r \in ActiveIn(new, obj)
    BY <2>1 DEF ActiveIn, StatusIn, objStatus, ActiveStatus
  <2> HIDE DEF new, obj
  <2>3. QED BY <1>2, <2>1, <2>2, EvictKeeps
<1>7. thread'[r].status = "pending"
  BY <1>4 DEF WorkInv, TypeOK, Idle
<1>8. QED
  BY <1>5, <1>6, <1>7
  DEF WorkInv, RunAtWorkIsControllable, OneRunAtWork, Active, StatusIn, objStatus, ActiveStatus

LEMMA PurgeKeepsWork ==
    ASSUME WorkInv, TypeOK', NEW r \in Runs, Purge(r)
    PROVE  WorkInv'
<1> DEFINE gone == [mem EXCEPT ![r] = "none"]
           rows == [row EXCEPT ![r] = "none"]
           left == Rehydrated(gone, rows, Runs)
<1>1. /\ gone \in [Runs -> MemStatus]
      /\ rows \in [Runs -> Status \cup {"none"}]
      /\ \A q \in Runs \ {r} : gone[q] = mem[q]
  BY DEF WorkInv, TypeOK, RecordsTypeOK, MemStatus
<1>2. left \in [Runs -> MemStatus] /\ \A q \in Runs \ {r} : mem[q] = "own" => left[q] = "own"
  <2> HIDE DEF gone, rows
  <2>1. QED BY <1>1, RehydratedKeeps
<1>3. ~AtWork(r)
  BY AtWorkIsSeen DEF Purge, Purgeable
<1>4. mem' \in Evict(left, objStatus) /\ thread' = thread
  BY DEF Purge
<1>5. ASSUME NEW q \in Runs, AtWork(q) PROVE mem'[q] = mem[q]
  <2>1. mem[q] = "own" /\ left[q] = "own" /\ q \in ActiveIn(left, objStatus)
    BY <1>2, <1>3, <1>5, AtWorkIsSeen
  <2> HIDE DEF left
  <2>2. QED BY <1>2, <1>4, <2>1, EvictKeeps
<1>6. QED BY <1>4, <1>5, MemKeepsWork

LEMMA LookupKeepsWork ==
    ASSUME WorkInv, TypeOK', NEW S, mem' \in Evict(Rehydrated(mem, row, S), objStatus),
           thread' = thread
    PROVE  WorkInv'
<1> DEFINE all == Rehydrated(mem, row, S)
<1>1. /\ all \in [Runs -> MemStatus]
      /\ \A q \in Runs : mem[q] = "own" => all[q] = "own"
  BY RehydratedKeeps DEF WorkInv, TypeOK, RecordsTypeOK, MemStatus
<1>2. ASSUME NEW q \in Runs, AtWork(q) PROVE mem'[q] = mem[q]
  <2>1. mem[q] = "own" /\ all[q] = "own" /\ q \in ActiveIn(all, objStatus)
    BY <1>1, <1>2, AtWorkIsSeen
  <2> HIDE DEF all
  <2>2. mem' \in Evict(all, objStatus)
    BY DEF all
  <2>3. QED BY <1>1, <2>1, <2>2, EvictKeeps
<1>3. QED BY <1>2, MemKeepsWork

LEMMA HandlerKeepsWork == ASSUME WorkInv, TypeOK', Handler PROVE WorkInv'
<1>1. ASSUME NEW r \in Runs, NEW m, NEW s, StartRun(r, m, s) PROVE WorkInv'
  BY <1>1, StartKeepsWork
<1>2. ASSUME NEW r \in Runs, ReadRun(r) PROVE WorkInv'
  BY <1>2, LookupKeepsWork DEF ReadRun
<1>3. ASSUME NEW r \in Runs, EditReplay(r) PROVE WorkInv'
  BY <1>3, MemKeepsWork DEF EditReplay
<1>4. ASSUME NEW r \in Runs, CancelMarks(r) PROVE WorkInv'
  <2>1. CASE mem[r] = "own"
    <3>1. /\ UNCHANGED mem
          /\ \A q \in Runs \ {r} : thread'[q] = thread[q]
          /\ thread'[r].cancelled = TRUE
      BY <1>4, <2>1 DEF CancelMarks, WorkInv, TypeOK, Thread
    <3>2. QED BY <3>1, ThreadKeepsWork DEF AtWork
  <2>2. CASE mem[r] # "own"
    <3>1. thread' = thread /\ \A q \in Runs \ {r} : mem'[q] = mem[q]
      BY <1>4, <2>2 DEF CancelMarks, WorkInv, TypeOK, RecordsTypeOK
    <3>2. ~AtWork(r)
      BY <2>2, AtWorkIsSeen
    <3>3. QED BY <3>1, <3>2, MemKeepsWork
  <2>3. QED BY <2>1, <2>2
<1>5. ASSUME NEW r \in Runs, Purge(r) PROVE WorkInv'
  BY <1>5, PurgeKeepsWork
<1>6. CASE ListRuns
  BY <1>6, LookupKeepsWork DEF ListRuns
<1>7. CASE CancelPersists
  BY <1>7, MemKeepsWork DEF CancelPersists
<1>8. QED BY <1>1, <1>2, <1>3, <1>4, <1>5, <1>6, <1>7 DEF Handler

\* A step of the thread of r that stays at work leaves an active status.
LEMMA QuietKeepsWork ==
    ASSUME WorkInv, TypeOK', NEW r \in Runs, NEW from, NEW t, Quietly(r, from, t),
           \/ t.pc \in {"teardown", "saved", "pointer", "persist", "over"}
           \/ t.stopped
           \/ /\ thread[r].pc \in ThreadPc \ {"new", "teardown", "saved", "pointer",
                                              "persist", "over"}
              /\ t.cancelled = thread[r].cancelled
              /\ t.stopped = thread[r].stopped
              /\ t.status \in ActiveStatus \/ t.status = thread[r].status
    PROVE  WorkInv'
<1>1. /\ UNCHANGED mem
      /\ thread'[r] = t
      /\ \A q \in Runs \ {r} : thread'[q] = thread[q]
  BY DEF Quietly, Step, recordVars, WorkInv, TypeOK
<1>2. AtWork(r)' => AtWork(r) /\ t.status \in ActiveStatus
  BY <1>1, AtWorkIsSeen DEF AtWork, ThreadPc, WithExecutor
<1>3. QED BY <1>1, <1>2, ThreadKeepsWork

LEMMA ThreadStepKeepsWork ==
    ASSUME WorkInv, TypeOK', NEW r \in Runs, ThreadStep(r) \/ HumanReturns(r)
    PROVE  WorkInv'
<1> USE DEF ThreadPc, WithExecutor
<1>0. thread[r] \in Thread
  BY DEF WorkInv, TypeOK
<1>a. \A pc, status :
          /\ At(r, pc).pc = pc /\ At(r, pc).status = thread[r].status
          /\ At(r, pc).cancelled = thread[r].cancelled /\ At(r, pc).stopped = thread[r].stopped
          /\ Ends(r, pc, status).pc = pc /\ Ends(r, pc, status).status = status
          /\ Ends(r, pc, status).cancelled = thread[r].cancelled
          /\ Ends(r, pc, status).stopped = thread[r].stopped
          /\ Raises(r, pc, status).pc = pc
          /\ Ends(r, pc, status) \in [pc : {pc}, status : {status}, cancelled : BOOLEAN,
                                      stopped : BOOLEAN, awaiting : BOOLEAN]
  BY <1>0 DEF At, Ends, Raises, Thread
<1>1. CASE Begin(r) \/ Loads(r) \/ OpenFails(r) \/ Opens(r) \/ CheckCancelled(r)
  BY <1>1, <1>a, QuietKeepsWork
     DEF Begin, Loads, OpenFails, Opens, CheckCancelled, ActiveStatus, Quietly, Step
<1>2. CASE KeepsGoing(r) \/ StepDone(r) \/ ExecuteFails(r) \/ ExecuteReturns(r)
  BY <1>2, <1>a, QuietKeepsWork
     DEF KeepsGoing, StepDone, ExecuteFails, ExecuteReturns, Quietly, Step
<1>3. CASE NeedsHuman(r)
  <2> DEFINE t == [Ends(r, "executing", "awaiting_human") EXCEPT !.awaiting = TRUE]
  <2>1. /\ t.status = "awaiting_human" /\ t.cancelled = thread[r].cancelled
        /\ t.stopped = thread[r].stopped
    BY <1>0 DEF Ends, Thread
  <2>2. thread[r].pc \in {"step", "executing"}
    BY <1>3 DEF NeedsHuman
  <2>3. Quietly(r, thread[r].pc, t)
    BY <1>3 DEF NeedsHuman
  <2> HIDE DEF t
  <2>4. QED BY <2>1, <2>2, <2>3, QuietKeepsWork DEF ActiveStatus
<1>4. CASE HumanTimesOut(r)
  <2>1. [Ends(r, "executing", "fail") EXCEPT !.awaiting = FALSE, !.stopped = TRUE].stopped
    BY <1>0 DEF Ends, Thread
  <2>2. QED BY <1>4, <2>1, QuietKeepsWork DEF HumanTimesOut
<1>5. CASE HumanReturns(r)
  <2> DEFINE pc == IF mode[r] = "manual" THEN "step" ELSE "executing"
             t == [Ends(r, pc, "running") EXCEPT !.awaiting = FALSE]
  <2>1. /\ t.status = "running" /\ t.cancelled = thread[r].cancelled
        /\ t.stopped = thread[r].stopped
    BY <1>0 DEF Ends, Thread
  <2>2. thread[r].pc = "executing"
    BY <1>5 DEF HumanReturns, Quietly, Step
  <2>3. Quietly(r, "executing", t)
    BY <1>5 DEF HumanReturns
  <2> HIDE DEF t
  <2>4. QED BY <2>1, <2>2, <2>3, QuietKeepsWork DEF ActiveStatus
<1>6. CASE SeesStop(r)
  <2>1. CASE Quietly(r, thread[r].pc, At(r, "returned"))
    BY <1>6, <1>a, <2>1, QuietKeepsWork DEF SeesStop
  <2>2. CASE Quietly(r, thread[r].pc, Raises(r, "teardown", "cancelled"))
    BY <1>a, <2>2, QuietKeepsWork
  <2>3. QED BY <1>6, <2>1, <2>2 DEF SeesStop
<1>7. CASE AfterExecute(r) \/ Grade(r) \/ GradeFails(r)
  <2>1. CASE AfterExecute(r)
    BY <1>a, <2>1, QuietKeepsWork DEF AfterExecute, Quietly, Step
  <2>2. CASE Grade(r)
    <3>1. PICK verdict : Quietly(r, "grading", Ends(r, "teardown", verdict))
      BY <2>2 DEF Grade
    <3>2. QED BY <1>a, <3>1, QuietKeepsWork
  <2>3. CASE GradeFails(r)
    <3>1. PICK status : Quietly(r, "grading", Raises(r, "teardown", status))
      BY <2>3, Zenon DEF GradeFails
    <3>2. QED BY <1>a, <3>1, QuietKeepsWork
  <2>4. QED BY <1>7, <2>1, <2>2, <2>3
<1>8. CASE SavesAnything(r)
  BY <1>8, <1>a, QuietKeepsWork DEF SavesAnything
<1>9. CASE SaveReplay(r) \/ SetPointer(r) \/ Persist(r)
  <2>0. \/ \E pc \in {"pointer", "persist"} : thread' = [thread EXCEPT ![r] = At(r, pc)]
        \/ thread' = [thread EXCEPT ![r] = [At(r, "over") EXCEPT !.stopped = FALSE,
                                                               !.awaiting = FALSE]]
    BY <1>9, Zenon DEF SaveReplay, SetPointer, Persist, Step
  <2>1. \A pc : /\ At(r, pc).pc = pc
                /\ [At(r, pc) EXCEPT !.stopped = FALSE, !.awaiting = FALSE].pc = pc
    BY <1>0 DEF Thread, At
  <2>2. UNCHANGED mem
    BY <1>9 DEF SaveReplay, SetPointer, Persist
  <2>3. /\ thread'[r].pc \in {"pointer", "persist", "over"}
        /\ \A q \in Runs \ {r} : thread'[q] = thread[q]
    BY <2>0, <2>1 DEF WorkInv, TypeOK
  <2>4. QED BY <2>2, <2>3, ThreadKeepsWork DEF AtWork
<1>10. QED
  BY <1>1, <1>2, <1>3, <1>4, <1>5, <1>6, <1>7, <1>8, <1>9 DEF ThreadStep, ExecutorStep

LEMMA WorkInductive == WorkInv /\ [Next]_vars => WorkInv'
<1> SUFFICES ASSUME WorkInv, [Next]_vars PROVE WorkInv'
  OBVIOUS
<1>0. TypeOK'
  BY TypeInductive DEF WorkInv
<1>1. CASE UNCHANGED vars
  BY <1>0, <1>1, MemKeepsWork DEF vars, recordVars
<1>2. CASE Restart
  <2>1. \A r \in Runs : ~AtWork(r)'
    BY <1>2 DEF Restart, AtWork, Idle
  <2>2. QED BY <1>0, <2>1 DEF WorkInv, RunAtWorkIsControllable, OneRunAtWork
<1>3. QED BY <1>0, <1>1, <1>2, HandlerKeepsWork, ThreadStepKeepsWork DEF Next

LEMMA WorkHolds == Spec => []WorkInv
<1>1. Init => WorkInv
  BY InitType DEF WorkInv, Init, RunAtWorkIsControllable, OneRunAtWork, AtWork, Idle
<1>2. QED BY <1>1, WorkInductive, PTL DEF Spec

\* At most one run of a user is at work, whatever is evicted, read back from the
\* database, purged, cancelled or restarted.
THEOREM StartGateSafety == Spec => []OneRunAtWork
<1>1. WorkInv => OneRunAtWork
  BY DEF WorkInv
<1>2. QED BY <1>1, WorkHolds, PTL

\* The run at work is always in memory with the object its thread works on, and
\* active: DELETE finds it and reaches its thread.
THEOREM ControlSafety == Spec => []RunAtWorkIsControllable
<1>1. WorkInv => RunAtWorkIsControllable
  BY DEF WorkInv
<1>2. QED BY <1>1, WorkHolds, PTL

-----------------------------------------------------------------------------
(* What is recorded *)

\* A run thread writes its row in its last step and nowhere else, and does not
\* lose its status.
LEMMA ThreadWritesRowLast ==
    ASSUME TypeOK, NEW r \in Runs, ThreadStep(r) \/ HumanReturns(r)
    PROVE  /\ UNCHANGED <<mem, api, source>>
           /\ \A q \in Runs \ {r} : thread'[q] = thread[q] /\ row'[q] = row[q]
           /\ thread'[r].status # thread[r].status => thread'[r].status # "none"
           /\ \/ row' = row /\ thread'[r].pc # "over"
              \/ /\ Persist(r) /\ thread'[r].pc = "over"
                 /\ thread'[r].status = thread[r].status /\ row'[r] = thread[r].status
<1> DEFINE Goal == /\ UNCHANGED <<mem, api, source>>
                   /\ \A q \in Runs \ {r} : thread'[q] = thread[q] /\ row'[q] = row[q]
                   /\ thread'[r].status # thread[r].status => thread'[r].status # "none"
                   /\ \/ row' = row /\ thread'[r].pc # "over"
                      \/ /\ Persist(r) /\ thread'[r].pc = "over"
                         /\ thread'[r].status = thread[r].status
                         /\ row'[r] = thread[r].status
<1>1. thread[r] \in Thread /\ thread \in [Runs -> Thread] /\ row \in [Runs -> Status \cup {"none"}]
  BY DEF TypeOK, RecordsTypeOK
<1>2. ASSUME NEW from, NEW t, Quietly(r, from, t), t.pc # "over",
             t.status = thread[r].status \/ t.status # "none"
      PROVE  Goal
  BY <1>1, <1>2 DEF Quietly, Step, recordVars
<1>3. \A pc, status :
          /\ At(r, pc).pc = pc /\ At(r, pc).status = thread[r].status
          /\ Ends(r, pc, status).pc = pc /\ Ends(r, pc, status).status = status
          /\ Raises(r, pc, status).pc = pc
          /\ Raises(r, pc, status).status \in {status, "cancelled"}
          /\ \A a \in BOOLEAN : LET t == [Ends(r, pc, status) EXCEPT !.awaiting = a]
                               IN  t.pc = pc /\ t.status = status
          /\ LET t == [Ends(r, pc, status) EXCEPT !.awaiting = FALSE, !.stopped = TRUE]
             IN  t.pc = pc /\ t.status = status
  BY <1>1 DEF At, Ends, Raises, Thread
<1>4. CASE Begin(r) \/ Loads(r) \/ OpenFails(r) \/ Opens(r) \/ CheckCancelled(r)
  BY <1>2, <1>3, <1>4 DEF Begin, Loads, OpenFails, Opens, CheckCancelled
<1>5. CASE ExecutorStep(r)
  <2>1. CASE KeepsGoing(r) \/ StepDone(r) \/ ExecuteFails(r) \/ ExecuteReturns(r)
    BY <1>2, <1>3, <2>1 DEF KeepsGoing, StepDone, ExecuteFails, ExecuteReturns
  <2>2. CASE NeedsHuman(r) \/ HumanTimesOut(r)
    <3>1. PICK from, t : /\ Quietly(r, from, t) /\ t.pc = "executing"
                          /\ t.status # "none"
      <4>1. CASE NeedsHuman(r)
        <5> DEFINE t == [Ends(r, "executing", "awaiting_human") EXCEPT !.awaiting = TRUE]
        <5>1. Quietly(r, thread[r].pc, t) /\ t.pc = "executing" /\ t.status # "none"
          BY <1>3, <4>1 DEF NeedsHuman
        <5>2. QED BY <5>1
      <4>2. CASE HumanTimesOut(r)
        <5> DEFINE t == [Ends(r, "executing", "fail")
                            EXCEPT !.awaiting = FALSE, !.stopped = TRUE]
        <5>1. Quietly(r, "executing", t) /\ t.pc = "executing" /\ t.status # "none"
          BY <1>3, <4>2 DEF HumanTimesOut
        <5>2. QED BY <5>1
      <4>3. QED BY <2>2, <4>1, <4>2
    <3>2. QED BY <1>2, <3>1
  <2>3. CASE SeesStop(r)
    BY <1>2, <1>3, <2>3 DEF SeesStop
  <2>4. QED BY <1>5, <2>1, <2>2, <2>3 DEF ExecutorStep
<1>6. CASE AfterExecute(r)
  BY <1>2, <1>3, <1>6 DEF AfterExecute
<1>7. CASE Grade(r)
  <2>1. PICK verdict \in {"pass", "fail"} : Quietly(r, "grading", Ends(r, "teardown", verdict))
    BY <1>7 DEF Grade
  <2>2. QED BY <1>2, <1>3, <2>1
<1>8. CASE GradeFails(r)
  <2>1. PICK status \in {"fail", "cancelled"} :
            Quietly(r, "grading", Raises(r, "teardown", status))
    BY <1>8, Zenon DEF GradeFails
  <2>2. QED BY <1>2, <1>3, <2>1
<1>9. CASE SavesAnything(r)
  BY <1>2, <1>3, <1>9 DEF SavesAnything
<1>13. CASE HumanReturns(r)
  <2> DEFINE pc == IF mode[r] = "manual" THEN "step" ELSE "executing"
             t == [Ends(r, pc, "running") EXCEPT !.awaiting = FALSE]
  <2>1. Quietly(r, "executing", t) /\ t.pc = pc /\ t.status = "running"
    BY <1>3, <1>13 DEF HumanReturns
  <2> HIDE DEF t
  <2>2. QED BY <1>2, <2>1
<1>10. CASE SaveReplay(r) \/ SetPointer(r)
  <2>1. \E pc \in {"pointer", "persist"} : thread' = [thread EXCEPT ![r] = At(r, pc)]
    BY <1>10, Zenon DEF SaveReplay, SetPointer, Step
  <2>2. UNCHANGED <<mem, row, source, api>>
    BY <1>10 DEF SaveReplay, SetPointer
  <2>3. QED BY <1>1, <1>3, <2>1, <2>2
<1>11. CASE Persist(r)
  <2> DEFINE t == [At(r, "over") EXCEPT !.stopped = FALSE, !.awaiting = FALSE]
  <2>1. t.pc = "over" /\ t.status = thread[r].status
    BY <1>1 DEF At, Thread
  <2>2. /\ thread' = [thread EXCEPT ![r] = t]
        /\ row' = [row EXCEPT ![r] = thread[r].status]
        /\ UNCHANGED <<mem, source, api>>
    BY <1>11 DEF Persist, Step
  <2> HIDE DEF t
  <2>3. QED BY <1>1, <1>11, <2>1, <2>2
<1>12. QED
  BY <1>4, <1>5, <1>6, <1>7, <1>8, <1>9, <1>10, <1>11, <1>13 DEF ThreadStep

\* The objects that threads work on enter the memory with StartRun only.
LEMMA OwnIsNotRead ==
    ASSUME NEW m \in [Runs -> MemStatus], NEW rows \in [Runs -> Status \cup {"none"}],
           NEW S, NEW obj, NEW n \in Evict(Rehydrated(m, rows, S), obj), NEW q \in Runs
    PROVE  n[q] = "own" => m[q] = "own"
<1>1. Rehydrated(m, rows, S) \in [Runs -> MemStatus]
  BY RehydratedKeeps
<1>2. Rehydrated(m, rows, S)[q] = "own" => m[q] = "own"
  BY RehydratedKeeps DEF Status, ActiveStatus
<1>3. QED BY <1>1, <1>2, EvictKeeps

LEMMA HandlerKeepsOutcome ==
    ASSUME TypeOK, OutcomeIsPersisted, Handler
    PROVE  OutcomeIsPersisted'
<1> USE DEF OutcomeIsPersisted
<1>0. /\ mem \in [Runs -> MemStatus] /\ row \in [Runs -> Status \cup {"none"}]
      /\ thread \in [Runs -> Thread]
  BY DEF TypeOK, RecordsTypeOK, MemStatus
<1>1. ASSUME NEW r \in Runs, NEW m, NEW s, StartRun(r, m, s) PROVE OutcomeIsPersisted'
  <2> DEFINE S == IF Known(s) THEN {s} ELSE Runs
             asked == IF m # "automatic" THEN mem ELSE Rehydrated(mem, row, S)
             new == [asked EXCEPT ![r] = "own"]
             obj == [objStatus EXCEPT ![r] = "pending"]
  <2>1. asked \in [Runs -> MemStatus] /\ \A q \in Runs : asked[q] = "own" => mem[q] = "own"
    BY <1>0, RehydratedKeeps DEF Status, ActiveStatus
  <2>2. mem' \in Evict(new, obj)
    BY <1>1, Zenon DEF StartRun
  <2>3. \A q \in Runs \ {r} : mem'[q] = "own" => mem[q] = "own"
    <3> HIDE DEF asked
    <3>1. new \in [Runs -> MemStatus] /\ \A q \in Runs \ {r} : new[q] = asked[q]
      BY <2>1 DEF MemStatus
    <3> HIDE DEF new, obj
    <3>2. QED BY <2>1, <2>2, <3>1, EvictKeeps
  <2>4. /\ thread' = [thread EXCEPT ![r] = [Idle EXCEPT !.pc = "spawned", !.status = "pending"]]
        /\ row' = [row EXCEPT ![r] = "pending"] /\ api' = api
    BY <1>1 DEF StartRun
  <2>5. thread'[r].pc = "spawned" /\ \A q \in Runs \ {r} : thread'[q] = thread[q]
    BY <1>0, <2>4 DEF Idle
  <2>6. QED BY <1>0, <2>3, <2>4, <2>5
<1>2. ASSUME NEW r \in Runs, ReadRun(r) PROVE OutcomeIsPersisted'
  BY <1>0, <1>2, OwnIsNotRead DEF ReadRun
<1>3. ASSUME NEW r \in Runs, EditReplay(r) PROVE OutcomeIsPersisted'
  BY <1>3 DEF EditReplay
<1>4. ASSUME NEW r \in Runs, CancelMarks(r) PROVE OutcomeIsPersisted'
  <2>1. /\ api = NoRun /\ api' = r /\ row' = row
        /\ \A q \in Runs \ {r} : thread'[q] = thread[q] /\ mem'[q] = mem[q]
    BY <1>0, <1>4 DEF CancelMarks
  <2>2. \A q \in Runs : q # NoRun
    BY RecordsAssumption
  <2>3. QED BY <2>1, <2>2
<1>5. ASSUME NEW r \in Runs, Purge(r) PROVE OutcomeIsPersisted'
  <2> DEFINE gone == [mem EXCEPT ![r] = "none"]
             rows == [row EXCEPT ![r] = "none"]
  <2>1. /\ gone \in [Runs -> MemStatus] /\ rows \in [Runs -> Status \cup {"none"}]
        /\ \A q \in Runs : gone[q] = "own" => q # r /\ mem[q] = "own"
        /\ \A q \in Runs \ {r} : rows[q] = row[q]
    BY <1>0 DEF MemStatus
  <2>2. /\ mem' \in Evict(Rehydrated(gone, rows, Runs), objStatus)
        /\ row' = rows /\ UNCHANGED <<thread, api>>
    BY <1>5 DEF Purge
  <2> HIDE DEF gone, rows
  <2>3. \A q \in Runs : mem'[q] = "own" => q # r /\ mem[q] = "own"
    BY <2>1, <2>2, OwnIsNotRead
  <2>4. QED BY <2>1, <2>2, <2>3
<1>6. CASE ListRuns
  BY <1>0, <1>6, OwnIsNotRead DEF ListRuns
<1>7. CASE CancelPersists
  <2>1. api \in Runs /\ api # NoRun
    BY <1>7 DEF CancelPersists, TypeOK, RunOrNone
  <2>2. /\ UNCHANGED <<mem, thread>>
        /\ \A q \in Runs \ {api} : row'[q] = row[q]
        /\ mem[api] = "own" => row'[api] = thread[api].status
    BY <1>0, <1>7, <2>1 DEF CancelPersists, StatusIn, objStatus
  <2>3. QED BY <2>1, <2>2
<1>8. QED BY <1>1, <1>2, <1>3, <1>4, <1>5, <1>6, <1>7 DEF Handler

\* When a thread is over, the database says of its run what the object in memory
\* says (a cancel that is half done excepted): a restart changes no outcome.
THEOREM OutcomeSafety == Spec => []OutcomeIsPersisted
<1>1. Init => OutcomeIsPersisted
  BY DEF Init, RecordsInit, OutcomeIsPersisted
<1>2. TypeOK /\ OutcomeIsPersisted /\ [Next]_vars => OutcomeIsPersisted'
  <2> SUFFICES ASSUME TypeOK, OutcomeIsPersisted, [Next]_vars PROVE OutcomeIsPersisted'
    OBVIOUS
  <2>1. ASSUME NEW r \in Runs, ThreadStep(r) \/ HumanReturns(r) PROVE OutcomeIsPersisted'
    BY <2>1, ThreadWritesRowLast DEF OutcomeIsPersisted
  <2>2. CASE Restart
    BY <2>2 DEF Restart, OutcomeIsPersisted
  <2>3. CASE UNCHANGED vars
    BY <2>3 DEF vars, recordVars, OutcomeIsPersisted
  <2>4. QED BY <2>1, <2>2, <2>3, HandlerKeepsOutcome DEF Next
<1>3. QED BY <1>1, <1>2, TypeCorrectness, PTL DEF Spec

\* As long as a user has an automatic run, only the thread of its source takes
\* the replay away that it needs.
THEOREM SourceSafety == Spec => SourceReplayIsKept
<1> DEFINE Kept == \A r \in Runs :
          LET s == source[r] IN
          /\ s # NoRun /\ Known(r) /\ Known(r)'
          /\ s \in replays /\ thread'[s] = thread[s]
          => s \in replays'
<1>1. TypeOK /\ [Next]_vars => Kept
  <2> SUFFICES ASSUME TypeOK, [Next]_vars, NEW r \in Runs, source[r] # NoRun,
                      Known(r), Known(r)', source[r] \in replays,
                      thread'[source[r]] = thread[source[r]]
               PROVE  source[r] \in replays'
    OBVIOUS
  <2> DEFINE s == source[r]
  <2>0. /\ s \in Runs /\ mem \in [Runs -> MemStatus]
        /\ row \in [Runs -> Status \cup {"none"}] /\ thread \in [Runs -> Thread]
    BY DEF TypeOK, RecordsTypeOK, RunOrNone, MemStatus
  <2>1. ASSUME NEW q \in Runs, Purge(q) PROVE s \in replays'
    <3> DEFINE gone == [mem EXCEPT ![q] = "none"]
               rows == [row EXCEPT ![q] = "none"]
               left == Rehydrated(gone, rows, Runs)
    <3>1. /\ gone \in [Runs -> MemStatus] /\ rows \in [Runs -> Status \cup {"none"}]
          /\ gone[q] = "none" /\ rows[q] = "none"
          /\ \A p \in Runs \ {q} : gone[p] = mem[p] /\ rows[p] = row[p]
      BY <2>0 DEF MemStatus
    <3>2. /\ mem' \in Evict(left, objStatus) /\ row' = rows
          /\ replays' = replays \ {p \in {q, source[q]} \cap Runs :
                                       left[p] = "none" /\ Dependents(left, p) = {}}
      BY <2>1, Zenon DEF Purge
    <3> HIDE DEF gone, rows
    <3>3. /\ left \in [Runs -> MemStatus]
          /\ left[q] = "none"
          /\ \A p \in Runs \ {q} : mem[p] # "none" \/ row[p] # "none" => left[p] # "none"
      BY <3>1, RehydratedKeeps
    <3> HIDE DEF left
    <3>4. mem'[q] = "none"
      BY <3>2, <3>3, EvictKeeps
    <3>5. r # q
      BY <3>1, <3>2, <3>4 DEF Known
    <3>6. r \in Dependents(left, s)
      BY <3>3, <3>5 DEF Dependents, Known
    <3>7. QED BY <3>2, <3>6
  <2>2. ASSUME NEW q \in Runs, SaveReplay(q) PROVE s \in replays'
    <3>1. thread'[q].pc # thread[q].pc
      BY <2>0, <2>2 DEF SaveReplay, Step, At, Thread
    <3>2. QED BY <2>2, <3>1 DEF SaveReplay
  <2>3. ASSUME NEW q \in Runs, ThreadStep(q) \/ HumanReturns(q), ~SaveReplay(q)
        PROVE  replays' = replays
    <3>1. CASE ExecutorStep(q) \/ HumanReturns(q)
      BY <3>1 DEF ExecutorStep, HumanReturns, KeepsGoing, StepDone, NeedsHuman, HumanTimesOut,
                  SeesStop, ExecuteFails, ExecuteReturns, Quietly, recordVars
    <3>2. CASE ~(ExecutorStep(q) \/ HumanReturns(q))
      BY <2>3, <3>2 DEF ThreadStep, Begin, Loads, OpenFails, Opens, CheckCancelled,
                  AfterExecute, Grade, GradeFails, SavesAnything, SetPointer, Persist,
                  Quietly, recordVars
    <3>3. QED BY <3>1, <3>2
  <2>4. CASE Handler
    <3>1. CASE \E q \in Runs : Purge(q)
      BY <2>1, <3>1
    <3>2. CASE ~\E q \in Runs : Purge(q)
      BY <2>4, <3>2 DEF Handler, StartRun, ReadRun, EditReplay, CancelMarks, ListRuns,
                        CancelPersists
    <3>3. QED BY <3>1, <3>2
  <2>5. CASE Restart \/ UNCHANGED vars
    BY <2>5 DEF Restart, vars, recordVars
  <2>6. QED BY <2>2, <2>3, <2>4, <2>5 DEF Next
<1>2. QED BY <1>1, TypeCorrectness, PTL DEF Spec, SourceReplayIsKept

-----------------------------------------------------------------------------
(* The trained run, for a user who purges a run only when its thread is over *)

\* A run whose thread is at work, or under way to its end, is in the database; so
\* is the run a cancel is about to write.
RowInv ==
    /\ TypeOK
    /\ \A r \in Runs : thread[r].pc \notin {"new", "over"} =>
                          row[r] # "none" /\ thread[r].status # "none"
    /\ \A r \in Runs : mem[r] = "own" => thread[r].status # "none"
    /\ api # NoRun => mem[api] # "none"

\* The run the task points at has passed, and is in the database, so that a purge
\* of another run that replays it leaves its script alone.
TrainedInv ==
    trained # NoRun => /\ trained \in replays /\ row[trained] # "none"
                       /\ thread[trained].pc \in {"persist", "over"}

LEMMA HandlerKeepsRow ==
    ASSUME ~PurgeLive, RowInv, TypeOK', Handler
    PROVE  RowInv'
<1> USE DEF RowInv
<1>0. /\ mem \in [Runs -> MemStatus] /\ row \in [Runs -> Status \cup {"none"}]
      /\ thread \in [Runs -> Thread]
  BY DEF TypeOK, RecordsTypeOK, MemStatus
<1>1. ASSUME NEW r \in Runs, NEW m, NEW s, StartRun(r, m, s) PROVE RowInv'
  <2> DEFINE S == IF Known(s) THEN {s} ELSE Runs
             asked == IF m # "automatic" THEN mem ELSE Rehydrated(mem, row, S)
             new == [asked EXCEPT ![r] = "own"]
             obj == [objStatus EXCEPT ![r] = "pending"]
  <2>1. asked \in [Runs -> MemStatus] /\ \A q \in Runs : asked[q] = "own" => mem[q] = "own"
    BY <1>0, RehydratedKeeps DEF Status, ActiveStatus
  <2>2. mem' \in Evict(new, obj)
    BY <1>1, Zenon DEF StartRun
  <2>3. \A q \in Runs \ {r} : mem'[q] = "own" => mem[q] = "own"
    <3> HIDE DEF asked
    <3>1. new \in [Runs -> MemStatus] /\ \A q \in Runs \ {r} : new[q] = asked[q]
      BY <2>1 DEF MemStatus
    <3> HIDE DEF new, obj
    <3>2. QED BY <2>1, <2>2, <3>1, EvictKeeps
  <2>4. /\ thread' = [thread EXCEPT ![r] = [Idle EXCEPT !.pc = "spawned", !.status = "pending"]]
        /\ row' = [row EXCEPT ![r] = "pending"] /\ api = NoRun /\ api' = api
    BY <1>1 DEF StartRun
  <2>5. thread'[r].status = "pending" /\ \A q \in Runs \ {r} : thread'[q] = thread[q]
    BY <1>0, <2>4 DEF Idle
  <2>6. QED BY <1>0, <2>3, <2>4, <2>5
<1>2. ASSUME NEW r \in Runs, ReadRun(r) PROVE RowInv'
  BY <1>0, <1>2, OwnIsNotRead DEF ReadRun
<1>3. ASSUME NEW r \in Runs, EditReplay(r) PROVE RowInv'
  BY <1>3 DEF EditReplay
<1>4. ASSUME NEW r \in Runs, CancelMarks(r) PROVE RowInv'
  <2>1. /\ api' = r /\ row' = row
        /\ \A q \in Runs \ {r} : thread'[q] = thread[q] /\ mem'[q] = mem[q]
        /\ mem'[r] \in {mem[r], "cancelled"}
    BY <1>0, <1>4 DEF CancelMarks
  <2>2. mem[r] # "none"
    BY <1>4 DEF CancelMarks, Active, StatusIn, ActiveStatus
  <2>3. \/ mem[r] = "own" /\ thread'[r].pc = thread[r].pc /\ thread'[r].status = "cancelled"
        \/ mem'[r] # "own" /\ thread' = thread
    BY <1>0, <1>4 DEF CancelMarks, Thread
  <2>4. QED BY <2>1, <2>2, <2>3
<1>5. ASSUME NEW r \in Runs, Purge(r) PROVE RowInv'
  <2> DEFINE gone == [mem EXCEPT ![r] = "none"]
             rows == [row EXCEPT ![r] = "none"]
  <2>1. /\ gone \in [Runs -> MemStatus] /\ rows \in [Runs -> Status \cup {"none"}]
        /\ \A q \in Runs : gone[q] = "own" => mem[q] = "own"
        /\ \A q \in Runs \ {r} : rows[q] = row[q]
    BY <1>0 DEF MemStatus
  <2>2. /\ mem' \in Evict(Rehydrated(gone, rows, Runs), objStatus)
        /\ row' = rows /\ api = NoRun /\ UNCHANGED <<thread, api>>
        /\ thread[r].pc \in {"new", "over"}
    BY <1>5 DEF Purge, Purgeable
  <2> HIDE DEF gone, rows
  <2>3. \A q \in Runs : mem'[q] = "own" => mem[q] = "own"
    BY <2>1, <2>2, OwnIsNotRead
  <2>4. QED BY <2>1, <2>2, <2>3
<1>6. CASE ListRuns
  BY <1>0, <1>6, OwnIsNotRead DEF ListRuns
<1>7. CASE CancelPersists
  <2>1. api \in Runs
    BY <1>7 DEF CancelPersists, TypeOK, RunOrNone
  <2>2. StatusIn(mem, objStatus, api) # "none"
    BY <1>0, <1>7, <2>1 DEF CancelPersists, StatusIn, objStatus
  <2>3. QED BY <1>0, <1>7, <2>1, <2>2 DEF CancelPersists
<1>8. QED BY <1>1, <1>2, <1>3, <1>4, <1>5, <1>6, <1>7 DEF Handler


\* The thread of a run that has not begun, or is over, takes no step.
LEMMA IdleThreadRests ==
    ASSUME TypeOK, NEW r \in Runs, ThreadStep(r) \/ HumanReturns(r)
    PROVE  thread[r].pc \notin {"new", "over"}
BY DEF ThreadStep, ExecutorStep, HumanReturns, Begin, Loads, OpenFails, Opens, CheckCancelled,
       KeepsGoing, StepDone, NeedsHuman, HumanTimesOut, SeesStop, ExecuteFails, ExecuteReturns,
       AfterExecute, Grade, GradeFails, SavesAnything, SaveReplay, SetPointer, Persist,
       Quietly, Step

LEMMA RowInductive ==
    ASSUME ~PurgeLive, RowInv, [Next]_vars
    PROVE  RowInv'
<1>0. TypeOK'
  BY TypeInductive DEF RowInv
<1>1. ASSUME NEW r \in Runs, ThreadStep(r) \/ HumanReturns(r) PROVE RowInv'
  BY <1>0, <1>1, ThreadWritesRowLast, IdleThreadRests DEF RowInv
<1>2. CASE Restart
  <2>1. \A r \in Runs : thread'[r].pc \in {"new", "over"}
    BY <1>2 DEF Restart, Idle
  <2>2. QED BY <1>0, <1>2, <2>1 DEF RowInv, Restart
<1>3. CASE UNCHANGED vars
  BY <1>0, <1>3 DEF RowInv, vars, recordVars
<1>4. QED BY <1>0, <1>1, <1>2, <1>3, HandlerKeepsRow DEF Next

\* A purge of r leaves the replay of a run that is in the database.
LEMMA PurgeKeepsTrained ==
    ASSUME TypeOK, TrainedInv, NEW r \in Runs, Purge(r)
    PROVE  TrainedInv'
<1> DEFINE gone == [mem EXCEPT ![r] = "none"]
           rows == [row EXCEPT ![r] = "none"]
           left == Rehydrated(gone, rows, Runs)
<1>0. mem \in [Runs -> MemStatus] /\ row \in [Runs -> Status \cup {"none"}]
  BY DEF TypeOK, RecordsTypeOK, MemStatus
<1>1. /\ gone \in [Runs -> MemStatus] /\ rows \in [Runs -> Status \cup {"none"}]
      /\ \A q \in Runs \ {r} : gone[q] = mem[q] /\ rows[q] = row[q]
  BY <1>0 DEF MemStatus
<1>2. /\ row' = rows /\ thread' = thread
      /\ trained' = IF trained = r THEN NoRun ELSE trained
      /\ replays' = replays \ {q \in {r, source[r]} \cap Runs :
                                   left[q] = "none" /\ Dependents(left, q) = {}}
  BY Zenon DEF Purge
<1> HIDE DEF gone, rows
<1>3. \A q \in Runs \ {r} : row[q] # "none" => left[q] # "none"
  BY <1>1, RehydratedKeeps
<1> HIDE DEF left
<1>4. ASSUME trained' # NoRun
      PROVE  trained' \in replays' /\ row'[trained'] # "none" /\ thread'[trained'] = thread[trained]
  <2>1. trained' = trained /\ trained # r /\ trained \in Runs
    BY <1>2, <1>4 DEF TypeOK, RecordsTypeOK, RunOrNone
  <2>2. QED BY <1>1, <1>2, <1>3, <1>4, <2>1 DEF TrainedInv
<1>5. QED BY <1>2, <1>4 DEF TrainedInv

LEMMA TrainedInductive ==
    ASSUME ~PurgeLive, RowInv, TrainedInv, [Next]_vars
    PROVE  TrainedInv'
<1> USE DEF TrainedInv
<1>0. /\ row \in [Runs -> Status \cup {"none"}] /\ thread \in [Runs -> Thread]
      /\ trained \in RunOrNone /\ TypeOK /\ NoRun \notin Runs
  BY RecordsAssumption DEF RowInv, TypeOK, RecordsTypeOK
<1>1. CASE Handler
  <2>1. ASSUME NEW r \in Runs, NEW m, NEW s, StartRun(r, m, s) PROVE TrainedInv'
    <3>1. trained # r
      BY <1>0, <2>1 DEF StartRun
    <3>2. QED BY <1>0, <2>1, <3>1 DEF StartRun, RunOrNone
  <2>2. ASSUME NEW r \in Runs, ReadRun(r) \/ EditReplay(r) PROVE TrainedInv'
    BY <2>2 DEF ReadRun, EditReplay
  <2>3. ASSUME NEW r \in Runs, CancelMarks(r) PROVE TrainedInv'
    <3>1. UNCHANGED <<row, replays, trained>> /\ \A q \in Runs : thread'[q].pc = thread[q].pc
      BY <1>0, <2>3 DEF CancelMarks, Thread
    <3>2. QED BY <1>0, <3>1 DEF RunOrNone
  <2>4. ASSUME NEW r \in Runs, Purge(r) PROVE TrainedInv'
    BY <1>0, <2>4, PurgeKeepsTrained
  <2>5. CASE ListRuns
    BY <2>5 DEF ListRuns
  <2>6. CASE CancelPersists
    <3>0. api \in Runs /\ api # NoRun
      BY <1>0, <2>6 DEF CancelPersists, TypeOK, RunOrNone
    <3>1. StatusIn(mem, objStatus, api) # "none"
      BY <3>0 DEF RowInv, StatusIn, objStatus
    <3>2. QED BY <1>0, <2>6, <3>1 DEF CancelPersists, RunOrNone
  <2>7. QED BY <1>1, <2>1, <2>2, <2>3, <2>4, <2>5, <2>6 DEF Handler
<1>2. ASSUME NEW r \in Runs, ThreadStep(r) \/ HumanReturns(r) PROVE TrainedInv'
  <2>1. /\ \A q \in Runs \ {r} : thread'[q] = thread[q] /\ row'[q] = row[q]
        /\ row'[r] # "none"
    BY <1>2, <1>0, ThreadWritesRowLast, IdleThreadRests DEF RowInv
  <2>2. CASE SaveReplay(r)
    <3>1. trained # r /\ trained' = trained /\ \A q \in replays \ {r} : q \in replays'
      BY <1>0, <2>2 DEF SaveReplay, Step
    <3>2. QED BY <1>0, <2>1, <3>1 DEF RunOrNone
  <2>3. CASE SetPointer(r)
    <3>1. thread'[r].pc = "persist"
      BY <1>0, <2>3 DEF SetPointer, Step, At, Thread
    <3>2. QED BY <1>0, <2>1, <2>3, <3>1 DEF SetPointer, RunOrNone
  <2>4. CASE Persist(r)
    <3>1. thread'[r].pc = "over"
      <4> DEFINE t == [At(r, "over") EXCEPT !.stopped = FALSE, !.awaiting = FALSE]
      <4>1. t.pc = "over"
        BY <1>0 DEF At, Thread
      <4>2. thread' = [thread EXCEPT ![r] = t]
        BY <2>4 DEF Persist, Step
      <4> HIDE DEF t
      <4>3. QED BY <1>0, <4>1, <4>2
    <3>2. QED BY <1>0, <2>1, <2>4, <3>1 DEF Persist, RunOrNone
  <2>5. CASE ~SaveReplay(r) /\ ~SetPointer(r) /\ ~Persist(r)
    <3>1. UNCHANGED <<replays, trained>> /\ thread[r].pc # "persist"
      <4>1. CASE ExecutorStep(r) \/ HumanReturns(r)
        BY <4>1 DEF ExecutorStep, HumanReturns, KeepsGoing, StepDone, NeedsHuman,
           HumanTimesOut, SeesStop, ExecuteFails, ExecuteReturns, Quietly, Step, recordVars
      <4>2. CASE ~(ExecutorStep(r) \/ HumanReturns(r))
        BY <1>2, <2>5, <4>2 DEF ThreadStep, Begin, Loads, OpenFails, Opens, CheckCancelled,
           AfterExecute, Grade, GradeFails, SavesAnything, Quietly, Step, recordVars
      <4>3. QED BY <4>1, <4>2
    <3>2. trained # r
      BY <1>2, <3>1, IdleThreadRests, <1>0
    <3>3. QED BY <1>0, <2>1, <3>1, <3>2 DEF RunOrNone
  <2>6. QED BY <2>2, <2>3, <2>4, <2>5
<1>3. CASE Restart
  <2>1. \A r \in Runs : thread[r].pc # "new" => thread'[r].pc = "over"
    BY <1>3 DEF Restart, Idle
  <2>2. QED BY <1>0, <1>3, <2>1 DEF Restart, RunOrNone
<1>4. CASE UNCHANGED vars
  BY <1>4 DEF vars, recordVars
<1>5. QED BY <1>1, <1>2, <1>3, <1>4 DEF Next

\* As long as no run is purged before its thread is over, the task never points
\* at a run whose replay is gone: its "run again" finds a script.
THEOREM TrainedSafety ==
    ASSUME ~PurgeLive
    PROVE  Spec => []TrainedRunHasReplay
<1>1. Init => RowInv /\ TrainedInv
  BY InitType DEF Init, RecordsInit, RowInv, TrainedInv, Idle
<1>2. RowInv /\ TrainedInv /\ [Next]_vars => RowInv' /\ TrainedInv'
  BY RowInductive, TrainedInductive
<1>3. RowInv /\ TrainedInv => TrainedRunHasReplay
  BY DEF TrainedInv, TrainedRunHasReplay
<1>4. QED BY <1>1, <1>2, <1>3, PTL DEF Spec
==============================================================================
