-------------------------- MODULE CollectionRunner --------------------------
(***************************************************************************)
(* Who may collect, and what the history says about it.                    *)
(*                                                                         *)
(* A collection is asked by the scheduler of a process, by POST            *)
(* /collection/run or by the command line; each asks in a thread.  A       *)
(* thread takes the thread lock of its process, then the advisory lock of  *)
(* PostgreSQL on a connection of its own, writes its row of                *)
(* collection_runs, and runs four phases with a heartbeat commit after     *)
(* each of the first three.  A process can die, the lock's connection can  *)
(* be lost without the thread noticing, the database can refuse a          *)
(* statement, and the source can fail.                                     *)
(***************************************************************************)
EXTENDS Integers, FiniteSets

CONSTANTS
    Procs,        \* API processes
    Threads,      \* threads that ask for a collection
    ProcOf,       \* the process of each thread
    NoThread,     \* nobody
    Postgres,     \* FALSE: SQLite, where the advisory lock is always granted
    LoseLock,     \* TRUE: the connection that holds the lock may be lost
    DbFaults,     \* TRUE: the commits of the runner may fail
    Timeout,      \* COLLECTION_TIMEOUT_SECONDS, in ticks
    MaxGap,       \* longest time, in ticks, between two heartbeats of a run
    MaxRows       \* bound: rows of the history kept apart at a time

ASSUME RunnerAssumption ==
    /\ ProcOf \in [Threads -> Procs]
    /\ NoThread \notin Threads
    /\ Postgres \in BOOLEAN /\ LoseLock \in BOOLEAN /\ DbFaults \in BOOLEAN
    /\ Timeout \in Nat \ {0} /\ MaxGap \in Nat \ {0} /\ MaxRows \in Nat \ {0}

Phases == 1 .. 4
Rows   == 1 .. MaxRows
NoRow  == 0

VARIABLES
    threadLock,   \* _thread_lock: the thread that holds it, per process
    advisory,     \* the thread whose connection holds the advisory lock
    flag,         \* _running_since is set, per process
    runs,         \* collection_runs: its rows, "none" where there is none
    newest,       \* the row that started last
    thr           \* threads: where they are, their row, the rows they will
                  \* mark, and the time since their last heartbeat

vars == <<threadLock, advisory, flag, runs, newest, thr>>

Pcs == {"idle", "advisory", "flag", "select", "start", "phase", "finish",
        "fail", "unlock", "leave"}

\* hb is the age of heartbeat_at in ticks.
RunRecord == [status : {"none", "running", "success", "error"},
              hb : 0 .. Timeout + 1]

ThreadRecord == [pc : Pcs, phase : Phases, row : Rows,
                 stale : SUBSET Rows, gap : 0 .. MaxGap]

NoRun == [status |-> "none", hb |-> 0]
Idle  == [pc |-> "idle", phase |-> 1, row |-> 1, stale |-> {}, gap |-> 0]

\* A thread whose row is written and not yet finished.
Collecting(t) == thr[t].pc \in {"phase", "finish", "fail"}

\* A thread inside _run_locked.
InRunLocked(t) == Collecting(t) \/ thr[t].pc \in {"flag", "select", "start"}

Init ==
    /\ threadLock = [p \in Procs |-> NoThread]
    /\ advisory = NoThread
    /\ flag = [p \in Procs |-> FALSE]
    /\ runs = [id \in Rows |-> NoRun] /\ newest = NoRow
    /\ thr = [t \in Threads |-> Idle]

-----------------------------------------------------------------------------
(* The history.                                                            *)

Running == {id \in Rows : runs[id].status = "running"}

\* A row ends, at now: its heartbeat is not looked at any more.
Close(id, status) ==
    runs' = [runs EXCEPT ![id].status = status, ![id].hb = 0]

\* Rows for a new run: none that says running, is to be marked or is still
\* written by a thread.
FreeRows ==
    LET marked  == UNION {thr[t].stale : t \in Threads}
        written == {thr[t].row : t \in {u \in Threads : Collecting(u)}}
    IN  Rows \ (Running \cup marked \cup written)

\* Bound: there is one more row than threads that are about to write one; a
\* thread may ask, and a row may be orphaned, only then.
RoomForRow ==
    Cardinality({t \in Threads : thr[t].pc # "idle" /\ ~Collecting(t)})
        < Cardinality(FreeRows)

\* Fault: the heartbeat is not looked at.
StaleRows_AnyRunning ==
    Running

\* Fault: the comparison with the timeout is the other way round.
StaleRows_Swapped ==
    {id \in Running : runs[id].hb < Timeout}

\* mark_abandoned's query: running rows whose heartbeat passed the timeout.
StaleRows ==
    {id \in Running : runs[id].hb > Timeout}

-----------------------------------------------------------------------------
(* The locks.                                                              *)

Set(t, fields) == thr' = [thr EXCEPT ![t] = fields]

\* acquire(blocking=False) would succeed.
ThreadLockFree(t) == threadLock[ProcOf[t]] = NoThread

\* run: the thread lock is tried without blocking; a second caller of the
\* process gets CollectionAlreadyRunningError and changes nothing.
TryThreadLock(t) ==
    /\ thr[t].pc = "idle"
    /\ ThreadLockFree(t) /\ RoomForRow
    /\ threadLock' = [threadLock EXCEPT ![ProcOf[t]] = t]
    /\ Set(t, [Idle EXCEPT !.pc = "advisory"])
    /\ UNCHANGED <<advisory, flag, runs, newest>>

\* Fault: the answer of pg_try_advisory_lock is not looked at.
MayLock_Always == TRUE

\* pg_try_advisory_lock, which always answers yes outside PostgreSQL.
MayLock == ~Postgres \/ advisory = NoThread

\* try_acquire: granted, busy, or an error; the last two go to the finally.
TryAdvisory(t) ==
    /\ thr[t].pc = "advisory"
    /\ \/ /\ MayLock
          /\ advisory' = IF Postgres THEN t ELSE advisory
          /\ Set(t, [thr[t] EXCEPT !.pc = "flag"])
       \/ /\ ~MayLock \/ DbFaults
          /\ advisory' = advisory
          /\ Set(t, [thr[t] EXCEPT !.pc = "leave"])
    /\ UNCHANGED <<threadLock, flag, runs, newest>>

\* release of the advisory lock, if this connection still holds it.  An unlock
\* that fails is taken for one whose connection is gone, and the lock with it.
Unlock(t) ==
    /\ thr[t].pc = "unlock"
    /\ advisory' = IF advisory = t THEN NoThread ELSE advisory
    /\ Set(t, [thr[t] EXCEPT !.pc = "leave"])
    /\ UNCHANGED <<threadLock, flag, runs, newest>>

\* release of the thread lock.
Leave(t) ==
    /\ thr[t].pc = "leave"
    /\ threadLock' = [threadLock EXCEPT ![ProcOf[t]] = NoThread]
    /\ Set(t, Idle)
    /\ UNCHANGED <<advisory, flag, runs, newest>>

\* The server drops the connection that holds the lock, and with it the lock.
ConnectionLost ==
    /\ LoseLock /\ advisory # NoThread
    /\ advisory' = NoThread
    /\ UNCHANGED <<threadLock, flag, runs, newest, thr>>

-----------------------------------------------------------------------------
(* _run_locked.                                                            *)

\* _running_since is set before the try that would reset it.
SetFlag(t) ==
    /\ thr[t].pc = "flag"
    /\ flag' = [flag EXCEPT ![ProcOf[t]] = TRUE]
    /\ Set(t, [thr[t] EXCEPT !.pc = "select"])
    /\ UNCHANGED <<threadLock, advisory, runs, newest>>

\* mark_abandoned reads the rows it will mark.
SelectStale(t) ==
    /\ thr[t].pc = "select"
    /\ Set(t, [thr[t] EXCEPT !.pc = "start", !.stale = StaleRows])
    /\ UNCHANGED <<threadLock, advisory, flag, runs, newest>>

\* The commit of the marks and of the new running row.  An error before it
\* leaves through run's finally: the row is not written, the flag stays.
\* Rows that ended before are forgotten: no operation reads one but the newest.
StartRow(t) ==
    /\ thr[t].pc = "start"
    /\ \/ \E id \in FreeRows :
             /\ \A other \in FreeRows : id <= other
             /\ runs' = [k \in Rows |->
                   CASE k = id -> [NoRun EXCEPT !.status = "running"]
                     [] k \in Running \ (thr[t].stale \cup {id}) -> runs[k]
                     [] OTHER -> NoRun]
             /\ newest' = id
             /\ Set(t, [Idle EXCEPT !.pc = "phase", !.row = id])
       \/ /\ DbFaults
          /\ Set(t, [Idle EXCEPT !.pc = "unlock"])
          /\ UNCHANGED <<runs, newest>>
    /\ UNCHANGED <<threadLock, advisory, flag>>

\* Fault: off by one, a heartbeat and a next phase after the last one.
MorePhases_OffByOne(t) == thr[t].phase <= 4

\* The phases that end in a heartbeat and are followed by another one.
MorePhases(t) == thr[t].phase < 4

\* A phase of CollectionService.run: servers, channels, server metrics,
\* channel metrics.  The first three end in the heartbeat's commit, which
\* also commits what the phase wrote; the fourth in the service's own commit.
Phase(t) ==
    /\ thr[t].pc = "phase"
    /\ runs' = [runs EXCEPT ![thr[t].row].hb = IF MorePhases(t) THEN 0 ELSE @]
    /\ IF MorePhases(t)
       THEN Set(t, [thr[t] EXCEPT !.phase = @ + 1, !.gap = 0])
       ELSE Set(t, [thr[t] EXCEPT !.pc = "finish"])
    /\ UNCHANGED <<threadLock, advisory, flag, newest>>

\* The source, a phase or a commit raises: rollback to the last commit.
PhaseFails(t) ==
    /\ thr[t].pc \in {"phase", "finish"}
    /\ thr[t].pc = "finish" => DbFaults
    /\ Set(t, [thr[t] EXCEPT !.pc = "fail"])
    /\ UNCHANGED <<threadLock, advisory, flag, runs, newest>>

\* The inner finally: _running_since = None.
ClearFlag(t) == flag' = [flag EXCEPT ![ProcOf[t]] = FALSE]

\* finish_success.
FinishSuccess(t) ==
    /\ thr[t].pc = "finish"
    /\ Close(thr[t].row, "success")
    /\ ClearFlag(t)
    /\ Set(t, [Idle EXCEPT !.pc = "unlock"])
    /\ UNCHANGED <<threadLock, advisory, newest>>

\* finish_error; when its own commit fails the row stays running.
FinishError(t) ==
    /\ thr[t].pc = "fail"
    /\ \/ Close(thr[t].row, "error")
       \/ DbFaults /\ RoomForRow /\ UNCHANGED runs
    /\ ClearFlag(t)
    /\ Set(t, [Idle EXCEPT !.pc = "unlock"])
    /\ UNCHANGED <<threadLock, advisory, newest>>

-----------------------------------------------------------------------------
(* The status endpoint.                                                    *)

\* GET /collection/status answered by process p: running or not.
SaysRunning(p) ==
    /\ newest \in Running
    /\ runs[newest].hb <= Timeout \/ flag[p]

-----------------------------------------------------------------------------
(* Time and processes.                                                     *)

Tick ==
    /\ \A t \in Threads : Collecting(t) => thr[t].gap < MaxGap
    /\ \E id \in Running : runs[id].hb <= Timeout
    /\ runs' = [id \in Rows |->
                   IF id \in Running /\ runs[id].hb <= Timeout
                   THEN [runs[id] EXCEPT !.hb = @ + 1] ELSE runs[id]]
    /\ thr' = [t \in Threads |->
                  IF Collecting(t) THEN [thr[t] EXCEPT !.gap = @ + 1] ELSE thr[t]]
    /\ UNCHANGED <<threadLock, advisory, flag, newest>>

\* A process dies: its locks are freed by the system and by the server.
Crash(p) ==
    /\ RoomForRow
    /\ \E t \in Threads : ProcOf[t] = p /\ thr[t].pc # "idle"
    /\ threadLock' = [threadLock EXCEPT ![p] = NoThread]
    /\ advisory' = IF advisory # NoThread /\ ProcOf[advisory] = p
                   THEN NoThread ELSE advisory
    /\ flag' = [flag EXCEPT ![p] = FALSE]
    /\ thr' = [t \in Threads |-> IF ProcOf[t] = p THEN Idle ELSE thr[t]]
    /\ UNCHANGED <<runs, newest>>

Step(t) ==
    \/ TryAdvisory(t) \/ SetFlag(t) \/ SelectStale(t) \/ StartRow(t)
    \/ Phase(t) \/ PhaseFails(t) \/ FinishSuccess(t) \/ FinishError(t)
    \/ Unlock(t) \/ Leave(t)

Next ==
    \/ \E t \in Threads : TryThreadLock(t) \/ Step(t)
    \/ \E p \in Procs : Crash(p)
    \/ ConnectionLost
    \/ Tick

Spec == Init /\ [][Next]_vars

\* Threads run on; the scheduler of every process asks again and again
\* (CollectionScheduler._loop); time passes; processes do not die for ever.
Fairness ==
    /\ \A t \in Threads : WF_vars(Step(t)) /\ SF_vars(TryThreadLock(t))
    /\ WF_vars(Tick)
    /\ <>[][\A p \in Procs : ~Crash(p)]_vars

LiveSpec == Spec /\ Fairness

-----------------------------------------------------------------------------
(* Properties.                                                             *)

TypeOK ==
    /\ threadLock \in [Procs -> Threads \cup {NoThread}]
    /\ advisory \in Threads \cup {NoThread}
    /\ flag \in [Procs -> BOOLEAN]
    /\ runs \in [Rows -> RunRecord]
    /\ newest \in Rows \cup {NoRow}
    /\ thr \in [Threads -> ThreadRecord]

\* Mutual exclusion across processes and threads: two threads are never both
\* inside _run_locked (runner.run, its two locks).
OneCollector ==
    \A t, u \in Threads : InRunLocked(t) /\ InRunLocked(u) => t = u

\* Within a process the thread lock is enough: whatever the database does,
\* its threads never collect together (single-process deployments).
OneCollectorPerProcess ==
    \A t, u \in Threads :
        ProcOf[t] = ProcOf[u] /\ InRunLocked(t) /\ InRunLocked(u) => t = u

\* A run in progress is never marked abandoned, nor is its row taken by
\* another run: its row says running until the run itself ends it.
LiveRunKeepsItsRow ==
    \A t \in Threads : Collecting(t) => thr[t].row \in Running

\* "Si hay una ejecucion en curso (heartbeat vigente), la describe; si no,
\* describe la ultima terminada": the status says running only of a row with
\* a fresh heartbeat or while some thread is collecting or about to.
StatusReportsLiveRuns ==
    \A p \in Procs : SaysRunning(p) =>
        runs[newest].hb <= Timeout \/ \E t \in Threads : thr[t].pc # "idle"

\* The newest row of a history without lost locks tells the truth about the
\* runs: while one is in progress it is the newest, so the status endpoint
\* describes it and no older one.
LiveRunIsNewest ==
    \A t \in Threads : Collecting(t) => newest = thr[t].row

\* The history as a reader of collection_runs sees it, and the row of the run
\* in progress.
History == [id \in Rows |-> runs[id].status]
LiveRow ==
    IF \E t \in Threads : Collecting(t)
    THEN thr[CHOOSE t \in Threads : Collecting(t)].row
    ELSE NoRow

Promise == INSTANCE CollectionPromise WITH
    Rows <- Rows, NoRow <- NoRow,
    history <- History, live <- LiveRow, newest <- newest

\* The threads, processes and locks of the runner implement the history of one
\* run at a time (runner.run, _run_locked, CollectionRunRepository): a row is
\* started only when no run is in progress, is ended by its own run and by no
\* other, and says running otherwise until the start of a later run.
KeepsHistory == Promise!PromiseSpec

\* Liveness: a row left running by a dead process does not say so for ever.
OrphanRowsSettle ==
    \A id \in Rows : (id \in Running) ~> (id \notin Running)

=============================================================================
