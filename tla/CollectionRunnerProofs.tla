----------------------- MODULE CollectionRunnerProofs -----------------------
(***************************************************************************)
(* Proofs about CollectionRunner, for any number of processes, threads and *)
(* rows, any timeout and any gap between heartbeats: the locks keep runs   *)
(* apart, a run keeps its row, and the runner implements the history that  *)
(* CollectionPromise promises its readers.                                 *)
(***************************************************************************)
EXTENDS CollectionRunner, TLAPS

\* The definitions a step is made of.
USE DEF Set

-----------------------------------------------------------------------------
(* Types.                                                                  *)

\* There is a first row, and the absence of a row is not one.
LEMMA RowConstants == 1 \in Rows /\ MaxRows \in Nat /\ NoRow \notin Rows
BY RunnerAssumption DEF RunnerAssumption, Rows, NoRow

\* The records threads and rows start from are typed.
LEMMA IdleType == Idle \in ThreadRecord /\ NoRun \in RunRecord
BY RunnerAssumption, RowConstants
DEF RunnerAssumption, Idle, NoRun, ThreadRecord, RunRecord, Pcs, Phases

\* A process starts typed.
LEMMA InitType == Init => TypeOK
BY RunnerAssumption, IdleType DEF RunnerAssumption, Init, TypeOK

\* A thread that moves to a typed record keeps thr typed.
LEMMA MovedThread ==
    ASSUME TypeOK, NEW t \in Threads, NEW rec \in ThreadRecord, Set(t, rec)
    PROVE  thr' \in [Threads -> ThreadRecord]
BY DEF TypeOK

\* Every action of a thread preserves the types.
LEMMA StepType ==
    ASSUME TypeOK, NEW t \in Threads, TryThreadLock(t) \/ Step(t)
    PROVE  TypeOK'
<1> USE RunnerAssumption, IdleType
<1>1. thr[t] \in ThreadRecord /\ ProcOf[t] \in Procs
  BY DEF TypeOK, RunnerAssumption
<1>2. CASE TryThreadLock(t)
  <2>1. [Idle EXCEPT !.pc = "advisory"] \in ThreadRecord
    BY DEF Idle, ThreadRecord, Pcs
  <2> QED
    BY <1>1, <1>2, <2>1, MovedThread DEF TryThreadLock, TypeOK
<1>3. CASE TryAdvisory(t)
  <2>1. /\ [thr[t] EXCEPT !.pc = "flag"] \in ThreadRecord
        /\ [thr[t] EXCEPT !.pc = "leave"] \in ThreadRecord
    BY <1>1 DEF ThreadRecord, Pcs
  <2>2. advisory' \in Threads \cup {NoThread}
    BY <1>3 DEF TryAdvisory, TypeOK
  <2> QED
    BY <1>3, <2>1, <2>2, MovedThread DEF TryAdvisory, TypeOK
<1>4. CASE SetFlag(t)
  <2>1. [thr[t] EXCEPT !.pc = "select"] \in ThreadRecord
    BY <1>1 DEF ThreadRecord, Pcs
  <2> QED
    BY <1>1, <1>4, <2>1, MovedThread DEF SetFlag, TypeOK
<1>5. CASE SelectStale(t)
  <2>1. StaleRows \in SUBSET Rows
    BY DEF StaleRows, Running
  <2>2. [thr[t] EXCEPT !.pc = "start", !.stale = StaleRows] \in ThreadRecord
    BY <1>1, <2>1 DEF ThreadRecord, Pcs
  <2> QED
    BY <1>5, <2>2, MovedThread DEF SelectStale, TypeOK
<1>6. CASE StartRow(t)
  <2>1. [Idle EXCEPT !.pc = "unlock"] \in ThreadRecord
    BY DEF Idle, ThreadRecord, Pcs
  <2>2. \A id \in Rows : [Idle EXCEPT !.pc = "phase", !.row = id] \in ThreadRecord
    BY DEF Idle, ThreadRecord, Pcs
  <2>3. [NoRun EXCEPT !.status = "running"] \in RunRecord
    BY DEF NoRun, RunRecord
  <2>4. FreeRows \subseteq Rows
    BY DEF FreeRows
  <2>5. runs' \in [Rows -> RunRecord] /\ newest' \in Rows \cup {NoRow}
    <3>1. CASE UNCHANGED <<runs, newest>>
      BY <3>1 DEF TypeOK
    <3>2. CASE ~UNCHANGED <<runs, newest>>
      <4>1. PICK id \in FreeRows :
              /\ newest' = id
              /\ runs' = [k \in Rows |->
                    CASE k = id -> [NoRun EXCEPT !.status = "running"]
                      [] k \in Running \ (thr[t].stale \cup {id}) -> runs[k]
                      [] OTHER -> NoRun]
        BY <1>6, <3>2 DEF StartRow
      <4>2. \A k \in Rows : runs'[k] \in RunRecord
        <5> TAKE k \in Rows
        <5>1. runs[k] \in RunRecord
          BY DEF TypeOK
        <5> QED
          BY <2>3, <4>1, <5>1
      <4> QED
        BY <2>4, <4>1, <4>2
    <3> QED
      BY <3>1, <3>2
  <2>6. thr' \in [Threads -> ThreadRecord]
    BY <1>6, <2>1, <2>2, <2>4, MovedThread DEF StartRow
  <2> QED
    BY <1>6, <2>5, <2>6 DEF StartRow, TypeOK
<1>7. CASE Phase(t)
  <2>1. runs' \in [Rows -> RunRecord]
    <3>1. thr[t].row \in Rows /\ runs[thr[t].row] \in RunRecord
      BY <1>1 DEF TypeOK, ThreadRecord
    <3>2. \A r \in RunRecord, hb \in 0 .. Timeout + 1 :
             [r EXCEPT !.hb = hb] \in RunRecord
      BY DEF RunRecord
    <3>3. \E hb \in 0 .. Timeout + 1 :
             runs' = [runs EXCEPT ![thr[t].row] =
                         [runs[thr[t].row] EXCEPT !.hb = hb]]
      <4>1. 0 \in 0 .. Timeout + 1 /\ runs[thr[t].row].hb \in 0 .. Timeout + 1
        BY <3>1, RunnerAssumption DEF RunRecord, RunnerAssumption
      <4>2. CASE MorePhases(t)
        <5>1. runs' = [runs EXCEPT ![thr[t].row] =
                          [runs[thr[t].row] EXCEPT !.hb = 0]]
          BY <1>7, <3>1, <4>2 DEF Phase, TypeOK, RunRecord
        <5> QED
          BY <4>1, <5>1
      <4>3. CASE ~MorePhases(t)
        <5>1. runs' = [runs EXCEPT ![thr[t].row] =
                          [runs[thr[t].row] EXCEPT !.hb = runs[thr[t].row].hb]]
          BY <1>7, <3>1, <4>3 DEF Phase, TypeOK, RunRecord
        <5> QED
          BY <4>1, <5>1
      <4> QED
        BY <4>2, <4>3
    <3>4. PICK hb \in 0 .. Timeout + 1 :
             runs' = [runs EXCEPT ![thr[t].row] =
                         [runs[thr[t].row] EXCEPT !.hb = hb]]
      BY <3>3
    <3>5. [runs[thr[t].row] EXCEPT !.hb = hb] \in RunRecord
      BY <3>1, <3>2
    <3> QED
      BY <3>1, <3>4, <3>5 DEF TypeOK
  <2>2. /\ MorePhases(t) => [thr[t] EXCEPT !.phase = @ + 1, !.gap = 0] \in ThreadRecord
        /\ [thr[t] EXCEPT !.pc = "finish"] \in ThreadRecord
    <3>1. 0 \in 0 .. MaxGap
      BY RunnerAssumption DEF RunnerAssumption
    <3>2. MorePhases(t) => thr[t].phase + 1 \in Phases
      BY <1>1 DEF MorePhases, ThreadRecord, Phases
    <3> QED
      BY <1>1, <3>1, <3>2 DEF ThreadRecord, Pcs
  <2>3. thr' \in [Threads -> ThreadRecord]
    BY <1>7, <2>2, MovedThread DEF Phase
  <2> QED
    BY <1>7, <2>1, <2>3 DEF Phase, TypeOK
<1>8. CASE PhaseFails(t)
  <2>1. [thr[t] EXCEPT !.pc = "fail"] \in ThreadRecord
    BY <1>1 DEF ThreadRecord, Pcs
  <2> QED
    BY <1>8, <2>1, MovedThread DEF PhaseFails, TypeOK
<1>9. CASE FinishSuccess(t) \/ FinishError(t)
  <2>1. [Idle EXCEPT !.pc = "unlock"] \in ThreadRecord
    BY DEF Idle, ThreadRecord, Pcs
  <2>2. thr' \in [Threads -> ThreadRecord]
    BY <1>9, <2>1, MovedThread DEF FinishSuccess, FinishError
  <2>3. runs' \in [Rows -> RunRecord]
    <3>1. thr[t].row \in Rows /\ runs[thr[t].row] \in RunRecord
      BY <1>1 DEF TypeOK, ThreadRecord
    <3>2. ASSUME NEW status \in {"success", "error"}
          PROVE  [runs EXCEPT ![thr[t].row].status = status, ![thr[t].row].hb = 0]
                    \in [Rows -> RunRecord]
      <4>1. 0 \in 0 .. Timeout + 1
        BY RunnerAssumption DEF RunnerAssumption
      <4>2. [runs[thr[t].row] EXCEPT !.status = status, !.hb = 0] \in RunRecord
        BY <3>1, <4>1 DEF RunRecord
      <4>3. [runs EXCEPT ![thr[t].row].status = status, ![thr[t].row].hb = 0]
             = [runs EXCEPT ![thr[t].row] =
                   [runs[thr[t].row] EXCEPT !.status = status, !.hb = 0]]
        BY <3>1 DEF TypeOK, RunRecord
      <4> QED
        BY <3>1, <4>2, <4>3 DEF TypeOK
    <3> QED
      BY <1>9, <3>2 DEF FinishSuccess, FinishError, Close, TypeOK
  <2> QED
    BY <1>1, <1>9, <2>2, <2>3 DEF FinishSuccess, FinishError, ClearFlag, TypeOK
<1>10. CASE Unlock(t) \/ Leave(t)
  <2>1. [thr[t] EXCEPT !.pc = "leave"] \in ThreadRecord
    BY <1>1 DEF ThreadRecord, Pcs
  <2>2. thr' \in [Threads -> ThreadRecord]
    BY <1>10, <2>1, MovedThread DEF Unlock, Leave
  <2> QED
    BY <1>1, <1>10, <2>2 DEF Unlock, Leave, TypeOK
<1> QED
  BY <1>2, <1>3, <1>4, <1>5, <1>6, <1>7, <1>8, <1>9, <1>10 DEF Step

\* So do the ticks, the crashes and the lost connections.
LEMMA EnvironmentType ==
    ASSUME TypeOK, Tick \/ ConnectionLost \/ \E p \in Procs : Crash(p)
    PROVE  TypeOK'
<1>1. CASE Tick
  <2>1. \A id \in Rows : runs[id] \in RunRecord
    BY DEF TypeOK
  <2>2. ASSUME NEW id \in Rows, id \in Running, runs[id].hb <= Timeout
        PROVE  [runs[id] EXCEPT !.hb = @ + 1] \in RunRecord
    BY <2>1, <2>2, RunnerAssumption DEF RunRecord, RunnerAssumption
  <2>3. runs' \in [Rows -> RunRecord]
    BY <1>1, <2>1, <2>2 DEF Tick
  <2>4. ASSUME NEW t \in Threads, Collecting(t)
        PROVE  [thr[t] EXCEPT !.gap = @ + 1] \in ThreadRecord
    <3>1. thr[t] \in ThreadRecord /\ thr[t].gap < MaxGap
      BY <1>1, <2>4 DEF Tick, TypeOK
    <3> QED
      BY <3>1, RunnerAssumption DEF ThreadRecord, RunnerAssumption
  <2>5. thr' \in [Threads -> ThreadRecord]
    BY <1>1, <2>4 DEF Tick, TypeOK
  <2> QED
    BY <1>1, <2>3, <2>5 DEF Tick, TypeOK
<1>2. CASE ConnectionLost
  BY <1>2 DEF ConnectionLost, TypeOK
<1>3. ASSUME NEW p \in Procs, Crash(p) PROVE TypeOK'
  <2>1. thr' \in [Threads -> ThreadRecord]
    BY <1>3, IdleType DEF Crash, TypeOK
  <2> QED
    BY <1>3, <2>1 DEF Crash, TypeOK
<1> QED
  BY <1>1, <1>2, <1>3

\* Typing is inductive.
LEMMA NextType == TypeOK /\ [Next]_vars => TypeOK'
<1> SUFFICES ASSUME TypeOK, [Next]_vars PROVE TypeOK'
  OBVIOUS
<1>1. CASE UNCHANGED vars
  BY <1>1 DEF vars, TypeOK
<1>2. CASE Next
  BY <1>2, StepType, EnvironmentType DEF Next
<1> QED
  BY <1>1, <1>2

\* The state of the runner keeps its types, whatever the deployment.
THEOREM TypeCorrect == Spec => []TypeOK
BY InitType, NextType, PTL DEF Spec

-----------------------------------------------------------------------------
(* The thread lock.                                                        *)

\* A thread that is not idle holds the thread lock of its process.
ThreadLockInv ==
    \A t \in Threads : thr[t].pc # "idle" => threadLock[ProcOf[t]] = t

\* A step of a thread leaves the other threads where they are.
LEMMA OthersStay ==
    ASSUME TypeOK, NEW t \in Threads, TryThreadLock(t) \/ Step(t),
           NEW u \in Threads, u # t
    PROVE  thr'[u] = thr[u]
BY DEF TypeOK, TryThreadLock, Step, TryAdvisory, SetFlag, SelectStale, StartRow,
       Phase, PhaseFails, FinishSuccess, FinishError, Unlock, Leave

\* Every step keeps the thread lock with the thread that went past it.
LEMMA ThreadLockStep ==
    ASSUME TypeOK, ThreadLockInv, [Next]_vars
    PROVE  ThreadLockInv'
<1> USE RunnerAssumption DEF RunnerAssumption
<1>1. CASE UNCHANGED vars
  BY <1>1 DEF vars, ThreadLockInv
<1>2. CASE Tick
  BY <1>2 DEF Tick, TypeOK, ThreadRecord, ThreadLockInv
<1>3. CASE ConnectionLost
  BY <1>3 DEF ConnectionLost, ThreadLockInv
<1>4. ASSUME NEW p \in Procs, Crash(p) PROVE ThreadLockInv'
  BY <1>4 DEF Crash, TypeOK, ThreadLockInv, Idle
<1>5. ASSUME NEW t \in Threads, TryThreadLock(t) \/ Step(t) PROVE ThreadLockInv'
  <2> SUFFICES ASSUME NEW u \in Threads, thr'[u].pc # "idle"
               PROVE  threadLock'[ProcOf[u]] = u
    BY DEF ThreadLockInv
  <2>1. CASE TryThreadLock(t)
    <3>1. CASE u = t
      BY <2>1, <3>1 DEF TryThreadLock, TypeOK
    <3>2. CASE u # t
      <4>1. threadLock[ProcOf[u]] = u /\ u # NoThread
        BY <1>5, <3>2, OthersStay DEF ThreadLockInv
      <4>2. ProcOf[u] # ProcOf[t]
        BY <2>1, <4>1 DEF TryThreadLock, ThreadLockFree
      <4> QED
        BY <2>1, <4>1, <4>2 DEF TryThreadLock, TypeOK
    <3> QED
      BY <3>1, <3>2
  <2>2. CASE Leave(t)
    <3>1. u # t
      BY <2>2 DEF Leave, TypeOK, Idle
    <3>2. threadLock[ProcOf[u]] = u /\ threadLock[ProcOf[t]] = t
      BY <1>5, <2>2, <3>1, OthersStay DEF ThreadLockInv, Leave
    <3> QED
      BY <2>2, <3>1, <3>2 DEF Leave, TypeOK
  <2>3. CASE Step(t) /\ ~Leave(t)
    <3>1. threadLock' = threadLock /\ thr[t].pc # "idle"
      BY <2>3 DEF Step, TryAdvisory, SetFlag, SelectStale, StartRow, Phase,
                  PhaseFails, FinishSuccess, FinishError, Unlock
    <3> QED
      BY <1>5, <3>1, OthersStay DEF ThreadLockInv
  <2> QED
    BY <1>5, <2>1, <2>2, <2>3
<1> QED
  BY <1>1, <1>2, <1>3, <1>4, <1>5 DEF Next

\* A thread between TryThreadLock and Leave holds the lock of its process
\* (runner.run: acquire before the try, release in its finally).
THEOREM ThreadLockHeld == Spec => [](TypeOK /\ ThreadLockInv)
<1>1. Init => TypeOK /\ ThreadLockInv
  BY InitType DEF Init, ThreadLockInv, Idle
<1>2. TypeOK /\ ThreadLockInv /\ [Next]_vars => (TypeOK /\ ThreadLockInv)'
  BY NextType, ThreadLockStep
<1> QED
  BY <1>1, <1>2, PTL DEF Spec

\* A process never runs two collections at once, whatever becomes of the
\* database and its locks.
THEOREM ProcessExclusion == Spec => []OneCollectorPerProcess
<1>1. TypeOK /\ ThreadLockInv => OneCollectorPerProcess
  BY DEF ThreadLockInv, OneCollectorPerProcess, InRunLocked, Collecting
<1> QED
  BY <1>1, ThreadLockHeld, PTL

-----------------------------------------------------------------------------
(* The advisory lock.                                                      *)

\* On PostgreSQL, and while its connection is not lost, a thread between its
\* lock and its unlock holds the advisory lock.
AdvisoryInv ==
    \A t \in Threads : InRunLocked(t) \/ thr[t].pc = "unlock" => advisory = t

\* While one run is in progress its row says running and is the newest.
HistoryInv ==
    \A t \in Threads : Collecting(t) => thr[t].row \in Running /\ newest = thr[t].row

\* While its connection lives, a thread past try_acquire holds the advisory
\* lock of PostgreSQL.
LEMMA AdvisoryStep ==
    ASSUME Postgres, ~LoseLock, TypeOK, AdvisoryInv, [Next]_vars
    PROVE  AdvisoryInv'
<1> USE RunnerAssumption DEF RunnerAssumption, InRunLocked, Collecting
<1>1. CASE UNCHANGED vars
  BY <1>1 DEF vars, AdvisoryInv
<1>2. CASE Tick
  <2>1. \A t \in Threads : thr'[t].pc = thr[t].pc
    BY <1>2 DEF Tick, TypeOK, ThreadRecord
  <2> QED
    BY <1>2, <2>1 DEF Tick, AdvisoryInv
<1>3. CASE ConnectionLost
  BY <1>3 DEF ConnectionLost
<1>4. ASSUME NEW p \in Procs, Crash(p) PROVE AdvisoryInv'
  BY <1>4 DEF Crash, TypeOK, AdvisoryInv, Idle
<1>5. ASSUME NEW t \in Threads, TryThreadLock(t) \/ Step(t) PROVE AdvisoryInv'
  <2> SUFFICES ASSUME NEW u \in Threads, InRunLocked(u)' \/ thr'[u].pc = "unlock"
               PROVE  advisory' = u
    BY DEF AdvisoryInv
  <2>1. CASE TryThreadLock(t)
    <3>1. u # t
      BY <2>1 DEF TryThreadLock, TypeOK, Idle
    <3> QED
      BY <1>5, <2>1, <3>1, OthersStay DEF TryThreadLock, AdvisoryInv
  <2>2. CASE TryAdvisory(t)
    <3>1. CASE advisory' = t /\ advisory = NoThread
      BY <1>5, <3>1, OthersStay DEF AdvisoryInv
    <3>2. CASE advisory' = advisory /\ thr' = [thr EXCEPT ![t] = [thr[t] EXCEPT !.pc = "leave"]]
      <4>1. u # t
        BY <3>2 DEF TypeOK, ThreadRecord
      <4> QED
        BY <1>5, <3>2, <4>1, OthersStay DEF AdvisoryInv
    <3> QED
      BY <2>2, <3>1, <3>2 DEF TryAdvisory, MayLock
  <2>3. CASE Unlock(t)
    <3>1. u # t
      BY <2>3 DEF Unlock, TypeOK, ThreadRecord
    <3>2. advisory = u /\ advisory = t
      BY <1>5, <2>3, <3>1, OthersStay DEF AdvisoryInv, Unlock
    <3> QED
      BY <3>1, <3>2
  <2>4. CASE Leave(t)
    <3>1. u # t
      BY <2>4 DEF Leave, TypeOK, Idle
    <3> QED
      BY <1>5, <2>4, <3>1, OthersStay DEF AdvisoryInv, Leave
  <2>5. CASE SetFlag(t) \/ SelectStale(t) \/ StartRow(t) \/ Phase(t)
              \/ PhaseFails(t) \/ FinishSuccess(t) \/ FinishError(t)
    <3>1. advisory' = advisory /\ InRunLocked(t)
      BY <2>5 DEF SetFlag, SelectStale, StartRow, Phase, PhaseFails,
                  FinishSuccess, FinishError
    <3>2. advisory = t
      BY <3>1 DEF AdvisoryInv
    <3>3. CASE u = t
      BY <3>1, <3>2, <3>3
    <3>4. CASE u # t
      BY <1>5, <3>1, <3>4, OthersStay DEF AdvisoryInv
    <3> QED
      BY <3>3, <3>4
  <2> QED
    BY <1>5, <2>1, <2>2, <2>3, <2>4, <2>5 DEF Step
<1> QED
  BY <1>1, <1>2, <1>3, <1>4, <1>5 DEF Next

\* A crash, a lost connection or a failed heartbeat of nobody touch no row.
LEMMA HistoryStep ==
    ASSUME Postgres, ~LoseLock, TypeOK, AdvisoryInv, HistoryInv, [Next]_vars
    PROVE  HistoryInv'
<1> USE DEF InRunLocked, Collecting
<1>1. CASE UNCHANGED vars
  BY <1>1 DEF vars, HistoryInv, Running
<1>2. CASE Tick
  <2>1. \A t \in Threads : thr'[t].pc = thr[t].pc /\ thr'[t].row = thr[t].row
    BY <1>2 DEF Tick, TypeOK, ThreadRecord
  <2>2. Running' = Running
    BY <1>2 DEF Tick, TypeOK, RunRecord, Running
  <2> QED
    BY <1>2, <2>1, <2>2 DEF Tick, HistoryInv
<1>3. CASE ConnectionLost
  BY <1>3 DEF ConnectionLost
<1>4. ASSUME NEW p \in Procs, Crash(p) PROVE HistoryInv'
  BY <1>4 DEF Crash, TypeOK, HistoryInv, Idle, Running
<1>5. ASSUME NEW t \in Threads, TryThreadLock(t) \/ Step(t) PROVE HistoryInv'
  <2> SUFFICES ASSUME NEW u \in Threads, Collecting(u)'
               PROVE  thr'[u].row \in Running' /\ newest' = thr'[u].row
    BY DEF HistoryInv
  <2>1. CASE u # t
    <3>1. thr'[u] = thr[u] /\ Collecting(u)
      BY <1>5, <2>1, OthersStay
    <3>2. ~InRunLocked(t)
      BY <2>1, <3>1 DEF AdvisoryInv
    <3>3. runs' = runs /\ newest' = newest
      BY <1>5, <3>2 DEF Step, TryThreadLock, TryAdvisory, SetFlag, SelectStale,
         StartRow, Phase, PhaseFails, FinishSuccess, FinishError, Unlock, Leave
    <3> QED
      BY <3>1, <3>3 DEF HistoryInv, Running
  <2>2. CASE u = t /\ StartRow(t)
    <3>1. PICK id \in FreeRows :
            /\ runs' = [k \in Rows |->
                   CASE k = id -> [NoRun EXCEPT !.status = "running"]
                     [] k \in Running \ (thr[t].stale \cup {id}) -> runs[k]
                     [] OTHER -> NoRun]
            /\ newest' = id
            /\ thr' = [thr EXCEPT ![t] = [Idle EXCEPT !.pc = "phase", !.row = id]]
      BY <2>2 DEF StartRow, TypeOK, Idle
    <3>2. id \in Rows
      BY DEF FreeRows
    <3>3. runs'[id].status = "running"
      BY <3>1, <3>2 DEF NoRun
    <3>4. thr'[u].row = id
      BY <2>2, <3>1 DEF TypeOK, Idle
    <3> QED
      BY <3>1, <3>2, <3>3, <3>4 DEF Running
  <2>3. CASE u = t /\ Phase(t)
    <3>1. thr'[t].row = thr[t].row /\ newest' = newest
      BY <2>3 DEF Phase, TypeOK, ThreadRecord
    <3>2. \A id \in Rows : runs'[id].status = runs[id].status
      BY <2>3 DEF Phase, TypeOK, RunRecord
    <3>3. Collecting(t)
      BY <2>3 DEF Phase
    <3> QED
      BY <2>3, <3>1, <3>2, <3>3 DEF HistoryInv, Running
  <2>4. CASE u = t /\ PhaseFails(t)
    <3>1. thr'[t].row = thr[t].row /\ Collecting(t)
      BY <2>4 DEF PhaseFails, TypeOK, ThreadRecord
    <3> QED
      BY <2>4, <3>1 DEF PhaseFails, HistoryInv, Running
  <2>5. CASE u = t /\ ~StartRow(t) /\ ~Phase(t) /\ ~PhaseFails(t)
    <3>1. thr'[t].pc \notin {"phase", "finish", "fail"}
      <4> USE <2>5 DEF TypeOK, ThreadRecord, Idle
      <4>1. CASE TryThreadLock(t) \/ TryAdvisory(t)
        BY <4>1 DEF TryThreadLock, TryAdvisory
      <4>2. CASE SetFlag(t) \/ SelectStale(t)
        <5>1. CASE SetFlag(t)
          BY <5>1 DEF SetFlag
        <5>2. CASE SelectStale(t)
          <6>1. [thr[t] EXCEPT !.pc = "start", !.stale = StaleRows].pc = "start"
            OBVIOUS
          <6> QED
            BY <5>2, <6>1 DEF SelectStale
        <5> QED
          BY <4>2, <5>1, <5>2
      <4>3. CASE FinishSuccess(t) \/ FinishError(t)
        BY <4>3 DEF FinishSuccess, FinishError
      <4>4. CASE Unlock(t) \/ Leave(t)
        BY <4>4 DEF Unlock, Leave
      <4> QED
        BY <1>5, <4>1, <4>2, <4>3, <4>4 DEF Step
    <3> QED
      BY <2>5, <3>1
  <2> QED
    BY <2>1, <2>2, <2>3, <2>4, <2>5
<1> QED
  BY <1>1, <1>2, <1>3, <1>4, <1>5 DEF Next

\* On PostgreSQL with its lock's connections alive, what the two locks give
\* to any number of processes and threads.
LockedHistory == TypeOK /\ AdvisoryInv /\ HistoryInv

\* The three invariants hold together in a deployment with working locks.
LEMMA LockedHistoryHolds ==
    ASSUME Postgres, ~LoseLock
    PROVE  Spec => []LockedHistory
<1>1. Init => LockedHistory
  BY InitType DEF LockedHistory, Init, AdvisoryInv, HistoryInv, InRunLocked, Collecting, Idle
<1>2. LockedHistory /\ [Next]_vars => LockedHistory'
  BY NextType, AdvisoryStep, HistoryStep DEF LockedHistory
<1> QED
  BY <1>1, <1>2, PTL DEF Spec

\* Two threads, of one process or of two, never collect together.
THEOREM Exclusion ==
    ASSUME Postgres, ~LoseLock
    PROVE  Spec => []OneCollector
<1>1. LockedHistory => OneCollector
  BY DEF LockedHistory, AdvisoryInv, OneCollector
<1> QED
  BY <1>1, LockedHistoryHolds, PTL

\* The history tells the truth about a run in progress, however long its
\* phases take: its row says running and no newer row hides it.
THEOREM HistoryTrue ==
    ASSUME Postgres, ~LoseLock
    PROVE  Spec => [](LiveRunKeepsItsRow /\ LiveRunIsNewest)
<1>1. LockedHistory => LiveRunKeepsItsRow /\ LiveRunIsNewest
  BY DEF LockedHistory, HistoryInv, LiveRunKeepsItsRow, LiveRunIsNewest
<1> QED
  BY <1>1, LockedHistoryHolds, PTL

-----------------------------------------------------------------------------
(* The history that is promised.                                           *)

\* What the promise is about.
Seen == <<History, LiveRow, newest>>

\* The row of a collecting thread is the live one; while none collects there
\* is none.
LEMMA LiveIsLocked ==
    ASSUME TypeOK, AdvisoryInv
    PROVE  /\ \A t \in Threads : Collecting(t) => LiveRow = thr[t].row
           /\ (\A t \in Threads : ~Collecting(t)) => LiveRow = NoRow
<1>1. \A t, u \in Threads : Collecting(t) /\ Collecting(u) => t = u
  BY DEF AdvisoryInv, InRunLocked
<1> QED
  BY <1>1 DEF LiveRow

\* The same after a step.
LEMMA LiveIsLockedAfter ==
    ASSUME AdvisoryInv'
    PROVE  /\ \A t \in Threads : Collecting(t)' => LiveRow' = thr'[t].row
           /\ (\A t \in Threads : ~Collecting(t)') => LiveRow' = NoRow
<1>1. \A t, u \in Threads : Collecting(t)' /\ Collecting(u)' => t = u
  BY DEF AdvisoryInv, InRunLocked
<1> QED
  BY <1>1 DEF LiveRow

\* A step that leaves the statuses, the newest row and the rows of the
\* collecting threads alone is not seen.
LEMMA Unseen ==
    ASSUME TypeOK, AdvisoryInv, AdvisoryInv', newest' = newest,
           \A id \in Rows : runs'[id].status = runs[id].status,
           \A t \in Threads : /\ Collecting(t)' <=> Collecting(t)
                              /\ Collecting(t) => thr'[t].row = thr[t].row
    PROVE  UNCHANGED Seen
<1>1. History' = History
  BY DEF History
<1>2. CASE \A t \in Threads : ~Collecting(t)
  BY <1>1, <1>2, LiveIsLocked, LiveIsLockedAfter DEF Seen
<1>3. ASSUME NEW t \in Threads, Collecting(t) PROVE LiveRow' = LiveRow
  <2>1. Collecting(t)' /\ thr'[t].row = thr[t].row
    BY <1>3
  <2> QED
    BY <1>3, <2>1, LiveIsLocked, LiveIsLockedAfter
<1> QED
  BY <1>1, <1>2, <1>3 DEF Seen

\* Nobody else collects next to a thread inside _run_locked.
LEMMA Alone ==
    ASSUME TypeOK, AdvisoryInv, NEW t \in Threads, InRunLocked(t), Step(t),
           NEW u \in Threads, u # t
    PROVE  ~Collecting(u) /\ ~Collecting(u)'
<1>1. ~Collecting(u)
  BY DEF AdvisoryInv, InRunLocked
<1>2. thr'[u] = thr[u]
  BY OthersStay
<1> QED
  BY <1>1, <1>2 DEF Collecting

\* The start of a run.
LEMMA StartIsBegin ==
    ASSUME TypeOK, AdvisoryInv, AdvisoryInv', NEW t \in Threads, StartRow(t)
    PROVE  [Promise!PromiseNext]_Seen
<1>1. InRunLocked(t) /\ ~Collecting(t) /\ Step(t)
  BY DEF StartRow, InRunLocked, Collecting, Step
<1>2. \A u \in Threads : ~Collecting(u) /\ (u # t => ~Collecting(u)')
  BY <1>1, Alone
<1>3. LiveRow = NoRow
  BY <1>2, LiveIsLocked
<1>4. ASSUME UNCHANGED <<runs, newest>>, thr' = [thr EXCEPT ![t] = [Idle EXCEPT !.pc = "unlock"]]
      PROVE  UNCHANGED Seen
  <2>1. ~Collecting(t)'
    BY <1>4 DEF Collecting, TypeOK, Idle
  <2> QED
    BY <1>2, <1>4, <2>1, Unseen
<1>5. ASSUME NEW id \in FreeRows,
             runs' = [k \in Rows |->
                   CASE k = id -> [NoRun EXCEPT !.status = "running"]
                     [] k \in Running \ (thr[t].stale \cup {id}) -> runs[k]
                     [] OTHER -> NoRun],
             newest' = id,
             thr' = [thr EXCEPT ![t] = [Idle EXCEPT !.pc = "phase", !.row = id]]
      PROVE  Promise!PromiseNext
  <2> DEFINE kept == Running \ (thr[t].stale \cup {id})
  <2>1. id \in Rows /\ History[id] # "running"
    BY DEF FreeRows, Running, History
  <2>2. thr'[t] = [Idle EXCEPT !.pc = "phase", !.row = id]
    BY <1>5 DEF TypeOK
  <2>3. Collecting(t)' /\ thr'[t].row = id
    BY <2>2 DEF Collecting, Idle
  <2>4. LiveRow' = id
    BY <2>3, LiveIsLockedAfter
  <2>5. kept \in SUBSET {k \in Rows : History[k] = "running"}
    BY DEF Running, History
  <2>6. \A k \in Rows :
           runs'[k].status = IF k = id \/ k \in kept THEN "running" ELSE "none"
    <3> TAKE k \in Rows
    <3>1. CASE k = id
      BY <1>5, <3>1 DEF NoRun
    <3>2. CASE k # id /\ k \in kept
      <4>1. runs'[k] = runs[k]
        BY <1>5, <3>2
      <4> QED
        BY <3>2, <4>1 DEF Running
    <3>3. CASE k # id /\ k \notin kept
      <4>1. runs'[k] = NoRun
        BY <1>5, <3>3
      <4> QED
        BY <3>3, <4>1 DEF NoRun
    <3> QED
      BY <3>1, <3>2, <3>3
  <2> HIDE DEF kept
  <2>7. History' = [k \in Rows |-> IF k = id \/ k \in kept THEN "running" ELSE "none"]
    BY <2>6 DEF History
  <2>8. Promise!Begin(id)
    BY <1>3, <1>5, <2>1, <2>4, <2>5, <2>7 DEF Promise!Begin
  <2> QED
    BY <2>1, <2>8 DEF Promise!PromiseNext
<1> QED
  BY <1>4, <1>5 DEF StartRow

\* The end of a run, written or not.
LEMMA FinishIsEnd ==
    ASSUME TypeOK, AdvisoryInv, AdvisoryInv', NEW t \in Threads,
           FinishSuccess(t) \/ FinishError(t)
    PROVE  Promise!PromiseNext
<1>1. InRunLocked(t) /\ Collecting(t) /\ Step(t)
  BY DEF FinishSuccess, FinishError, InRunLocked, Collecting, Step
<1>2. thr[t].row \in Rows /\ LiveRow = thr[t].row
  BY <1>1, LiveIsLocked DEF TypeOK, ThreadRecord
<1>3. LiveRow' = NoRow
  <2>1. thr'[t].pc = "unlock"
    BY DEF FinishSuccess, FinishError, TypeOK, Idle
  <2>2. \A u \in Threads : ~Collecting(u)'
    BY <1>1, <2>1, Alone DEF Collecting
  <2> QED
    BY <2>2, LiveIsLockedAfter
<1>4. LiveRow # NoRow
  BY <1>2, RowConstants
<1>5. newest' = newest
  BY DEF FinishSuccess, FinishError
<1>6. ASSUME NEW verdict \in {"success", "error"}, Close(thr[t].row, verdict)
      PROVE  Promise!End
  <2>1. \A k \in Rows : runs'[k].status =
           IF k = thr[t].row THEN verdict ELSE runs[k].status
    BY <1>2, <1>6 DEF Close, TypeOK, RunRecord
  <2>2. History' = [History EXCEPT ![LiveRow] = verdict]
    BY <1>2, <2>1 DEF History
  <2> QED
    BY <1>3, <1>4, <1>5, <2>2 DEF Promise!End
<1>7. ASSUME UNCHANGED runs PROVE Promise!Orphan
  BY <1>3, <1>4, <1>5, <1>7 DEF Promise!Orphan, History
<1> QED
  BY <1>6, <1>7 DEF FinishSuccess, FinishError, Promise!PromiseNext

\* A process that dies takes the run with it, if it was there.
LEMMA CrashIsOrphan ==
    ASSUME TypeOK, AdvisoryInv, AdvisoryInv', NEW p \in Procs, Crash(p)
    PROVE  [Promise!PromiseNext]_Seen
<1>1. \A t \in Threads : thr'[t] = IF ProcOf[t] = p THEN Idle ELSE thr[t]
  BY DEF Crash
<1>2. newest' = newest /\ runs' = runs
  BY DEF Crash
<1>3. \A t \in Threads : ProcOf[t] = p => ~Collecting(t)'
  BY <1>1 DEF Collecting, Idle
<1>4. CASE \E t \in Threads : Collecting(t) /\ ProcOf[t] = p
  <2>1. PICK t \in Threads : Collecting(t) /\ ProcOf[t] = p
    BY <1>4
  <2>2. LiveRow = thr[t].row /\ thr[t].row \in Rows
    BY <2>1, LiveIsLocked DEF TypeOK, ThreadRecord
  <2>3. ASSUME NEW u \in Threads PROVE ~Collecting(u)'
    <3>1. CASE u = t
      BY <1>3, <2>1, <3>1
    <3>2. CASE u # t
      BY <1>1, <1>3, <2>1, <3>2 DEF AdvisoryInv, InRunLocked, Collecting
    <3> QED
      BY <3>1, <3>2
  <2>4. LiveRow' = NoRow /\ LiveRow # NoRow
    BY <2>2, <2>3, LiveIsLockedAfter, RowConstants
  <2>5. Promise!Orphan
    BY <1>2, <2>4 DEF Promise!Orphan, History
  <2> QED
    BY <2>5 DEF Promise!PromiseNext
<1>5. CASE \A t \in Threads : Collecting(t) => ProcOf[t] # p
  <2>1. \A t \in Threads : /\ Collecting(t)' <=> Collecting(t)
                           /\ Collecting(t) => thr'[t].row = thr[t].row
    BY <1>1, <1>3, <1>5 DEF Collecting
  <2> QED
    BY <1>2, <2>1, Unseen
<1> QED
  BY <1>4, <1>5

\* Every step of the runner is a step of the promise, or is not seen.
LEMMA StepKeepsHistory ==
    ASSUME Postgres, ~LoseLock, TypeOK, AdvisoryInv, AdvisoryInv', [Next]_vars
    PROVE  [Promise!PromiseNext]_Seen
<1>1. CASE UNCHANGED vars
  BY <1>1 DEF vars, Seen, History, LiveRow, Collecting
<1>2. CASE Tick
  <2>1. \A id \in Rows : runs'[id].status = runs[id].status
    BY <1>2 DEF Tick, TypeOK, RunRecord
  <2>2. \A t \in Threads : thr'[t].pc = thr[t].pc /\ thr'[t].row = thr[t].row
    BY <1>2 DEF Tick, TypeOK, ThreadRecord
  <2>3. newest' = newest
    BY <1>2 DEF Tick
  <2> QED
    BY <2>1, <2>2, <2>3, Unseen DEF Collecting
<1>3. CASE ConnectionLost
  BY <1>3 DEF ConnectionLost
<1>4. ASSUME NEW p \in Procs, Crash(p) PROVE [Promise!PromiseNext]_Seen
  BY <1>4, CrashIsOrphan
<1>5. ASSUME NEW t \in Threads, TryThreadLock(t) \/ Step(t)
      PROVE  [Promise!PromiseNext]_Seen
  <2>1. CASE StartRow(t)
    BY <2>1, StartIsBegin
  <2>2. CASE FinishSuccess(t) \/ FinishError(t)
    BY <2>2, FinishIsEnd
  <2>3. CASE TryThreadLock(t) \/ TryAdvisory(t) \/ SetFlag(t) \/ SelectStale(t)
             \/ Unlock(t) \/ Leave(t)
    <3>1. ~Collecting(t) /\ ~Collecting(t)' /\ runs' = runs /\ newest' = newest
      <4> USE <2>3 DEF TypeOK, ThreadRecord, Idle, Collecting
      <4>1. CASE TryThreadLock(t) \/ TryAdvisory(t)
        BY <4>1 DEF TryThreadLock, TryAdvisory
      <4>2. CASE SetFlag(t)
        BY <4>2 DEF SetFlag
      <4>3. CASE SelectStale(t)
        <5>1. [thr[t] EXCEPT !.pc = "start", !.stale = StaleRows].pc = "start"
          OBVIOUS
        <5> QED
          BY <4>3, <5>1 DEF SelectStale
      <4>4. CASE Unlock(t) \/ Leave(t)
        BY <4>4 DEF Unlock, Leave
      <4> QED
        BY <4>1, <4>2, <4>3, <4>4
    <3>2. \A u \in Threads : u # t => thr'[u] = thr[u]
      BY <1>5, OthersStay
    <3> QED
      BY <3>1, <3>2, Unseen DEF Collecting
  <2>4. CASE Phase(t) \/ PhaseFails(t)
    <3>1. newest' = newest /\ \A id \in Rows : runs'[id].status = runs[id].status
      BY <2>4 DEF Phase, PhaseFails, TypeOK, RunRecord
    <3>2. Collecting(t) /\ Collecting(t)' /\ thr'[t].row = thr[t].row
      <4> USE DEF TypeOK, ThreadRecord, Collecting
      <4>1. CASE Phase(t)
        BY <4>1 DEF Phase
      <4>2. CASE PhaseFails(t)
        BY <4>2 DEF PhaseFails
      <4> QED
        BY <2>4, <4>1, <4>2
    <3>3. \A u \in Threads : u # t => thr'[u] = thr[u]
      BY <1>5, OthersStay
    <3> QED
      BY <3>1, <3>2, <3>3, Unseen DEF Collecting
  <2> QED
    BY <1>5, <2>1, <2>2, <2>3, <2>4 DEF Step
<1> QED
  BY <1>1, <1>2, <1>3, <1>4, <1>5 DEF Next

\* On PostgreSQL with its lock's connections alive, any number of processes
\* and threads implement the history of one run at a time that its readers
\* rely on (CollectionPromise), whatever dies or fails.
THEOREM HistoryPromised ==
    ASSUME Postgres, ~LoseLock
    PROVE  Spec => KeepsHistory
<1>1. Init => Promise!PromiseInit
  <2> SUFFICES ASSUME Init PROVE Promise!PromiseInit
    OBVIOUS
  <2>1. History = [id \in Rows |-> "none"]
    BY DEF Init, History, NoRun
  <2>2. LiveRow = NoRow
    BY DEF Init, LiveRow, Collecting, Idle
  <2> QED
    BY <2>1, <2>2 DEF Init, Promise!PromiseInit
<1>2. LockedHistory /\ LockedHistory' /\ [Next]_vars
        => [Promise!PromiseNext]_Promise!promise
  BY StepKeepsHistory DEF LockedHistory, Seen, Promise!promise
<1>3. Spec => []LockedHistory
  BY LockedHistoryHolds
<1> QED
  BY <1>1, <1>2, <1>3, PTL DEF Spec, KeepsHistory, Promise!PromiseSpec

-----------------------------------------------------------------------------
(* The status endpoint.                                                    *)

\* _running_since is set only while a thread of the process is inside the
\* part of _run_locked that will reset it.
FlagInv ==
    \A p \in Procs : flag[p] =>
        \E t \in Threads : ProcOf[t] = p /\ InRunLocked(t) /\ thr[t].pc # "flag"

\* Without a failing commit, a step keeps it so.
LEMMA FlagStep ==
    ASSUME ~DbFaults, TypeOK, FlagInv, [Next]_vars
    PROVE  FlagInv'
<1> USE RunnerAssumption DEF RunnerAssumption, InRunLocked, Collecting
<1>1. CASE UNCHANGED vars
  BY <1>1 DEF vars, FlagInv
<1>2. CASE Tick
  <2>1. \A t \in Threads : thr'[t].pc = thr[t].pc
    BY <1>2 DEF Tick, TypeOK, ThreadRecord
  <2> QED
    BY <1>2, <2>1 DEF Tick, FlagInv
<1>3. CASE ConnectionLost
  BY <1>3 DEF ConnectionLost, FlagInv
<1>4. ASSUME NEW p \in Procs, Crash(p) PROVE FlagInv'
  BY <1>4 DEF Crash, TypeOK, FlagInv
<1>5. ASSUME NEW t \in Threads, TryThreadLock(t) \/ Step(t) PROVE FlagInv'
  <2> SUFFICES ASSUME NEW p \in Procs, flag'[p]
               PROVE  \E u \in Threads : /\ ProcOf[u] = p /\ InRunLocked(u)'
                                         /\ thr'[u].pc # "flag"
    BY DEF FlagInv
  <2>1. \A u \in Threads : u # t => thr'[u] = thr[u]
    BY <1>5, OthersStay
  <2>2. CASE SetFlag(t)
    <3>1. CASE ProcOf[t] = p
      BY <2>2, <3>1 DEF SetFlag, TypeOK, ThreadRecord
    <3>2. CASE ProcOf[t] # p
      <4>1. flag[p]
        BY <2>2, <3>2 DEF SetFlag, TypeOK
      <4> QED
        BY <2>1, <3>2, <4>1 DEF FlagInv
    <3> QED
      BY <3>1, <3>2
  <2>3. CASE FinishSuccess(t) \/ FinishError(t)
    <3>1. ProcOf[t] # p /\ flag[p]
      BY <2>3 DEF FinishSuccess, FinishError, ClearFlag, TypeOK
    <3> QED
      BY <2>1, <3>1 DEF FlagInv
  <2>4. CASE TryThreadLock(t) \/ TryAdvisory(t) \/ Unlock(t) \/ Leave(t)
    <3>1. flag[p] /\ (~InRunLocked(t) \/ thr[t].pc = "flag")
      BY <2>4 DEF TryThreadLock, TryAdvisory, Unlock, Leave
    <3> QED
      BY <2>1, <3>1 DEF FlagInv
  <2>5. CASE SelectStale(t) \/ StartRow(t) \/ Phase(t) \/ PhaseFails(t)
    <3>1. flag[p]
      BY <2>5 DEF SelectStale, StartRow, Phase, PhaseFails
    <3>2. thr'[t].pc \in {"start", "phase", "finish", "fail"}
      <4> USE DEF TypeOK, ThreadRecord, Idle
      <4>1. CASE SelectStale(t)
        <5>1. [thr[t] EXCEPT !.pc = "start", !.stale = StaleRows].pc = "start"
          OBVIOUS
        <5> QED
          BY <4>1, <5>1 DEF SelectStale
      <4>2. CASE StartRow(t)
        <5>1. PICK id \in FreeRows :
                thr' = [thr EXCEPT ![t] = [Idle EXCEPT !.pc = "phase", !.row = id]]
          BY <4>2 DEF StartRow
        <5>2. [Idle EXCEPT !.pc = "phase", !.row = id].pc = "phase"
          BY DEF Idle
        <5> QED
          BY <5>1, <5>2
      <4>3. CASE Phase(t)
        <5>1. /\ thr[t].pc = "phase"
              /\ \/ thr' = [thr EXCEPT ![t] = [thr[t] EXCEPT !.phase = @ + 1, !.gap = 0]]
                 \/ thr' = [thr EXCEPT ![t] = [thr[t] EXCEPT !.pc = "finish"]]
          BY <4>3 DEF Phase
        <5>2. /\ [thr[t] EXCEPT !.phase = @ + 1, !.gap = 0].pc = thr[t].pc
              /\ [thr[t] EXCEPT !.pc = "finish"].pc = "finish"
          OBVIOUS
        <5> QED
          BY <5>1, <5>2
      <4>4. CASE PhaseFails(t)
        BY <4>4 DEF PhaseFails
      <4> QED
        BY <2>5, <4>1, <4>2, <4>3, <4>4
    <3>3. PICK u \in Threads : ProcOf[u] = p /\ InRunLocked(u) /\ thr[u].pc # "flag"
      BY <3>1 DEF FlagInv
    <3>4. CASE u = t
      BY <3>2, <3>3, <3>4
    <3>5. CASE u # t
      BY <2>1, <3>3, <3>5
    <3> QED
      BY <3>4, <3>5
  <2> QED
    BY <1>5, <2>2, <2>3, <2>4, <2>5 DEF Step
<1> QED
  BY <1>1, <1>2, <1>3, <1>4, <1>5 DEF Next

\* The comment of the status endpoint holds as long as no commit of a runner
\* fails, whatever the locks do: the flag of a process goes wrong only through
\* a failure between setting it and the try that resets it.
THEOREM StatusTrueWithoutFaults ==
    ASSUME ~DbFaults
    PROVE  Spec => []StatusReportsLiveRuns
<1>1. Init => TypeOK /\ FlagInv
  BY InitType DEF Init, FlagInv
<1>2. TypeOK /\ FlagInv /\ [Next]_vars => (TypeOK /\ FlagInv)'
  BY NextType, FlagStep
<1>3. TypeOK /\ FlagInv => StatusReportsLiveRuns
  BY DEF FlagInv, StatusReportsLiveRuns, SaysRunning, InRunLocked, Collecting
<1> QED
  BY <1>1, <1>2, <1>3, PTL DEF Spec

-----------------------------------------------------------------------------
(* The heartbeat.                                                          *)

\* What protects a run without any lock: its row is fresher than its last
\* heartbeat is old, so nobody plans to mark it, and nobody else writes it.
HeartbeatInv ==
    \A t \in Threads : Collecting(t) =>
        /\ thr[t].row \in Running
        /\ runs[thr[t].row].hb <= thr[t].gap
        /\ \A u \in Threads : thr[t].row \notin thr[u].stale
        /\ \A u \in Threads : u # t /\ Collecting(u) => thr[u].row # thr[t].row

\* Time does not make a row older than its run's last heartbeat.
LEMMA HeartbeatTick ==
    ASSUME TypeOK, HeartbeatInv, Tick
    PROVE  HeartbeatInv'
<1>1. \A t \in Threads : /\ thr'[t].pc = thr[t].pc /\ thr'[t].row = thr[t].row
                         /\ thr'[t].stale = thr[t].stale
  BY DEF Tick, TypeOK, ThreadRecord
<1>2. Running' = Running
  BY DEF Tick, TypeOK, RunRecord, Running
<1>3. ASSUME NEW t \in Threads, Collecting(t)
      PROVE  runs'[thr'[t].row].hb <= thr'[t].gap
  <2>1. thr[t].row \in Rows /\ thr[t].row \in Running /\ runs[thr[t].row].hb <= thr[t].gap
    BY <1>3 DEF HeartbeatInv, TypeOK, ThreadRecord
  <2>2. thr'[t].gap = thr[t].gap + 1
    BY <1>3 DEF Tick, TypeOK, ThreadRecord
  <2>3. runs'[thr[t].row].hb \in {runs[thr[t].row].hb, runs[thr[t].row].hb + 1}
    BY <2>1 DEF Tick, TypeOK, RunRecord
  <2>4. runs[thr[t].row].hb \in Int /\ thr[t].gap \in Int
    BY <2>1, RunnerAssumption DEF TypeOK, RunRecord, ThreadRecord, RunnerAssumption
  <2> QED
    BY <1>1, <2>1, <2>2, <2>3, <2>4
<1> QED
  BY <1>1, <1>2, <1>3 DEF HeartbeatInv, Collecting

\* A row that is fresh enough is not among those to be marked.
LEMMA FreshRowsAreSpared ==
    ASSUME MaxGap <= Timeout, TypeOK, HeartbeatInv, NEW t \in Threads, Collecting(t)
    PROVE  thr[t].row \notin StaleRows
<1>1. runs[thr[t].row].hb <= thr[t].gap /\ thr[t].gap <= MaxGap
  BY DEF HeartbeatInv, TypeOK, ThreadRecord
<1>2. runs[thr[t].row].hb \in Int /\ thr[t].gap \in Int
  BY RunnerAssumption DEF TypeOK, RunRecord, ThreadRecord, RunnerAssumption
<1> QED
  BY <1>1, <1>2, RunnerAssumption DEF StaleRows, RunnerAssumption

\* What the choice of a free row guarantees.
LEMMA FreeRowIsFree ==
    ASSUME NEW id \in FreeRows
    PROVE  /\ id \in Rows /\ id \notin Running
           /\ \A u \in Threads : id \notin thr[u].stale
           /\ \A u \in Threads : Collecting(u) => thr[u].row # id
<1>1. id \in Rows /\ id \notin Running
  BY DEF FreeRows
<1>2. id \notin UNION {thr[u].stale : u \in Threads}
  BY DEF FreeRows
<1>3. id \notin {thr[u].row : u \in {v \in Threads : Collecting(v)}}
  BY DEF FreeRows
<1>4. ASSUME NEW u \in Threads, Collecting(u) PROVE thr[u].row # id
  BY <1>3, <1>4
<1> QED
  BY <1>1, <1>2, <1>4

\* A run that ends leaves its thread with nothing but the locks.
LEMMA FinishedThread ==
    ASSUME TypeOK, NEW t \in Threads, FinishSuccess(t) \/ FinishError(t)
    PROVE  thr'[t].pc = "unlock" /\ thr'[t].stale = {}
<1>1. thr' = [thr EXCEPT ![t] = [Idle EXCEPT !.pc = "unlock"]]
  BY DEF FinishSuccess, FinishError
<1>2. thr'[t] = [Idle EXCEPT !.pc = "unlock"]
  BY <1>1 DEF TypeOK
<1> QED
  BY <1>2 DEF Idle

\* A phase keeps the thread on its row; its gap starts again with a heartbeat.
LEMMA PhaseThread ==
    ASSUME TypeOK, NEW t \in Threads, Phase(t) \/ PhaseFails(t)
    PROVE  /\ thr'[t].row = thr[t].row /\ thr'[t].stale = thr[t].stale
           /\ thr'[t].gap = IF Phase(t) /\ MorePhases(t) THEN 0 ELSE thr[t].gap
<1>1. thr[t] \in ThreadRecord
  BY DEF TypeOK
<1>2. CASE Phase(t) /\ MorePhases(t)
  <2>1. thr'[t] = [thr[t] EXCEPT !.phase = @ + 1, !.gap = 0]
    BY <1>2 DEF Phase, TypeOK
  <2> QED
    BY <1>1, <1>2, <2>1 DEF ThreadRecord
<1>3. CASE Phase(t) /\ ~MorePhases(t)
  <2>1. thr'[t] = [thr[t] EXCEPT !.pc = "finish"]
    BY <1>3 DEF Phase, TypeOK
  <2> QED
    BY <1>1, <1>3, <2>1 DEF ThreadRecord
<1>4. CASE PhaseFails(t)
  <2>1. thr'[t] = [thr[t] EXCEPT !.pc = "fail"]
    BY <1>4 DEF PhaseFails, TypeOK
  <2>2. ~(Phase(t) /\ MorePhases(t))
    <3>1. [thr[t] EXCEPT !.phase = @ + 1, !.gap = 0].pc = thr[t].pc
      BY <1>1 DEF ThreadRecord
    <3>2. Phase(t) /\ MorePhases(t) => thr'[t] = [thr[t] EXCEPT !.phase = @ + 1, !.gap = 0]
      BY DEF Phase, TypeOK
    <3>3. Phase(t) => thr[t].pc = "phase"
      BY DEF Phase
    <3> QED
      BY <1>1, <2>1, <3>1, <3>2, <3>3 DEF ThreadRecord
  <2> QED
    BY <1>1, <2>1, <2>2 DEF ThreadRecord
<1> QED
  BY <1>2, <1>3, <1>4

\* A thread that begins a run takes a row nobody uses and spares the others'.
LEMMA HeartbeatStart ==
    ASSUME TypeOK, HeartbeatInv, NEW t \in Threads, StartRow(t)
    PROVE  HeartbeatInv'
<1> USE DEF Collecting
<1>1. CASE UNCHANGED <<runs, newest>> /\ thr' = [thr EXCEPT ![t] = [Idle EXCEPT !.pc = "unlock"]]
  BY <1>1 DEF TypeOK, HeartbeatInv, Idle, Running
<1>2. ASSUME NEW id \in FreeRows,
             runs' = [k \in Rows |->
                   CASE k = id -> [NoRun EXCEPT !.status = "running"]
                     [] k \in Running \ (thr[t].stale \cup {id}) -> runs[k]
                     [] OTHER -> NoRun],
             thr' = [thr EXCEPT ![t] = [Idle EXCEPT !.pc = "phase", !.row = id]]
      PROVE  HeartbeatInv'
  <2>1. /\ id \in Rows /\ id \notin Running
        /\ \A u \in Threads : id \notin thr[u].stale
        /\ \A u \in Threads : Collecting(u) => thr[u].row # id
    BY FreeRowIsFree
  <2>2. thr'[t] = [Idle EXCEPT !.pc = "phase", !.row = id]
    BY <1>2 DEF TypeOK
  <2>3. /\ thr'[t].row = id /\ thr'[t].gap = 0 /\ thr'[t].stale = {}
        /\ thr'[t].pc = "phase"
    BY <2>2 DEF Idle
  <2>4. runs'[id].status = "running" /\ runs'[id].hb = 0
    BY <1>2, <2>1 DEF NoRun
  <2>5. \A u \in Threads : u # t => thr'[u] = thr[u]
    BY <1>2 DEF TypeOK
  <2>6. ASSUME NEW u \in Threads, u # t, Collecting(u)
        PROVE  /\ thr[u].row \in Running' /\ runs'[thr[u].row] = runs[thr[u].row]
    <3>1. thr[u].row \in Running \ (thr[t].stale \cup {id}) /\ thr[u].row \in Rows
      BY <2>1, <2>6 DEF HeartbeatInv, Running
    <3>2. runs'[thr[u].row] = runs[thr[u].row]
      BY <1>2, <2>1, <3>1
    <3> QED
      BY <3>1, <3>2 DEF Running
  <2>7. ASSUME NEW u \in Threads, Collecting(u)'
        PROVE  /\ thr'[u].row \in Running'
               /\ runs'[thr'[u].row].hb <= thr'[u].gap
               /\ \A v \in Threads : thr'[u].row \notin thr'[v].stale
               /\ \A v \in Threads : v # u /\ Collecting(v)' => thr'[v].row # thr'[u].row
    <3>1. CASE u = t
      BY <2>1, <2>3, <2>4, <2>5, <3>1 DEF Running
    <3>2. CASE u # t
      <4>1. Collecting(u) /\ thr'[u] = thr[u]
        BY <2>5, <2>7, <3>2
      <4> QED
        BY <2>1, <2>3, <2>5, <2>6, <3>2, <4>1 DEF HeartbeatInv
    <3> QED
      BY <3>1, <3>2
  <2> QED
    BY <2>7 DEF HeartbeatInv
<1> QED
  BY <1>1, <1>2 DEF StartRow

\* The other steps of a thread write its own row only.
LEMMA HeartbeatOwn ==
    ASSUME TypeOK, HeartbeatInv, NEW t \in Threads,
           Phase(t) \/ PhaseFails(t) \/ FinishSuccess(t) \/ FinishError(t)
    PROVE  HeartbeatInv'
<1> USE DEF Collecting
<1>1. /\ thr[t].row \in Rows /\ Collecting(t) /\ thr[t] \in ThreadRecord
      /\ \A u \in Threads : u # t => thr'[u] = thr[u]
  BY DEF Phase, PhaseFails, FinishSuccess, FinishError, TypeOK, ThreadRecord
<1>2. \A id \in Rows : id # thr[t].row => runs'[id] = runs[id]
  BY <1>1 DEF Phase, PhaseFails, FinishSuccess, FinishError, Close, TypeOK
<1>3. thr'[t].stale \subseteq thr[t].stale
  <2>1. CASE Phase(t) \/ PhaseFails(t)
    BY <2>1, PhaseThread
  <2>2. CASE FinishSuccess(t) \/ FinishError(t)
    BY <2>2, FinishedThread
  <2> QED
    BY <2>1, <2>2
<1>4. ASSUME NEW u \in Threads, u # t, Collecting(u)
      PROVE  /\ thr[u].row \in Running' /\ runs'[thr[u].row] = runs[thr[u].row]
             /\ thr[u].row # thr[t].row
  <2>1. thr[u].row \in Running /\ thr[u].row # thr[t].row
    BY <1>1, <1>4 DEF HeartbeatInv
  <2> QED
    BY <1>2, <2>1 DEF Running
<1>5. CASE Collecting(t)'
  <2>1. /\ thr'[t].row = thr[t].row
        /\ runs'[thr[t].row].status = "running"
        /\ runs'[thr[t].row].hb <= thr'[t].gap
    <3>1. runs[thr[t].row].status = "running" /\ runs[thr[t].row].hb <= thr[t].gap
      BY <1>1 DEF HeartbeatInv, Running
    <3>2. CASE Phase(t)
      <4>1. runs'[thr[t].row].status = runs[thr[t].row].status
        BY <1>1, <3>2 DEF Phase, TypeOK, RunRecord
      <4>2. runs'[thr[t].row].hb = IF MorePhases(t) THEN 0 ELSE runs[thr[t].row].hb
        BY <1>1, <3>2 DEF Phase, TypeOK, RunRecord
      <4> QED
        BY <3>1, <3>2, <4>1, <4>2, PhaseThread
    <3>4. CASE PhaseFails(t)
      BY <3>1, <3>4, PhaseThread DEF PhaseFails
    <3>5. CASE FinishSuccess(t) \/ FinishError(t)
      BY <1>5, <3>5, FinishedThread
    <3> QED
      BY <3>2, <3>4, <3>5
  <2>2. ASSUME NEW u \in Threads, Collecting(u)'
        PROVE  /\ thr'[u].row \in Running'
               /\ runs'[thr'[u].row].hb <= thr'[u].gap
               /\ \A v \in Threads : thr'[u].row \notin thr'[v].stale
               /\ \A v \in Threads : v # u /\ Collecting(v)' => thr'[v].row # thr'[u].row
    <3>1. CASE u = t
      BY <1>1, <1>3, <1>4, <2>1, <3>1 DEF HeartbeatInv, Running
    <3>2. CASE u # t
      BY <1>1, <1>3, <1>4, <2>1, <2>2, <3>2 DEF HeartbeatInv
    <3> QED
      BY <3>1, <3>2
  <2> QED
    BY <2>2 DEF HeartbeatInv
<1>6. CASE ~Collecting(t)'
  <2>1. ASSUME NEW u \in Threads, Collecting(u)'
        PROVE  /\ thr'[u].row \in Running'
               /\ runs'[thr'[u].row].hb <= thr'[u].gap
               /\ \A v \in Threads : thr'[u].row \notin thr'[v].stale
               /\ \A v \in Threads : v # u /\ Collecting(v)' => thr'[v].row # thr'[u].row
    <3>1. u # t /\ Collecting(u) /\ thr'[u] = thr[u]
      BY <1>1, <1>6, <2>1
    <3> QED
      BY <1>1, <1>3, <1>4, <1>6, <2>1, <3>1 DEF HeartbeatInv
  <2> QED
    BY <2>1 DEF HeartbeatInv
<1> QED
  BY <1>5, <1>6

\* Every step keeps the heartbeats fresh and the rows of live runs apart.
LEMMA HeartbeatStep ==
    ASSUME MaxGap <= Timeout, TypeOK, HeartbeatInv, [Next]_vars
    PROVE  HeartbeatInv'
<1>1. CASE UNCHANGED vars
  BY <1>1 DEF vars, HeartbeatInv, Collecting, Running
<1>2. CASE Tick
  BY <1>2, HeartbeatTick
<1>3. CASE ConnectionLost
  BY <1>3 DEF ConnectionLost, HeartbeatInv, Collecting, Running
<1>4. ASSUME NEW p \in Procs, Crash(p) PROVE HeartbeatInv'
  BY <1>4 DEF Crash, TypeOK, HeartbeatInv, Collecting, Running, Idle
<1>5. ASSUME NEW t \in Threads,
             TryThreadLock(t) \/ TryAdvisory(t) \/ SetFlag(t) \/ Unlock(t) \/ Leave(t)
      PROVE  HeartbeatInv'
  <2>1. runs' = runs /\ ~Collecting(t)
    BY <1>5 DEF TryThreadLock, TryAdvisory, SetFlag, Unlock, Leave, Collecting
  <2>2. ~Collecting(t)' /\ thr'[t].stale \subseteq thr[t].stale
    BY <1>5 DEF TryThreadLock, TryAdvisory, SetFlag, Unlock, Leave, Collecting,
                TypeOK, ThreadRecord, Idle
  <2>3. \A u \in Threads : u # t => thr'[u] = thr[u]
    BY <1>5, OthersStay DEF Step
  <2> QED
    BY <2>1, <2>2, <2>3 DEF HeartbeatInv, Collecting, Running
<1>6. ASSUME NEW t \in Threads, SelectStale(t) PROVE HeartbeatInv'
  <2>1. ~Collecting(t) /\ ~Collecting(t)' /\ thr'[t].stale = StaleRows
    BY <1>6 DEF SelectStale, Collecting, TypeOK, ThreadRecord
  <2>2. \A u \in Threads : u # t => thr'[u] = thr[u]
    BY <1>6, OthersStay DEF Step
  <2>3. \A u \in Threads : Collecting(u) => thr[u].row \notin StaleRows
    BY FreshRowsAreSpared
  <2> QED
    BY <1>6, <2>1, <2>2, <2>3 DEF HeartbeatInv, Collecting, Running, SelectStale
<1> QED
  BY <1>1, <1>2, <1>3, <1>4, <1>5, <1>6, HeartbeatStart, HeartbeatOwn DEF Next, Step

\* Whatever becomes of the locks, a run that sends its heartbeats within the
\* timeout is never marked abandoned, and no other run takes its row.
THEOREM HeartbeatProtects ==
    ASSUME MaxGap <= Timeout
    PROVE  Spec => []LiveRunKeepsItsRow
<1>1. Init => TypeOK /\ HeartbeatInv
  BY InitType DEF Init, HeartbeatInv, Collecting, Idle
<1>2. TypeOK /\ HeartbeatInv /\ [Next]_vars => (TypeOK /\ HeartbeatInv)'
  BY NextType, HeartbeatStep
<1>3. HeartbeatInv => LiveRunKeepsItsRow
  BY DEF HeartbeatInv, LiveRunKeepsItsRow
<1> QED
  BY <1>1, <1>2, <1>3, PTL DEF Spec

=============================================================================
