------------------------ MODULE ServerLifecycleProofs ------------------------
(***************************************************************************)
(* Proofs about ServerLifecycle, for any sets of requests and background   *)
(* jobs and any number of rows: type correctness, that a cancelled job     *)
(* does not complete, and that an undisturbed deletion keeps its promise.  *)
(***************************************************************************)
EXTENDS ServerLifecycle, TLAPS

-----------------------------------------------------------------------------
(* Types.                                                                  *)

(* A commit keeps the requests typed. *)
LEMMA DisturbedType ==
  ASSUME req \in [Requests -> Request]
  PROVE  Disturbed \in [Requests -> Request]
BY DEF Disturbed, Request

(* So does an answer. *)
LEMMA AnsweredType ==
  ASSUME req \in [Requests -> Request], NEW r \in Requests
  PROVE  Answered(r) \in [Requests -> Request]
<1>1. NoRequest \in Request
  BY RowsAssumption DEF NoRequest, Request, Copy, Loaded, Absent, Ids
<1> QED
  BY <1>1, DisturbedType DEF Answered

(* The values variables start from, and are reset to, are typed. *)
LEMMA ConstantsTyped ==
  /\ Absent \in Row
  /\ NoJob \in Job
  /\ NoWorker \in Worker
  /\ NoCollection \in Collection
  /\ NoRequest \in Request
BY RowsAssumption DEF Absent, Row, NoJob, Job, NoWorker, Worker, NoCollection,
   Collection, NoRequest, Request, Copy, Loaded, Ids

(* The first state is typed. *)
LEMMA InitTypeOK == Init => TypeOK
<1> SUFFICES ASSUME Init PROVE TypeOK
  OBVIOUS
<1>1. made \in Ids /\ server.id <= made
  BY RowsAssumption DEF Init, Ids, Absent
<1> QED
  BY <1>1, ConstantsTyped DEF Init, TypeOK

(* A row is created under an id of its own. *)
LEMMA NewRowType ==
  ASSUME TypeOK, NEW enabled \in BOOLEAN, NEW target \in BOOLEAN, NewRow(enabled, target)
  PROVE  /\ made' \in Ids /\ made' = made + 1
         /\ server' \in Row /\ server'.id = made' /\ server'.id # 0
BY RowsAssumption DEF TypeOK, NewRow, Ids, Row

(* The fields of the variables, as the provers need them. *)
LEMMA Fields ==
  ASSUME TypeOK
  PROVE  /\ MaxRows \in Nat /\ made \in 0 .. MaxRows
         /\ server \in Row /\ server.id \in 0 .. MaxRows /\ server.enabled \in BOOLEAN
         /\ Loaded(server) \in Copy /\ Targets \in Row
         /\ \A w \in Workers : worker[w] \in Worker /\ worker[w].enabled \in BOOLEAN
         /\ coll \in Collection /\ coll.enabled \in BOOLEAN
         /\ \A r \in Requests : req[r] \in Request /\ req[r].copy.enabled \in BOOLEAN
BY RowsAssumption, ConstantsTyped
DEF TypeOK, Row, Ids, Loaded, Copy, Targets, Worker, Collection, Request

(* A background job works on a row that was created; one that was told of  *)
(* a cancellation has not completed and still finds its row asking for it, *)
(* if it finds it at all.                                                  *)
WorkerInv(w) ==
  /\ worker[w].id <= made
  /\ worker[w].pc # "off" => worker[w].id # 0
  /\ worker[w].told => /\ worker[w].pc \notin {"off", "complete"}
                       /\ worker[w].id = server.id => job.cancelReq

ActorsInv ==
  /\ \A w \in Workers : WorkerInv(w)
  /\ coll.pc # "idle" => coll.id # 0

IInv == TypeOK /\ ActorsInv

(* Every step keeps the requests typed. *)
LEMMA RequestsTyped == ASSUME TypeOK, Next PROVE req' \in [Requests -> Request]
<1>1. CASE req' = Disturbed \/ UNCHANGED req
  BY <1>1, DisturbedType DEF TypeOK
<1>2. ASSUME NEW r \in Requests,
             BeginPatch(r) \/ BeginDelete(r) \/ SelectJobs(r) \/ CountRelations(r)
      PROVE  req' \in [Requests -> Request]
  <2>1. req[r] \in Request /\ Loaded(server) \in Copy
    BY Fields
  <2>2. CASE BeginPatch(r)
    <3>1. [NoRequest EXCEPT !.pc = "loaded", !.copy = Loaded(server)] \in Request
      BY <2>1, ConstantsTyped DEF Request
    <3> QED
      BY <2>2, <3>1 DEF BeginPatch, TypeOK
  <2>3. CASE BeginDelete(r)
    <3>1. [NoRequest EXCEPT !.op = "delete", !.pc = "loaded", !.copy = Loaded(server),
                            !.quiet = TRUE] \in Request
      BY <2>1, ConstantsTyped DEF Request
    <3> QED
      BY <2>3, <3>1 DEF BeginDelete, TypeOK
  <2>4. CASE SelectJobs(r)
    <3>1. \A b \in BOOLEAN : [req[r] EXCEPT !.pc = "selected", !.found = b] \in Request
      BY <2>1 DEF Request
    <3> QED
      BY <2>4, <3>1 DEF SelectJobs, TypeOK
  <2>5. CASE CountRelations(r)
    <3>1. \A b \in BOOLEAN : [req[r] EXCEPT !.pc = "counted", !.deletes = b] \in Request
      BY <2>1 DEF Request
    <3> QED
      BY <2>5, <3>1 DEF CountRelations, TypeOK
  <2> QED
    BY <1>2, <2>2, <2>3, <2>4, <2>5
<1>3. ASSUME NEW r \in Requests, Patch(r) \/ Delete(r) \/ Archive(r)
      PROVE  req' \in [Requests -> Request]
  <2>1. req' = Answered(r)
    BY <1>3 DEF Patch, Delete, Archive
  <2> QED
    BY <2>1, AnsweredType DEF TypeOK
<1>4. CASE Crash
  BY <1>4, ConstantsTyped DEF Crash
<1>5. CASE Create \/ Expire \/ ReadTargets \/ Collect
  <2>1. req' = Disturbed \/ UNCHANGED req
    BY <1>5 DEF Create, Expire, ReadTargets, Collect, Sync, StoreSample, EndWithout
  <2> QED
    BY <1>1, <2>1
<1>6. ASSUME NEW w \in Workers, CreateOnboarding(w) \/ WorkerStep(w) \/ Retry(w)
      PROVE  req' \in [Requests -> Request]
  <2>1. req' = Disturbed \/ UNCHANGED req
    BY <1>6 DEF CreateOnboarding, WorkerStep, LoadJob, Check, WriteStep, LastCheck, Complete,
       Fails, Fail, Stop, Retry
  <2> QED
    BY <1>1, <2>1
<1> QED
  BY <1>2, <1>3, <1>4, <1>5, <1>6 DEF Next, Handle

(* Every step keeps the jobs and the collection typed. *)
LEMMA ActorsTyped ==
  ASSUME TypeOK, Next
  PROVE  worker' \in [Workers -> Worker] /\ coll' \in Collection
<1> USE Fields, ConstantsTyped
<1>0. worker \in [Workers -> Worker] /\ coll \in Collection
  BY DEF TypeOK
<1>1. ASSUME NEW pc \in {"check", "write", "last", "complete"}, NEW w \in Workers
      PROVE  /\ [worker EXCEPT ![w].pc = pc] \in [Workers -> Worker]
             /\ [worker EXCEPT ![w].pc = pc, ![w].enabled = server.enabled] \in [Workers -> Worker]
  <2>1. /\ [worker[w] EXCEPT !.pc = pc] \in Worker
        /\ [worker[w] EXCEPT !.pc = pc, !.enabled = server.enabled] \in Worker
    BY DEF Worker
  <2>2. /\ [worker EXCEPT ![w].pc = pc] = [worker EXCEPT ![w] = [worker[w] EXCEPT !.pc = pc]]
        /\ [worker EXCEPT ![w].pc = pc, ![w].enabled = server.enabled] =
             [worker EXCEPT ![w] = [worker[w] EXCEPT !.pc = pc, !.enabled = server.enabled]]
    BY <1>0
  <2> QED
    BY <1>0, <2>1, <2>2
<1>2. ASSUME NEW w \in Workers, NEW id \in Ids
      PROVE  Start(w, id) \in [Workers -> Worker]
  <2>1. [NoWorker EXCEPT !.pc = "load", !.id = id] \in Worker
    BY DEF Worker
  <2> QED
    BY <1>0, <2>1 DEF Start
<1>3. ASSUME NEW w \in Workers, CreateOnboarding(w) \/ Retry(w)
      PROVE  worker' \in [Workers -> Worker] /\ coll' \in Collection
  <2>1. CASE CreateOnboarding(w)
    <3>1. made' \in Ids
      BY <2>1, NewRowType DEF CreateOnboarding
    <3> QED
      BY <1>0, <1>2, <2>1, <3>1 DEF CreateOnboarding
  <2>2. CASE Retry(w)
    <3>1. server.id \in Ids
      BY DEF Ids
    <3>2. ASSUME NEW u \in Workers PROVE [Start(w, server.id)[u] EXCEPT !.told = FALSE] \in Worker
      <4>1. Start(w, server.id)[u] \in Worker
        BY <1>2, <3>1
      <4> QED
        BY <4>1 DEF Worker
    <3> QED
      BY <1>0, <2>2, <3>2 DEF Retry
  <2> QED
    BY <1>3, <2>1, <2>2
<1>4. ASSUME NEW w \in Workers, WorkerStep(w)
      PROVE  worker' \in [Workers -> Worker] /\ coll' \in Collection
  <2>1. End(w) => worker' \in [Workers -> Worker]
    BY <1>0 DEF End
  <2>2. ASSUME NEW pc \in {"check", "write", "last", "complete"}, Goto(w, pc)
        PROVE  worker' \in [Workers -> Worker]
    <3>1. worker' = [worker EXCEPT ![w].pc = pc]
      BY <2>2 DEF Goto
    <3> QED
      BY <1>1, <3>1, Zenon
  <2>3. CASE LoadJob(w)
    BY <1>0, <1>1, <2>1, <2>3 DEF LoadJob
  <2>4. CASE Check(w) \/ WriteStep(w) \/ LastCheck(w) \/ Complete(w) \/ Fails(w)
    <3>1. coll' = coll /\ (End(w) \/ \E pc \in {"check", "write", "last", "complete"} : Goto(w, pc))
      BY <2>4 DEF Check, WriteStep, LastCheck, Complete, Fails, Stop
    <3> QED
      BY <1>0, <2>1, <2>2, <3>1
  <2> QED
    BY <1>4, <2>3, <2>4 DEF WorkerStep
<1>6. ASSUME NEW r \in Requests, Archive(r)
      PROVE  worker' \in [Workers -> Worker] /\ coll' \in Collection
  <2>1. Told \in [Workers -> Worker]
    BY DEF Told, Worker
  <2> QED
    BY <1>0, <1>6, <2>1 DEF Archive
<1>7. CASE ReadTargets
  BY <1>7 DEF ReadTargets, TypeOK, Collection, Row
<1>8. CASE Sync
  <2>1. server' \in Row
    <3>1. ASSUME NEW b \in BOOLEAN PROVE [server EXCEPT !.enabled = b] \in Row
      BY DEF Row
    <3> QED
      BY <1>8, <3>1, NewRowType DEF Sync, Written
  <2>2. \A id \in Ids : [NoCollection EXCEPT !.pc = "store", !.id = id] \in Collection
    BY DEF Collection
  <2> QED
    BY <1>8, <2>1, <2>2 DEF Sync, TypeOK, Row
<1>9. CASE StoreSample \/ EndWithout \/ Crash
  BY <1>9 DEF StoreSample, EndWithout, Crash, TypeOK
<1>10. ASSUME NEW r \in Requests,
              \/ BeginPatch(r) \/ BeginDelete(r) \/ Patch(r) \/ SelectJobs(r)
              \/ CountRelations(r) \/ Delete(r)
       PROVE  worker' \in [Workers -> Worker] /\ coll' \in Collection
  BY <1>10 DEF BeginPatch, BeginDelete, Patch, SelectJobs, CountRelations, Delete, TypeOK
<1>11. CASE Create \/ Expire
  BY <1>11 DEF Create, Expire, TypeOK
<1> QED
  BY <1>3, <1>4, <1>6, <1>7, <1>8, <1>9, <1>10, <1>11 DEF Next, Handle, Collect

(* The row, its relations and its onboarding. *)
Inventory ==
  /\ server \in Row
  /\ history \in BOOLEAN
  /\ job \in Job
  /\ made \in Ids
  /\ server.id <= made
  /\ server.id = 0 => server = Absent /\ ~history /\ job = NoJob

(* Every step keeps them typed, and a row that is gone without relations.  *)
(* This needs that no actor works on row 0, hence IInv.                    *)
LEMMA InventoryTyped == ASSUME IInv, Next PROVE Inventory'
<1> USE DEF IInv
<1> USE Fields, ConstantsTyped
<1>a. ASSUME UNCHANGED <<server, history, job, made>> PROVE Inventory'
  BY <1>a DEF Inventory, TypeOK
<1>b. ASSUME NEW b \in BOOLEAN
      PROVE  /\ [server EXCEPT !.enabled = b] \in Row
             /\ [server EXCEPT !.enabled = b].id = server.id
             /\ [server EXCEPT !.life = "archived", !.enabled = b] \in Row
             /\ [server EXCEPT !.life = "archived", !.enabled = b].id = server.id
  BY DEF Row
<1>c. ASSUME NEW db \in BOOLEAN, NEW loaded \in BOOLEAN, NEW new \in BOOLEAN
      PROVE  Written(db, loaded, new) \in BOOLEAN
  BY DEF Written
<1>d. /\ \A st \in {"active", "ended", "cancelled"} : [job EXCEPT !.status = st] \in Job
      /\ Cancelled \in Job
      /\ [status |-> "pending", cancelReq |-> FALSE] \in Job
  BY DEF Job, Cancelled, TypeOK
<1>e. job.status # "none" => server.id # 0
  BY DEF TypeOK, NoJob
<1>f. ASSUME /\ server.id # 0 /\ made' = made /\ history' \in BOOLEAN /\ job' \in Job
             /\ server' = server \/ \E b \in BOOLEAN : server' = [server EXCEPT !.enabled = b]
      PROVE  Inventory'
  <2>1. server' \in Row /\ server'.id = server.id
    BY <1>b, <1>f
  <2> QED
    BY <1>f, <2>1 DEF Inventory, TypeOK
<1>1. CASE Create \/ \E w \in Workers : CreateOnboarding(w)
  <2>1. /\ made' \in Ids /\ server' \in Row /\ server'.id = made' /\ server'.id # 0
        /\ history' \in BOOLEAN /\ job' \in Job
    BY <1>1, <1>d, NewRowType DEF Create, CreateOnboarding, TypeOK
  <2> QED
    BY <2>1 DEF Inventory, Ids
<1>2. ASSUME NEW r \in Requests, Patch(r) PROVE Inventory'
  <2>1. CASE Exists(req[r].copy)
    <3>1. Written(server.enabled, req[r].copy.enabled, ~req[r].copy.enabled) \in BOOLEAN
      BY <1>c
    <3>2. \E w \in BOOLEAN : server' = [server EXCEPT !.enabled = w]
      BY <1>2, <2>1, <3>1 DEF Patch
    <3>3. server.id # 0
      BY <2>1 DEF Exists
    <3> QED
      BY <1>2, <1>f, <3>2, <3>3 DEF Patch, TypeOK
  <2> QED
    BY <1>2, <1>a, <2>1 DEF Patch
<1>3. ASSUME NEW r \in Requests, Delete(r) PROVE Inventory'
  <2>1. CASE Exists(req[r].copy)
    <3>1. server' = Absent /\ history' = FALSE /\ job' = NoJob /\ made' = made
      BY <1>3, <2>1 DEF Delete
    <3>2. Absent.id = 0
      BY DEF Absent
    <3>3. server' \in Row /\ history' \in BOOLEAN /\ job' \in Job
      BY <3>1
    <3>4. made' \in Ids /\ server'.id <= made'
      BY <3>1, <3>2 DEF Ids
    <3>5. server'.id = 0 => server' = Absent /\ ~history' /\ job' = NoJob
      BY <3>1
    <3> QED
      BY <3>3, <3>4, <3>5 DEF Inventory
  <2> QED
    BY <1>3, <1>a, <2>1 DEF Delete
<1>4. ASSUME NEW r \in Requests, Archive(r) PROVE Inventory'
  <2>1. CASE Exists(req[r].copy)
    <3>1. server'.id = server.id /\ server.id # 0 /\ server' \in Row
      <4>1. Written(server.enabled, req[r].copy.enabled, FALSE) \in BOOLEAN
        BY <1>c
      <4>2. server' = Archived(req[r].copy) /\ server.id # 0
        BY <1>4, <2>1 DEF Archive, Exists
      <4> QED
        BY <1>b, <4>1, <4>2 DEF Archived
    <3>2. job' \in Job
      BY <1>4, <1>d, <2>1 DEF Archive, TypeOK
    <3> QED
      BY <1>4, <3>1, <3>2 DEF Archive, Inventory, TypeOK
  <2> QED
    BY <1>4, <1>a, <2>1 DEF Archive
<1>g. ASSUME NEW w \in Workers, NEW b \in BOOLEAN, Fail(w, b), server.id # 0,
             UNCHANGED <<history, made>>
      PROVE  Inventory'
  <2>1. \E v \in BOOLEAN : server' = [server EXCEPT !.enabled = v]
    BY <1>c, <1>g DEF Fail
  <2>2. job' \in Job /\ history' \in BOOLEAN
    BY <1>d, <1>g DEF Fail, TypeOK
  <2> QED
    BY <1>f, <1>g, <2>1, <2>2
<1>5. ASSUME NEW w \in Workers, LoadJob(w) \/ Check(w) \/ LastCheck(w) \/ Fails(w)
      PROVE  Inventory'
  <2>1. \/ UNCHANGED <<server, history, job, made>>
        \/ /\ \E b \in BOOLEAN : Fail(w, b)
           /\ server.id # 0 /\ UNCHANGED <<history, made>>
    BY <1>5 DEF LoadJob, Check, LastCheck, Fails, Stop, Gone, ActorsInv, WorkerInv
  <2> QED
    BY <1>a, <1>g, <2>1
<1>6. ASSUME NEW w \in Workers, WriteStep(w) PROVE Inventory'
  <2>1. CASE Gone(w)
    BY <1>6, <1>a, <2>1 DEF WriteStep
  <2>2. CASE ~Gone(w)
    <3>1. server.id # 0
      BY <1>6, <2>2 DEF WriteStep, Gone, ActorsInv, WorkerInv
    <3>2. job' \in Job /\ history' \in BOOLEAN
      BY <1>6, <1>d, <2>2 DEF WriteStep, TypeOK
    <3> QED
      BY <1>6, <1>f, <3>1, <3>2 DEF WriteStep
  <2> QED
    BY <2>1, <2>2
<1>7. ASSUME NEW w \in Workers, Complete(w) PROVE Inventory'
  <2>1. CASE Gone(w)
    BY <1>7, <1>a, <2>1 DEF Complete
  <2>2. CASE ~Gone(w)
    <3>1. \E v \in BOOLEAN : server' = [server EXCEPT !.enabled = v]
      BY <1>7, <1>c, <2>2 DEF Complete
    <3>2. server.id # 0
      BY <1>7, <2>2 DEF Complete, Gone, ActorsInv, WorkerInv
    <3> QED
      BY <1>7, <1>d, <1>f, <2>2, <3>1, <3>2 DEF Complete, TypeOK
  <2> QED
    BY <2>1, <2>2
<1>8. CASE Expire \/ \E w \in Workers : Retry(w)
  <2>1. job' \in Job
    BY <1>8, <1>d DEF Retry, Expire, TypeOK
  <2>2. server.id # 0 /\ server' = server /\ history' = history /\ made' = made
    BY <1>8, <1>e DEF Retry, Expire, Active
  <2>3. history' \in BOOLEAN
    BY <2>2 DEF TypeOK
  <2> QED
    BY <1>f, <2>1, <2>2, <2>3
<1>9. CASE Sync
  <2>1. CASE NewRow(coll.enabled, FALSE)
    <3>1. /\ made' \in Ids /\ server' \in Row /\ server'.id = made' /\ server'.id # 0
      BY <2>1, NewRowType
    <3>2. history' \in BOOLEAN /\ job' \in Job
      BY <1>9 DEF Sync, TypeOK
    <3> QED
      BY <3>1, <3>2 DEF Inventory, Ids
  <2>2. CASE server.id # 0 /\ made' = made
    <3>1. \E w \in BOOLEAN : server' = [server EXCEPT !.enabled = w]
      BY <1>9, <1>c, <2>2 DEF Sync, NewRow
    <3> QED
      BY <1>9, <1>f, <2>2, <3>1 DEF Sync, TypeOK
  <2> QED
    BY <1>9, <2>1, <2>2 DEF Sync, ActorsInv
<1>10. CASE StoreSample
  BY <1>10, <1>f DEF StoreSample, ActorsInv, TypeOK
<1>11. CASE ReadTargets \/ EndWithout \/ Crash
  BY <1>11, <1>a DEF ReadTargets, EndWithout, Crash
<1>12. ASSUME NEW r \in Requests,
              BeginPatch(r) \/ BeginDelete(r) \/ SelectJobs(r) \/ CountRelations(r)
       PROVE  Inventory'
  BY <1>12, <1>a DEF BeginPatch, BeginDelete, SelectJobs, CountRelations
<1> QED
  BY <1>1, <1>2, <1>3, <1>4, <1>5, <1>6, <1>7, <1>8, <1>9, <1>10, <1>11, <1>12
  DEF Next, Handle, WorkerStep, Collect

(* Every step keeps what is known of the actors. *)
LEMMA ActorsPreserved == ASSUME IInv, Next PROVE ActorsInv'
<1> USE Fields, ConstantsTyped
<1>0. /\ TypeOK /\ ActorsInv /\ worker \in [Workers -> Worker] /\ server.id <= made
      /\ NoWorker.id = 0 /\ NoWorker.pc = "off" /\ ~NoWorker.told
  BY DEF IInv, TypeOK, NoWorker
<1>1. CASE Create
  <2>1. made' = made + 1 /\ server'.id = made'
    BY <1>0, <1>1, NewRowType DEF Create
  <2> QED
    BY <1>0, <1>1, <2>1 DEF Create, ActorsInv, WorkerInv, Worker, Ids
<1>2. ASSUME NEW w \in Workers, CreateOnboarding(w) PROVE ActorsInv'
  <2>1. made' = made + 1 /\ server'.id = made' /\ made' \in Ids
    BY <1>0, <1>2, NewRowType DEF CreateOnboarding
  <2>2. worker'[w].id = made' /\ ~worker'[w].told
    BY <1>0, <1>2 DEF CreateOnboarding, Start, NoWorker
  <2>3. \A u \in Workers \ {w} : worker'[u] = worker[u] /\ worker[u].id <= made
    BY <1>0, <1>2 DEF CreateOnboarding, Start, ActorsInv, WorkerInv
  <2>4. WorkerInv(w)'
    BY <1>0, <2>1, <2>2 DEF WorkerInv, Ids
  <2>5. ASSUME NEW u \in Workers \ {w} PROVE WorkerInv(u)'
    BY <1>0, <2>1, <2>3, <2>5 DEF ActorsInv, WorkerInv, Worker, Ids
  <2> QED
    BY <1>0, <1>2, <2>4, <2>5 DEF CreateOnboarding, ActorsInv
<1>3. ASSUME NEW r \in Requests, Delete(r) PROVE ActorsInv'
  BY <1>0, <1>3 DEF Delete, ActorsInv, WorkerInv, Absent
<1>4. ASSUME NEW r \in Requests, Archive(r) PROVE ActorsInv'
  <2>1. CASE ~Exists(req[r].copy) \/ ~req[r].found
    <3>1. UNCHANGED <<job, worker, made, coll>> /\ server'.id = server.id
      BY <1>0, <1>4, <2>1 DEF Archive, Archived, Row
    <3> QED
      BY <1>0, <3>1 DEF ActorsInv, WorkerInv
  <2>2. CASE Exists(req[r].copy) /\ req[r].found
    <3>1. job'.cancelReq /\ UNCHANGED <<made, coll>> /\ worker' = Told
      BY <1>0, <1>4, <2>2 DEF Archive, Cancelled
    <3>2. ASSUME NEW w \in Workers PROVE WorkerInv(w)'
      <4>1. /\ worker'[w].id = worker[w].id /\ worker'[w].pc = worker[w].pc
            /\ worker'[w].told => worker[w].told \/ worker[w].pc \in {"load", "check", "write", "last"}
        BY <1>0, <3>1 DEF Told, Worker
      <4> QED
        BY <1>0, <3>1, <4>1 DEF ActorsInv, WorkerInv
    <3> QED
      BY <1>0, <3>1, <3>2 DEF ActorsInv
  <2> QED
    BY <2>1, <2>2
<1>5. ASSUME NEW w \in Workers, UNCHANGED <<made, coll>>, server'.id = server.id,
             job'.cancelReq = job.cancelReq, worker' \in [Workers -> Worker], WorkerInv(w)',
             \A u \in Workers \ {w} : worker'[u] = worker[u]
      PROVE  ActorsInv'
  <2>1. \A u \in Workers \ {w} : WorkerInv(u)'
    BY <1>0, <1>5 DEF ActorsInv, WorkerInv
  <2> QED
    BY <1>0, <1>5, <2>1 DEF ActorsInv
<1>6. ASSUME NEW w \in Workers, WorkerStep(w) PROVE ActorsInv'
  <2>0. /\ UNCHANGED <<made, coll>> /\ worker' \in [Workers -> Worker] /\ worker[w].pc # "off"
        /\ \A u \in Workers \ {w} : worker'[u] = worker[u]
    <3>1. Next
      BY <1>6 DEF Next
    <3>2. UNCHANGED <<made, coll>> /\ worker[w].pc # "off"
      BY <1>6 DEF WorkerStep, LoadJob, Check, WriteStep, LastCheck, Complete, Fails
    <3>3. \A u \in Workers \ {w} : worker'[u] = worker[u]
      BY <1>0, <1>6 DEF WorkerStep, LoadJob, Check, WriteStep, LastCheck, Complete, Fails, Stop,
         Goto, End
    <3> QED
      BY <1>0, <3>1, <3>2, <3>3, ActorsTyped
  <2>1. server'.id = server.id /\ job'.cancelReq = job.cancelReq
    <3>1. \A b : Fail(w, b) => server'.id = server.id /\ job'.cancelReq = job.cancelReq
      BY <1>0 DEF Fail, TypeOK, Row, Job
    <3>2. CASE LoadJob(w) \/ Check(w) \/ LastCheck(w) \/ Fails(w)
      BY <3>1, <3>2 DEF LoadJob, Check, LastCheck, Fails, Stop
    <3>3. CASE WriteStep(w) \/ Complete(w)
      BY <1>0, <3>3 DEF WriteStep, Complete, TypeOK, Row, Job
    <3> QED
      BY <1>6, <3>2, <3>3 DEF WorkerStep
  <2>2. CASE End(w)
    <3>1. worker'[w] = NoWorker
      BY <1>0, <2>2 DEF End
    <3>2. WorkerInv(w)'
      BY <1>0, <2>0, <3>1 DEF WorkerInv, Ids
    <3> QED
      BY <1>5, <2>0, <2>1, <3>2
  <2>3. ASSUME NEW pc \in {"check", "write", "last", "complete"}, worker'[w].pc = pc,
               worker'[w].id = worker[w].id, worker'[w].told = worker[w].told,
               pc = "complete" => ~Gone(w) /\ ~job.cancelReq
        PROVE  ActorsInv'
    <3>1. WorkerInv(w)'
      BY <1>0, <2>0, <2>1, <2>3 DEF ActorsInv, WorkerInv, Gone
    <3> QED
      BY <1>5, <2>0, <2>1, <3>1
  <2>4. \A pc \in {"check", "write", "last", "complete"} :
          Goto(w, pc) => /\ worker'[w].pc = pc /\ worker'[w].id = worker[w].id
                         /\ worker'[w].told = worker[w].told
    BY <1>0 DEF Goto, Worker
  <2>5. CASE LoadJob(w) /\ ~End(w)
    <3>1. /\ worker'[w].pc = "check" /\ worker'[w].id = worker[w].id
          /\ worker'[w].told = worker[w].told
      BY <1>0, <2>5 DEF LoadJob, Worker
    <3> QED
      BY <2>3, <3>1
  <2>6. CASE (Check(w) \/ WriteStep(w) \/ LastCheck(w)) /\ ~End(w)
    <3>1. \E pc \in {"check", "write", "last", "complete"} :
             Goto(w, pc) /\ (pc = "complete" => ~Gone(w) /\ ~job.cancelReq)
      BY <2>6 DEF Check, WriteStep, LastCheck, Stop
    <3> QED
      BY <2>3, <2>4, <3>1
  <2>7. Complete(w) \/ Fails(w) => End(w)
    BY DEF Complete, Fails, Stop
  <2> QED
    BY <1>6, <2>2, <2>5, <2>6, <2>7 DEF WorkerStep
<1>12. ASSUME NEW w \in Workers, Retry(w) PROVE ActorsInv'
  <2>1. server.id # 0 /\ server.id <= made
    BY <1>0, <1>12 DEF Retry, TypeOK, NoJob
  <2>2. \A u \in Workers : worker'[u] = [Start(w, server.id)[u] EXCEPT !.told = FALSE]
    BY <1>12 DEF Retry
  <2>3. Start(w, server.id)[w] = [NoWorker EXCEPT !.pc = "load", !.id = server.id]
    BY <1>0 DEF Start
  <2>4. \A u \in Workers \ {w} : Start(w, server.id)[u] = worker[u]
    BY <1>0 DEF Start
  <2>5. WorkerInv(w)'
    BY <1>0, <1>12, <2>1, <2>2, <2>3 DEF Retry, WorkerInv, NoWorker
  <2>6. ASSUME NEW u \in Workers \ {w} PROVE WorkerInv(u)'
    <3>1. worker'[u] = [worker[u] EXCEPT !.told = FALSE] /\ worker[u] \in Worker
      BY <1>0, <2>2, <2>4
    <3>2. worker'[u].id = worker[u].id /\ worker'[u].pc = worker[u].pc /\ ~worker'[u].told
      BY <3>1 DEF Worker
    <3> QED
      BY <1>0, <1>12, <3>2 DEF Retry, ActorsInv, WorkerInv
  <2> QED
    BY <1>0, <1>12, <2>5, <2>6 DEF Retry, ActorsInv
<1>13. CASE Expire
  <2>1. job'.cancelReq = job.cancelReq
    BY <1>0, <1>13 DEF Expire, TypeOK, Job
  <2> QED
    BY <1>0, <1>13, <2>1 DEF Expire, ActorsInv, WorkerInv
<1>14. CASE ReadTargets
  BY <1>0, <1>14 DEF ReadTargets, ActorsInv, WorkerInv
<1>15. CASE Sync
  <2>1. coll'.id = server'.id /\ UNCHANGED <<job, worker>>
    BY <1>15 DEF Sync, NoCollection
  <2>2. CASE NewRow(coll.enabled, FALSE)
    <3>1. made' = made + 1 /\ server'.id = made' /\ server'.id # 0
      BY <1>0, <2>2, NewRowType
    <3>2. \A w \in Workers : worker[w].id <= made' /\ worker[w].id # made'
      BY <1>0, <3>1 DEF ActorsInv, WorkerInv, Worker, Ids
    <3> QED
      BY <1>0, <2>1, <3>1, <3>2 DEF ActorsInv, WorkerInv
  <2>3. CASE server.id # 0 /\ made' = made
    <3>1. server'.id = server.id
      BY <1>0, <1>15, <2>3 DEF Sync, NewRow, Row
    <3> QED
      BY <1>0, <2>1, <2>3, <3>1 DEF ActorsInv, WorkerInv
  <2> QED
    BY <1>0, <1>15, <2>2, <2>3 DEF Sync, ActorsInv
<1>16. CASE StoreSample \/ EndWithout
  BY <1>0, <1>16 DEF StoreSample, EndWithout, ActorsInv, WorkerInv, NoCollection
<1>17. CASE Crash
  BY <1>0, <1>17 DEF Crash, ActorsInv, WorkerInv, NoCollection, Ids
<1>18. ASSUME NEW r \in Requests,
              BeginPatch(r) \/ BeginDelete(r) \/ SelectJobs(r) \/ CountRelations(r)
       PROVE  ActorsInv'
  BY <1>0, <1>18 DEF BeginPatch, BeginDelete, SelectJobs, CountRelations, ActorsInv,
     WorkerInv
<1>19. ASSUME NEW r \in Requests, Patch(r) PROVE ActorsInv'
  <2>1. server'.id = server.id
    BY <1>0, <1>19 DEF Patch, Row
  <2> QED
    BY <1>0, <1>19, <2>1 DEF Patch, ActorsInv, WorkerInv
<1> QED
  BY <1>1, <1>2, <1>3, <1>4, <1>6, <1>12, <1>13, <1>14, <1>15, <1>16, <1>17, <1>18, <1>19
  DEF Next, Handle, Collect

-----------------------------------------------------------------------------
(* The invariant holds in every reachable state. *)
LEMMA Inductive == Spec => []IInv
<1>1. Init => IInv
  <2>1. Init => ActorsInv
    BY RowsAssumption DEF Init, ActorsInv, WorkerInv, NoWorker, NoCollection
  <2> QED
    BY <2>1, InitTypeOK DEF IInv
<1>2. IInv /\ [Next]_vars => IInv'
  <2>1. ASSUME IInv, Next PROVE IInv'
    <3>1. TypeOK'
      BY <2>1, RequestsTyped, ActorsTyped, InventoryTyped DEF IInv, Inventory, TypeOK
    <3> QED
      BY <2>1, <3>1, ActorsPreserved DEF IInv
  <2>2. ASSUME IInv, UNCHANGED vars PROVE IInv'
    BY <2>2 DEF IInv, TypeOK, ActorsInv, WorkerInv, vars
  <2> QED
    BY <2>1, <2>2
<1> QED
  BY <1>1, <1>2, PTL DEF Spec

(* Every reachable state is well typed (the models' columns and their ON   *)
(* DELETE CASCADE), for any requests and any number of rows.               *)
THEOREM TypeCorrect == Spec => []TypeOK
<1>1. IInv => TypeOK
  BY DEF IInv
<1> QED
  BY <1>1, Inductive, PTL

(* A job cancelled by a deletion before its last checkpoint does not       *)
(* complete unless a retry takes the cancellation back, however many jobs  *)
(* of the onboarding are at work (cancel_active_onboardings,               *)
(* _check_cancel).                                                         *)
THEOREM CancelledNeverCompletes == Spec => []ToldJobNeverCompletes
<1>1. IInv => ToldJobNeverCompletes
  BY DEF IInv, ActorsInv, WorkerInv, ToldJobNeverCompletes
<1> QED
  BY <1>1, Inductive, PTL

-----------------------------------------------------------------------------
(* Undisturbed deletions. *)

(* What a deletion found is still so while nothing is committed.           *)
QuietInv ==
  \A r \in Requests : req[r].quiet =>
    /\ server.id # 0 /\ req[r].copy = Loaded(server)
    /\ req[r].pc \in {"selected", "counted"} =>
         (req[r].found <=> server.life # "archived" /\ Active)
    /\ req[r].pc = "counted" => (req[r].deletes <=> ~req[r].found /\ CanHardDelete)

(* A step either disturbs every other request, or changes nothing that     *)
(* they looked at.                                                         *)
LEMMA StepDisturbs ==
  ASSUME Next
  PROVE  \/ req' = Disturbed
         \/ \E r \in Requests : req' = Answered(r)
         \/ Crash
         \/ UNCHANGED <<server, history, job, req>>
         \/ \E r \in Requests :
              /\ BeginPatch(r) \/ BeginDelete(r) \/ SelectJobs(r) \/ CountRelations(r)
              /\ UNCHANGED <<server, history, job>>
<1>1. CASE Create \/ Expire \/ ReadTargets \/ Collect
  BY <1>1 DEF Create, Expire, ReadTargets, Collect, Sync, StoreSample, EndWithout
<1>4. ASSUME NEW w \in Workers, CreateOnboarding(w) \/ WorkerStep(w) \/ Retry(w)
      PROVE  req' = Disturbed \/ UNCHANGED <<server, history, job, req>>
  BY <1>4 DEF CreateOnboarding, WorkerStep, LoadJob, Check, WriteStep, LastCheck, Complete, Fails,
     Fail, Stop, Retry
<1>2. ASSUME NEW r \in Requests, Patch(r) \/ Delete(r) \/ Archive(r)
      PROVE  req' = Answered(r)
  BY <1>2 DEF Patch, Delete, Archive
<1>3. ASSUME NEW r \in Requests,
             BeginPatch(r) \/ BeginDelete(r) \/ SelectJobs(r) \/ CountRelations(r)
      PROVE  UNCHANGED <<server, history, job>>
  BY <1>3 DEF BeginPatch, BeginDelete, SelectJobs, CountRelations
<1> QED
  BY <1>1, <1>2, <1>3, <1>4 DEF Next, Handle

(* Every step keeps what is known of undisturbed deletions. *)
LEMMA QuietPreserved == ASSUME TypeOK, QuietInv, Next PROVE QuietInv'
<1>1. \A r \in Requests : req[r] \in Request
  BY DEF TypeOK
<1>2. CASE req' = Disturbed
  BY <1>1, <1>2 DEF Disturbed, QuietInv, Request
<1>3. ASSUME NEW r \in Requests, req' = Answered(r) PROVE QuietInv'
  BY <1>1, <1>3 DEF Answered, Disturbed, NoRequest, QuietInv, Request
<1>4. CASE Crash
  BY <1>4 DEF Crash, NoRequest, QuietInv
<1>5. CASE UNCHANGED <<server, history, job, req>>
  BY <1>5 DEF QuietInv, CanHardDelete, Loaded, Active
<1>6. ASSUME NEW r \in Requests, UNCHANGED <<server, history, job>>,
             BeginPatch(r) \/ BeginDelete(r) \/ SelectJobs(r) \/ CountRelations(r)
      PROVE  QuietInv'
  <2>1. /\ CanHardDelete' = CanHardDelete /\ Loaded(server)' = Loaded(server)
        /\ Active' = Active /\ server' = server
    BY <1>6 DEF CanHardDelete, Loaded, Active
  <2>2. \A q \in Requests \ {r} : req'[q] = req[q]
    BY <1>6 DEF BeginPatch, BeginDelete, SelectJobs, CountRelations, TypeOK
  <2>3. ASSUME req'[r].quiet
        PROVE  /\ server.id # 0 /\ req'[r].copy = Loaded(server)
               /\ req'[r].pc \in {"selected", "counted"} =>
                    (req'[r].found <=> server.life # "archived" /\ Active)
               /\ req'[r].pc = "counted" =>
                    (req'[r].deletes <=> ~req'[r].found /\ CanHardDelete)
    <3>1. CASE BeginPatch(r)
      <4>1. ~req'[r].quiet
        BY <1>1, <3>1 DEF BeginPatch, TypeOK, NoRequest
      <4> QED
        BY <2>3, <4>1
    <3>2. CASE BeginDelete(r)
      <4>1. /\ server.id # 0 /\ req'[r].copy = Loaded(server) /\ req'[r].pc = "loaded"
        BY <1>1, <3>2 DEF BeginDelete, TypeOK, NoRequest
      <4> QED
        BY <4>1
    <3>3. CASE SelectJobs(r)
      <4>1. /\ req'[r].quiet = req[r].quiet /\ req'[r].copy = req[r].copy
            /\ req'[r].pc = "selected"
            /\ req'[r].found = (/\ req[r].copy.life # "archived"
                                /\ Exists(req[r].copy) /\ Active)
        BY <1>1, <3>3 DEF SelectJobs, TypeOK, Request
      <4>2. server.id # 0 /\ req[r].copy = Loaded(server)
        BY <2>3, <4>1 DEF QuietInv
      <4> QED
        BY <4>1, <4>2 DEF Exists, Loaded
    <3>4. CASE CountRelations(r)
      <4>1. /\ req'[r].quiet = req[r].quiet /\ req'[r].copy = req[r].copy
            /\ req[r].pc = "selected" /\ req'[r].pc = "counted"
            /\ req'[r].found = req[r].found
            /\ req'[r].deletes = (~req[r].found /\ CanHardDelete)
        BY <1>1, <3>4 DEF CountRelations, TypeOK, Request
      <4> QED
        BY <2>3, <4>1 DEF QuietInv
    <3> QED
      BY <1>6, <3>1, <3>2, <3>3, <3>4
  <2> QED
    BY <1>6, <2>1, <2>2, <2>3 DEF QuietInv
<1> QED
  BY <1>2, <1>3, <1>4, <1>5, <1>6, StepDisturbs

(* A deletion nothing was committed during keeps its promise               *)
(* (delete_server).                                                        *)
THEOREM QuietRetires == Spec => QuietDeleteRetires
<1>1. ASSUME TypeOK, QuietInv, NEW r \in Requests, req[r].quiet, Delete(r) \/ Archive(r)
      PROVE  IF server'.id = 0
             THEN ~history /\ job.status \in {"none", "cancelled"}
             ELSE /\ server'.life = "archived"
                  /\ ~server'.enabled
                  /\ Active' => server.life = "archived"
  <2>1. /\ server.id # 0 /\ req[r].copy = Loaded(server) /\ req[r].pc = "counted"
        /\ (req[r].found <=> server.life # "archived" /\ Active)
        /\ (req[r].deletes <=> ~req[r].found /\ CanHardDelete)
    BY <1>1 DEF QuietInv, Delete, Archive
  <2>2. Exists(req[r].copy) /\ req[r].copy.enabled = server.enabled /\ server \in Row
    BY <1>1, <2>1 DEF Exists, Loaded, TypeOK
  <2>3. CASE Delete(r)
    BY <2>1, <2>2, <2>3 DEF Delete, CanHardDelete, Absent
  <2>4. CASE Archive(r)
    <3>1. server' = [server EXCEPT !.life = "archived",
                                   !.enabled = Written(@, server.enabled, FALSE)]
      BY <2>2, <2>4 DEF Archive, Archived
    <3>2. server'.id # 0 /\ server'.life = "archived" /\ ~server'.enabled
      BY <2>1, <2>2, <3>1 DEF Row, Written
    <3>3. job' = IF req[r].found THEN Cancelled ELSE job
      BY <2>2, <2>4 DEF Archive
    <3> QED
      BY <2>1, <3>2, <3>3 DEF Cancelled, Active
  <2> QED
    BY <1>1, <2>3, <2>4
<1>2. Init => QuietInv
  BY DEF Init, QuietInv, NoRequest
<1>3. TypeOK /\ QuietInv /\ [Next]_vars => QuietInv'
  <2>1. ASSUME QuietInv, UNCHANGED vars PROVE QuietInv'
    BY <2>1 DEF QuietInv, vars, CanHardDelete, Loaded, Active
  <2> QED
    BY <2>1, QuietPreserved
<1>4. TypeOK /\ QuietInv =>
        [\A r \in Requests : req[r].quiet /\ (Delete(r) \/ Archive(r)) =>
           IF server'.id = 0
           THEN ~history /\ job.status \in {"none", "cancelled"}
           ELSE /\ server'.life = "archived"
                /\ ~server'.enabled
                /\ Active' => server.life = "archived"]_vars
  BY <1>1
<1> QED
  BY <1>2, <1>3, <1>4, TypeCorrect, PTL DEF Spec, QuietDeleteRetires

=============================================================================
