--------------------------- MODULE ServerLifecycle ---------------------------
(***************************************************************************)
(* The inventory row of one server (one external_id), and everybody that   *)
(* writes it: the API creates, updates, archives and deletes it, its       *)
(* onboarding's worker enables it, and the collection upserts it from      *)
(* targets it read before it took the collection lock.                     *)
(*                                                                         *)
(* Each of them works on the Server object its own session loaded and      *)
(* updates the columns that differ from what was loaded (module            *)
(* Onboarding explains the sessions).  A later SELECT of the same row      *)
(* returns that object with its old values, a refresh excepted.            *)
(*                                                                         *)
(* The targets are those of the database (INFRASTRUCTURE_SOURCE =          *)
(* prometheus); one collection runs at a time (module CollectionRunner).   *)
(* `history` stands for every relation that protects a server from         *)
(* deletion, its onboarding apart; of the onboarding's row only what a     *)
(* deletion looks at is kept, and its handlers are one step each.  Several *)
(* background jobs of one onboarding may run together: neither a retry nor *)
(* the expiry looks for the one that is still at work.                     *)
(***************************************************************************)
EXTENDS Integers, FiniteSets

CONSTANTS
  Requests,   \* PATCH and DELETE requests that may be in flight together
  Workers,    \* background jobs that may be at work together
  MaxRows     \* bound: rows created for this external_id

ASSUME RowsAssumption == MaxRows \in Nat \ {0}

VARIABLES
  server,     \* the row; its id is 0 when there is none
  history,    \* metrics, alerts, snapshots, channels refer to it, or a cost
  job,        \* its onboarding: status and cancel_requested
  made,       \* rows created so far
  worker,     \* the background jobs
  coll,       \* the collection: the row it loaded, then the one it stores under
  req         \* requests, with the object each loaded

vars == <<server, history, job, made, worker, coll, req>>

Ids == 0 .. MaxRows
Row == [id : Ids, life : {"active", "archived"}, enabled : BOOLEAN, target : BOOLEAN]
Absent == [id |-> 0, life |-> "active", enabled |-> FALSE, target |-> FALSE]

(* What a session's object of the row is read for. *)
Copy == [id : Ids, life : {"active", "archived"}, enabled : BOOLEAN]
Loaded(row) == [id |-> row.id, life |-> row.life, enabled |-> row.enabled]

Job == [status : {"none", "pending", "active", "cancelled", "ended"}, cancelReq : BOOLEAN]
NoJob == [status |-> "none", cancelReq |-> FALSE]

Worker == [pc : {"off", "load", "check", "write", "last", "complete"}, id : Ids,
           enabled : BOOLEAN, told : BOOLEAN]
NoWorker == [pc |-> "off", id |-> 0, enabled |-> FALSE, told |-> FALSE]

Collection == [pc : {"idle", "sync", "store"}, id : Ids, enabled : BOOLEAN]
NoCollection == [pc |-> "idle", id |-> 0, enabled |-> FALSE]

Request == [op : {"patch", "delete"}, pc : {"idle", "loaded", "selected", "counted"},
            copy : Copy, found : BOOLEAN, deletes : BOOLEAN,
            quiet : BOOLEAN]
NoRequest == [op |-> "patch", pc |-> "idle", copy |-> Loaded(Absent),
              found |-> FALSE, deletes |-> FALSE, quiet |-> FALSE]

Init ==
  /\ server = Absent
  /\ history = FALSE
  /\ job = NoJob
  /\ made = 0
  /\ worker = [w \in Workers |-> NoWorker]
  /\ coll = NoCollection
  /\ req = [r \in Requests |-> NoRequest]

-----------------------------------------------------------------------------
(* Sessions. *)

(* The UPDATE of a column: written when it differs from the loaded value. *)
Written(db, loaded, new) == IF new # loaded THEN new ELSE db

(* A transaction committed: a request in flight is no longer undisturbed. *)
Disturbed == [q \in Requests |-> [req[q] EXCEPT !.quiet = FALSE]]
Answered(r) == [Disturbed EXCEPT ![r] = NoRequest]

(* A deletion that cancels the job has flushed its UPDATE of the job's row,*)
(* and holds that row until it commits.                                    *)
JobLocked == \E r \in Requests : req[r].pc = "counted" /\ req[r].found

(* ACTIVE_ONBOARDING_STATUSES. *)
Active == job.status \in {"pending", "active"}

Exists(copy) == copy.id # 0 /\ copy.id = server.id

NewRow(enabled, target) ==
  /\ server.id = 0
  /\ made < MaxRows
  /\ made' = made + 1
  /\ server' = [id |-> made', life |-> "active", enabled |-> enabled, target |-> target]

-----------------------------------------------------------------------------
(* POST /servers and POST /onboarding; a row that exists is answered 409.  *)
(* A cost counts as history.                                               *)

Create ==
  /\ \E enabled, target \in BOOLEAN : NewRow(enabled, target)
  /\ history' \in BOOLEAN
  /\ req' = Disturbed
  /\ UNCHANGED <<job, worker, coll>>

Start(w, id) == [worker EXCEPT ![w] = [NoWorker EXCEPT !.pc = "load", !.id = id]]

CreateOnboarding(w) ==
  /\ worker[w].pc = "off"
  /\ \E target \in BOOLEAN : NewRow(FALSE, target)
  /\ history' \in BOOLEAN
  /\ job' = [status |-> "pending", cancelReq |-> FALSE]
  /\ worker' = Start(w, made')
  /\ req' = Disturbed
  /\ UNCHANGED coll

-----------------------------------------------------------------------------
(* PATCH of `enabled`: the row is loaded, then updated to the other value  *)
(* (assigning the loaded one is no UPDATE).  An UPDATE that finds no row   *)
(* is an error.                                                            *)

BeginPatch(r) ==
  /\ req[r].pc = "idle"
  /\ server.id # 0
  /\ req' = [req EXCEPT ![r] = [NoRequest EXCEPT !.pc = "loaded", !.copy = Loaded(server)]]
  /\ UNCHANGED <<server, history, job, made, worker, coll>>

Patch(r) ==
  /\ req[r].op = "patch"
  /\ req[r].pc = "loaded"
  /\ server' = IF Exists(req[r].copy)
               THEN [server EXCEPT !.enabled = Written(@, req[r].copy.enabled, ~req[r].copy.enabled)]
               ELSE server
  /\ req' = Answered(r)
  /\ UNCHANGED <<history, job, made, worker, coll>>

-----------------------------------------------------------------------------
(* DELETE, confirmed: load the server, look for active jobs, cancel them   *)
(* and count the relations, then delete or archive and commit.             *)

BeginDelete(r) ==
  /\ req[r].pc = "idle"
  /\ server.id # 0
  /\ req' = [req EXCEPT ![r] = [NoRequest EXCEPT !.op = "delete", !.pc = "loaded",
                                                 !.copy = Loaded(server), !.quiet = TRUE]]
  /\ UNCHANGED <<server, history, job, made, worker, coll>>

SelectJobs(r) ==
  /\ req[r].op = "delete"
  /\ req[r].pc = "loaded"
  /\ req' = [req EXCEPT ![r].pc = "selected",
                        ![r].found = /\ req[r].copy.life # "archived"
                                     /\ Exists(req[r].copy)
                                     /\ Active]
  /\ UNCHANGED <<server, history, job, made, worker, coll>>

CanHardDelete_JobsOnly == job.status \in {"none", "cancelled"}

(* can_hard_delete of the counts as they are now. *)
CanHardDelete == ~history /\ job.status \in {"none", "cancelled"}

CountRelations(r) ==
  /\ req[r].pc = "selected"
  /\ req[r].found => ~JobLocked
  /\ req' = [req EXCEPT ![r].pc = "counted",
                        ![r].deletes = ~req[r].found /\ CanHardDelete]
  /\ UNCHANGED <<server, history, job, made, worker, coll>>

Cancelled_StatusOnly == [job EXCEPT !.status = "cancelled"]
Cancelled == [status |-> "cancelled", cancelReq |-> TRUE]

(* archive, on the loaded object. *)
Archived(copy) ==
  [server EXCEPT !.life = "archived", !.enabled = Written(@, copy.enabled, FALSE)]

(* The jobs at work are told of a cancellation, unless they have read      *)
(* their last checkpoint already.                                          *)
Told == [w \in Workers |->
           [worker[w] EXCEPT !.told = @ \/ worker[w].pc \in {"load", "check", "write", "last"}]]

Delete(r) ==
  /\ req[r].pc = "counted"
  /\ req[r].deletes
  /\ ~JobLocked
  /\ IF Exists(req[r].copy)
     THEN server' = Absent /\ history' = FALSE /\ job' = NoJob
     ELSE UNCHANGED <<server, history, job>>
  /\ req' = Answered(r)
  /\ UNCHANGED <<made, worker, coll>>

Archive(r) ==
  /\ req[r].pc = "counted"
  /\ ~req[r].deletes
  /\ IF Exists(req[r].copy)
     THEN /\ server' = Archived(req[r].copy)
          /\ job' = IF req[r].found THEN Cancelled ELSE job
          /\ worker' = IF req[r].found THEN Told ELSE worker
     ELSE UNCHANGED <<server, job, worker>>
  /\ req' = Answered(r)
  /\ UNCHANGED <<history, made, coll>>

-----------------------------------------------------------------------------
(* A background job of the onboarding.  A row that is gone ends it with an *)
(* error.                                                                  *)

Goto(w, pc) == worker' = [worker EXCEPT ![w].pc = pc]
End(w) == worker' = [worker EXCEPT ![w] = NoWorker]
Gone(w) == worker[w].id # server.id

LoadJob(w) ==
  /\ worker[w].pc = "load"
  /\ \/ Gone(w) /\ End(w)
     \/ /\ ~Gone(w)
        /\ worker' = [worker EXCEPT ![w].pc = "check", ![w].enabled = server.enabled]
  /\ UNCHANGED <<server, history, job, made, coll, req>>

(* _fail: its commit flushes what the session holds of the server.         *)
Fail(w, enabled) ==
  /\ ~JobLocked
  /\ job' = [job EXCEPT !.status = "ended"]
  /\ server' = [server EXCEPT !.enabled = Written(@, worker[w].enabled, enabled)]
  /\ req' = Disturbed

(* _fail on a refreshed row: one that was cancelled or has expired is left *)
(* alone.  Which error ended a row is left out.                            *)
Stop(w, enabled) ==
  /\ End(w)
  /\ \/ job.status \in {"cancelled", "ended"} /\ UNCHANGED <<server, job, req>>
     \/ job.status # "cancelled" /\ Fail(w, enabled)

(* The read half of a transition: a refresh, and its two checks. *)
Check(w) ==
  /\ worker[w].pc = "check"
  /\ \/ /\ Gone(w)
        /\ End(w)
        /\ UNCHANGED <<server, job, req>>
     \/ /\ ~Gone(w)
        /\ Active /\ ~job.cancelReq
        /\ Goto(w, "write")
        /\ UNCHANGED <<server, job, req>>
     \/ /\ ~Gone(w)
        /\ ~Active \/ job.cancelReq
        /\ Stop(w, worker[w].enabled)
  /\ UNCHANGED <<history, made, coll>>

(* The commit of a transition.  A step before it may have stored the       *)
(* inventory; after the last one only checkpoints follow.  The status is   *)
(* not written when it is the one that was loaded, another job's at the    *)
(* same step.                                                              *)
WriteStep(w) ==
  /\ worker[w].pc = "write"
  /\ \/ /\ Gone(w)
        /\ End(w)
        /\ UNCHANGED <<history, job, req>>
     \/ /\ ~Gone(w)
        /\ ~JobLocked
        /\ \/ job' = [job EXCEPT !.status = "active"]
           \/ UNCHANGED job
        /\ history' \in {history, TRUE}
        /\ \E pc \in {"check", "last"} : Goto(w, pc)
        /\ req' = Disturbed
  /\ UNCHANGED <<server, made, coll>>

(* The last _check_cancel, which does not look at the status. *)
LastCheck(w) ==
  /\ worker[w].pc = "last"
  /\ \/ /\ Gone(w)
        /\ End(w)
        /\ UNCHANGED <<server, job, req>>
     \/ /\ ~Gone(w) /\ ~job.cancelReq
        /\ Goto(w, "complete")
        /\ UNCHANGED <<server, job, req>>
     \/ /\ ~Gone(w) /\ job.cancelReq
        /\ Stop(w, TRUE)
  /\ UNCHANGED <<history, made, coll>>

Complete(w) ==
  /\ worker[w].pc = "complete"
  /\ Gone(w) \/ ~JobLocked
  /\ End(w)
  /\ IF Gone(w)
     THEN UNCHANGED <<server, job, req>>
     ELSE /\ job' = [job EXCEPT !.status = "ended"]
          /\ server' = [server EXCEPT !.enabled = Written(@, worker[w].enabled, TRUE)]
          /\ req' = Disturbed
  /\ UNCHANGED <<history, made, coll>>

(* Any other error of the run: the row is as it was last refreshed, or as  *)
(* the last transition left it, so that _fail may overwrite any status.    *)
Fails(w) ==
  /\ worker[w].pc \in {"check", "last"}
  /\ ~Gone(w)
  /\ LET enabled == worker[w].pc = "last" \/ worker[w].enabled
     IN  Stop(w, enabled) \/ (End(w) /\ Fail(w, enabled))
  /\ UNCHANGED <<history, made, coll>>

(* POST /onboarding/{id}/retry looks at the row of the onboarding only,    *)
(* whatever became of the server and of a job that is still at work, and   *)
(* takes a cancellation back.                                              *)
Retry(w) ==
  /\ worker[w].pc = "off"
  /\ job.status \in {"pending", "cancelled", "ended"}
  /\ ~JobLocked
  /\ job' = [status |-> "pending", cancelReq |-> FALSE]
  /\ worker' = [u \in Workers |-> [Start(w, server.id)[u] EXCEPT !.told = FALSE]]
  /\ req' = Disturbed
  /\ UNCHANGED <<server, history, made, coll>>

(* recover_stale looks at the age of the row only: a job may be between    *)
(* two commits for longer than that.                                       *)
Expire ==
  /\ Active
  /\ ~JobLocked
  /\ job' = [job EXCEPT !.status = IF job.cancelReq THEN "cancelled" ELSE "ended"]
  /\ req' = Disturbed
  /\ UNCHANGED <<server, history, made, worker, coll>>

-----------------------------------------------------------------------------
(* The collection. *)

Targets_WithUrl == IF server.target THEN server ELSE Absent

(* list_enabled_with_prometheus: archived rows are not left out. *)
Targets == IF server.enabled /\ server.target THEN server ELSE Absent

ReadTargets ==
  /\ coll.pc = "idle"
  /\ Targets.id # 0
  /\ coll' = [pc |-> "sync", id |-> Targets.id, enabled |-> Targets.enabled]
  /\ UNCHANGED <<server, history, job, made, worker, req>>

(* upsert_from_snapshot and the heartbeat's commit: the object of the same *)
(* id is the one that was loaded; a row of another id is loaded now; a row *)
(* that is gone is created again, without its Prometheus URL.              *)
Sync ==
  /\ coll.pc = "sync"
  /\ \/ /\ server.id = coll.id
        /\ server' = [server EXCEPT !.enabled = Written(@, coll.enabled, coll.enabled)]
        /\ UNCHANGED made
     \/ /\ server.id \notin {0, coll.id}
        /\ server' = [server EXCEPT !.enabled = coll.enabled]
        /\ UNCHANGED made
     \/ NewRow(coll.enabled, FALSE)
  /\ coll' = [NoCollection EXCEPT !.pc = "store", !.id = server'.id]
  /\ req' = Disturbed
  /\ UNCHANGED <<history, job, worker>>

StoreSample_AnyRow ==
  /\ coll.pc = "store"
  /\ history' = TRUE
  /\ coll' = NoCollection
  /\ req' = Disturbed
  /\ UNCHANGED <<server, job, made, worker>>

(* _store_server_metrics: a sample of a row that is gone is refused by the *)
(* foreign key and costs nothing else.                                     *)
StoreSample ==
  /\ coll.pc = "store"
  /\ coll.id = server.id
  /\ history' = TRUE
  /\ coll' = NoCollection
  /\ req' = Disturbed
  /\ UNCHANGED <<server, job, made, worker>>

(* No sample: the run or its savepoint failed, the host did not answer, or *)
(* the row is gone.                                                        *)
EndWithout ==
  /\ coll.pc \in {"sync", "store"}
  /\ coll' = NoCollection
  /\ UNCHANGED <<server, history, job, made, worker, req>>

-----------------------------------------------------------------------------
(* The process dies. *)
Crash ==
  /\ \/ \E w \in Workers : worker[w].pc # "off"
     \/ coll.pc # "idle"
     \/ \E r \in Requests : req[r].pc # "idle"
  /\ worker' = [w \in Workers |-> NoWorker]
  /\ coll' = NoCollection
  /\ req' = [r \in Requests |-> NoRequest]
  /\ UNCHANGED <<server, history, job, made>>

WorkerStep(w) == LoadJob(w) \/ Check(w) \/ WriteStep(w) \/ LastCheck(w) \/ Complete(w) \/ Fails(w)
Collect == Sync \/ StoreSample \/ EndWithout
Handle(r) == Patch(r) \/ SelectJobs(r) \/ CountRelations(r) \/ Delete(r) \/ Archive(r)

Next ==
  \/ Create
  \/ \E r \in Requests : BeginPatch(r) \/ BeginDelete(r) \/ Handle(r)
  \/ \E w \in Workers : CreateOnboarding(w) \/ WorkerStep(w) \/ Retry(w)
  \/ Expire
  \/ ReadTargets \/ Collect
  \/ Crash

Spec == Init /\ [][Next]_vars

(* A run that started ends, and the scheduler starts another one. *)
LiveSpec == Spec /\ WF_vars(Collect) /\ WF_vars(ReadTargets)

-----------------------------------------------------------------------------
(* Every row and every session's copy is one the models allow; only an     *)
(* existing row has relations or an onboarding (models/server,             *)
(* models/onboarding, their ON DELETE CASCADE).                            *)
TypeOK ==
  /\ server \in Row
  /\ history \in BOOLEAN
  /\ job \in Job
  /\ made \in Ids
  /\ server.id <= made
  /\ server.id = 0 => server = Absent /\ ~history /\ job = NoJob
  /\ worker \in [Workers -> Worker]
  /\ coll \in Collection
  /\ req \in [Requests -> Request]

(* A deletion nothing was committed during does what it promises: it       *)
(* removes a server without history and without a job that is not          *)
(* cancelled, or leaves it archived and disabled, and without an active    *)
(* job if it was not archived before (delete_server).  An archived server  *)
(* whose onboarding is retried keeps its job: that is the code's guard.    *)
QuietDeleteRetires ==
  [][\A r \in Requests : req[r].quiet /\ (Delete(r) \/ Archive(r)) =>
       IF server'.id = 0
       THEN ~history /\ job.status \in {"none", "cancelled"}
       ELSE /\ server'.life = "archived"
            /\ ~server'.enabled
            /\ Active' => server.life = "archived"]_vars

(* A background job that a deletion cancelled before its last checkpoint   *)
(* does not complete, unless a retry takes the cancellation back: not even *)
(* when a transition it had checked overwrites the cancelled status, the   *)
(* row expires or another job ends it (cancel_active_onboardings,          *)
(* _check_cancel).                                                         *)
ToldJobNeverCompletes == \A w \in Workers : worker[w].pc = "complete" => ~worker[w].told

(* The collection stops storing samples of a server that is archived and   *)
(* disabled and that nobody enables again, runs in progress included.      *)
RetiredSamplingEnds ==
  <>[](server.life = "archived" /\ ~server.enabled) => <>[][~StoreSample]_vars

(* "Retira un servidor con confirmacion explicita y sin borrar historico   *)
(* productivo" (delete_server): a deletion never removes history.          *)
DeleteKeepsHistory == [][history => history']_vars

=============================================================================
