----------------------------- MODULE Onboarding -----------------------------
(***************************************************************************)
(* One SSH onboarding of one server: the row of server_onboardings, the    *)
(* server it enables, the remote host, the background jobs that run the    *)
(* flow or its rollback, and the HTTP requests that poll, retry, cancel    *)
(* and roll back.                                                          *)
(*                                                                         *)
(* Every job and every request has a database session of its own.  The     *)
(* sessions are built with expire_on_commit=False and autoflush=False      *)
(* (app/database/session.py): an object keeps the values it was loaded     *)
(* with until session.refresh, and a commit updates only the columns whose *)
(* value differs from the loaded one.  A copy of the row in a job or a     *)
(* request is that loaded value; Merge is the UPDATE.                      *)
(*                                                                         *)
(* Two steps are apart exactly when another session can commit between     *)
(* them: a refresh and the commit that follows it, a checkpoint and the    *)
(* script it guards, the load and the commit of a request.                 *)
(***************************************************************************)
EXTENDS Integers, Sequences, FiniteSets

CONSTANTS
    MaxJobs,    \* bound: background jobs started in a behaviour
    Requests,   \* HTTP requests that may be in flight together
    Timeout,    \* onboarding_job_timeout_seconds, in ticks
    MaxGap,     \* longest time, in ticks, between two commits of a live run
    Faults,     \* TRUE: SSH calls, scripts, probes and the process may fail
    Pinned,     \* TRUE: NODE_EXPORTER_VERSION is configured
    HostAtStart,\* what the host may hold before the first run
    Patient     \* TRUE: retry and rollback are asked only when no job is live

Exporters == {"absent", "old", "target"}

ASSUME OnboardingAssumption ==
    /\ MaxJobs \in Nat \ {0}
    /\ Timeout \in Nat \ {0} /\ MaxGap \in Nat \ {0}
    /\ Faults \in BOOLEAN /\ Pinned \in BOOLEAN /\ Patient \in BOOLEAN
    /\ HostAtStart \subseteq Exporters

Jobs == 1 .. MaxJobs

Terminal == {"completed", "failed", "cancelled", "rollback_required"}

\* The transitions of a run, in order; each is also the status it writes.
Flow == << "connecting", "authenticating", "discovering",
           "installing_exporter", "configuring_firewall",
           "verifying_exporter", "registering_inventory",
           "configuring_monitoring", "validating" >>

Steps    == 1 .. 9
Install  == 4
Firewall == 5
Verify   == 6
Validate == 9

FlowStatuses == {Flow[s] : s \in Steps}
Statuses     == {"pending"} \cup FlowStatuses \cup Terminal
Errors       == {"none", "cancelled", "job_expired", "other"}

VARIABLES
    ob,          \* the row: status, cancel_requested, last_error_code, and
                 \* the age of updated_at in ticks
    server,      \* the server's columns: enabled, contract_status
    remote,      \* the host: its exporter and its managed firewall rule
    jobs,        \* background jobs, with their session's copies
    req,         \* requests in flight, with their session's copy
    sinceCancel  \* history: host scripts a run started after a cancel
                 \* was answered, -1 while none was

vars == <<ob, server, remote, jobs, req, sinceCancel>>

RowCopy == [status : Statuses, cancelReq : BOOLEAN, err : Errors]
ServerRow == [enabled : BOOLEAN, contract : {"pending_onboarding", "active"}]

JobPcs == {"free", "load", "work", "commit", "install", "guard", "promote",
           "complete", "fail", "remove", "unfirewall", "close", "abort",
           "done"}

JobRecord ==
    [kind : {"run", "rollback"}, pc : JobPcs, step : Steps,
     copy : RowCopy, srv : ServerRow, new : ServerRow,
     found : BOOLEAN, installed : BOOLEAN, ok : BOOLEAN,
     code : Errors, idle : 0 .. MaxGap]

ReqRecord ==
    [op : {"poll", "retry", "cancel", "rollback"},
     pc : {"idle", "recover", "act"}, copy : RowCopy]

-----------------------------------------------------------------------------
(* Sessions.                                                               *)

\* The columns of the row a session can write, as it reads them now.
Row == [status |-> ob.status, cancelReq |-> ob.cancelReq, err |-> ob.err]

\* Fault: the session writes every column back, not the changed ones.
Merge_AllColumns(db, loaded, new) ==
    [f \in DOMAIN db |-> IF f \in DOMAIN new THEN new[f] ELSE db[f]]

\* UPDATE: a column is written when its value differs from the loaded one.
Merge(db, loaded, new) ==
    [f \in DOMAIN db |->
        IF f \in DOMAIN new /\ new[f] # loaded[f] THEN new[f] ELSE db[f]]

\* Every commit of the row also assigns updated_at.
CommitRow(loaded, new) == ob' = [Merge(ob, loaded, new) EXCEPT !.age = 0]

Live(j)   == jobs[j].pc \notin {"free", "done"}
LiveRun(j) == Live(j) /\ jobs[j].kind = "run"

EmptyRow == [status |-> "pending", cancelReq |-> FALSE, err |-> "none"]
NewServer == [enabled |-> FALSE, contract |-> "pending_onboarding"]

JobAt(kind, pc) ==
    [kind |-> kind, pc |-> pc, step |-> 1, copy |-> EmptyRow,
     srv |-> NewServer, new |-> NewServer, found |-> FALSE,
     installed |-> FALSE, ok |-> FALSE, code |-> "none", idle |-> 0]

Ended(job) == JobAt(job.kind, "done")

IdleReq == [op |-> "poll", pc |-> "idle", copy |-> EmptyRow]

Answer(r) == req' = [req EXCEPT ![r] = IdleReq]

\* create_server_and_onboarding: a disabled server, a pending row, one run.
Init ==
    /\ ob = [status |-> "pending", cancelReq |-> FALSE, err |-> "none", age |-> 0]
    /\ server = NewServer
    /\ remote \in [exporter : HostAtStart, rule : {FALSE}]
    /\ jobs = [j \in Jobs |-> IF j = 1 THEN JobAt("run", "load")
                                       ELSE JobAt("run", "free")]
    /\ req = [r \in Requests |-> IdleReq]
    /\ sinceCancel = [j \in Jobs |-> -1]

-----------------------------------------------------------------------------
(* The run: refreshes, checkpoints and commits.                            *)

Goto(j, fields) == jobs' = [jobs EXCEPT ![j] = fields]

\* An SSHServiceError, or any exception: the run goes to _fail with a code.
Raised(job, code) == [job EXCEPT !.pc = "fail", !.code = code]

\* The read half of _transition: refresh, then stop on a terminal row (with
\* its error code) or on a requested cancellation.
Transition(job) ==
    LET seen == [job EXCEPT !.copy = Row]
    IN  IF ob.status \in Terminal
        THEN Raised(seen, IF ob.err = "none" THEN "job_expired" ELSE ob.err)
        ELSE IF ob.cancelReq THEN Raised(seen, "cancelled")
        ELSE [seen EXCEPT !.pc = "commit"]

\* _check_cancel: refresh, then stop only on a requested cancellation.
CheckCancel(job, next) ==
    LET seen == [job EXCEPT !.copy = Row]
    IN  IF ob.cancelReq THEN Raised(seen, "cancelled")
                        ELSE [seen EXCEPT !.pc = next]

\* History: a script that changes the host starts under run j.
TouchesHost(j) ==
    sinceCancel' = [sinceCancel EXCEPT ![j] =
                       IF @ \in {0, 1} THEN @ + 1 ELSE @]

\* run opens its session, loads the row and the server, and enters the flow.
Load(j) ==
    /\ jobs[j].pc = "load" /\ jobs[j].kind = "run"
    /\ Goto(j, Transition([jobs[j] EXCEPT !.srv = server, !.new = server]))
    /\ UNCHANGED <<ob, server, remote, req, sinceCancel>>

\* Steps whose work before the transition cannot raise: nothing is called
\* before connecting, and registering repeats a check the precheck passed.
Quiet == {1, 7}

\* The work before a transition that changes nothing on the host: connect,
\* precheck, the exporter check, the verification, the URL, the probe.  A
\* _check_cancel that comes right before a transition is part of its read.
Work(j) ==
    /\ jobs[j].pc = "work" /\ jobs[j].step # Firewall
    /\ \/ /\ jobs[j].step \notin {Install, Verify}
          /\ Goto(j, Transition([jobs[j] EXCEPT !.ok = TRUE]))
       \/ /\ jobs[j].step \in {Install, Verify}
          /\ \E answer \in IF Faults THEN BOOLEAN ELSE {remote.exporter # "absent"} :
               /\ answer => remote.exporter # "absent"
               /\ Goto(j, Transition(
                     [jobs[j] EXCEPT !.ok = answer,
                        !.found = IF jobs[j].step = Install THEN answer ELSE @]))
       \/ /\ Faults /\ jobs[j].step \notin Quiet
          /\ Goto(j, Raised(jobs[j], "other"))
    /\ UNCHANGED <<ob, server, remote, req, sinceCancel>>

\* configure-node-exporter-firewall.sh, which only adds its own rule, then
\* the refresh of its transition.
ConfigureFirewall(j) ==
    /\ jobs[j].pc = "work" /\ jobs[j].step = Firewall
    /\ \/ /\ remote' = [remote EXCEPT !.rule = TRUE]
          /\ Goto(j, Transition([jobs[j] EXCEPT !.ok = TRUE]))
       \/ /\ Faults
          /\ \E rule \in {remote.rule, TRUE} : remote' = [remote EXCEPT !.rule = rule]
          /\ \/ Goto(j, Transition([jobs[j] EXCEPT !.ok = FALSE]))
             \/ Goto(j, Raised(jobs[j], "other"))
    /\ TouchesHost(j)
    /\ UNCHANGED <<ob, server, req>>

\* Fault: the firewall's failure is not raised.
StepFailed_VerifyOnly(job) == job.step = Verify /\ ~job.ok

\* After these two transitions run raises when the step did not succeed.
StepFailed(job) == job.step \in {Firewall, Verify} /\ ~job.ok

\* The write half of _transition, and where run goes from there.
Commit(j) ==
    LET job == jobs[j]
        new == [job.copy EXCEPT !.status = Flow[job.step]]
        kept == [job EXCEPT !.copy = new, !.idle = 0]
    IN  /\ job.pc = "commit"
        /\ CommitRow(job.copy, new)
        /\ Goto(j, CASE StepFailed(job) -> Raised(kept, "other")
                     [] job.step = Install -> [kept EXCEPT !.pc = "install"]
                     [] job.step = Validate -> [kept EXCEPT !.pc = "promote"]
                     [] OTHER -> [kept EXCEPT !.pc = "work", !.step = @ + 1])
        /\ UNCHANGED <<server, remote, req, sinceCancel>>

\* The exporter did not answer: install-node-exporter.sh.  A failure or a
\* timeout raises before `installed` is set, whatever the script left behind
\* (its own backup, nothing, or an installation that finished late).
InstallExporter(j) ==
    /\ jobs[j].pc = "install" /\ ~jobs[j].found
    /\ \/ /\ remote' = [remote EXCEPT !.exporter = "target"]
          /\ Goto(j, [jobs[j] EXCEPT !.pc = "guard", !.installed = TRUE])
       \/ /\ Faults
          /\ \E e \in Exporters : remote' = [remote EXCEPT !.exporter = e]
          /\ Goto(j, Raised(jobs[j], "other"))
    /\ TouchesHost(j)
    /\ UNCHANGED <<ob, server, req>>

\* The exporter answered: with a configured version that is not the one
\* running, update-node-exporter.sh.  That script calls
\* install-node-exporter.sh in its own directory, where run_script has put
\* one file only, so it ends in an error and changes nothing.
UpdateExporter(j) ==
    LET outdated == Pinned /\ remote.exporter # "target"
    IN  /\ jobs[j].pc = "install" /\ jobs[j].found
        /\ \/ ~outdated /\ Goto(j, [jobs[j] EXCEPT !.pc = "guard"])
           \/ outdated /\ Goto(j, Raised(jobs[j], "other"))
           \/ Faults /\ Pinned /\ Goto(j, Raised(jobs[j], "other"))
        /\ UNCHANGED <<ob, server, remote, req, sinceCancel>>

\* The checkpoint between the exporter's installation and the firewall.
Guard(j) ==
    /\ jobs[j].pc = "guard"
    /\ Goto(j, CheckCancel([jobs[j] EXCEPT !.step = Firewall], "work"))
    /\ UNCHANGED <<ob, server, remote, req, sinceCancel>>

\* After validating: the server's columns are set in memory, then two things
\* can raise (the management key, the version command), then the contract is
\* set and the last checkpoint read.
Promote(j) ==
    LET enabled == [jobs[j] EXCEPT !.new.enabled = TRUE]
    IN  /\ jobs[j].pc = "promote"
        /\ \/ Goto(j, CheckCancel([enabled EXCEPT !.new.contract = "active"],
                                  "complete"))
           \/ Faults /\ Goto(j, Raised(enabled, "other"))
        /\ UNCHANGED <<ob, server, remote, req, sinceCancel>>

\* status = completed; the commit flushes the server's columns too.
Complete(j) ==
    LET job == jobs[j]
    IN  /\ job.pc = "complete"
        /\ CommitRow(job.copy, [job.copy EXCEPT !.status = "completed"])
        /\ server' = Merge(server, job.srv, job.new)
        /\ Goto(j, Ended(job))
        /\ UNCHANGED <<remote, req, sinceCancel>>

\* Fault: a status that no other code knows.
FailVerdict_Unknown(job) == IF job.installed THEN "rollback" ELSE "failed"

\* What _fail writes: a run that installed the exporter asks for a rollback.
FailVerdict(job) == IF job.installed THEN "rollback_required" ELSE "failed"

\* _fail: without a refresh, it leaves a row it saw cancelled or expired as
\* it is; otherwise it writes the failure, and its commit flushes whatever
\* the session holds.
Fail(j) ==
    LET job == jobs[j]
    IN  /\ job.pc = "fail"
        /\ IF job.copy.status \in Terminal /\ job.copy.err \in {"cancelled", "job_expired"}
           THEN UNCHANGED <<ob, server>>
           ELSE /\ CommitRow(job.copy, [job.copy EXCEPT !.status = FailVerdict(job),
                                                        !.err = job.code])
                /\ server' = Merge(server, job.srv, job.new)
        /\ Goto(j, Ended(job))
        /\ UNCHANGED <<remote, req, sinceCancel>>

-----------------------------------------------------------------------------
(* The rollback job.                                                       *)

\* rollback loads the row and the server, then connects.
LoadRollback(j) ==
    LET job == [jobs[j] EXCEPT !.copy = Row, !.srv = server, !.new = server]
    IN  /\ job.pc = "load" /\ job.kind = "rollback"
        /\ \/ Goto(j, [job EXCEPT !.pc = "remove"])
           \/ Faults /\ Goto(j, [job EXCEPT !.pc = "abort"])
        /\ UNCHANGED <<ob, server, remote, req, sinceCancel>>

\* What removing can leave: nothing; the exporter; or one whose files are gone
\* and whose process still answers, because systemctl failed.
Leftovers == IF remote.exporter = "absent" THEN {"absent"}
             ELSE {"absent", "old", remote.exporter}

\* remove-node-exporter.sh.  It ignores a failure to stop the process, so its
\* success only says that the files are gone.
RemoveExporter(j) ==
    LET job == jobs[j]
    IN  /\ job.pc = "remove"
        /\ \/ /\ \E e \in IF Faults THEN Leftovers \ {"target"} ELSE {"absent"} :
                    remote' = [remote EXCEPT !.exporter = e]
              /\ Goto(j, [job EXCEPT !.pc = "unfirewall", !.ok = TRUE])
           \/ /\ Faults
              /\ \E e \in Leftovers : remote' = [remote EXCEPT !.exporter = e]
              /\ \/ Goto(j, [job EXCEPT !.pc = "unfirewall", !.ok = FALSE])
                 \/ Goto(j, [job EXCEPT !.pc = "abort"])
        /\ UNCHANGED <<ob, server, req, sinceCancel>>

\* configure-node-exporter-firewall.sh with FIREWALL_ACTION=remove.  It ignores
\* a failure of every deletion, so its success says nothing of the rule.
RemoveFirewall(j) ==
    LET job == jobs[j]
    IN  /\ job.pc = "unfirewall"
        /\ \E rule \in IF Faults THEN {FALSE, remote.rule} ELSE {FALSE} :
              remote' = [remote EXCEPT !.rule = rule]
        /\ \/ Goto(j, [job EXCEPT !.pc = "close"])
           \/ Faults /\ Goto(j, [job EXCEPT !.pc = "close", !.ok = FALSE])
           \/ Faults /\ Goto(j, [job EXCEPT !.pc = "abort"])
        /\ UNCHANGED <<ob, server, req, sinceCancel>>

\* What the rollback leaves in its copy of the server.
Disabled(job) == [job.new EXCEPT !.enabled = FALSE]

\* Both scripts answered: the verdict, and the server disabled.
CloseRollback(j) ==
    LET job == jobs[j]
        verdict == IF job.ok THEN "failed" ELSE "rollback_required"
    IN  /\ job.pc = "close"
        /\ CommitRow(job.copy, [job.copy EXCEPT !.status = verdict])
        /\ server' = Merge(server, job.srv, Disabled(job))
        /\ Goto(j, Ended(job))
        /\ UNCHANGED <<remote, req, sinceCancel>>

\* except SSHServiceError: the row asks for a rollback; the server is kept.
AbortRollback(j) ==
    LET job == jobs[j]
    IN  /\ job.pc = "abort"
        /\ CommitRow(job.copy, [job.copy EXCEPT !.status = "rollback_required"])
        /\ Goto(j, Ended(job))
        /\ UNCHANGED <<server, remote, req, sinceCancel>>

-----------------------------------------------------------------------------
(* HTTP requests.                                                          *)

NoJobLive == \A j \in Jobs : ~Live(j)

\* Fault: a job that never started is not looked at.
Expired_NotPending ==
    ob.status \notin Terminal \cup {"pending"} /\ ob.age > Timeout

\* The age rule of recover_stale on the row as it is now.
Expired == ob.status \notin Terminal /\ ob.age > Timeout

Spawning == {"retry", "rollback"}
Ops      == {"poll", "cancel"} \cup Spawning

\* Bound: a request that starts a job has an unused slot of its own.
RoomForJob ==
    Cardinality({q \in Requests : req[q].pc # "idle" /\ req[q].op \in Spawning})
        < Cardinality({j \in Jobs : jobs[j].pc = "free"})

\* The operator's patience, when it is assumed.
AllQuiet == NoJobLive /\ \A q \in Requests : req[q].pc = "idle"

\* A handler loads the row and decides, on that copy, whether it is stale.
\* A poll that finds nothing to recover changes nothing and is left out.
Begin(r, op) ==
    /\ req[r].pc = "idle"
    /\ op = "poll" => Expired
    /\ op \in Spawning => RoomForJob /\ (Patient => AllQuiet)
    /\ req' = [req EXCEPT ![r] =
                  [op |-> op, copy |-> Row,
                   pc |-> IF Expired /\ op # "rollback" THEN "recover" ELSE "act"]]
    /\ UNCHANGED <<ob, server, remote, jobs, sinceCancel>>

\* recover_stale commits its verdict; the handler goes on with its own part.
Recover(r) ==
    LET copy == req[r].copy
        code == IF copy.cancelReq THEN "cancelled" ELSE "job_expired"
        new  == [copy EXCEPT !.status = IF code = "cancelled" THEN "cancelled"
                                                              ELSE "failed",
                             !.err = code]
    IN  /\ req[r].pc = "recover"
        /\ CommitRow(copy, new)
        /\ IF req[r].op = "poll"
           THEN Answer(r)
           ELSE req' = [req EXCEPT ![r].copy = new, ![r].pc = "act"]
        /\ UNCHANGED <<server, remote, jobs, sinceCancel>>

\* BackgroundTasks.add_task, on the next unused slot.
Spawn(kind) ==
    \E j \in Jobs :
        /\ jobs[j].pc = "free"
        /\ \A i \in Jobs : i < j => jobs[i].pc # "free"
        /\ Goto(j, JobAt(kind, "load"))

\* Fault: every terminal status admits a rollback.
RollbackFrom_Terminal == Terminal

\* The statuses that admit a rollback.
RollbackFrom == {"failed", "rollback_required", "cancelled"}

\* 409, or a cancel that finds the job finished.
Refuse(r) ==
    LET status == req[r].copy.status
    IN  /\ req[r].pc = "act"
        /\ \/ req[r].op = "retry" /\ status \notin Terminal \cup {"pending"}
           \/ req[r].op = "cancel" /\ status \in Terminal
           \/ /\ req[r].op = "rollback"
              /\ status \notin RollbackFrom
        /\ Answer(r)
        /\ UNCHANGED <<ob, server, remote, jobs, sinceCancel>>

\* POST /{id}/retry.
Retry(r) ==
    LET copy == req[r].copy
    IN  /\ req[r].pc = "act" /\ req[r].op = "retry"
        /\ copy.status \in Terminal \cup {"pending"}
        /\ CommitRow(copy, EmptyRow)
        /\ Spawn("run")
        /\ Answer(r)
        /\ UNCHANGED <<server, remote, sinceCancel>>

\* POST /{id}/cancel.
Cancel(r) ==
    LET copy == req[r].copy
    IN  /\ req[r].pc = "act" /\ req[r].op = "cancel"
        /\ copy.status \notin Terminal
        /\ CommitRow(copy, [status |-> "cancelled", cancelReq |-> TRUE,
                            err |-> "cancelled"])
        /\ Answer(r)
        /\ sinceCancel' = [j \in Jobs |-> IF LiveRun(j) /\ sinceCancel[j] = -1
                                          THEN 0 ELSE sinceCancel[j]]
        /\ UNCHANGED <<server, remote, jobs>>

\* POST /{id}/rollback.
Rollback(r) ==
    LET copy == req[r].copy
    IN  /\ req[r].pc = "act" /\ req[r].op = "rollback"
        /\ copy.status \in RollbackFrom
        /\ CommitRow(copy, [copy EXCEPT !.status = "rollback_required"])
        /\ Spawn("rollback")
        /\ Answer(r)
        /\ UNCHANGED <<server, remote, sinceCancel>>

-----------------------------------------------------------------------------
(* Time and the process.                                                   *)

\* A tick passes while every live run commits within MaxGap of its last one.
Tick ==
    /\ \A j \in Jobs : LiveRun(j) => jobs[j].idle < MaxGap
    /\ ob.age <= Timeout
    /\ ob' = [ob EXCEPT !.age = @ + 1]
    /\ jobs' = [j \in Jobs |-> IF LiveRun(j) THEN [jobs[j] EXCEPT !.idle = @ + 1]
                                             ELSE jobs[j]]
    /\ UNCHANGED <<server, remote, req, sinceCancel>>

\* The API process dies: its jobs and requests are gone, the row stays.
Crash ==
    /\ Faults /\ ~NoJobLive
    /\ jobs' = [j \in Jobs |-> IF Live(j) THEN Ended(jobs[j]) ELSE jobs[j]]
    /\ req' = [r \in Requests |-> IdleReq]
    /\ UNCHANGED <<ob, server, remote, sinceCancel>>

RunStep(j) ==
    \/ Load(j) \/ Work(j) \/ ConfigureFirewall(j) \/ Commit(j)
    \/ InstallExporter(j) \/ UpdateExporter(j) \/ Guard(j)
    \/ Promote(j) \/ Complete(j) \/ Fail(j)

RollbackStep(j) ==
    \/ LoadRollback(j) \/ RemoveExporter(j) \/ RemoveFirewall(j)
    \/ CloseRollback(j) \/ AbortRollback(j)

Handle(r) == Recover(r) \/ Refuse(r) \/ Retry(r) \/ Cancel(r) \/ Rollback(r)

Next ==
    \/ \E j \in Jobs : RunStep(j) \/ RollbackStep(j)
    \/ \E r \in Requests : (\E op \in Ops : Begin(r, op)) \/ Handle(r)
    \/ Tick
    \/ Crash

Spec == Init /\ [][Next]_vars

\* A background thread runs on and every SSH call has a timeout; time passes;
\* a handler ends; the dialog polls a job until it is terminal, whatever
\* else is asked (useServerOnboarding.ts), which is why that one is strong.
Fairness ==
    /\ \A j \in Jobs : WF_vars(RunStep(j) \/ RollbackStep(j))
    /\ \A r \in Requests : WF_vars(Handle(r)) /\ SF_vars(Begin(r, "poll"))
    /\ WF_vars(Tick)

LiveSpec == Spec /\ Fairness

-----------------------------------------------------------------------------
(* Properties.                                                             *)

\* Type invariant: every column and every session copy keeps its domain.
TypeOK ==
    /\ ob \in [status : Statuses, cancelReq : BOOLEAN, err : Errors,
               age : 0 .. Timeout + 1]
    /\ server \in ServerRow
    /\ remote \in [exporter : Exporters, rule : BOOLEAN]
    /\ jobs \in [Jobs -> JobRecord]
    /\ req \in [Requests -> ReqRecord]
    /\ sinceCancel \in [Jobs -> -1 .. 2]

\* A completed onboarding is what its audit line says: the server is enabled
\* under an active contract, an exporter answers on the host and the managed
\* firewall rule is there (run, the completed commit).
CompletedIsPrepared ==
    ob.status = "completed" =>
        /\ server.enabled /\ server.contract = "active"
        /\ remote.exporter # "absent" /\ remote.rule

\* Once a cancellation is answered, a run in progress starts at most one more
\* script on the host, even when the transition it had already checked
\* overwrites the cancelled status (_transition, _check_cancel).
CancelledRunTouchesHostOnce == \A j \in Jobs : sinceCancel[j] <= 1

\* "Solo afecta jobs no terminales cuyo updated_at supera el timeout configurado;
\* un onboarding reciente sigue siendo reanudable" (recover_stale): a recovery
\* ends no onboarding whose row was written within the timeout.
ExpirySparesRecentJobs ==
    [][\A r \in Requests :
          Recover(r) /\ ob.status \notin Terminal => ob.age > Timeout]_vars

\* A completed onboarding is reopened by the operator's retry or overwritten
\* by a cancellation that was asked before it completed, by nothing else: no
\* job, recovery or rollback takes the verdict back.
CompletedIsStable ==
    [][ob.status = "completed" /\ ob'.status # "completed" =>
          \E r \in Requests : Retry(r) \/ Cancel(r)]_vars

\* The job in progress as the operator sees it: a run that is to write its
\* verdict may still have the server's columns in memory.
WorkOf(job) ==
    CASE job.kind = "rollback"                     -> "rollback"
      [] job.kind = "run" /\ job.pc # "fail"       -> "run"
      [] job.kind = "run" /\ job.pc = "fail" /\ job.new = job.srv -> "stopped"
      [] OTHER                                     -> "stopped late"

\* The transitions a run has committed.
Committed(job) ==
    CASE job.pc = "load"              -> 0
      [] job.pc \in {"work", "commit"} -> job.step - 1
      [] OTHER                        -> job.step

TheJob == jobs[CHOOSE j \in Jobs : Live(j)]
Working  == IF NoJobLive THEN "none" ELSE WorkOf(TheJob)
Progress == IF Working = "run" THEN Committed(TheJob) ELSE 0
Asked    == \E r \in Requests : /\ req[r].pc = "act" /\ req[r].op = "cancel"
                                /\ req[r].copy.status \notin Terminal

Promise == INSTANCE OnboardingPromise WITH
    status <- ob.status, work <- Working, progress <- Progress,
    asked <- Asked, enabled <- server.enabled

\* The jobs and requests of a patient operator implement the onboarding that
\* the dialog shows: steps in their order, a server enabled by a run that got
\* as far as validating, a verdict that only the operator takes back
\* (OnboardingService.run, rollback, recover_stale and the endpoints).
KeepsPromise == Promise!PromiseSpec

\* Liveness: an onboarding in progress reaches a terminal status, through its
\* job or, when the process died, through the polls (recover_stale).
Settles == (ob.status \notin Terminal) ~> (ob.status \in Terminal)

\* Liveness: on a host and a network without faults, an onboarding nobody
\* cancels completes, whatever exporter the host had.
HealthyHostCompletes ==
    (ob.status = "pending") ~> (ob.status = "completed" \/ ob.cancelReq)

=============================================================================
