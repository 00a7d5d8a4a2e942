-------------------------- MODULE OnboardingProofs --------------------------
(***************************************************************************)
(* Proofs about Onboarding.  Types hold for any constants.  What a run and *)
(* a rollback leave, and what a cancellation is worth, hold for a patient  *)
(* operator, whatever polls and cancellations are in flight.  What a       *)
(* recovery spares needs a calm onboarding: one request in flight, and     *)
(* runs that commit at least as often as the timeout; so does the promise  *)
(* the dialog relies on (OnboardingPromise), which the last part shows the *)
(* jobs, sessions and requests to implement.  The number of jobs, the host *)
(* and the faults are any.                                                 *)
(***************************************************************************)
EXTENDS Onboarding, TLAPS

-----------------------------------------------------------------------------
(* Sessions.                                                               *)

ObRow == [status : Statuses, cancelReq : BOOLEAN, err : Errors, age : 0 .. Timeout + 1]

(* Statuses of the flow, and those a handler, a failure or a rollback writes. *)
LEMMA StatusTypes ==
  /\ Terminal \subseteq Statuses /\ "pending" \in Statuses
  /\ \A s \in Steps : Flow[s] \in Statuses
  /\ \A s \in Steps : Flow[s] \notin Terminal \cup {"pending"}
BY DEF Statuses, FlowStatuses, Terminal, Flow, Steps

(* What a commit of the row leaves: the columns that changed, and a new    *)
(* updated_at.                                                             *)
LEMMA CommittedRow ==
  ASSUME ob \in ObRow, NEW loaded \in RowCopy, NEW new \in RowCopy, CommitRow(loaded, new)
  PROVE  /\ ob' \in ObRow /\ ob'.age = 0
         /\ ob'.status = IF new.status # loaded.status THEN new.status ELSE ob.status
         /\ ob'.cancelReq = IF new.cancelReq # loaded.cancelReq THEN new.cancelReq
                            ELSE ob.cancelReq
         /\ ob'.err = IF new.err # loaded.err THEN new.err ELSE ob.err
<1> DEFINE merged == Merge(ob, loaded, new)
<1>1. /\ DOMAIN ob = {"status", "cancelReq", "err", "age"}
      /\ DOMAIN new = {"status", "cancelReq", "err"}
  BY DEF ObRow, RowCopy
<1>2. merged = [f \in {"status", "cancelReq", "err", "age"} |->
                  IF f \in {"status", "cancelReq", "err"} /\ new[f] # loaded[f]
                  THEN new[f] ELSE ob[f]]
  BY <1>1 DEF Merge
<1>3. /\ merged.status = IF new.status # loaded.status THEN new.status ELSE ob.status
      /\ merged.cancelReq = IF new.cancelReq # loaded.cancelReq THEN new.cancelReq
                            ELSE ob.cancelReq
      /\ merged.err = IF new.err # loaded.err THEN new.err ELSE ob.err
  BY <1>2
<1>4. merged = [status |-> merged.status, cancelReq |-> merged.cancelReq,
                err |-> merged.err, age |-> merged.age]
  BY <1>2
<1>5. ob' = [merged EXCEPT !.age = 0]
  BY DEF CommitRow
<1> HIDE DEF merged
<1>6. ob' = [status |-> merged.status, cancelReq |-> merged.cancelReq,
             err |-> merged.err, age |-> 0]
  BY <1>4, <1>5
<1>7. /\ ob.status \in Statuses /\ ob.cancelReq \in BOOLEAN /\ ob.err \in Errors
      /\ new.status \in Statuses /\ new.cancelReq \in BOOLEAN /\ new.err \in Errors
      /\ 0 \in 0 .. Timeout + 1
  BY OnboardingAssumption DEF ObRow, RowCopy
<1> QED
  BY <1>3, <1>6, <1>7 DEF ObRow

(* What a commit of the server's columns leaves. *)
LEMMA CommittedServer ==
  ASSUME NEW db \in ServerRow, NEW loaded \in ServerRow, NEW new \in ServerRow
  PROVE  Merge(db, loaded, new) \in ServerRow /\ (loaded = db => Merge(db, loaded, new) = new)
<1>1. DOMAIN db = {"enabled", "contract"} /\ DOMAIN new = {"enabled", "contract"}
  BY DEF ServerRow
<1>2. Merge(db, loaded, new) =
        [f \in {"enabled", "contract"} |-> IF new[f] # loaded[f] THEN new[f] ELSE db[f]]
  BY <1>1 DEF Merge
<1> DEFINE merged == Merge(db, loaded, new)
<1>3. merged = [enabled |-> merged.enabled, contract |-> merged.contract]
  BY <1>2
<1>4. /\ merged.enabled = IF new.enabled # loaded.enabled THEN new.enabled ELSE db.enabled
      /\ merged.contract = IF new.contract # loaded.contract THEN new.contract ELSE db.contract
  BY <1>2
<1>5. merged.enabled \in BOOLEAN /\ merged.contract \in {"pending_onboarding", "active"}
  BY <1>4 DEF ServerRow
<1> HIDE DEF merged
<1>6. merged \in ServerRow
  BY <1>3, <1>5 DEF ServerRow
<1>7. ASSUME loaded = db PROVE merged = new
  <2>1. merged.enabled = new.enabled /\ merged.contract = new.contract
    BY <1>4, <1>7
  <2> QED
    BY <1>3, <2>1 DEF ServerRow
<1> QED
  BY <1>6, <1>7 DEF merged

(* The row as a session reads it. *)
LEMMA RowType ==
  ASSUME ob \in ObRow
  PROVE  /\ Row \in RowCopy /\ Row.status = ob.status /\ Row.cancelReq = ob.cancelReq
         /\ Row.err = ob.err
BY DEF ObRow, RowCopy, Row

(* The job a copy changes into. *)
LEMMA RaisedJob ==
  ASSUME NEW job \in JobRecord, NEW code \in Errors
  PROVE  LET n == Raised(job, code)
         IN  /\ n \in JobRecord /\ n.pc = "fail" /\ n.code = code
             /\ n.kind = job.kind /\ n.step = job.step /\ n.copy = job.copy
             /\ n.srv = job.srv /\ n.new = job.new /\ n.idle = job.idle
BY DEF Raised, JobRecord, JobPcs

(* The read of a transition, or of a checkpoint. *)
LEMMA SeenJob ==
  ASSUME ob \in ObRow, NEW job \in JobRecord
  PROVE  LET n == [job EXCEPT !.copy = Row]
         IN  /\ n \in JobRecord /\ n.copy = Row
             /\ n.kind = job.kind /\ n.step = job.step /\ n.srv = job.srv
             /\ n.new = job.new /\ n.idle = job.idle /\ n.found = job.found /\ n.ok = job.ok
BY RowType DEF JobRecord

LEMMA MovedJob ==
  ASSUME NEW job \in JobRecord, NEW pc \in JobPcs
  PROVE  LET n == [job EXCEPT !.pc = pc]
         IN  /\ n \in JobRecord /\ n.pc = pc /\ n.copy = job.copy
             /\ n.kind = job.kind /\ n.step = job.step /\ n.srv = job.srv
             /\ n.new = job.new /\ n.idle = job.idle /\ n.found = job.found /\ n.ok = job.ok
BY DEF JobRecord

LEMMA TransitionJob ==
  ASSUME ob \in ObRow, NEW job \in JobRecord
  PROVE  LET n == Transition(job)
         IN  /\ n \in JobRecord /\ n.copy = Row /\ n.kind = job.kind /\ n.step = job.step
             /\ n.srv = job.srv /\ n.new = job.new /\ n.idle = job.idle
             /\ n.pc \in {"commit", "fail"}
             /\ (ob.cancelReq => n.pc = "fail") /\ (ob.status \in Terminal => n.pc = "fail")
             /\ n.pc = "commit" => n.found = job.found /\ n.ok = job.ok
<1> DEFINE seen == [job EXCEPT !.copy = Row]
           code == IF ob.err = "none" THEN "job_expired" ELSE ob.err
<1>1. /\ seen \in JobRecord /\ seen.copy = Row /\ seen.kind = job.kind
      /\ seen.step = job.step /\ seen.srv = job.srv /\ seen.new = job.new
      /\ seen.idle = job.idle /\ seen.found = job.found /\ seen.ok = job.ok
      /\ code \in Errors /\ "cancelled" \in Errors /\ "commit" \in JobPcs
  <2>1. code \in Errors /\ "cancelled" \in Errors /\ "commit" \in JobPcs
    BY DEF ObRow, Errors, JobPcs
  <2> QED
    BY <2>1, SeenJob
<1>2. Transition(job) = IF ob.status \in Terminal THEN Raised(seen, code)
                        ELSE IF ob.cancelReq THEN Raised(seen, "cancelled")
                        ELSE [seen EXCEPT !.pc = "commit"]
  BY DEF Transition
<1> HIDE DEF seen, code
<1>3. CASE ob.status \in Terminal
  <2>1. Transition(job) = Raised(seen, code)
    BY <1>2, <1>3
  <2> QED
    BY <1>1, <1>3, <2>1, RaisedJob
<1>4. CASE ob.status \notin Terminal /\ ob.cancelReq
  <2>1. Transition(job) = Raised(seen, "cancelled")
    BY <1>2, <1>4
  <2> QED
    BY <1>1, <2>1, RaisedJob
<1>5. CASE ob.status \notin Terminal /\ ~ob.cancelReq
  <2>1. Transition(job) = [seen EXCEPT !.pc = "commit"]
    BY <1>2, <1>5
  <2> QED
    BY <1>1, <1>5, <2>1, MovedJob
<1> QED
  BY <1>3, <1>4, <1>5

LEMMA CheckedJob ==
  ASSUME ob \in ObRow, NEW job \in JobRecord, NEW pc \in JobPcs
  PROVE  LET n == CheckCancel(job, pc)
         IN  /\ n \in JobRecord /\ n.copy = Row /\ n.kind = job.kind /\ n.step = job.step
             /\ n.srv = job.srv /\ n.new = job.new /\ n.idle = job.idle
             /\ n.pc \in {pc, "fail"} /\ (ob.cancelReq => n.pc = "fail")
             /\ n.pc = pc /\ pc # "fail" => n.found = job.found /\ n.ok = job.ok
<1> DEFINE seen == [job EXCEPT !.copy = Row]
<1>1. /\ seen \in JobRecord /\ seen.copy = Row /\ seen.kind = job.kind
      /\ seen.step = job.step /\ seen.srv = job.srv /\ seen.new = job.new
      /\ seen.idle = job.idle /\ seen.found = job.found /\ seen.ok = job.ok
      /\ "cancelled" \in Errors
  BY SeenJob DEF Errors
<1>2. CheckCancel(job, pc) = IF ob.cancelReq THEN Raised(seen, "cancelled")
                             ELSE [seen EXCEPT !.pc = pc]
  BY DEF CheckCancel
<1> HIDE DEF seen
<1>3. CASE ob.cancelReq
  <2>1. CheckCancel(job, pc) = Raised(seen, "cancelled")
    BY <1>2, <1>3
  <2> QED
    BY <1>1, <2>1, RaisedJob
<1>4. CASE ~ob.cancelReq
  <2>1. CheckCancel(job, pc) = [seen EXCEPT !.pc = pc]
    BY <1>2, <1>4
  <2> QED
    BY <1>1, <1>4, <2>1, MovedJob
<1> QED
  BY <1>3, <1>4

(* A slot with a job that starts, or that has ended. *)
LEMMA SlotTypes ==
  ASSUME NEW kind \in {"run", "rollback"}, NEW pc \in JobPcs
  PROVE  LET n == JobAt(kind, pc)
         IN  /\ n \in JobRecord /\ n.kind = kind /\ n.pc = pc /\ n.step = 1 /\ n.idle = 0
             /\ ~n.found /\ ~n.ok
<1>1. EmptyRow \in RowCopy /\ NewServer \in ServerRow /\ 1 \in Steps /\ "none" \in Errors
  BY StatusTypes DEF EmptyRow, RowCopy, NewServer, ServerRow, Steps, Errors
<1>2. 0 \in 0 .. MaxGap
  BY OnboardingAssumption
<1> QED
  BY <1>1, <1>2 DEF JobAt, JobRecord

-----------------------------------------------------------------------------
(* What is so of a job at work, given the row, the server and the host.    *)

Remote == [exporter : Exporters, rule : BOOLEAN]

Alive(job) == job.pc \notin {"free", "done"}

Going == {"work", "commit", "promote", "complete"}

(* A run that is past the exporter's installation, or found one. *)
HasExporter(job) ==
  \/ job.pc \in {"commit", "install"} /\ job.step = Install /\ job.found
  \/ job.pc = "guard"
  \/ job.pc \in Going /\ job.step > Install

(* A run that is past the firewall's configuration. *)
HasRule(job) ==
  \/ job.pc = "commit" /\ job.step = Firewall /\ job.ok
  \/ job.pc \in Going /\ job.step > Firewall

RunPcs == Going \cup {"load", "install", "guard", "fail"}

(* An operator who waits for the job, one request in flight, and runs that *)
(* commit at least once per timeout.                                       *)
Calm == Patient /\ MaxGap <= Timeout /\ \A p, q \in Requests : p = q

RunOK(job, o, s, m) ==
  /\ job.pc \in RunPcs
  /\ Calm => o.age <= job.idle
  /\ job.pc = "load" => job.step = 1
  /\ job.pc # "load" => job.srv = s
  /\ job.pc \in {"install", "guard"} => job.step = Install
  /\ job.pc \in {"promote", "complete"} => job.step = Validate
  /\ HasExporter(job) => m.exporter # "absent"
  /\ HasRule(job) => m.rule
  /\ job.pc = "complete" => job.new.enabled /\ job.new.contract = "active"

RollbackPcs == {"load", "remove", "unfirewall", "close", "abort"}

RollbackOK(job, o, s, m) ==
  /\ job.pc \in RollbackPcs
  /\ Calm => o.status \in RollbackFrom
  /\ job.pc # "load" => job.srv = s /\ job.new = s

(* The parts of a run and of a rollback. *)
Sorted(job) ==
  /\ job.kind = "run" => job.pc \in RunPcs \cup {"free", "done"}
  /\ job.kind = "rollback" => job.pc \in RollbackPcs \cup {"free", "done"}

JobOK(job, o, s, m) ==
  /\ job.kind = "run" => RunOK(job, o, s, m)
  /\ job.kind = "rollback" => RollbackOK(job, o, s, m)

(* A run that was told of a cancellation will read it, and has started one *)
(* script since at most.                                                   *)
Told(job, count, o) ==
  /\ count <= 1
  /\ job.pc = "free" => count = -1
  /\ Alive(job) /\ job.kind = "run" /\ count >= 0 =>
       o.cancelReq /\ (count = 1 => job.pc \in {"guard", "fail"})

(* A step of a job that goes on. *)
Moved(j, n) ==
  /\ n \in JobRecord /\ jobs' = [jobs EXCEPT ![j] = n]
  /\ Live(j) /\ n.kind = jobs[j].kind /\ Alive(n) /\ Sorted(n)
  /\ ob' \in ObRow /\ remote' \in Remote /\ server' = server /\ req' = req
  /\ sinceCancel' \in [Jobs -> -1 .. 2]
  /\ \A i \in Jobs : i # j => sinceCancel'[i] = sinceCancel[i]
  /\ ob'.cancelReq = ob.cancelReq
  /\ ob'.status \in {"completed", "pending"} => ob'.status = ob.status
  /\ JobOK(jobs[j], ob, server, remote) => JobOK(n, ob', server, remote')
  /\ Told(jobs[j], sinceCancel[j], ob) => Told(n, sinceCancel'[j], ob')

Prepared(s, m) ==
  s.enabled /\ s.contract = "active" /\ m.exporter # "absent" /\ m.rule

(* The last step of a job. *)
Stopped(j) ==
  /\ jobs' = [jobs EXCEPT ![j] = Ended(jobs[j])] /\ Live(j)
  /\ ob' \in ObRow /\ server' \in ServerRow
  /\ UNCHANGED <<remote, req, sinceCancel>>
  /\ ob'.cancelReq = ob.cancelReq
  /\ ob'.status = "pending" => ob.status = "pending"
  /\ JobOK(jobs[j], ob, server, remote) /\ ob.status # "completed" =>
       (ob'.status = "completed" => Prepared(server', remote))

LEMMA Types ==
  ASSUME TypeOK
  PROVE  /\ ob \in ObRow /\ server \in ServerRow /\ remote \in Remote
         /\ sinceCancel \in [Jobs -> -1 .. 2]
         /\ jobs \in [Jobs -> JobRecord] /\ req \in [Requests -> ReqRecord]
         /\ \A j \in Jobs : jobs[j] \in JobRecord /\ jobs[j].kind \in {"run", "rollback"}
         /\ \A j \in Jobs : jobs[j].step \in Steps /\ jobs[j].copy \in RowCopy
         /\ \A j \in Jobs : jobs[j].srv \in ServerRow /\ jobs[j].new \in ServerRow
<1>1. \A n \in JobRecord : /\ n.kind \in {"run", "rollback"} /\ n.step \in Steps
                           /\ n.copy \in RowCopy /\ n.srv \in ServerRow /\ n.new \in ServerRow
  BY DEF JobRecord
<1> QED
  BY <1>1 DEF TypeOK, ObRow, Remote

-----------------------------------------------------------------------------
(* Steps of a run.                                                         *)

(* A step that only reads. *)
LEMMA Reads ==
  ASSUME TypeOK, NEW j \in Jobs, Live(j), NEW n \in JobRecord, Goto(j, n),
         UNCHANGED <<ob, server, remote, req, sinceCancel>>,
         n.kind = jobs[j].kind, Alive(n), Sorted(n),
         JobOK(jobs[j], ob, server, remote) => JobOK(n, ob, server, remote),
         Told(jobs[j], sinceCancel[j], ob) => Told(n, sinceCancel[j], ob)
  PROVE  Moved(j, n)
BY Types DEF Moved, Goto

LEMMA LoadStep ==
  ASSUME TypeOK, NEW j \in Jobs, Load(j)
  PROVE  \E n \in JobRecord : Moved(j, n)
<1> DEFINE job == [jobs[j] EXCEPT !.srv = server, !.new = server]
           n == Transition(job)
<1>1. /\ job \in JobRecord /\ job.kind = jobs[j].kind /\ job.step = jobs[j].step
      /\ job.srv = server /\ job.idle = jobs[j].idle
  BY Types DEF JobRecord
<1>2. jobs[j].pc = "load" /\ jobs[j].kind = "run" /\ Goto(j, n)
      /\ UNCHANGED <<ob, server, remote, req, sinceCancel>>
  BY DEF Load
<1> HIDE DEF job
<1>3. /\ n \in JobRecord /\ n.kind = "run" /\ n.step = jobs[j].step /\ n.srv = server
      /\ n.idle = jobs[j].idle /\ n.pc \in {"commit", "fail"}
  BY <1>1, <1>2, Types, TransitionJob
<1> HIDE DEF n
<1>4. JobOK(jobs[j], ob, server, remote) => JobOK(n, ob, server, remote)
  BY <1>2, <1>3 DEF JobOK, RunOK, RunPcs, Going, HasExporter, HasRule, Install, Firewall
<1>5. Told(jobs[j], sinceCancel[j], ob) => Told(n, sinceCancel[j], ob)
  BY <1>2, <1>3 DEF Told, Alive
<1>6. Live(j) /\ Alive(n) /\ Sorted(n)
  BY <1>2, <1>3 DEF Live, Alive, Sorted, RunPcs, Going
<1> QED
  BY <1>2, <1>3, <1>4, <1>5, <1>6, Reads

LEMMA WorkStep ==
  ASSUME TypeOK, NEW j \in Jobs, Work(j), jobs[j].kind = "run"
  PROVE  \E n \in JobRecord : Moved(j, n)
<1>1. /\ jobs[j].pc = "work" /\ jobs[j].step # Firewall /\ jobs[j].step \in Steps
      /\ UNCHANGED <<ob, server, remote, req, sinceCancel>> /\ jobs[j] \in JobRecord
  BY Types DEF Work
<1>2. Live(j)
  BY <1>1 DEF Live
<1>3. ASSUME NEW job \in JobRecord, Goto(j, Transition(job)),
             job.kind = jobs[j].kind, job.step = jobs[j].step, job.srv = jobs[j].srv,
             job.new = jobs[j].new, job.idle = jobs[j].idle,
             job.step = Install /\ job.found => remote.exporter # "absent"
      PROVE  \E n \in JobRecord : Moved(j, n)
  <2> DEFINE n == Transition(job)
  <2>1. /\ n \in JobRecord /\ n.kind = "run" /\ n.step = jobs[j].step /\ n.srv = jobs[j].srv
        /\ n.idle = jobs[j].idle /\ n.pc \in {"commit", "fail"}
        /\ n.pc = "commit" => n.found = job.found
    BY <1>3, Types, TransitionJob
  <2>2. Goto(j, n)
    BY <1>3
  <2> HIDE DEF n
  <2>3. JobOK(jobs[j], ob, server, remote) => JobOK(n, ob, server, remote)
    BY <1>1, <1>3, <2>1
    DEF JobOK, RunOK, RunPcs, Going, HasExporter, HasRule, Install, Firewall, Steps
  <2>4. Told(jobs[j], sinceCancel[j], ob) => Told(n, sinceCancel[j], ob)
    BY <1>1, <2>1 DEF Told, Alive
  <2>5. Alive(n) /\ Sorted(n)
    BY <2>1 DEF Alive, Sorted, RunPcs, Going
  <2> QED
    BY <1>1, <1>2, <2>1, <2>2, <2>3, <2>4, <2>5, Reads
<1>4. CASE jobs[j].step \notin {Install, Verify} /\ Goto(j, Transition([jobs[j] EXCEPT !.ok = TRUE]))
  <2> DEFINE job == [jobs[j] EXCEPT !.ok = TRUE]
  <2>1. /\ job \in JobRecord /\ job.kind = jobs[j].kind /\ job.step = jobs[j].step
        /\ job.srv = jobs[j].srv /\ job.new = jobs[j].new /\ job.idle = jobs[j].idle
    BY <1>1 DEF JobRecord
  <2>2. Goto(j, Transition(job)) /\ job.step # Install
    BY <1>4, <2>1
  <2> HIDE DEF job
  <2> QED
    BY <1>3, <2>1, <2>2
<1>5. CASE /\ jobs[j].step \in {Install, Verify}
           /\ \E answer \in IF Faults THEN BOOLEAN ELSE {remote.exporter # "absent"} :
               /\ answer => remote.exporter # "absent"
               /\ Goto(j, Transition(
                     [jobs[j] EXCEPT !.ok = answer,
                        !.found = IF jobs[j].step = Install THEN answer ELSE @]))
  <2>1. PICK answer \in BOOLEAN :
               /\ answer => remote.exporter # "absent"
               /\ Goto(j, Transition(
                     [jobs[j] EXCEPT !.ok = answer,
                        !.found = IF jobs[j].step = Install THEN answer ELSE @]))
    BY <1>5
  <2> DEFINE found == IF jobs[j].step = Install THEN answer ELSE jobs[j].found
             job == [jobs[j] EXCEPT !.ok = answer, !.found = found]
  <2>2. found \in BOOLEAN
    BY <1>1, <2>1 DEF JobRecord
  <2>3. Goto(j, Transition(job))
    BY <2>1
  <2>4. jobs[j].step = Install /\ found => remote.exporter # "absent"
    BY <2>1
  <2> HIDE DEF found
  <2>5. /\ job \in JobRecord /\ job.kind = jobs[j].kind /\ job.step = jobs[j].step
        /\ job.srv = jobs[j].srv /\ job.new = jobs[j].new /\ job.idle = jobs[j].idle
        /\ job.found = found
    BY <1>1, <2>1, <2>2 DEF JobRecord
  <2> HIDE DEF job
  <2> QED
    BY <1>3, <2>3, <2>4, <2>5
<1>6. CASE Goto(j, Raised(jobs[j], "other"))
  <2> DEFINE n == Raised(jobs[j], "other")
  <2>1. /\ n \in JobRecord /\ n.kind = "run" /\ n.srv = jobs[j].srv
        /\ n.idle = jobs[j].idle /\ n.pc = "fail"
    BY <1>1, RaisedJob DEF Errors
  <2>2. Goto(j, n)
    BY <1>6
  <2> HIDE DEF n
  <2>3. JobOK(jobs[j], ob, server, remote) => JobOK(n, ob, server, remote)
    BY <1>1, <2>1 DEF JobOK, RunOK, RunPcs, Going, HasExporter, HasRule
  <2>4. Told(jobs[j], sinceCancel[j], ob) => Told(n, sinceCancel[j], ob)
    BY <1>1, <2>1 DEF Told, Alive
  <2>5. Alive(n) /\ Sorted(n)
    BY <2>1 DEF Alive, Sorted, RunPcs, Going
  <2> QED
    BY <1>1, <1>2, <2>1, <2>2, <2>3, <2>4, <2>5, Reads
<1> QED
  BY <1>4, <1>5, <1>6 DEF Work

(* A script starts: the count grows once a cancellation was answered. *)
LEMMA Touched ==
  ASSUME TypeOK, NEW j \in Jobs, TouchesHost(j), jobs[j].pc \in {"work", "install"},
         jobs[j].kind = "run", NEW n \in JobRecord, n.kind = "run", Alive(n),
         ob.cancelReq => n.pc \in {"guard", "fail"}
  PROVE  /\ sinceCancel' \in [Jobs -> -1 .. 2]
         /\ \A i \in Jobs : i # j => sinceCancel'[i] = sinceCancel[i]
         /\ Told(jobs[j], sinceCancel[j], ob) => Told(n, sinceCancel'[j], ob)
<1>1. sinceCancel \in [Jobs -> -1 .. 2] /\ sinceCancel[j] \in -1 .. 2
  BY Types
<1>2. /\ sinceCancel'[j] = IF sinceCancel[j] \in {0, 1} THEN sinceCancel[j] + 1
                           ELSE sinceCancel[j]
      /\ sinceCancel' \in [Jobs -> -1 .. 2]
      /\ \A i \in Jobs : i # j => sinceCancel'[i] = sinceCancel[i]
  BY <1>1 DEF TouchesHost
<1>3. ASSUME Told(jobs[j], sinceCancel[j], ob) PROVE Told(n, sinceCancel'[j], ob)
  <2>1. Alive(jobs[j]) /\ jobs[j].pc \notin {"guard", "fail"}
    BY DEF Alive
  <2>2. sinceCancel[j] \in {-1, 0} /\ (sinceCancel[j] = 0 => ob.cancelReq)
    BY <1>1, <1>3, <2>1 DEF Told
  <2> QED
    BY <1>2, <2>2 DEF Told, Alive
<1> QED
  BY <1>2, <1>3

(* A run that raises, whatever its last script left on the host. *)
LEMMA RaisedStep ==
  ASSUME TypeOK, NEW j \in Jobs, Goto(j, Raised(jobs[j], "other")),
         jobs[j].kind = "run", Live(j), jobs[j].pc # "load",
         UNCHANGED <<ob, server, req>>, remote' \in Remote,
         sinceCancel' = sinceCancel
         \/ (TouchesHost(j) /\ jobs[j].pc \in {"work", "install"})
  PROVE  \E n \in JobRecord : Moved(j, n)
<1> DEFINE n == Raised(jobs[j], "other")
<1>1. /\ n \in JobRecord /\ n.kind = "run" /\ n.srv = jobs[j].srv
      /\ n.idle = jobs[j].idle /\ n.pc = "fail"
  BY Types, RaisedJob DEF Errors
<1>2. jobs' = [jobs EXCEPT ![j] = n]
  BY DEF Goto
<1> HIDE DEF n
<1>3. JobOK(jobs[j], ob, server, remote) => JobOK(n, ob', server, remote')
  BY <1>1 DEF JobOK, RunOK, RunPcs, Going, HasExporter, HasRule
<1>4. Alive(n) /\ Alive(jobs[j]) /\ Sorted(n)
  BY <1>1 DEF Alive, Live, Sorted, RunPcs
<1>5. /\ sinceCancel' \in [Jobs -> -1 .. 2]
      /\ \A i \in Jobs : i # j => sinceCancel'[i] = sinceCancel[i]
      /\ Told(jobs[j], sinceCancel[j], ob) => Told(n, sinceCancel'[j], ob)
  <2>1. CASE sinceCancel' = sinceCancel
    BY <1>1, <1>4, <2>1, Types DEF Told
  <2>2. CASE TouchesHost(j) /\ jobs[j].pc \in {"work", "install"}
    BY <1>1, <1>4, <2>2, Touched
  <2> QED
    BY <2>1, <2>2
<1> QED
  BY <1>1, <1>2, <1>3, <1>4, <1>5, Types DEF Moved

LEMMA ConfigureFirewallStep ==
  ASSUME TypeOK, NEW j \in Jobs, ConfigureFirewall(j), jobs[j].kind = "run"
  PROVE  \E n \in JobRecord : Moved(j, n)
<1>1. /\ jobs[j].pc = "work" /\ jobs[j].step = Firewall /\ jobs[j] \in JobRecord
      /\ UNCHANGED <<ob, server, req>> /\ TouchesHost(j) /\ Live(j)
  BY Types DEF ConfigureFirewall, Live
<1>2. remote' \in Remote /\ remote'.exporter = remote.exporter
  <2>1. \A rule \in BOOLEAN : LET m == [remote EXCEPT !.rule = rule]
                              IN  m \in Remote /\ m.exporter = remote.exporter
    BY Types DEF Remote
  <2>2. remote.rule \in BOOLEAN
    BY Types DEF Remote
  <2> QED
    BY <2>1, <2>2 DEF ConfigureFirewall
<1>3. ASSUME NEW ok \in BOOLEAN, ok => remote'.rule,
             Goto(j, Transition([jobs[j] EXCEPT !.ok = ok]))
      PROVE  \E n \in JobRecord : Moved(j, n)
  <2> DEFINE job == [jobs[j] EXCEPT !.ok = ok]
             n == Transition(job)
  <2>1. /\ job \in JobRecord /\ job.kind = jobs[j].kind /\ job.step = jobs[j].step
        /\ job.srv = jobs[j].srv /\ job.idle = jobs[j].idle /\ job.ok = ok
    BY <1>1 DEF JobRecord
  <2>2. jobs' = [jobs EXCEPT ![j] = n]
    BY <1>3 DEF Goto
  <2> HIDE DEF job
  <2>3. /\ n \in JobRecord /\ n.kind = "run" /\ n.step = Firewall /\ n.srv = jobs[j].srv
        /\ n.idle = jobs[j].idle /\ n.pc \in {"commit", "fail"}
        /\ ob.cancelReq => n.pc = "fail"
        /\ n.pc = "commit" => n.ok = ok
    BY <1>1, <2>1, Types, TransitionJob
  <2> HIDE DEF n
  <2>4. Alive(n) /\ Sorted(n)
    BY <2>3 DEF Alive, Sorted, RunPcs, Going
  <2>5. JobOK(jobs[j], ob, server, remote) => JobOK(n, ob', server, remote')
    BY <1>1, <1>2, <1>3, <2>3
    DEF JobOK, RunOK, RunPcs, Going, HasExporter, HasRule, Install, Firewall
  <2>6. /\ sinceCancel' \in [Jobs -> -1 .. 2]
        /\ \A i \in Jobs : i # j => sinceCancel'[i] = sinceCancel[i]
        /\ Told(jobs[j], sinceCancel[j], ob) => Told(n, sinceCancel'[j], ob)
    BY <1>1, <2>3, <2>4, Touched
  <2> QED
    BY <1>1, <1>2, <2>2, <2>3, <2>4, <2>5, <2>6, Types DEF Moved
<1>4. CASE /\ remote' = [remote EXCEPT !.rule = TRUE]
           /\ Goto(j, Transition([jobs[j] EXCEPT !.ok = TRUE]))
  BY <1>3, <1>4, Types DEF Remote
<1>5. CASE Goto(j, Transition([jobs[j] EXCEPT !.ok = FALSE]))
  BY <1>3, <1>5
<1>6. CASE Goto(j, Raised(jobs[j], "other"))
  BY <1>1, <1>2, <1>6, RaisedStep
<1> QED
  BY <1>4, <1>5, <1>6 DEF ConfigureFirewall

LEMMA InstallExporterStep ==
  ASSUME TypeOK, NEW j \in Jobs, InstallExporter(j), jobs[j].kind = "run"
  PROVE  \E n \in JobRecord : Moved(j, n)
<1>1. /\ jobs[j].pc = "install" /\ jobs[j] \in JobRecord
      /\ UNCHANGED <<ob, server, req>> /\ TouchesHost(j) /\ Live(j)
  BY Types DEF InstallExporter, Live
<1>2. \A e \in Exporters : LET m == [remote EXCEPT !.exporter = e]
                           IN  m \in Remote /\ m.exporter = e /\ m.rule = remote.rule
  BY Types DEF Remote
<1>3. CASE /\ remote' = [remote EXCEPT !.exporter = "target"]
           /\ Goto(j, [jobs[j] EXCEPT !.pc = "guard", !.installed = TRUE])
  <2> DEFINE n == [jobs[j] EXCEPT !.pc = "guard", !.installed = TRUE]
  <2>1. /\ n \in JobRecord /\ n.kind = "run" /\ n.step = jobs[j].step
        /\ n.srv = jobs[j].srv /\ n.idle = jobs[j].idle /\ n.pc = "guard"
    BY <1>1 DEF JobRecord, JobPcs
  <2>2. jobs' = [jobs EXCEPT ![j] = n]
    BY <1>3 DEF Goto
  <2>3. remote' \in Remote /\ remote'.exporter = "target"
    BY <1>2, <1>3 DEF Exporters
  <2> HIDE DEF n
  <2>4. JobOK(jobs[j], ob, server, remote) => JobOK(n, ob', server, remote')
    BY <1>1, <2>1, <2>3 DEF JobOK, RunOK, RunPcs, Going, HasExporter, HasRule
  <2>5. Alive(n) /\ Sorted(n)
    BY <2>1 DEF Alive, Sorted, RunPcs, Going
  <2>6. /\ sinceCancel' \in [Jobs -> -1 .. 2]
        /\ \A i \in Jobs : i # j => sinceCancel'[i] = sinceCancel[i]
        /\ Told(jobs[j], sinceCancel[j], ob) => Told(n, sinceCancel'[j], ob)
    BY <1>1, <2>1, <2>5, Touched
  <2> QED
    BY <1>1, <2>1, <2>2, <2>3, <2>4, <2>5, <2>6, Types DEF Moved
<1>4. CASE /\ \E e \in Exporters : remote' = [remote EXCEPT !.exporter = e]
           /\ Goto(j, Raised(jobs[j], "other"))
  <2>1. remote' \in Remote
    BY <1>2, <1>4
  <2> QED
    BY <1>1, <1>4, <2>1, RaisedStep
<1> QED
  BY <1>3, <1>4 DEF InstallExporter

LEMMA UpdateExporterStep ==
  ASSUME TypeOK, NEW j \in Jobs, UpdateExporter(j), jobs[j].kind = "run"
  PROVE  \E n \in JobRecord : Moved(j, n)
<1>1. /\ jobs[j].pc = "install" /\ jobs[j].found /\ jobs[j] \in JobRecord
      /\ UNCHANGED <<ob, server, remote, req, sinceCancel>> /\ Live(j)
  BY Types DEF UpdateExporter, Live
<1>2. CASE Goto(j, [jobs[j] EXCEPT !.pc = "guard"])
  <2> DEFINE n == [jobs[j] EXCEPT !.pc = "guard"]
  <2>0. "guard" \in JobPcs
    BY DEF JobPcs
  <2>1. /\ n \in JobRecord /\ n.kind = "run" /\ n.step = jobs[j].step
        /\ n.srv = jobs[j].srv /\ n.idle = jobs[j].idle /\ n.pc = "guard"
    <3>1. jobs[j] \in JobRecord /\ jobs[j].kind = "run"
      BY <1>1
    <3> QED
      BY <2>0, <3>1, MovedJob
  <2>2. Goto(j, n)
    BY <1>2
  <2> HIDE DEF n
  <2>3. JobOK(jobs[j], ob, server, remote) => JobOK(n, ob, server, remote)
    BY <1>1, <2>1 DEF JobOK, RunOK, RunPcs, Going, HasExporter, HasRule
  <2>4. Told(jobs[j], sinceCancel[j], ob) => Told(n, sinceCancel[j], ob)
    BY <1>1, <2>1 DEF Told, Alive
  <2>5. Alive(n) /\ Sorted(n)
    BY <2>1 DEF Alive, Sorted, RunPcs, Going
  <2> QED
    BY <1>1, <2>1, <2>2, <2>3, <2>4, <2>5, Reads
<1>3. CASE Goto(j, Raised(jobs[j], "other"))
  BY <1>1, <1>3, Types, RaisedStep
<1> QED
  BY <1>2, <1>3 DEF UpdateExporter

LEMMA GuardStep ==
  ASSUME TypeOK, NEW j \in Jobs, Guard(j), jobs[j].kind = "run"
  PROVE  \E n \in JobRecord : Moved(j, n)
<1> DEFINE job == [jobs[j] EXCEPT !.step = Firewall]
           n == CheckCancel(job, "work")
<1>1. /\ jobs[j].pc = "guard" /\ jobs[j] \in JobRecord /\ Goto(j, n)
      /\ UNCHANGED <<ob, server, remote, req, sinceCancel>> /\ Live(j)
  BY Types DEF Guard, Live
<1>2. /\ job \in JobRecord /\ job.kind = "run" /\ job.step = Firewall
      /\ job.srv = jobs[j].srv /\ job.idle = jobs[j].idle
  BY <1>1 DEF JobRecord, Steps, Firewall
<1> HIDE DEF job
<1>3. /\ n \in JobRecord /\ n.kind = "run" /\ n.step = Firewall /\ n.srv = jobs[j].srv
      /\ n.idle = jobs[j].idle /\ n.pc \in {"work", "fail"}
      /\ ob.cancelReq => n.pc = "fail"
  BY <1>2, Types, CheckedJob DEF JobPcs
<1> HIDE DEF n
<1>4. JobOK(jobs[j], ob, server, remote) => JobOK(n, ob, server, remote)
  BY <1>1, <1>3 DEF JobOK, RunOK, RunPcs, Going, HasExporter, HasRule, Install, Firewall
<1>5. Told(jobs[j], sinceCancel[j], ob) => Told(n, sinceCancel[j], ob)
  BY <1>1, <1>3 DEF Told, Alive
<1>6. Alive(n) /\ Sorted(n)
  BY <1>3 DEF Alive, Sorted, RunPcs, Going
<1> QED
  BY <1>1, <1>3, <1>4, <1>5, <1>6, Reads

LEMMA PromoteStep ==
  ASSUME TypeOK, NEW j \in Jobs, Promote(j), jobs[j].kind = "run"
  PROVE  \E n \in JobRecord : Moved(j, n)
<1> DEFINE enabled == [jobs[j] EXCEPT !.new.enabled = TRUE]
           active == [enabled EXCEPT !.new.contract = "active"]
<1>1. /\ jobs[j].pc = "promote" /\ jobs[j] \in JobRecord /\ jobs[j].new \in ServerRow
      /\ UNCHANGED <<ob, server, remote, req, sinceCancel>> /\ Live(j)
  BY Types DEF Promote, Live
<1>2. /\ enabled \in JobRecord /\ enabled.kind = "run" /\ enabled.step = jobs[j].step
      /\ enabled.srv = jobs[j].srv /\ enabled.idle = jobs[j].idle
      /\ enabled.new \in ServerRow /\ enabled.new.enabled
  <2>1. [jobs[j].new EXCEPT !.enabled = TRUE] \in ServerRow
    BY <1>1 DEF ServerRow
  <2>2. [jobs[j].new EXCEPT !.enabled = TRUE].enabled
    BY <1>1 DEF ServerRow
  <2> QED
    BY <1>1, <2>1, <2>2 DEF JobRecord
<1>3. Goto(j, CheckCancel(active, "complete")) \/ Goto(j, Raised(enabled, "other"))
  BY DEF Promote
<1> HIDE DEF enabled
<1>4. /\ active \in JobRecord /\ active.kind = "run" /\ active.step = jobs[j].step
      /\ active.srv = jobs[j].srv /\ active.idle = jobs[j].idle
      /\ active.new.enabled /\ active.new.contract = "active"
  <2>1. LET s == [enabled.new EXCEPT !.contract = "active"]
        IN  s \in ServerRow /\ s.enabled /\ s.contract = "active"
    BY <1>2 DEF ServerRow
  <2> QED
    BY <1>2, <2>1 DEF JobRecord
<1> HIDE DEF active
<1>5. ASSUME NEW n \in JobRecord, Goto(j, n), n.kind = "run", n.step = jobs[j].step,
             n.srv = jobs[j].srv, n.idle = jobs[j].idle, n.pc \in {"complete", "fail"},
             n.pc = "complete" => n.new.enabled /\ n.new.contract = "active"
      PROVE  \E m \in JobRecord : Moved(j, m)
  <2>1. JobOK(jobs[j], ob, server, remote) => JobOK(n, ob, server, remote)
    BY <1>1, <1>5
    DEF JobOK, RunOK, RunPcs, Going, HasExporter, HasRule, Install, Firewall, Validate
  <2>2. Told(jobs[j], sinceCancel[j], ob) => Told(n, sinceCancel[j], ob)
    BY <1>1, <1>5 DEF Told, Alive
  <2>3. Alive(n) /\ Sorted(n)
    BY <1>5 DEF Alive, Sorted, RunPcs, Going
  <2> QED
    BY <1>1, <1>5, <2>1, <2>2, <2>3, Reads
<1>6. CASE Goto(j, CheckCancel(active, "complete"))
  <2> DEFINE n == CheckCancel(active, "complete")
  <2>1. /\ n \in JobRecord /\ n.kind = "run" /\ n.step = jobs[j].step
        /\ n.srv = jobs[j].srv /\ n.idle = jobs[j].idle /\ n.new = active.new
        /\ n.pc \in {"complete", "fail"}
    BY <1>4, Types, CheckedJob DEF JobPcs
  <2>2. Goto(j, n)
    BY <1>6
  <2> HIDE DEF n
  <2> QED
    BY <1>4, <1>5, <2>1, <2>2
<1>7. CASE Goto(j, Raised(enabled, "other"))
  <2> DEFINE n == Raised(enabled, "other")
  <2>1. /\ n \in JobRecord /\ n.kind = "run" /\ n.step = jobs[j].step
        /\ n.srv = jobs[j].srv /\ n.idle = jobs[j].idle /\ n.pc = "fail"
    BY <1>2, RaisedJob DEF Errors
  <2>2. Goto(j, n)
    BY <1>7
  <2> HIDE DEF n
  <2> QED
    BY <1>5, <2>1, <2>2
<1> QED
  BY <1>3, <1>6, <1>7

(* The write half of a transition. *)
LEMMA CommitStep ==
  ASSUME TypeOK, NEW j \in Jobs, Commit(j), jobs[j].kind = "run"
  PROVE  \E n \in JobRecord : Moved(j, n)
<1> DEFINE new == [jobs[j].copy EXCEPT !.status = Flow[jobs[j].step]]
           kept == [jobs[j] EXCEPT !.copy = new, !.idle = 0]
<1>1. /\ jobs[j].pc = "commit" /\ jobs[j] \in JobRecord /\ jobs[j].copy \in RowCopy
      /\ jobs[j].step \in Steps /\ CommitRow(jobs[j].copy, new)
      /\ UNCHANGED <<server, remote, req, sinceCancel>> /\ Live(j)
  BY Types DEF Commit, Live
<1>2. /\ new \in RowCopy /\ new.cancelReq = jobs[j].copy.cancelReq
      /\ new.status \notin {"completed", "pending"}
  BY <1>1, StatusTypes DEF RowCopy, Terminal
<1>3. /\ ob' \in ObRow /\ ob'.age = 0 /\ ob'.cancelReq = ob.cancelReq
      /\ ob'.status \in {"completed", "pending"} => ob'.status = ob.status
  <2> HIDE DEF new
  <2> QED
    BY <1>1, <1>2, Types, CommittedRow
<1>4. /\ kept \in JobRecord /\ kept.kind = "run" /\ kept.step = jobs[j].step
      /\ kept.srv = jobs[j].srv /\ kept.idle = 0 /\ kept.ok = jobs[j].ok
      /\ kept.found = jobs[j].found
  <2>1. 0 \in 0 .. MaxGap
    BY OnboardingAssumption
  <2> HIDE DEF new
  <2> QED
    BY <1>1, <1>2, <2>1 DEF JobRecord
<1>5. Goto(j, CASE StepFailed(jobs[j]) -> Raised(kept, "other")
                [] jobs[j].step = Install -> [kept EXCEPT !.pc = "install"]
                [] jobs[j].step = Validate -> [kept EXCEPT !.pc = "promote"]
                [] OTHER -> [kept EXCEPT !.pc = "work", !.step = @ + 1])
  BY DEF Commit
<1> HIDE DEF kept, new
<1>6. ASSUME NEW n \in JobRecord, Goto(j, n), n.kind = "run", n.srv = jobs[j].srv,
             n.idle = 0,
             \/ n.pc = "fail"
             \/ n.pc = "install" /\ n.step = Install /\ jobs[j].step = Install
                /\ n.found = jobs[j].found
             \/ n.pc = "promote" /\ n.step = Validate /\ jobs[j].step = Validate
             \/ /\ n.pc = "work" /\ n.step = jobs[j].step + 1
                /\ jobs[j].step # Install /\ (jobs[j].step = Firewall => jobs[j].ok)
      PROVE  \E m \in JobRecord : Moved(j, m)
  <2>1. Alive(n) /\ Sorted(n)
    BY <1>6 DEF Alive, Sorted, RunPcs, Going
  <2>2. JobOK(jobs[j], ob, server, remote) => JobOK(n, ob', server, remote')
    BY <1>1, <1>3, <1>6
    DEF JobOK, RunOK, RunPcs, Going, HasExporter, HasRule, Install, Firewall, Validate, Steps
  <2>3. Told(jobs[j], sinceCancel[j], ob) => Told(n, sinceCancel'[j], ob')
    BY <1>1, <1>3, <1>6 DEF Told, Alive
  <2>4. jobs' = [jobs EXCEPT ![j] = n]
    BY <1>6 DEF Goto
  <2> QED
    BY <1>1, <1>3, <1>6, <2>1, <2>2, <2>3, <2>4, Types DEF Moved
<1>7. CASE StepFailed(jobs[j])
  <2>1. Goto(j, Raised(kept, "other"))
    <3>1. jobs[j].step # Install /\ jobs[j].step # Validate
      BY <1>7 DEF StepFailed, Install, Firewall, Verify, Validate
    <3> QED
      BY <1>5, <1>7, <3>1, Zenon
  <2> DEFINE n == Raised(kept, "other")
  <2>2. /\ n \in JobRecord /\ n.kind = "run" /\ n.srv = jobs[j].srv /\ n.idle = 0
        /\ n.pc = "fail"
    BY <1>4, RaisedJob DEF Errors
  <2> HIDE DEF n
  <2> QED
    BY <1>6, <2>1, <2>2 DEF n
<1>8. CASE ~StepFailed(jobs[j]) /\ jobs[j].step = Install
  <2>1. Goto(j, [kept EXCEPT !.pc = "install"])
    <3>1. jobs[j].step # Validate
      BY <1>8 DEF Install, Validate
    <3> QED
      BY <1>5, <1>8, <3>1, Zenon
  <2> DEFINE n == [kept EXCEPT !.pc = "install"]
  <2>2. /\ n \in JobRecord /\ n.kind = "run" /\ n.srv = jobs[j].srv /\ n.idle = 0
        /\ n.pc = "install" /\ n.step = Install /\ n.found = jobs[j].found
    <3>1. "install" \in JobPcs
      BY DEF JobPcs
    <3>2. /\ n \in JobRecord /\ n.pc = "install" /\ n.kind = kept.kind
          /\ n.step = kept.step /\ n.srv = kept.srv /\ n.idle = kept.idle
          /\ n.found = kept.found
      BY <1>4, <3>1, MovedJob
    <3> QED
      BY <1>4, <1>8, <3>2
  <2> HIDE DEF n
  <2> QED
    BY <1>6, <1>8, <2>1, <2>2 DEF n
<1>9. CASE ~StepFailed(jobs[j]) /\ jobs[j].step = Validate
  <2>1. Goto(j, [kept EXCEPT !.pc = "promote"])
    <3>1. jobs[j].step # Install
      BY <1>9 DEF Install, Validate
    <3> QED
      BY <1>5, <1>9, <3>1, Zenon
  <2> DEFINE n == [kept EXCEPT !.pc = "promote"]
  <2>2. /\ n \in JobRecord /\ n.kind = "run" /\ n.srv = jobs[j].srv /\ n.idle = 0
        /\ n.pc = "promote" /\ n.step = Validate
    BY <1>4, <1>9, MovedJob DEF JobPcs
  <2> HIDE DEF n
  <2> QED
    BY <1>6, <1>9, <2>1, <2>2 DEF n
<1>10. CASE ~StepFailed(jobs[j]) /\ jobs[j].step \notin {Install, Validate}
  <2>1. Goto(j, [kept EXCEPT !.pc = "work", !.step = @ + 1])
    <3>1. jobs[j].step # Install /\ jobs[j].step # Validate
      BY <1>10
    <3> QED
      BY <1>5, <1>10, <3>1, Zenon
  <2> DEFINE n == [kept EXCEPT !.pc = "work", !.step = @ + 1]
  <2>2. kept.step + 1 \in Steps
    BY <1>1, <1>4, <1>10 DEF Steps, Validate
  <2>3. /\ n \in JobRecord /\ n.kind = "run" /\ n.srv = jobs[j].srv /\ n.idle = 0
        /\ n.pc = "work" /\ n.step = jobs[j].step + 1
    BY <1>4, <2>2 DEF JobRecord, JobPcs
  <2>4. jobs[j].step = Firewall => jobs[j].ok
    BY <1>10 DEF StepFailed
  <2> HIDE DEF n
  <2> QED
    BY <1>6, <1>10, <2>1, <2>3, <2>4 DEF n
<1> QED
  BY <1>7, <1>8, <1>9, <1>10

LEMMA CompleteStep ==
  ASSUME TypeOK, NEW j \in Jobs, Complete(j), jobs[j].kind = "run"
  PROVE  Stopped(j)
<1> DEFINE new == [jobs[j].copy EXCEPT !.status = "completed"]
<1>1. /\ jobs[j].pc = "complete" /\ jobs[j].copy \in RowCopy
      /\ CommitRow(jobs[j].copy, new) /\ Goto(j, Ended(jobs[j]))
      /\ server' = Merge(server, jobs[j].srv, jobs[j].new)
      /\ UNCHANGED <<remote, req, sinceCancel>> /\ Live(j)
  BY Types DEF Complete, Live
<1>2. new \in RowCopy /\ new.cancelReq = jobs[j].copy.cancelReq /\ new.status # "pending"
  BY <1>1, StatusTypes DEF RowCopy, Terminal
<1> HIDE DEF new
<1>3. /\ ob' \in ObRow /\ ob'.cancelReq = ob.cancelReq
      /\ ob'.status = "pending" => ob.status = "pending"
  BY <1>1, <1>2, Types, CommittedRow
<1>4. server' \in ServerRow /\ (jobs[j].srv = server => server' = jobs[j].new)
  BY <1>1, Types, CommittedServer
<1>5. ASSUME JobOK(jobs[j], ob, server, remote)
      PROVE  Prepared(server', remote)
  <2>1. /\ RunOK(jobs[j], ob, server, remote) /\ jobs[j].step = Validate
        /\ jobs[j].srv = server
    BY <1>1, <1>5 DEF JobOK, RunOK
  <2>2. HasExporter(jobs[j]) /\ HasRule(jobs[j])
    BY <1>1, <2>1 DEF HasExporter, HasRule, Going, Validate, Install, Firewall
  <2> QED
    BY <1>1, <1>4, <2>1, <2>2 DEF RunOK, Prepared
<1> QED
  BY <1>1, <1>3, <1>4, <1>5 DEF Stopped, Goto

LEMMA FailStep ==
  ASSUME TypeOK, NEW j \in Jobs, Fail(j)
  PROVE  Stopped(j)
<1> DEFINE new == [jobs[j].copy EXCEPT !.status = FailVerdict(jobs[j]), !.err = jobs[j].code]
<1>1. /\ jobs[j].pc = "fail" /\ jobs[j].copy \in RowCopy /\ Goto(j, Ended(jobs[j]))
      /\ UNCHANGED <<remote, req, sinceCancel>> /\ Live(j) /\ jobs[j].code \in Errors
  BY Types DEF Fail, Live, JobRecord
<1>2. CASE ob' = ob /\ server' = server
  BY <1>1, <1>2, Types DEF Stopped, Goto
<1>3. CASE CommitRow(jobs[j].copy, new) /\ server' = Merge(server, jobs[j].srv, jobs[j].new)
  <2>1. /\ new \in RowCopy /\ new.cancelReq = jobs[j].copy.cancelReq
        /\ new.status \notin {"completed", "pending"}
    <3>1. FailVerdict(jobs[j]) \in Statuses \ {"completed", "pending"}
      BY StatusTypes DEF FailVerdict, Terminal
    <3> QED
      BY <1>1, <3>1 DEF RowCopy
  <2> HIDE DEF new
  <2>2. /\ ob' \in ObRow /\ ob'.cancelReq = ob.cancelReq
        /\ ob'.status \in {"completed", "pending"} => ob'.status = ob.status
    BY <1>1, <1>3, <2>1, Types, CommittedRow
  <2>3. server' \in ServerRow
    BY <1>3, Types, CommittedServer
  <2> QED
    BY <1>1, <2>2, <2>3 DEF Stopped, Goto
<1> QED
  BY <1>2, <1>3 DEF Fail

-----------------------------------------------------------------------------
(* Steps of a rollback.                                                    *)

LEMMA RollbackMoves ==
  ASSUME TypeOK, NEW j \in Jobs, Live(j), jobs[j].kind = "rollback",
         NEW n \in JobRecord, Goto(j, n), n.kind = "rollback", n.pc \in RollbackPcs,
         UNCHANGED <<ob, server, req, sinceCancel>>, remote' \in Remote,
         RollbackOK(jobs[j], ob, server, remote) => RollbackOK(n, ob, server, remote')
  PROVE  \E m \in JobRecord : Moved(j, m)
<1>1. JobOK(jobs[j], ob, server, remote) => JobOK(n, ob', server, remote')
  BY DEF JobOK
<1>2. Alive(n) /\ Sorted(n) /\ Alive(jobs[j])
  BY DEF Alive, Sorted, RollbackPcs, Live
<1>3. Told(jobs[j], sinceCancel[j], ob) => Told(n, sinceCancel'[j], ob')
  BY <1>2 DEF Told, Alive
<1> QED
  BY <1>1, <1>2, <1>3, Types DEF Moved, Goto

LEMMA LoadRollbackStep ==
  ASSUME TypeOK, NEW j \in Jobs, LoadRollback(j)
  PROVE  \E n \in JobRecord : Moved(j, n)
<1> DEFINE job == [jobs[j] EXCEPT !.copy = Row, !.srv = server, !.new = server]
<1>1. /\ job \in JobRecord /\ job.kind = jobs[j].kind /\ job.pc = jobs[j].pc
      /\ job.srv = server /\ job.new = server
  BY Types, RowType DEF JobRecord
<1>2. /\ job.pc = "load" /\ job.kind = "rollback"
      /\ UNCHANGED <<ob, server, remote, req, sinceCancel>>
      /\ Goto(j, [job EXCEPT !.pc = "remove"]) \/ Goto(j, [job EXCEPT !.pc = "abort"])
  BY DEF LoadRollback
<1> HIDE DEF job
<1>3. ASSUME NEW pc \in {"remove", "abort"}, Goto(j, [job EXCEPT !.pc = pc])
      PROVE  \E n \in JobRecord : Moved(j, n)
  <2> DEFINE n == [job EXCEPT !.pc = pc]
  <2>1. pc \in JobPcs
    BY DEF JobPcs
  <2>2. /\ n \in JobRecord /\ n.pc = pc /\ n.kind = job.kind /\ n.srv = job.srv
        /\ n.new = job.new
    BY <1>1, <2>1, MovedJob
  <2>3. Goto(j, n)
    BY <1>3
  <2> HIDE DEF n
  <2>4. RollbackOK(jobs[j], ob, server, remote) => RollbackOK(n, ob, server, remote')
    BY <1>1, <1>2, <2>2 DEF RollbackOK, RollbackPcs
  <2>5. Live(j) /\ remote' \in Remote /\ jobs[j].kind = "rollback"
    BY <1>1, <1>2, Types DEF Live
  <2> QED
    BY <1>1, <1>2, <2>2, <2>3, <2>4, <2>5, RollbackMoves DEF RollbackPcs
<1> QED
  BY <1>2, <1>3

LEMMA RemoveExporterStep ==
  ASSUME TypeOK, NEW j \in Jobs, RemoveExporter(j), jobs[j].kind = "rollback"
  PROVE  \E n \in JobRecord : Moved(j, n)
<1>1. /\ jobs[j].pc = "remove" /\ jobs[j] \in JobRecord /\ Live(j)
      /\ UNCHANGED <<ob, server, req, sinceCancel>>
  BY Types DEF RemoveExporter, Live
<1>2. \A e \in Exporters : LET m == [remote EXCEPT !.exporter = e]
                           IN  m \in Remote /\ m.exporter = e
  BY Types DEF Remote
<1>3. remote' \in Remote
  <2>1. "absent" \in Exporters /\ Leftovers \subseteq Exporters
    BY Types DEF Exporters, Remote, Leftovers
  <2> QED
    BY <1>2, <2>1 DEF RemoveExporter
<1>4. ASSUME NEW ok \in BOOLEAN,
             Goto(j, [jobs[j] EXCEPT !.pc = "unfirewall", !.ok = ok])
      PROVE  \E n \in JobRecord : Moved(j, n)
  <2> DEFINE n == [jobs[j] EXCEPT !.pc = "unfirewall", !.ok = ok]
  <2>1. /\ n \in JobRecord /\ n.kind = "rollback" /\ n.pc = "unfirewall"
        /\ n.srv = jobs[j].srv /\ n.new = jobs[j].new /\ n.ok = ok
    BY <1>1 DEF JobRecord, JobPcs
  <2>2. Goto(j, n)
    BY <1>4
  <2> HIDE DEF n
  <2>3. RollbackOK(jobs[j], ob, server, remote) => RollbackOK(n, ob, server, remote')
    BY <1>1, <1>4, <2>1 DEF RollbackOK, RollbackPcs
  <2> QED
    BY <1>1, <1>3, <2>1, <2>2, <2>3, RollbackMoves DEF RollbackPcs
<1>5. CASE Goto(j, [jobs[j] EXCEPT !.pc = "abort"])
  <2> DEFINE n == [jobs[j] EXCEPT !.pc = "abort"]
  <2>1. /\ n \in JobRecord /\ n.kind = "rollback" /\ n.pc = "abort"
        /\ n.srv = jobs[j].srv /\ n.new = jobs[j].new
    BY <1>1 DEF JobRecord, JobPcs
  <2>2. Goto(j, n)
    BY <1>5
  <2> HIDE DEF n
  <2>3. RollbackOK(jobs[j], ob, server, remote) => RollbackOK(n, ob, server, remote')
    BY <1>1, <2>1 DEF RollbackOK, RollbackPcs
  <2> QED
    BY <1>1, <1>3, <2>1, <2>2, <2>3, RollbackMoves DEF RollbackPcs
<1>6. CASE Goto(j, [jobs[j] EXCEPT !.pc = "unfirewall", !.ok = TRUE])
  BY <1>4, <1>6
<1>7. CASE Goto(j, [jobs[j] EXCEPT !.pc = "unfirewall", !.ok = FALSE])
  BY <1>4, <1>7
<1> QED
  BY <1>5, <1>6, <1>7 DEF RemoveExporter

LEMMA RemoveFirewallStep ==
  ASSUME TypeOK, NEW j \in Jobs, RemoveFirewall(j), jobs[j].kind = "rollback"
  PROVE  \E n \in JobRecord : Moved(j, n)
<1>1. /\ jobs[j].pc = "unfirewall" /\ jobs[j] \in JobRecord /\ Live(j)
      /\ UNCHANGED <<ob, server, req, sinceCancel>> /\ remote.rule \in BOOLEAN
  BY Types DEF RemoveFirewall, Live, Remote
<1>2. \A b \in BOOLEAN : LET m == [remote EXCEPT !.rule = b]
                         IN  m \in Remote /\ m.exporter = remote.exporter /\ m.rule = b
  BY Types DEF Remote
<1>3. remote' \in Remote /\ remote'.exporter = remote.exporter
  BY <1>1, <1>2 DEF RemoveFirewall
<1>4. ASSUME NEW n \in JobRecord, Goto(j, n), n.kind = "rollback", n.pc \in {"close", "abort"},
             n.srv = jobs[j].srv, n.new = jobs[j].new
      PROVE  \E m \in JobRecord : Moved(j, m)
  <2>1. RollbackOK(jobs[j], ob, server, remote) => RollbackOK(n, ob, server, remote')
    BY <1>1, <1>3, <1>4 DEF RollbackOK, RollbackPcs
  <2> QED
    BY <1>1, <1>3, <1>4, <2>1, RollbackMoves DEF RollbackPcs
<1>5. CASE Goto(j, [jobs[j] EXCEPT !.pc = "close"])
  <2> DEFINE n == [jobs[j] EXCEPT !.pc = "close"]
  <2>1. /\ n \in JobRecord /\ n.kind = "rollback" /\ n.pc = "close"
        /\ n.srv = jobs[j].srv /\ n.new = jobs[j].new /\ n.ok = jobs[j].ok
    BY <1>1 DEF JobRecord, JobPcs
  <2>2. Goto(j, n)
    BY <1>5
  <2> HIDE DEF n
  <2> QED
    BY <1>4, <2>1, <2>2
<1>6. CASE Goto(j, [jobs[j] EXCEPT !.pc = "close", !.ok = FALSE])
  <2> DEFINE n == [jobs[j] EXCEPT !.pc = "close", !.ok = FALSE]
  <2>1. /\ n \in JobRecord /\ n.kind = "rollback" /\ n.pc = "close"
        /\ n.srv = jobs[j].srv /\ n.new = jobs[j].new /\ ~n.ok
    BY <1>1 DEF JobRecord, JobPcs
  <2>2. Goto(j, n)
    BY <1>6
  <2> HIDE DEF n
  <2> QED
    BY <1>4, <2>1, <2>2
<1>7. CASE Goto(j, [jobs[j] EXCEPT !.pc = "abort"])
  <2> DEFINE n == [jobs[j] EXCEPT !.pc = "abort"]
  <2>1. /\ n \in JobRecord /\ n.kind = "rollback" /\ n.pc = "abort"
        /\ n.srv = jobs[j].srv /\ n.new = jobs[j].new
    BY <1>1 DEF JobRecord, JobPcs
  <2>2. Goto(j, n)
    BY <1>7
  <2> HIDE DEF n
  <2> QED
    BY <1>4, <2>1, <2>2
<1> QED
  BY <1>5, <1>6, <1>7 DEF RemoveFirewall

(* A commit of a rollback makes a row neither completed nor pending. *)
LEMMA RollbackVerdict ==
  ASSUME TypeOK, NEW j \in Jobs, NEW status \in {"failed", "rollback_required"},
         CommitRow(jobs[j].copy, [jobs[j].copy EXCEPT !.status = status])
  PROVE  /\ ob' \in ObRow /\ ob'.cancelReq = ob.cancelReq
         /\ ob'.status \in {"completed", "pending"} => ob'.status = ob.status
<1> DEFINE new == [jobs[j].copy EXCEPT !.status = status]
<1>1. /\ new \in RowCopy /\ new.cancelReq = jobs[j].copy.cancelReq /\ new.status = status
      /\ jobs[j].copy \in RowCopy
  BY Types, StatusTypes DEF RowCopy, Terminal
<1>2. CommitRow(jobs[j].copy, new)
  OBVIOUS
<1> HIDE DEF new
<1> QED
  BY <1>1, <1>2, Types, CommittedRow

LEMMA CloseRollbackStep ==
  ASSUME TypeOK, NEW j \in Jobs, CloseRollback(j)
  PROVE  /\ Stopped(j)
         /\ RollbackOK(jobs[j], ob, server, remote) => ~server'.enabled
<1>1. /\ jobs[j].pc = "close" /\ Goto(j, Ended(jobs[j])) /\ Live(j)
      /\ UNCHANGED <<remote, req, sinceCancel>>
      /\ server' = Merge(server, jobs[j].srv, Disabled(jobs[j]))
      /\ CommitRow(jobs[j].copy, [jobs[j].copy EXCEPT
           !.status = IF jobs[j].ok THEN "failed" ELSE "rollback_required"])
  BY DEF CloseRollback, Live
<1>2. /\ ob' \in ObRow /\ ob'.cancelReq = ob.cancelReq
      /\ ob'.status \in {"completed", "pending"} => ob'.status = ob.status
  BY <1>1, RollbackVerdict
<1>3. Disabled(jobs[j]) \in ServerRow /\ ~Disabled(jobs[j]).enabled
  BY Types DEF Disabled, ServerRow
<1>4. server' \in ServerRow /\ (jobs[j].srv = server => server' = Disabled(jobs[j]))
  BY <1>1, <1>3, Types, CommittedServer
<1>5. RollbackOK(jobs[j], ob, server, remote) => jobs[j].srv = server
  BY <1>1 DEF RollbackOK
<1> QED
  BY <1>1, <1>2, <1>3, <1>4, <1>5 DEF Stopped, Goto

LEMMA AbortRollbackStep ==
  ASSUME TypeOK, NEW j \in Jobs, AbortRollback(j)
  PROVE  Stopped(j)
<1>1. /\ jobs[j].pc = "abort" /\ Goto(j, Ended(jobs[j])) /\ Live(j)
      /\ UNCHANGED <<server, remote, req, sinceCancel>>
      /\ CommitRow(jobs[j].copy, [jobs[j].copy EXCEPT !.status = "rollback_required"])
  BY DEF AbortRollback, Live
<1>2. /\ ob' \in ObRow /\ ob'.cancelReq = ob.cancelReq
      /\ ob'.status \in {"completed", "pending"} => ob'.status = ob.status
  BY <1>1, RollbackVerdict
<1> QED
  BY <1>1, <1>2, Types DEF Stopped, Goto

(* Every step of a job goes on or is its last. *)
LEMMA JobStep ==
  ASSUME TypeOK, NEW j \in Jobs, Sorted(jobs[j]), RunStep(j) \/ RollbackStep(j)
  PROVE  Stopped(j) \/ \E n \in JobRecord : Moved(j, n)
<1>1. jobs[j].kind = "run" \/ jobs[j].kind = "rollback"
  BY Types
<1>2. CASE RunStep(j)
  <2>1. CASE Load(j)
    BY <2>1, LoadStep
  <2>2. CASE ~Load(j)
    <3>1. jobs[j].pc \in {"work", "commit", "install", "guard", "promote", "complete", "fail"}
      BY <1>2, <2>2 DEF RunStep, Work, ConfigureFirewall, Commit, InstallExporter,
                        UpdateExporter, Guard, Promote, Complete, Fail
    <3>2. jobs[j].kind = "run"
      BY <1>1, <3>1 DEF Sorted, RollbackPcs
    <3> QED
      BY <1>2, <2>2, <3>2, WorkStep, ConfigureFirewallStep, CommitStep, InstallExporterStep,
         UpdateExporterStep, GuardStep, PromoteStep, CompleteStep, FailStep DEF RunStep
  <2> QED
    BY <2>1, <2>2
<1>3. CASE RollbackStep(j)
  <2>1. CASE LoadRollback(j)
    BY <2>1, LoadRollbackStep
  <2>2. CASE ~LoadRollback(j)
    <3>1. jobs[j].pc \in {"remove", "unfirewall", "close", "abort"}
      BY <1>3, <2>2 DEF RollbackStep, RemoveExporter, RemoveFirewall, CloseRollback,
                        AbortRollback
    <3>2. jobs[j].kind = "rollback"
      BY <1>1, <3>1 DEF Sorted, RunPcs, Going
    <3> QED
      BY <1>3, <2>2, <3>2, RemoveExporterStep, RemoveFirewallStep, CloseRollbackStep,
         AbortRollbackStep DEF RollbackStep
  <2> QED
    BY <2>1, <2>2
<1> QED
  BY <1>2, <1>3

-----------------------------------------------------------------------------
(* Types.                                                                  *)

TypeInv == TypeOK /\ \A j \in Jobs : Sorted(jobs[j])

(* A slot that takes a new job, or that lost one. *)
LEMMA NewSlot ==
  ASSUME NEW kind \in {"run", "rollback"}, NEW pc \in {"free", "load", "done"}
  PROVE  JobAt(kind, pc) \in JobRecord /\ Sorted(JobAt(kind, pc))
         /\ JobAt(kind, pc).kind = kind /\ JobAt(kind, pc).pc = pc
<1>1. pc \in JobPcs
  BY DEF JobPcs
<1>2. /\ JobAt(kind, pc) \in JobRecord /\ JobAt(kind, pc).kind = kind
      /\ JobAt(kind, pc).pc = pc
  BY <1>1, SlotTypes
<1> QED
  BY <1>2 DEF Sorted, RunPcs, Going, RollbackPcs

LEMMA EndedSlot ==
  ASSUME TypeOK, NEW j \in Jobs
  PROVE  /\ Ended(jobs[j]) \in JobRecord /\ Sorted(Ended(jobs[j]))
         /\ Ended(jobs[j]).pc = "done" /\ Ended(jobs[j]).kind = jobs[j].kind
BY NewSlot, Types DEF Ended

LEMMA SpawnedSlot ==
  ASSUME TypeInv, NEW kind \in {"run", "rollback"}, Spawn(kind)
  PROVE  /\ jobs' \in [Jobs -> JobRecord] /\ \A j \in Jobs : Sorted(jobs'[j])
         /\ \E j \in Jobs : /\ jobs[j].pc = "free"
                            /\ jobs' = [jobs EXCEPT ![j] = JobAt(kind, "load")]
<1>1. PICK j \in Jobs : /\ jobs[j].pc = "free"
                        /\ jobs' = [jobs EXCEPT ![j] = JobAt(kind, "load")]
  BY DEF Spawn, Goto
<1>2. JobAt(kind, "load") \in JobRecord /\ Sorted(JobAt(kind, "load"))
  BY NewSlot
<1> QED
  BY <1>1, <1>2, Types DEF TypeInv

(* Requests and what they write. *)
LEMMA Request ==
  ASSUME TypeOK, NEW r \in Requests
  PROVE  /\ req[r] \in ReqRecord /\ req[r].copy \in RowCopy
         /\ req[r].op \in Ops /\ req[r].pc \in {"idle", "recover", "act"}
         /\ EmptyRow \in RowCopy /\ IdleReq \in ReqRecord /\ IdleReq.pc = "idle"
<1>1. EmptyRow \in RowCopy
  BY StatusTypes DEF EmptyRow, RowCopy, Errors
<1>2. req[r] \in ReqRecord
  BY Types
<1> QED
  BY <1>1, <1>2 DEF IdleReq, ReqRecord, Ops, Spawning

(* The verdict of recover_stale. *)
LEMMA RecoverRow ==
  ASSUME TypeOK, NEW r \in Requests, Recover(r)
  PROVE  /\ req[r].pc = "recover" /\ UNCHANGED <<server, remote, jobs, sinceCancel>>
         /\ ob' \in ObRow /\ ob'.age = 0 /\ ob'.cancelReq = ob.cancelReq
         /\ req[r].copy.status \notin Terminal => ob'.status \in Terminal \ {"completed"}
         /\ req' \in [Requests -> ReqRecord]
         /\ \A q \in Requests : q # r => req'[q] = req[q]
         /\ req'[r].pc # "idle" =>
              /\ req'[r].op = req[r].op /\ req'[r].pc = "act"
              /\ req'[r].copy.cancelReq = req[r].copy.cancelReq
              /\ req[r].copy.status \notin Terminal => req'[r].copy.status = ob'.status
<1> DEFINE copy == req[r].copy
           code == IF copy.cancelReq THEN "cancelled" ELSE "job_expired"
           verdict == IF code = "cancelled" THEN "cancelled" ELSE "failed"
           new  == [copy EXCEPT !.status = verdict, !.err = code]
<1>1. /\ req[r].pc = "recover" /\ UNCHANGED <<server, remote, jobs, sinceCancel>>
      /\ CommitRow(copy, new)
      /\ IF req[r].op = "poll" THEN Answer(r)
         ELSE req' = [req EXCEPT ![r].copy = new, ![r].pc = "act"]
  BY DEF Recover
<1>2. verdict \in {"cancelled", "failed"} /\ code \in Errors /\ copy \in RowCopy
  BY Request DEF Errors
<1> HIDE DEF copy, code, verdict
<1>3. verdict \in Statuses /\ verdict \in Terminal /\ verdict # "completed"
  BY <1>2, StatusTypes DEF Terminal
<1>4. /\ new \in RowCopy /\ new.cancelReq = copy.cancelReq /\ new.status = verdict
  BY <1>2, <1>3 DEF RowCopy
<1> HIDE DEF new
<1>5. /\ ob' \in ObRow /\ ob'.age = 0 /\ ob'.cancelReq = ob.cancelReq
      /\ copy.status \notin Terminal => ob'.status = verdict
  BY <1>1, <1>2, <1>3, <1>4, Types, CommittedRow
<1>6. req[r].copy.status \notin Terminal => ob'.status \in Terminal \ {"completed"}
  BY <1>3, <1>5 DEF copy
<1>7. CASE Answer(r)
  BY <1>1, <1>5, <1>6, <1>7, Types, Request DEF Answer
<1>8. CASE req' = [req EXCEPT ![r].copy = new, ![r].pc = "act"]
  <2>1. LET q == [req[r] EXCEPT !.copy = new, !.pc = "act"]
        IN  q \in ReqRecord /\ q.pc = "act" /\ q.op = req[r].op /\ q.copy = new
    BY <1>4, Request DEF ReqRecord
  <2>2. /\ req' \in [Requests -> ReqRecord]
        /\ \A q \in Requests : q # r => req'[q] = req[q]
        /\ req'[r].pc = "act" /\ req'[r].op = req[r].op /\ req'[r].copy = new
    BY <1>8, <2>1, Types
  <2> QED
    BY <1>1, <1>4, <1>5, <1>6, <2>2 DEF copy
<1> QED
  BY <1>1, <1>7, <1>8

(* The row after an answer to retry, cancel or rollback. *)
LEMMA RetryRow ==
  ASSUME TypeOK, NEW r \in Requests, Retry(r)
  PROVE  /\ ob' \in ObRow /\ ob'.age = 0
         /\ ob'.status = IF req[r].copy.status # "pending" THEN "pending" ELSE ob.status
         /\ req[r].copy.cancelReq => ~ob'.cancelReq
         /\ ~req[r].copy.cancelReq => ob'.cancelReq = ob.cancelReq
<1>1. CommitRow(req[r].copy, EmptyRow)
  BY DEF Retry
<1>2. EmptyRow.status = "pending" /\ EmptyRow.cancelReq = FALSE
  BY DEF EmptyRow
<1>3. req[r].copy.cancelReq \in BOOLEAN
  BY Request DEF RowCopy
<1>4. ob \in ObRow /\ req[r].copy \in RowCopy /\ EmptyRow \in RowCopy
  BY Types, Request
<1>5. /\ ob' \in ObRow /\ ob'.age = 0
      /\ ob'.status = IF EmptyRow.status # req[r].copy.status THEN EmptyRow.status
                      ELSE ob.status
      /\ ob'.cancelReq = IF EmptyRow.cancelReq # req[r].copy.cancelReq
                         THEN EmptyRow.cancelReq ELSE ob.cancelReq
  BY <1>1, <1>4, CommittedRow
<1>6. ob'.cancelReq = IF req[r].copy.cancelReq THEN FALSE ELSE ob.cancelReq
  BY <1>2, <1>3, <1>5
<1> QED
  BY <1>2, <1>5, <1>6

LEMMA CancelRow ==
  ASSUME TypeOK, NEW r \in Requests, Cancel(r)
  PROVE  /\ ob' \in ObRow /\ ob'.age = 0
         /\ ob'.status = "cancelled"
         /\ (req[r].copy.cancelReq => ob.cancelReq) => ob'.cancelReq
         /\ sinceCancel' = [j \in Jobs |-> IF LiveRun(j) /\ sinceCancel[j] = -1
                                           THEN 0 ELSE sinceCancel[j]]
         /\ sinceCancel' \in [Jobs -> -1 .. 2]
<1> DEFINE new == [status |-> "cancelled", cancelReq |-> TRUE, err |-> "cancelled"]
<1>1. new \in RowCopy /\ new.cancelReq /\ new.status = "cancelled"
  BY StatusTypes DEF RowCopy, Errors, Terminal
<1>2. CommitRow(req[r].copy, new) /\ req[r].copy.status # "cancelled"
  BY DEF Cancel, Terminal
<1> HIDE DEF new
<1>3. /\ ob' \in ObRow /\ ob'.age = 0 /\ ob'.status = "cancelled"
      /\ (req[r].copy.cancelReq => ob.cancelReq) => ob'.cancelReq
  BY <1>1, <1>2, Types, Request, CommittedRow DEF ObRow, RowCopy
<1>4. sinceCancel' = [j \in Jobs |-> IF LiveRun(j) /\ sinceCancel[j] = -1
                                     THEN 0 ELSE sinceCancel[j]]
  BY DEF Cancel
<1> QED
  BY <1>3, <1>4, Types

LEMMA RollbackRow ==
  ASSUME TypeOK, NEW r \in Requests, Rollback(r)
  PROVE  /\ ob' \in ObRow /\ ob'.age = 0 /\ ob'.cancelReq = ob.cancelReq
         /\ ob'.status = IF req[r].copy.status # "rollback_required"
                         THEN "rollback_required" ELSE ob.status
<1> DEFINE new == [req[r].copy EXCEPT !.status = "rollback_required"]
<1>1. /\ new \in RowCopy /\ new.cancelReq = req[r].copy.cancelReq
      /\ new.status = "rollback_required"
  BY Request, StatusTypes DEF RowCopy, Terminal
<1>2. CommitRow(req[r].copy, new)
  BY DEF Rollback
<1> HIDE DEF new
<1> QED
  BY <1>1, <1>2, Types, Request, CommittedRow

LEMMA InitTypes == Init => TypeInv
<1> SUFFICES ASSUME Init PROVE TypeInv
  OBVIOUS
<1>1. ob \in ObRow
  BY StatusTypes, OnboardingAssumption DEF Init, ObRow, Errors
<1>2. server \in ServerRow
  BY DEF Init, NewServer, ServerRow
<1>3. remote \in Remote
  BY OnboardingAssumption DEF Init, Remote
<1>4. jobs \in [Jobs -> JobRecord] /\ \A j \in Jobs : Sorted(jobs[j])
  BY NewSlot DEF Init
<1>5. IdleReq \in ReqRecord
  BY StatusTypes DEF EmptyRow, RowCopy, Errors, IdleReq, ReqRecord
<1>6. req \in [Requests -> ReqRecord] /\ sinceCancel \in [Jobs -> -1 .. 2]
  BY <1>5 DEF Init
<1> QED
  BY <1>1, <1>2, <1>3, <1>4, <1>6 DEF TypeInv, TypeOK, ObRow, Remote

LEMMA NextTypes == TypeInv /\ [Next]_vars => TypeInv'
<1> SUFFICES ASSUME TypeInv, [Next]_vars PROVE TypeInv'
  OBVIOUS
<1> USE DEF TypeInv
<1>1. ASSUME ob' \in ObRow, server' \in ServerRow, remote' \in Remote,
             jobs' \in [Jobs -> JobRecord], req' \in [Requests -> ReqRecord],
             sinceCancel' \in [Jobs -> -1 .. 2], \A j \in Jobs : Sorted(jobs'[j])
      PROVE  TypeInv'
  BY <1>1 DEF TypeOK, ObRow, Remote
<1>2. ASSUME NEW j \in Jobs, RunStep(j) \/ RollbackStep(j) PROVE TypeInv'
  <2>1. CASE Stopped(j)
    <3>1. Ended(jobs[j]) \in JobRecord /\ Sorted(Ended(jobs[j]))
      BY EndedSlot
    <3> QED
      BY <1>1, <2>1, <3>1, Types DEF Stopped
  <2>2. ASSUME NEW n \in JobRecord, Moved(j, n) PROVE TypeInv'
    BY <1>1, <2>2, Types DEF Moved
  <2> QED
    BY <1>2, <2>1, <2>2, JobStep
<1>3. ASSUME NEW r \in Requests, NEW op \in Ops, Begin(r, op) PROVE TypeInv'
  <2> DEFINE q == [op |-> op, copy |-> Row,
                   pc |-> IF Expired /\ op # "rollback" THEN "recover" ELSE "act"]
  <2>1. q \in ReqRecord
    BY Types, RowType DEF ReqRecord, Ops, Spawning
  <2>2. req' = [req EXCEPT ![r] = q]
    BY <1>3 DEF Begin
  <2> HIDE DEF q
  <2> QED
    BY <1>1, <1>3, <2>1, <2>2, Types DEF Begin
<1>4. ASSUME NEW r \in Requests, Recover(r) PROVE TypeInv'
  BY <1>1, <1>4, RecoverRow, Types
<1>5. ASSUME NEW r \in Requests, Answer(r) PROVE req' \in [Requests -> ReqRecord]
  BY <1>5, Types, Request DEF Answer
<1>6. ASSUME NEW r \in Requests, Refuse(r) PROVE TypeInv'
  BY <1>1, <1>5, <1>6, Types DEF Refuse
<1>7. ASSUME NEW r \in Requests, Retry(r) PROVE TypeInv'
  BY <1>1, <1>5, <1>7, RetryRow, SpawnedSlot, Types DEF Retry
<1>8. ASSUME NEW r \in Requests, Cancel(r) PROVE TypeInv'
  BY <1>1, <1>5, <1>8, CancelRow, Types DEF Cancel
<1>9. ASSUME NEW r \in Requests, Rollback(r) PROVE TypeInv'
  BY <1>1, <1>5, <1>9, RollbackRow, SpawnedSlot, Types DEF Rollback
<1>10. ASSUME Tick PROVE TypeInv'
  <2>1. ob' \in ObRow
    <3>1. ob.age + 1 \in 0 .. Timeout + 1
      BY <1>10, Types, OnboardingAssumption DEF Tick, ObRow
    <3> QED
      BY <1>10, <3>1, Types DEF Tick, ObRow
  <2>2. ASSUME NEW j \in Jobs PROVE jobs'[j] \in JobRecord /\ Sorted(jobs'[j])
    <3>1. CASE LiveRun(j)
      <4> DEFINE n == [jobs[j] EXCEPT !.idle = @ + 1]
      <4>1. jobs'[j] = n /\ jobs[j].idle < MaxGap
        BY <1>10, <3>1 DEF Tick
      <4>2. jobs[j].idle + 1 \in 0 .. MaxGap
        BY <4>1, Types, OnboardingAssumption DEF JobRecord
      <4>3. n \in JobRecord /\ n.kind = jobs[j].kind /\ n.pc = jobs[j].pc
        BY <4>2, Types DEF JobRecord
      <4> HIDE DEF n
      <4> QED
        BY <4>1, <4>3 DEF Sorted
    <3>2. CASE ~LiveRun(j)
      BY <1>10, <3>2, Types DEF Tick
    <3> QED
      BY <3>1, <3>2
  <2>3. jobs' \in [Jobs -> JobRecord]
    BY <1>10, <2>2 DEF Tick
  <2> QED
    BY <1>1, <1>10, <2>1, <2>2, <2>3, Types DEF Tick
<1>11. ASSUME Crash PROVE TypeInv'
  <2>1. jobs' \in [Jobs -> JobRecord] /\ \A j \in Jobs : Sorted(jobs'[j])
    BY <1>11, EndedSlot, Types DEF Crash
  <2>2. req' \in [Requests -> ReqRecord]
    BY <1>11, Request DEF Crash
  <2> QED
    BY <1>1, <1>11, <2>1, <2>2, Types DEF Crash
<1>12. ASSUME UNCHANGED vars PROVE TypeInv'
  BY <1>1, <1>12, Types DEF vars
<1> QED
  BY <1>2, <1>3, <1>4, <1>6, <1>7, <1>8, <1>9, <1>10, <1>11, <1>12 DEF Next, Handle

(* Every column and every session copy keeps its domain, for any constants *)
(* (services/onboarding_service.py, models/onboarding.py).                 *)
THEOREM TypeCorrect == Spec => []TypeOK
<1>1. TypeInv => TypeOK
  BY DEF TypeInv
<1> QED
  BY <1>1, InitTypes, NextTypes, PTL DEF Spec

-----------------------------------------------------------------------------
(* The invariant of a patient operator.                                    *)

InFlight(q) == q.pc # "idle"

(* A request that is to start a job: it has the host to itself. *)
Starts(q) == InFlight(q) /\ q.op \in Spawning

(* A request that can cancel nothing any more: it found the job ended, or  *)
(* is about to end it.                                                     *)
Late(q) == q.pc = "recover" \/ q.copy.status \in Terminal

(* A copy without a request for cancellation may have missed one; a copy   *)
(* with one can still be believed, because the retry that takes a request  *)
(* back leaves only late ones in flight.                                   *)
RequestsInv ==
  /\ \A r \in Requests : req[r].pc = "recover" => req[r].copy.status \notin Terminal
  /\ \A r \in Requests : InFlight(req[r]) /\ ~Late(req[r]) /\ req[r].copy.cancelReq =>
       ob.cancelReq
  /\ \A r \in Requests : Starts(req[r]) =>
       /\ NoJobLive
       /\ \A q \in Requests : Starts(req[q]) => q = r
       /\ ob.status = "completed" => req[r].copy.status = "completed"
       /\ req[r].copy.status = "pending" => ~req[r].copy.cancelReq
  /\ \A r \in Requests : Starts(req[r]) /\ Late(req[r]) =>
       /\ ob.status \in Terminal \/ ob.age > Timeout
       /\ req[r].copy.cancelReq = ob.cancelReq
       /\ \A q \in Requests : InFlight(req[q]) => Late(req[q])
  /\ ob.status = "pending" => ~ob.cancelReq

(* In a calm onboarding the one request that is to start a job, or found   *)
(* the row stale, has a copy that is still true.                           *)
CalmInv ==
  Calm => \A r \in Requests : Starts(req[r]) \/ req[r].pc = "recover" =>
    /\ NoJobLive /\ req[r].copy.status = ob.status
    /\ req[r].pc = "recover" => ob.age > Timeout

OneJob == \A i, j \in Jobs : Live(i) /\ Live(j) => i = j

IInv ==
  /\ TypeInv
  /\ OneJob
  /\ \A j \in Jobs : Live(j) => JobOK(jobs[j], ob, server, remote)
  /\ \A j \in Jobs : Told(jobs[j], sinceCancel[j], ob)
  /\ RequestsInv
  /\ CalmInv
  /\ ob.status = "completed" => NoJobLive /\ Prepared(server, remote)

LEMMA InitialInv == Init => IInv
<1> SUFFICES ASSUME Init PROVE IInv
  OBVIOUS
<1>1. TypeInv
  BY InitTypes
<1>2. 1 \in Jobs
  BY OnboardingAssumption DEF Jobs
<1>3. /\ ob.status = "pending" /\ ob.age = 0 /\ sinceCancel = [j \in Jobs |-> -1]
      /\ \A j \in Jobs : jobs[j] = IF j = 1 THEN JobAt("run", "load") ELSE JobAt("run", "free")
      /\ \A r \in Requests : req[r].pc = "idle"
  BY DEF Init, IdleReq
<1>4. /\ JobAt("run", "load").pc = "load" /\ JobAt("run", "load").kind = "run"
      /\ JobAt("run", "load").step = 1 /\ JobAt("run", "load").idle = 0
      /\ JobAt("run", "free").pc = "free"
  BY DEF JobAt
<1>5. \A j \in Jobs : Live(j) => j = 1
  BY <1>3, <1>4 DEF Live
<1>6. \A j \in Jobs : Live(j) => JobOK(jobs[j], ob, server, remote)
  BY <1>3, <1>4, <1>5
  DEF JobOK, RunOK, RunPcs, Going, HasExporter, HasRule, Install, Firewall
<1>7. \A j \in Jobs : Told(jobs[j], sinceCancel[j], ob)
  BY <1>3, <1>4 DEF Told
<1>8. ~ob.cancelReq
  BY DEF Init
<1> QED
  BY <1>1, <1>3, <1>5, <1>6, <1>7, <1>8 DEF IInv, OneJob, RequestsInv, CalmInv, InFlight, Starts

(* While a job is at work no request is to start another one. *)
LEMMA JobKeepsRequests ==
  ASSUME IInv, ~NoJobLive, req' = req, ob'.cancelReq = ob.cancelReq,
         ob'.status = "pending" => ob.status = "pending"
  PROVE  RequestsInv' /\ CalmInv'
<1>1. \A r \in Requests : ~Starts(req[r]) /\ (Calm => req[r].pc # "recover")
  BY DEF IInv, RequestsInv, CalmInv
<1>2. RequestsInv'
  BY <1>1 DEF IInv, RequestsInv
<1> QED
  BY <1>1, <1>2 DEF CalmInv

(* A step of the job that is at work. *)
LEMMA MovedInv ==
  ASSUME IInv, TypeInv', NEW j \in Jobs, NEW n \in JobRecord, Moved(j, n)
  PROVE  IInv'
<1>1. /\ jobs \in [Jobs -> JobRecord] /\ jobs' = [jobs EXCEPT ![j] = n]
      /\ jobs'[j] = n /\ \A i \in Jobs : i # j => jobs'[i] = jobs[i]
      /\ Live(j) /\ Alive(n) /\ server' = server /\ req' = req
  BY Types DEF IInv, TypeInv, Moved
<1>2. \A i \in Jobs : i # j => ~Live(i)
  BY <1>1 DEF IInv, OneJob
<1>3. \A i \in Jobs : Live(i)' => i = j
  BY <1>1, <1>2 DEF Live
<1>4. OneJob'
  BY <1>3 DEF OneJob
<1>5. JobOK(n, ob', server', remote') /\ Told(n, sinceCancel'[j], ob')
  BY <1>1 DEF IInv, Moved
<1>6. \A i \in Jobs : Live(i)' => JobOK(jobs'[i], ob', server', remote')
  BY <1>1, <1>3, <1>5
<1>7. ASSUME NEW i \in Jobs PROVE Told(jobs'[i], sinceCancel'[i], ob')
  <2>1. CASE i = j
    BY <1>1, <1>5, <2>1
  <2>2. CASE i # j
    <3>1. jobs'[i] = jobs[i] /\ sinceCancel'[i] = sinceCancel[i] /\ ~Alive(jobs[i])
      BY <1>1, <1>2, <2>2 DEF Moved, Live, Alive
    <3> QED
      BY <3>1 DEF IInv, Told
  <2> QED
    BY <2>1, <2>2
<1>8. ~NoJobLive /\ ob.status # "completed" /\ ob'.status # "completed"
      /\ ob'.cancelReq = ob.cancelReq
  BY <1>1 DEF NoJobLive, IInv, Moved
<1>9. RequestsInv' /\ CalmInv'
  <2>1. ob'.status = "pending" => ob.status = "pending"
    BY DEF Moved
  <2> QED
    BY <1>1, <1>8, <2>1, JobKeepsRequests
<1> QED
  BY <1>4, <1>6, <1>7, <1>8, <1>9 DEF IInv

(* The last step of the job that is at work. *)
LEMMA StoppedInv ==
  ASSUME IInv, TypeInv', NEW j \in Jobs, Stopped(j)
  PROVE  IInv'
<1>1. /\ jobs \in [Jobs -> JobRecord] /\ jobs'[j] = Ended(jobs[j])
      /\ \A i \in Jobs : i # j => jobs'[i] = jobs[i]
      /\ Live(j) /\ UNCHANGED <<remote, req, sinceCancel>> /\ ob'.cancelReq = ob.cancelReq
  BY Types DEF IInv, TypeInv, Stopped
<1>2. jobs'[j].pc = "done"
  BY <1>1, EndedSlot DEF IInv, TypeInv
<1>3. \A i \in Jobs : ~Live(i)'
  BY <1>1, <1>2 DEF IInv, OneJob, Live
<1>4. ~NoJobLive /\ ob.status # "completed" /\ JobOK(jobs[j], ob, server, remote)
  BY <1>1 DEF NoJobLive, IInv
<1>5. ob'.status = "completed" => NoJobLive' /\ Prepared(server', remote')
  BY <1>1, <1>3, <1>4 DEF Stopped, NoJobLive
<1>6. ASSUME NEW i \in Jobs PROVE Told(jobs'[i], sinceCancel'[i], ob')
  <2>1. sinceCancel'[i] <= 1
    BY <1>1 DEF IInv, Told
  <2>2. jobs'[i].pc = "free" => sinceCancel'[i] = -1
    BY <1>1, <1>2 DEF IInv, Told
  <2> QED
    BY <1>3, <2>1, <2>2 DEF Told, Alive, Live
<1>7. RequestsInv' /\ CalmInv'
  <2>1. ob'.status = "pending" => ob.status = "pending"
    BY DEF Stopped
  <2> QED
    BY <1>1, <1>4, <2>1, JobKeepsRequests
<1> QED
  BY <1>3, <1>5, <1>6, <1>7 DEF IInv, OneJob

(* Jobs and what they were told when only the row changes. *)
LEMMA Untouched ==
  ASSUME IInv, UNCHANGED <<server, remote, jobs, sinceCancel>>,
         ob'.cancelReq = ob.cancelReq,
         Calm => NoJobLive \/ (ob'.status = ob.status /\ ob'.age = ob.age)
  PROVE  /\ OneJob'
         /\ \A j \in Jobs : Live(j)' => JobOK(jobs'[j], ob', server', remote')
         /\ \A j \in Jobs : Told(jobs'[j], sinceCancel'[j], ob')
         /\ NoJobLive' = NoJobLive
<1>1. OneJob' /\ NoJobLive' = NoJobLive /\ \A j \in Jobs : Live(j)' <=> Live(j)
  BY DEF IInv, OneJob, NoJobLive, Live
<1>2. \A j \in Jobs : Live(j) => JobOK(jobs[j], ob', server, remote)
  BY DEF IInv, NoJobLive, JobOK, RunOK, RollbackOK
<1>3. \A j \in Jobs : Told(jobs[j], sinceCancel[j], ob')
  BY DEF IInv, Told
<1> QED
  BY <1>1, <1>2, <1>3

(* A stale row has no job at work. *)
LEMMA ExpiredQuiet ==
  ASSUME Calm, IInv, Expired
  PROVE  NoJobLive
<1> SUFFICES ASSUME NEW j \in Jobs, Live(j) PROVE FALSE
  BY DEF NoJobLive
<1>1. /\ JobOK(jobs[j], ob, server, remote) /\ jobs[j].kind \in {"run", "rollback"}
      /\ jobs[j].idle \in 0 .. MaxGap /\ ob.age \in 0 .. Timeout + 1
  BY Types DEF IInv, TypeInv, JobRecord, ObRow
<1>2. CASE jobs[j].kind = "run"
  <2>1. ob.age <= jobs[j].idle
    BY <1>1, <1>2 DEF JobOK, RunOK
  <2> QED
    BY <1>1, <2>1, OnboardingAssumption DEF Calm, Expired
<1>3. CASE jobs[j].kind = "rollback"
  BY <1>1, <1>3 DEF JobOK, RollbackOK, Expired, RollbackFrom, Terminal
<1> QED
  BY <1>1, <1>2, <1>3

LEMMA BeginInv ==
  ASSUME Patient, IInv, TypeInv', NEW r \in Requests, NEW op \in Ops, Begin(r, op)
  PROVE  IInv'
<1> DEFINE pc == IF Expired /\ op # "rollback" THEN "recover" ELSE "act"
           new == [op |-> op, copy |-> Row, pc |-> pc]
<1>1. /\ req' = [req EXCEPT ![r] = new] /\ UNCHANGED <<ob, server, remote, jobs, sinceCancel>>
      /\ op \in Spawning => AllQuiet
      /\ req[r].pc = "idle"
  BY DEF Begin
<1>2. /\ new.op = op /\ new.pc = pc /\ pc # "idle"
      /\ new.copy.status = ob.status /\ new.copy.cancelReq = ob.cancelReq
  BY DEF Row
<1>3. /\ pc = "recover" <=> Expired /\ op # "rollback"
      /\ Expired <=> ob.status \notin Terminal /\ ob.age > Timeout
  BY DEF Expired
<1> HIDE DEF pc, new
<1>4. req'[r] = new /\ \A p \in Requests : p # r => req'[p] = req[p]
  BY <1>1, Types DEF IInv, TypeInv
<1>5. /\ OneJob' /\ NoJobLive' = NoJobLive /\ ob' = ob
      /\ \A j \in Jobs : Live(j)' => JobOK(jobs'[j], ob', server', remote')
      /\ \A j \in Jobs : Told(jobs'[j], sinceCancel'[j], ob')
  BY <1>1, Untouched
<1>6. op \in Spawning => NoJobLive /\ \A p \in Requests : ~InFlight(req[p])
  BY <1>1 DEF AllQuiet, InFlight
<1>7. \A p \in Requests : p # r /\ Starts(req[p]) => op \notin Spawning
  BY <1>6 DEF Starts
<1>8. RequestsInv'
  <2>1. \A p \in Requests : req'[p].pc = "recover" => req'[p].copy.status \notin Terminal
    BY <1>2, <1>3, <1>4 DEF IInv, RequestsInv
  <2>2. \A p \in Requests : InFlight(req'[p]) /\ ~Late(req'[p]) /\ req'[p].copy.cancelReq =>
          ob'.cancelReq
    BY <1>2, <1>4, <1>5 DEF IInv, RequestsInv
  <2>3. ASSUME NEW p \in Requests, Starts(req'[p])
        PROVE  /\ NoJobLive'
               /\ \A q \in Requests : Starts(req'[q]) => q = p
               /\ ob'.status = "completed" => req'[p].copy.status = "completed"
               /\ req'[p].copy.status = "pending" => ~req'[p].copy.cancelReq
    <3>1. CASE p = r
      <4>1. op \in Spawning
        BY <1>2, <1>4, <2>3, <3>1 DEF Starts
      <4>2. \A q \in Requests : Starts(req'[q]) => q = p
        BY <1>4, <1>6, <3>1, <4>1 DEF Starts
      <4>3. ob.status = "pending" => ~ob.cancelReq
        BY DEF IInv, RequestsInv
      <4> QED
        BY <1>2, <1>4, <1>5, <1>6, <3>1, <4>1, <4>2, <4>3
    <3>2. CASE p # r
      <4>1. Starts(req[p]) /\ op \notin Spawning
        BY <1>4, <1>7, <2>3, <3>2
      <4>2. ~Starts(req'[r])
        BY <1>2, <1>4, <4>1 DEF Starts
      <4>3. /\ NoJobLive
            /\ \A q \in Requests : Starts(req[q]) => q = p
            /\ ob.status = "completed" => req[p].copy.status = "completed"
            /\ req[p].copy.status = "pending" => ~req[p].copy.cancelReq
        BY <4>1 DEF IInv, RequestsInv
      <4> QED
        BY <1>4, <1>5, <3>2, <4>2, <4>3
    <3> QED
      BY <3>1, <3>2
  <2>4. ASSUME NEW p \in Requests, Starts(req'[p]), Late(req'[p])
        PROVE  /\ ob'.status \in Terminal \/ ob'.age > Timeout
               /\ req'[p].copy.cancelReq = ob'.cancelReq
               /\ \A q \in Requests : InFlight(req'[q]) => Late(req'[q])
    <3>1. CASE p = r
      <4>1. op \in Spawning
        BY <1>2, <1>4, <2>4, <3>1 DEF Starts
      <4>2. \A q \in Requests : InFlight(req'[q]) => q = r
        BY <1>4, <1>6, <4>1
      <4>3. ob.status \in Terminal \/ ob.age > Timeout
        BY <1>2, <1>3, <1>4, <2>4, <3>1 DEF Late
      <4> QED
        BY <1>2, <1>4, <1>5, <2>4, <3>1, <4>2, <4>3
    <3>2. CASE p # r
      <4>1. Starts(req[p]) /\ Late(req[p]) /\ op \notin Spawning
        BY <1>4, <1>7, <2>4, <3>2
      <4>2. /\ ob.status \in Terminal \/ ob.age > Timeout
            /\ req[p].copy.cancelReq = ob.cancelReq
            /\ \A q \in Requests : InFlight(req[q]) => Late(req[q])
        BY <4>1 DEF IInv, RequestsInv
      <4>3. Late(req'[r])
        BY <1>2, <1>3, <1>4, <4>1, <4>2 DEF Late, Spawning
      <4> QED
        BY <1>4, <1>5, <3>2, <4>2, <4>3
    <3> QED
      BY <3>1, <3>2
  <2>5. ob'.status = "pending" => ~ob'.cancelReq
    BY <1>5 DEF IInv, RequestsInv
  <2> QED
    BY <2>1, <2>2, <2>3, <2>4, <2>5 DEF RequestsInv
<1>9. CalmInv'
  <2> SUFFICES ASSUME Calm, NEW p \in Requests, Starts(req'[p]) \/ req'[p].pc = "recover"
               PROVE  /\ NoJobLive' /\ req'[p].copy.status = ob'.status
                      /\ req'[p].pc = "recover" => ob'.age > Timeout
    BY DEF CalmInv
  <2>1. p = r
    BY DEF Calm
  <2>2. NoJobLive
    BY <1>2, <1>3, <1>4, <1>6, <2>1, ExpiredQuiet DEF Starts
  <2> QED
    BY <1>2, <1>3, <1>4, <1>5, <2>1, <2>2
<1> QED
  BY <1>1, <1>5, <1>8, <1>9 DEF IInv

LEMMA RecoverInv ==
  ASSUME IInv, TypeInv', NEW r \in Requests, Recover(r)
  PROVE  IInv'
<1>1. /\ req[r].pc = "recover" /\ UNCHANGED <<server, remote, jobs, sinceCancel>>
      /\ ob'.cancelReq = ob.cancelReq
      /\ req[r].copy.status \notin Terminal => ob'.status \in Terminal \ {"completed"}
      /\ \A q \in Requests : q # r => req'[q] = req[q]
      /\ req'[r].pc # "idle" =>
           /\ req'[r].op = req[r].op /\ req'[r].pc = "act"
           /\ req'[r].copy.cancelReq = req[r].copy.cancelReq
           /\ req[r].copy.status \notin Terminal => req'[r].copy.status = ob'.status
  BY RecoverRow DEF IInv, TypeInv
<1>2. /\ req[r].copy.status \notin Terminal /\ InFlight(req[r]) /\ Late(req[r])
      /\ Calm => NoJobLive
  BY <1>1 DEF IInv, RequestsInv, CalmInv, InFlight, Late
<1>3. /\ ob'.status \in Terminal /\ ob'.status \notin {"completed", "pending"}
      /\ InFlight(req'[r]) => /\ req'[r].op = req[r].op /\ req'[r].pc = "act"
                              /\ req'[r].copy.cancelReq = req[r].copy.cancelReq
                              /\ req'[r].copy.status = ob'.status
  BY <1>1, <1>2 DEF Terminal, InFlight
<1>4. /\ OneJob' /\ NoJobLive' = NoJobLive
      /\ \A j \in Jobs : Live(j)' => JobOK(jobs'[j], ob', server', remote')
      /\ \A j \in Jobs : Told(jobs'[j], sinceCancel'[j], ob')
  <2>1. UNCHANGED <<server, remote, jobs, sinceCancel>> /\ ob'.cancelReq = ob.cancelReq
    BY <1>1
  <2>2. Calm => NoJobLive \/ (ob'.status = ob.status /\ ob'.age = ob.age)
    BY <1>2
  <2> QED
    BY <2>1, <2>2, Untouched
<1>5. \A p \in Requests : /\ InFlight(req'[p]) => InFlight(req[p])
                          /\ InFlight(req'[p]) /\ Late(req[p]) => Late(req'[p])
                          /\ Starts(req'[p]) => Starts(req[p])
  BY <1>1, <1>2, <1>3 DEF InFlight, Late, Starts
<1>6. RequestsInv'
  <2>1. \A p \in Requests : req'[p].pc = "recover" => req'[p].copy.status \notin Terminal
    BY <1>1, <1>3 DEF IInv, RequestsInv, InFlight
  <2>2. \A p \in Requests : InFlight(req'[p]) /\ ~Late(req'[p]) /\ req'[p].copy.cancelReq =>
          ob'.cancelReq
    BY <1>1, <1>2, <1>5 DEF IInv, RequestsInv
  <2>3. ASSUME NEW p \in Requests, Starts(req'[p])
        PROVE  /\ NoJobLive'
               /\ \A q \in Requests : Starts(req'[q]) => q = p
               /\ ob'.status = "completed" => req'[p].copy.status = "completed"
               /\ req'[p].copy.status = "pending" => ~req'[p].copy.cancelReq
    <3>1. /\ NoJobLive /\ \A q \in Requests : Starts(req[q]) => q = p
          /\ req[p].copy.status = "pending" => ~req[p].copy.cancelReq
      BY <1>5, <2>3 DEF IInv, RequestsInv
    <3>2. req'[p].copy.status = "pending" => ~req'[p].copy.cancelReq
      BY <1>1, <1>3, <2>3, <3>1 DEF Starts
    <3> QED
      BY <1>3, <1>4, <1>5, <3>1, <3>2
  <2>4. ASSUME NEW p \in Requests, Starts(req'[p]), Late(req'[p])
        PROVE  /\ ob'.status \in Terminal \/ ob'.age > Timeout
               /\ req'[p].copy.cancelReq = ob'.cancelReq
               /\ \A q \in Requests : InFlight(req'[q]) => Late(req'[q])
    <3>1. Starts(req[p]) /\ Late(req[p])
      BY <1>1, <1>2, <1>5, <2>4
    <3>2. /\ req[p].copy.cancelReq = ob.cancelReq
          /\ \A q \in Requests : InFlight(req[q]) => Late(req[q])
      BY <3>1 DEF IInv, RequestsInv
    <3>3. req'[p].copy.cancelReq = req[p].copy.cancelReq
      BY <1>1, <1>3, <2>4 DEF Starts
    <3> QED
      BY <1>1, <1>3, <1>5, <3>2, <3>3
  <2> QED
    BY <1>3, <2>1, <2>2, <2>3, <2>4 DEF RequestsInv
<1>7. CalmInv'
  <2> SUFFICES ASSUME Calm, NEW p \in Requests, Starts(req'[p]) \/ req'[p].pc = "recover"
               PROVE  /\ NoJobLive' /\ req'[p].copy.status = ob'.status
                      /\ req'[p].pc = "recover" => ob'.age > Timeout
    BY DEF CalmInv
  <2>1. p = r /\ InFlight(req'[p])
    BY DEF Calm, Starts, InFlight
  <2> QED
    BY <1>2, <1>3, <1>4, <2>1
<1>8. ob'.status = "completed" => NoJobLive' /\ Prepared(server', remote')
  BY <1>3
<1> QED
  BY <1>4, <1>6, <1>7, <1>8 DEF IInv

(* A request is answered: what is left in flight was there before. *)
LEMMA Answered ==
  ASSUME IInv, NEW r \in Requests, Answer(r)
  PROVE  /\ ~InFlight(req'[r]) /\ req'[r].pc # "recover" /\ ~Starts(req'[r])
         /\ \A q \in Requests : q # r => req'[q] = req[q]
         /\ Calm => \A q \in Requests : q = r
<1>1. req'[r].pc = "idle" /\ \A q \in Requests : q # r => req'[q] = req[q]
  BY Types DEF IInv, TypeInv, Answer, IdleReq
<1> QED
  BY <1>1 DEF InFlight, Starts, Calm

LEMMA RefuseInv ==
  ASSUME IInv, TypeInv', NEW r \in Requests, Refuse(r)
  PROVE  IInv'
<1>1. Answer(r) /\ UNCHANGED <<ob, server, remote, jobs, sinceCancel>>
  BY DEF Refuse
<1>2. /\ ~InFlight(req'[r]) /\ req'[r].pc # "recover" /\ ~Starts(req'[r])
      /\ \A q \in Requests : q # r => req'[q] = req[q]
      /\ Calm => \A q \in Requests : q = r
  BY <1>1, Answered
<1>3. /\ OneJob' /\ NoJobLive' = NoJobLive
      /\ \A j \in Jobs : Live(j)' => JobOK(jobs'[j], ob', server', remote')
      /\ \A j \in Jobs : Told(jobs'[j], sinceCancel'[j], ob')
  BY <1>1, Untouched
<1>4. RequestsInv'
  BY <1>1, <1>2, <1>3 DEF IInv, RequestsInv
<1>5. CalmInv'
  BY <1>2 DEF CalmInv
<1> QED
  BY <1>1, <1>3, <1>4, <1>5 DEF IInv

(* The request that starts a job is answered; the job is the only one, and *)
(* no other request is to start another.                                   *)
LEMMA SpawnedInv ==
  ASSUME IInv, TypeInv', NEW r \in Requests, Starts(req[r]), Answer(r),
         NEW kind \in {"run", "rollback"}, Spawn(kind),
         UNCHANGED <<server, remote, sinceCancel>>, ob'.age = 0,
         ob'.status # "completed", ob'.status = "pending" => ~ob'.cancelReq,
         \A q \in Requests : InFlight(req[q]) /\ ~Late(req[q]) /\ req[q].copy.cancelReq =>
           ob'.cancelReq,
         Calm /\ kind = "rollback" => ob'.status \in RollbackFrom
  PROVE  IInv'
<1>1. PICK j \in Jobs : /\ jobs[j].pc = "free"
                        /\ jobs' = [jobs EXCEPT ![j] = JobAt(kind, "load")]
  BY SpawnedSlot DEF IInv
<1>2. NoJobLive /\ \A q \in Requests : Starts(req[q]) => q = r
  BY DEF IInv, RequestsInv
<1>3. /\ jobs'[j] = JobAt(kind, "load") /\ \A i \in Jobs : i # j => jobs'[i] = jobs[i]
      /\ \A i \in Jobs : ~Live(i)
  BY <1>1, <1>2, Types DEF IInv, TypeInv, NoJobLive
<1>4. \A i \in Jobs : Live(i)' => i = j
  BY <1>3 DEF Live
<1>5. JobOK(JobAt(kind, "load"), ob', server', remote')
  <2>1. /\ JobAt(kind, "load").pc = "load" /\ JobAt(kind, "load").kind = kind
        /\ JobAt(kind, "load").step = 1 /\ JobAt(kind, "load").idle = 0
    BY DEF JobAt
  <2> QED
    BY <2>1 DEF JobOK, RunOK, RollbackOK, RunPcs, RollbackPcs, Going, HasExporter, HasRule,
                Install, Firewall
<1>6. \A i \in Jobs : Live(i)' => JobOK(jobs'[i], ob', server', remote')
  BY <1>3, <1>4, <1>5
<1>7. ASSUME NEW i \in Jobs PROVE Told(jobs'[i], sinceCancel'[i], ob')
  <2>1. CASE i = j
    BY <1>1, <1>3, <2>1, NewSlot DEF IInv, Told
  <2>2. CASE i # j
    BY <1>3, <2>2 DEF IInv, Told, Live, Alive
  <2> QED
    BY <2>1, <2>2
<1>8. /\ ~InFlight(req'[r]) /\ req'[r].pc # "recover" /\ ~Starts(req'[r])
      /\ \A q \in Requests : q # r => req'[q] = req[q]
      /\ Calm => \A q \in Requests : q = r
  BY Answered
<1>9. \A q \in Requests : ~Starts(req'[q])
  BY <1>2, <1>8
<1>10. RequestsInv'
  <2>1. \A p \in Requests : req'[p].pc = "recover" => req'[p].copy.status \notin Terminal
    BY <1>8 DEF IInv, RequestsInv
  <2>2. \A p \in Requests : InFlight(req'[p]) /\ ~Late(req'[p]) /\ req'[p].copy.cancelReq =>
          ob'.cancelReq
    BY <1>8
  <2> QED
    BY <1>9, <2>1, <2>2 DEF RequestsInv
<1>11. CalmInv'
  BY <1>8 DEF CalmInv
<1> QED
  BY <1>4, <1>6, <1>7, <1>10, <1>11 DEF IInv, OneJob

LEMMA RetryInv ==
  ASSUME IInv, TypeInv', NEW r \in Requests, Retry(r)
  PROVE  IInv'
<1>1. /\ req[r].pc = "act" /\ req[r].op = "retry" /\ Answer(r) /\ Spawn("run")
      /\ UNCHANGED <<server, remote, sinceCancel>>
      /\ req[r].copy.status \in Terminal \cup {"pending"}
  BY DEF Retry
<1>2. /\ ob'.age = 0
      /\ ob'.status = IF req[r].copy.status # "pending" THEN "pending" ELSE ob.status
      /\ req[r].copy.cancelReq => ~ob'.cancelReq
      /\ ~req[r].copy.cancelReq => ob'.cancelReq = ob.cancelReq
  BY RetryRow DEF IInv, TypeInv
<1>3. Starts(req[r])
  BY <1>1 DEF Starts, InFlight, Spawning
<1>4. /\ ob.status = "completed" => req[r].copy.status = "completed"
      /\ req[r].copy.status = "pending" => ~req[r].copy.cancelReq
      /\ ob.status = "pending" => ~ob.cancelReq
  BY <1>3 DEF IInv, RequestsInv
<1>5. CASE req[r].copy.status = "pending"
  <2>1. ob'.status = ob.status /\ ob.status # "completed" /\ ob'.cancelReq = ob.cancelReq
    BY <1>2, <1>4, <1>5
  <2>2. \A q \in Requests : InFlight(req[q]) /\ ~Late(req[q]) /\ req[q].copy.cancelReq =>
          ob'.cancelReq
    BY <2>1 DEF IInv, RequestsInv
  <2> QED
    BY <1>1, <1>2, <1>3, <1>4, <2>1, <2>2, SpawnedInv
<1>6. CASE req[r].copy.status # "pending"
  <2>1. Late(req[r])
    BY <1>1, <1>6 DEF Late
  <2>2. /\ req[r].copy.cancelReq = ob.cancelReq
        /\ \A q \in Requests : InFlight(req[q]) => Late(req[q])
    BY <1>3, <2>1 DEF IInv, RequestsInv
  <2>3. ob'.status = "pending" /\ ~ob'.cancelReq
    BY <1>2, <1>6, <2>2
  <2> QED
    BY <1>1, <1>2, <1>3, <2>2, <2>3, SpawnedInv
<1> QED
  BY <1>5, <1>6

LEMMA RollbackInv ==
  ASSUME IInv, TypeInv', NEW r \in Requests, Rollback(r)
  PROVE  IInv'
<1>1. /\ req[r].pc = "act" /\ req[r].op = "rollback" /\ Answer(r) /\ Spawn("rollback")
      /\ UNCHANGED <<server, remote, sinceCancel>>
      /\ req[r].copy.status \in RollbackFrom
  BY DEF Rollback
<1>2. /\ ob'.age = 0 /\ ob'.cancelReq = ob.cancelReq
      /\ ob'.status = IF req[r].copy.status # "rollback_required" THEN "rollback_required"
                      ELSE ob.status
  BY RollbackRow DEF IInv, TypeInv
<1>3. Starts(req[r]) /\ Late(req[r])
  BY <1>1 DEF Starts, InFlight, Spawning, Late, RollbackFrom, Terminal
<1>4. /\ ob.status = "completed" => req[r].copy.status = "completed"
      /\ ob.status = "pending" => ~ob.cancelReq
      /\ \A q \in Requests : InFlight(req[q]) => Late(req[q])
      /\ Calm => req[r].copy.status = ob.status
  BY <1>3 DEF IInv, RequestsInv, CalmInv
<1>5. ob'.status # "completed"
  BY <1>1, <1>2, <1>4 DEF RollbackFrom
<1>6. ob'.status = "pending" => ~ob'.cancelReq
  BY <1>2, <1>4
<1>7. Calm => ob'.status \in RollbackFrom
  BY <1>2, <1>4 DEF RollbackFrom
<1> QED
  BY <1>1, <1>2, <1>3, <1>4, <1>5, <1>6, <1>7, SpawnedInv

LEMMA CancelInv ==
  ASSUME IInv, TypeInv', NEW r \in Requests, Cancel(r)
  PROVE  IInv'
<1>1. /\ req[r].pc = "act" /\ req[r].op = "cancel" /\ req[r].copy.status \notin Terminal
      /\ Answer(r) /\ UNCHANGED <<server, remote, jobs>>
  BY DEF Cancel
<1>2. /\ InFlight(req[r]) /\ ~Late(req[r])
      /\ req[r].copy.cancelReq => ob.cancelReq
  <2>1. InFlight(req[r]) /\ ~Late(req[r])
    BY <1>1 DEF InFlight, Late
  <2> QED
    BY <2>1 DEF IInv, RequestsInv
<1>3. /\ ob'.age = 0 /\ ob'.status = "cancelled" /\ ob'.cancelReq
      /\ sinceCancel' = [j \in Jobs |-> IF LiveRun(j) /\ sinceCancel[j] = -1
                                        THEN 0 ELSE sinceCancel[j]]
  BY <1>2, CancelRow DEF IInv, TypeInv
<1>4. /\ OneJob' /\ NoJobLive' = NoJobLive
      /\ \A j \in Jobs : (Live(j)' <=> Live(j)) /\ jobs'[j] = jobs[j]
  BY <1>1 DEF IInv, OneJob, NoJobLive, Live
<1>5. ASSUME NEW j \in Jobs, Live(j) PROVE JobOK(jobs[j], ob', server, remote)
  <2>1. JobOK(jobs[j], ob, server, remote) /\ jobs[j].idle \in 0 .. MaxGap
    BY <1>5, Types DEF IInv, TypeInv, JobRecord
  <2>2. ob'.age <= jobs[j].idle
    BY <1>3, <2>1, OnboardingAssumption
  <2>3. ob'.status \in RollbackFrom
    BY <1>3 DEF RollbackFrom
  <2> QED
    BY <2>1, <2>2, <2>3 DEF JobOK, RunOK, RollbackOK
<1>6. ASSUME NEW j \in Jobs PROVE Told(jobs[j], sinceCancel'[j], ob')
  <2>1. Told(jobs[j], sinceCancel[j], ob)
    BY DEF IInv
  <2>2. sinceCancel'[j] = IF LiveRun(j) /\ sinceCancel[j] = -1 THEN 0 ELSE sinceCancel[j]
    BY <1>3
  <2>3. CASE LiveRun(j) /\ sinceCancel[j] = -1
    BY <1>3, <2>2, <2>3 DEF Told, LiveRun, Live
  <2>4. CASE ~(LiveRun(j) /\ sinceCancel[j] = -1)
    BY <1>3, <2>1, <2>2, <2>4 DEF Told
  <2> QED
    BY <2>3, <2>4
<1>7. /\ ~InFlight(req'[r]) /\ req'[r].pc # "recover" /\ ~Starts(req'[r])
      /\ \A q \in Requests : q # r => req'[q] = req[q]
      /\ Calm => \A q \in Requests : q = r
  BY <1>1, Answered
<1>8. \A p \in Requests : Starts(req'[p]) => p # r /\ Starts(req[p]) /\ ~Late(req'[p])
  <2>1. \A p \in Requests : Starts(req[p]) => ~Late(req[p])
    BY <1>2 DEF IInv, RequestsInv
  <2> QED
    BY <1>7, <2>1
<1>9. RequestsInv'
  <2>1. \A p \in Requests : req'[p].pc = "recover" => req'[p].copy.status \notin Terminal
    BY <1>7 DEF IInv, RequestsInv
  <2>2. ASSUME NEW p \in Requests, Starts(req'[p])
        PROVE  /\ NoJobLive'
               /\ \A q \in Requests : Starts(req'[q]) => q = p
               /\ req'[p].copy.status = "pending" => ~req'[p].copy.cancelReq
    <3>1. p # r /\ Starts(req[p]) /\ req'[p] = req[p]
      BY <1>7, <1>8, <2>2
    <3>2. /\ NoJobLive /\ \A q \in Requests : Starts(req[q]) => q = p
          /\ req[p].copy.status = "pending" => ~req[p].copy.cancelReq
      BY <3>1 DEF IInv, RequestsInv
    <3> QED
      BY <1>4, <1>8, <3>1, <3>2
  <2> QED
    BY <1>3, <1>8, <2>1, <2>2 DEF RequestsInv
<1>10. CalmInv'
  BY <1>7 DEF CalmInv
<1> QED
  BY <1>1, <1>3, <1>4, <1>5, <1>6, <1>9, <1>10 DEF IInv

LEMMA TickInv ==
  ASSUME IInv, TypeInv', Tick
  PROVE  IInv'
<1>1. /\ UNCHANGED <<server, remote, req, sinceCancel>> /\ ob.age <= Timeout
      /\ ob' = [ob EXCEPT !.age = @ + 1] /\ ob.age \in 0 .. Timeout + 1
  BY Types DEF Tick, IInv, TypeInv, ObRow
<1>2. /\ ob'.status = ob.status /\ ob'.cancelReq = ob.cancelReq /\ ob'.age = ob.age + 1
  BY <1>1, Types DEF IInv, TypeInv, ObRow
<1>3. ASSUME NEW j \in Jobs
      PROVE  /\ jobs'[j] \in JobRecord
             /\ \A f \in {"kind", "pc", "step", "copy", "srv", "new", "found", "ok"} :
                  jobs'[j][f] = jobs[j][f]
             /\ jobs'[j].idle = IF LiveRun(j) THEN jobs[j].idle + 1 ELSE jobs[j].idle
  <2>1. jobs[j] \in JobRecord /\ jobs'[j] \in JobRecord
    BY Types DEF IInv, TypeInv, TypeOK
  <2>2. jobs'[j] = IF LiveRun(j) THEN [jobs[j] EXCEPT !.idle = @ + 1] ELSE jobs[j]
    BY DEF Tick
  <2> QED
    BY <2>1, <2>2 DEF JobRecord
<1>4. ASSUME NEW j \in Jobs
      PROVE  /\ jobs'[j].kind = jobs[j].kind /\ jobs'[j].pc = jobs[j].pc
             /\ jobs'[j].step = jobs[j].step /\ jobs'[j].srv = jobs[j].srv
             /\ jobs'[j].new = jobs[j].new /\ jobs'[j].found = jobs[j].found
             /\ jobs'[j].ok = jobs[j].ok
             /\ LiveRun(j) => jobs'[j].idle = jobs[j].idle + 1
             /\ Live(j)' <=> Live(j)
  BY <1>3 DEF Live
<1>5. ASSUME NEW j \in Jobs, Live(j) PROVE JobOK(jobs'[j], ob', server', remote')
  <2>1. JobOK(jobs[j], ob, server, remote) /\ jobs[j].idle \in 0 .. MaxGap
        /\ jobs[j].kind \in {"run", "rollback"}
    BY <1>5, Types DEF IInv, TypeInv, JobRecord
  <2>2. CASE jobs[j].kind = "run"
    <3>1. RunOK(jobs[j], ob, server, remote) /\ jobs'[j].idle = jobs[j].idle + 1
      BY <1>4, <1>5, <2>1, <2>2 DEF JobOK, LiveRun
    <3>2. Calm => ob'.age <= jobs'[j].idle
      BY <1>1, <1>2, <2>1, <3>1 DEF RunOK
    <3> QED
      BY <1>1, <1>4, <2>2, <3>1, <3>2 DEF JobOK, RunOK, HasExporter, HasRule
  <2>3. CASE jobs[j].kind = "rollback"
    BY <1>1, <1>2, <1>4, <2>1, <2>3 DEF JobOK, RollbackOK
  <2> QED
    BY <2>1, <2>2, <2>3
<1>6. \A j \in Jobs : Told(jobs'[j], sinceCancel'[j], ob')
  BY <1>1, <1>2, <1>4 DEF IInv, Told, Alive
<1>7. OneJob' /\ NoJobLive' = NoJobLive
  BY <1>4 DEF IInv, OneJob, NoJobLive
<1>8. ob.age > Timeout => ob'.age > Timeout
  BY <1>1, <1>2, OnboardingAssumption
<1>9. RequestsInv'
  BY <1>1, <1>2, <1>7, <1>8 DEF IInv, RequestsInv
<1>10. CalmInv'
  BY <1>1, <1>2, <1>7, <1>8 DEF IInv, CalmInv
<1> QED
  BY <1>1, <1>2, <1>4, <1>5, <1>6, <1>7, <1>9, <1>10 DEF IInv

LEMMA CrashInv ==
  ASSUME IInv, TypeInv', Crash
  PROVE  IInv'
<1>1. UNCHANGED <<ob, server, remote, sinceCancel>> /\ \A r \in Requests : req'[r].pc = "idle"
  BY DEF Crash, IdleReq
<1>2. ASSUME NEW j \in Jobs
      PROVE  ~Live(j)' /\ (jobs'[j].pc = "free" => jobs[j].pc = "free")
  <2>1. jobs'[j] = IF Live(j) THEN Ended(jobs[j]) ELSE jobs[j]
    BY DEF Crash
  <2>2. Ended(jobs[j]).pc = "done"
    BY EndedSlot DEF IInv, TypeInv
  <2> QED
    BY <2>1, <2>2 DEF Live
<1>3. \A j \in Jobs : Told(jobs'[j], sinceCancel'[j], ob')
  BY <1>1, <1>2 DEF IInv, Told, Live, Alive
<1>4. RequestsInv' /\ CalmInv'
  BY <1>1 DEF IInv, RequestsInv, CalmInv, InFlight, Starts
<1> QED
  BY <1>1, <1>2, <1>3, <1>4 DEF IInv, OneJob, NoJobLive

LEMMA NextInv == Patient /\ IInv /\ [Next]_vars => IInv'
<1> SUFFICES ASSUME Patient, IInv, [Next]_vars PROVE IInv'
  OBVIOUS
<1>1. TypeInv'
  BY NextTypes DEF IInv
<1>2. ASSUME NEW j \in Jobs, RunStep(j) \/ RollbackStep(j) PROVE IInv'
  <2>1. Stopped(j) \/ \E n \in JobRecord : Moved(j, n)
    BY <1>2, JobStep DEF IInv, TypeInv
  <2> QED
    BY <1>1, <2>1, MovedInv, StoppedInv
<1>3. ASSUME NEW r \in Requests, NEW op \in Ops, Begin(r, op) PROVE IInv'
  BY <1>1, <1>3, BeginInv
<1>4. ASSUME NEW r \in Requests, Handle(r) PROVE IInv'
  BY <1>1, <1>4, RecoverInv, RefuseInv, RetryInv, CancelInv, RollbackInv DEF Handle
<1>5. CASE UNCHANGED vars
  <2>1. UNCHANGED <<ob, server, remote, jobs, req, sinceCancel>>
    BY <1>5 DEF vars
  <2> QED
    BY <1>1, <2>1, Untouched DEF IInv, RequestsInv, CalmInv
<1> QED
  BY <1>1, <1>2, <1>3, <1>4, <1>5, TickInv, CrashInv DEF Next

LEMMA Invariant == ASSUME Patient PROVE Spec => []IInv
<1>1. IInv /\ [Next]_vars => IInv'
  BY NextInv
<1> QED
  BY <1>1, InitialInv, PTL DEF Spec

-----------------------------------------------------------------------------
(* What follows from it, for a patient operator and any requests, or in a  *)
(* calm onboarding.                                                        *)

(* A completed onboarding is prepared: its server is enabled under an      *)
(* active contract, an exporter answers, the rule is there (run).          *)
THEOREM CompletedPrepared == ASSUME Patient PROVE Spec => []CompletedIsPrepared
<1>1. IInv => CompletedIsPrepared
  BY DEF IInv, Prepared, CompletedIsPrepared
<1> QED
  BY <1>1, Invariant, PTL

(* After an answered cancellation a run starts one more script at most     *)
(* (_transition, _check_cancel).                                           *)
THEOREM CancelledOnce == ASSUME Patient PROVE Spec => []CancelledRunTouchesHostOnce
<1>1. IInv => CancelledRunTouchesHostOnce
  BY DEF IInv, Told, CancelledRunTouchesHostOnce
<1> QED
  BY <1>1, Invariant, PTL

(* Only a retry or a cancellation takes a completed verdict back.          *)
THEOREM CompletedStable == ASSUME Calm PROVE Spec => CompletedIsStable
<1> DEFINE Stable == ob.status = "completed" /\ ob'.status # "completed" =>
                       \E r \in Requests : Retry(r) \/ Cancel(r)
<1>1. IInv /\ [Next]_vars => [Stable]_vars
  <2> SUFFICES ASSUME IInv, Next, ob.status = "completed", ob'.status # "completed"
               PROVE  \E r \in Requests : Retry(r) \/ Cancel(r)
    BY DEF vars
  <2>1. NoJobLive
    BY DEF IInv
  <2>2. ASSUME NEW j \in Jobs, RunStep(j) \/ RollbackStep(j) PROVE FALSE
    <3>1. Stopped(j) \/ \E n \in JobRecord : Moved(j, n)
      BY <2>2, JobStep DEF IInv, TypeInv
    <3> QED
      BY <2>1, <3>1 DEF Stopped, Moved, NoJobLive
  <2>3. ASSUME NEW r \in Requests, Recover(r) PROVE FALSE
    BY <2>3 DEF Recover, IInv, RequestsInv, CalmInv, Terminal
  <2>4. ASSUME NEW r \in Requests, Rollback(r) PROVE FALSE
    <3>1. Starts(req[r]) /\ req[r].copy.status \in RollbackFrom
      BY <2>4 DEF Rollback, Starts, InFlight, Spawning
    <3> QED
      BY <3>1 DEF IInv, CalmInv, RollbackFrom
  <2>5. ASSUME Tick \/ Crash \/ \E r \in Requests :
                 Refuse(r) \/ \E op \in Ops : Begin(r, op)
        PROVE  FALSE
    BY <2>5, Types DEF Tick, Crash, Refuse, Begin, IInv, TypeInv, ObRow
  <2> QED
    BY <2>2, <2>3, <2>4, <2>5 DEF Next, Handle
<1>2. Patient
  BY DEF Calm
<1> QED
  BY <1>1, <1>2, Invariant, PTL DEF Spec, CompletedIsStable

-----------------------------------------------------------------------------
(* What the dialog shows of a calm onboarding.                             *)

(* The columns a cancellation sets go together. *)
Agrees(row) == row.err = IF row.cancelReq THEN "cancelled" ELSE "none"

(* What the row says when a run has committed that many steps. *)
Written(k) == IF k = 0 THEN "pending" ELSE Flow[k]

RunSeen(job, o) ==
  /\ Agrees(o) /\ (o.status = "cancelled" => o.cancelReq)
  /\ job.pc # "fail" =>
       /\ o.status \in {Written(Committed(job)), "cancelled"}
       /\ job.copy.status \notin Terminal
  /\ job.pc \notin {"fail", "complete"} => job.new = job.srv
  /\ job.pc = "commit" => job.copy.status = Written(job.step - 1)
  /\ job.pc = "complete" => job.copy.status = Flow[Validate]
  /\ job.pc = "fail" =>
       /\ job.copy.status \in Terminal =>
            o.status = "cancelled" /\ job.copy.status = "cancelled" /\ job.copy.err = "cancelled"
       /\ job.new # job.srv => job.new.enabled

RollbackSeen(job, o) ==
  /\ o.status = "rollback_required"
  /\ job.pc # "load" => job.copy.status = "rollback_required"

Asks(q) == q.pc = "act" /\ q.op = "cancel" /\ q.copy.status \notin Terminal

SeenInv ==
  /\ \A j \in Jobs : Live(j) =>
       /\ jobs[j].kind = "run" => RunSeen(jobs[j], ob)
       /\ jobs[j].kind = "rollback" =>
            RollbackSeen(jobs[j], ob) /\ \A r \in Requests : ~Asks(req[r])
  /\ ob.status \notin Terminal => Agrees(ob)
  /\ \A r \in Requests : Asks(req[r]) => Agrees(req[r].copy)
  /\ \A r \in Requests :
       req[r].pc = "recover" \/ (req[r].pc = "act" /\ req[r].op \in Spawning) =>
         req[r].copy = Row

(* The steps of the flow are distinct, and none is a verdict. *)
LEMMA FlowTypes ==
  /\ Len(Flow) = 9 /\ Flow[Validate] = "validating"
  /\ \A s \in Steps : /\ Flow[s] # Written(s - 1) /\ Flow[s] = Written(s)
                      /\ Flow[s] \notin Terminal /\ Written(s - 1) \notin Terminal
BY DEF Flow, Steps, Written, Terminal, Validate

LEMMA WorkIs ==
  ASSUME NEW job
  PROVE  /\ job.kind = "rollback" => WorkOf(job) = "rollback"
         /\ job.kind = "run" /\ job.pc # "fail" => WorkOf(job) = "run"
         /\ job.kind = "run" /\ job.pc = "fail" /\ job.new = job.srv => WorkOf(job) = "stopped"
         /\ job.kind = "run" /\ job.pc = "fail" /\ job.new # job.srv => WorkOf(job) = "stopped late"
BY DEF WorkOf

LEMMA CommittedIs ==
  ASSUME NEW job
  PROVE  /\ job.pc = "load" => Committed(job) = 0
         /\ job.pc \in {"work", "commit"} => Committed(job) = job.step - 1
         /\ job.pc \notin {"load", "work", "commit"} => Committed(job) = job.step
BY DEF Committed

(* A step of a run that goes on, as it is seen: nothing, the next step of  *)
(* the flow, or a run that gives up.                                       *)
Seems(job, n, o, after) ==
  \/ /\ after.status = o.status /\ n.pc # "fail" /\ Committed(n) = Committed(job)
  \/ /\ Committed(job) \in 0 .. 8 /\ after.status = Flow[Committed(job) + 1]
     /\ \/ n.pc # "fail" /\ Committed(n) = Committed(job) + 1
        \/ n.pc = "fail" /\ n.new = n.srv
  \/ /\ after.status = o.status
     /\ n.pc = "fail" /\ (n.new = n.srv \/ Committed(job) = 9)

SeenMove(j, n) ==
  /\ jobs' = [jobs EXCEPT ![j] = n] /\ n.kind = "run" /\ Alive(n)
  /\ req' = req /\ server' = server
  /\ RunSeen(n, ob') /\ jobs[j].pc # "fail" /\ Seems(jobs[j], n, ob, ob')

(* The read half of a transition. *)
LEMMA TransitionSeen ==
  ASSUME TypeOK, NEW j \in Jobs, RunSeen(jobs[j], ob), jobs[j].pc \in {"load", "work"},
         jobs[j].pc = "load" => jobs[j].step = 1,
         NEW job \in JobRecord, job.kind = "run", job.step = jobs[j].step, job.new = job.srv,
         Goto(j, Transition(job)), UNCHANGED <<ob, server, req>>
  PROVE  \E n \in JobRecord : SeenMove(j, n)
<1> DEFINE n == Transition(job)
<1>1. jobs' = [jobs EXCEPT ![j] = n]
  BY DEF Goto
<1>2. /\ n \in JobRecord /\ n.copy = Row /\ n.kind = "run" /\ n.step = jobs[j].step
      /\ n.new = n.srv /\ n.pc \in {"commit", "fail"}
      /\ (ob.cancelReq => n.pc = "fail") /\ (ob.status \in Terminal => n.pc = "fail")
  BY Types, TransitionJob
<1> HIDE DEF n
<1>3. n.copy.status = ob.status /\ n.copy.err = ob.err
  BY <1>2, Types, RowType
<1>4. /\ jobs[j].step \in Steps /\ Committed(jobs[j]) = jobs[j].step - 1
      /\ n.pc = "commit" => Committed(n) = jobs[j].step - 1
  BY <1>2, Types, CommittedIs DEF Steps
<1>5. /\ Agrees(ob) /\ (ob.status = "cancelled" => ob.cancelReq)
      /\ ob.status \in {Written(jobs[j].step - 1), "cancelled"}
      /\ Written(jobs[j].step - 1) \notin Terminal
  BY <1>4, FlowTypes DEF RunSeen
<1>6. ob.status = "cancelled" => ob.err = "cancelled"
  BY <1>5 DEF Agrees
<1>7. RunSeen(n, ob)
  BY <1>2, <1>3, <1>4, <1>5, <1>6 DEF RunSeen
<1>8. Alive(n) /\ Seems(jobs[j], n, ob, ob')
  BY <1>2, <1>4 DEF Alive, Seems
<1> QED
  BY <1>1, <1>2, <1>7, <1>8 DEF SeenMove

(* A checkpoint. *)
LEMMA CheckSeen ==
  ASSUME TypeOK, NEW j \in Jobs, RunSeen(jobs[j], ob),
         jobs[j].pc \notin {"load", "work", "commit", "complete", "fail"},
         NEW pc \in {"work", "complete"}, NEW job \in JobRecord, job.kind = "run",
         pc = "work" => job.step = jobs[j].step + 1 /\ job.new = job.srv,
         pc = "complete" => jobs[j].step = 9 /\ job.step = 9 /\ job.new.enabled,
         Goto(j, CheckCancel(job, pc)), UNCHANGED <<ob, server, req>>
  PROVE  \E n \in JobRecord : SeenMove(j, n)
<1> DEFINE n == CheckCancel(job, pc)
<1>1. jobs' = [jobs EXCEPT ![j] = n]
  BY DEF Goto
<1>2. /\ n \in JobRecord /\ n.copy = Row /\ n.kind = "run" /\ n.step = job.step
      /\ n.new = job.new /\ n.srv = job.srv /\ n.pc \in {pc, "fail"}
      /\ (ob.cancelReq => n.pc = "fail")
  BY Types, CheckedJob DEF JobPcs
<1> HIDE DEF n
<1>3. n.copy.status = ob.status /\ n.copy.err = ob.err
  BY <1>2, Types, RowType
<1>4. /\ jobs[j].step \in Steps /\ Committed(jobs[j]) = jobs[j].step
      /\ n.pc # "fail" => Committed(n) = jobs[j].step
  BY <1>2, Types, CommittedIs DEF Steps
<1>5. /\ Agrees(ob) /\ (ob.status = "cancelled" => ob.cancelReq)
      /\ ob.status \in {Written(jobs[j].step), "cancelled"}
      /\ Written(jobs[j].step) \notin Terminal
      /\ Written(jobs[j].step) = Flow[jobs[j].step]
  BY <1>4, FlowTypes DEF RunSeen
<1>6. ob.status = "cancelled" => ob.err = "cancelled"
  BY <1>5 DEF Agrees
<1>7. n.pc # "fail" => ob.status = Flow[jobs[j].step] /\ ob.status \notin Terminal
  BY <1>2, <1>5
<1>8. RunSeen(n, ob)
  BY <1>2, <1>3, <1>4, <1>5, <1>6, <1>7 DEF RunSeen, Validate
<1>9. Alive(n) /\ Seems(jobs[j], n, ob, ob')
  BY <1>2, <1>4 DEF Alive, Seems
<1> QED
  BY <1>1, <1>2, <1>8, <1>9 DEF SeenMove

(* A run that raises: before it validated, nothing is in its memory. *)
LEMMA RaisedSeen ==
  ASSUME TypeOK, NEW j \in Jobs, RunSeen(jobs[j], ob), jobs[j].pc \notin {"complete", "fail"},
         NEW job \in JobRecord, job.kind = "run", job.copy = jobs[j].copy,
         job.new = job.srv \/ (Committed(jobs[j]) = 9 /\ job.new.enabled),
         Goto(j, Raised(job, "other")), UNCHANGED <<ob, server, req>>
  PROVE  \E n \in JobRecord : SeenMove(j, n)
<1> DEFINE n == Raised(job, "other")
<1>1. jobs' = [jobs EXCEPT ![j] = n]
  BY DEF Goto
<1>2. /\ n \in JobRecord /\ n.copy = jobs[j].copy /\ n.kind = "run"
      /\ n.new = job.new /\ n.srv = job.srv /\ n.pc = "fail"
  BY Types, RaisedJob DEF Errors
<1> HIDE DEF n
<1>3. RunSeen(n, ob)
  BY <1>2 DEF RunSeen
<1>4. Alive(n) /\ Seems(jobs[j], n, ob, ob')
  BY <1>2 DEF Alive, Seems
<1> QED
  BY <1>1, <1>2, <1>3, <1>4 DEF SeenMove

(* A run that goes on without looking at the row. *)
LEMMA OnwardSeen ==
  ASSUME TypeOK, NEW j \in Jobs, RunSeen(jobs[j], ob), jobs[j].pc = "install",
         NEW n \in JobRecord, n.kind = "run", n.pc = "guard", n.copy = jobs[j].copy,
         n.step = jobs[j].step, n.new = jobs[j].new, n.srv = jobs[j].srv,
         Goto(j, n), UNCHANGED <<ob, server, req>>
  PROVE  SeenMove(j, n)
<1>1. Committed(n) = Committed(jobs[j])
  BY CommittedIs
<1>2. RunSeen(n, ob)
  BY <1>1 DEF RunSeen
<1>3. Alive(n) /\ Seems(jobs[j], n, ob, ob')
  BY <1>1 DEF Alive, Seems
<1> QED
  BY <1>2, <1>3 DEF SeenMove, Goto

LEMMA LoadSeen ==
  ASSUME IInv, NEW j \in Jobs, RunSeen(jobs[j], ob), Load(j)
  PROVE  \E n \in JobRecord : SeenMove(j, n)
<1> DEFINE job == [jobs[j] EXCEPT !.srv = server, !.new = server]
<1>1. TypeOK /\ jobs[j].pc = "load" /\ jobs[j].kind = "run" /\ Goto(j, Transition(job))
      /\ UNCHANGED <<ob, server, req>>
  BY DEF IInv, TypeInv, Load
<1>2. jobs[j].step = 1
  BY <1>1 DEF IInv, JobOK, RunOK, Live
<1>3. /\ job \in JobRecord /\ job.kind = jobs[j].kind /\ job.step = jobs[j].step
      /\ job.new = job.srv
  BY <1>1, Types DEF JobRecord
<1> HIDE DEF job
<1> QED
  BY <1>1, <1>2, <1>3, TransitionSeen

LEMMA WorkSeen ==
  ASSUME IInv, NEW j \in Jobs, jobs[j].kind = "run", RunSeen(jobs[j], ob), Work(j)
  PROVE  \E n \in JobRecord : SeenMove(j, n)
<1>1. /\ TypeOK /\ jobs[j].pc = "work" /\ jobs[j] \in JobRecord
      /\ UNCHANGED <<ob, server, req>>
  BY Types DEF IInv, TypeInv, Work
<1>2. jobs[j].new = jobs[j].srv
  BY <1>1 DEF RunSeen
<1>3. ASSUME NEW ok \in BOOLEAN, NEW found \in BOOLEAN,
             Goto(j, Transition([jobs[j] EXCEPT !.ok = ok, !.found = found]))
      PROVE  \E n \in JobRecord : SeenMove(j, n)
  <2> DEFINE job == [jobs[j] EXCEPT !.ok = ok, !.found = found]
  <2>1. /\ job \in JobRecord /\ job.kind = jobs[j].kind /\ job.step = jobs[j].step
        /\ job.new = jobs[j].new /\ job.srv = jobs[j].srv
    BY <1>1 DEF JobRecord
  <2>2. Goto(j, Transition(job))
    BY <1>3
  <2> HIDE DEF job
  <2> QED
    BY <1>1, <1>2, <2>1, <2>2, TransitionSeen
<1>4. CASE Goto(j, Transition([jobs[j] EXCEPT !.ok = TRUE]))
  <2>1. jobs[j].found \in BOOLEAN /\ [jobs[j] EXCEPT !.ok = TRUE] =
          [jobs[j] EXCEPT !.ok = TRUE, !.found = jobs[j].found]
    BY <1>1 DEF JobRecord
  <2> QED
    BY <1>3, <1>4, <2>1
<1>5. CASE \E answer \in IF Faults THEN BOOLEAN ELSE {remote.exporter # "absent"} :
             /\ answer => remote.exporter # "absent"
             /\ Goto(j, Transition(
                   [jobs[j] EXCEPT !.ok = answer,
                      !.found = IF jobs[j].step = Install THEN answer ELSE @]))
  <2>1. PICK answer \in BOOLEAN :
             Goto(j, Transition(
                   [jobs[j] EXCEPT !.ok = answer,
                      !.found = IF jobs[j].step = Install THEN answer ELSE @]))
    BY <1>5
  <2> DEFINE found == IF jobs[j].step = Install THEN answer ELSE jobs[j].found
  <2>2. found \in BOOLEAN
    BY <1>1, <2>1 DEF JobRecord
  <2>3. Goto(j, Transition([jobs[j] EXCEPT !.ok = answer, !.found = found]))
    BY <2>1
  <2> HIDE DEF found
  <2> QED
    BY <1>3, <2>2, <2>3
<1>6. CASE Goto(j, Raised(jobs[j], "other"))
  BY <1>1, <1>2, <1>6, RaisedSeen
<1> QED
  BY <1>4, <1>5, <1>6 DEF Work

LEMMA ConfigureFirewallSeen ==
  ASSUME IInv, NEW j \in Jobs, jobs[j].kind = "run", RunSeen(jobs[j], ob), ConfigureFirewall(j)
  PROVE  \E n \in JobRecord : SeenMove(j, n)
<1>1. /\ TypeOK /\ jobs[j].pc = "work" /\ jobs[j] \in JobRecord
      /\ UNCHANGED <<ob, server, req>>
  BY Types DEF IInv, TypeInv, ConfigureFirewall
<1>2. jobs[j].new = jobs[j].srv
  BY <1>1 DEF RunSeen
<1>3. ASSUME NEW ok \in BOOLEAN, Goto(j, Transition([jobs[j] EXCEPT !.ok = ok]))
      PROVE  \E n \in JobRecord : SeenMove(j, n)
  <2> DEFINE job == [jobs[j] EXCEPT !.ok = ok]
  <2>1. /\ job \in JobRecord /\ job.kind = jobs[j].kind /\ job.step = jobs[j].step
        /\ job.new = jobs[j].new /\ job.srv = jobs[j].srv
    BY <1>1 DEF JobRecord
  <2>2. Goto(j, Transition(job))
    BY <1>3
  <2> HIDE DEF job
  <2> QED
    BY <1>1, <1>2, <2>1, <2>2, TransitionSeen
<1>4. CASE Goto(j, Raised(jobs[j], "other"))
  BY <1>1, <1>2, <1>4, RaisedSeen
<1>5. \/ Goto(j, Transition([jobs[j] EXCEPT !.ok = TRUE]))
      \/ Goto(j, Transition([jobs[j] EXCEPT !.ok = FALSE]))
      \/ Goto(j, Raised(jobs[j], "other"))
  BY DEF ConfigureFirewall
<1> QED
  BY <1>3, <1>4, <1>5

LEMMA InstallExporterSeen ==
  ASSUME IInv, NEW j \in Jobs, jobs[j].kind = "run", RunSeen(jobs[j], ob), InstallExporter(j)
  PROVE  \E n \in JobRecord : SeenMove(j, n)
<1>1. /\ TypeOK /\ jobs[j].pc = "install" /\ jobs[j] \in JobRecord
      /\ UNCHANGED <<ob, server, req>>
  BY Types DEF IInv, TypeInv, InstallExporter
<1>2. jobs[j].new = jobs[j].srv
  BY <1>1 DEF RunSeen
<1>3. CASE Goto(j, [jobs[j] EXCEPT !.pc = "guard", !.installed = TRUE])
  <2> DEFINE n == [jobs[j] EXCEPT !.pc = "guard", !.installed = TRUE]
  <2>1. /\ n \in JobRecord /\ n.kind = "run" /\ n.pc = "guard" /\ n.copy = jobs[j].copy
        /\ n.step = jobs[j].step /\ n.new = jobs[j].new /\ n.srv = jobs[j].srv
    BY <1>1 DEF JobRecord, JobPcs
  <2>2. Goto(j, n)
    BY <1>3
  <2> HIDE DEF n
  <2> QED
    BY <1>1, <2>1, <2>2, OnwardSeen
<1>4. CASE Goto(j, Raised(jobs[j], "other"))
  BY <1>1, <1>2, <1>4, RaisedSeen
<1> QED
  BY <1>3, <1>4 DEF InstallExporter

LEMMA UpdateExporterSeen ==
  ASSUME IInv, NEW j \in Jobs, jobs[j].kind = "run", RunSeen(jobs[j], ob), UpdateExporter(j)
  PROVE  \E n \in JobRecord : SeenMove(j, n)
<1>1. /\ TypeOK /\ jobs[j].pc = "install" /\ jobs[j] \in JobRecord
      /\ UNCHANGED <<ob, server, req>>
  BY Types DEF IInv, TypeInv, UpdateExporter
<1>2. jobs[j].new = jobs[j].srv
  BY <1>1 DEF RunSeen
<1>3. CASE Goto(j, [jobs[j] EXCEPT !.pc = "guard"])
  <2> DEFINE n == [jobs[j] EXCEPT !.pc = "guard"]
  <2>1. /\ n \in JobRecord /\ n.kind = "run" /\ n.pc = "guard" /\ n.copy = jobs[j].copy
        /\ n.step = jobs[j].step /\ n.new = jobs[j].new /\ n.srv = jobs[j].srv
    BY <1>1 DEF JobRecord, JobPcs
  <2>2. Goto(j, n)
    BY <1>3
  <2> HIDE DEF n
  <2> QED
    BY <1>1, <2>1, <2>2, OnwardSeen
<1>4. CASE Goto(j, Raised(jobs[j], "other"))
  BY <1>1, <1>2, <1>4, RaisedSeen
<1> QED
  BY <1>3, <1>4 DEF UpdateExporter

LEMMA GuardSeen ==
  ASSUME IInv, NEW j \in Jobs, jobs[j].kind = "run", RunSeen(jobs[j], ob), Guard(j)
  PROVE  \E n \in JobRecord : SeenMove(j, n)
<1> DEFINE job == [jobs[j] EXCEPT !.step = Firewall]
<1>1. /\ TypeOK /\ jobs[j].pc = "guard" /\ jobs[j] \in JobRecord
      /\ UNCHANGED <<ob, server, req>> /\ Goto(j, CheckCancel(job, "work"))
  BY Types DEF IInv, TypeInv, Guard
<1>2. jobs[j].step = Install
  BY <1>1 DEF IInv, JobOK, RunOK, Live
<1>3. /\ job \in JobRecord /\ job.kind = "run" /\ job.step = jobs[j].step + 1
      /\ job.new = jobs[j].new /\ job.srv = jobs[j].srv
  BY <1>1, <1>2 DEF JobRecord, Firewall, Install, Steps
<1>4. jobs[j].new = jobs[j].srv
  BY <1>1 DEF RunSeen
<1> HIDE DEF job
<1> QED
  BY <1>1, <1>3, <1>4, CheckSeen

LEMMA PromoteSeen ==
  ASSUME IInv, NEW j \in Jobs, jobs[j].kind = "run", RunSeen(jobs[j], ob), Promote(j)
  PROVE  \E n \in JobRecord : SeenMove(j, n)
<1> DEFINE enabled == [jobs[j] EXCEPT !.new.enabled = TRUE]
           active == [enabled EXCEPT !.new.contract = "active"]
<1>1. /\ TypeOK /\ jobs[j].pc = "promote" /\ jobs[j] \in JobRecord
      /\ UNCHANGED <<ob, server, req>>
      /\ Goto(j, CheckCancel(active, "complete")) \/ Goto(j, Raised(enabled, "other"))
  BY Types DEF IInv, TypeInv, Promote
<1>2. jobs[j].step = 9 /\ Committed(jobs[j]) = 9
  BY <1>1, CommittedIs DEF IInv, JobOK, RunOK, Live, Validate
<1>3. /\ enabled \in JobRecord /\ enabled.kind = jobs[j].kind /\ enabled.step = jobs[j].step
      /\ enabled.copy = jobs[j].copy /\ enabled.new.enabled
  BY <1>1 DEF JobRecord, ServerRow
<1> HIDE DEF enabled
<1>4. /\ active \in JobRecord /\ active.kind = enabled.kind /\ active.step = enabled.step
      /\ active.copy = enabled.copy /\ active.new.enabled
  BY <1>3 DEF JobRecord, ServerRow
<1> HIDE DEF active
<1>5. CASE Goto(j, CheckCancel(active, "complete"))
  BY <1>1, <1>2, <1>3, <1>4, <1>5, CheckSeen
<1>6. CASE Goto(j, Raised(enabled, "other"))
  BY <1>1, <1>2, <1>3, <1>6, RaisedSeen
<1> QED
  BY <1>1, <1>5, <1>6

(* The commit of a transition. *)
LEMMA CommitSeen ==
  ASSUME IInv, NEW j \in Jobs, jobs[j].kind = "run", RunSeen(jobs[j], ob), Commit(j)
  PROVE  \E n \in JobRecord : SeenMove(j, n)
<1> DEFINE new == [jobs[j].copy EXCEPT !.status = Flow[jobs[j].step]]
           kept == [jobs[j] EXCEPT !.copy = new, !.idle = 0]
<1>1. /\ TypeOK /\ jobs[j].pc = "commit" /\ jobs[j] \in JobRecord /\ jobs[j].step \in Steps
      /\ CommitRow(jobs[j].copy, new) /\ UNCHANGED <<server, req>> /\ jobs[j].copy \in RowCopy
  BY Types DEF IInv, TypeInv, Commit
<1>2. /\ jobs[j].new = jobs[j].srv /\ jobs[j].copy.status = Written(jobs[j].step - 1)
      /\ Flow[jobs[j].step] # Written(jobs[j].step - 1)
      /\ Flow[jobs[j].step] = Written(jobs[j].step)
      /\ Flow[jobs[j].step] \notin Terminal
  BY <1>1, FlowTypes DEF RunSeen
<1>3. /\ new \in RowCopy /\ new.status = Flow[jobs[j].step]
      /\ new.cancelReq = jobs[j].copy.cancelReq /\ new.err = jobs[j].copy.err
  BY <1>1, StatusTypes DEF RowCopy
<1> HIDE DEF new
<1>4. /\ kept \in JobRecord /\ kept.kind = "run" /\ kept.step = jobs[j].step
      /\ kept.copy = new /\ kept.new = kept.srv
  <2>1. 0 \in 0 .. MaxGap
    BY OnboardingAssumption
  <2> QED
    BY <1>1, <1>2, <1>3, <2>1 DEF JobRecord
<1>5. /\ ob'.status = Flow[jobs[j].step] /\ ob'.cancelReq = ob.cancelReq /\ ob'.err = ob.err
  <2>1. ob \in ObRow
    BY <1>1, Types
  <2> QED
    BY <1>1, <1>2, <1>3, <2>1, CommittedRow
<1>6. Agrees(ob') /\ ob'.status # "cancelled"
  BY <1>2, <1>5 DEF RunSeen, Agrees, Terminal
<1>7. Committed(jobs[j]) = jobs[j].step - 1 /\ jobs[j].step - 1 \in 0 .. 8
  BY <1>1, CommittedIs DEF Steps
<1> HIDE DEF kept
<1>8. ASSUME NEW n \in JobRecord, Goto(j, n), n.kind = "run", n.copy = new, n.new = n.srv,
             \/ n.pc \in {"install", "promote"} /\ n.step = jobs[j].step
             \/ n.pc = "work" /\ n.step = jobs[j].step + 1
             \/ n.pc = "fail"
      PROVE  SeenMove(j, n)
  <2>1. n.pc # "fail" => Committed(n) = jobs[j].step
    BY <1>1, <1>8, CommittedIs DEF Steps
  <2>2. n.copy.status \notin Terminal
    BY <1>2, <1>3, <1>8
  <2>3. RunSeen(n, ob')
    BY <1>2, <1>5, <1>6, <1>8, <2>1, <2>2 DEF RunSeen
  <2>4. Alive(n)
    BY <1>8 DEF Alive
  <2>5. Seems(jobs[j], n, ob, ob')
    <3>1. jobs[j].step = (jobs[j].step - 1) + 1
      BY <1>1 DEF Steps
    <3> QED
      BY <1>5, <1>7, <1>8, <2>1, <3>1 DEF Seems
  <2> QED
    BY <1>1, <1>8, <2>3, <2>4, <2>5 DEF SeenMove, Goto
<1>9. Goto(j, CASE StepFailed(jobs[j]) -> Raised(kept, "other")
                [] jobs[j].step = Install -> [kept EXCEPT !.pc = "install"]
                [] jobs[j].step = Validate -> [kept EXCEPT !.pc = "promote"]
                [] OTHER -> [kept EXCEPT !.pc = "work", !.step = @ + 1])
  BY DEF Commit, kept, new
<1>10. CASE StepFailed(jobs[j])
  <2>1. Goto(j, Raised(kept, "other"))
    <3>1. jobs[j].step # Install /\ jobs[j].step # Validate
      BY <1>10 DEF StepFailed, Install, Firewall, Verify, Validate
    <3> QED
      BY <1>9, <1>10, <3>1, Zenon
  <2>2. LET n == Raised(kept, "other")
        IN  n \in JobRecord /\ n.kind = "run" /\ n.copy = new /\ n.new = n.srv /\ n.pc = "fail"
    BY <1>4, RaisedJob DEF Errors
  <2> QED
    BY <1>8, <2>1, <2>2
<1>11. CASE ~StepFailed(jobs[j]) /\ jobs[j].step \in {Install, Validate}
  <2>1. PICK pc \in {"install", "promote"} : Goto(j, [kept EXCEPT !.pc = pc])
    <3>1. CASE jobs[j].step = Install
      BY <1>9, <1>11, <3>1, Zenon
    <3>2. CASE jobs[j].step = Validate
      <4>1. jobs[j].step # Install
        BY <3>2 DEF Install, Validate
      <4> QED
        BY <1>9, <1>11, <3>2, <4>1, Zenon
    <3> QED
      BY <1>11, <3>1, <3>2
  <2>2. pc \in JobPcs
    BY DEF JobPcs
  <2>3. LET n == [kept EXCEPT !.pc = pc]
        IN  /\ n \in JobRecord /\ n.kind = "run" /\ n.copy = new /\ n.new = n.srv
            /\ n.pc \in {"install", "promote"} /\ n.step = jobs[j].step
    BY <1>4, <2>2, MovedJob
  <2> QED
    BY <1>8, <2>1, <2>3
<1>12. CASE ~StepFailed(jobs[j]) /\ jobs[j].step \notin {Install, Validate}
  <2> DEFINE n == [kept EXCEPT !.pc = "work", !.step = @ + 1]
  <2>1. Goto(j, n)
    <3>1. jobs[j].step # Install /\ jobs[j].step # Validate
      BY <1>12
    <3> QED
      BY <1>9, <1>12, <3>1, Zenon
  <2>2. jobs[j].step + 1 \in Steps /\ "work" \in JobPcs
    BY <1>1, <1>12 DEF Steps, Validate, JobPcs
  <2>3. /\ n \in JobRecord /\ n.kind = "run" /\ n.copy = new /\ n.new = n.srv
        /\ n.pc = "work" /\ n.step = jobs[j].step + 1
    BY <1>4, <2>2 DEF JobRecord
  <2> HIDE DEF n
  <2> QED
    BY <1>8, <2>1, <2>3
<1> QED
  BY <1>10, <1>11, <1>12

-----------------------------------------------------------------------------
(* Every step, as the dialog shows it.                                     *)

Shown == <<ob.status, Working, Progress, Asked, server.enabled>>

(* The job at work, if one is. *)
View ==
  /\ NoJobLive => Working = "none" /\ Progress = 0
  /\ \A j \in Jobs : Live(j) =>
       /\ ~NoJobLive /\ Working = WorkOf(jobs[j])
       /\ Progress = IF WorkOf(jobs[j]) = "run" THEN Committed(jobs[j]) ELSE 0

LEMMA Viewed == OneJob => View
<1>1. ASSUME OneJob, NEW j \in Jobs, Live(j)
      PROVE  /\ ~NoJobLive /\ Working = WorkOf(jobs[j])
             /\ Progress = IF WorkOf(jobs[j]) = "run" THEN Committed(jobs[j]) ELSE 0
  <2>1. (CHOOSE i \in Jobs : Live(i)) = j
    BY <1>1 DEF OneJob
  <2>2. ~NoJobLive /\ TheJob = jobs[j]
    BY <1>1, <2>1 DEF NoJobLive, TheJob
  <2> QED
    BY <2>2 DEF Working, Progress
<1>2. NoJobLive => Working = "none" /\ Progress = 0
  BY DEF Working, Progress
<1> QED
  BY <1>1, <1>2 DEF View

LEMMA ViewedNext == OneJob' => View'
BY Viewed, PTL

LEMMA AskedIs == Asked <=> \E r \in Requests : Asks(req[r])
BY DEF Asked, Asks

LEMMA AskedNext == Asked' <=> \E r \in Requests : Asks(req'[r])
BY DEF Asked, Asks

(* While a job is at work, no request recovers or starts another. *)
LEMMA JobAlone ==
  ASSUME Calm, IInv, ~NoJobLive, NEW r \in Requests
  PROVE  ~(req[r].pc = "recover" \/ (req[r].pc = "act" /\ req[r].op \in Spawning))
BY DEF IInv, CalmInv, Starts, InFlight

(* A run that goes on. *)
LEMMA MoveShown ==
  ASSUME Calm, IInv, IInv', SeenInv, NEW j \in Jobs, Live(j), jobs[j].kind = "run",
         NEW n \in JobRecord, SeenMove(j, n)
  PROVE  SeenInv' /\ [Promise!PromiseNext]_Shown
<1>1. /\ jobs'[j] = n /\ n.kind = "run" /\ Alive(n) /\ Live(j)'
      /\ req' = req /\ server' = server /\ RunSeen(n, ob')
      /\ jobs[j].pc # "fail" /\ Seems(jobs[j], n, ob, ob')
  BY Types DEF SeenMove, Live, Alive, IInv, TypeInv
<1>2. \A i \in Jobs : Live(i)' => i = j
  BY <1>1 DEF IInv, OneJob
<1>3. SeenInv'
  <2>1. ~NoJobLive
    BY DEF NoJobLive
  <2>2. \A r \in Requests : ~(req'[r].pc = "recover" \/ (req'[r].pc = "act" /\ req'[r].op \in Spawning))
    BY <1>1, <2>1, JobAlone
  <2>3. Agrees(ob')
    BY <1>1 DEF RunSeen
  <2>4. \A r \in Requests : Asks(req'[r]) => Agrees(req'[r].copy)
    BY <1>1 DEF SeenInv
  <2> QED
    BY <1>1, <1>2, <2>2, <2>3, <2>4 DEF SeenInv
<1>4. Asked' = Asked /\ server'.enabled = server.enabled
  BY <1>1 DEF Asked
<1>5. Working = "run" /\ Progress = Committed(jobs[j])
  BY <1>1, WorkIs, Viewed DEF IInv, View
<1>6. /\ n.pc # "fail" => Working' = "run" /\ Progress' = Committed(n)
      /\ n.pc = "fail" /\ n.new = n.srv => Working' = "stopped" /\ Progress' = 0
      /\ n.pc = "fail" => Working' \in {"stopped", "stopped late"} /\ Progress' = 0
  <2>1. /\ Working' = WorkOf(n)
        /\ Progress' = IF WorkOf(n) = "run" THEN Committed(n) ELSE 0
    BY <1>1, ViewedNext DEF IInv, View
  <2> QED
    BY <1>1, <2>1, WorkIs
<1>7. Len(Flow) = 9
  BY FlowTypes
<1>8. CASE ob'.status = ob.status /\ n.pc # "fail" /\ Committed(n) = Committed(jobs[j])
  BY <1>3, <1>4, <1>5, <1>6, <1>8 DEF Shown
<1>9. CASE /\ Committed(jobs[j]) \in 0 .. 8 /\ ob'.status = Flow[Committed(jobs[j]) + 1]
           /\ \/ n.pc # "fail" /\ Committed(n) = Committed(jobs[j]) + 1
              \/ n.pc = "fail" /\ n.new = n.srv
  <2>1. Progress < Len(Flow) /\ ob'.status = Flow[Progress + 1]
    BY <1>5, <1>7, <1>9
  <2>2. \/ Working' = "run" /\ Progress' = Progress + 1
        \/ Working' = "stopped" /\ Progress' = 0
    BY <1>5, <1>6, <1>9
  <2>3. Promise!Advance
    BY <1>4, <1>5, <2>1, <2>2 DEF Promise!Advance
  <2> QED
    BY <1>3, <2>3 DEF Promise!PromiseNext
<1>10. CASE /\ ob'.status = ob.status
            /\ n.pc = "fail" /\ (n.new = n.srv \/ Committed(jobs[j]) = 9)
  <2>1. Promise!GiveUp
    BY <1>4, <1>5, <1>6, <1>7, <1>10 DEF Promise!GiveUp, Promise!Validated
  <2> QED
    BY <1>3, <2>1 DEF Promise!PromiseNext
<1> QED
  BY <1>1, <1>3, <1>8, <1>9, <1>10 DEF Seems

(* A job that ends. *)
LEMMA EndShown ==
  ASSUME Calm, IInv, IInv', SeenInv, NEW j \in Jobs, Live(j),
         jobs' = [jobs EXCEPT ![j] = Ended(jobs[j])], req' = req, ob'.status \in Terminal
  PROVE  /\ SeenInv' /\ Working' = "none" /\ Progress' = 0 /\ Asked' = Asked
         /\ Working = WorkOf(jobs[j])
         /\ Progress = IF WorkOf(jobs[j]) = "run" THEN Committed(jobs[j]) ELSE 0
<1>1. \A i \in Jobs : jobs'[i] = IF i = j THEN Ended(jobs[j]) ELSE jobs[i]
  BY Types DEF IInv, TypeInv
<1>2. Ended(jobs[j]).pc = "done"
  BY EndedSlot DEF IInv, TypeInv
<1>3. \A i \in Jobs : ~Live(i)'
  BY <1>1, <1>2 DEF IInv, OneJob, Live
<1>4. SeenInv'
  <2>1. ~NoJobLive
    BY DEF NoJobLive
  <2>2. \A r \in Requests : ~(req'[r].pc = "recover" \/ (req'[r].pc = "act" /\ req'[r].op \in Spawning))
    BY <2>1, JobAlone
  <2>3. \A r \in Requests : Asks(req'[r]) => Agrees(req'[r].copy)
    BY DEF SeenInv
  <2> QED
    BY <1>3, <2>2, <2>3 DEF SeenInv
<1>5. NoJobLive'
  BY <1>3 DEF NoJobLive
<1>6. Working' = "none" /\ Progress' = 0
  BY <1>5, ViewedNext DEF IInv, View
<1>7. Asked' = Asked
  BY DEF Asked
<1> QED
  BY <1>4, <1>6, <1>7, Viewed DEF IInv, View

LEMMA CompleteShown ==
  ASSUME Calm, IInv, IInv', SeenInv, NEW j \in Jobs, jobs[j].kind = "run", Complete(j)
  PROVE  SeenInv' /\ [Promise!PromiseNext]_Shown
<1> DEFINE new == [jobs[j].copy EXCEPT !.status = "completed"]
<1>1. /\ TypeOK /\ Live(j) /\ jobs[j].pc = "complete" /\ CommitRow(jobs[j].copy, new)
      /\ server' = Merge(server, jobs[j].srv, jobs[j].new) /\ req' = req
      /\ jobs' = [jobs EXCEPT ![j] = Ended(jobs[j])]
  BY DEF Complete, Live, Goto, IInv, TypeInv
<1>2. RunOK(jobs[j], ob, server, remote) /\ RunSeen(jobs[j], ob)
  BY <1>1 DEF IInv, JobOK, SeenInv
<1>3. /\ jobs[j].srv = server /\ jobs[j].new.enabled /\ jobs[j].step = 9
      /\ jobs[j].copy.status = "validating" /\ jobs[j].copy \in RowCopy
  BY <1>1, <1>2, FlowTypes, Types DEF RunOK, RunSeen, Validate
<1>4. new \in RowCopy /\ new.status = "completed"
  BY <1>3, StatusTypes DEF RowCopy, Terminal
<1> HIDE DEF new
<1>5. ob'.status = "completed"
  BY <1>1, <1>3, <1>4, CommittedRow, Types
<1>6. server' = jobs[j].new /\ server'.enabled = TRUE
  <2>1. server' = jobs[j].new
    BY <1>1, <1>3, CommittedServer, Types
  <2>2. jobs[j].new.enabled \in BOOLEAN
    BY <1>1, Types DEF ServerRow
  <2> QED
    BY <1>3, <2>1, <2>2
<1>7. WorkOf(jobs[j]) = "run" /\ Committed(jobs[j]) = 9
  BY <1>1, <1>3, WorkIs, CommittedIs
<1>8. ob'.status \in Terminal
  BY <1>5 DEF Terminal
<1>9. /\ SeenInv' /\ Working' = "none" /\ Progress' = 0 /\ Asked' = Asked
      /\ Working = "run" /\ Progress = 9
  BY <1>1, <1>7, <1>8, EndShown
<1>10. Promise!Complete
  BY <1>5, <1>6, <1>9, FlowTypes DEF Promise!Complete, Promise!Validated
<1> QED
  BY <1>9, <1>10 DEF Promise!PromiseNext

LEMMA FailShown ==
  ASSUME Calm, IInv, IInv', SeenInv, NEW j \in Jobs, jobs[j].kind = "run", Fail(j)
  PROVE  SeenInv' /\ [Promise!PromiseNext]_Shown
<1> DEFINE seen == jobs[j].copy.status \in Terminal /\ jobs[j].copy.err \in {"cancelled", "job_expired"}
           new == [jobs[j].copy EXCEPT !.status = FailVerdict(jobs[j]), !.err = jobs[j].code]
<1>1. /\ TypeOK /\ Live(j) /\ jobs[j].pc = "fail" /\ req' = req
      /\ jobs' = [jobs EXCEPT ![j] = Ended(jobs[j])]
      /\ seen => UNCHANGED <<ob, server>>
      /\ ~seen => /\ CommitRow(jobs[j].copy, new)
                  /\ server' = Merge(server, jobs[j].srv, jobs[j].new)
  BY DEF Fail, Live, Goto, IInv, TypeInv
<1>2. RunOK(jobs[j], ob, server, remote) /\ RunSeen(jobs[j], ob)
  BY <1>1 DEF IInv, JobOK, SeenInv
<1>3. /\ jobs[j].srv = server /\ (jobs[j].new # jobs[j].srv => jobs[j].new.enabled)
      /\ seen => ob.status = "cancelled"
      /\ ~seen => jobs[j].copy.status \notin Terminal
  BY <1>1, <1>2 DEF RunOK, RunSeen
<1>4. WorkOf(jobs[j]) = IF jobs[j].new = jobs[j].srv THEN "stopped" ELSE "stopped late"
  BY <1>1, WorkIs
<1>5. CASE seen
  <2>1. /\ SeenInv' /\ Working' = "none" /\ Progress' = 0 /\ Asked' = Asked
        /\ Working \in {"stopped", "stopped late"} /\ Progress = 0
    <3>1. ob'.status \in Terminal
      BY <1>1, <1>3, <1>5 DEF Terminal
    <3> QED
      BY <1>1, <1>4, <3>1, EndShown
  <2>2. ob.status = "cancelled" /\ ob' = ob /\ server' = server
    BY <1>1, <1>3, <1>5
  <2> HIDE DEF seen, new
  <2>3. Promise!Report
    BY <2>1, <2>2 DEF Promise!Report
  <2> QED
    BY <2>1, <2>3 DEF Promise!PromiseNext
<1>6. CASE ~seen
  <2>1. jobs[j].copy \in RowCopy /\ jobs[j].code \in Errors
    BY <1>1, Types DEF JobRecord
  <2>2. FailVerdict(jobs[j]) \in {"failed", "rollback_required"}
    BY DEF FailVerdict
  <2>3. new \in RowCopy /\ new.status = FailVerdict(jobs[j])
    BY <2>1, <2>2, StatusTypes DEF RowCopy, Terminal
  <2>4. /\ CommitRow(jobs[j].copy, new) /\ jobs[j].copy.status \notin Terminal
        /\ server' = Merge(server, jobs[j].srv, jobs[j].new)
    BY <1>1, <1>3, <1>6
  <2> HIDE DEF seen, new
  <2>5. ob'.status \in {"failed", "rollback_required"}
    <3>1. FailVerdict(jobs[j]) # jobs[j].copy.status
      BY <2>2, <2>4 DEF Terminal
    <3> QED
      BY <1>1, <2>1, <2>2, <2>3, <2>4, <3>1, CommittedRow, Types
  <2>6. server' = jobs[j].new
    BY <1>1, <1>3, <2>4, CommittedServer, Types
  <2>7. /\ SeenInv' /\ Working' = "none" /\ Progress' = 0 /\ Asked' = Asked
        /\ Working = WorkOf(jobs[j]) /\ Progress = 0
    <3>1. ob'.status \in Terminal
      BY <2>5 DEF Terminal
    <3> QED
      BY <1>1, <1>4, <3>1, EndShown
  <2>8. server'.enabled = IF Working = "stopped late" THEN TRUE ELSE server.enabled
    <3>1. jobs[j].new.enabled \in BOOLEAN
      BY <1>1, Types DEF ServerRow
    <3>2. CASE jobs[j].new = jobs[j].srv
      BY <1>3, <1>4, <2>6, <2>7, <3>2
    <3>3. CASE jobs[j].new # jobs[j].srv
      BY <1>3, <1>4, <2>6, <2>7, <3>1, <3>3
    <3> QED
      BY <3>2, <3>3
  <2>9. Working \in {"stopped", "stopped late"}
    BY <1>4, <2>7
  <2>10. Promise!Report
    BY <2>5, <2>7, <2>8, <2>9 DEF Promise!Report
  <2> QED
    BY <2>7, <2>10 DEF Promise!PromiseNext
<1> QED
  BY <1>5, <1>6

(* A rollback that goes on. *)
LEMMA RollbackMoveShown ==
  ASSUME Calm, IInv, IInv', SeenInv, NEW j \in Jobs, Live(j), jobs[j].kind = "rollback",
         NEW n, Goto(j, n), n.kind = "rollback", n.pc \notin {"free", "done"},
         UNCHANGED <<ob, server, req>>,
         n.copy = Row \/ (jobs[j].pc # "load" /\ n.copy = jobs[j].copy)
  PROVE  SeenInv' /\ [Promise!PromiseNext]_Shown
<1>1. jobs'[j] = n /\ Live(j)' /\ ~NoJobLive /\ RollbackSeen(jobs[j], ob)
      /\ \A r \in Requests : ~Asks(req[r])
  BY Types DEF Goto, Live, NoJobLive, IInv, TypeInv, SeenInv
<1>2. \A i \in Jobs : Live(i)' => i = j
  BY <1>1 DEF IInv, OneJob
<1>3. RollbackSeen(n, ob')
  BY <1>1, Types, RowType DEF RollbackSeen, IInv, TypeInv
<1>4. SeenInv'
  <2>1. \A r \in Requests : ~(req'[r].pc = "recover" \/ (req'[r].pc = "act" /\ req'[r].op \in Spawning))
    BY <1>1, JobAlone
  <2>2. ob'.status \in Terminal
    BY <1>3 DEF RollbackSeen, Terminal
  <2>3. \A r \in Requests : ~Asks(req'[r])
    BY <1>1
  <2> QED
    BY <1>1, <1>2, <1>3, <2>1, <2>2, <2>3 DEF SeenInv
<1>5. Working = "rollback" /\ Progress = 0
  BY WorkIs, Viewed DEF IInv, View
<1>6. Working' = "rollback" /\ Progress' = 0
  BY <1>1, WorkIs, ViewedNext DEF IInv, View
<1>7. Asked' = Asked
  BY DEF Asked
<1> QED
  BY <1>4, <1>5, <1>6, <1>7 DEF Shown

(* Where a rollback stands in each of its steps, which touch the host only. *)
LEMMA RollbackPlace ==
  ASSUME TypeOK, NEW j \in Jobs
  PROVE  /\ LoadRollback(j) => jobs[j].pc = "load" /\ jobs[j].kind = "rollback"
         /\ RemoveExporter(j) => jobs[j].pc = "remove"
         /\ RemoveFirewall(j) => jobs[j].pc = "unfirewall"
         /\ CloseRollback(j) => jobs[j].pc = "close"
         /\ AbortRollback(j) => jobs[j].pc = "abort"
         /\ LoadRollback(j) \/ RemoveExporter(j) \/ RemoveFirewall(j) =>
              UNCHANGED <<ob, server, req>>
<1>1. LoadRollback(j) => /\ jobs[j].pc = "load" /\ jobs[j].kind = "rollback"
                         /\ UNCHANGED <<ob, server, req>>
  BY Types DEF LoadRollback, JobRecord
<1>2. RemoveExporter(j) => jobs[j].pc = "remove" /\ UNCHANGED <<ob, server, req>>
  BY DEF RemoveExporter
<1>3. RemoveFirewall(j) => jobs[j].pc = "unfirewall" /\ UNCHANGED <<ob, server, req>>
  BY DEF RemoveFirewall
<1>4. CloseRollback(j) => jobs[j].pc = "close"
  BY DEF CloseRollback
<1>5. AbortRollback(j) => jobs[j].pc = "abort"
  BY DEF AbortRollback
<1> QED
  BY <1>1, <1>2, <1>3, <1>4, <1>5

LEMMA RollbackStepShown ==
  ASSUME Calm, IInv, IInv', SeenInv, NEW j \in Jobs, jobs[j].kind = "rollback",
         LoadRollback(j) \/ RemoveExporter(j) \/ RemoveFirewall(j)
  PROVE  SeenInv' /\ [Promise!PromiseNext]_Shown
<1>1. Live(j) /\ UNCHANGED <<ob, server, req>> /\ jobs[j] \in JobRecord
  BY Types, RollbackPlace DEF Live, IInv, TypeInv
<1>2. CASE LoadRollback(j)
  <2> DEFINE job == [jobs[j] EXCEPT !.copy = Row, !.srv = server, !.new = server]
  <2>1. PICK pc \in {"remove", "abort"} : Goto(j, [job EXCEPT !.pc = pc])
    BY <1>2 DEF LoadRollback
  <2>2. job \in JobRecord /\ job.kind = "rollback" /\ job.copy = Row
    BY <1>1, Types, RowType DEF JobRecord, IInv, TypeInv
  <2> HIDE DEF job
  <2> DEFINE n == [job EXCEPT !.pc = pc]
  <2>3. n.kind = "rollback" /\ n.pc = pc /\ n.copy = Row
    BY <2>1, <2>2, MovedJob DEF JobPcs
  <2>4. Goto(j, n)
    BY <2>1
  <2> HIDE DEF n
  <2> QED
    BY <1>1, <2>1, <2>3, <2>4, RollbackMoveShown
<1>3. CASE RemoveExporter(j) \/ RemoveFirewall(j)
  <2>1. jobs[j].pc # "load"
    BY <1>3 DEF RemoveExporter, RemoveFirewall
  <2>2. ASSUME NEW ok \in BOOLEAN, NEW pc \in {"unfirewall", "close"},
               Goto(j, [jobs[j] EXCEPT !.pc = pc, !.ok = ok])
        PROVE  SeenInv' /\ [Promise!PromiseNext]_Shown
    <3> DEFINE n == [jobs[j] EXCEPT !.pc = pc, !.ok = ok]
    <3>1. n.kind = "rollback" /\ n.pc = pc /\ n.copy = jobs[j].copy
      BY <1>1 DEF JobRecord
    <3>2. Goto(j, n)
      BY <2>2
    <3> HIDE DEF n
    <3> QED
      BY <1>1, <2>1, <3>1, <3>2, RollbackMoveShown
  <2>3. ASSUME NEW pc \in {"close", "abort"}, Goto(j, [jobs[j] EXCEPT !.pc = pc])
        PROVE  SeenInv' /\ [Promise!PromiseNext]_Shown
    <3> DEFINE n == [jobs[j] EXCEPT !.pc = pc]
    <3>1. n.kind = "rollback" /\ n.pc = pc /\ n.copy = jobs[j].copy
      BY <1>1 DEF JobRecord
    <3>2. Goto(j, n)
      BY <2>3
    <3> HIDE DEF n
    <3> QED
      BY <1>1, <2>1, <3>1, <3>2, RollbackMoveShown
  <2>4. \/ \E ok \in BOOLEAN, pc \in {"unfirewall", "close"} :
             Goto(j, [jobs[j] EXCEPT !.pc = pc, !.ok = ok])
        \/ \E pc \in {"close", "abort"} : Goto(j, [jobs[j] EXCEPT !.pc = pc])
    <3>1. CASE RemoveExporter(j)
      BY <3>1 DEF RemoveExporter
    <3>2. CASE RemoveFirewall(j)
      BY <3>2 DEF RemoveFirewall
    <3> QED
      BY <1>3, <3>1, <3>2
  <2> QED
    BY <2>2, <2>3, <2>4
<1> QED
  BY <1>2, <1>3

(* The verdict of a rollback. *)
LEMMA RollbackEndShown ==
  ASSUME Calm, IInv, IInv', SeenInv, NEW j \in Jobs, jobs[j].kind = "rollback",
         CloseRollback(j) \/ AbortRollback(j)
  PROVE  SeenInv' /\ [Promise!PromiseNext]_Shown
<1>1. /\ TypeOK /\ Live(j) /\ jobs[j].pc # "load" /\ req' = req
      /\ jobs' = [jobs EXCEPT ![j] = Ended(jobs[j])]
  BY DEF CloseRollback, AbortRollback, Live, Goto, IInv, TypeInv
<1>2. /\ jobs[j].srv = server /\ jobs[j].new = server /\ jobs[j].copy \in RowCopy
      /\ ob.status = "rollback_required" /\ jobs[j].copy.status = "rollback_required"
  BY <1>1, Types DEF IInv, JobOK, RollbackOK, SeenInv, RollbackSeen
<1>3. PICK status \in {"failed", "rollback_required"} :
         /\ CommitRow(jobs[j].copy, [jobs[j].copy EXCEPT !.status = status])
         /\ \/ server' = Merge(server, jobs[j].srv, Disabled(jobs[j]))
            \/ server' = server /\ status = "rollback_required"
  <2>1. CASE CloseRollback(j)
    BY <2>1 DEF CloseRollback
  <2>2. CASE AbortRollback(j)
    BY <2>2 DEF AbortRollback
  <2> QED
    BY <2>1, <2>2
<1> DEFINE new == [jobs[j].copy EXCEPT !.status = status]
<1>4. new \in RowCopy /\ new.status = status /\ CommitRow(jobs[j].copy, new)
  BY <1>2, <1>3, StatusTypes DEF RowCopy, Terminal
<1> HIDE DEF new
<1>5. ob'.status = status
  BY <1>1, <1>2, <1>3, <1>4, CommittedRow, Types
<1>6. /\ server'.enabled \in {FALSE, server.enabled}
      /\ status = "failed" => server'.enabled = FALSE
  <2>1. Disabled(jobs[j]) \in ServerRow /\ Disabled(jobs[j]).enabled = FALSE
    BY <1>1, Types DEF Disabled, ServerRow
  <2>2. Merge(server, jobs[j].srv, Disabled(jobs[j])) = Disabled(jobs[j])
    BY <1>1, <1>2, <2>1, CommittedServer, Types
  <2> QED
    BY <1>3, <2>1, <2>2
<1>7. /\ SeenInv' /\ Working' = "none" /\ Progress' = 0 /\ Asked' = Asked
      /\ Working = "rollback" /\ Progress = 0
  <2>1. ob'.status \in Terminal
    BY <1>3, <1>5 DEF Terminal
  <2> QED
    BY <1>1, <2>1, EndShown, WorkIs
<1>8. Promise!Undo
  BY <1>3, <1>5, <1>6, <1>7 DEF Promise!Undo
<1> QED
  BY <1>7, <1>8 DEF Promise!PromiseNext

(* Every step of a job. *)
LEMMA JobShown ==
  ASSUME Calm, IInv, IInv', SeenInv, NEW j \in Jobs, RunStep(j) \/ RollbackStep(j)
  PROVE  SeenInv' /\ [Promise!PromiseNext]_Shown
<1>1. Live(j) /\ Sorted(jobs[j]) /\ jobs[j].kind \in {"run", "rollback"}
  <2>1. jobs[j].pc \notin {"free", "done"}
    <3>1. Stopped(j) \/ \E n \in JobRecord : Moved(j, n)
      BY JobStep DEF IInv, TypeInv
    <3> QED
      BY <3>1 DEF Stopped, Moved, Live
  <2> QED
    BY <2>1, Types DEF Live, IInv, TypeInv
<1>2. CASE jobs[j].kind = "run"
  <2>1. RunSeen(jobs[j], ob)
    BY <1>1, <1>2 DEF SeenInv
  <2>2. RunStep(j)
    BY <1>1, <1>2, RollbackPlace DEF RollbackStep, Sorted, RunPcs, Going, IInv, TypeInv
  <2>3. CASE Load(j) \/ Work(j) \/ ConfigureFirewall(j) \/ Commit(j) \/ InstallExporter(j)
             \/ UpdateExporter(j) \/ Guard(j) \/ Promote(j)
    <3>1. \E n \in JobRecord : SeenMove(j, n)
      BY <1>2, <2>1, <2>3, LoadSeen, WorkSeen, ConfigureFirewallSeen, CommitSeen,
         InstallExporterSeen, UpdateExporterSeen, GuardSeen, PromoteSeen
    <3> QED
      BY <1>1, <1>2, <3>1, MoveShown
  <2>4. CASE Complete(j) \/ Fail(j)
    BY <1>2, <2>4, CompleteShown, FailShown
  <2> QED
    BY <2>2, <2>3, <2>4 DEF RunStep
<1>3. CASE jobs[j].kind = "rollback"
  <2>1. RollbackStep(j)
    BY <1>1, <1>3
    DEF RunStep, Load, Work, ConfigureFirewall, Commit, InstallExporter, UpdateExporter,
        Guard, Promote, Complete, Fail, Sorted, RollbackPcs
  <2> QED
    BY <1>3, <2>1, RollbackStepShown, RollbackEndShown DEF RollbackStep
<1> QED
  BY <1>1, <1>2, <1>3

(* Requests.  A request that is answered asks nothing any more. *)
LEMMA AnsweredShown ==
  ASSUME Calm, IInv, NEW r \in Requests, Answer(r)
  PROVE  /\ ~Asked' /\ \A q \in Requests : q = r
         /\ ~(req'[r].pc = "recover" \/ (req'[r].pc = "act" /\ req'[r].op \in Spawning))
         /\ ~Asks(req'[r])
<1>1. req'[r].pc = "idle" /\ \A q \in Requests : q = r
  BY Types DEF IInv, TypeInv, Answer, IdleReq, Calm
<1>2. ~Asks(req'[r])
  BY <1>1 DEF Asks
<1> QED
  BY <1>1, <1>2, AskedNext

(* What is shown of a job that no request disturbs. *)
LEMMA SameJob ==
  ASSUME IInv, IInv', jobs' = jobs
  PROVE  Working' = Working /\ Progress' = Progress
BY DEF Working, Progress, TheJob, NoJobLive, Live

LEMMA BeginShown ==
  ASSUME Calm, IInv, IInv', SeenInv, NEW r \in Requests, NEW op \in Ops, Begin(r, op)
  PROVE  SeenInv' /\ [Promise!PromiseNext]_Shown
<1> DEFINE pc == IF Expired /\ op # "rollback" THEN "recover" ELSE "act"
           new == [op |-> op, copy |-> Row, pc |-> pc]
<1>1. /\ req[r].pc = "idle" /\ req' = [req EXCEPT ![r] = new]
      /\ UNCHANGED <<ob, server, jobs>> /\ req'[r] = new /\ \A q \in Requests : q = r
  BY Types DEF Begin, Calm, IInv, TypeInv
<1>2. new.copy = Row /\ Row' = Row /\ Row.status = ob.status /\ (Agrees(ob) => Agrees(Row))
  BY <1>1 DEF Row, Agrees
<1> HIDE DEF new
<1>3. ~Asked
  BY <1>1, AskedIs DEF Asks
<1>4. Asked' <=> Asks(new)
  BY <1>1, AskedNext
<1>5. Asks(new) => ob.status \notin Terminal /\ Agrees(new.copy)
  BY <1>2 DEF Asks, SeenInv
<1>6. Working' = Working /\ Progress' = Progress
  BY <1>1, SameJob
<1>7. SeenInv'
  <2>1. \A j \in Jobs : Live(j)' =>
          /\ jobs'[j].kind = "run" => RunSeen(jobs'[j], ob')
          /\ jobs'[j].kind = "rollback" =>
               RollbackSeen(jobs'[j], ob') /\ \A q \in Requests : ~Asks(req'[q])
    <3> SUFFICES ASSUME NEW j \in Jobs, Live(j)
                 PROVE  /\ jobs[j].kind = "run" => RunSeen(jobs[j], ob)
                        /\ jobs[j].kind = "rollback" =>
                             RollbackSeen(jobs[j], ob) /\ \A q \in Requests : ~Asks(req'[q])
      BY <1>1 DEF Live
    <3>1. /\ jobs[j].kind = "run" => RunSeen(jobs[j], ob)
          /\ jobs[j].kind = "rollback" => RollbackSeen(jobs[j], ob)
      BY DEF SeenInv
    <3>2. RollbackSeen(jobs[j], ob) => ~Asks(new)
      BY <1>5 DEF RollbackSeen, Terminal
    <3> QED
      BY <1>1, <3>1, <3>2
  <2>2. ob'.status \notin Terminal => Agrees(ob')
    BY <1>1 DEF SeenInv
  <2> QED
    BY <1>1, <1>2, <1>5, <2>1, <2>2 DEF SeenInv
<1>8. CASE Asks(new)
  <2>1. Asked' = TRUE
    BY <1>4, <1>8 DEF Asked
  <2>2. ob.status \notin Promise!Ended
    BY <1>5, <1>8 DEF Promise!Ended, Terminal
  <2>3. Promise!Ask
    BY <1>1, <1>3, <1>6, <2>1, <2>2 DEF Promise!Ask
  <2> QED
    BY <1>7, <2>3 DEF Promise!PromiseNext
<1>9. CASE ~Asks(new)
  <2>1. Asked' = Asked
    BY <1>3, <1>4, <1>9 DEF Asked
  <2> QED
    BY <1>1, <1>6, <1>7, <2>1 DEF Shown
<1> QED
  BY <1>8, <1>9

LEMMA RecoverShown ==
  ASSUME Calm, IInv, IInv', SeenInv, NEW r \in Requests, Recover(r)
  PROVE  SeenInv' /\ [Promise!PromiseNext]_Shown
<1> DEFINE copy == req[r].copy
           code == IF copy.cancelReq THEN "cancelled" ELSE "job_expired"
           verdict == IF code = "cancelled" THEN "cancelled" ELSE "failed"
           new == [copy EXCEPT !.status = verdict, !.err = code]
<1>1. /\ TypeOK /\ req[r].pc = "recover" /\ CommitRow(copy, new)
      /\ UNCHANGED <<server, jobs>> /\ copy = Row /\ copy.status \notin Terminal /\ NoJobLive
      /\ \A q \in Requests : q = r
  BY DEF Recover, IInv, TypeInv, SeenInv, RequestsInv, CalmInv, Calm
<1>2. /\ ob \in ObRow /\ copy \in RowCopy /\ copy.status = ob.status
      /\ copy.cancelReq = ob.cancelReq /\ copy.err = ob.err
  BY <1>1, Types, RowType
<1>3. /\ new \in RowCopy /\ new.status = verdict /\ new.err = code
      /\ new.cancelReq = copy.cancelReq
  <2>1. verdict \in Statuses /\ code \in Errors
    BY StatusTypes DEF Terminal, Errors
  <2> HIDE DEF verdict, code, copy
  <2> QED
    BY <1>2, <2>1 DEF RowCopy
<1>4. verdict \in {"failed", "cancelled"}
  OBVIOUS
<1>5. req' = [req EXCEPT ![r] = IdleReq] \/ req' = [req EXCEPT ![r].copy = new, ![r].pc = "act"]
  BY DEF Recover, Answer
<1> HIDE DEF copy, code, verdict, new
<1>6. ob'.status = new.status /\ ob'.cancelReq = new.cancelReq /\ ob'.err = new.err
  BY <1>1, <1>2, <1>3, CommittedRow
<1>7. Row' = new
  <2>1. Row' = [status |-> new.status, cancelReq |-> new.cancelReq, err |-> new.err]
    BY <1>6 DEF Row
  <2> QED
    BY <1>3, <2>1 DEF RowCopy
<1>8. ob'.status \in Terminal
  BY <1>3, <1>4, <1>6 DEF Terminal
<1>9. ~Asks(req[r]) /\ ~Asks(req'[r]) /\ (req'[r].pc = "idle" \/ req'[r].copy = new)
  <2>1. CASE req' = [req EXCEPT ![r] = IdleReq]
    <3>1. req'[r].pc = "idle"
      BY <1>1, <2>1, Types DEF IdleReq
    <3> QED
      BY <1>1, <3>1 DEF Asks
  <2>2. CASE req' = [req EXCEPT ![r].copy = new, ![r].pc = "act"]
    <3>1. req'[r] = [req[r] EXCEPT !.copy = new, !.pc = "act"] /\ req[r] \in ReqRecord
      BY <1>1, <2>2, Types
    <3>2. req'[r].copy = new
      BY <3>1 DEF ReqRecord
    <3> QED
      BY <1>1, <1>6, <1>8, <3>2 DEF Asks
  <2> QED
    BY <1>5, <2>1, <2>2
<1>10. Asked' = Asked /\ ~Asked
  <2>1. ~Asked' /\ ~Asked
    BY <1>1, <1>9, AskedIs, AskedNext
  <2> QED
    BY <2>1 DEF Asked
<1>11. NoJobLive' /\ Working = "none" /\ Working' = Working /\ Progress' = Progress
  BY <1>1, SameJob, Viewed DEF IInv, View, NoJobLive, Live
<1>12. SeenInv'
  BY <1>1, <1>7, <1>8, <1>9, <1>11 DEF SeenInv, NoJobLive
<1>13. Promise!Expire
  <2>1. ob.status \notin Promise!Ended /\ ob'.status \in {"failed", "cancelled"}
    BY <1>1, <1>2, <1>3, <1>4, <1>6 DEF Promise!Ended, Terminal
  <2> QED
    BY <1>1, <1>10, <1>11, <2>1 DEF Promise!Expire
<1> QED
  BY <1>12, <1>13 DEF Promise!PromiseNext

LEMMA RefuseShown ==
  ASSUME Calm, IInv, IInv', SeenInv, NEW r \in Requests, Refuse(r)
  PROVE  SeenInv' /\ [Promise!PromiseNext]_Shown
<1>1. UNCHANGED <<ob, server, jobs>> /\ Answer(r) /\ ~Asks(req[r])
  BY DEF Refuse, Asks
<1>2. /\ ~Asked' /\ \A q \in Requests : q = r /\ ~Asks(req'[q])
      /\ ~(req'[r].pc = "recover" \/ (req'[r].pc = "act" /\ req'[r].op \in Spawning))
  BY <1>1, AnsweredShown
<1>3. Asked' = Asked
  <2>1. ~Asked
    BY <1>1, <1>2, AskedIs
  <2> QED
    BY <1>2, <2>1 DEF Asked
<1>4. SeenInv'
  BY <1>1, <1>2 DEF SeenInv, Live
<1>5. Working' = Working /\ Progress' = Progress
  BY <1>1, SameJob
<1> QED
  BY <1>1, <1>3, <1>4, <1>5 DEF Shown

(* A job that is started has the onboarding to itself. *)
LEMMA SpawnShown ==
  ASSUME Calm, IInv, IInv', SeenInv, NEW r \in Requests, Answer(r),
         req[r].pc = "act", req[r].op \in Spawning, NEW kind \in {"run", "rollback"}, Spawn(kind),
         kind = "run" => RunSeen(JobAt(kind, "load"), ob'),
         kind = "rollback" => ob'.status = "rollback_required",
         ob'.status \notin Terminal => Agrees(ob')
  PROVE  /\ SeenInv' /\ req[r].copy = Row /\ Asked' = Asked /\ ~Asked
         /\ Working = "none" /\ Progress = 0 /\ Working' = kind /\ Progress' = 0
<1>1. req[r].copy = Row /\ NoJobLive /\ ~Asks(req[r])
  BY DEF SeenInv, IInv, CalmInv, Starts, InFlight, Asks, Spawning
<1>2. /\ ~Asked' /\ \A q \in Requests : q = r /\ ~Asks(req'[q])
      /\ ~(req'[r].pc = "recover" \/ (req'[r].pc = "act" /\ req'[r].op \in Spawning))
  BY AnsweredShown
<1>3. Asked' = Asked /\ ~Asked
  <2>1. ~Asked
    BY <1>1, <1>2, AskedIs
  <2> QED
    BY <1>2, <2>1 DEF Asked
<1>4. Working = "none" /\ Progress = 0
  BY <1>1, Viewed DEF IInv, View
<1>5. PICK j \in Jobs : jobs[j].pc = "free" /\ jobs' = [jobs EXCEPT ![j] = JobAt(kind, "load")]
  BY SpawnedSlot DEF IInv
<1>6. jobs'[j] = JobAt(kind, "load") /\ \A i \in Jobs : i # j => jobs'[i] = jobs[i]
  BY <1>5, Types DEF IInv, TypeInv
<1>7. JobAt(kind, "load").kind = kind /\ JobAt(kind, "load").pc = "load"
  BY NewSlot
<1>8. Live(j)' /\ \A i \in Jobs : Live(i)' => i = j
  BY <1>1, <1>6, <1>7 DEF NoJobLive, Live
<1>9. Working' = kind /\ Progress' = 0
  <2>1. Working' = WorkOf(jobs'[j])
        /\ Progress' = IF WorkOf(jobs'[j]) = "run" THEN Committed(jobs'[j]) ELSE 0
    BY <1>8, ViewedNext DEF IInv, View
  <2>2. WorkOf(jobs'[j]) = kind
    BY <1>6, <1>7, WorkIs
  <2>3. Committed(jobs'[j]) = 0
    BY <1>6, <1>7, CommittedIs
  <2> QED
    BY <2>1, <2>2, <2>3
<1>10. kind = "rollback" => RollbackSeen(jobs'[j], ob')
  BY <1>6, <1>7 DEF RollbackSeen
<1>11. SeenInv'
  <2>1. ASSUME NEW i \in Jobs, Live(i)'
        PROVE  /\ jobs'[i].kind = "run" => RunSeen(jobs'[i], ob')
               /\ jobs'[i].kind = "rollback" =>
                    RollbackSeen(jobs'[i], ob') /\ \A q \in Requests : ~Asks(req'[q])
    <3>1. i = j
      BY <1>8, <2>1
    <3> QED
      BY <1>2, <1>6, <1>7, <1>10, <3>1
  <2> QED
    BY <1>2, <2>1 DEF SeenInv
<1> QED
  BY <1>1, <1>3, <1>4, <1>9, <1>11

LEMMA RetryShown ==
  ASSUME Calm, IInv, IInv', SeenInv, NEW r \in Requests, Retry(r)
  PROVE  SeenInv' /\ [Promise!PromiseNext]_Shown
<1>1. /\ TypeOK /\ req[r].pc = "act" /\ req[r].op = "retry" /\ req[r].op \in Spawning
      /\ req[r].copy.status \in Terminal \cup {"pending"} /\ CommitRow(req[r].copy, EmptyRow)
      /\ Spawn("run") /\ Answer(r) /\ server' = server
  BY DEF Retry, IInv, TypeInv, Spawning
<1>2. /\ ob \in ObRow /\ req[r].copy \in RowCopy /\ req[r].copy.status = ob.status
      /\ req[r].copy.cancelReq = ob.cancelReq /\ req[r].copy.err = ob.err
      /\ EmptyRow \in RowCopy
  BY <1>1, Types, RowType, Request DEF SeenInv
<1>3. EmptyRow.status = "pending" /\ EmptyRow.cancelReq = FALSE /\ EmptyRow.err = "none"
  BY DEF EmptyRow
<1>4. ob'.status = "pending" /\ ob'.cancelReq = FALSE /\ ob'.err = "none"
  BY <1>1, <1>2, <1>3, CommittedRow
<1>5. RunSeen(JobAt("run", "load"), ob')
  <2> DEFINE job == JobAt("run", "load")
  <2>1. /\ job.pc = "load" /\ job.copy.status = "pending" /\ job.new = job.srv
    BY DEF JobAt, EmptyRow
  <2> HIDE DEF job
  <2>2. Committed(job) = 0
    BY <2>1, CommittedIs
  <2>3. RunSeen(job, ob')
    BY <1>4, <2>1, <2>2 DEF RunSeen, Agrees, Written, Terminal
  <2> QED
    BY <2>3 DEF job
<1>6. Agrees(ob')
  BY <1>4 DEF Agrees
<1>7. /\ SeenInv' /\ Asked' = Asked /\ ~Asked
      /\ Working = "none" /\ Progress = 0 /\ Working' = "run" /\ Progress' = 0
  BY <1>1, <1>5, <1>6, SpawnShown
<1>8. ob.status \in Promise!Ended \cup {"pending"}
  BY <1>1, <1>2 DEF Promise!Ended, Terminal
<1>9. Promise!Retry
  BY <1>1, <1>4, <1>7, <1>8 DEF Promise!Retry
<1> QED
  BY <1>7, <1>9 DEF Promise!PromiseNext

LEMMA RollbackShown ==
  ASSUME Calm, IInv, IInv', SeenInv, NEW r \in Requests, Rollback(r)
  PROVE  SeenInv' /\ [Promise!PromiseNext]_Shown
<1>1. /\ TypeOK /\ req[r].pc = "act" /\ req[r].op \in Spawning
      /\ req[r].copy.status \in RollbackFrom
      /\ Spawn("rollback") /\ Answer(r) /\ server' = server
  BY DEF Rollback, IInv, TypeInv, Spawning
<1>2. req[r].copy.status = ob.status
  BY <1>1, Types, RowType DEF SeenInv
<1>3. ob'.status = "rollback_required"
  BY <1>1, <1>2, RollbackRow
<1>4. ob'.status \in Terminal
  BY <1>3 DEF Terminal
<1>5. /\ SeenInv' /\ Asked' = Asked /\ ~Asked
      /\ Working = "none" /\ Progress = 0 /\ Working' = "rollback" /\ Progress' = 0
  BY <1>1, <1>3, <1>4, SpawnShown
<1>6. ob.status \in Promise!Ended \ {"completed"}
  BY <1>1, <1>2 DEF Promise!Ended, RollbackFrom
<1>7. Promise!Rollback
  BY <1>1, <1>3, <1>5, <1>6 DEF Promise!Rollback
<1> QED
  BY <1>5, <1>7 DEF Promise!PromiseNext

LEMMA CancelShown ==
  ASSUME Calm, IInv, IInv', SeenInv, NEW r \in Requests, Cancel(r)
  PROVE  SeenInv' /\ [Promise!PromiseNext]_Shown
<1> DEFINE copy == req[r].copy
           new == [status |-> "cancelled", cancelReq |-> TRUE, err |-> "cancelled"]
<1>1. /\ TypeOK /\ req[r].pc = "act" /\ req[r].op = "cancel" /\ copy.status \notin Terminal
      /\ CommitRow(copy, new) /\ Answer(r) /\ UNCHANGED <<server, jobs>>
  BY DEF Cancel, IInv, TypeInv
<1>2. Asks(req[r]) /\ Agrees(copy) /\ (copy.cancelReq => ob.cancelReq)
  BY <1>1 DEF Asks, SeenInv, IInv, RequestsInv, InFlight, Late
<1>3. /\ ob \in ObRow /\ copy \in RowCopy /\ new \in RowCopy /\ new.status = "cancelled"
      /\ new.cancelReq = TRUE /\ new.err = "cancelled"
  BY <1>1, Types, Request, StatusTypes DEF RowCopy, Errors, Terminal
<1>4. copy.cancelReq \in BOOLEAN /\ ob.cancelReq \in BOOLEAN
  BY <1>3 DEF RowCopy, ObRow
<1> HIDE DEF copy, new
<1>5. ob'.status = "cancelled" /\ ob'.cancelReq = TRUE
  BY <1>1, <1>2, <1>3, <1>4, CommittedRow DEF Terminal
<1>6. Agrees(ob) => Agrees(ob')
  <2>1. ob'.err = IF new.err # copy.err THEN new.err ELSE ob.err
    BY <1>1, <1>3, CommittedRow
  <2>2. Agrees(ob) => ob'.err = "cancelled"
    BY <1>2, <1>3, <1>4, <2>1 DEF Agrees
  <2> QED
    BY <1>5, <2>2 DEF Agrees
<1>7. /\ ~Asked' /\ \A q \in Requests : q = r /\ ~Asks(req'[q])
      /\ ~(req'[r].pc = "recover" \/ (req'[r].pc = "act" /\ req'[r].op \in Spawning))
  BY <1>1, AnsweredShown
<1>8. SeenInv'
  <2>1. ASSUME NEW j \in Jobs, Live(j)
        PROVE  jobs[j].kind # "rollback" /\ (jobs[j].kind = "run" => RunSeen(jobs[j], ob'))
    <3>1. jobs[j].kind # "rollback" /\ (jobs[j].kind = "run" => RunSeen(jobs[j], ob))
      BY <1>2, <2>1 DEF SeenInv
    <3>2. RunSeen(jobs[j], ob) => RunSeen(jobs[j], ob')
      BY <1>5, <1>6 DEF RunSeen
    <3> QED
      BY <3>1, <3>2
  <2>2. ob'.status \in Terminal
    BY <1>5 DEF Terminal
  <2>3. ASSUME NEW j \in Jobs, Live(j)'
        PROVE  jobs'[j].kind # "rollback" /\ (jobs'[j].kind = "run" => RunSeen(jobs'[j], ob'))
    BY <1>1, <2>1, <2>3 DEF Live
  <2> QED
    BY <1>7, <2>2, <2>3 DEF SeenInv
<1>9. Asked = TRUE /\ Asked' = FALSE
  <2>1. Asked
    BY <1>2, AskedIs
  <2> QED
    BY <1>7, <2>1 DEF Asked
<1>10. Promise!Cancel
  BY <1>1, <1>5, <1>9, SameJob DEF Promise!Cancel
<1> QED
  BY <1>8, <1>10 DEF Promise!PromiseNext

LEMMA TickShown ==
  ASSUME Calm, IInv, IInv', SeenInv, Tick
  PROVE  SeenInv' /\ [Promise!PromiseNext]_Shown
<1>1. /\ UNCHANGED <<server, req>> /\ ob'.status = ob.status /\ ob'.cancelReq = ob.cancelReq
      /\ ob'.err = ob.err
  BY Types DEF Tick, IInv, TypeInv, ObRow
<1>2. ASSUME NEW j \in Jobs
      PROVE  /\ jobs'[j].kind = jobs[j].kind /\ jobs'[j].pc = jobs[j].pc
             /\ jobs'[j].step = jobs[j].step /\ jobs'[j].copy = jobs[j].copy
             /\ jobs'[j].srv = jobs[j].srv /\ jobs'[j].new = jobs[j].new
  <2>1. jobs[j] \in JobRecord
    BY Types DEF IInv, TypeInv
  <2>2. jobs'[j] = IF LiveRun(j) THEN [jobs[j] EXCEPT !.idle = @ + 1] ELSE jobs[j]
    BY DEF Tick
  <2> QED
    BY <2>1, <2>2 DEF JobRecord
<1>3. /\ \A j \in Jobs : Live(j)' <=> Live(j)
      /\ \A j \in Jobs : WorkOf(jobs'[j]) = WorkOf(jobs[j])
      /\ \A j \in Jobs : Committed(jobs'[j]) = Committed(jobs[j])
  BY <1>2 DEF Live, WorkOf, Committed
<1>4. Row' = Row /\ (Agrees(ob) => Agrees(ob'))
  BY <1>1 DEF Row, Agrees
<1>5. ASSUME NEW j \in Jobs
      PROVE  /\ RunSeen(jobs[j], ob) => RunSeen(jobs'[j], ob')
             /\ RollbackSeen(jobs[j], ob) => RollbackSeen(jobs'[j], ob')
  <2>1. Committed(jobs'[j]) = Committed(jobs[j])
    BY <1>3
  <2> QED
    BY <1>1, <1>2, <1>4, <2>1 DEF RunSeen, RollbackSeen
<1>6. SeenInv'
  <2>1. \A j \in Jobs : Live(j)' =>
          /\ jobs'[j].kind = "run" => RunSeen(jobs'[j], ob')
          /\ jobs'[j].kind = "rollback" =>
               RollbackSeen(jobs'[j], ob') /\ \A q \in Requests : ~Asks(req'[q])
    BY <1>1, <1>2, <1>3, <1>5 DEF SeenInv
  <2> QED
    BY <1>1, <1>4, <2>1 DEF SeenInv
<1>7. Working' = Working /\ Progress' = Progress
  <2>1. CASE NoJobLive
    <3>1. NoJobLive'
      BY <1>3, <2>1 DEF NoJobLive
    <3> QED
      BY <2>1, <3>1, Viewed, ViewedNext DEF IInv, View
  <2>2. CASE ~NoJobLive
    <3>1. PICK j \in Jobs : Live(j)
      BY <2>2 DEF NoJobLive
    <3> QED
      BY <1>3, <3>1, Viewed, ViewedNext DEF IInv, View
  <2> QED
    BY <2>1, <2>2
<1>8. Asked' = Asked
  BY <1>1 DEF Asked
<1> QED
  BY <1>1, <1>6, <1>7, <1>8 DEF Shown

LEMMA CrashShown ==
  ASSUME Calm, IInv, IInv', SeenInv, Crash
  PROVE  SeenInv' /\ [Promise!PromiseNext]_Shown
<1>1. /\ UNCHANGED <<ob, server>> /\ ~NoJobLive
      /\ \A r \in Requests : req'[r].pc = "idle"
  BY DEF Crash, IdleReq
<1>2. ASSUME NEW j \in Jobs PROVE ~Live(j)'
  <2>1. jobs'[j] = IF Live(j) THEN Ended(jobs[j]) ELSE jobs[j]
    BY DEF Crash
  <2>2. Ended(jobs[j]).pc = "done"
    BY EndedSlot DEF IInv, TypeInv
  <2> QED
    BY <2>1, <2>2 DEF Live
<1>3. SeenInv'
  BY <1>1, <1>2 DEF SeenInv, Asks
<1>4. Working' = "none" /\ Progress' = 0
  BY <1>2, ViewedNext DEF IInv, View, NoJobLive
<1>5. Asked' = FALSE
  BY <1>1, AskedNext DEF Asked, Asks
<1>6. Working # "none"
  <2>1. PICK j \in Jobs : Live(j)
    BY <1>1 DEF NoJobLive
  <2>2. jobs[j].kind \in {"run", "rollback"}
    BY Types DEF IInv, TypeInv
  <2>3. WorkOf(jobs[j]) # "none"
    BY <2>2, WorkIs
  <2> QED
    BY <2>1, <2>3, Viewed DEF IInv, View
<1>7. Promise!Die
  BY <1>1, <1>4, <1>5, <1>6 DEF Promise!Die
<1> QED
  BY <1>3, <1>7 DEF Promise!PromiseNext

LEMMA NextShown ==
  ASSUME Calm, IInv, IInv', SeenInv, [Next]_vars
  PROVE  SeenInv' /\ [Promise!PromiseNext]_Shown
<1>1. CASE UNCHANGED vars
  <2>1. Working' = Working /\ Progress' = Progress /\ Asked' = Asked
    BY <1>1, SameJob DEF vars, Asked
  <2>2. SeenInv'
    BY <1>1 DEF vars, SeenInv, Live, Row
  <2> QED
    BY <1>1, <2>1, <2>2 DEF vars, Shown
<1>2. CASE \E j \in Jobs : RunStep(j) \/ RollbackStep(j)
  BY <1>2, JobShown
<1>3. CASE \E r \in Requests : (\E op \in Ops : Begin(r, op)) \/ Handle(r)
  BY <1>3, BeginShown, RecoverShown, RefuseShown, RetryShown, CancelShown, RollbackShown
  DEF Handle
<1>4. CASE Tick
  BY <1>4, TickShown
<1>5. CASE Crash
  BY <1>5, CrashShown
<1> QED
  BY <1>1, <1>2, <1>3, <1>4, <1>5 DEF Next

LEMMA InitShown == Init => SeenInv /\ Promise!PromiseInit
<1> SUFFICES ASSUME Init PROVE SeenInv /\ Promise!PromiseInit
  OBVIOUS
<1>1. IInv /\ 1 \in Jobs
  BY InitialInv, OnboardingAssumption DEF Jobs
<1>2. /\ jobs[1] = JobAt("run", "load")
      /\ \A j \in Jobs : Live(j) => j = 1
      /\ \A r \in Requests : req[r].pc = "idle"
      /\ ob.status = "pending" /\ ob.cancelReq = FALSE /\ ob.err = "none"
      /\ server.enabled = FALSE
  BY <1>1, NewSlot DEF Init, Live, IdleReq, NewServer
<1> DEFINE job == JobAt("run", "load")
<1>3. job.kind = "run" /\ job.pc = "load" /\ job.copy.status = "pending" /\ job.new = job.srv
  BY DEF JobAt, EmptyRow
<1> HIDE DEF job
<1>4. WorkOf(job) = "run" /\ Committed(job) = 0
  BY <1>3, WorkIs, CommittedIs
<1>5. RunSeen(job, ob) /\ Agrees(ob)
  BY <1>2, <1>3, <1>4 DEF RunSeen, Agrees, Written, Terminal
<1>6. SeenInv
  BY <1>2, <1>3, <1>5 DEF SeenInv, Asks, job
<1>7. Live(1)
  BY <1>2, <1>3 DEF Live, job
<1>8. Working = "run" /\ Progress = 0
  BY <1>1, <1>2, <1>4, <1>7, Viewed DEF IInv, View, job
<1>9. Asked = FALSE
  BY <1>2 DEF Asked
<1> QED
  BY <1>2, <1>6, <1>8, <1>9 DEF Promise!PromiseInit

(* The jobs, the sessions, the expiry and the requests of a calm           *)
(* onboarding implement the onboarding that the dialog shows: the steps in *)
(* their order, a server enabled by a validated run, a verdict that only   *)
(* the operator takes back (run, rollback, recover_stale, the endpoints).  *)
THEOREM OnboardingPromised == ASSUME Calm PROVE Spec => KeepsPromise
<1>1. Patient
  BY DEF Calm
<1>2. Spec => []IInv
  BY <1>1, Invariant
<1>3. Init => SeenInv /\ Promise!PromiseInit
  BY InitShown
<1>4. IInv /\ IInv' /\ SeenInv /\ [Next]_vars
        => SeenInv' /\ [Promise!PromiseNext]_Promise!promise
  BY NextShown DEF Shown, Promise!promise
<1> QED
  BY <1>2, <1>3, <1>4, PTL DEF Spec, KeepsPromise, Promise!PromiseSpec

=============================================================================
