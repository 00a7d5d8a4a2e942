--------------------------- MODULE AlertLifecycle ---------------------------
(***************************************************************************)
(* Persisted alerts (app/services/alert_service.py, app/api/v1/alerts.py). *)
(* GET /alerts is not a read: it evaluates the latest metrics against the  *)
(* thresholds, creates or refreshes one row per fingerprint and resolves   *)
(* the rows no longer reported.  PATCH /alerts/{id} lets the operator      *)
(* acknowledge, resolve or reopen one.  Requests run on threads of their   *)
(* own, each with a session whose copies of the rows are as old as its     *)
(* reads; a commit writes the columns the session changed, and only those. *)
(*                                                                         *)
(* A row is its status and whether acknowledged_at and resolved_at are     *)
(* set; severity, message, value and the other dates are left out.         *)
(***************************************************************************)
EXTENDS FiniteSets, Naturals

CONSTANTS
  Fingerprints,  \* "<server_id>:<alert type>"
  Requests,      \* request threads, each with a session of its own
  MaxChanges     \* bound: metric changes plus PATCH requests

ASSUME ChangesAssumption == MaxChanges \in Nat

VARIABLES
  table,    \* the alerts table: Missing or the row of each fingerprint
  firing,   \* fingerprints whose condition the latest metrics meet
  pc,       \* what each request is doing
  view,     \* the candidates an evaluation computed
  loaded,   \* the copies of rows a request holds, as it read them
  payload,  \* the alert and status of a PATCH
  alone,    \* nothing was committed or collected since the evaluation began
  changes   \* metric changes and PATCH requests so far

vars == <<table, firing, pc, view, loaded, payload, alone, changes>>

Status == {"active", "acknowledged", "resolved"}
Row == [status : Status, ack : BOOLEAN, res : BOOLEAN]
Missing == [status |-> "missing", ack |-> FALSE, res |-> FALSE]
NoCopy == [f \in Fingerprints |-> Missing]
Open == {f \in Fingerprints : table[f].status \in {"active", "acknowledged"}}

Init ==
  /\ table = NoCopy
  /\ firing = {}
  /\ pc = [r \in Requests |-> "idle"]
  /\ view = [r \in Requests |-> {}]
  /\ loaded = [r \in Requests |-> NoCopy]
  /\ payload \in [Requests -> Fingerprints \X {"active"}]
  /\ alone = [r \in Requests |-> FALSE]
  /\ changes = 0

Disturb(r) == alone' = [q \in Requests |-> alone[q] /\ q = r]

-----------------------------------------------------------------------------
(* A collection commits new metrics. *)
Collected ==
  /\ changes < MaxChanges
  /\ changes' = changes + 1
  /\ \/ \E f \in Fingerprints \ firing : firing' = firing \cup {f}
     \/ \E f \in firing : firing' = firing \ {f}
  /\ alone' = [r \in Requests |-> FALSE]
  /\ UNCHANGED <<table, pc, view, loaded, payload>>

-----------------------------------------------------------------------------
(* GET /alerts: evaluate computes the candidates from the latest metrics. *)
Evaluate(r) ==
  /\ pc[r] = "idle"
  /\ pc' = [pc EXCEPT ![r] = "evaluated"]
  /\ view' = [view EXCEPT ![r] = firing]
  /\ alone' = [alone EXCEPT ![r] = TRUE]
  /\ UNCHANGED <<table, firing, loaded, payload, changes>>

(* _sync: map_by_fingerprints loads the rows of the candidates. *)
LoadCandidates(r) ==
  /\ pc[r] = "evaluated"
  /\ pc' = [pc EXCEPT ![r] = "loaded"]
  /\ loaded' = [loaded EXCEPT ![r] =
       [f \in Fingerprints |-> IF f \in view[r] THEN table[f] ELSE Missing]]
  /\ UNCHANGED <<table, firing, view, payload, alone, changes>>

(* The rows list_current finds open now; a candidate's copy stays as read. *)
Outdated(r) == Open \ view[r]

LoadCurrent(r) ==
  /\ pc[r] = "loaded"
  /\ pc' = [pc EXCEPT ![r] = "listed"]
  /\ loaded' = [loaded EXCEPT ![r] =
       [f \in Fingerprints |-> IF f \in Outdated(r) THEN table[f] ELSE @[f]]]
  /\ UNCHANGED <<table, firing, view, payload, alone, changes>>

(* What a flush leaves in a column: a session writes the columns whose     *)
(* value differs from the one it loaded, over whatever is there now.       *)
Column(was, is, now) == IF is = was THEN now ELSE is
Date(was, set, now) == set \/ (now /\ ~was)

Created == [status |-> "active", ack |-> FALSE, res |-> FALSE]

(* A candidate's row: reopened if it was loaded as resolved, else only its *)
(* message, value and last_seen_at are refreshed.                          *)
Refreshed_Unacknowledged(was, now) ==
  [status |-> Column(was.status, "active", now.status),
   ack |-> now.ack, res |-> Date(was.res, FALSE, now.res)]
Refreshed_StaysResolved(was, now) == now
Refreshed(was, now) ==
  IF was.status = "resolved"
  THEN [status |-> "active", ack |-> Date(was.ack, FALSE, now.ack),
        res |-> Date(was.res, FALSE, now.res)]
  ELSE now

Resolved_Cleared(was, now) == [now EXCEPT !.status = "cleared", !.res = TRUE]
Resolved(was, now) == [now EXCEPT !.status = "resolved", !.res = TRUE]

(* Another request created a row this one took for missing: the unique     *)
(* index on fingerprint refuses the insert.                                *)
Duplicate(r) == \E f \in view[r] : loaded[r][f] = Missing /\ table[f] # Missing

Synced(r, f) ==
  LET was == loaded[r][f] IN
  CASE f \in view[r] /\ was = Missing -> Created
    [] f \in view[r] /\ was # Missing -> Refreshed(was, table[f])
    [] f \notin view[r] /\ was # Missing -> Resolved(was, table[f])
    [] OTHER -> table[f]

CommitSync(r) ==
  /\ pc[r] = "listed"
  /\ ~Duplicate(r)
  /\ table' = [f \in Fingerprints |-> Synced(r, f)]
  /\ pc' = [pc EXCEPT ![r] = "idle"]
  /\ loaded' = [loaded EXCEPT ![r] = NoCopy]
  /\ view' = [view EXCEPT ![r] = {}]
  /\ Disturb(r)
  /\ UNCHANGED <<firing, payload, changes>>

(* IntegrityError: the request answers 500 and its session is closed. *)
FailSync(r) ==
  /\ pc[r] = "listed"
  /\ Duplicate(r)
  /\ pc' = [pc EXCEPT ![r] = "idle"]
  /\ loaded' = [loaded EXCEPT ![r] = NoCopy]
  /\ view' = [view EXCEPT ![r] = {}]
  /\ UNCHANGED <<table, firing, payload, alone, changes>>

-----------------------------------------------------------------------------
(* PATCH /alerts/{id}: load the row, then set and commit its status and    *)
(* both dates.  An alert that does not exist is refused with 404.          *)
PatchLoad(r) ==
  /\ pc[r] = "idle"
  /\ changes < MaxChanges
  /\ changes' = changes + 1
  /\ \E f \in {g \in Fingerprints : table[g] # Missing}, s \in Status :
       /\ payload' = [payload EXCEPT ![r] = <<f, s>>]
       /\ loaded' = [loaded EXCEPT ![r] = [NoCopy EXCEPT ![f] = table[f]]]
  /\ pc' = [pc EXCEPT ![r] = "patching"]
  /\ UNCHANGED <<table, firing, view, alone>>

Patched(was, s, now) ==
  [status |-> Column(was.status, s, now.status),
   ack |-> Date(was.ack, s = "acknowledged", now.ack),
   res |-> Date(was.res, s = "resolved", now.res)]

PatchCommit(r) ==
  /\ pc[r] = "patching"
  /\ LET f == payload[r][1]
         s == payload[r][2] IN
     table' = [table EXCEPT ![f] = Patched(loaded[r][f], s, @)]
  /\ pc' = [pc EXCEPT ![r] = "idle"]
  /\ loaded' = [loaded EXCEPT ![r] = NoCopy]
  /\ Disturb(r)
  /\ UNCHANGED <<firing, view, payload, changes>>

-----------------------------------------------------------------------------
Serve(r) ==
  \/ LoadCandidates(r) \/ LoadCurrent(r) \/ CommitSync(r) \/ FailSync(r)
  \/ PatchCommit(r)

Next ==
  \/ Collected
  \/ \E r \in Requests : Evaluate(r) \/ PatchLoad(r) \/ Serve(r)

Spec == Init /\ [][Next]_vars

(* A request that started is served; a dashboard keeps asking for the      *)
(* alerts.  Collections and operators owe nothing.                         *)
LiveSpec ==
  /\ Spec
  /\ \A r \in Requests : WF_vars(Serve(r)) /\ WF_vars(Evaluate(r))

-----------------------------------------------------------------------------
(* Rows and requests are ones the schema and the handlers allow, and a     *)
(* session never holds a copy of a row that was never there.               *)
TypeOK ==
  /\ table \in [Fingerprints -> Row \cup {Missing}]
  /\ firing \subseteq Fingerprints
  /\ pc \in [Requests -> {"idle", "evaluated", "loaded", "listed", "patching"}]
  /\ view \in [Requests -> SUBSET Fingerprints]
  /\ loaded \in [Requests -> [Fingerprints -> Row \cup {Missing}]]
  /\ payload \in [Requests -> Fingerprints \X Status]
  /\ alone \in [Requests -> BOOLEAN]
  /\ changes \in 0 .. MaxChanges
  /\ \A r \in Requests, f \in Fingerprints :
       loaded[r][f] # Missing => table[f] # Missing

(* An evaluation nothing disturbed leaves exactly the firing conditions    *)
(* open, and keeps the acknowledgement of those that had one               *)
(* (tests/test_alerts.py 85-102).                                          *)
QuietEvaluationMirrors ==
  [][\A r \in Requests :
       CommitSync(r) /\ alone[r] =>
         /\ Open' = firing
         /\ \A f \in firing :
              table[f].status = "acknowledged" => table'[f] = table[f]]_vars

(* Once metrics and operators are quiet the table ends up showing what     *)
(* fires, whatever requests overlapped before and whatever they lost.      *)
AlertsSettle == <>[](Open = firing)

=============================================================================
