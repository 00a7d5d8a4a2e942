------------------------ MODULE AlertLifecycleProofs ------------------------
(***************************************************************************)
(* Proofs about AlertLifecycle, for any sets of fingerprints and requests: *)
(* type correctness, and that an evaluation nothing disturbed mirrors what *)
(* fires and keeps the acknowledgements.                                   *)
(***************************************************************************)
EXTENDS AlertLifecycle, TLAPS

-----------------------------------------------------------------------------
(* Types.                                                                  *)

(* A row is not the missing one, and has its columns. *)
LEMMA RowFields ==
  /\ Missing \notin Row /\ Created \in Row
  /\ \A row \in Row \cup {Missing} :
       /\ row.ack \in BOOLEAN /\ row.res \in BOOLEAN
       /\ row # Missing => row \in Row /\ row.status \in Status
<1>1. Created \in Row
  BY DEF Created, Row, Status
<1>2. Missing \notin Row
  BY DEF Missing, Row, Status
<1>3. ASSUME NEW row \in Row \cup {Missing}
      PROVE  /\ row.ack \in BOOLEAN /\ row.res \in BOOLEAN
             /\ row # Missing => row \in Row /\ row.status \in Status
  <2>1. CASE row \in Row
    BY <2>1 DEF Row
  <2>2. CASE row = Missing
    BY <2>2 DEF Missing
  <2> QED
    BY <2>1, <2>2
<1> QED
  BY <1>1, <1>2, <1>3

(* A date is set or not. *)
LEMMA DateType == ASSUME NEW was, NEW set, NEW now PROVE Date(was, set, now) \in BOOLEAN
BY Zenon DEF Date

(* A status and two dates make a row. *)
LEMMA RowType ==
  ASSUME NEW status \in Status, NEW ack \in BOOLEAN, NEW res \in BOOLEAN
  PROVE  [status |-> status, ack |-> ack, res |-> res] \in Row
BY DEF Row

(* What a session writes over a row that is there is a row. *)
LEMMA WrittenRows ==
  ASSUME NEW was \in Row \cup {Missing}, NEW now \in Row \cup {Missing},
         was # Missing => now # Missing
  PROVE  /\ was # Missing => Resolved(was, now) \in Row
         /\ now # Missing => Refreshed(was, now) \in Row
         /\ \A s \in Status : Patched(was, s, now) \in Row
<1>1. ASSUME was # Missing PROVE Resolved(was, now) \in Row
  BY <1>1 DEF Resolved, Row, Status
<1>2. ASSUME now # Missing PROVE Refreshed(was, now) \in Row
  <2>1. [status |-> "active", ack |-> Date(was.ack, FALSE, now.ack),
         res |-> Date(was.res, FALSE, now.res)] \in Row
    BY DateType, RowType DEF Status
  <2>2. now \in Row
    BY <1>2
  <2> QED
    BY <2>1, <2>2 DEF Refreshed
<1>3. ASSUME NEW s \in Status PROVE Patched(was, s, now) \in Row
  <2>1. Column(was.status, s, now.status) \in Status
    BY RowFields DEF Column, Status, Missing
  <2> QED
    BY <2>1, DateType, RowType DEF Patched
<1> QED
  BY <1>1, <1>2, <1>3

(* The first state is typed. *)
LEMMA InitTypeOK == Init => TypeOK
BY ChangesAssumption DEF Init, TypeOK, NoCopy, Status

(* A synchronisation that is not refused leaves rows, and none disappears. *)
LEMMA SyncedRows ==
  ASSUME TypeOK, NEW r \in Requests, ~Duplicate(r), NEW f \in Fingerprints
  PROVE  /\ Synced(r, f) \in Row \cup {Missing}
         /\ table[f] # Missing => Synced(r, f) # Missing
<1> DEFINE was == loaded[r][f]
<1>1. /\ was \in Row \cup {Missing} /\ table[f] \in Row \cup {Missing}
      /\ was # Missing => table[f] # Missing
  BY DEF TypeOK
<1>2. CASE f \in view[r] /\ was = Missing
  <2>1. Synced(r, f) = Created
    BY <1>2 DEF Synced
  <2>2. table[f] = Missing
    BY <1>2 DEF Duplicate
  <2> QED
    BY <2>1, <2>2, RowFields
<1>3. CASE f \in view[r] /\ was # Missing
  <2>1. Synced(r, f) = Refreshed(was, table[f])
    BY <1>3 DEF Synced
  <2> QED
    BY <1>1, <1>3, <2>1, WrittenRows, RowFields
<1>4. CASE f \notin view[r] /\ was # Missing
  <2>1. Synced(r, f) = Resolved(was, table[f])
    BY <1>4 DEF Synced
  <2> QED
    BY <1>1, <1>4, <2>1, WrittenRows, RowFields
<1>5. CASE f \notin view[r] /\ was = Missing
  BY <1>1, <1>5 DEF Synced
<1> QED
  BY <1>2, <1>3, <1>4, <1>5

(* Every step keeps the types. *)
LEMMA StepTypeOK == TypeOK /\ [Next]_vars => TypeOK'
<1> SUFFICES ASSUME TypeOK, [Next]_vars PROVE TypeOK'
  OBVIOUS
<1>1. CASE Collected
  BY <1>1, ChangesAssumption DEF Collected, TypeOK
<1>2. ASSUME NEW r \in Requests, Evaluate(r) PROVE TypeOK'
  BY <1>2 DEF Evaluate, TypeOK
<1>3. ASSUME NEW r \in Requests, PatchLoad(r) PROVE TypeOK'
  <2>1. PICK f \in {g \in Fingerprints : table[g] # Missing}, s \in Status :
          /\ payload' = [payload EXCEPT ![r] = <<f, s>>]
          /\ loaded' = [loaded EXCEPT ![r] = [NoCopy EXCEPT ![f] = table[f]]]
    BY <1>3 DEF PatchLoad
  <2>2. [NoCopy EXCEPT ![f] = table[f]] \in [Fingerprints -> Row \cup {Missing}]
    BY DEF TypeOK, NoCopy
  <2>3. loaded' \in [Requests -> [Fingerprints -> Row \cup {Missing}]]
    BY <2>1, <2>2 DEF TypeOK
  <2>4. \A q \in Requests, g \in Fingerprints :
          loaded'[q][g] # Missing => table[g] # Missing
    BY <2>1 DEF TypeOK, NoCopy
  <2>5. payload' \in [Requests -> Fingerprints \X Status]
    BY <2>1 DEF TypeOK
  <2>6. changes' \in 0 .. MaxChanges /\ UNCHANGED <<table, firing, view, alone>>
        /\ pc' = [pc EXCEPT ![r] = "patching"]
    BY <1>3, ChangesAssumption DEF PatchLoad, TypeOK
  <2> QED
    BY <2>3, <2>4, <2>5, <2>6 DEF TypeOK
<1>4. ASSUME NEW r \in Requests, LoadCandidates(r) PROVE TypeOK'
  <2>1. [f \in Fingerprints |-> IF f \in view[r] THEN table[f] ELSE Missing]
          \in [Fingerprints -> Row \cup {Missing}]
    BY DEF TypeOK
  <2> QED
    BY <1>4, <2>1 DEF LoadCandidates, TypeOK
<1>5. ASSUME NEW r \in Requests, LoadCurrent(r) PROVE TypeOK'
  <2>1. [f \in Fingerprints |-> IF f \in Outdated(r) THEN table[f] ELSE loaded[r][f]]
          \in [Fingerprints -> Row \cup {Missing}]
    BY DEF TypeOK
  <2> QED
    BY <1>5, <2>1 DEF LoadCurrent, TypeOK
<1>6. ASSUME NEW r \in Requests, CommitSync(r) PROVE TypeOK'
  <2>1. /\ table' \in [Fingerprints -> Row \cup {Missing}]
        /\ \A f \in Fingerprints : table[f] # Missing => table'[f] # Missing
    BY <1>6, SyncedRows DEF CommitSync
  <2>2. /\ loaded' \in [Requests -> [Fingerprints -> Row \cup {Missing}]]
        /\ \A q \in Requests, f \in Fingerprints :
             loaded'[q][f] = Missing \/ loaded'[q][f] = loaded[q][f]
    BY <1>6 DEF CommitSync, TypeOK, NoCopy
  <2>3. alone' \in [Requests -> BOOLEAN]
    BY <1>6 DEF CommitSync, Disturb, TypeOK
  <2> QED
    BY <1>6, <2>1, <2>2, <2>3 DEF CommitSync, TypeOK
<1>7. ASSUME NEW r \in Requests, FailSync(r) PROVE TypeOK'
  BY <1>7 DEF FailSync, TypeOK, NoCopy
<1>8. ASSUME NEW r \in Requests, PatchCommit(r) PROVE TypeOK'
  <2> DEFINE f == payload[r][1]
             s == payload[r][2]
  <2>1. f \in Fingerprints /\ s \in Status
    BY DEF TypeOK
  <2>2. table' = [table EXCEPT ![f] = Patched(loaded[r][f], s, table[f])]
    BY <1>8 DEF PatchCommit
  <2>3. Patched(loaded[r][f], s, table[f]) \in Row
    BY <2>1, WrittenRows DEF TypeOK
  <2>4. /\ table' \in [Fingerprints -> Row \cup {Missing}]
        /\ \A g \in Fingerprints : table[g] # Missing => table'[g] # Missing
    BY <2>1, <2>2, <2>3, RowFields DEF TypeOK
  <2>5. /\ loaded' \in [Requests -> [Fingerprints -> Row \cup {Missing}]]
        /\ \A q \in Requests, g \in Fingerprints :
             loaded'[q][g] = Missing \/ loaded'[q][g] = loaded[q][g]
    BY <1>8 DEF PatchCommit, TypeOK, NoCopy
  <2>6. alone' \in [Requests -> BOOLEAN]
    BY <1>8 DEF PatchCommit, Disturb, TypeOK
  <2> QED
    BY <1>8, <2>4, <2>5, <2>6 DEF PatchCommit, TypeOK
<1>9. CASE UNCHANGED vars
  BY <1>9 DEF vars, TypeOK
<1> QED
  BY <1>1, <1>2, <1>3, <1>4, <1>5, <1>6, <1>7, <1>8, <1>9 DEF Next, Serve

(* Every reachable state is typed, and no session holds a copy of a row    *)
(* that was never there.                                                   *)
THEOREM TypeCorrect == Spec => []TypeOK
BY InitTypeOK, StepTypeOK, PTL DEF Spec

-----------------------------------------------------------------------------
(* Undisturbed evaluations.                                                *)

(* What an evaluation holds is what the metrics and the table say, as long *)
(* as nothing was committed or collected since it began.                   *)
Mirrored(r) ==
  /\ pc[r] \in {"evaluated", "loaded", "listed"} => view[r] = firing
  /\ pc[r] = "loaded" => \A f \in Fingerprints :
       loaded[r][f] = IF f \in firing THEN table[f] ELSE Missing
  /\ pc[r] = "listed" => \A f \in Fingerprints :
       loaded[r][f] = IF f \in firing \cup Open THEN table[f] ELSE Missing

AloneInv == \A r \in Requests : alone[r] => Mirrored(r)

IInv == TypeOK /\ AloneInv

(* A step of a request that commits nothing leaves the others as they are. *)
LEMMA OthersMirrored ==
  ASSUME IInv, TypeOK', NEW r \in Requests, UNCHANGED <<table, firing>>,
         \A q \in Requests \ {r} : /\ pc'[q] = pc[q] /\ view'[q] = view[q]
                                  /\ loaded'[q] = loaded[q] /\ alone'[q] = alone[q],
         alone'[r] => Mirrored(r)'
  PROVE  AloneInv'
BY DEF IInv, AloneInv, Mirrored, Open

(* A step that commits leaves nobody else alone, and itself idle. *)
LEMMA CommitterIsIdle ==
  ASSUME IInv, NEW r \in Requests, Disturb(r), pc' = [pc EXCEPT ![r] = "idle"]
  PROVE  AloneInv'
BY DEF IInv, TypeOK, AloneInv, Mirrored, Disturb

(* Every step keeps the copies of an undisturbed evaluation true. *)
LEMMA StepAlone == IInv /\ [Next]_vars => AloneInv'
<1> SUFFICES ASSUME IInv, [Next]_vars PROVE AloneInv'
  OBVIOUS
<1>0. TypeOK /\ TypeOK'
  BY StepTypeOK DEF IInv
<1>1. CASE Collected
  BY <1>1 DEF Collected, AloneInv
<1>2. ASSUME NEW r \in Requests, Evaluate(r) PROVE AloneInv'
  BY <1>0, <1>2, OthersMirrored DEF Evaluate, TypeOK, Mirrored
<1>3. ASSUME NEW r \in Requests, PatchLoad(r) PROVE AloneInv'
  BY <1>0, <1>3, OthersMirrored DEF PatchLoad, TypeOK, Mirrored
<1>4. ASSUME NEW r \in Requests, LoadCandidates(r) PROVE AloneInv'
  <2>1. alone'[r] => Mirrored(r)'
    BY <1>0, <1>4 DEF LoadCandidates, TypeOK, IInv, AloneInv, Mirrored
  <2> QED
    BY <1>0, <1>4, <2>1, OthersMirrored DEF LoadCandidates, TypeOK
<1>5. ASSUME NEW r \in Requests, LoadCurrent(r) PROVE AloneInv'
  <2>1. alone'[r] => Mirrored(r)'
    BY <1>0, <1>5 DEF LoadCurrent, Outdated, Open, TypeOK, IInv, AloneInv, Mirrored
  <2> QED
    BY <1>0, <1>5, <2>1, OthersMirrored DEF LoadCurrent, TypeOK
<1>6. ASSUME NEW r \in Requests, CommitSync(r) \/ PatchCommit(r) PROVE AloneInv'
  BY <1>6, CommitterIsIdle DEF CommitSync, PatchCommit
<1>7. ASSUME NEW r \in Requests, FailSync(r) PROVE AloneInv'
  BY <1>0, <1>7, OthersMirrored DEF FailSync, TypeOK, Mirrored
<1>8. CASE UNCHANGED vars
  BY <1>8 DEF vars, IInv, AloneInv, Mirrored, Open
<1> QED
  BY <1>1, <1>2, <1>3, <1>4, <1>5, <1>6, <1>7, <1>8 DEF Next, Serve

(* An undisturbed evaluation commits what fires and nothing else. *)
LEMMA CommitMirrors ==
  ASSUME IInv, NEW r \in Requests, CommitSync(r), alone[r]
  PROVE  /\ Open' = firing
         /\ \A f \in firing : table[f].status = "acknowledged" => table'[f] = table[f]
<1>1. /\ view[r] = firing /\ firing \subseteq Fingerprints
      /\ \A f \in Fingerprints :
           /\ table[f] \in Row \cup {Missing}
           /\ loaded[r][f] = IF f \in firing \cup Open THEN table[f] ELSE Missing
  BY DEF IInv, TypeOK, AloneInv, Mirrored, CommitSync
<1>2. \A f \in Fingerprints : table'[f] = Synced(r, f)
  BY DEF CommitSync
<1>3. ASSUME NEW f \in firing
      PROVE  /\ table'[f].status \in {"active", "acknowledged"}
             /\ table[f].status = "acknowledged" => table'[f] = table[f]
  <2>1. CASE table[f] = Missing
    BY <1>1, <1>2, <2>1 DEF Synced, Created, Missing
  <2>2. CASE table[f] # Missing
    <3>1. table'[f] = Refreshed(table[f], table[f])
      BY <1>1, <1>2, <2>2 DEF Synced
    <3>2. table[f].status \in Status
      BY <1>1, <2>2, RowFields
    <3> QED
      BY <3>1, <3>2 DEF Refreshed, Status
  <2> QED
    BY <2>1, <2>2
<1>4. ASSUME NEW f \in Fingerprints \ firing
      PROVE  table'[f].status \notin {"active", "acknowledged"}
  <2>1. CASE f \in Open
    <3>1. table[f] # Missing
      BY <2>1 DEF Open, Missing
    <3>2. table'[f] = Resolved(table[f], table[f])
      BY <1>1, <1>2, <2>1, <3>1 DEF Synced
    <3>3. table[f] \in Row
      BY <1>1, <3>1
    <3> QED
      BY <3>2, <3>3 DEF Resolved, Row
  <2>2. CASE f \notin Open
    <3>1. table'[f] = table[f]
      BY <1>1, <1>2, <2>2 DEF Synced
    <3> QED
      BY <2>2, <3>1 DEF Open
  <2> QED
    BY <2>1, <2>2
<1> QED
  BY <1>1, <1>3, <1>4 DEF Open

(* An evaluation during which nothing is committed or collected leaves     *)
(* exactly the firing conditions open, and keeps their acknowledgements,   *)
(* however many other requests overlap with it.                            *)
THEOREM QuietMirrors == Spec => QuietEvaluationMirrors
<1>1. Init => IInv
  BY InitTypeOK DEF IInv, Init, AloneInv
<1>2. IInv /\ [Next]_vars => IInv'
  BY StepTypeOK, StepAlone DEF IInv
<1>3. IInv /\ [Next]_vars =>
        [\A r \in Requests :
           CommitSync(r) /\ alone[r] =>
             /\ Open' = firing
             /\ \A f \in firing :
                  table[f].status = "acknowledged" => table'[f] = table[f]]_vars
  BY CommitMirrors
<1> QED
  BY <1>1, <1>2, <1>3, PTL DEF Spec, QuietEvaluationMirrors

=============================================================================
