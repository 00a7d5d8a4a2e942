-------------------------- MODULE SourceCycleProofs --------------------------
(***************************************************************************)
(* Proofs about SourceCycle, for any servers, groups, instances, minutes   *)
(* and retention: type correctness, that a failing host or group costs     *)
(* only itself, and that what was answered is stored; and about Readings,  *)
(* for any size of a page and any loads: that a client that walks the      *)
(* history misses nothing that stays, whatever is stored or pruned between *)
(* two pages, and that the reports on the latest samples agree.            *)
(***************************************************************************)
EXTENDS Readings, SequenceTheorems, FiniteSetTheorems, WellFoundedInduction, TLAPS

-----------------------------------------------------------------------------
(* Types.                                                                  *)

(* The fields of a collection. *)
LEMMA RunFields ==
  ASSUME CycleTypeOK
  PROVE  /\ run \in RunRecord /\ run.pc \in Pcs
         /\ run.targets \in SUBSET Servers /\ run.left \in SUBSET Groups
         /\ run.reply \in [Servers -> Replies]
         /\ run.got \in [Servers -> Minutes \cup {Never}]
         /\ now \in Nat \ {0} /\ now <= MaxMinute /\ cut \in Nat \ {0}
         /\ now \in Minutes /\ MaxMinute \in Nat \ {0} /\ Keep \in Nat \ {0}
         /\ \A s \in Servers : /\ run.got[s] \in Nat /\ samples[s] \subseteq Nat \ {0}
                               /\ samples[s] \subseteq Minutes /\ beat[s] \in Nat
BY CycleAssumption DEF CycleTypeOK, RunRecord, Minutes, Never

(* No collection, and a failed one. *)
LEMMA RunsTyped ==
  /\ NoRun \in RunRecord
  /\ run \in RunRecord =>
       \A e \in {"ValidationError", "InvalidURL", "PrometheusSourceError",
                 "StreamingError", "PhaseError"} :
          [run EXCEPT !.pc = "failed", !.error = e] \in RunRecord
BY DEF NoRun, RunRecord, Pcs, Replies, Never

(* What a group answers, and what becomes of the collection. *)
LEMMA ReadType ==
  ASSUME CycleTypeOK, NEW g \in run.left, NEW reply \in [Members(g) -> Replies],
         run' = [run EXCEPT !.left = @ \ {g}, !.reply = RepliesWith(g, reply),
                            !.got = GotWith(g, reply)]
  PROVE  /\ run' \in RunRecord
         /\ run'.pc = run.pc /\ run'.targets = run.targets /\ run'.error = run.error
         /\ run'.left = run.left \ {g}
         /\ run'.reply = RepliesWith(g, reply) /\ run'.got = GotWith(g, reply)
<1>1. RepliesWith(g, reply) \in [Servers -> Replies]
  BY RunFields DEF RepliesWith
<1>2. GotWith(g, reply) \in [Servers -> Minutes \cup {Never}]
  BY RunFields DEF GotWith
<1>3. run \in RunRecord /\ run.left \ {g} \in SUBSET Groups
  BY RunFields
<1> QED
  BY <1>1, <1>2, <1>3 DEF RunRecord

(* The first state is typed. *)
LEMMA InitTypeOK == CycleInit => CycleTypeOK
BY CycleAssumption, RunsTyped DEF CycleInit, CycleTypeOK, Minutes

(* Every step keeps the types. *)
LEMMA StepTypeOK == CycleTypeOK /\ [CycleNext]_cycleVars => CycleTypeOK'
<1> SUFFICES ASSUME CycleTypeOK, [CycleNext]_cycleVars PROVE CycleTypeOK'
  OBVIOUS
<1>1. CASE Begin
  <2>1. PICK targets \in Fleets :
          run' = [NoRun EXCEPT !.pc = "groups", !.targets = targets,
                               !.left = {Group[s] : s \in targets}]
    BY <1>1 DEF Begin
  <2>2. targets \in SUBSET Servers
    BY CycleAssumption
  <2>3. {Group[s] : s \in targets} \in SUBSET Groups
    BY <2>2 DEF Groups
  <2>4. run' \in RunRecord
    BY <2>1, <2>2, <2>3, RunsTyped DEF RunRecord, Pcs
  <2> QED
    BY <1>1, <2>4 DEF Begin, CycleTypeOK
<1>2. CASE ReadGroup
  <2>1. run' \in RunRecord
    BY <1>2, ReadType, RunsTyped, RunFields DEF ReadGroup, Raise
  <2> QED
    BY <1>2, <2>1 DEF ReadGroup, CycleTypeOK
<1>3. CASE GroupsRead
  <2>1. [run EXCEPT !.pc = "stream", !.reply = NoRun.reply] \in RunRecord
    BY RunFields, RunsTyped DEF RunRecord, Pcs
  <2> QED
    BY <1>3, <2>1, RunsTyped DEF GroupsRead, Raise, CycleTypeOK
<1>4. CASE ReadStream
  <2>1. [run EXCEPT !.pc = "sync"] \in RunRecord
    BY RunFields DEF RunRecord, Pcs
  <2> QED
    BY <1>4, <2>1, RunsTyped DEF ReadStream, Raise, CycleTypeOK
<1>5. CASE Sync
  <2>1. PICK lost \in {{}} \cup {{s} : s \in run.targets} :
          run' = [run EXCEPT !.pc = "store", !.known = run.targets \ lost, !.spoilt = lost]
    BY <1>5 DEF Sync
  <2>2. lost \in SUBSET Servers /\ run.targets \ lost \in SUBSET Servers
    BY RunFields
  <2>3. run' \in RunRecord
    BY <2>1, <2>2, RunFields DEF RunRecord, Pcs
  <2> QED
    BY <1>5, <2>3 DEF Sync, CycleTypeOK
<1>6. CASE StoreServerMetrics
  <2>1. PICK bad \in {{}} \cup {{s} : s \in Answered \cap run.known} :
          LET new == {s \in Stored(bad) : run.got[s] \notin samples[s]}
          IN  /\ samples' = [s \in Servers |-> IF s \in new
                             THEN samples[s] \cup {run.got[s]} ELSE samples[s]]
              /\ beat' = [s \in Servers |-> IF s \in new THEN run.got[s] ELSE beat[s]]
              /\ run' = [run EXCEPT !.pc = "play", !.spoilt = @ \cup bad]
    BY <1>6 DEF StoreServerMetrics
  <2>2. bad \in SUBSET Servers /\ Stored(bad) \subseteq Answered
    BY DEF Answered, Stored
  <2>3. run' \in RunRecord
    BY <2>1, <2>2, RunFields DEF RunRecord, Pcs
  <2>4. \A s \in Answered : run.got[s] \in Minutes
    BY RunFields DEF Answered
  <2>5. samples' \in [Servers -> SUBSET Minutes] /\ beat' \in [Servers -> Minutes \cup {Never}]
    BY <2>1, <2>2, <2>4 DEF CycleTypeOK
  <2> QED
    BY <1>6, <2>3, <2>5 DEF StoreServerMetrics, CycleTypeOK
<1>7. CASE StoreChannelMetrics \/ Finish
  BY <1>7, RunsTyped DEF StoreChannelMetrics, Finish, CycleTypeOK
<1>8. CASE PhaseFails
  BY <1>8, RunsTyped DEF PhaseFails, Raise, CycleTypeOK
<1>9. CASE Tick
  BY <1>9, RunFields DEF Tick, CycleTypeOK, Minutes
<1>10. CASE Prune
  <2>1. cut' \in Minutes
    BY <1>10, RunFields DEF Prune, Minutes
  <2>2. samples' \in [Servers -> SUBSET Minutes]
    BY <1>10 DEF Prune, CycleTypeOK
  <2> QED
    BY <1>10, <2>1, <2>2 DEF Prune, CycleTypeOK
<1>11. CASE UNCHANGED cycleVars
  BY <1>11 DEF cycleVars, CycleTypeOK
<1> QED
  BY <1>1, <1>2, <1>3, <1>4, <1>5, <1>6, <1>7, <1>8, <1>9, <1>10, <1>11 DEF CycleNext

(* Every reachable state of the collections and their samples is typed.    *)
THEOREM TypeCorrect == CycleSpec => []CycleTypeOK
BY InitTypeOK, StepTypeOK, PTL DEF CycleSpec

-----------------------------------------------------------------------------
(* Failures.                                                               *)

(* A sample that was answered is only lost with its group, and only if     *)
(* somebody's credentials were refused; an error ends the collection; the  *)
(* groups that were asked had rows that nothing refuses.                   *)
LossInv ==
  /\ run.pc = "groups" =>
       \A s \in run.targets :
         Group[s] \notin run.left /\ run.reply[s] = "full" /\ run.got[s] = Never =>
            \E u \in Members(Group[s]) : run.reply[u] = "refused"
  /\ run.pc # "failed" => run.error = "none"
  /\ run.pc \notin {"idle", "failed"} =>
       \A s \in run.targets : Group[s] \notin run.left => ~Rejected(Group[s])
  /\ run.pc \in {"stream", "sync", "store", "play"} => run.left = {}
  /\ run.pc = "groups" => \A g \in run.left : \E s \in run.targets : Group[s] = g

FailureInv == CycleTypeOK /\ LossInv /\ FailureIsContained

(* The answers of a group keep the losses of the others as they are. *)
LEMMA ReadLoses ==
  ASSUME FailureInv, run.pc = "groups", NEW g \in run.left,
         NEW reply \in [Members(g) -> Replies], ~Rejected(g), inventory' = inventory,
         run' = [run EXCEPT !.left = @ \ {g}, !.reply = RepliesWith(g, reply),
                            !.got = GotWith(g, reply)]
  PROVE  LossInv'
<1>1. CycleTypeOK
  BY DEF FailureInv
<1>2. /\ run'.pc = run.pc /\ run'.targets = run.targets /\ run'.error = run.error
      /\ run'.left = run.left \ {g}
      /\ \A s \in Servers : run'.reply[s] = IF s \in Members(g) THEN reply[s] ELSE run.reply[s]
      /\ \A s \in Servers : run'.got[s] = IF s \in Answers(g, reply) THEN now ELSE run.got[s]
  <2>1. /\ run'.pc = run.pc /\ run'.targets = run.targets /\ run'.error = run.error
        /\ run'.left = run.left \ {g}
        /\ run'.reply = RepliesWith(g, reply) /\ run'.got = GotWith(g, reply)
    BY <1>1, ReadType
  <2> QED
    BY <2>1 DEF RepliesWith, GotWith
<1>3. run.targets \subseteq Servers /\ now # Never
  BY <1>1, RunFields DEF Never
<1>4. ASSUME NEW s \in run.targets, Group[s] \notin run'.left,
             run'.reply[s] = "full", run'.got[s] = Never
      PROVE  \E u \in Members(Group[s]) : run'.reply[u] = "refused"
  <2>1. CASE Group[s] = g
    <3>1. s \in Members(g) /\ reply[s] = "full" /\ s \notin Answers(g, reply)
      BY <1>2, <1>3, <1>4, <2>1 DEF Members
    <3>2. Failed(g, reply)
      BY <3>1 DEF Answers
    <3>3. PICK u \in Members(g) : reply[u] = "refused"
      BY <3>1, <3>2 DEF Failed
    <3> QED
      BY <1>2, <1>3, <2>1, <3>3 DEF Members
  <2>2. CASE Group[s] # g
    <3>1. \A u \in Members(Group[s]) : u \in Servers /\ u \notin Members(g)
      BY <1>3, <2>2 DEF Members
    <3>2. s \in Members(Group[s]) /\ Answers(g, reply) \subseteq Members(g)
      BY DEF Members, Answers
    <3>3. run.reply[s] = "full" /\ run.got[s] = Never /\ Group[s] \notin run.left
      BY <1>2, <1>4, <2>2, <3>1, <3>2
    <3>4. PICK u \in Members(Group[s]) : run.reply[u] = "refused"
      BY <3>3 DEF FailureInv, LossInv
    <3> QED
      BY <1>2, <3>1, <3>4
  <2> QED
    BY <2>1, <2>2
<1>5. \A s : Members(s)' = Members(s)
  BY <1>2 DEF Members
<1>6. \A s : Rejected(s)' = Rejected(s)
  BY <1>5 DEF Rejected, Invalid
<1>7. \A s \in run'.targets : Group[s] \notin run'.left => ~Rejected(Group[s])'
  BY <1>2, <1>6 DEF LossInv, FailureInv
<1> QED
  BY <1>2, <1>4, <1>5, <1>7 DEF LossInv, FailureInv

(* An exception that no failing host is behind, and one a row is behind. *)
LEMMA OtherErrors ==
  ASSUME FailureInv, NEW e \in {"StreamingError", "PhaseError"}, Raise(e)
  PROVE  LossInv' /\ FailureIsContained'
<1>1. run'.pc = "failed" /\ run'.error = e
  BY RunFields DEF FailureInv, Raise, RunRecord
<1> QED
  BY <1>1 DEF LossInv, FailureIsContained

LEMMA RowErrors ==
  ASSUME FailureInv, NEW e \in {"ValidationError", "InvalidURL"}, Raise(e),
         NEW g \in run.left, Rejected(g), inventory' = inventory,
         \A h \in run.left : \E s \in run.targets : Group[s] = h
  PROVE  LossInv' /\ FailureIsContained'
<1>1. run'.pc = "failed" /\ run'.error = e /\ run'.targets = run.targets
  BY RunFields DEF FailureInv, Raise, RunRecord
<1>2. Rejected(g)'
  BY <1>1 DEF Rejected, Invalid, Members
<1>3. PICK s \in run'.targets : Group[s] = g
  BY <1>1
<1> QED
  BY <1>1, <1>2, <1>3 DEF LossInv, FailureIsContained

(* No collection touches the rows it reads here. *)
LEMMA InventoryStays == [CycleNext]_cycleVars => inventory' = inventory
BY DEF CycleNext, cycleVars, Begin, ReadGroup, GroupsRead, ReadStream, Sync,
       StoreServerMetrics, StoreChannelMetrics, PhaseFails, Finish, Tick, Prune

(* Every step keeps the invariant. *)
LEMMA StepFailure == FailureInv /\ [CycleNext]_cycleVars => FailureInv'
<1> SUFFICES ASSUME FailureInv, [CycleNext]_cycleVars
             PROVE  LossInv' /\ FailureIsContained'
  BY StepTypeOK DEF FailureInv
<1>0. /\ CycleTypeOK /\ run \in RunRecord
      /\ run.pc # "failed" => run.error = "none"
  BY RunFields DEF FailureInv, LossInv
<1>1. CASE Begin
  <2>1. PICK targets \in Fleets :
          run' = [NoRun EXCEPT !.pc = "groups", !.targets = targets,
                               !.left = {Group[s] : s \in targets}]
    BY <1>1 DEF Begin
  <2>2. /\ run'.pc = "groups" /\ run'.targets = targets /\ run'.error = "none"
        /\ run'.left = {Group[s] : s \in targets}
    BY <2>1 DEF NoRun
  <2>3. \A s \in targets : Group[s] \in run'.left
    BY <2>2
  <2>4. \A h \in run'.left : \E s \in targets : Group[s] = h
    BY <2>2
  <2> QED
    BY <2>2, <2>3, <2>4 DEF LossInv, FailureIsContained
<1>2. CASE ReadGroup
  <2>0. inventory' = inventory /\ run.pc = "groups"
    BY <1>2 DEF ReadGroup
  <2>1. PICK g \in run.left :
          \/ Invalid(g) /\ Raise("ValidationError")
          \/ Rejected(g) /\ ~Invalid(g) /\ Raise("InvalidURL")
          \/ /\ ~Rejected(g)
             /\ \E reply \in [Members(g) -> Replies] :
                  run' = [run EXCEPT !.left = @ \ {g}, !.reply = RepliesWith(g, reply),
                                     !.got = GotWith(g, reply)]
    BY <1>2 DEF ReadGroup
  <2>2. CASE Rejected(g)
    <3>1. \E e \in {"ValidationError", "InvalidURL"} : Raise(e)
      BY <2>1, <2>2
    <3>2. \A h \in run.left : \E s \in run.targets : Group[s] = h
      BY <2>0 DEF FailureInv, LossInv
    <3> QED
      BY <2>0, <2>2, <3>1, <3>2, RowErrors
  <2>3. CASE ~Rejected(g)
    <3>1. PICK reply \in [Members(g) -> Replies] :
            run' = [run EXCEPT !.left = @ \ {g}, !.reply = RepliesWith(g, reply),
                               !.got = GotWith(g, reply)]
      BY <2>1, <2>3 DEF Rejected
    <3>2. LossInv'
      BY <2>0, <2>3, <3>1, ReadLoses
    <3>3. run'.error = "none" /\ run'.pc = "groups"
      BY <1>0, <2>0, <3>1, ReadType
    <3> QED
      BY <3>2, <3>3 DEF FailureIsContained
  <2> QED
    BY <2>2, <2>3
<1>3. CASE GroupsRead /\ NoneAnswered
  <2>1. /\ run.pc = "groups" /\ run.left = {}
        /\ run' = [run EXCEPT !.pc = "failed", !.error = "PrometheusSourceError"]
    BY <1>3 DEF GroupsRead, Raise
  <2>2. /\ run'.pc = "failed" /\ run'.targets = run.targets /\ run'.reply = run.reply
    BY <1>0, <2>1 DEF RunRecord
  <2>3. \A s \in run.targets : run.got[s] = Never
    BY <1>0, <1>3, RunFields DEF NoneAnswered, Answered
  <2>4. \A s \in run.targets : run.reply[s] = "full" =>
          \E u \in Members(Group[s]) : run.reply[u] = "refused"
    BY <2>1, <2>3 DEF FailureInv, LossInv
  <2>5. run'.error = "PrometheusSourceError"
    BY <1>0, <2>1 DEF RunRecord
  <2>6. FailureIsContained'
    BY <2>2, <2>4, <2>5 DEF FailureIsContained, Members
  <2> QED
    BY <2>2, <2>6 DEF LossInv
<1>4. CASE GroupsRead /\ ~NoneAnswered
  <2>1. run.pc = "groups" /\ run' = [run EXCEPT !.pc = "stream", !.reply = NoRun.reply]
    BY <1>4 DEF GroupsRead
  <2>2. /\ run'.pc = "stream" /\ run'.error = "none"
        /\ run'.targets = run.targets /\ run'.left = {} /\ run.left = {}
    BY <1>0, <1>4, <2>1 DEF RunRecord, GroupsRead
  <2>3. \A s \in run'.targets : ~Rejected(Group[s])'
    BY <1>4, <2>1, <2>2 DEF FailureInv, LossInv, GroupsRead, Rejected, Invalid, Members
  <2> QED
    BY <2>2, <2>3 DEF LossInv, FailureIsContained
<1>5. CASE /\ run.pc = "stream" /\ run' = [run EXCEPT !.pc = "sync"]
           /\ inventory' = inventory
  <2>1. /\ run'.pc = "sync" /\ run'.error = "none"
        /\ run'.targets = run.targets /\ run'.left = run.left
    BY <1>0, <1>5 DEF RunRecord
  <2>2. \A s \in run'.targets : ~Rejected(Group[s])'
    BY <1>5, <2>1 DEF FailureInv, LossInv, Rejected, Invalid, Members
  <2> QED
    BY <1>5, <2>1, <2>2 DEF FailureInv, LossInv, FailureIsContained
<1>6. CASE Sync \/ StoreServerMetrics
  <2>1. /\ run.pc \in {"sync", "store"} /\ run'.pc \in {"store", "play"}
        /\ run'.error = run.error /\ run'.targets = run.targets
        /\ run'.left = run.left /\ inventory' = inventory
    BY <1>0, <1>6 DEF Sync, StoreServerMetrics, RunRecord
  <2>2. \A s \in run'.targets : ~Rejected(Group[s])'
    BY <2>1 DEF FailureInv, LossInv, Rejected, Invalid, Members
  <2> QED
    BY <1>0, <2>1, <2>2 DEF FailureInv, LossInv, FailureIsContained
<1>7. CASE run' = NoRun
  BY <1>7 DEF NoRun, LossInv, FailureIsContained
<1>8. CASE Raise("StreamingError") \/ Raise("PhaseError")
  BY <1>8, OtherErrors
<1>9. CASE UNCHANGED run
  BY <1>9, InventoryStays DEF FailureInv, LossInv, FailureIsContained, Members, Rejected, Invalid
<1> QED
  BY <1>1, <1>2, <1>3, <1>4, <1>5, <1>6, <1>7, <1>8, <1>9
  DEF CycleNext, ReadStream, StoreChannelMetrics, Finish, PhaseFails, Tick, Prune,
      cycleVars, GroupsRead

(* What a failing host, a failing group and a refused row cost the others, *)
(* for any servers, rows and groups.                                       *)
THEOREM FailuresContained == CycleSpec => []FailureIsContained
<1>1. CycleInit => FailureInv
  BY InitTypeOK DEF CycleInit, FailureInv, LossInv, FailureIsContained, NoRun
<1>2. FailureInv => FailureIsContained
  BY DEF FailureInv
<1> QED
  BY <1>1, <1>2, StepFailure, PTL DEF CycleSpec

-----------------------------------------------------------------------------
(* Storage.                                                                *)

(* A sample that was answered is not older than what is stored, nor than   *)
(* the retention reaches; the phase of the servers knows the rows that did *)
(* not fail; the heartbeat is the latest sample.                           *)
StoreInv ==
  /\ \A s \in Servers : \A t \in samples[s] :
       /\ t <= now
       /\ run.got[s] # Never => t <= run.got[s]
  /\ \A s \in Servers : run.got[s] # Never =>
       run.got[s] <= now /\ now - run.got[s] <= Keep
  /\ run.pc = "store" => run.known = run.targets \ run.spoilt
  /\ run.pc = "play" => \A s \in run.targets \ run.spoilt :
       run.got[s] # Never => run.got[s] \in samples[s]
  /\ \A s \in Servers : samples[s] # {} =>
       beat[s] \in samples[s] /\ \A t \in samples[s] : t <= beat[s]

StorageInv == CycleTypeOK /\ StoreInv

(* The largest of a set of minutes is the one no other exceeds. *)
LEMMA LargestIsMax ==
  ASSUME NEW T \in SUBSET Nat, NEW m \in T, \A t \in T : t <= m
  PROVE  m = Max(T)
<1>1. \E x \in T : \A y \in T : x >= y
  OBVIOUS
<1>2. Max(T) \in T /\ \A y \in T : Max(T) >= y
  BY <1>1 DEF Max
<1>3. Max(T) \in Nat /\ m \in Nat /\ Max(T) >= m /\ m >= Max(T)
  BY <1>2
<1> QED
  BY <1>3

(* A step that changes no sample and at most forgets what was answered. *)
LEMMA NothingStored ==
  ASSUME StorageInv, CycleTypeOK', UNCHANGED <<now, samples, beat>>,
         \A s \in Servers : run'.got[s] \in {run.got[s], Never},
         run'.pc \notin {"store", "play"}
  PROVE  StoreInv'
BY DEF StorageInv, StoreInv

(* The same for a collection that starts or ends. *)
LEMMA NobodyAnswered ==
  ASSUME StorageInv, CycleTypeOK', UNCHANGED <<now, samples, beat>>,
         \A s \in Servers : run'.got[s] = Never,
         run'.pc \notin {"store", "play"}
  PROVE  StoreInv'
BY NothingStored

(* An exception stores nothing. *)
LEMMA RaiseStores ==
  ASSUME StorageInv, CycleTypeOK', UNCHANGED <<now, samples, beat>>,
         NEW e \in {"ValidationError", "InvalidURL", "PrometheusSourceError",
                   "StreamingError", "PhaseError"},
         Raise(e)
  PROVE  StoreInv'
<1>1. run'.pc = "failed" /\ run'.got = run.got
  BY RunFields DEF StorageInv, Raise, RunRecord
<1> QED
  BY <1>1, NothingStored

(* The samples of the servers' phase. *)
LEMMA PhaseStores ==
  ASSUME StorageInv, CycleTypeOK', StoreServerMetrics
  PROVE  StoreInv'
<1>0. CycleTypeOK /\ StoreInv
  BY DEF StorageInv
<1>1. PICK bad \in {{}} \cup {{s} : s \in Answered \cap run.known} :
        LET new == {s \in Stored(bad) : run.got[s] \notin samples[s]}
        IN  /\ samples' = [s \in Servers |-> IF s \in new
                           THEN samples[s] \cup {run.got[s]} ELSE samples[s]]
            /\ beat' = [s \in Servers |-> IF s \in new THEN run.got[s] ELSE beat[s]]
            /\ run' = [run EXCEPT !.pc = "play", !.spoilt = @ \cup bad]
  BY DEF StoreServerMetrics
<1> DEFINE New(s) == s \in Stored(bad) /\ run.got[s] \notin samples[s]
<1>2. \A s \in Servers :
        /\ samples'[s] = IF New(s) THEN samples[s] \cup {run.got[s]} ELSE samples[s]
        /\ beat'[s] = IF New(s) THEN run.got[s] ELSE beat[s]
  BY <1>1
<1>3. /\ run'.pc = "play" /\ run'.spoilt = run.spoilt \cup bad /\ run'.got = run.got
      /\ run'.targets = run.targets /\ now' = now
      /\ run.known = run.targets \ run.spoilt
  BY <1>0, <1>1, RunFields DEF RunRecord, StoreServerMetrics, StoreInv
<1>4. \A s \in Servers : New(s) => run.got[s] # Never /\ run.got[s] \in Nat
  BY <1>0, RunFields DEF Stored, Answered
<1>5. \A s \in run.targets \ run'.spoilt :
        run'.got[s] # Never => run'.got[s] \in samples'[s]
  <2> SUFFICES ASSUME NEW s \in run.targets \ run'.spoilt, run.got[s] # Never
               PROVE  run.got[s] \in samples'[s]
    BY <1>3
  <2>1. s \in Servers /\ s \in run.known /\ s \notin bad
    BY <1>0, <1>3, RunFields
  <2>2. s \in Stored(bad)
    BY <2>1 DEF Stored, Answered
  <2> QED
    BY <1>2, <2>1, <2>2
<1>6. ASSUME NEW s \in Servers, NEW t \in samples'[s]
      PROVE  /\ t <= now' /\ (run'.got[s] # Never => t <= run'.got[s])
             /\ beat'[s] \in samples'[s] /\ t <= beat'[s]
  <2>1. /\ run.got[s] \in Nat /\ now \in Nat /\ samples[s] \subseteq Nat
    BY <1>0, RunFields
  <2>2. CASE New(s)
    <3>1. /\ samples'[s] = samples[s] \cup {run.got[s]} /\ beat'[s] = run.got[s]
          /\ run'.got[s] = run.got[s] /\ run.got[s] # Never
      BY <1>2, <1>3, <1>4, <2>2
    <3>2. run.got[s] <= now /\ \A u \in samples[s] : u <= run.got[s]
      BY <1>0, <3>1 DEF StoreInv
    <3>3. t <= run.got[s] /\ t \in Nat
      BY <1>6, <2>1, <3>1, <3>2
    <3> QED
      BY <1>3, <2>1, <3>1, <3>2, <3>3
  <2>3. CASE ~New(s)
    BY <1>0, <1>2, <1>3, <1>6, <2>1, <2>3 DEF StoreInv
  <2> QED
    BY <2>2, <2>3
<1> QED
  BY <1>0, <1>3, <1>5, <1>6 DEF StoreInv

(* Every step keeps the invariant. *)
LEMMA StepStore == StorageInv /\ [CycleNext]_cycleVars => StorageInv'
<1> SUFFICES ASSUME StorageInv, [CycleNext]_cycleVars PROVE StoreInv'
  BY StepTypeOK DEF StorageInv
<1>0. CycleTypeOK /\ CycleTypeOK' /\ StoreInv /\ run \in RunRecord
  BY StepTypeOK, RunFields DEF StorageInv
<1>1. CASE Begin
  <2>1. PICK targets \in Fleets :
          run' = [NoRun EXCEPT !.pc = "groups", !.targets = targets,
                               !.left = {Group[s] : s \in targets}]
    BY <1>1 DEF Begin
  <2>2. run'.pc = "groups" /\ \A s \in Servers : run'.got[s] = Never
    BY <2>1 DEF NoRun
  <2> QED
    BY <1>0, <1>1, <2>2, NobodyAnswered DEF Begin
<1>2. CASE ReadGroup
  <2>1. CASE Raise("ValidationError") \/ Raise("InvalidURL")
    BY <1>0, <1>2, <2>1, RaiseStores DEF ReadGroup
  <2>2. ASSUME NEW g \in run.left, NEW reply \in [Members(g) -> Replies],
               run' = [run EXCEPT !.left = @ \ {g}, !.reply = RepliesWith(g, reply),
                                  !.got = GotWith(g, reply)]
        PROVE  StoreInv'
    <3>1. run'.pc = "groups" /\ run'.got = GotWith(g, reply)
      BY <1>0, <1>2, <2>2, ReadType DEF ReadGroup
    <3>2. \A s \in Servers : run'.got[s] \in {run.got[s], now}
      BY <3>1 DEF GotWith
    <3>3. UNCHANGED <<now, samples, beat>>
      BY <1>2 DEF ReadGroup
    <3> QED
      BY <1>0, <3>1, <3>2, <3>3, RunFields DEF StoreInv
  <2> QED
    BY <1>2, <2>1, <2>2 DEF ReadGroup
<1>3. CASE GroupsRead /\ ~NoneAnswered
  <2>1. run' = [run EXCEPT !.pc = "stream", !.reply = NoRun.reply]
    BY <1>3 DEF GroupsRead
  <2>2. run'.pc = "stream" /\ run'.got = run.got
    BY <1>0, <2>1 DEF RunRecord
  <2> QED
    BY <1>0, <1>3, <2>2, NothingStored DEF GroupsRead
<1>4. CASE ReadStream /\ run' = [run EXCEPT !.pc = "sync"]
  <2>1. run'.pc = "sync" /\ run'.got = run.got
    BY <1>0, <1>4 DEF RunRecord
  <2> QED
    BY <1>0, <1>4, <2>1, NothingStored DEF ReadStream
<1>5. CASE Sync
  <2>1. /\ run'.pc = "store" /\ run'.got = run.got
        /\ run'.known = run'.targets \ run'.spoilt
    BY <1>0, <1>5 DEF Sync, RunRecord
  <2>2. UNCHANGED <<now, samples, beat>>
    BY <1>5 DEF Sync
  <2> QED
    BY <1>0, <2>1, <2>2 DEF StoreInv
<1>6. CASE StoreServerMetrics
  BY <1>0, <1>6, PhaseStores
<1>7. CASE StoreChannelMetrics \/ Finish
  <2>1. run'.pc = "idle" /\ \A s \in Servers : run'.got[s] = Never
    BY <1>7 DEF StoreChannelMetrics, Finish, NoRun
  <2> QED
    BY <1>0, <1>7, <2>1, NobodyAnswered DEF StoreChannelMetrics, Finish
<1>8. CASE \/ PhaseFails
           \/ GroupsRead /\ NoneAnswered
           \/ ReadStream /\ Raise("StreamingError")
  BY <1>0, <1>8, RaiseStores DEF PhaseFails, GroupsRead, ReadStream
<1>9. CASE Tick
  <2>1. /\ now' = now + 1 /\ UNCHANGED <<run, samples, beat>>
        /\ \A s \in Servers : run.got[s] # Never => now - run.got[s] < Keep
    BY <1>9 DEF Tick
  <2> QED
    BY <1>0, <2>1, RunFields DEF StoreInv
<1>10. CASE Prune
  <2>1. /\ cut' = now - Keep /\ UNCHANGED <<now, run, beat>>
        /\ \A s \in Servers : samples'[s] = {t \in samples[s] : t >= cut'}
    BY <1>10 DEF Prune
  <2>2. \A s \in Servers : /\ samples'[s] \subseteq samples[s]
                           /\ run.got[s] # Never => run.got[s] >= cut'
    BY <1>0, <2>1, RunFields DEF StoreInv
  <2>3. \A s \in run.targets : s \in Servers
    BY <1>0, RunFields
  <2>4. ASSUME NEW s \in Servers, samples'[s] # {}
        PROVE  beat'[s] \in samples'[s] /\ \A t \in samples'[s] : t <= beat'[s]
    <3>1. PICK t \in samples[s] : t >= cut'
      BY <2>1, <2>4
    <3>2. beat[s] \in samples[s] /\ \A u \in samples[s] : u <= beat[s]
      BY <1>0, <3>1 DEF StoreInv
    <3>3. beat[s] \in Nat /\ t \in Nat /\ cut' \in Int
      BY <1>0, <2>1, <3>1, RunFields
    <3>4. beat[s] >= cut'
      BY <3>1, <3>2, <3>3
    <3> QED
      BY <2>1, <2>2, <3>2, <3>4
  <2> QED
    BY <1>0, <2>1, <2>2, <2>3, <2>4 DEF StoreInv
<1>11. CASE UNCHANGED cycleVars
  BY <1>0, <1>11 DEF cycleVars, StoreInv
<1>12. CASE ReadStream
  BY <1>4, <1>8, <1>12 DEF ReadStream
<1>13. CASE GroupsRead
  BY <1>3, <1>8, <1>13
<1> QED
  BY <1>1, <1>2, <1>5, <1>6, <1>7, <1>8, <1>9, <1>10, <1>11, <1>12, <1>13 DEF CycleNext

LEMMA InitStores == CycleInit => StorageInv
<1> SUFFICES ASSUME CycleInit PROVE StoreInv
  BY InitTypeOK DEF StorageInv
<1>1. /\ run.pc = "idle" /\ \A s \in Servers : run.got[s] = Never /\ samples[s] = {}
  BY DEF CycleInit, NoRun
<1> QED
  BY <1>1 DEF StoreInv

(* A host that answered in a group whose credentials were taken has its    *)
(* sample of that minute, whatever else failed, and the heartbeat of a     *)
(* server is its latest sample, although the retention removes others.     *)
THEOREM AnswersStored == CycleSpec => []AnsweredIsStored
<1>1. CycleInit => StorageInv
  BY InitStores
<1>2. StorageInv => AnsweredIsStored
  <2> SUFFICES ASSUME StorageInv PROVE AnsweredIsStored
    OBVIOUS
  <2>1. ASSUME NEW s \in Servers, samples[s] # {} PROVE beat[s] = Max(samples[s])
    BY <2>1, RunFields, LargestIsMax DEF StorageInv, StoreInv
  <2> QED
    BY <2>1 DEF AnsweredIsStored, StorageInv, StoreInv
<1> QED
  BY <1>1, <1>2, StepStore, PTL DEF CycleSpec

-----------------------------------------------------------------------------
(* The rows of a query in their order.                                     *)

\* The place of a row among those of times, newest first.
Place(times, t) == Cardinality({u \in times : u >= t})

LEMMA Places ==
  ASSUME NEW T \in SUBSET Nat, IsFiniteSet(T)
  PROVE  /\ Cardinality(T) \in Nat
         /\ \A t \in T : Place(T, t) \in 1 .. Cardinality(T)
         /\ \A t, u \in T : t > u => Place(T, t) < Place(T, u)
<1> DEFINE Up(t) == {u \in T : u >= t}
<1>1. Cardinality(T) \in Nat
  BY FS_CardinalityType
<1>2. ASSUME NEW t \in T
      PROVE  /\ IsFiniteSet(Up(t)) /\ Cardinality(Up(t)) \in Nat
             /\ Cardinality(Up(t)) <= Cardinality(T) /\ Cardinality(Up(t)) # 0
  <2>1. Up(t) \in SUBSET T /\ t \in Up(t)
    OBVIOUS
  <2> HIDE DEF Up
  <2>2. IsFiniteSet(Up(t)) /\ Cardinality(Up(t)) <= Cardinality(T)
    BY <2>1, FS_Subset
  <2>3. Cardinality(Up(t)) \in Nat
    BY <2>2, FS_CardinalityType
  <2>4. Cardinality(Up(t)) # 0
    BY <2>1, <2>2, FS_EmptySet
  <2> QED
    BY <2>2, <2>3, <2>4
<1>3. ASSUME NEW t \in T, NEW u \in T, t > u
      PROVE  Cardinality(Up(t)) < Cardinality(Up(u))
  <2>1. Up(t) \in SUBSET Up(u) /\ u \in Up(u) /\ u \notin Up(t)
    <3>1. t \in Nat /\ u \in Nat
      OBVIOUS
    <3>2. ASSUME NEW w \in Up(t) PROVE w \in Up(u)
      <4>1. w \in T /\ w \in Nat /\ w >= t
        BY <3>2
      <4>2. w >= u
        BY <1>3, <3>1, <4>1
      <4> QED
        BY <4>1, <4>2
    <3>3. u \in Up(u) /\ u \notin Up(t)
      BY <1>3, <3>1
    <3> QED
      BY <3>2, <3>3, Zenon
  <2>2. IsFiniteSet(Up(u)) /\ Cardinality(Up(u)) \in Nat /\ Cardinality(Up(t)) \in Nat
    BY <1>2
  <2> HIDE DEF Up
  <2>3. /\ Cardinality(Up(t)) <= Cardinality(Up(u))
        /\ Cardinality(Up(u)) = Cardinality(Up(t)) => Up(u) = Up(t)
    BY <2>1, <2>2, FS_Subset
  <2> QED
    BY <2>1, <2>2, <2>3
<1> QED
  BY <1>1, <1>2, <1>3 DEF Place

(* Every place is taken. *)
LEMMA PlacesTaken ==
  ASSUME NEW T \in SUBSET Nat, IsFiniteSet(T)
  PROVE  \A i \in 1 .. Cardinality(T) : \E t \in T : Place(T, t) = i
<1> DEFINE n == Cardinality(T)
           f == [t \in T |-> Place(T, t)]
<1>1. n \in Nat /\ f \in [T -> 1 .. n]
  BY Places
<1>2. \A t, u \in T : f[t] = f[u] => t = u
  <2> SUFFICES ASSUME NEW t \in T, NEW u \in T, t # u PROVE Place(T, t) # Place(T, u)
    OBVIOUS
  <2>1. t > u \/ u > t
    OBVIOUS
  <2>2. Place(T, t) \in Nat /\ Place(T, u) \in Nat
    BY Places
  <2> QED
    BY <2>1, <2>2, Places
<1>3. f \in Injection(T, 1 .. n)
  BY <1>1, <1>2 DEF Injection, IsInjective
<1>4. IsFiniteSet(1 .. n) /\ Cardinality(1 .. n) = n
  BY <1>1, FS_Interval
<1>5. f \in Surjection(T, 1 .. n)
  <2> HIDE DEF f
  <2> QED
    BY <1>3, <1>4, FS_Injection DEF n
<1>6. \A i \in 1 .. n : \E t \in T : f[t] = i
  <2> HIDE DEF f
  <2> QED
    BY <1>5 DEF Surjection
<1> QED
  BY <1>6

(* The query returns each row once, newest first. *)
LEMMA RowsInOrder ==
  ASSUME NEW T \in SUBSET Nat, IsFiniteSet(T)
  PROVE  /\ NewestFirst(T) \in Seq(T)
         /\ \A i, j \in 1 .. Len(NewestFirst(T)) :
               i < j => NewestFirst(T)[i] > NewestFirst(T)[j]
         /\ \A t \in T : \E i \in 1 .. Len(NewestFirst(T)) : NewestFirst(T)[i] = t
<1> DEFINE n == Cardinality(T)
           At(i) == CHOOSE t \in T : Place(T, t) = i
           r == [i \in 1 .. n |-> At(i)]
           rows == NewestFirst(T)
           Falls(q) == \A i, j \in DOMAIN q : i < j => q[i] > q[j]
<1>1. n \in Nat
  BY Places
<1>2. \A i \in 1 .. n : At(i) \in T /\ Place(T, At(i)) = i
  BY PlacesTaken
<1>3. ASSUME NEW i \in 1 .. n, NEW j \in 1 .. n, i < j PROVE At(i) > At(j)
  <2> DEFINE x == At(i)
             y == At(j)
  <2>1. /\ x \in T /\ Place(T, x) = i
        /\ y \in T /\ Place(T, y) = j
    BY <1>2
  <2> HIDE DEF x, y
  <2>2. x \in Nat /\ y \in Nat /\ x # y
    BY <1>3, <2>1
  <2>3. ~(y > x)
    BY <1>1, <1>3, <2>1, Places
  <2>4. x > y
    BY <2>2, <2>3
  <2> QED
    BY <2>4 DEF x, y
<1>4. r \in SetToSeqs(T) /\ Falls(r)
  <2> HIDE DEF At
  <2>1. r \in [1 .. n -> T]
    BY <1>2
  <2>2. \A i, j \in 1 .. n : i # j => r[i] # r[j]
    <3> SUFFICES ASSUME NEW i \in 1 .. n, NEW j \in 1 .. n, i # j PROVE At(i) # At(j)
      OBVIOUS
    <3>1. At(i) \in Nat /\ At(j) \in Nat
      BY <1>2
    <3>2. i < j \/ j < i
      BY <1>1
    <3> QED
      BY <1>3, <3>1, <3>2
  <2>3. Falls(r)
    BY <1>3
  <2> HIDE DEF r
  <2> QED
    BY <2>1, <2>2, <2>3 DEF SetToSeqs
<1>5. rows = CHOOSE q \in SetToSeqs(T) : Falls(q)
  BY DEF NewestFirst
<1>6. rows \in SetToSeqs(T) /\ Falls(rows)
  <2> HIDE DEF rows, r, Falls
  <2> QED
    BY <1>4, <1>5
<1> HIDE DEF rows, r
<1>7. rows \in [1 .. n -> T] /\ \A i, j \in 1 .. n : i # j => rows[i] # rows[j]
  BY <1>6 DEF SetToSeqs
<1>8. rows \in Seq(T) /\ Len(rows) = n
  BY <1>1, <1>7
<1>9. \A t \in T : \E i \in 1 .. n : rows[i] = t
  <2>1. rows \in Injection(1 .. n, T)
    BY <1>7 DEF Injection, IsInjective
  <2>2. IsFiniteSet(1 .. n) /\ Cardinality(1 .. n) = n
    BY <1>1, FS_Interval
  <2>3. rows \in Surjection(1 .. n, T)
    BY <2>1, <2>2, FS_Injection
  <2> QED
    BY <2>3 DEF Surjection
<1> QED
  BY <1>6, <1>7, <1>8, <1>9 DEF rows

-----------------------------------------------------------------------------
(* The walk through the history.                                           *)

\* Nothing older than the last pruning is stored, and nothing older can be.
KeptInv ==
    /\ cut = 1 \/ cut <= now - Keep
    /\ \A s \in Servers : \A t \in samples[s] : t >= cut

WalkRecord == [pc : {"idle", "page", "end"}, cursor : 1 .. MaxMinute + 1,
               rows : Seq(Minutes), first : SUBSET Minutes]

\* What was there at first and has not been pruned is stored still, and the
\* client has it, down to its cursor.
WalkInv ==
    /\ walk \in WalkRecord
    /\ \A t \in walk.first : t >= cut => t \in samples[Walked]
    /\ \A i, j \in 1 .. Len(walk.rows) : i < j => walk.rows[i] > walk.rows[j]
    /\ walk.pc = "page" => \A i \in 1 .. Len(walk.rows) : walk.rows[i] >= walk.cursor
    /\ walk.pc # "idle" =>
         \A t \in walk.first : t >= cut /\ (walk.pc = "end" \/ t >= walk.cursor) =>
            \E i \in 1 .. Len(walk.rows) : walk.rows[i] = t

ReadingInv == StorageInv /\ KeptInv /\ WalkInv

(* A collection only adds rows that the retention keeps. *)
LEMMA StepKeeps ==
  ASSUME StorageInv, KeptInv, [CycleNext]_cycleVars
  PROVE  /\ KeptInv'
         /\ cut' >= cut
         /\ \A s \in Servers : \A t \in samples[s] : t >= cut' => t \in samples'[s]
<1>1. /\ CycleTypeOK /\ StoreInv /\ now \in Nat /\ cut \in Nat \ {0} /\ Keep \in Nat \ {0}
      /\ \A s \in Servers : run.got[s] \in Nat /\ samples[s] \subseteq Nat
  BY RunFields DEF StorageInv
<1>2. CASE UNCHANGED <<samples, cut>> /\ now' \in {now, now + 1}
  <2>1. samples' = samples /\ cut' = cut /\ cut' >= cut
    BY <1>1, <1>2
  <2>2. cut = 1 \/ cut <= now' - Keep
    <3>1. (cut = 1 \/ cut <= now - Keep) /\ now \in Nat /\ cut \in Nat /\ Keep \in Nat
      BY <1>1 DEF KeptInv
    <3>2. now' = now \/ now' = now + 1
      BY <1>2
    <3> QED
      BY <3>1, <3>2
  <2>3. \A s \in Servers : \A t \in samples[s] : t >= cut
    BY DEF KeptInv
  <2>4. KeptInv'
    BY <2>1, <2>2, <2>3 DEF KeptInv
  <2> QED
    BY <2>1, <2>4
<1>3. CASE StoreServerMetrics
  <2>1. PICK new \in SUBSET Answered :
          samples' = [s \in Servers |-> IF s \in new
                      THEN samples[s] \cup {run.got[s]} ELSE samples[s]]
    <3>1. PICK bad \in {{}} \cup {{s} : s \in Answered \cap run.known} :
            LET new == {s \in Stored(bad) : run.got[s] \notin samples[s]}
            IN  samples' = [s \in Servers |-> IF s \in new
                            THEN samples[s] \cup {run.got[s]} ELSE samples[s]]
      BY <1>3 DEF StoreServerMetrics
    <3>2. {s \in Stored(bad) : run.got[s] \notin samples[s]} \in SUBSET Answered
      BY DEF Stored
    <3> QED
      BY <3>1, <3>2
  <2>2. UNCHANGED <<now, cut>>
    BY <1>3 DEF StoreServerMetrics
  <2>3. \A s \in new : s \in Servers /\ run.got[s] >= cut
    <3> SUFFICES ASSUME NEW s \in new PROVE s \in Servers /\ run.got[s] >= cut
      OBVIOUS
    <3>1. s \in Servers /\ run.got[s] \in Nat /\ run.got[s] # 0
      BY <1>1 DEF Answered, Never
    <3>2. now - run.got[s] <= Keep
      BY <1>1, <3>1 DEF StoreInv, Never
    <3> QED
      BY <1>1, <3>1, <3>2 DEF KeptInv
  <2> QED
    BY <1>1, <2>1, <2>2, <2>3 DEF KeptInv
<1>4. CASE Prune
  <2>1. /\ now - Keep > cut /\ cut' = now - Keep /\ now' = now
        /\ samples' = [s \in Servers |-> {t \in samples[s] : t >= cut'}]
    BY <1>4 DEF Prune
  <2> QED
    BY <1>1, <2>1 DEF KeptInv
<1>5. CASE Begin \/ ReadGroup \/ GroupsRead \/ ReadStream \/ Sync
           \/ StoreChannelMetrics \/ PhaseFails \/ Finish
  BY <1>2, <1>5
     DEF Begin, ReadGroup, GroupsRead, ReadStream, Sync, StoreChannelMetrics, PhaseFails, Finish
<1>6. CASE Tick \/ UNCHANGED cycleVars
  BY <1>2, <1>6 DEF Tick, cycleVars
<1> QED
  BY <1>3, <1>4, <1>5, <1>6 DEF CycleNext

(* What the query before a cursor returns. *)
LEMMA RowsBefore ==
  ASSUME CycleTypeOK, NEW c \in Nat
  PROVE  LET rows == Before(c) IN
         /\ rows \in Seq(Minutes) /\ Len(rows) \in Nat
         /\ \A i \in 1 .. Len(rows) : rows[i] < c
         /\ \A i, j \in 1 .. Len(rows) : i < j => rows[i] > rows[j]
         /\ \A t \in samples[Walked] : t < c => \E i \in 1 .. Len(rows) : rows[i] = t
<1> DEFINE T == {t \in samples[Walked] : t < c}
           rows == NewestFirst(T)
<1>1. T \in SUBSET Nat /\ T \in SUBSET Minutes /\ \A t \in T : t <= c
  BY RunFields, ReadingsAssumption
<1>2. \A t \in samples[Walked] : t < c => t \in T
  OBVIOUS
<1>3. \A t \in T : t < c
  OBVIOUS
<1>4. Before(c) = rows
  BY DEF Before
<1> HIDE DEF T
<1>5. IsFiniteSet(T)
  BY <1>1, FS_BoundedSetOfNaturals
<1>6. /\ rows \in Seq(T)
      /\ \A i, j \in 1 .. Len(rows) : i < j => rows[i] > rows[j]
      /\ \A t \in T : \E i \in 1 .. Len(rows) : rows[i] = t
  BY <1>1, <1>5, RowsInOrder
<1> HIDE DEF rows
<1>7. rows \in Seq(Minutes) /\ Len(rows) \in Nat
  <2>1. Len(rows) \in Nat /\ rows \in [1 .. Len(rows) -> T]
    BY <1>6, LenProperties
  <2>2. rows \in [1 .. Len(rows) -> Minutes]
    BY <1>1, <2>1
  <2> QED
    BY <2>1, <2>2
<1>8. \A i \in 1 .. Len(rows) : rows[i] \in T
  BY <1>6, ElementOfSeq
<1> QED
  BY <1>2, <1>3, <1>4, <1>6, <1>7, <1>8

(* A page is the first rows of what the query returns, one row shorter     *)
(* than what was read if there are more.                                   *)
PageOf(all) == SubSeq(all, 1, Min({Limit + 1, Len(all)}))
Added(all)  == IF Len(PageOf(all)) > Limit THEN SubSeq(PageOf(all), 1, Limit) ELSE PageOf(all)

LEMMA PageRows ==
  ASSUME NEW all \in Seq(Minutes)
  PROVE  /\ Added(all) \in Seq(Minutes)
         /\ Len(Added(all)) = IF Len(all) > Limit THEN Limit ELSE Len(all)
         /\ \A i \in 1 .. Len(Added(all)) : Added(all)[i] = all[i]
         /\ Len(PageOf(all)) > Limit <=> Len(all) > Limit
         /\ Len(all) > Limit => NextCursor(PageOf(all)) = all[Limit]
<1> DEFINE n == Min({Limit + 1, Len(all)})
           rows == PageOf(all)
           few == SubSeq(rows, 1, Limit)
<1>1. /\ Len(all) \in Nat /\ Limit \in Nat \ {0}
      /\ \A i \in 1 .. Len(all) : all[i] \in Minutes
  BY LenProperties, ElementOfSeq, ReadingsAssumption
<1>2. n = IF Limit + 1 <= Len(all) THEN Limit + 1 ELSE Len(all)
  <2>1. n \in {Limit + 1, Len(all)} /\ n <= Limit + 1 /\ n <= Len(all)
    BY <1>1 DEF Min
  <2> HIDE DEF n
  <2> QED
    BY <1>1, <2>1
<1>3. rows = SubSeq(all, 1, n)
  BY DEF PageOf
<1> HIDE DEF n, rows
<1>4. n \in Int /\ 1 \in Int /\ \A i \in 1 .. n : all[i] \in Minutes
  BY <1>1, <1>2
<1>5. /\ rows \in Seq(Minutes) /\ Len(rows) = IF 1 <= n THEN n - 1 + 1 ELSE 0
      /\ \A i \in 1 .. n - 1 + 1 : rows[i] = all[1 + i - 1]
  BY <1>3, <1>4, SubSeqProperties
<1>6. Len(rows) = n /\ \A i \in 1 .. n : rows[i] = all[i]
  BY <1>1, <1>2, <1>5
<1>7. Len(rows) > Limit <=> Len(all) > Limit
  BY <1>1, <1>2, <1>6
<1>8. CASE Len(all) > Limit
  <2>1. Limit \in Int /\ \A i \in 1 .. Limit : rows[i] \in Minutes /\ rows[i] = all[i]
    BY <1>1, <1>2, <1>6, <1>8
  <2>2. /\ few \in Seq(Minutes) /\ Len(few) = IF 1 <= Limit THEN Limit - 1 + 1 ELSE 0
        /\ \A i \in 1 .. Limit - 1 + 1 : few[i] = rows[1 + i - 1]
    BY <2>1, SubSeqProperties
  <2>3. Added(all) = few
    BY <1>7, <1>8 DEF Added, rows
  <2> HIDE DEF few
  <2>4. Len(few) = Limit /\ \A i \in 1 .. Limit : few[i] = all[i]
    BY <1>1, <2>1, <2>2
  <2>5. NextCursor(rows) = all[Limit]
    BY <1>1, <2>1 DEF NextCursor
  <2> QED
    BY <1>7, <1>8, <2>2, <2>3, <2>4, <2>5 DEF rows
<1>9. CASE ~(Len(all) > Limit)
  <2>1. Added(all) = rows
    BY <1>7, <1>9 DEF Added, rows
  <2>2. n = Len(all)
    BY <1>1, <1>2, <1>9
  <2> QED
    BY <1>5, <1>6, <1>7, <1>9, <2>1, <2>2 DEF rows
<1> QED
  BY <1>8, <1>9

LEMMA PageKeeps ==
  ASSUME CycleTypeOK, WalkInv, Page, UNCHANGED cycleVars
  PROVE  WalkInv'
<1> DEFINE c == walk.cursor
           old == walk.rows
           all == Before(c)
           add == Added(all)
           more == Len(all) > Limit
           rows == old \o add
<1>1. /\ c \in 1 .. MaxMinute + 1 /\ old \in Seq(Minutes) /\ walk.pc = "page" /\ c \in Nat
      /\ walk.first \subseteq Minutes
      /\ samples' = samples /\ cut' = cut /\ Limit \in Nat \ {0} /\ MaxMinute \in Nat
  <2>1. walk \in WalkRecord /\ walk.pc = "page" /\ samples' = samples /\ cut' = cut
    BY DEF WalkInv, Page, cycleVars
  <2>2. MaxMinute \in Nat /\ Limit \in Nat \ {0}
    BY RunFields, ReadingsAssumption
  <2> QED
    BY <2>1, <2>2 DEF WalkRecord
<1>2. /\ all \in Seq(Minutes) /\ Len(all) \in Nat
      /\ \A i \in 1 .. Len(all) : all[i] < c
      /\ \A i, j \in 1 .. Len(all) : i < j => all[i] > all[j]
      /\ \A t \in samples[Walked] : t < c => \E i \in 1 .. Len(all) : all[i] = t
  BY <1>1, RowsBefore
<1>3. walk' = [walk EXCEPT
        !.pc     = IF Len(PageOf(all)) > Limit THEN "page" ELSE "end",
        !.cursor = IF Len(PageOf(all)) > Limit THEN NextCursor(PageOf(all)) ELSE @,
        !.rows   = @ \o add]
  BY DEF Page, PageOf, Added
<1> HIDE DEF all
<1>4. /\ add \in Seq(Minutes) /\ Len(add) = IF more THEN Limit ELSE Len(all)
      /\ \A i \in 1 .. Len(add) : add[i] = all[i]
      /\ Len(PageOf(all)) > Limit <=> more
      /\ more => NextCursor(PageOf(all)) = all[Limit]
  BY <1>2, PageRows
<1> HIDE DEF add
<1>5. /\ Len(old) \in Nat /\ \A i \in 1 .. Len(old) : old[i] \in Minutes
      /\ Len(add) \in Nat /\ \A i \in 1 .. Len(all) : all[i] \in Minutes
      /\ Len(add) <= Len(all)
  <2>1. /\ Len(old) \in Nat /\ \A i \in 1 .. Len(old) : old[i] \in Minutes
        /\ Len(add) \in Nat /\ \A i \in 1 .. Len(all) : all[i] \in Minutes
    BY <1>1, <1>2, <1>4, LenProperties, ElementOfSeq
  <2> QED
    BY <1>1, <1>2, <1>4, <2>1
<1>6. /\ rows \in Seq(Minutes) /\ Len(rows) = Len(old) + Len(add)
      /\ \A i \in 1 .. Len(old) + Len(add) :
           rows[i] = IF i <= Len(old) THEN old[i] ELSE add[i - Len(old)]
  BY <1>1, <1>4, ConcatProperties
<1>7. /\ walk'.pc = (IF more THEN "page" ELSE "end") /\ walk'.rows = rows
      /\ walk'.cursor = (IF more THEN all[Limit] ELSE c)
      /\ walk'.first = walk.first
  <2>1. walk' = [walk EXCEPT !.pc     = IF more THEN "page" ELSE "end",
                             !.cursor = IF more THEN all[Limit] ELSE c,
                             !.rows   = rows]
    BY <1>3, <1>4
  <2>2. walk \in WalkRecord
    BY DEF WalkInv
  <2> HIDE DEF rows, c
  <2> QED
    BY <2>1, <2>2 DEF WalkRecord
<1> HIDE DEF rows, c, old
<1>8. \A i \in 1 .. Len(old) : old[i] >= c
  BY <1>1 DEF WalkInv, c, old
<1>9. \A i, j \in 1 .. Len(old) : i < j => old[i] > old[j]
  BY DEF WalkInv, old
<1>10. \A i \in 1 .. Len(rows) :
         \/ i \in 1 .. Len(old) /\ rows[i] = old[i]
         \/ /\ i - Len(old) \in 1 .. Len(add) /\ i - Len(old) \in 1 .. Len(all)
            /\ i > Len(old) /\ rows[i] = all[i - Len(old)]
  <2> SUFFICES ASSUME NEW i \in 1 .. Len(rows), ~(i <= Len(old))
               PROVE  /\ i - Len(old) \in 1 .. Len(add) /\ i - Len(old) \in 1 .. Len(all)
                      /\ i > Len(old) /\ rows[i] = all[i - Len(old)]
    BY <1>5, <1>6
  <2>1. i - Len(old) \in 1 .. Len(add) /\ i - Len(old) \in 1 .. Len(all) /\ i > Len(old)
    BY <1>2, <1>5, <1>6
  <2>2. rows[i] = add[i - Len(old)]
    BY <1>5, <1>6
  <2> QED
    BY <1>4, <2>1, <2>2
<1>11. ASSUME NEW i \in 1 .. Len(rows), NEW j \in 1 .. Len(rows), i < j
       PROVE  rows[i] > rows[j]
  <2>1. CASE j <= Len(old)
    <3>1. i \in 1 .. Len(old) /\ j \in 1 .. Len(old) /\ rows[i] = old[i] /\ rows[j] = old[j]
      BY <1>5, <1>6, <1>10, <1>11, <2>1
    <3> QED
      BY <1>9, <1>11, <3>1
  <2>2. CASE ~(j <= Len(old))
    <3> DEFINE v == j - Len(old)
    <3>1. v \in 1 .. Len(all) /\ rows[j] = all[v]
      BY <1>5, <1>6, <1>10, <2>2
    <3>2. CASE i <= Len(old)
      <4>1. i \in 1 .. Len(old) /\ rows[i] = old[i]
        BY <1>5, <1>6, <1>10, <3>2
      <4>2. old[i] >= c /\ all[v] < c /\ old[i] \in Nat /\ all[v] \in Nat
        BY <1>2, <1>5, <1>8, <3>1, <4>1 DEF Minutes
      <4> QED
        BY <1>1, <3>1, <4>1, <4>2 DEF c
    <3>3. CASE ~(i <= Len(old))
      <4>1. /\ i - Len(old) \in 1 .. Len(all) /\ rows[i] = all[i - Len(old)]
            /\ i - Len(old) < v
        BY <1>5, <1>6, <1>10, <1>11, <3>3
      <4> QED
        BY <1>2, <3>1, <4>1
    <3> QED
      BY <3>2, <3>3
  <2> QED
    BY <2>1, <2>2
<1>12. ASSUME more
       PROVE  /\ Limit \in 1 .. Len(all) /\ all[Limit] < c /\ all[Limit] \in Minutes
              /\ Len(add) = Limit
  BY <1>1, <1>2, <1>4, <1>5, <1>12
<1>13. ASSUME more, NEW i \in 1 .. Len(rows) PROVE rows[i] >= all[Limit]
  <2>1. CASE i <= Len(old)
    <3>1. rows[i] \in Nat /\ rows[i] >= c
      BY <1>5, <1>6, <1>8, <1>10, <2>1 DEF Minutes
    <3> QED
      BY <1>1, <1>12, <1>13, <3>1 DEF c, Minutes
  <2>2. CASE ~(i <= Len(old))
    <3> DEFINE v == i - Len(old)
    <3>1. v \in 1 .. Len(all) /\ v <= Limit /\ rows[i] = all[v]
      BY <1>1, <1>5, <1>6, <1>10, <1>12, <1>13, <2>2
    <3>2. all[v] \in Nat /\ all[Limit] \in Nat
      BY <1>5, <1>12, <1>13, <3>1 DEF Minutes
    <3>3. v = Limit \/ all[v] > all[Limit]
      BY <1>2, <1>12, <1>13, <3>1
    <3> QED
      BY <3>1, <3>2, <3>3
  <2> QED
    BY <2>1, <2>2
<1>14. ASSUME NEW t \in walk.first, t >= cut, ~more \/ t >= all[Limit]
       PROVE  \E i \in 1 .. Len(rows) : rows[i] = t
  <2>1. t \in Minutes /\ t \in samples[Walked]
    BY <1>1, <1>14 DEF WalkInv
  <2>2. CASE t >= c
    <3>1. PICK i \in 1 .. Len(old) : old[i] = t
      BY <1>1, <1>14, <2>2 DEF WalkInv, c, old
    <3>2. i \in 1 .. Len(rows) /\ rows[i] = old[i]
      BY <1>5, <1>6, <3>1
    <3> QED
      BY <3>1, <3>2
  <2>3. CASE t < c
    <3>1. PICK v \in 1 .. Len(all) : all[v] = t
      BY <1>2, <2>1, <2>3
    <3>2. v \in 1 .. Len(add)
      <4>1. CASE ~more
        BY <1>4, <3>1, <4>1
      <4>2. CASE more
        <5>1. all[v] >= all[Limit] /\ all[v] \in Nat /\ all[Limit] \in Nat
          BY <1>5, <1>12, <1>14, <3>1, <4>2 DEF Minutes
        <5>2. ~(v > Limit)
          BY <1>2, <1>12, <3>1, <4>2, <5>1
        <5> QED
          BY <1>1, <1>12, <3>1, <4>2, <5>2
      <4> QED
        BY <4>1, <4>2
    <3>3. /\ Len(old) + v \in 1 .. Len(rows) /\ ~(Len(old) + v <= Len(old))
          /\ Len(old) + v - Len(old) = v
      BY <1>5, <1>6, <3>2
    <3>4. rows[Len(old) + v] = add[v]
      BY <1>6, <3>3
    <3>5. rows[Len(old) + v] = t
      BY <1>4, <3>1, <3>2, <3>4
    <3> QED
      BY <3>3, <3>5
  <2>4. t \in Nat
    BY <2>1 DEF Minutes
  <2> QED
    BY <1>1, <2>2, <2>3, <2>4 DEF c
<1>15. walk'.cursor \in 1 .. MaxMinute + 1
  <2>1. CASE more
    BY <1>1, <1>7, <1>12, <2>1 DEF Minutes
  <2>2. CASE ~more
    BY <1>1, <1>7, <2>2 DEF c
  <2> QED
    BY <2>1, <2>2
<1>16. \A t \in walk'.first : t >= cut' => t \in samples'[Walked]
  BY <1>1, <1>7 DEF WalkInv
<1>17. walk'.pc = "page" => \A i \in 1 .. Len(rows) : rows[i] >= walk'.cursor
  BY <1>7, <1>13
<1>18. \A t \in walk'.first : t >= cut' /\ (walk'.pc = "end" \/ t >= walk'.cursor) =>
         \E i \in 1 .. Len(rows) : rows[i] = t
  BY <1>1, <1>7, <1>14
<1>19. walk' \in WalkRecord
  <2>1. walk' = [walk EXCEPT !.pc = walk'.pc, !.cursor = walk'.cursor, !.rows = rows]
    BY <1>3, <1>7
  <2>2. walk \in WalkRecord /\ walk'.pc \in {"idle", "page", "end"}
    BY <1>7 DEF WalkInv
  <2> QED
    BY <1>6, <1>15, <2>1, <2>2 DEF WalkRecord
<1> QED
  BY <1>7, <1>11, <1>16, <1>17, <1>18, <1>19 DEF WalkInv

(* The walk starts at what is stored, and forgets it at the end. *)
LEMMA WalkStep ==
  ASSUME StorageInv, KeptInv, WalkInv, StartWalk \/ Page \/ EndWalk, UNCHANGED cycleVars
  PROVE  WalkInv'
<1>1. samples' = samples /\ cut' = cut /\ samples[Walked] \subseteq Minutes
      /\ MaxMinute \in Nat
  BY RunFields, ReadingsAssumption DEF StorageInv, cycleVars
<1>2. CASE walk'.pc # "page" /\ ~Page
  <2>1. walk' = NoWalk
    BY <1>2 DEF StartWalk, EndWalk, NoWalk
  <2>2. /\ walk'.pc = "idle" /\ walk'.rows = <<>> /\ walk'.first = {}
        /\ walk'.cursor = MaxMinute + 1
    BY <2>1 DEF NoWalk
  <2>3. walk' \in WalkRecord
    BY <1>1, <2>1 DEF NoWalk, WalkRecord
  <2> QED
    BY <2>2, <2>3 DEF WalkInv
<1>3. CASE StartWalk
  <2>1. walk' = [pc |-> "page", cursor |-> MaxMinute + 1, rows |-> <<>>,
                 first |-> samples[Walked]]
    BY <1>3 DEF StartWalk, NoWalk
  <2>2. walk' \in WalkRecord
    BY <1>1, <2>1 DEF WalkRecord
  <2>3. \A t \in walk'.first : ~(t >= walk'.cursor)
    BY <1>1, <2>1 DEF Minutes
  <2> QED
    BY <1>1, <2>1, <2>2, <2>3 DEF WalkInv
<1>4. CASE Page
  BY <1>4, PageKeeps DEF StorageInv
<1>5. CASE EndWalk
  BY <1>2, <1>5 DEF EndWalk, NoWalk, Page
<1> QED
  BY <1>3, <1>4, <1>5

(* Every step keeps what the client has and what is stored together. *)
LEMMA ReadingStep == ReadingInv /\ [Next]_vars => ReadingInv'
<1> SUFFICES ASSUME ReadingInv, [Next]_vars PROVE ReadingInv'
  OBVIOUS
<1>1. StorageInv /\ KeptInv /\ WalkInv /\ [CycleNext]_cycleVars
  BY DEF ReadingInv, Next, vars
<1>2. StorageInv' /\ KeptInv'
  BY <1>1, StepStore, StepKeeps
<1>3. CASE UNCHANGED walk
  <2>1. /\ cut' >= cut /\ cut \in Nat /\ cut' \in Nat /\ Walked \in Servers
        /\ \A t \in samples[Walked] : t >= cut' => t \in samples'[Walked]
    BY <1>1, <1>2, StepKeeps, RunFields, ReadingsAssumption DEF StorageInv, CycleTypeOK, Minutes
  <2>2. \A t \in walk.first : t \in Nat /\ (t >= cut' => t >= cut)
    BY <1>1, <2>1 DEF WalkInv, WalkRecord, Minutes
  <2>3. WalkInv'
    BY <1>1, <1>3, <2>1, <2>2 DEF WalkInv
  <2> QED
    BY <1>2, <2>3 DEF ReadingInv
<1>4. CASE (StartWalk \/ Page \/ EndWalk) /\ UNCHANGED cycleVars
  BY <1>1, <1>2, <1>4, WalkStep DEF ReadingInv
<1> QED
  BY <1>3, <1>4 DEF Next, vars

LEMMA ReadingInit == Init => ReadingInv
<1> SUFFICES ASSUME Init PROVE ReadingInv
  OBVIOUS
<1>1. StorageInv
  BY InitStores DEF Init
<1>2. KeptInv
  BY DEF Init, CycleInit, KeptInv
<1>3. WalkInv
  <2>1. walk = NoWalk /\ MaxMinute \in Nat
    BY CycleAssumption DEF Init
  <2>2. walk \in WalkRecord
    BY <2>1 DEF NoWalk, WalkRecord
  <2> QED
    BY <2>1, <2>2 DEF NoWalk, WalkInv
<1> QED
  BY <1>1, <1>2, <1>3 DEF ReadingInv

(* Collections, samples and the client's rows stay of their types: the     *)
(* cursor is a minute that was read, or comes after all of them.           *)
THEOREM ReadingsTypeCorrect == Spec => []ReadingsTypeOK
<1>1. ReadingInv => ReadingsTypeOK
  <2> SUFFICES ASSUME ReadingInv PROVE ReadingsTypeOK
    OBVIOUS
  <2>1. walk \in WalkRecord /\ CycleTypeOK
    BY DEF ReadingInv, WalkInv, StorageInv
  <2>2. \A i \in DOMAIN walk.rows : walk.rows[i] \in Minutes
    BY <2>1 DEF WalkRecord
  <2> QED
    BY <2>1, <2>2 DEF WalkRecord, ReadingsTypeOK
<1> QED
  BY <1>1, ReadingInit, ReadingStep, PTL DEF Spec

(* A client that follows X-Next-Cursor to the end gets every row that was  *)
(* there at first and still is, each once and newest first, whatever       *)
(* collections store and the retention prunes between two pages, for any   *)
(* limit (list_server_metrics, prune_history).                             *)
THEOREM WalkComplete == Spec => []WalkIsComplete
<1>1. ReadingInv => WalkIsComplete
  <2> SUFFICES ASSUME ReadingInv, walk.pc = "end"
               PROVE  /\ walk.first \cap samples[Walked] \subseteq Range(walk.rows)
                      /\ \A i, j \in DOMAIN walk.rows :
                           i < j => walk.rows[i] > walk.rows[j]
    BY DEF WalkIsComplete
  <2>1. /\ DOMAIN walk.rows = 1 .. Len(walk.rows) /\ Walked \in Servers
        /\ WalkInv /\ KeptInv
    BY ReadingsAssumption, LenProperties DEF ReadingInv, WalkInv, WalkRecord
  <2>2. ASSUME NEW t \in walk.first \cap samples[Walked] PROVE t \in Range(walk.rows)
    <3>1. PICK i \in 1 .. Len(walk.rows) : walk.rows[i] = t
      BY <2>1 DEF WalkInv, KeptInv
    <3> QED
      BY <2>1, <3>1 DEF Range
  <2> QED
    BY <2>1, <2>2 DEF WalkInv
<1> QED
  BY <1>1, ReadingInit, ReadingStep, PTL DEF Spec

(* What is proved of the collections alone holds while clients read. *)
THEOREM ReadersChangeNothing == Spec => [](AnsweredIsStored /\ FailureIsContained)
<1>1. Init => CycleInit
  BY DEF Init
<1>2. [Next]_vars => [CycleNext]_cycleVars
  BY DEF Next, vars
<1> QED
  BY <1>1, <1>2, AnswersStored, FailuresContained, PTL DEF Spec, CycleSpec

-----------------------------------------------------------------------------
(* Totals.  A total is a fold over a set in an order the specification     *)
(* does not know; what it is for every set is shown by induction on the    *)
(* set, as the absence of a least counterexample.                          *)

Over(rate, set) == MapThenSumSet(LAMBDA s : rate[s], set)

(* A non-empty set of numbers has a least one, and a non-empty set of      *)
(* subsets of a finite set one without any other inside it: what a proof   *)
(* by induction takes its counterexample from.                             *)
LEMMA LeastNumber ==
  ASSUME NEW Bad \in SUBSET Nat, Bad # {}
  PROVE  \E n \in Bad : \A m \in Bad : ~(m < n)
<1>1. \E n \in Bad : \A m \in Bad : <<m, n>> \notin OpToRel(<, Nat)
  BY NatLessThanWellFounded, WFMin
<1> QED
  BY <1>1 DEF OpToRel

LEMMA LeastSet ==
  ASSUME NEW S, IsFiniteSet(S), NEW Bad \in SUBSET (SUBSET S), Bad # {}
  PROVE  \E T \in Bad : \A U \in SUBSET T : U # T => U \notin Bad
<1>1. IsWellFoundedOn(StrictSubsetOrdering(S), SUBSET S)
  BY FS_StrictSubsetOrderingWellFounded, FS_FiniteSubsetsOfFinite
<1>2. PICK T \in Bad : \A U \in Bad : <<U, T>> \notin StrictSubsetOrdering(S)
  BY <1>1, WFMin
<1> QED
  BY <1>2 DEF StrictSubsetOrdering

\* The element a fold over a set begins with, and what the fold is.
Pick(T) == CHOOSE x \in T : TRUE
Unfolded(rate, sum, T) == IF T = {} THEN 0 ELSE rate[Pick(T)] + sum[T \ {Pick(T)}]
Sums(rate, S) == CHOOSE sum : sum = [T \in SUBSET S |-> Unfolded(rate, sum, T)]

SumsOf(rate, S, sum) ==
  /\ sum \in [SUBSET S -> Nat]
  /\ \A T \in SUBSET S : sum[T] = Unfolded(rate, sum, T)

LEMMA PickIn == \A T : T # {} => Pick(T) \in T
BY DEF Pick

(* The fold that the total is exists: sums that are right for sets of n    *)
(* elements make those of sets of n + 1.                                   *)
LEMMA SumsExist ==
  ASSUME NEW rate, NEW S, IsFiniteSet(S), \A s \in S : rate[s] \in Nat
  PROVE  \E sum : SumsOf(rate, S, sum)
<1> DEFINE Right(n, sum) ==
             \A T \in SUBSET S : Cardinality(T) <= n => sum[T] = Unfolded(rate, sum, T)
           Good(n) == \E sum \in [SUBSET S -> Nat] : Right(n, sum)
           Bad == {n \in Nat : ~Good(n)}
<1>1. \A T \in SUBSET S : IsFiniteSet(T) /\ Cardinality(T) \in Nat /\ Cardinality(T) <= Cardinality(S)
  BY FS_Subset, FS_CardinalityType
<1>2. ASSUME NEW sum \in [SUBSET S -> Nat], NEW T \in SUBSET S
      PROVE  Unfolded(rate, sum, T) \in Nat
  <2>1. CASE T = {}
    BY <2>1 DEF Unfolded
  <2>2. CASE T # {}
    <3>1. Pick(T) \in T /\ T \ {Pick(T)} \in SUBSET S
      BY <2>2, PickIn
    <3>2. rate[Pick(T)] \in Nat /\ sum[T \ {Pick(T)}] \in Nat
      BY <3>1
    <3> QED
      BY <2>2, <3>2 DEF Unfolded
  <2> QED
    BY <2>1, <2>2
<1>3. Good(0)
  <2> DEFINE zero == [T \in SUBSET S |-> 0]
  <2>1. zero \in [SUBSET S -> Nat]
    OBVIOUS
  <2>2. ASSUME NEW T \in SUBSET S, Cardinality(T) <= 0 PROVE zero[T] = Unfolded(rate, zero, T)
    <3>1. T = {}
      BY <1>1, <2>2, FS_EmptySet
    <3> QED
      BY <3>1 DEF Unfolded
  <2> HIDE DEF zero
  <2> QED
    BY <2>1, <2>2
<1>4. ASSUME NEW n \in Nat, Good(n) PROVE Good(n + 1)
  <2>1. PICK sum \in [SUBSET S -> Nat] : Right(n, sum)
    BY <1>4
  <2> DEFINE next == [T \in SUBSET S |-> Unfolded(rate, sum, T)]
  <2>2. next \in [SUBSET S -> Nat]
    BY <1>2
  <2>3. ASSUME NEW T \in SUBSET S, Cardinality(T) <= n + 1 PROVE next[T] = Unfolded(rate, next, T)
    <3>1. CASE T = {}
      BY <3>1 DEF Unfolded
    <3>2. CASE T # {}
      <4> DEFINE rest == T \ {Pick(T)}
      <4>1. rest \in SUBSET S /\ Pick(T) \in T
        BY <3>2, PickIn
      <4>2. Cardinality(rest) = Cardinality(T) - 1
        BY <1>1, <4>1, FS_RemoveElement
      <4>3. Cardinality(rest) <= n
        BY <1>1, <2>3, <4>1, <4>2
      <4>4. next[rest] = sum[rest]
        BY <2>1, <4>1, <4>3
      <4> QED
        BY <3>2, <4>4 DEF Unfolded
    <3> QED
      BY <3>1, <3>2
  <2> HIDE DEF next
  <2> QED
    BY <2>2, <2>3
<1>5. \A n \in Nat : Good(n)
  <2> SUFFICES ASSUME Bad # {} PROVE FALSE
    OBVIOUS
  <2>1. PICK n \in Bad : \A m \in Bad : ~(m < n)
    <3> HIDE DEF Good
    <3> QED BY LeastNumber
  <2> HIDE DEF Good
  <2>2. n \in Nat /\ ~Good(n) /\ n # 0
    BY <1>3
  <2>3. n - 1 \in Nat /\ n - 1 < n /\ n = (n - 1) + 1
    BY <2>2
  <2>4. Good(n - 1)
    BY <2>1, <2>3
  <2> QED
    BY <1>4, <2>2, <2>3, <2>4
<1>6. Cardinality(S) \in Nat
  BY <1>1
<1>7. PICK sum \in [SUBSET S -> Nat] : Right(Cardinality(S), sum)
  BY <1>5, <1>6
<1> QED
  BY <1>1, <1>7 DEF SumsOf

LEMMA SumsUnfold ==
  ASSUME NEW rate, NEW S, IsFiniteSet(S), \A s \in S : rate[s] \in Nat
  PROVE  /\ Over(rate, S) = Sums(rate, S)[S]
         /\ \A T \in SUBSET S : Sums(rate, S)[T] = Unfolded(rate, Sums(rate, S), T)
<1>1. Over(rate, S) = Sums(rate, S)[S]
  BY DEF Over, MapThenSumSet, MapThenFoldSet, Sums, Unfolded, Pick
<1>2. PICK sum : SumsOf(rate, S, sum)
  BY SumsExist
<1>3. sum = [T \in SUBSET S |-> Unfolded(rate, sum, T)]
  BY <1>2 DEF SumsOf
<1>4. Sums(rate, S) = [T \in SUBSET S |-> Unfolded(rate, Sums(rate, S), T)]
  BY <1>3 DEF Sums
<1> QED
  BY <1>1, <1>4

(* The sums of a set are those of a set around it. *)
LEMMA SumsAgree ==
  ASSUME NEW rate, NEW S, IsFiniteSet(S), \A s \in S : rate[s] \in Nat, NEW T \in SUBSET S
  PROVE  Sums(rate, S)[T] = Over(rate, T)
<1> DEFINE Bad == {U \in SUBSET T : Sums(rate, S)[U] # Sums(rate, T)[U]}
<1>1. IsFiniteSet(T) /\ \A s \in T : rate[s] \in Nat
  BY FS_Subset
<1>2. Bad = {}
  <2> SUFFICES ASSUME Bad # {} PROVE FALSE
    OBVIOUS
  <2>1. PICK U \in Bad : \A V \in SUBSET U : V # U => V \notin Bad
    <3>1. Bad \in SUBSET (SUBSET T)
      OBVIOUS
    <3> HIDE DEF Bad
    <3> QED
      BY <1>1, <3>1, LeastSet
  <2>2. /\ Sums(rate, S)[U] = Unfolded(rate, Sums(rate, S), U)
        /\ Sums(rate, T)[U] = Unfolded(rate, Sums(rate, T), U)
    BY <1>1, SumsUnfold
  <2>3. U # {}
    BY <2>2 DEF Unfolded
  <2> DEFINE rest == U \ {Pick(U)}
  <2>4. rest \in SUBSET U /\ rest # U /\ rest \in SUBSET T
    BY <2>3, PickIn
  <2>5. Sums(rate, S)[rest] = Sums(rate, T)[rest]
    BY <2>1, <2>4
  <2> QED
    BY <2>2, <2>3, <2>5 DEF Unfolded
<1>3. Sums(rate, S)[T] = Sums(rate, T)[T]
  BY <1>2
<1> QED
  BY <1>1, <1>3, SumsUnfold

LEMMA TotalUnfolds ==
  ASSUME NEW rate, NEW S, IsFiniteSet(S), \A s \in S : rate[s] \in Nat
  PROVE  /\ Over(rate, {}) = 0
         /\ S # {} => Over(rate, S) = rate[Pick(S)] + Over(rate, S \ {Pick(S)})
<1>1. Over(rate, {}) = 0
  <2>1. IsFiniteSet({}) /\ {} \in SUBSET {} /\ \A s \in {} : rate[s] \in Nat
    BY FS_EmptySet
  <2>2. Over(rate, {}) = Unfolded(rate, Sums(rate, {}), {})
    BY <2>1, SumsUnfold
  <2> QED
    BY <2>2 DEF Unfolded
<1>2. ASSUME S # {} PROVE Over(rate, S) = rate[Pick(S)] + Over(rate, S \ {Pick(S)})
  <2>1. Over(rate, S) = Unfolded(rate, Sums(rate, S), S)
    BY SumsUnfold
  <2>2. S \ {Pick(S)} \in SUBSET S
    OBVIOUS
  <2>3. Sums(rate, S)[S \ {Pick(S)}] = Over(rate, S \ {Pick(S)})
    BY <2>2, SumsAgree
  <2> QED
    BY <1>2, <2>1, <2>3 DEF Unfolded
<1> QED
  BY <1>1, <1>2

LEMMA TotalNat ==
  ASSUME NEW rate, NEW S, IsFiniteSet(S), \A s \in S : rate[s] \in Nat
  PROVE  Over(rate, S) \in Nat
<1> DEFINE Bad == {T \in SUBSET S : Over(rate, T) \notin Nat}
<1> SUFFICES ASSUME Bad # {} PROVE FALSE
  OBVIOUS
<1>1. PICK T \in Bad : \A U \in SUBSET T : U # T => U \notin Bad
  <2>1. Bad \in SUBSET (SUBSET S)
    OBVIOUS
  <2> HIDE DEF Bad
  <2> QED
    BY <2>1, LeastSet
<1>2. IsFiniteSet(T) /\ \A s \in T : rate[s] \in Nat
  BY FS_Subset
<1>3. T # {}
  <2>1. Over(rate, {}) = 0
    BY TotalUnfolds
  <2> QED
    BY <2>1
<1>4. Pick(T) \in T /\ T \ {Pick(T)} \in SUBSET T /\ T \ {Pick(T)} # T
  BY <1>3, PickIn
<1>5. Over(rate, T \ {Pick(T)}) \in Nat /\ rate[Pick(T)] \in Nat
  BY <1>1, <1>2, <1>4
<1>6. Over(rate, T) = rate[Pick(T)] + Over(rate, T \ {Pick(T)})
  BY <1>2, <1>3, TotalUnfolds
<1> QED
  BY <1>5, <1>6

(* A total does not depend on the order of its terms. *)
LEMMA TotalTakes ==
  ASSUME NEW rate, NEW S, IsFiniteSet(S), \A s \in S : rate[s] \in Nat, NEW x \in S
  PROVE  Over(rate, S) = rate[x] + Over(rate, S \ {x})
<1> DEFINE Takes(T, y) == Over(rate, T) = rate[y] + Over(rate, T \ {y})
           Bad == {T \in SUBSET S : \E y \in T : ~Takes(T, y)}
<1> SUFFICES ASSUME Bad # {} PROVE FALSE
  OBVIOUS
<1>1. PICK T \in Bad : \A U \in SUBSET T : U # T => U \notin Bad
  <2>1. Bad \in SUBSET (SUBSET S)
    OBVIOUS
  <2> HIDE DEF Bad
  <2> QED
    BY <2>1, LeastSet
<1>2. PICK y \in T : ~Takes(T, y)
  OBVIOUS
<1> DEFINE z == Pick(T)
<1>3. z \in T
  BY PickIn
<1> HIDE DEF z
<1>4. /\ IsFiniteSet(T) /\ (\A s \in T : rate[s] \in Nat) /\ T \ {z} \in SUBSET T /\ T \ {z} # T
      /\ T \ {y} \in SUBSET T /\ T \ {y} # T
  BY <1>3, FS_Subset
<1>5. Takes(T, z)
  BY <1>3, <1>4, TotalUnfolds DEF z
<1>6. y # z
  BY <1>2, <1>5
<1>7. y \in T \ {z} /\ z \in T \ {y} /\ (T \ {z}) \ {y} = (T \ {y}) \ {z}
  BY <1>3, <1>6
<1>8. T \ {z} \notin Bad /\ T \ {y} \notin Bad /\ T \ {z} \in SUBSET S /\ T \ {y} \in SUBSET S
  BY <1>1, <1>4
<1>9. Takes(T \ {z}, y) /\ Takes(T \ {y}, z)
  BY <1>7, <1>8
<1>10. Over(rate, (T \ {y}) \ {z}) \in Nat /\ rate[y] \in Nat /\ rate[z] \in Nat
  <2>1. /\ IsFiniteSet((T \ {y}) \ {z})
        /\ \A s \in (T \ {y}) \ {z} : rate[s] \in Nat
    BY <1>4, FS_Subset
  <2> QED
    BY <1>3, <1>4, <2>1, TotalNat
<1>11. /\ Over(rate, T) = rate[z] + Over(rate, T \ {z})
       /\ Over(rate, T \ {z}) = rate[y] + Over(rate, (T \ {y}) \ {z})
       /\ Over(rate, T \ {y}) = rate[z] + Over(rate, (T \ {y}) \ {z})
       /\ Over(rate, T) # rate[y] + Over(rate, T \ {y})
  BY <1>2, <1>5, <1>7, <1>9
<1> HIDE DEF Takes, Bad
<1> QED
  BY <1>10, <1>11

(* More terms, or greater ones, make no smaller total. *)
LEMMA OverAtMost ==
  ASSUME NEW f, NEW g, NEW S, IsFiniteSet(S), \A s \in S : g[s] \in Nat,
         NEW R \in SUBSET S, \A s \in R : f[s] \in Nat /\ f[s] <= g[s]
  PROVE  /\ Over(f, R) <= Over(g, S)
         /\ Over(f, R) \in Nat /\ Over(g, S) \in Nat
<1> DEFINE Bad == {T \in SUBSET S : ~(Over(f, R \cap T) <= Over(g, T))}
<1>1. \A T \in SUBSET S : /\ IsFiniteSet(T) /\ Over(g, T) \in Nat
                          /\ IsFiniteSet(R \cap T) /\ Over(f, R \cap T) \in Nat
  <2> SUFFICES ASSUME NEW T \in SUBSET S
               PROVE  /\ IsFiniteSet(T) /\ Over(g, T) \in Nat
                      /\ IsFiniteSet(R \cap T) /\ Over(f, R \cap T) \in Nat
    OBVIOUS
  <2>1. /\ IsFiniteSet(T) /\ \A s \in T : g[s] \in Nat
        /\ IsFiniteSet(R \cap T) /\ \A s \in R \cap T : f[s] \in Nat
    BY FS_Subset
  <2>2. Over(g, T) \in Nat
    BY <2>1, TotalNat
  <2>3. Over(f, R \cap T) \in Nat
    BY <2>1, TotalNat
  <2> QED
    BY <2>1, <2>2, <2>3
<1>2. Bad = {}
  <2> SUFFICES ASSUME Bad # {} PROVE FALSE
    OBVIOUS
  <2>1. PICK T \in Bad : \A U \in SUBSET T : U # T => U \notin Bad
    <3>1. Bad \in SUBSET (SUBSET S)
      OBVIOUS
    <3> HIDE DEF Bad
    <3> QED
      BY <3>1, LeastSet
  <2>2. T \in SUBSET S /\ ~(Over(f, R \cap T) <= Over(g, T))
    OBVIOUS
  <2>3. PICK x \in T : TRUE
    <3> SUFFICES ASSUME T = {} PROVE FALSE
      OBVIOUS
    <3>1. Over(f, {}) = 0 /\ Over(g, {}) = 0 /\ R \cap T = {}
      <4>1. IsFiniteSet({}) /\ (\A s \in {} : f[s] \in Nat) /\ \A s \in {} : g[s] \in Nat
        BY FS_EmptySet
      <4> QED
        BY <4>1, TotalUnfolds
    <3> QED
      BY <2>2, <3>1
  <2> DEFINE rest == T \ {x}
  <2>4. rest \in SUBSET T /\ rest # T /\ rest \in SUBSET S
    OBVIOUS
  <2>5. Over(f, R \cap rest) <= Over(g, rest)
    BY <2>1, <2>4
  <2>6. /\ Over(g, T) = g[x] + Over(g, rest) /\ g[x] \in Nat
        /\ Over(g, rest) \in Nat /\ Over(f, R \cap rest) \in Nat
    <3>1. IsFiniteSet(T) /\ (\A s \in T : g[s] \in Nat) /\ x \in T
      BY <1>1, <2>2
    <3>2. Over(g, T) = g[x] + Over(g, T \ {x})
      BY <3>1, TotalTakes
    <3> QED
      BY <1>1, <2>4, <3>1, <3>2
  <2>7. CASE x \in R
    <3>1. x \in R \cap T /\ (R \cap T) \ {x} = R \cap rest
      BY <2>7
    <3>2. Over(f, R \cap T) = f[x] + Over(f, (R \cap T) \ {x})
      <4>1. IsFiniteSet(R \cap T) /\ \A s \in R \cap T : f[s] \in Nat
        BY <1>1, <2>2
      <4> HIDE DEF rest
      <4> QED
        BY <3>1, <4>1, TotalTakes
    <3>3. f[x] \in Nat /\ f[x] <= g[x]
      BY <2>7
    <3>4. Over(f, R \cap T) = f[x] + Over(f, R \cap rest)
      BY <3>1, <3>2
    <3> HIDE DEF rest, Bad
    <3> QED
      BY <2>2, <2>5, <2>6, <3>3, <3>4
  <2>8. CASE x \notin R
    <3>1. R \cap T = R \cap rest
      BY <2>8
    <3>2. Over(f, R \cap T) = Over(f, R \cap rest)
      BY <3>1
    <3> HIDE DEF rest, Bad
    <3> QED
      BY <2>2, <2>5, <2>6, <3>2
  <2> QED
    BY <2>7, <2>8
<1>3. R \cap S = R /\ S \in SUBSET S
  OBVIOUS
<1>4. Over(f, R) <= Over(g, S)
  BY <1>2, <1>3
<1> HIDE DEF Bad
<1> QED
  BY <1>1, <1>3, <1>4

LEMMA TotalAtMost ==
  ASSUME NEW S, IsFiniteSet(S), NEW R \in SUBSET S,
         NEW f \in [R -> Nat], NEW g \in [S -> Nat], \A s \in R : f[s] <= g[s]
  PROVE  /\ Total(f) <= Total(g)
         /\ Total(f) \in Nat /\ Total(g) \in Nat
<1>1. DOMAIN f = R /\ DOMAIN g = S 
      /\ (\A s \in S : g[s] \in Nat) /\ \A s \in R : f[s] \in Nat /\ f[s] <= g[s]
  OBVIOUS
<1>2. Total(f) = Over(f, R) /\ Total(g) = Over(g, S)
  BY <1>1 DEF Total, Over
<1> QED
  BY <1>1, <1>2, OverAtMost

(* Smaller terms make a smaller total, and no terms make none. *)
LEMMA TotalLess ==
  ASSUME NEW S, IsFiniteSet(S), NEW f \in [S -> Nat], NEW g \in [S -> Nat]
  PROVE  /\ S = {} => Total(f) = 0
         /\ S # {} /\ (\A s \in S : f[s] < g[s]) => Total(f) < Total(g)
<1>1. DOMAIN f = S /\ DOMAIN g = S /\ \A s \in S : f[s] \in Nat /\ g[s] \in Nat
  OBVIOUS
<1>2. Total(f) = Over(f, S) /\ Total(g) = Over(g, S)
  BY <1>1 DEF Total, Over
<1>3. ASSUME S = {} PROVE Total(f) = 0
  <2>1. Over(f, {}) = 0
    BY <1>1, TotalUnfolds
  <2> QED
    BY <1>2, <1>3, <2>1
<1>4. ASSUME S # {}, \A s \in S : f[s] < g[s] PROVE Total(f) < Total(g)
  <2>1. PICK x \in S : TRUE
    BY <1>4
  <2> DEFINE rest == S \ {x}
  <2>2. /\ Over(f, S) = f[x] + Over(f, rest) /\ Over(g, S) = g[x] + Over(g, rest)
        /\ f[x] \in Nat /\ g[x] \in Nat /\ f[x] < g[x]
    BY <1>1, <1>4, TotalTakes
  <2>3. /\ rest \in SUBSET rest /\ IsFiniteSet(rest) /\ \A s \in rest : g[s] \in Nat
        /\ \A s \in rest : f[s] \in Nat /\ f[s] <= g[s]
    BY <1>1, <1>4, FS_Subset
  <2> HIDE DEF rest
  <2>4. /\ Over(f, rest) <= Over(g, rest)
        /\ Over(f, rest) \in Nat /\ Over(g, rest) \in Nat
    BY <2>3, OverAtMost
  <2> QED
    BY <1>2, <2>2, <2>4
<1> QED
  BY <1>3, <1>4

-----------------------------------------------------------------------------
(* The reports.                                                            *)

(* The latest sample of a server, and the latest of several. *)
LEMMA LatestIsLast ==
  ASSUME NEW T \in SUBSET Minutes
  PROVE  /\ T = {} => Latest(T) = Never
         /\ T # {} => /\ Latest(T) \in T
                      /\ \A t \in T : t <= Latest(T)
<1> DEFINE all == T \cup {Never}
<1>1. Minutes \subseteq Nat \ {0} /\ MaxMinute \in Nat /\ \A t \in Minutes : t <= MaxMinute
  BY CycleAssumption DEF Minutes
<1>2. all \subseteq Nat /\ 0 \in all /\ \A t \in all : t <= MaxMinute
  BY <1>1 DEF Never
<1>3. \E m \in all : \A t \in all : m >= t
  <2> HIDE DEF all
  <2> DEFINE before == {n \in Nat : \E t \in all : n = MaxMinute - t}
  <2>1. before \in SUBSET Nat /\ MaxMinute \in before
    BY <1>1, <1>2
  <2>2. PICK n \in before : \A m \in before : ~(m < n)
    <3> HIDE DEF before
    <3> QED
      BY <2>1, LeastNumber
  <2>3. PICK m \in all : n = MaxMinute - m
    OBVIOUS
  <2>4. ASSUME NEW t \in all PROVE m >= t
    <3>1. MaxMinute - t \in before
      BY <1>1, <1>2
    <3>2. ~(MaxMinute - t < n) /\ t \in Nat /\ m \in Nat
      BY <1>2, <2>2, <3>1
    <3> HIDE DEF before
    <3> QED
      BY <1>1, <2>3, <3>2
  <2> QED
    BY <2>4
<1>4. Max(all) \in all /\ \A t \in all : Max(all) >= t
  BY <1>3 DEF Max
<1>5. ASSUME T # {} PROVE Latest(T) \in T /\ \A t \in T : t <= Latest(T)
  <2>1. PICK u \in T : TRUE
    BY <1>5
  <2>2. Max(all) >= u /\ u \in Nat \ {0} /\ Max(all) \in Nat
    BY <1>1, <1>2, <1>4, <2>1
  <2>3. Max(all) # 0
    BY <2>2
  <2> QED
    BY <1>1, <1>2, <1>4, <2>3 DEF Latest, Never
<1>6. ASSUME T = {} PROVE Latest(T) = Never
  BY <1>4, <1>6 DEF Latest
<1> QED
  BY <1>5, <1>6

(* A link that is used to its capacity is over the threshold. *)
LEMMA UsedUp ==
  ASSUME NEW out \in Nat, NEW c \in Nat \ {0}, (10000 * out + c \div 2) \div c <= 9000
  PROVE  out < c
<1> DEFINE h == c \div 2
           q == (10000 * out + h) \div c
<1>1. h \in Nat
  OBVIOUS
<1>2. q \in Int /\ 10000 * out + h < c * (q + 1)
  <2> HIDE DEF h
  <2> QED
    BY <1>1
<1> HIDE DEF h, q
<1>3. c * (q + 1) <= c * 9001
  BY <1>2 DEF q, h
<1> QED
  BY <1>1, <1>2, <1>3

(* The utilization in whole numbers. *)
LEMMA UtilizationIs ==
  ASSUME NEW s, Output(s) \in Nat, Capacity[s] \in Nat, Capacity[s] # 0
  PROVE  Utilization(s) = (10000 * Output(s) + Capacity[s] \div 2) \div Capacity[s]
<1>1. \A n \in Nat : 100 * Percent * n = 10000 * n
  BY DEF Percent
<1>2. 100 * Percent * Output(s) = 10000 * Output(s)
  BY <1>1
<1> DEFINE a == 100 * Percent * Output(s)
           b == 10000 * Output(s)
<1>3. Utilization(s) = (a + Capacity[s] \div 2) \div Capacity[s]
  BY Zenon DEF Utilization
<1>4. a = b
  BY <1>2
<1> HIDE DEF a, b
<1>5. Utilization(s) = (b + Capacity[s] \div 2) \div Capacity[s]
  BY <1>3, <1>4
<1> QED
  BY <1>5 DEF b

(* What the reports read of the servers of a set. *)
LEMMA ReportsRead ==
  ASSUME CycleTypeOK, NEW enabled \in SUBSET Servers
  PROVE  /\ Sampled(enabled) \in SUBSET enabled /\ IsFiniteSet(Sampled(enabled))
         /\ \A s \in Sampled(enabled) :
              /\ LatestOf(s) \in samples[s] /\ LatestOf(s) \in Minutes
              /\ \A t \in samples[s] : t <= LatestOf(s)
              /\ Output(s) \in Nat /\ Cpu(s) \in Nat /\ Capacity[s] \in Nat
              /\ Utilization(s) \in Int /\ (Capacity[s] # 0 => Utilization(s) # Unknown)
<1>1. Sampled(enabled) \in SUBSET enabled /\ IsFiniteSet(Sampled(enabled))
  BY FS_Subset, CycleAssumption DEF Sampled
<1>2. ASSUME NEW s \in Sampled(enabled)
      PROVE  /\ LatestOf(s) \in samples[s] /\ LatestOf(s) \in Minutes
             /\ \A t \in samples[s] : t <= LatestOf(s)
             /\ Output(s) \in Nat /\ Cpu(s) \in Nat /\ Capacity[s] \in Nat
             /\ Utilization(s) \in Int /\ (Capacity[s] # 0 => Utilization(s) # Unknown)
  <2>1. s \in Servers /\ samples[s] # {} /\ samples[s] \in SUBSET Minutes
    BY RunFields DEF Sampled
  <2>2. LatestOf(s) \in samples[s] /\ \A t \in samples[s] : t <= LatestOf(s)
    BY <2>1, LatestIsLast DEF LatestOf
  <2>3. LatestOf(s) \in Minutes /\ Load[s] \in [Minutes -> [output : Nat, cpu : Nat]]
    BY <2>1, <2>2, ReadingsAssumption
  <2>4. Load[s][LatestOf(s)] \in [output : Nat, cpu : Nat]
    BY <2>3
  <2>5. Output(s) \in Nat /\ Cpu(s) \in Nat /\ Capacity[s] \in Nat
    <3>1. \A load \in [output : Nat, cpu : Nat] : load.output \in Nat /\ load.cpu \in Nat
      OBVIOUS
    <3>2. Output(s) \in Nat /\ Cpu(s) \in Nat
      BY <2>4, <3>1, Zenon DEF Output, Cpu
    <3>3. Capacity[s] \in Nat
      BY <2>1, ReadingsAssumption
    <3> QED
      BY <3>2, <3>3
  <2>6. CASE Capacity[s] = 0
    BY <2>2, <2>3, <2>5, <2>6 DEF Utilization, Unknown
  <2>7. CASE Capacity[s] # 0
    <3> DEFINE n == 10000 * Output(s) + Capacity[s] \div 2
    <3>1. n \in Nat /\ Capacity[s] \in Nat \ {0}
      BY <2>5, <2>7
    <3>2. n \div Capacity[s] \in Nat
      <4> HIDE DEF n
      <4> QED
        BY <3>1
    <3>3. Utilization(s) = n \div Capacity[s]
      BY <2>5, <2>7, UtilizationIs
    <3> HIDE DEF n
    <3> QED
      BY <2>2, <2>3, <2>5, <3>2, <3>3 DEF Unknown
  <2> QED
    BY <2>6, <2>7
<1> QED
  BY <1>1, <1>2

(* The last point of the overview's history adds up some of the terms of   *)
(* its total, and all of them when every server was sampled at one minute. *)
LEMMA PointOfTotal ==
  ASSUME CycleTypeOK, NEW enabled \in SUBSET Servers
  PROVE  /\ OverviewTotal(enabled) \in Nat /\ LastPoint(enabled) \in Nat
         /\ OverviewTotal(enabled) >= LastPoint(enabled)
         /\ (\A s, u \in Sampled(enabled) : LatestOf(s) = LatestOf(u)) =>
               OverviewTotal(enabled) = LastPoint(enabled)
<1> DEFINE all  == UNION {samples[s] : s \in enabled}
           last == Latest(all)
           R    == {u \in enabled : last \in samples[u]}
           f    == [s \in R |-> Load[s][last].output]
           S    == Sampled(enabled)
           g    == [s \in S |-> Output(s)]
<1>1. LastPoint(enabled) = Total(f) /\ OverviewTotal(enabled) = Total(g)
  BY DEF LastPoint, OverviewTotal
<1>2. all \in SUBSET Minutes /\ \A s \in enabled : samples[s] \subseteq all
  BY RunFields
<1>3. \A t \in all : t <= last
  <2>1. CASE all = {}
    BY <2>1
  <2>2. CASE all # {}
    <3> HIDE DEF all
    <3> QED
      BY <1>2, <2>2, LatestIsLast
  <2> QED
    BY <2>1, <2>2
<1>4. R \in SUBSET S
  BY DEF Sampled
<1>5. \A s \in R : LatestOf(s) = last
  <2> SUFFICES ASSUME NEW s \in R PROVE LatestOf(s) = last
    OBVIOUS
  <2>1. /\ last \in samples[s] /\ samples[s] \subseteq all
        /\ LatestOf(s) \in samples[s] /\ \A t \in samples[s] : t <= LatestOf(s)
    BY <1>2, <1>4, ReportsRead
  <2>2. LatestOf(s) <= last /\ last <= LatestOf(s) /\ last \in Nat /\ LatestOf(s) \in Nat
    BY <1>2, <1>3, <2>1 DEF Minutes
  <2> HIDE DEF last
  <2> QED
    BY <2>2
<1>6. \A s \in R : f[s] = Output(s) /\ g[s] = Output(s)
  BY <1>4, <1>5 DEF Output
<1>7. /\ IsFiniteSet(S) /\ f \in [R -> Nat] /\ g \in [S -> Nat]
      /\ \A s \in R : f[s] <= g[s] /\ g[s] <= f[s]
  <2>1. IsFiniteSet(S) /\ \A s \in S : Output(s) \in Nat
    BY ReportsRead
  <2> HIDE DEF S
  <2>2. g \in [S -> Nat] /\ \A s \in R : f[s] \in Nat
    BY <1>4, <1>6, <2>1
  <2>3. f \in [R -> Nat]
    BY <2>2
  <2>4. \A s \in R : f[s] <= g[s] /\ g[s] <= f[s]
    <3>1. \A s \in R : Output(s) \in Nat
      BY <1>4, <2>1
    <3> HIDE DEF f, g, R
    <3> QED
      BY <1>6, <3>1
  <2> QED
    BY <2>1, <2>2, <2>3, <2>4
<1>8. Total(f) <= Total(g) /\ Total(f) \in Nat /\ Total(g) \in Nat
  <2> HIDE DEF f, g, R, S
  <2> QED
    BY <1>4, <1>7, TotalAtMost
<1>9. ASSUME \A s, u \in S : LatestOf(s) = LatestOf(u) PROVE S = R
  <2> SUFFICES ASSUME NEW s \in S PROVE s \in R
    BY <1>4
  <2>1. s \in enabled /\ LatestOf(s) \in all
    BY <1>2, ReportsRead
  <2>2. last \in all
    <3> HIDE DEF all
    <3> QED
      BY <1>2, <2>1, LatestIsLast
  <2>3. PICK u \in enabled : last \in samples[u]
    BY <2>2
  <2>4. u \in R /\ u \in S
    BY <1>4, <2>3
  <2>5. LatestOf(s) = last
    BY <1>5, <1>9, <2>4
  <2>6. LatestOf(s) \in samples[s]
    BY ReportsRead
  <2> QED
    BY <2>1, <2>5, <2>6
<1>10. ASSUME \A s, u \in S : LatestOf(s) = LatestOf(u) PROVE Total(g) <= Total(f)
  <2>1. S = R
    BY <1>9, <1>10
  <2>2. S \in SUBSET R /\ IsFiniteSet(R)
    BY <1>7, <2>1
  <2> HIDE DEF f, g, R, S
  <2> QED
    BY <1>7, <2>1, <2>2, TotalAtMost
<1> HIDE DEF f, g, R, S
<1> QED
  BY <1>1, <1>8, <1>10 DEF S

(* Where no link is over the threshold and every capacity is known, some   *)
(* capacity is left.                                                       *)
LEMMA CapacityLeft ==
  ASSUME CycleTypeOK, NEW enabled \in SUBSET Servers,
         CapacityTotal(enabled) > 0, CapacityFree(enabled) = 0,
         \A s \in Sampled(enabled) : ~(Utilization(s) > 90 * Percent),
         Rated(enabled) = Sampled(enabled)
  PROVE  FALSE
<1> DEFINE S == Sampled(enabled)
           f == [s \in S |-> Output(s)]
           g == [s \in S |-> Capacity[s]]
<1>1. CapacityTotal(enabled) = Total(g) /\ OverviewTotal(enabled) = Total(f)
  BY DEF CapacityTotal, OverviewTotal
<1>2. \A s \in S : Output(s) < Capacity[s]
  <2> SUFFICES ASSUME NEW s \in S PROVE Output(s) < Capacity[s]
    OBVIOUS
  <2>1. /\ Output(s) \in Nat /\ Capacity[s] \in Nat
        /\ Utilization(s) \in Int /\ s \in Rated(enabled)
    BY ReportsRead
  <2>2. Utilization(s) # Unknown /\ ~(Utilization(s) > 90 * Percent)
    BY <2>1 DEF Rated
  <2>3. Capacity[s] # 0
    BY <2>2 DEF Utilization
  <2>4. (10000 * Output(s) + Capacity[s] \div 2) \div Capacity[s] <= 9000
    <3>1. 90 * Percent = 9000
      BY DEF Percent
    <3>2. Utilization(s) <= 9000
      BY <2>1, <2>2, <3>1
    <3> QED
      BY <2>1, <2>3, <3>2, UtilizationIs
  <2> DEFINE out == Output(s)
             c   == Capacity[s]
  <2>5. out \in Nat /\ c \in Nat \ {0}
    BY <2>1, <2>3
  <2>6. (10000 * out + c \div 2) \div c <= 9000
    BY <2>4
  <2> HIDE DEF out, c
  <2>7. out < c
    BY <2>5, <2>6, UsedUp
  <2> QED
    BY <2>7 DEF out, c
<1>3. IsFiniteSet(S) /\ f \in [S -> Nat] /\ g \in [S -> Nat] /\ \A s \in S : f[s] < g[s]
  BY <1>2, ReportsRead
<1>4. (S = {} => Total(g) = 0) /\ (S # {} => Total(f) < Total(g))
  <2> HIDE DEF S, f, g
  <2> QED
    BY <1>3, TotalLess
<1>5. Total(f) \in Nat /\ Total(g) \in Nat
  <2>1. S \in SUBSET S /\ \A s \in S : f[s] <= g[s]
    BY <1>2, ReportsRead
  <2> HIDE DEF S, f, g
  <2> QED
    BY <1>3, <2>1, TotalAtMost
<1> HIDE DEF S, f, g
<1>6. \A m, n \in Nat : /\ Min({m, n}) \in {m, n} /\ Min({m, n}) <= m
                        /\ Max({m - n, 0}) >= m - n
  <2> SUFFICES ASSUME NEW m \in Nat, NEW n \in Nat
               PROVE  /\ Min({m, n}) \in {m, n} /\ Min({m, n}) <= m
                      /\ Max({m - n, 0}) >= m - n
    OBVIOUS
  <2>1. \E x \in {m, n} : \A y \in {m, n} : x <= y
    OBVIOUS
  <2>2. Min({m, n}) \in {m, n} /\ \A y \in {m, n} : Min({m, n}) <= y
    BY <2>1 DEF Min
  <2>3. \E x \in {m - n, 0} : \A y \in {m - n, 0} : x >= y
    OBVIOUS
  <2>4. \A y \in {m - n, 0} : Max({m - n, 0}) >= y
    BY <2>3 DEF Max
  <2> QED
    BY <2>2, <2>4
<1>7. /\ CapacityUsed(enabled) \in {Total(f), Total(g)} /\ CapacityUsed(enabled) <= Total(f)
      /\ CapacityFree(enabled) >= Total(g) - CapacityUsed(enabled)
  <2>1. CapacityUsed(enabled) \in {Total(f), Total(g)} /\ CapacityUsed(enabled) <= Total(f)
    BY <1>1, <1>5, <1>6 DEF CapacityUsed
  <2>2. CapacityUsed(enabled) \in Nat
    BY <1>5, <2>1
  <2>3. CapacityFree(enabled) >= Total(g) - CapacityUsed(enabled)
    BY <1>1, <1>5, <1>6, <2>2 DEF CapacityFree
  <2> QED
    BY <2>1, <2>3
<1>8. Total(f) < Total(g)
  BY <1>1, <1>4
<1> QED
  BY <1>5, <1>7, <1>8

(* Whichever servers are enabled and active, the reports agree on the      *)
(* samples they read (overview_service, balance_service,                   *)
(* recommendation_service, OnboardingService.health), for any loads and    *)
(* capacities.                                                             *)
THEOREM ReportsConsistent == Spec => []ReportsAgree
<1>1. CycleTypeOK => ReportsAgree
  <2> SUFFICES ASSUME CycleTypeOK, NEW enabled \in SUBSET Servers,
                      NEW active \in SUBSET Servers
        PROVE  /\ OverviewTotal(enabled) >= LastPoint(enabled)
               /\ Cardinality({LatestOf(s) : s \in Sampled(enabled)}) = 1 =>
                     OverviewTotal(enabled) = LastPoint(enabled)
               /\ NoData(enabled, active) \cap Sampled(enabled) = {}
               /\ NoData(enabled, active) \cup Sampled(enabled)
                     = enabled \ {s \in enabled \ active : samples[s] = {}}
               /\ HighNetwork(enabled, active) # {} =>
                     MostLoaded(enabled) \cap active \subseteq HighNetwork(enabled, active)
               /\ Underutilized(enabled, active) # {} =>
                     \A s \in LeastUtilized(enabled) : Utilization(s) < 10 * Percent
               /\ CapacityTotal(enabled) > 0 /\ CapacityFree(enabled) = 0 =>
                     \/ HighNetwork(enabled, active) # {}
                     \/ \E s \in Sampled(enabled) \ active : Utilization(s) > 90 * Percent
                     \/ Rated(enabled) # Sampled(enabled)
               /\ \A s \in enabled : Healthy(s) /\ 2 * Interval <= Stale =>
                     s \notin NoData(enabled, active) \cup HeartbeatLost(enabled, active)
    BY DEF ReportsAgree
  <2>1. /\ NoData(enabled, active) \cap Sampled(enabled) = {}
        /\ NoData(enabled, active) \cup Sampled(enabled)
              = enabled \ {s \in enabled \ active : samples[s] = {}}
    BY DEF NoData, Sampled
  <2>2. OverviewTotal(enabled) >= LastPoint(enabled)
    BY PointOfTotal
  <2>3. ASSUME Cardinality({LatestOf(s) : s \in Sampled(enabled)}) = 1
        PROVE  OverviewTotal(enabled) = LastPoint(enabled)
    <3> DEFINE minutes == {LatestOf(s) : s \in Sampled(enabled)}
    <3>1. IsFiniteSet(minutes)
      <4>1. IsFiniteSet(Minutes) /\ minutes \in SUBSET Minutes
        BY ReportsRead, FS_Interval, CycleAssumption DEF Minutes
      <4> HIDE DEF minutes
      <4> QED
        BY <4>1, FS_Subset
    <3>2. \E t : minutes = {t}
      <4>1. Cardinality(minutes) = 1
        BY <2>3
      <4> HIDE DEF minutes
      <4> QED
        BY <3>1, <4>1, FS_Singleton
    <3>3. \A s, u \in Sampled(enabled) : LatestOf(s) = LatestOf(u)
      BY <3>2
    <3> QED
      BY <3>3, PointOfTotal
  <2>4. ASSUME HighNetwork(enabled, active) # {}, NEW m \in MostLoaded(enabled) \cap active
        PROVE  m \in HighNetwork(enabled, active)
    <3>1. PICK s \in Sampled(enabled) : Utilization(s) > 90 * Percent
      BY <2>4 DEF HighNetwork
    <3>2. s \in Rated(enabled) /\ m \in Sampled(enabled)
      BY <2>4, <3>1 DEF Rated, MostLoaded, Unknown, Percent
    <3>3. Utilization(s) <= Utilization(m) /\ Utilization(s) \in Int /\ Utilization(m) \in Int
      BY <3>2, ReportsRead DEF MostLoaded
    <3> QED
      BY <2>4, <3>1, <3>2, <3>3 DEF HighNetwork, Percent
  <2>5. ASSUME Underutilized(enabled, active) # {}, NEW s \in LeastUtilized(enabled)
        PROVE  Utilization(s) < 10 * Percent
    <3>1. PICK u \in Rated(enabled) : Utilization(u) < 10 * Percent
      BY <2>5 DEF Underutilized
    <3>2. /\ Utilization(s) <= Utilization(u)
          /\ Utilization(s) \in Int /\ Utilization(u) \in Int
      BY <3>1, ReportsRead DEF LeastUtilized, Rated
    <3> QED
      BY <3>1, <3>2 DEF Percent
  <2>6. ASSUME CapacityTotal(enabled) > 0, CapacityFree(enabled) = 0,
               HighNetwork(enabled, active) = {}, Rated(enabled) = Sampled(enabled)
        PROVE  \E s \in Sampled(enabled) \ active : Utilization(s) > 90 * Percent
    <3>1. PICK s \in Sampled(enabled) : Utilization(s) > 90 * Percent
      BY <2>6, CapacityLeft
    <3> QED
      BY <2>6, <3>1 DEF HighNetwork
  <2>7. ASSUME NEW s \in enabled, Healthy(s), 2 * Interval <= Stale
        PROVE  s \notin NoData(enabled, active) \cup HeartbeatLost(enabled, active)
    <3>1. s \in Sampled(enabled) /\ now - LatestOf(s) <= 2 * Interval
      BY <2>7 DEF Healthy, Sampled
    <3>2. LatestOf(s) \in Nat /\ now \in Nat /\ Interval \in Nat /\ Stale \in Nat
      BY <3>1, ReportsRead, RunFields, ReadingsAssumption DEF Minutes
    <3> QED
      BY <2>7, <3>1, <3>2 DEF NoData, HeartbeatLost
  <2> QED
    BY <2>1, <2>2, <2>3, <2>4, <2>5, <2>6, <2>7
<1>2. ReadingInv => ReportsAgree
  BY <1>1 DEF ReadingInv, StorageInv
<1> QED
  BY <1>2, ReadingInit, ReadingStep, PTL DEF Spec

=============================================================================
