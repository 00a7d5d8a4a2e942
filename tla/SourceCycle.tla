---------------------------- MODULE SourceCycle ----------------------------
(***************************************************************************)
(* One collection after another: what the Prometheus of each group of      *)
(* servers and the streaming source answer, and which samples of a minute  *)
(* end up stored.                                                          *)
(*                                                                         *)
(* A cycle reads everything before it stores anything: the composite       *)
(* adapter asks the groups one after the other, each at its own minute,    *)
(* and then the streaming source.  Then four phases store, the first       *)
(* three followed by a heartbeat that commits.  Hosts, groups and rows may *)
(* fail one by one; the run fails as a whole only outside of those.        *)
(* Inventory and channels themselves are ServerLifecycle's and             *)
(* ChannelLifecycle's.                                                     *)
(***************************************************************************)
EXTENDS Integers, FiniteSets, FiniteSetsExt

CONSTANTS
    Servers,     \* servers with a Prometheus
    Group,       \* the Prometheus URL and token of each
    Inventories, \* what the rows of the servers may hold, see inventory
    Fleets,      \* the sets of servers that may be enabled
    MaxMinute,   \* bound: minutes
    Keep         \* METRICS_RETENTION_DAYS, in minutes

ASSUME CycleAssumption ==
    /\ IsFiniteSet(Servers)
    /\ DOMAIN Group = Servers
    /\ \A v \in Inventories : DOMAIN v.instance = Servers
    /\ Fleets \subseteq SUBSET Servers
    /\ MaxMinute \in Nat \ {0} /\ Keep \in Nat \ {0}

Minutes == 1 .. MaxMinute
Never   == 0
Groups  == {Group[s] : s \in Servers}

VARIABLES
    now,        \* the minute
    inventory,  \* the rows: instance of each server (hostname, port 9100 if it
                \* has none), malformed those whose instance InventoryServer
                \* refuses, unusable the groups whose URL httpx refuses
    run,        \* the collection in progress
    samples,    \* server_metrics: the minutes stored for each server
    beat,       \* last_heartbeat_at of each server
    cut         \* rows of earlier minutes have been pruned

cycleVars == <<now, inventory, run, samples, beat, cut>>

Pcs == {"idle", "groups", "stream", "sync", "store", "play", "failed"}

\* The answers of one host: a sample; up=0 or without an essential metric; an
\* error; or the credentials are refused.
Replies == {"full", "silent", "error", "refused"}

RunRecord == [pc      : Pcs,
              targets : SUBSET Servers,            \* enabled when it began
              left    : SUBSET Groups,             \* groups not asked yet
              reply   : [Servers -> Replies],
              got     : [Servers -> Minutes \cup {Never}],
              known   : SUBSET Servers,            \* server_ids
              spoilt  : SUBSET Servers,            \* rows whose savepoint failed
              error   : {"none", "ValidationError", "InvalidURL",
                         "PrometheusSourceError", "StreamingError", "PhaseError"}]

NoRun == [pc |-> "idle", targets |-> {}, left |-> {},
          reply |-> [s \in Servers |-> "silent"],
          got |-> [s \in Servers |-> Never], known |-> {}, spoilt |-> {}, error |-> "none"]

CycleInit ==
    /\ now = 1
    /\ inventory \in Inventories
    /\ run = NoRun
    /\ samples = [s \in Servers |-> {}]
    /\ beat = [s \in Servers |-> Never]
    /\ cut = 1

-----------------------------------------------------------------------------
(* Reading.                                                                *)

\* begin_collection_cycle: the sample of the cycle before is dropped.
Begin ==
    /\ run.pc = "idle"
    /\ \E targets \in Fleets :
         run' = [NoRun EXCEPT !.pc = "groups", !.targets = targets,
                              !.left = {Group[s] : s \in targets}]
    /\ UNCHANGED <<now, inventory, samples, beat, cut>>

Members(g) == {s \in run.targets : Group[s] = g}

\* InventoryServer refuses an instance over its pattern or its length, which the
\* schema of a server's row lets in, and Inventory two servers with one.
Invalid(g) ==
    \/ Members(g) \cap inventory.malformed # {}
    \/ \E s, u \in Members(g) :
          s # u /\ inventory.instance[s] = inventory.instance[u]

\* Nothing catches either error, nor the one of an unusable URL, which is no
\* httpx.HTTPError.
Rejected(g) == Invalid(g) \/ g \in inventory.unusable

Failed(g, reply) ==
    \/ \E s \in Members(g) : reply[s] = "refused"
    \/ /\ \E s \in Members(g) : reply[s] = "error"
       /\ \A s \in Members(g) : reply[s] # "full"

\* get_infrastructure_metrics of one group: the hosts that yield a sample; one
\* refusal loses the samples of the group.
Answers(g, reply) ==
    IF Failed(g, reply) THEN {} ELSE {s \in Members(g) : reply[s] = "full"}

\* The answers with those of g, and the samples with those it yields now.
RepliesWith(g, reply) ==
    [s \in Servers |-> IF s \in Members(g) THEN reply[s] ELSE run.reply[s]]
GotWith(g, reply) ==
    [s \in Servers |-> IF s \in Answers(g, reply) THEN now ELSE run.got[s]]

\* The collection fails with an exception.
Raise(error) == run' = [run EXCEPT !.pc = "failed", !.error = error]

\* One group is asked, with the minute at which it is.
ReadGroup ==
    /\ run.pc = "groups"
    /\ \E g \in run.left :
         \/ Invalid(g) /\ Raise("ValidationError")
         \/ Rejected(g) /\ ~Invalid(g) /\ Raise("InvalidURL")
         \/ /\ ~Rejected(g)
            /\ \E reply \in [Members(g) -> Replies] :
                 run' = [run EXCEPT !.left  = @ \ {g},
                                    !.reply = RepliesWith(g, reply),
                                    !.got   = GotWith(g, reply)]
    /\ UNCHANGED <<now, inventory, samples, beat, cut>>

Answered == {s \in Servers : run.got[s] # Never}

\* Fault: the first group that fails ends the collection.
NoneAnswered_Any == \E g \in {Group[s] : s \in run.targets} : Failed(g, run.reply)

\* The collection fails only if no host answered and some group failed.
NoneAnswered ==
    /\ Answered = {}
    /\ \E g \in {Group[s] : s \in run.targets} : Failed(g, run.reply)

\* All groups were asked; only the samples go on.
GroupsRead ==
    /\ run.pc = "groups" /\ run.left = {}
    /\ IF NoneAnswered THEN Raise("PrometheusSourceError")
       ELSE run' = [run EXCEPT !.pc = "stream", !.reply = NoRun.reply]
    /\ UNCHANGED <<now, inventory, samples, beat, cut>>

\* get_channels before the first group and get_streaming_metrics after the last
\* one; without them nothing is stored.
ReadStream ==
    /\ \/ /\ run.pc = "stream"
          /\ run' = [run EXCEPT !.pc = "sync"] \/ Raise("StreamingError")
       \/ /\ run.pc = "groups" /\ run.left = {Group[s] : s \in run.targets}
          /\ Raise("StreamingError")
    /\ UNCHANGED <<now, inventory, samples, beat, cut>>

-----------------------------------------------------------------------------
(* Storing.                                                                *)

\* _sync_servers and _sync_channels, each committed by its heartbeat; a server
\* whose savepoint fails gets no samples.
Sync ==
    /\ run.pc = "sync"
    /\ \E lost \in {{}} \cup {{s} : s \in run.targets} :
         run' = [run EXCEPT !.pc = "store", !.known = run.targets \ lost,
                            !.spoilt = lost]
    /\ UNCHANGED <<now, inventory, samples, beat, cut>>

\* Fault: the rows of the phase share one savepoint.
Stored_AllOrNothing(bad) == IF bad = {} THEN Answered \cap run.known ELSE {}

\* Fault: a server that did not answer gets a row too.
Stored_Everyone(bad) == run.known \ bad

\* Rows of the phase: known servers that answered, less the savepoint that fails.
Stored(bad) == (Answered \cap run.known) \ bad

\* A row is written unless the minute is stored already, and with it the
\* heartbeat of its server.
StoreServerMetrics ==
    /\ run.pc = "store"
    /\ \E bad \in {{}} \cup {{s} : s \in Answered \cap run.known} :
         LET new == {s \in Stored(bad) : run.got[s] \notin samples[s]}
         IN  /\ samples' = [s \in Servers |-> IF s \in new
                            THEN samples[s] \cup {run.got[s]} ELSE samples[s]]
             /\ beat' = [s \in Servers |-> IF s \in new THEN run.got[s] ELSE beat[s]]
             /\ run' = [run EXCEPT !.pc = "play", !.spoilt = @ \cup bad]
    /\ UNCHANGED <<now, inventory, cut>>

\* The channels' samples follow the rules of the servers'; no report here reads
\* them.
StoreChannelMetrics ==
    /\ run.pc = "play"
    /\ run' = NoRun
    /\ UNCHANGED <<now, inventory, samples, beat, cut>>

\* A phase raises outside its savepoints, its commit fails, or the process
\* dies: what earlier heartbeats committed stays.
PhaseFails ==
    /\ run.pc \in {"sync", "store", "play"}
    /\ Raise("PhaseError")
    /\ UNCHANGED <<now, inventory, samples, beat, cut>>

\* The runner is free again.
Finish ==
    /\ run.pc = "failed"
    /\ run' = NoRun
    /\ UNCHANGED <<now, inventory, samples, beat, cut>>

\* A collection takes minutes where the retention is days: it stores no sample
\* older than those the retention keeps.
Tick ==
    /\ now < MaxMinute
    /\ \A s \in Servers : run.got[s] # Never => now - run.got[s] < Keep
    /\ now' = now + 1
    /\ UNCHANGED <<inventory, run, samples, beat, cut>>

\* prune_history, in one transaction.
Prune ==
    /\ now - Keep > cut
    /\ cut' = now - Keep
    /\ samples' = [s \in Servers |-> {t \in samples[s] : t >= cut'}]
    /\ UNCHANGED <<now, inventory, run, beat>>

CycleNext ==
    \/ Begin \/ ReadGroup \/ GroupsRead \/ ReadStream
    \/ Sync \/ StoreServerMetrics \/ StoreChannelMetrics \/ PhaseFails
    \/ Finish
    \/ Tick \/ Prune

CycleSpec == CycleInit /\ [][CycleNext]_cycleVars

-----------------------------------------------------------------------------
(* Properties.                                                             *)

CycleTypeOK ==
    /\ now \in Minutes /\ cut \in Minutes
    /\ run \in RunRecord
    /\ samples \in [Servers -> SUBSET Minutes]
    /\ beat \in [Servers -> Minutes \cup {Never}]

\* A host that answered, in a group whose credentials were taken, has its
\* sample of the minute at which its group was asked, whatever else failed: in
\* the collection that ends well and in the one that fails after the samples
\* were committed.  The server's heartbeat is its latest sample.
AnsweredIsStored ==
    /\ run.pc = "play" =>
         \A s \in run.targets \ run.spoilt :
            run.got[s] # Never => run.got[s] \in samples[s]
    /\ \A s \in Servers : samples[s] # {} => beat[s] = Max(samples[s])

\* What the servers' sources can do to a collection.  A host that errs or is
\* down, and a group that refuses the credentials, cost their own samples: the
\* collection fails only if no host answered, counting out those groups.  A row
\* that InventoryServer, Inventory or httpx refuses costs everything: no
\* collection with such a server among its targets gets to store a sample, of
\* that server or of any other, and no other collection fails that way.
FailureIsContained ==
    /\ run.error = "PrometheusSourceError" =>
         \A s \in run.targets :
            run.reply[s] = "full" =>
                \E u \in Members(Group[s]) : run.reply[u] = "refused"
    /\ run.error \in {"ValidationError", "InvalidURL"} =>
         \E s \in run.targets : Rejected(Group[s])
    /\ run.pc \in {"stream", "sync", "store", "play"} =>
         \A s \in run.targets : ~Rejected(Group[s])

=============================================================================
