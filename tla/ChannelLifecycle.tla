-------------------------- MODULE ChannelLifecycle --------------------------
(***************************************************************************)
(* The life of a channel row across collection cycles                      *)
(* (app/collectors/collection.py _sync_channels and                        *)
(* app/repositories/channel_repository.py): every cycle upserts what the   *)
(* source lists, one savepoint per snapshot, then reconciles what each     *)
(* source no longer lists, one savepoint per source, and the runner's next *)
(* heartbeat commits the lot.  An absent channel becomes inactive and,     *)
(* once old enough, archived; a channel that reappears takes its old row.  *)
(*                                                                         *)
(* Timestamps are kept as ages.  `seen` is how long ago last_seen_at is,   *)
(* `since` how long ago inactive_since_at is (NULL when it is not set);    *)
(* both grow at the start of a cycle and stop at Horizon, beyond every     *)
(* retention.  Columns no property tells apart (names, the event and the   *)
(* technical stream, the hosting server, enabled) are left out.            *)
(*                                                                         *)
(* Collections exclude one another (module CollectionRunner), so one       *)
(* session is modelled.                                                    *)
(***************************************************************************)
EXTENDS Integers, SequencesExt, FiniteSetsExt

CONSTANTS
  Own,            \* the adapter's source_name, the default source_id
  Others,         \* source_ids a snapshot may carry of its own
  Legacy,         \* the source_id migration 0009 gives to older rows
  LegacyRows,     \* external_ids of the rows that migration found
  Externals,      \* external_ids
  Categories,     \* categories
  Types,          \* channel types the source reports
  Grace,          \* EVENT_INACTIVE_GRACE_HOURS
  EventDays,      \* EVENT_ARCHIVE_DAYS
  PermanentDays,  \* PERMANENT_ARCHIVE_DAYS
  Horizon,        \* bound: ages stop growing here
  Gaps,           \* bound: time between two cycles
  MaxListing,     \* bound: snapshots in one listing
  Window,         \* bound: category intervals remembered per channel
  Failures        \* whether savepoints and cycles can fail

ASSUME SourcesAssumption == Own # Legacy /\ Legacy \notin Others
ASSUME RowsAssumption ==
  LegacyRows \subseteq Externals /\ IsFiniteSet(LegacyRows) /\ Categories # {}
ASSUME TypesAssumption == "archived" \notin Types   \* the other values of ChannelType
ASSUME AgesAssumption ==
  /\ {Grace, EventDays, PermanentDays, Horizon} \subseteq Nat
  /\ \A a \in {Grace, EventDays, PermanentDays} : a <= Horizon
  /\ Gaps \subseteq Nat \ {0}
ASSUME WindowAssumption == Window \in Nat \ {0, 1}

VARIABLES
  channels,   \* the channels table as this session sees it; the id is the index
  history,    \* channel_category_history: the intervals of each channel, oldest first
  saved,      \* both tables as last committed
  pc,         \* "idle" | "sync": the cycle
  listing,    \* the snapshots get_channels returned this cycle
  todo,       \* those not upserted yet
  keys,       \* the sources not reconciled yet (seen_by_source)
  clean       \* no savepoint of the last cycle failed and it committed

vars == <<channels, history, saved, pc, listing, todo, keys, clean>>

NULL == -1
Sources == {Own} \cup Others
Snapshot == [source : Sources, ext : Externals, category : Categories, type : Types]
Ages == 0 .. Horizon

Channel ==
  [source : Sources \cup {Legacy}, ext : Externals, category : Categories,
   type : Types \cup {"archived", "permanent"}, active : BOOLEAN, archived : BOOLEAN,
   seen : Ages, since : Ages \cup {NULL}]
Interval == [category : Categories, open : BOOLEAN]

Identity(c) == <<c.source, c.ext>>

-----------------------------------------------------------------------------
(* Rows a database upgraded by migration 0009 starts with. *)
Upgraded(e) ==
  [source |-> Legacy, ext |-> e, category |-> CHOOSE c \in Categories : TRUE,
   type |-> "permanent", active |-> TRUE, archived |-> FALSE, seen |-> 0, since |-> NULL]

Init ==
  /\ channels = [i \in 1 .. Cardinality(LegacyRows) |-> Upgraded(SetToSeq(LegacyRows)[i])]
  /\ history = [i \in DOMAIN channels |-> << >>]
  /\ saved = [channels |-> channels, history |-> history]
  /\ pc = "idle"
  /\ listing = {}
  /\ todo = {}
  /\ keys = {}
  /\ clean = FALSE

-----------------------------------------------------------------------------
(* A cycle starts: time has passed and the source is read. *)

Older(age, d) == IF age + d < Horizon THEN age + d ELSE Horizon
Aged(c, d) ==
  [c EXCEPT !.seen = Older(@, d), !.since = IF @ = NULL THEN NULL ELSE Older(@, d)]

(* The sources a cycle reconciles: its own, and those of its snapshots. *)
Swept == {Own} \cup {s.source : s \in listing}

Begin ==
  /\ pc = "idle"
  /\ \E d \in Gaps :
       /\ channels' = [i \in DOMAIN channels |-> Aged(channels[i], d)]
       /\ saved' = [channels |-> channels', history |-> history]
  /\ listing' \in {l \in SUBSET Snapshot : Cardinality(l) <= MaxListing}
  /\ todo' = listing'
  /\ keys' = Swept'
  /\ pc' = "sync"
  /\ clean' = TRUE
  /\ UNCHANGED history

-----------------------------------------------------------------------------
(* upsert_from_snapshot: find the row by identity, or adopt the row the    *)
(* migration left for that external_id, or create one.                     *)

RowsOf(source, e) == {i \in DOMAIN channels : Identity(channels[i]) = <<source, e>>}

Target_LiveRows(s) == {i \in RowsOf(s.source, s.ext) : ~channels[i].archived}
Target_ByExternalId(s) == {i \in DOMAIN channels : channels[i].ext = s.ext}
Target(s) ==
  IF RowsOf(s.source, s.ext) # {} THEN RowsOf(s.source, s.ext) ELSE RowsOf(Legacy, s.ext)

Listed(s) ==
  [source |-> s.source, ext |-> s.ext, category |-> s.category, type |-> s.type,
   active |-> TRUE, archived |-> FALSE, seen |-> 0, since |-> NULL]

(* _record_category_change: close the open interval and open one when the  *)
(* category changed.  The last Window intervals are kept.                  *)
Remember(h) == IF Len(h) > Window THEN Tail(h) ELSE h
Closed(h) == IF h = << >> THEN h ELSE [h EXCEPT ![Len(h)].open = FALSE]
Recorded_NeverCloses(h, c) ==
  IF h # << >> /\ Last(h).category = c THEN h
  ELSE Remember(Append(h, [category |-> c, open |-> TRUE]))
Recorded(h, c) ==
  IF h # << >> /\ Last(h).category = c
  THEN [h EXCEPT ![Len(h)].open = TRUE]
  ELSE Remember(Append(Closed(h), [category |-> c, open |-> TRUE]))

Upsert(s) ==
  /\ pc = "sync"
  /\ s \in todo
  /\ todo' = todo \ {s}
  /\ \/ /\ Target(s) = {}
        /\ channels' = Append(channels, Listed(s))
        /\ history' = Append(history, Recorded(<< >>, s.category))
     \/ \E i \in Target(s) :
        /\ channels' = [channels EXCEPT ![i] = Listed(s)]
        /\ history' = [history EXCEPT ![i] = Recorded(@, s.category)]
  /\ UNCHANGED <<saved, pc, listing, keys, clean>>

(* The savepoint is rolled back: the snapshot counts as seen all the same. *)
UpsertFails(s) ==
  /\ Failures
  /\ pc = "sync"
  /\ s \in todo
  /\ todo' = todo \ {s}
  /\ clean' = FALSE
  /\ UNCHANGED <<channels, history, saved, pc, listing, keys>>

-----------------------------------------------------------------------------
(* reconcile_missing: deactivate what the source no longer lists, then     *)
(* archive every inactive row whose retention has passed.                  *)

Seen(k) == {s.ext : s \in {t \in listing : t.source = k}}
InScope_AnySource(c, k) == TRUE
InScope(c, k) == c.source = k

Deactivated_EveryCycle(c, k) ==
  IF c.ext \notin Seen(k) THEN [c EXCEPT !.active = FALSE, !.since = 0] ELSE c
Deactivated_PermanentOnly(c, k) ==
  IF c.ext \notin Seen(k) /\ c.active /\ c.type = "permanent"
  THEN [c EXCEPT !.active = FALSE, !.since = 0] ELSE c
Deactivated_GraceAhead(c, k) ==
  IF c.ext \notin Seen(k) /\ c.active
  THEN [c EXCEPT !.active = FALSE, !.since = 0 - Grace] ELSE c
Deactivated(c, k) ==
  IF c.ext \notin Seen(k) /\ c.active THEN [c EXCEPT !.active = FALSE, !.since = 0] ELSE c

Retention(c) == IF c.type = "permanent" THEN PermanentDays ELSE EventDays
Due_NoLifeCheck(c) == ~c.archived /\ c.seen >= Retention(c)
Due(c) ==
  /\ ~c.active
  /\ ~c.archived
  /\ (IF c.since # NULL THEN c.since ELSE c.seen) >= Grace
  /\ c.seen >= Retention(c)
Archived(c) ==
  IF Due(c) THEN [c EXCEPT !.type = "archived", !.archived = TRUE] ELSE c

Reconcile(k) ==
  /\ pc = "sync"
  /\ todo = {}
  /\ k \in keys
  /\ keys' = keys \ {k}
  /\ channels' = [i \in DOMAIN channels |->
       IF InScope(channels[i], k) THEN Archived(Deactivated(channels[i], k)) ELSE channels[i]]
  /\ UNCHANGED <<history, saved, pc, listing, todo, clean>>

ReconcileFails(k) ==
  /\ Failures
  /\ pc = "sync"
  /\ todo = {}
  /\ k \in keys
  /\ keys' = keys \ {k}
  /\ clean' = FALSE
  /\ UNCHANGED <<channels, history, saved, pc, listing, todo>>

-----------------------------------------------------------------------------
(* The heartbeat after _sync_channels commits the session. *)
Commit ==
  /\ pc = "sync"
  /\ todo = {}
  /\ keys = {}
  /\ pc' = "idle"
  /\ saved' = [channels |-> channels, history |-> history]
  /\ UNCHANGED <<channels, history, listing, todo, keys, clean>>

(* The cycle dies before that commit: the source, the database or the      *)
(* process failed, and the transaction is rolled back.                     *)
Abort ==
  /\ Failures
  /\ pc = "sync"
  /\ pc' = "idle"
  /\ channels' = saved.channels
  /\ history' = saved.history
  /\ todo' = {}
  /\ keys' = {}
  /\ clean' = FALSE
  /\ UNCHANGED <<saved, listing>>

Next ==
  \/ Begin
  \/ \E s \in todo : Upsert(s) \/ UpsertFails(s)
  \/ \E k \in keys : Reconcile(k) \/ ReconcileFails(k)
  \/ Commit
  \/ Abort

Spec == Init /\ [][Next]_vars
LiveSpec == Spec /\ WF_vars(Next)

-----------------------------------------------------------------------------
ListedBy(c) == \E s \in listing : Identity(c) = <<s.source, s.ext>>

(* Every row, interval and snapshot is one the schema and the schemas of   *)
(* the adapters allow, and each channel has its history (models/channel).  *)
TypeOK ==
  /\ channels \in Seq(Channel)
  /\ history \in [DOMAIN channels -> Seq(Interval)]
  /\ pc \in {"idle", "sync"}
  /\ listing \subseteq Snapshot
  /\ todo \subseteq listing
  /\ keys \subseteq Sources
  /\ clean \in BOOLEAN

(* A channel has one row for ever, whatever order its source's listings,   *)
(* absences, archivals and the adoption of a migrated row come in          *)
(* (README "una reaparicion reactiva la misma fila, sin duplicarla").      *)
OneRowPerIdentity ==
  \A i, j \in DOMAIN channels : Identity(channels[i]) = Identity(channels[j]) => i = j

(* The columns of a row tell one story: it has an inactivity date exactly  *)
(* while it is inactive, that date is not older than its last sighting,    *)
(* only inactive rows are archived, and the archived type is never worn    *)
(* by a row that came back.                                                *)
RowsAgree ==
  \A i \in DOMAIN channels : LET c == channels[i] IN
    /\ c.active <=> c.since = NULL
    /\ c.since <= c.seen
    /\ c.archived => ~c.active
    /\ c.archived <=> c.type = "archived"

(* The category history of a channel that was ever listed covers the       *)
(* present: exactly its last interval is open and it names the category    *)
(* the row shows, through rollbacks, absences and reappearances.           *)
HistoryCovers ==
  \A i \in DOMAIN channels : LET h == history[i] IN
    /\ h # << >> => Last(h).category = channels[i].category
    /\ \A n \in DOMAIN h : h[n].open <=> n = Len(h)
    /\ \A n \in DOMAIN h : n > 1 => h[n].category # h[n - 1].category
    /\ channels[i].source # Legacy => h # << >>

(* After a cycle without failures every channel the source listed has an   *)
(* active row, however many sources and migrated rows share its            *)
(* external_id.                                                            *)
ListedIsActive ==
  pc = "idle" /\ clean =>
    \A s \in listing : \E i \in DOMAIN channels :
      channels[i].active /\ Identity(channels[i]) = <<s.source, s.ext>>

(* README 216: "una ausencia marca el canal como active=false".  After a   *)
(* cycle without failures no row is active that was not listed, of a       *)
(* source the cycle went through: the adapter's own, and every source the  *)
(* listing names, one call of reconcile_missing each.  Of a source no      *)
(* longer configured, or whose listing is empty, the code promises nothing.*)
SweptAreListed ==
  pc = "idle" /\ clean =>
    \A i \in DOMAIN channels :
      channels[i].active /\ channels[i].source \in Swept => ListedBy(channels[i])

(* Committed rows keep their place: no cycle, failed or not, deletes one   *)
(* or hands it to another channel; only a migrated row gets a new source.  *)
RowsEndure ==
  [][\A i \in DOMAIN saved.channels :
       /\ i \in DOMAIN saved'.channels
       /\ saved'.channels[i].ext = saved.channels[i].ext
       /\ \/ saved'.channels[i].source = saved.channels[i].source
          \/ saved.channels[i].source = Legacy]_saved

(* Once failures stop, a channel the adapter's own source lists no more is *)
(* archived in the end, whichever retention its type has, whatever failed  *)
(* before and whatever another source lists under its external_id.         *)
AbsentIsArchived ==
  <>[]clean =>
    \A e \in Externals :
      <>[](e \notin Seen(Own)) =>
      <>[](\A i \in RowsOf(Own, e) : channels[i].archived)

=============================================================================
