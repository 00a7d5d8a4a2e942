----------------------- MODULE ChannelLifecycleProofs -----------------------
(***************************************************************************)
(* Proofs about ChannelLifecycle, for any sources, listings, migrated rows *)
(* and retentions: type correctness, one row per identity, columns that    *)
(* agree, a history that covers the present, rows that endure, and cycles  *)
(* without failures that show exactly what was listed.                     *)
(***************************************************************************)
EXTENDS ChannelLifecycle, SequenceTheorems, FiniteSetTheorems, TLAPS

-----------------------------------------------------------------------------
(* The invariant of the two tables, as this session or as the database     *)
(* sees them.                                                              *)

(* The columns of a row agree. *)
RowOK(c) ==
  /\ c \in Channel
  /\ c.active <=> c.since = NULL
  /\ c.since <= c.seen
  /\ c.archived => ~c.active
  /\ c.archived <=> c.type = "archived"

(* The intervals of a channel: exactly the last is open, and neighbours    *)
(* differ.                                                                 *)
HistoryOK(h) ==
  /\ h \in Seq(Interval)
  /\ \A n \in 1 .. Len(h) : h[n].open <=> n = Len(h)
  /\ \A n \in 1 .. Len(h) : n > 1 => h[n].category # h[n - 1].category

(* The history names the category of its row. *)
Fits(c, h) ==
  /\ h # << >> => h[Len(h)].category = c.category
  /\ c.source # Legacy => h # << >>

Consistent(rows, hist) ==
  /\ rows \in Seq(Channel) /\ hist \in Seq(Seq(Interval)) /\ Len(hist) = Len(rows)
  /\ \A i \in 1 .. Len(rows) : RowOK(rows[i]) /\ HistoryOK(hist[i]) /\ Fits(rows[i], hist[i])
  /\ \A i, j \in 1 .. Len(rows) : Identity(rows[i]) = Identity(rows[j]) => i = j

(* Rows keep their place. *)
Extends(rows, old) ==
  /\ Len(old) <= Len(rows)
  /\ \A i \in 1 .. Len(old) :
       /\ rows[i].ext = old[i].ext
       /\ rows[i].source = old[i].source \/ old[i].source = Legacy

CycleInv ==
  /\ pc \in {"idle", "sync"} /\ listing \subseteq Snapshot /\ todo \subseteq listing
  /\ keys \subseteq Sources /\ clean \in BOOLEAN

IInv ==
  /\ CycleInv
  /\ Consistent(channels, history)
  /\ Consistent(saved.channels, saved.history)
  /\ Extends(channels, saved.channels)

(* The indices of the tables. *)
LEMMA Indices ==
  ASSUME NEW S, NEW rows \in Seq(S)
  PROVE  /\ DOMAIN rows = 1 .. Len(rows) /\ Len(rows) \in Nat
         /\ \A i \in 1 .. Len(rows) : rows[i] \in S
BY LenProperties

(* A change of every row that leaves its identity and category alone. *)
LEMMA MappedRows ==
  ASSUME NEW rows, NEW hist, Consistent(rows, hist),
         NEW new \in [1 .. Len(rows) -> Channel],
         \A i \in 1 .. Len(rows) :
            /\ RowOK(new[i]) /\ Identity(new[i]) = Identity(rows[i])
            /\ new[i].category = rows[i].category
  PROVE  Consistent(new, hist) /\ Extends(new, rows)
<1>1. /\ Len(rows) \in Nat /\ rows \in Seq(Channel)
      /\ hist \in Seq(Seq(Interval)) /\ Len(hist) = Len(rows)
  BY Indices DEF Consistent
<1>2. new \in Seq(Channel) /\ Len(new) = Len(rows)
  BY <1>1, SeqDef, LenProperties
<1>3. ASSUME NEW i \in 1 .. Len(rows)
      PROVE  /\ new[i].source = rows[i].source /\ new[i].ext = rows[i].ext
             /\ RowOK(new[i]) /\ HistoryOK(hist[i]) /\ Fits(new[i], hist[i])
  BY DEF Consistent, Identity, Fits
<1>4. \A i, j \in 1 .. Len(new) : Identity(new[i]) = Identity(new[j]) => i = j
  BY <1>2 DEF Consistent
<1> QED
  BY <1>1, <1>2, <1>3, <1>4 DEF Consistent, Extends

-----------------------------------------------------------------------------
(* The history of a channel.                                               *)

(* Closing the last interval leaves none open. *)
LEMMA ClosedHistory ==
  ASSUME NEW h, HistoryOK(h), h # << >>
  PROVE  /\ Closed(h) \in Seq(Interval) /\ Len(Closed(h)) = Len(h)
         /\ \A n \in 1 .. Len(h) : ~Closed(h)[n].open /\ Closed(h)[n].category = h[n].category
<1>1. /\ h \in Seq(Interval) /\ Len(h) \in Nat /\ DOMAIN h = 1 .. Len(h)
      /\ Len(h) # 0 /\ \A n \in 1 .. Len(h) : h[n] \in Interval
  BY Indices, EmptySeq DEF HistoryOK
<1>2. [h[Len(h)] EXCEPT !.open = FALSE] \in Interval
  <2>1. h[Len(h)] \in Interval
    BY <1>1
  <2> QED
    BY <2>1 DEF Interval
<1>3. Closed(h) = [h EXCEPT ![Len(h)] = [h[Len(h)] EXCEPT !.open = FALSE]]
  BY DEF Closed
<1>4. Closed(h) \in Seq(Interval) /\ Len(Closed(h)) = Len(h)
  BY <1>1, <1>2, <1>3, ExceptSeq
<1>5. ASSUME NEW n \in 1 .. Len(h)
      PROVE  ~Closed(h)[n].open /\ Closed(h)[n].category = h[n].category
  <2>1. CASE n = Len(h)
    BY <1>1, <1>3, <2>1 DEF Interval
  <2>2. CASE n # Len(h)
    <3>1. Closed(h)[n] = h[n]
      BY <1>1, <1>3, <2>2
    <3>2. h[n].open \in BOOLEAN /\ (h[n].open <=> n = Len(h))
      BY <1>1 DEF HistoryOK, Interval
    <3> QED
      BY <2>2, <3>1, <3>2
  <2> QED
    BY <2>1, <2>2
<1> QED
  BY <1>4, <1>5

(* Forgetting the oldest interval leaves a history. *)
LEMMA RememberedHistory ==
  ASSUME NEW h, HistoryOK(h), h # << >>
  PROVE  /\ HistoryOK(Remember(h)) /\ Remember(h) # << >>
         /\ Remember(h)[Len(Remember(h))].category = h[Len(h)].category
<1>1. h \in Seq(Interval) /\ Len(h) \in Nat
  BY Indices DEF HistoryOK
<1>2. CASE Len(h) > Window
  <2>1. Remember(h) = Tail(h) /\ Len(h) >= 2
    BY <1>1, <1>2, WindowAssumption DEF Remember
  <2>2. /\ Tail(h) \in Seq(Interval) /\ Len(Tail(h)) = Len(h) - 1
        /\ \A i \in 1 .. Len(Tail(h)) : Tail(h)[i] = h[i + 1]
    BY <1>1, HeadTailProperties
  <2>3. Tail(h) # << >>
    BY <2>1, <2>2, EmptySeq
  <2>4. \A n \in 1 .. Len(h) : h[n].open <=> n = Len(h)
    BY DEF HistoryOK
  <2>5. \A n \in 1 .. Len(h) : n > 1 => h[n].category # h[n - 1].category
    BY DEF HistoryOK
  <2>6. ASSUME NEW n \in 1 .. Len(Tail(h))
        PROVE  /\ Tail(h)[n].open <=> n = Len(Tail(h))
               /\ n > 1 => Tail(h)[n].category # Tail(h)[n - 1].category
    <3>1. n + 1 \in 1 .. Len(h) /\ n \in Nat /\ Tail(h)[n] = h[n + 1]
      BY <1>1, <2>2
    <3>2. Tail(h)[n].open <=> n = Len(Tail(h))
      <4>1. n = Len(Tail(h)) <=> n + 1 = Len(h)
        BY <1>1, <2>2, <3>1
      <4>2. h[n + 1].open <=> n + 1 = Len(h)
        BY <2>4, <3>1
      <4> QED
        BY <3>1, <4>1, <4>2
    <3>3. ASSUME n > 1 PROVE Tail(h)[n].category # Tail(h)[n - 1].category
      <4>1. n - 1 \in 1 .. Len(Tail(h)) /\ (n - 1) + 1 = n /\ (n + 1) - 1 = n /\ n + 1 > 1
        BY <2>2, <3>1, <3>3
      <4>2. Tail(h)[n - 1] = h[n]
        BY <2>2, <4>1
      <4> QED
        BY <2>5, <3>1, <4>1, <4>2
    <3> QED
      BY <3>2, <3>3
  <2>7. HistoryOK(Tail(h))
    BY <2>2, <2>6 DEF HistoryOK
  <2>8. Tail(h)[Len(Tail(h))] = h[Len(h)]
    BY <1>1, <2>1, <2>2
  <2> QED
    BY <2>1, <2>3, <2>7, <2>8
<1>3. CASE ~(Len(h) > Window)
  BY <1>3 DEF Remember
<1> QED
  BY <1>2, <1>3

(* Adding an open interval of another category to closed ones. *)
LEMMA AppendedHistory ==
  ASSUME NEW h \in Seq(Interval), NEW c \in Categories,
         \A n \in 1 .. Len(h) : ~h[n].open,
         \A n \in 1 .. Len(h) : n > 1 => h[n].category # h[n - 1].category,
         h # << >> => h[Len(h)].category # c
  PROVE  LET longer == Append(h, [category |-> c, open |-> TRUE])
         IN  HistoryOK(longer) /\ longer # << >> /\ longer[Len(longer)].category = c
<1> DEFINE new == [category |-> c, open |-> TRUE]
           longer == Append(h, new)
<1>1. new \in Interval /\ new.category = c /\ new.open
  BY DEF Interval
<1>2. Len(h) \in Nat /\ (h = << >> <=> Len(h) = 0)
  BY Indices, EmptySeq
<1> HIDE DEF new
<1>3. /\ longer \in Seq(Interval) /\ longer # << >> /\ Len(longer) = Len(h) + 1
      /\ \A n \in 1 .. Len(h) : longer[n] = h[n]
      /\ longer[Len(h) + 1] = new
  BY <1>1, AppendProperties
<1> HIDE DEF longer
<1>4. ASSUME NEW n \in 1 .. Len(longer)
      PROVE  /\ longer[n].open <=> n = Len(longer)
             /\ n > 1 => longer[n].category # longer[n - 1].category
  <2>1. CASE n \in 1 .. Len(h)
    <3>1. longer[n] = h[n] /\ ~h[n].open /\ n # Len(longer)
      BY <1>2, <1>3, <2>1
    <3>2. ASSUME n > 1 PROVE longer[n].category # longer[n - 1].category
      <4>1. n - 1 \in 1 .. Len(h)
        BY <1>2, <2>1, <3>2
      <4> QED
        BY <1>3, <2>1, <3>1, <3>2, <4>1
    <3> QED
      BY <3>1, <3>2
  <2>2. CASE n = Len(h) + 1
    <3>1. longer[n].open /\ longer[n].category = c /\ n = Len(longer)
      BY <1>1, <1>3, <2>2
    <3>2. ASSUME n > 1 PROVE longer[n].category # longer[n - 1].category
      <4>1. n - 1 = Len(h) /\ Len(h) \in 1 .. Len(h) /\ h # << >>
        BY <1>2, <2>2, <3>2
      <4> QED
        BY <1>3, <3>1, <4>1
    <3> QED
      BY <3>1, <3>2
  <2> QED
    BY <1>2, <1>3, <2>1, <2>2
<1>5. HistoryOK(longer) /\ longer[Len(longer)].category = c
  BY <1>1, <1>3, <1>4 DEF HistoryOK
<1> QED
  BY <1>3, <1>5 DEF longer, new

(* Recording a category makes it the last one, and the open one. *)
LEMMA RecordedHistory ==
  ASSUME NEW h, HistoryOK(h), NEW c \in Categories
  PROVE  /\ HistoryOK(Recorded(h, c)) /\ Recorded(h, c) # << >>
         /\ Recorded(h, c)[Len(Recorded(h, c))].category = c
<1>1. /\ h \in Seq(Interval) /\ Len(h) \in Nat /\ DOMAIN h = 1 .. Len(h)
      /\ (h = << >> <=> Len(h) = 0) /\ \A n \in 1 .. Len(h) : h[n] \in Interval
  BY Indices, EmptySeq DEF HistoryOK
<1>2. CASE h # << >> /\ Last(h).category = c
  <2>1. Len(h) \in 1 .. Len(h)
    BY <1>1, <1>2
  <2>2. h[Len(h)].open = TRUE
    BY <1>1, <2>1 DEF HistoryOK, Interval
  <2>3. [h[Len(h)] EXCEPT !.open = TRUE] = h[Len(h)]
    BY <1>1, <2>1, <2>2 DEF Interval
  <2>4. Recorded(h, c) = h
    BY <1>1, <1>2, <2>1, <2>3 DEF Recorded
  <2> QED
    BY <1>2, <2>4 DEF Last
<1>3. CASE h = << >> \/ Last(h).category # c
  <2>1. Recorded(h, c) = Remember(Append(Closed(h), [category |-> c, open |-> TRUE]))
    BY <1>3 DEF Recorded
  <2>2. /\ Closed(h) \in Seq(Interval)
        /\ \A n \in 1 .. Len(Closed(h)) : ~Closed(h)[n].open
        /\ \A n \in 1 .. Len(Closed(h)) :
             n > 1 => Closed(h)[n].category # Closed(h)[n - 1].category
        /\ Closed(h) # << >> => Closed(h)[Len(Closed(h))].category # c
    <3>1. CASE h = << >>
      BY <1>1, <3>1 DEF Closed
    <3>2. CASE h # << >>
      <4>1. /\ Closed(h) \in Seq(Interval) /\ Len(Closed(h)) = Len(h)
            /\ \A n \in 1 .. Len(h) :
                 ~Closed(h)[n].open /\ Closed(h)[n].category = h[n].category
        BY <3>2, ClosedHistory
      <4>2. \A n \in 1 .. Len(h) :
              n > 1 => n - 1 \in 1 .. Len(h) /\ h[n].category # h[n - 1].category
        <5>1. \A n \in 1 .. Len(h) : n > 1 => n - 1 \in 1 .. Len(h)
          BY <1>1
        <5> QED
          BY <5>1 DEF HistoryOK
      <4>3. Len(h) \in 1 .. Len(h) /\ h[Len(h)].category # c
        BY <1>1, <1>3, <3>2 DEF Last
      <4> QED
        BY <4>1, <4>2, <4>3
    <3> QED
      BY <3>1, <3>2
  <2>3. LET longer == Append(Closed(h), [category |-> c, open |-> TRUE])
        IN  HistoryOK(longer) /\ longer # << >> /\ longer[Len(longer)].category = c
    BY <2>2, AppendedHistory
  <2> QED
    BY <2>1, <2>3, RememberedHistory
<1> QED
  BY <1>2, <1>3

-----------------------------------------------------------------------------
(* The rows of a cycle.                                                    *)

(* What a row becomes when its source lists it. *)
LEMMA ListedRow ==
  ASSUME NEW s \in Snapshot
  PROVE  /\ RowOK(Listed(s)) /\ Identity(Listed(s)) = <<s.source, s.ext>>
         /\ Listed(s).category = s.category /\ Listed(s).source = s.source
         /\ Listed(s).ext = s.ext /\ s.category \in Categories /\ s.source # Legacy
<1>1. /\ s.source \in Sources /\ s.ext \in Externals /\ s.category \in Categories
      /\ s.type \in Types
  BY DEF Snapshot
<1>2. s.source # Legacy
  BY <1>1, SourcesAssumption DEF Sources
<1>3. s.type # "archived" /\ 0 \in Ages /\ NULL \in Int /\ NULL <= 0
  BY <1>1, TypesAssumption, AgesAssumption DEF Ages, NULL
<1>4. Listed(s) \in Channel
  BY <1>1, <1>3 DEF Listed, Channel
<1>5. /\ Listed(s).active /\ Listed(s).since = NULL /\ Listed(s).seen = 0
      /\ ~Listed(s).archived /\ Listed(s).type = s.type
      /\ Listed(s).source = s.source /\ Listed(s).ext = s.ext
      /\ Listed(s).category = s.category
  BY DEF Listed
<1> QED
  BY <1>1, <1>2, <1>3, <1>4, <1>5 DEF RowOK, Identity

(* A row that ages, is not listed or is archived agrees with itself still. *)
LEMMA AgedRow ==
  ASSUME NEW c, RowOK(c), NEW d \in Gaps
  PROVE  /\ RowOK(Aged(c, d)) /\ Identity(Aged(c, d)) = Identity(c)
         /\ Aged(c, d).category = c.category
<1>1. /\ c \in Channel /\ c.seen \in Ages /\ c.since \in Ages \cup {NULL} /\ d \in Nat
      /\ Horizon \in Nat
  BY AgesAssumption DEF RowOK, Channel
<1>2. DEFINE seen  == Older(c.seen, d)
             since == IF c.since = NULL THEN NULL ELSE Older(c.since, d)
<1>3. /\ seen \in Ages /\ since \in Ages \cup {NULL}
      /\ since = NULL <=> c.since = NULL
      /\ c.since <= c.seen => since <= seen
  BY <1>1 DEF Older, Ages, NULL
<1>4. Aged(c, d) = [c EXCEPT !.seen = seen, !.since = since]
  BY DEF Aged
<1> HIDE DEF seen, since
<1>5. /\ Aged(c, d) \in Channel /\ Aged(c, d).seen = seen /\ Aged(c, d).since = since
      /\ Aged(c, d).active = c.active /\ Aged(c, d).archived = c.archived
      /\ Aged(c, d).type = c.type /\ Aged(c, d).category = c.category
      /\ Aged(c, d).source = c.source /\ Aged(c, d).ext = c.ext
  BY <1>1, <1>3, <1>4 DEF Channel
<1> QED
  BY <1>3, <1>5 DEF RowOK, Identity

LEMMA DeactivatedRow ==
  ASSUME NEW c, RowOK(c), NEW k
  PROVE  /\ RowOK(Deactivated(c, k)) /\ Identity(Deactivated(c, k)) = Identity(c)
         /\ Deactivated(c, k).category = c.category
<1>1. CASE c.ext \notin Seen(k) /\ c.active
  <2>1. c \in Channel /\ c.seen \in Ages /\ 0 \in Ages /\ 0 # NULL
    BY AgesAssumption DEF RowOK, Channel, Ages, NULL
  <2>2. Deactivated(c, k) = [c EXCEPT !.active = FALSE, !.since = 0]
    BY <1>1 DEF Deactivated
  <2>3. /\ Deactivated(c, k) \in Channel /\ ~Deactivated(c, k).active
        /\ Deactivated(c, k).since = 0 /\ Deactivated(c, k).seen = c.seen
        /\ Deactivated(c, k).archived = c.archived /\ Deactivated(c, k).type = c.type
        /\ Deactivated(c, k).category = c.category
        /\ Deactivated(c, k).source = c.source /\ Deactivated(c, k).ext = c.ext
    BY <2>1, <2>2 DEF Channel
  <2>4. 0 <= c.seen
    BY <2>1, AgesAssumption DEF Ages
  <2> QED
    BY <2>1, <2>3, <2>4 DEF RowOK, Identity
<1>2. CASE ~(c.ext \notin Seen(k) /\ c.active)
  BY <1>2 DEF Deactivated
<1> QED
  BY <1>1, <1>2

LEMMA ArchivedRow ==
  ASSUME NEW c, RowOK(c)
  PROVE  /\ RowOK(Archived(c)) /\ Identity(Archived(c)) = Identity(c)
         /\ Archived(c).category = c.category
<1>1. CASE Due(c)
  <2>1. c \in Channel /\ ~c.active
    BY <1>1 DEF RowOK, Due
  <2>2. Archived(c) = [c EXCEPT !.type = "archived", !.archived = TRUE]
    BY <1>1 DEF Archived
  <2>3. /\ Archived(c) \in Channel /\ Archived(c).active = c.active
        /\ Archived(c).since = c.since /\ Archived(c).seen = c.seen
        /\ Archived(c).archived /\ Archived(c).type = "archived"
        /\ Archived(c).category = c.category
        /\ Archived(c).source = c.source /\ Archived(c).ext = c.ext
    BY <2>1, <2>2 DEF Channel
  <2> QED
    BY <2>1, <2>3 DEF RowOK, Identity
<1>2. CASE ~Due(c)
  BY <1>2 DEF Archived
<1> QED
  BY <1>1, <1>2

-----------------------------------------------------------------------------
(* The steps of a cycle.                                                   *)

(* A snapshot of a channel without a row creates one. *)
LEMMA CreatedRow ==
  ASSUME IInv, NEW s \in Snapshot, Target(s) = {},
         channels' = Append(channels, Listed(s)),
         history' = Append(history, Recorded(<< >>, s.category))
  PROVE  Consistent(channels', history') /\ Extends(channels', channels)
<1> DEFINE row == Listed(s)
           hist == Recorded(<< >>, s.category)
           n == Len(channels)
<1>1. /\ channels \in Seq(Channel) /\ history \in Seq(Seq(Interval)) /\ Len(history) = n
      /\ n \in Nat /\ DOMAIN channels = 1 .. n
  BY Indices DEF IInv, Consistent
<1>2. /\ RowOK(row) /\ row \in Channel /\ Identity(row) = <<s.source, s.ext>>
      /\ s.category \in Categories /\ row.category = s.category
  BY ListedRow DEF RowOK
<1>3. HistoryOK(<< >>)
  BY EmptySeq DEF HistoryOK
<1>4. HistoryOK(hist) /\ hist \in Seq(Interval) /\ Fits(row, hist)
  <2>1. HistoryOK(hist) /\ hist # << >> /\ hist[Len(hist)].category = s.category
    BY <1>2, <1>3, RecordedHistory
  <2> HIDE DEF row, hist
  <2> QED
    BY <1>2, <2>1 DEF HistoryOK, Fits
<1>5. \A i \in 1 .. n : Identity(channels[i]) # Identity(row)
  BY <1>1, <1>2 DEF Target, RowsOf
<1> HIDE DEF row, hist
<1>6. /\ channels' \in Seq(Channel) /\ Len(channels') = n + 1
      /\ \A i \in 1 .. n : channels'[i] = channels[i]
      /\ channels'[n + 1] = row
  BY <1>1, <1>2, AppendProperties DEF row
<1>7. /\ history' \in Seq(Seq(Interval)) /\ Len(history') = n + 1
      /\ \A i \in 1 .. n : history'[i] = history[i]
      /\ history'[n + 1] = hist
  BY <1>1, <1>4, AppendProperties DEF hist
<1>8. \A i \in 1 .. n + 1 : i \in 1 .. n \/ i = n + 1
  BY <1>1
<1>9. ASSUME NEW i \in 1 .. n + 1
      PROVE  RowOK(channels'[i]) /\ HistoryOK(history'[i]) /\ Fits(channels'[i], history'[i])
  BY <1>2, <1>4, <1>6, <1>7, <1>8 DEF IInv, Consistent
<1>10. ASSUME NEW i \in 1 .. n + 1, NEW j \in 1 .. n + 1,
              Identity(channels'[i]) = Identity(channels'[j])
       PROVE  i = j
  BY <1>5, <1>6, <1>8, <1>10 DEF IInv, Consistent
<1> QED
  BY <1>1, <1>6, <1>7, <1>9, <1>10 DEF Consistent, Extends

(* A snapshot of a channel with a row, or with one the migration left,     *)
(* takes that row.                                                         *)
LEMMA TakenRow ==
  ASSUME IInv, NEW s \in Snapshot, NEW t \in Target(s),
         channels' = [channels EXCEPT ![t] = Listed(s)],
         history' = [history EXCEPT ![t] = Recorded(@, s.category)]
  PROVE  Consistent(channels', history') /\ Extends(channels', channels)
<1> DEFINE row == Listed(s)
           hist == Recorded(history[t], s.category)
           n == Len(channels)
<1>1. /\ channels \in Seq(Channel) /\ history \in Seq(Seq(Interval)) /\ Len(history) = n
      /\ n \in Nat /\ DOMAIN channels = 1 .. n
  BY Indices DEF IInv, Consistent
<1>2. /\ RowOK(row) /\ row \in Channel /\ Identity(row) = <<s.source, s.ext>>
      /\ s.category \in Categories /\ row.category = s.category
      /\ row.source = s.source /\ row.ext = s.ext
  BY ListedRow DEF RowOK
<1>3. t \in 1 .. n
  BY <1>1 DEF Target, RowsOf
<1>4. /\ channels[t].ext = s.ext
      /\ channels[t].source = s.source \/ channels[t].source = Legacy
  BY DEF Target, RowsOf, Identity
<1>5. ASSUME NEW i \in 1 .. n, Identity(channels[i]) = Identity(row)
      PROVE  i = t
  <2>1. i \in RowsOf(s.source, s.ext)
    BY <1>1, <1>2, <1>5 DEF RowsOf
  <2>2. t \in RowsOf(s.source, s.ext)
    BY <2>1 DEF Target
  <2> QED
    BY <1>1, <1>3, <2>1, <2>2 DEF RowsOf, IInv, Consistent
<1>6. HistoryOK(history[t])
  BY <1>3 DEF IInv, Consistent
<1>7. HistoryOK(hist) /\ hist \in Seq(Interval) /\ Fits(row, hist)
  <2>1. HistoryOK(hist) /\ hist # << >> /\ hist[Len(hist)].category = s.category
    BY <1>2, <1>6, RecordedHistory
  <2> HIDE DEF row, hist
  <2> QED
    BY <1>2, <2>1 DEF HistoryOK, Fits
<1> HIDE DEF row, hist
<1>8. /\ channels' \in Seq(Channel) /\ Len(channels') = n
      /\ \A i \in 1 .. n : channels'[i] = IF i = t THEN row ELSE channels[i]
  BY <1>1, <1>2, <1>3, ExceptSeq DEF row
<1>9. /\ history' \in Seq(Seq(Interval)) /\ Len(history') = n
      /\ \A i \in 1 .. n : history'[i] = IF i = t THEN hist ELSE history[i]
  BY <1>1, <1>3, <1>7, ExceptSeq DEF hist
<1>10. ASSUME NEW i \in 1 .. n
       PROVE  RowOK(channels'[i]) /\ HistoryOK(history'[i]) /\ Fits(channels'[i], history'[i])
  BY <1>2, <1>7, <1>8, <1>9 DEF IInv, Consistent
<1>11. ASSUME NEW i \in 1 .. n, NEW j \in 1 .. n,
              Identity(channels'[i]) = Identity(channels'[j])
       PROVE  i = j
  BY <1>5, <1>8, <1>11 DEF IInv, Consistent
<1>12. \A i \in 1 .. n : /\ channels'[i].ext = channels[i].ext
                         /\ \/ channels'[i].source = channels[i].source
                            \/ channels[i].source = Legacy
  BY <1>2, <1>4, <1>8
<1> QED
  BY <1>1, <1>8, <1>9, <1>10, <1>11, <1>12 DEF Consistent, Extends

(* Rows that kept their place twice have kept it. *)
LEMMA ExtendsTransitive ==
  ASSUME NEW a \in Seq(Channel), NEW b \in Seq(Channel), NEW c \in Seq(Channel),
         Extends(b, a), Extends(c, b)
  PROVE  Extends(c, a)
<1>1. Len(a) \in Nat /\ Len(b) \in Nat /\ Len(c) \in Nat
  BY Indices
<1> QED
  BY <1>1 DEF Extends

(* Rows that did not change have kept their place. *)
LEMMA ExtendsItself ==
  ASSUME NEW a \in Seq(Channel)
  PROVE  Extends(a, a)
BY Indices DEF Extends

(* A cycle starts: the rows age and what the last one committed is kept. *)
LEMMA BegunRows ==
  ASSUME IInv, Begin
  PROVE  Consistent(channels', history) /\ Extends(channels', channels)
<1>1. PICK d \in Gaps : channels' = [i \in DOMAIN channels |-> Aged(channels[i], d)]
  BY DEF Begin
<1>2. /\ DOMAIN channels = 1 .. Len(channels) /\ Consistent(channels, history)
      /\ \A i \in 1 .. Len(channels) : RowOK(channels[i])
  BY Indices DEF IInv, Consistent
<1>3. \A i \in 1 .. Len(channels) :
        /\ RowOK(channels'[i]) /\ Identity(channels'[i]) = Identity(channels[i])
        /\ channels'[i].category = channels[i].category
  BY <1>1, <1>2, AgedRow
<1>4. channels' \in [1 .. Len(channels) -> Channel]
  <2>1. \A i \in 1 .. Len(channels) : channels'[i] \in Channel
    BY <1>3 DEF RowOK
  <2> QED
    BY <1>1, <1>2, <2>1
<1> QED
  BY <1>2, <1>3, <1>4, MappedRows

(* A source is reconciled: its rows keep their identity and category. *)
LEMMA ReconciledRows ==
  ASSUME IInv, NEW k \in keys, Reconcile(k)
  PROVE  Consistent(channels', history) /\ Extends(channels', channels)
<1>1. channels' = [i \in DOMAIN channels |->
        IF InScope(channels[i], k) THEN Archived(Deactivated(channels[i], k))
        ELSE channels[i]]
  BY DEF Reconcile
<1>2. /\ DOMAIN channels = 1 .. Len(channels) /\ Consistent(channels, history)
      /\ \A i \in 1 .. Len(channels) : RowOK(channels[i])
  BY Indices DEF IInv, Consistent
<1>3. ASSUME NEW i \in 1 .. Len(channels)
      PROVE  /\ RowOK(channels'[i]) /\ Identity(channels'[i]) = Identity(channels[i])
             /\ channels'[i].category = channels[i].category
  <2>1. LET left == Deactivated(channels[i], k)
        IN  /\ RowOK(left) /\ Identity(left) = Identity(channels[i])
            /\ left.category = channels[i].category
    BY <1>2, DeactivatedRow
  <2>2. LET left == Deactivated(channels[i], k)
        IN  /\ RowOK(Archived(left)) /\ Identity(Archived(left)) = Identity(left)
            /\ Archived(left).category = left.category
    BY <2>1, ArchivedRow
  <2>3. channels'[i] = Archived(Deactivated(channels[i], k)) \/ channels'[i] = channels[i]
    BY <1>1, <1>2
  <2> QED
    BY <1>2, <2>1, <2>2, <2>3
<1>4. channels' \in [1 .. Len(channels) -> Channel]
  <2>1. \A i \in 1 .. Len(channels) : channels'[i] \in Channel
    BY <1>3 DEF RowOK
  <2> QED
    BY <1>1, <1>2, <2>1
<1> QED
  BY <1>2, <1>3, <1>4, MappedRows

-----------------------------------------------------------------------------
(* The invariant holds from the start.                                     *)

(* Migrated rows have distinct external_ids. *)
LEMMA MigratedRows ==
  LET ids == SetToSeq(LegacyRows)
      n   == Cardinality(LegacyRows)
  IN  /\ n \in Nat /\ ids \in [1 .. n -> LegacyRows]
      /\ \A i, j \in 1 .. n : ids[i] = ids[j] => i = j
<1> DEFINE n == Cardinality(LegacyRows)
<1>1. n \in Nat /\ ExistsBijection(1 .. n, LegacyRows)
  BY RowsAssumption, FS_CardinalityType
<1>2. PICK f \in [1 .. n -> LegacyRows] : IsInjective(f)
  BY <1>1 DEF ExistsBijection, Bijection, Injection
<1>3. SetToSeq(LegacyRows) \in [1 .. n -> LegacyRows] /\ IsInjective(SetToSeq(LegacyRows))
  BY <1>2 DEF SetToSeq
<1> QED
  BY <1>1, <1>3 DEF IsInjective

(* The rows a database starts with are consistent. *)
LEMMA InitialInv == Init => IInv
<1> SUFFICES ASSUME Init PROVE IInv
  OBVIOUS
<1> DEFINE ids == SetToSeq(LegacyRows)
           n == Cardinality(LegacyRows)
<1>1. /\ n \in Nat /\ ids \in [1 .. n -> LegacyRows]
      /\ \A i, j \in 1 .. n : ids[i] = ids[j] => i = j
  BY MigratedRows
<1>2. channels = [i \in 1 .. n |-> Upgraded(ids[i])] /\ history = [i \in 1 .. n |-> << >>]
  BY DEF Init
<1> HIDE DEF ids, n
<1>3. ASSUME NEW e \in LegacyRows
      PROVE  RowOK(Upgraded(e)) /\ Identity(Upgraded(e)) = <<Legacy, e>>
             /\ Upgraded(e).source = Legacy
  <2>1. /\ 0 \in Ages /\ NULL <= 0 /\ e \in Externals
        /\ (CHOOSE c \in Categories : TRUE) \in Categories
    BY RowsAssumption, AgesAssumption DEF Ages, NULL
  <2>2. Upgraded(e) \in Channel
    BY <2>1 DEF Upgraded, Channel
  <2> QED
    BY <2>1, <2>2 DEF Upgraded, RowOK, Identity
<1>4. \A i \in 1 .. n : /\ RowOK(channels[i]) /\ Identity(channels[i]) = <<Legacy, ids[i]>>
                        /\ channels[i].source = Legacy /\ history[i] = << >>
  BY <1>1, <1>2, <1>3
<1>5. /\ channels \in Seq(Channel) /\ Len(channels) = n
      /\ history \in Seq(Seq(Interval)) /\ Len(history) = n
  <2>1. channels \in [1 .. n -> Channel]
    BY <1>2, <1>4 DEF RowOK
  <2>2. history \in [1 .. n -> Seq(Interval)]
    BY <1>2, EmptySeq
  <2> QED
    BY <1>1, <2>1, <2>2, SeqDef, LenProperties
<1>6. ASSUME NEW i \in 1 .. n
      PROVE  HistoryOK(history[i]) /\ Fits(channels[i], history[i])
  <2>1. << >> \in Seq(Interval) /\ Len(<< >>) = 0
    BY EmptySeq
  <2>2. HistoryOK(<< >>)
    BY <2>1 DEF HistoryOK
  <2>3. channels[i].source = Legacy /\ history[i] = << >>
    BY <1>4
  <2> QED
    BY <2>2, <2>3 DEF Fits
<1>7. Consistent(channels, history)
  BY <1>1, <1>4, <1>5, <1>6 DEF Consistent
<1>8. saved.channels = channels /\ saved.history = history
  BY DEF Init
<1>9. CycleInv
  BY DEF Init, CycleInv
<1> QED
  BY <1>5, <1>7, <1>8, <1>9, ExtendsItself DEF IInv

-----------------------------------------------------------------------------
(* Every step keeps it.                                                    *)

LEMMA NextInv == IInv /\ [Next]_vars => IInv'
<1> SUFFICES ASSUME IInv, [Next]_vars PROVE IInv'
  OBVIOUS
<1>1. /\ CycleInv /\ Consistent(channels, history)
      /\ Consistent(saved.channels, saved.history) /\ Extends(channels, saved.channels)
      /\ channels \in Seq(Channel) /\ saved.channels \in Seq(Channel)
  BY DEF IInv, Consistent
<1>2. ASSUME Begin PROVE IInv'
  <2>1. Consistent(channels', history) /\ channels' \in Seq(Channel)
    BY <1>2, BegunRows DEF Consistent
  <2>2. saved'.channels = channels' /\ saved'.history = history /\ history' = history
    BY <1>2 DEF Begin
  <2>3. CycleInv'
    <3>1. /\ listing' \subseteq Snapshot /\ todo' = listing' /\ pc' = "sync"
          /\ keys' = {Own} \cup {s.source : s \in listing'} /\ clean' = TRUE
      BY <1>2 DEF Begin, Swept
    <3>2. {s.source : s \in listing'} \subseteq Sources /\ Own \in Sources
      BY <3>1 DEF Snapshot, Sources
    <3> QED
      BY <3>1, <3>2 DEF CycleInv
  <2> QED
    BY <2>1, <2>2, <2>3, ExtendsItself DEF IInv
<1>3. ASSUME NEW s \in todo, Upsert(s) PROVE IInv'
  <2>1. s \in Snapshot /\ saved' = saved
    BY <1>1, <1>3 DEF CycleInv, Upsert
  <2>2. Consistent(channels', history') /\ Extends(channels', channels)
    <3>1. CASE Target(s) = {}
      <4>1. /\ channels' = Append(channels, Listed(s))
            /\ history' = Append(history, Recorded(<< >>, s.category))
        BY <1>3, <3>1 DEF Upsert
      <4> QED
        BY <2>1, <3>1, <4>1, CreatedRow
    <3>2. CASE Target(s) # {}
      <4>1. PICK t \in Target(s) :
              /\ channels' = [channels EXCEPT ![t] = Listed(s)]
              /\ history' = [history EXCEPT ![t] = Recorded(@, s.category)]
        BY <1>3, <3>2 DEF Upsert
      <4> QED
        BY <2>1, <4>1, TakenRow
    <3> QED
      BY <3>1, <3>2
  <2>3. CycleInv'
    BY <1>1, <1>3 DEF CycleInv, Upsert
  <2>4. Extends(channels', saved.channels)
    BY <1>1, <2>2, ExtendsTransitive DEF Consistent
  <2> QED
    BY <1>1, <2>1, <2>2, <2>3, <2>4 DEF IInv
<1>4. ASSUME NEW k \in keys, Reconcile(k) PROVE IInv'
  <2>1. Consistent(channels', history) /\ Extends(channels', channels)
    BY <1>4, ReconciledRows
  <2>2. saved' = saved /\ history' = history
    BY <1>4 DEF Reconcile
  <2>3. CycleInv'
    BY <1>1, <1>4 DEF CycleInv, Reconcile
  <2>4. Extends(channels', saved.channels)
    BY <1>1, <2>1, ExtendsTransitive DEF Consistent
  <2> QED
    BY <1>1, <2>1, <2>2, <2>3, <2>4 DEF IInv
<1>5. ASSUME NEW s \in todo, UpsertFails(s) PROVE IInv'
  <2>1. CycleInv' /\ channels' = channels /\ history' = history /\ saved' = saved
    BY <1>1, <1>5 DEF CycleInv, UpsertFails
  <2> QED
    BY <1>1, <2>1 DEF IInv
<1>6. ASSUME NEW k \in keys, ReconcileFails(k) PROVE IInv'
  <2>1. CycleInv' /\ channels' = channels /\ history' = history /\ saved' = saved
    BY <1>1, <1>6 DEF CycleInv, ReconcileFails
  <2> QED
    BY <1>1, <2>1 DEF IInv
<1>7. ASSUME Commit PROVE IInv'
  <2>1. /\ CycleInv' /\ channels' = channels /\ history' = history
        /\ saved'.channels = channels /\ saved'.history = history
    BY <1>1, <1>7 DEF CycleInv, Commit
  <2> QED
    BY <1>1, <2>1, ExtendsItself DEF IInv
<1>8. ASSUME Abort PROVE IInv'
  <2>1. /\ CycleInv' /\ saved' = saved
        /\ channels' = saved.channels /\ history' = saved.history
    BY <1>1, <1>8 DEF CycleInv, Abort
  <2> QED
    BY <1>1, <2>1, ExtendsItself DEF IInv
<1>9. ASSUME UNCHANGED vars PROVE IInv'
  <2>1. CycleInv' /\ channels' = channels /\ history' = history /\ saved' = saved
    BY <1>1, <1>9 DEF CycleInv, vars
  <2> QED
    BY <1>1, <2>1 DEF IInv
<1> QED
  BY <1>2, <1>3, <1>4, <1>5, <1>6, <1>7, <1>8, <1>9 DEF Next

LEMMA Invariant == Spec => []IInv
BY InitialInv, NextInv, PTL DEF Spec

-----------------------------------------------------------------------------
(* What follows from it.                                                   *)

(* Every row, interval and snapshot has its type (models/channel.py).      *)
THEOREM TypeCorrect == Spec => []TypeOK
<1>1. IInv => TypeOK
  <2> SUFFICES ASSUME IInv PROVE TypeOK
    OBVIOUS
  <2>1. /\ CycleInv /\ channels \in Seq(Channel) /\ history \in Seq(Seq(Interval))
        /\ Len(history) = Len(channels)
    BY DEF IInv, Consistent
  <2>2. /\ DOMAIN channels = 1 .. Len(channels)
        /\ history \in [1 .. Len(channels) -> Seq(Interval)]
    BY <2>1, LenProperties
  <2> QED
    BY <2>1, <2>2 DEF TypeOK, CycleInv
<1> QED
  BY <1>1, Invariant, PTL

(* A channel has one row for ever (upsert_from_snapshot, migration 0009).  *)
THEOREM OneRow == Spec => []OneRowPerIdentity
<1>1. IInv => OneRowPerIdentity
  BY Indices DEF IInv, Consistent, OneRowPerIdentity
<1> QED
  BY <1>1, Invariant, PTL

(* The columns of a row tell one story (upsert_from_snapshot,              *)
(* reconcile_missing).                                                     *)
THEOREM RowsConsistent == Spec => []RowsAgree
<1>1. IInv => RowsAgree
  <2> SUFFICES ASSUME IInv PROVE RowsAgree
    OBVIOUS
  <2>1. DOMAIN channels = 1 .. Len(channels) /\ \A i \in 1 .. Len(channels) : RowOK(channels[i])
    BY Indices DEF IInv, Consistent
  <2> QED
    BY <2>1 DEF RowOK, RowsAgree
<1> QED
  BY <1>1, Invariant, PTL

(* The category history covers the present (_record_category_change).      *)
THEOREM HistoryComplete == Spec => []HistoryCovers
<1>1. IInv => HistoryCovers
  <2> SUFFICES ASSUME IInv, NEW i \in DOMAIN channels
               PROVE  LET h == history[i] IN
                      /\ h # << >> => Last(h).category = channels[i].category
                      /\ \A n \in DOMAIN h : h[n].open <=> n = Len(h)
                      /\ \A n \in DOMAIN h : n > 1 => h[n].category # h[n - 1].category
                      /\ channels[i].source # Legacy => h # << >>
    BY DEF HistoryCovers
  <2>1. HistoryOK(history[i]) /\ Fits(channels[i], history[i])
    BY Indices DEF IInv, Consistent
  <2>2. DOMAIN history[i] = 1 .. Len(history[i])
    BY <2>1, Indices DEF HistoryOK
  <2> QED
    BY <2>1, <2>2 DEF HistoryOK, Fits, Last
<1> QED
  BY <1>1, Invariant, PTL

(* Committed rows keep their place through every cycle, failed or not      *)
(* (the repository never deletes a channel).                               *)
THEOREM PlacesKept == Spec => RowsEndure
<1> DEFINE Kept == \A i \in DOMAIN saved.channels :
       /\ i \in DOMAIN saved'.channels
       /\ saved'.channels[i].ext = saved.channels[i].ext
       /\ \/ saved'.channels[i].source = saved.channels[i].source
          \/ saved.channels[i].source = Legacy
<1>1. IInv /\ [Next]_vars => [Kept]_saved
  <2> SUFFICES ASSUME IInv, [Next]_vars, saved' # saved PROVE Kept
    OBVIOUS
  <2>1. /\ channels \in Seq(Channel) /\ saved.channels \in Seq(Channel)
        /\ Extends(channels, saved.channels)
    BY DEF IInv, Consistent
  <2>2. Begin \/ Commit
    BY DEF Next, vars, Upsert, UpsertFails, Reconcile, ReconcileFails, Abort
  <2>3. /\ saved'.channels \in Seq(Channel) /\ Extends(saved'.channels, saved.channels)
    <3>1. CASE Begin
      <4>1. Consistent(channels', history) /\ Extends(channels', channels)
        BY <3>1, BegunRows
      <4>2. saved'.channels = channels'
        BY <3>1 DEF Begin
      <4> QED
        BY <2>1, <4>1, <4>2, ExtendsTransitive DEF Consistent
    <3>2. CASE Commit
      BY <2>1, <3>2 DEF Commit
    <3> QED
      BY <2>2, <3>1, <3>2
  <2>4. /\ DOMAIN saved.channels = 1 .. Len(saved.channels)
        /\ DOMAIN saved'.channels = 1 .. Len(saved'.channels)
        /\ Len(saved.channels) \in Nat /\ Len(saved'.channels) \in Nat
    BY <2>1, <2>3, Indices
  <2> QED
    BY <2>3, <2>4 DEF Extends
<1> QED
  BY <1>1, Invariant, PTL DEF Spec, RowsEndure

-----------------------------------------------------------------------------
(* What a cycle without failures leaves behind.  While the cycle lasts,    *)
(* the snapshots already upserted and the sources already reconciled are   *)
(* as the listing says.                                                    *)

Shown(s) ==
  \E i \in 1 .. Len(channels) :
    channels[i].active /\ Identity(channels[i]) = <<s.source, s.ext>>

Progress ==
  /\ keys \subseteq Swept
  /\ pc = "idle" => todo = {} /\ keys = {}
  /\ todo # {} => keys = Swept

CycleDone ==
  clean =>
    /\ \A s \in listing \ todo : Shown(s)
    /\ \A i \in 1 .. Len(channels) :
         channels[i].active /\ channels[i].source \in Swept \ keys => ListedBy(channels[i])

CycleShown == Progress /\ CycleDone

(* A row of a channel that another snapshot names keeps its place and its  *)
(* columns: an adopted row has the identity migration 0009 gave it, which  *)
(* no snapshot has.                                                        *)
LEMMA UpsertShows ==
  ASSUME IInv, NEW s \in todo, Upsert(s)
  PROVE  /\ Shown(s)'
         /\ \A t \in listing : Shown(t) => Shown(t)'
<1>1. /\ s \in Snapshot /\ listing \subseteq Snapshot /\ channels \in Seq(Channel)
      /\ DOMAIN channels = 1 .. Len(channels) /\ Len(channels) \in Nat
      /\ Consistent(channels, history)
  BY Indices DEF IInv, CycleInv, Consistent
<1>2. /\ Listed(s) \in Channel /\ Listed(s).active
      /\ Identity(Listed(s)) = <<s.source, s.ext>>
  BY <1>1, ListedRow DEF RowOK, Listed
<1>3. CASE Target(s) = {}
  <2>1. channels' = Append(channels, Listed(s))
    BY <1>3 DEF Upsert
  <2>2. /\ Len(channels') = Len(channels) + 1
        /\ \A i \in 1 .. Len(channels) : channels'[i] = channels[i]
        /\ channels'[Len(channels) + 1] = Listed(s)
    BY <1>1, <1>2, <2>1, AppendProperties
  <2>3. 1 .. Len(channels) \subseteq 1 .. Len(channels') /\ Len(channels) + 1 \in 1 .. Len(channels')
    BY <1>1, <2>2
  <2> QED
    BY <1>2, <2>2, <2>3 DEF Shown
<1>4. CASE Target(s) # {}
  <2>1. PICK i \in Target(s) : channels' = [channels EXCEPT ![i] = Listed(s)]
    BY <1>4 DEF Upsert
  <2>2. /\ i \in 1 .. Len(channels)
        /\ Identity(channels[i]) = <<s.source, s.ext>> \/ channels[i].source = Legacy
    BY <1>1, <2>1 DEF Target, RowsOf, Identity
  <2>3. /\ Len(channels') = Len(channels) /\ channels'[i] = Listed(s)
        /\ \A j \in 1 .. Len(channels) : j # i => channels'[j] = channels[j]
    BY <1>1, <1>2, <2>1, <2>2, ExceptSeq
  <2>4. ASSUME NEW t \in listing, Shown(t) PROVE Shown(t)'
    <3>1. PICK j \in 1 .. Len(channels) :
            channels[j].active /\ Identity(channels[j]) = <<t.source, t.ext>>
      BY <2>4 DEF Shown
    <3>2. CASE j = i
      <4>1. t.source # Legacy /\ channels[j].source = t.source
        BY <1>1, <3>1, ListedRow DEF Identity
      <4>2. Identity(Listed(s)) = <<t.source, t.ext>>
        BY <1>2, <2>2, <3>1, <3>2, <4>1
      <4> QED
        BY <1>2, <2>2, <2>3, <4>2 DEF Shown
    <3>3. CASE j # i
      BY <2>3, <3>1, <3>3 DEF Shown
    <3> QED
      BY <3>2, <3>3
  <2>5. Shown(s)'
    BY <1>2, <2>2, <2>3 DEF Shown
  <2> QED
    BY <2>4, <2>5
<1> QED
  BY <1>3, <1>4

(* Reconciling a source leaves its listed rows as they are, and its other  *)
(* rows inactive.                                                          *)
LEMMA ReconcileShows ==
  ASSUME IInv, NEW k \in keys, Reconcile(k)
  PROVE  /\ Len(channels') = Len(channels)
         /\ \A i \in 1 .. Len(channels) :
              /\ Identity(channels'[i]) = Identity(channels[i])
              /\ channels'[i].source = channels[i].source
              /\ channels'[i].active =>
                   channels[i].active /\ (channels[i].source = k => ListedBy(channels[i]))
              /\ channels[i].active /\ ListedBy(channels[i]) => channels'[i].active
<1>1. /\ channels \in Seq(Channel) /\ listing \subseteq Snapshot
      /\ DOMAIN channels = 1 .. Len(channels) /\ Len(channels) \in Nat
      /\ \A i \in 1 .. Len(channels) : RowOK(channels[i]) /\ channels[i] \in Channel
  BY Indices DEF IInv, CycleInv, Consistent, RowOK
<1>2. Consistent(channels', history) /\ Extends(channels', channels)
  BY ReconciledRows
<1>3. channels' = [i \in 1 .. Len(channels) |->
        IF InScope(channels[i], k) THEN Archived(Deactivated(channels[i], k))
        ELSE channels[i]]
  BY <1>1 DEF Reconcile
<1>4. Len(channels') = Len(channels)
  <2>1. /\ channels' \in Seq(Channel) /\ DOMAIN channels' = 1 .. Len(channels')
        /\ Len(channels') \in Nat
    BY <1>2, Indices DEF Consistent
  <2> QED
    BY <1>1, <1>3, <2>1
<1>5. ASSUME NEW i \in 1 .. Len(channels)
      PROVE  /\ Identity(channels'[i]) = Identity(channels[i])
             /\ channels'[i].source = channels[i].source
             /\ channels'[i].active =>
                  channels[i].active /\ (channels[i].source = k => ListedBy(channels[i]))
             /\ channels[i].active /\ ListedBy(channels[i]) => channels'[i].active
  <2> DEFINE c == channels[i]
             left == Deactivated(c, k)
  <2>1. RowOK(c) /\ c \in Channel
    BY <1>1
  <2>2. CASE c.source # k
    BY <1>3, <2>2 DEF InScope
  <2>3. CASE c.source = k
    <3>1. channels'[i] = Archived(left)
      BY <1>3, <2>3 DEF InScope
    <3>2. /\ RowOK(left) /\ Identity(left) = Identity(c)
          /\ Identity(Archived(left)) = Identity(left)
      BY <2>1, DeactivatedRow, ArchivedRow
    <3>3. Archived(left).active = left.active
      <4>1. left \in Channel
        BY <3>2 DEF RowOK
      <4> HIDE DEF left
      <4> QED
        BY <4>1 DEF Archived, Channel
    <3>4. ListedBy(c) <=> c.ext \in Seen(k)
      BY <2>3 DEF ListedBy, Seen, Identity
    <3>5. left.active <=> c.active /\ c.ext \in Seen(k)
      <4>1. CASE c.ext \notin Seen(k) /\ c.active
        <5>1. left = [c EXCEPT !.active = FALSE, !.since = 0]
          BY <4>1 DEF Deactivated
        <5> QED
          BY <2>1, <4>1, <5>1 DEF Channel
      <4>2. CASE ~(c.ext \notin Seen(k) /\ c.active)
        <5>1. left = c
          BY <4>2 DEF Deactivated
        <5> QED
          BY <4>2, <5>1
      <4> QED
        BY <4>1, <4>2
    <3>6. Identity(channels'[i]) = Identity(c) /\ channels'[i].source = c.source
      BY <3>1, <3>2 DEF Identity
    <3>7. channels'[i].active <=> c.active /\ ListedBy(c)
      BY <3>1, <3>3, <3>4, <3>5
    <3> QED
      BY <3>6, <3>7
  <2> QED
    BY <2>2, <2>3
<1> QED
  BY <1>4, <1>5

LEMMA InitialShown == Init => CycleShown
BY DEF Init, CycleShown, Progress, CycleDone

(* Every step of a cycle keeps what it has shown so far. *)
LEMMA NextShown == IInv /\ CycleShown /\ [Next]_vars => CycleShown'
<1> SUFFICES ASSUME IInv, CycleShown, [Next]_vars PROVE CycleShown'
  OBVIOUS
<1>1. Progress /\ CycleDone /\ todo \subseteq listing /\ clean \in BOOLEAN
  BY DEF CycleShown, IInv, CycleInv
<1>2. ASSUME Begin PROVE CycleShown'
  <2>1. pc' = "sync" /\ todo' = listing' /\ keys' = Swept'
    BY <1>2 DEF Begin
  <2> QED
    BY <2>1 DEF CycleShown, Progress, CycleDone
<1>3. ASSUME NEW s \in todo, Upsert(s) PROVE CycleShown'
  <2>1. /\ listing' = listing /\ keys' = keys /\ clean' = clean /\ pc' = pc /\ pc = "sync"
        /\ todo' = todo \ {s}
    BY <1>3 DEF Upsert
  <2>2. Swept' = Swept /\ keys = Swept
    BY <1>1, <2>1 DEF Swept, Progress
  <2>3. Shown(s)' /\ \A t \in listing : Shown(t) => Shown(t)'
    BY <1>3, UpsertShows
  <2>4. ASSUME clean', NEW t \in listing' \ todo' PROVE Shown(t)'
    <3>1. t = s \/ t \in listing \ todo
      BY <2>1
    <3> QED
      BY <1>1, <2>1, <2>3, <2>4, <3>1 DEF CycleDone
  <2>5. Progress'
    BY <1>1, <2>1, <2>2 DEF Progress
  <2>6. CycleDone'
    BY <2>1, <2>2, <2>4 DEF CycleDone
  <2> QED
    BY <2>5, <2>6 DEF CycleShown
<1>4. ASSUME NEW k \in keys, Reconcile(k) PROVE CycleShown'
  <2>1. /\ listing' = listing /\ keys' = keys \ {k} /\ clean' = clean /\ pc' = pc
        /\ todo' = todo /\ todo = {} /\ pc = "sync"
    BY <1>4 DEF Reconcile
  <2>2. Swept' = Swept
    BY <2>1 DEF Swept
  <2>3. /\ Len(channels') = Len(channels)
        /\ \A i \in 1 .. Len(channels) :
             /\ Identity(channels'[i]) = Identity(channels[i])
             /\ channels'[i].source = channels[i].source
             /\ channels'[i].active =>
                  channels[i].active /\ (channels[i].source = k => ListedBy(channels[i]))
             /\ channels[i].active /\ ListedBy(channels[i]) => channels'[i].active
    BY <1>4, ReconcileShows
  <2>4. ASSUME clean', NEW t \in listing' \ todo' PROVE Shown(t)'
    <3>1. Shown(t) /\ t \in listing
      BY <1>1, <2>1, <2>4 DEF CycleDone
    <3>2. PICK i \in 1 .. Len(channels) :
            channels[i].active /\ Identity(channels[i]) = <<t.source, t.ext>>
      BY <3>1 DEF Shown
    <3>3. ListedBy(channels[i])
      BY <3>1, <3>2 DEF ListedBy
    <3> QED
      BY <2>3, <3>2, <3>3 DEF Shown
  <2>5. ASSUME clean', NEW i \in 1 .. Len(channels'), channels'[i].active,
               channels'[i].source \in (Swept \ keys)'
        PROVE  ListedBy(channels[i])'
    <3>1. /\ i \in 1 .. Len(channels) /\ channels[i].active
          /\ Identity(channels'[i]) = Identity(channels[i])
          /\ channels'[i].source = channels[i].source
          /\ channels[i].source = k => ListedBy(channels[i])
      BY <2>3, <2>5
    <3>2. channels[i].source # k => channels[i].source \in Swept \ keys
      BY <2>1, <2>2, <2>5, <3>1
    <3>3. ListedBy(channels[i])
      BY <1>1, <2>1, <2>5, <3>1, <3>2 DEF CycleDone
    <3> QED
      BY <2>1, <3>1, <3>3 DEF ListedBy
  <2>6. Progress'
    BY <1>1, <2>1, <2>2 DEF Progress
  <2>7. CycleDone'
    BY <2>4, <2>5 DEF CycleDone
  <2> QED
    BY <2>6, <2>7 DEF CycleShown
<1>5. ASSUME NEW s \in todo, UpsertFails(s) PROVE CycleShown'
  BY <1>1, <1>5 DEF UpsertFails, CycleShown, Progress, CycleDone, Swept
<1>6. ASSUME NEW k \in keys, ReconcileFails(k) PROVE CycleShown'
  BY <1>1, <1>6 DEF ReconcileFails, CycleShown, Progress, CycleDone, Swept
<1>7. ASSUME Commit PROVE CycleShown'
  BY <1>1, <1>7 DEF Commit, CycleShown, Progress, CycleDone, Swept, Shown, ListedBy
<1>8. ASSUME Abort PROVE CycleShown'
  BY <1>1, <1>8 DEF Abort, CycleShown, Progress, CycleDone, Swept
<1>9. ASSUME UNCHANGED vars PROVE CycleShown'
  BY <1>1, <1>9 DEF vars, CycleShown, Progress, CycleDone, Swept, Shown, ListedBy
<1> QED
  BY <1>2, <1>3, <1>4, <1>5, <1>6, <1>7, <1>8, <1>9 DEF Next

LEMMA CycleInvariant == Spec => [](IInv /\ CycleShown)
<1>1. Init => IInv /\ CycleShown
  BY InitialInv, InitialShown
<1>2. (IInv /\ CycleShown) /\ [Next]_vars => (IInv /\ CycleShown)'
  BY NextInv, NextShown
<1> QED
  BY <1>1, <1>2, PTL DEF Spec

(* After a cycle without failures every listed channel has an active row   *)
(* (_sync_channels, upsert_from_snapshot, reconcile_missing).              *)
THEOREM ListedActive == Spec => []ListedIsActive
<1>1. IInv /\ CycleShown => ListedIsActive
  <2> SUFFICES ASSUME IInv, CycleShown, pc = "idle", clean, NEW s \in listing
               PROVE  \E i \in DOMAIN channels :
                        channels[i].active /\ Identity(channels[i]) = <<s.source, s.ext>>
    BY DEF ListedIsActive
  <2>1. Shown(s) /\ DOMAIN channels = 1 .. Len(channels)
    BY Indices DEF IInv, Consistent, CycleShown, Progress, CycleDone
  <2> QED
    BY <2>1 DEF Shown
<1> QED
  BY <1>1, CycleInvariant, PTL

(* After a cycle without failures no row of a source the cycle went        *)
(* through is active unless it was listed (reconcile_missing, one call per *)
(* key of seen_by_source), with any number of sources and migrated rows.   *)
THEOREM SweptListed == Spec => []SweptAreListed
<1>1. IInv /\ CycleShown => SweptAreListed
  <2> SUFFICES ASSUME IInv, CycleShown PROVE SweptAreListed
    OBVIOUS
  <2>1. DOMAIN channels = 1 .. Len(channels)
    BY Indices DEF IInv, Consistent
  <2> QED
    BY <2>1 DEF CycleShown, Progress, CycleDone, SweptAreListed
<1> QED
  BY <1>1, CycleInvariant, PTL

(* After a cycle without failures no row is active that was not listed     *)
(* (README 216: "una ausencia marca el canal como active=false").          *)
AbsentIsInactive ==
  pc = "idle" /\ clean =>
    \A i \in DOMAIN channels : channels[i].active => ListedBy(channels[i])

(* Where every row carries the adapter's own source, those are all rows:   *)
(* an absent channel is inactive (README 216).  The two hypotheses are the *)
(* ones under which that sentence holds: the rows of a source no cycle     *)
(* reads any more, or of migration 0009, are never reconciled.             *)
THEOREM AbsentInactive ==
  ASSUME Others = {}, LegacyRows = {} PROVE Spec => []AbsentIsInactive
<1> DEFINE NoLegacy(rows) == \A i \in 1 .. Len(rows) : rows[i].source # Legacy
           Migrated == NoLegacy(channels) /\ NoLegacy(saved.channels)
<1>1. Init => Migrated
  <2> SUFFICES ASSUME Init PROVE Migrated
    OBVIOUS
  <2>1. Cardinality(LegacyRows) = 0
    BY FS_EmptySet
  <2>2. channels = [i \in 1 .. 0 |-> Upgraded(SetToSeq(LegacyRows)[i])]
        /\ saved.channels = channels
    BY <2>1 DEF Init
  <2>3. channels \in Seq(Channel) /\ DOMAIN channels = 1 .. 0
    BY <2>2, InitialInv DEF IInv, Consistent
  <2>4. Len(channels) = 0
    BY <2>3, LenProperties
  <2> QED
    BY <2>2, <2>4
<1>2. IInv /\ Migrated /\ [Next]_vars => Migrated'
  <2> SUFFICES ASSUME IInv, Migrated, [Next]_vars PROVE Migrated'
    OBVIOUS
  <2>1. /\ channels \in Seq(Channel) /\ DOMAIN channels = 1 .. Len(channels)
        /\ Len(channels) \in Nat
    BY Indices DEF IInv, Consistent
  <2>2. NoLegacy(channels')
    <3>1. CASE Begin
      <4>1. PICK d \in Gaps : channels' = [i \in DOMAIN channels |-> Aged(channels[i], d)]
        BY <3>1 DEF Begin
      <4>2. Consistent(channels', history)
        BY <3>1, BegunRows
      <4>3. DOMAIN channels' = 1 .. Len(channels') /\ Len(channels') \in Nat
        BY <4>2, Indices DEF Consistent
      <4>4. \A i \in 1 .. Len(channels') : i \in 1 .. Len(channels)
        BY <2>1, <4>1, <4>3
      <4>5. \A i \in 1 .. Len(channels) : channels'[i].source = channels[i].source
        <5>1. \A i \in 1 .. Len(channels) :
                RowOK(channels[i]) /\ channels'[i] = Aged(channels[i], d)
          BY <2>1, <4>1 DEF IInv, Consistent
        <5>2. \A i \in 1 .. Len(channels) : Identity(channels'[i]) = Identity(channels[i])
          BY <5>1, AgedRow
        <5> QED
          BY <5>2 DEF Identity
      <4> QED
        BY <4>4, <4>5
    <3>2. ASSUME NEW s \in todo, Upsert(s) PROVE NoLegacy(channels')
      <4>1. s \in Snapshot /\ Listed(s).source # Legacy /\ Listed(s) \in Channel
        BY ListedRow DEF IInv, CycleInv, RowOK
      <4>2. CASE Target(s) = {}
        <5>1. channels' = Append(channels, Listed(s))
          BY <3>2, <4>2 DEF Upsert
        <5>2. /\ Len(channels') = Len(channels) + 1
              /\ \A i \in 1 .. Len(channels) : channels'[i] = channels[i]
              /\ channels'[Len(channels) + 1] = Listed(s)
          BY <2>1, <4>1, <5>1, AppendProperties
        <5>3. \A i \in 1 .. Len(channels') : i \in 1 .. Len(channels) \/ i = Len(channels) + 1
          BY <2>1, <5>2
        <5> QED
          BY <4>1, <5>2, <5>3
      <4>3. CASE Target(s) # {}
        <5>1. PICK i \in Target(s) : channels' = [channels EXCEPT ![i] = Listed(s)]
          BY <3>2, <4>3 DEF Upsert
        <5>2. i \in 1 .. Len(channels)
          BY <2>1, <5>1 DEF Target, RowsOf
        <5>3. /\ Len(channels') = Len(channels) /\ channels'[i] = Listed(s)
              /\ \A j \in 1 .. Len(channels) : j # i => channels'[j] = channels[j]
          BY <2>1, <4>1, <5>1, <5>2, ExceptSeq
        <5> QED
          BY <4>1, <5>3
      <4> QED
        BY <4>2, <4>3
    <3>3. ASSUME NEW k \in keys, Reconcile(k) PROVE NoLegacy(channels')
      BY <3>3, ReconcileShows
    <3>4. CASE channels' = channels \/ channels' = saved.channels
      BY <3>4
    <3> QED
      BY <3>1, <3>2, <3>3, <3>4
         DEF Next, UpsertFails, ReconcileFails, Commit, Abort, vars
  <2>3. \/ saved' = saved \/ saved'.channels = channels' \/ saved'.channels = channels
    BY DEF Next, Begin, Upsert, UpsertFails, Reconcile, ReconcileFails, Commit, Abort, vars
  <2> QED
    BY <2>2, <2>3
<1>3. IInv /\ CycleShown /\ Migrated => AbsentIsInactive
  <2> SUFFICES ASSUME IInv, CycleShown, Migrated, pc = "idle", clean,
                      NEW i \in DOMAIN channels, channels[i].active
               PROVE  ListedBy(channels[i])
    BY DEF AbsentIsInactive
  <2>1. i \in 1 .. Len(channels) /\ channels[i] \in Channel
    BY Indices DEF IInv, Consistent
  <2>2. channels[i].source = Own
    BY <2>1 DEF Channel, Sources
  <2>3. channels[i].source \in Swept \ keys
    BY <2>2 DEF Swept, CycleShown, Progress
  <2> QED
    BY <2>1, <2>3 DEF CycleShown, CycleDone
<1> HIDE DEF Migrated
<1> QED
  BY <1>1, <1>2, <1>3, CycleInvariant, PTL DEF Spec

=============================================================================
