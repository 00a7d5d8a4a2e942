------------------------------ MODULE Readings ------------------------------
(***************************************************************************)
(* What the dashboard reads of the stored samples while collections and    *)
(* the retention go on: a client that walks the history of a server page   *)
(* by page, and the four reports on the latest samples (overview, balance, *)
(* recommendations, health of an onboarding), which are functions of the   *)
(* state.                                                                  *)
(*                                                                         *)
(* HIGH_CPU, HIGH_MEMORY and HIGH_DISK are left out: thresholds of one     *)
(* value, like HIGH_NETWORK.  Rates are whole numbers.                     *)
(***************************************************************************)
EXTENDS SourceCycle, Sequences, SequencesExt

CONSTANTS
    Walked,      \* the server whose history is read
    Limit,       \* rows of a page
    Load,        \* output_mbps and cpu_percent of a server at a minute
    Capacity,    \* network_capacity_mbps of each server, 0 if unknown
    Stale,       \* alert_stale_minutes
    Interval     \* heartbeat_interval_seconds, in minutes

ASSUME ReadingsAssumption ==
    /\ Walked \in Servers /\ Limit \in Nat \ {0}
    /\ Load \in [Servers -> [Minutes -> [output : Nat, cpu : Nat]]]
    /\ Capacity \in [Servers -> Nat]
    /\ Stale \in Nat /\ Interval \in Nat

VARIABLE
    walk        \* the client: its cursor, what it got, what was there at first

vars == <<cycleVars, walk>>

NoWalk == [pc |-> "idle", cursor |-> MaxMinute + 1, rows |-> <<>>, first |-> {}]

Init == CycleInit /\ walk = NoWalk

-----------------------------------------------------------------------------
(* GET /servers/{id}/metrics, and /channels/{id}/metrics alike.            *)

Latest(times) == Max(times \cup {Never})

\* ORDER BY collected_at DESC.  A server has one row per minute, so that the
\* row id never decides.
NewestFirst(times) ==
    CHOOSE rows \in SetToSeqs(times) :
        \A i, j \in DOMAIN rows : i < j => rows[i] > rows[j]

\* list_metrics before the cursor.
Before(cursor) == NewestFirst({t \in samples[Walked] : t < cursor})

\* Fault: the next page starts before the row that only told there is one.
NextCursor_LookAhead(rows) == rows[Limit + 1]

\* X-Next-Cursor: the last row of the page.
NextCursor(rows) == rows[Limit]

StartWalk ==
    /\ walk.pc = "idle"
    /\ walk' = [NoWalk EXCEPT !.pc = "page", !.first = samples[Walked]]

\* A page: limit + 1 rows are read to know whether there are more.
Page ==
    /\ walk.pc = "page"
    /\ LET all  == Before(walk.cursor)
           rows == SubSeq(all, 1, Min({Limit + 1, Len(all)}))
           more == Len(rows) > Limit
       IN  walk' = [walk EXCEPT
               !.pc     = IF more THEN "page" ELSE "end",
               !.cursor = IF more THEN NextCursor(rows) ELSE @,
               !.rows   = @ \o IF more THEN SubSeq(rows, 1, Limit) ELSE rows]

EndWalk == walk.pc = "end" /\ walk' = NoWalk

Next ==
    \/ CycleNext /\ UNCHANGED walk
    \/ (StartWalk \/ Page \/ EndWalk) /\ UNCHANGED cycleVars

Spec == Init /\ [][Next]_vars

-----------------------------------------------------------------------------
(* The reports, for a set of enabled servers.  The recommendations are of  *)
(* those that are also active: list_all leaves out the others, the latest  *)
(* samples do not.                                                         *)

LatestOf(s) == Latest(samples[s])

\* latest_metrics_for_enabled.
Sampled(enabled) == {s \in enabled : samples[s] # {}}
Output(s)        == Load[s][LatestOf(s)].output
Cpu(s)           == Load[s][LatestOf(s)].cpu

\* sum() of a rate over the servers it is given for.
Total(rate) == MapThenSumSet(LAMBDA s : rate[s], DOMAIN rate)

\* compute_network_utilization, in hundredths of a percent, rounded.
Unknown == -1
Percent == 100
Utilization(s) ==
    IF Capacity[s] = 0 THEN Unknown
    ELSE (100 * Percent * Output(s) + Capacity[s] \div 2) \div Capacity[s]

\* overview: the total of the latest samples, and the last point of its
\* history, which adds up the samples of one minute.
OverviewTotal(enabled) == Total([s \in Sampled(enabled) |-> Output(s)])
LastPoint(enabled) ==
    LET t == Latest(UNION {samples[s] : s \in enabled})
    IN  Total([s \in {u \in enabled : t \in samples[u]} |-> Load[s][t].output])

\* balance.
CapacityTotal(enabled) == Total([s \in Sampled(enabled) |-> Capacity[s]])
CapacityUsed(enabled)  == Min({OverviewTotal(enabled), CapacityTotal(enabled)})
CapacityFree(enabled)  ==
    Max({CapacityTotal(enabled) - CapacityUsed(enabled), 0})
Rated(enabled)      == {s \in Sampled(enabled) : Utilization(s) # Unknown}
MostLoaded(enabled) ==
    {s \in Rated(enabled) : \A u \in Rated(enabled) : Utilization(u) <= Utilization(s)}
LeastUtilized(enabled) ==
    {s \in Rated(enabled) : \A u \in Rated(enabled) : Utilization(s) <= Utilization(u)}

\* Fault: a server whose samples are all old counts as one without any.
NoData_Stale(enabled, active) ==
    {s \in enabled \cap active : now - LatestOf(s) > Stale}

\* recommendations.
NoData(enabled, active) == (enabled \cap active) \ Sampled(enabled)
HeartbeatLost(enabled, active) ==
    {s \in Sampled(enabled) \cap active : now - LatestOf(s) > Stale}
HighNetwork(enabled, active) ==
    {s \in Sampled(enabled) \cap active : Utilization(s) > 90 * Percent}
Underutilized(enabled, active) ==
    {s \in Rated(enabled) \cap active : Utilization(s) < 10 * Percent /\ Cpu(s) < 20}

\* health of a completed onboarding: healthy or degraded.
Healthy(s) == samples[s] # {} /\ now - LatestOf(s) <= 2 * Interval

-----------------------------------------------------------------------------
(* Properties.                                                             *)

ReadingsTypeOK ==
    /\ CycleTypeOK
    /\ walk.pc \in {"idle", "page", "end"}
    /\ walk.cursor \in 1 .. MaxMinute + 1
    /\ \A i \in DOMAIN walk.rows : walk.rows[i] \in Minutes

\* A client that follows X-Next-Cursor to the end gets every row that was
\* there at first and still is, each once and newest first, although
\* collections add rows and the retention removes some between two pages.
WalkIsComplete ==
    walk.pc = "end" =>
        /\ walk.first \cap samples[Walked] \subseteq Range(walk.rows)
        /\ \A i, j \in DOMAIN walk.rows : i < j => walk.rows[i] > walk.rows[j]

\* The reports agree on the same samples, whichever servers are enabled and
\* whichever active.  An enabled server is in the balance or in NO_DATA, and not
\* in both; only an archived one can be in neither, if it has no sample.  The
\* overview's total is at least its last point, and no more when all were sampled
\* at one minute.  A HIGH_NETWORK or UNDERUTILIZED server is not alone at its end
\* of the balance, where archived servers may stand beside it without a
\* recommendation; capacity runs out only if some link is loaded, that of an
\* archived server perhaps, or some capacity is unknown; a healthy server is not
\* told without heartbeat.  The reports depend on the samples and the minute only,
\* so they are compared between collections.
ReportsAgree ==
    run.pc = "idle" /\ walk.pc = "idle" =>
      \A enabled \in SUBSET Servers :
        /\ OverviewTotal(enabled) >= LastPoint(enabled)
        /\ Cardinality({LatestOf(s) : s \in Sampled(enabled)}) = 1 =>
              OverviewTotal(enabled) = LastPoint(enabled)
        /\ \A active \in SUBSET Servers :
             LET high == HighNetwork(enabled, active)
                 none == NoData(enabled, active)
             IN
             /\ none \cap Sampled(enabled) = {}
             /\ none \cup Sampled(enabled) = enabled \ {s \in enabled \ active : samples[s] = {}}
             /\ high # {} => MostLoaded(enabled) \cap active \subseteq high
             /\ Underutilized(enabled, active) # {} =>
                  \A s \in LeastUtilized(enabled) : Utilization(s) < 10 * Percent
             /\ CapacityTotal(enabled) > 0 /\ CapacityFree(enabled) = 0 =>
                  \/ high # {}
                  \/ \E s \in Sampled(enabled) \ active : Utilization(s) > 90 * Percent
                  \/ Rated(enabled) # Sampled(enabled)
             /\ \A s \in enabled : Healthy(s) /\ 2 * Interval <= Stale =>
                  s \notin none \cup HeartbeatLost(enabled, active)

=============================================================================
