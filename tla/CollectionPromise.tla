-------------------------- MODULE CollectionPromise --------------------------
(***************************************************************************)
(* What the collections promise of their history: one run at a time, each  *)
(* with a row of its own that says running from its start until the run    *)
(* itself ends it.  Locks, threads, processes, phases and time are not     *)
(* seen.  Whoever reads collection_runs may rely on it: a row that says    *)
(* running is the live run's, which is the newest, or was left by a run    *)
(* that died, and only the start of a later run marks it.                  *)
(***************************************************************************)
EXTENDS Naturals

CONSTANTS
    Rows,     \* rows of the history
    NoRow     \* no row

VARIABLES
    history,  \* what each row says, "none" where there is none
    live,     \* the row of the run in progress, or NoRow
    newest    \* the row that started last, or NoRow

promise == <<history, live, newest>>

PromiseInit ==
    /\ history = [r \in Rows |-> "none"]
    /\ live = NoRow /\ newest = NoRow

\* A run starts: a row that does not say running is written.  Of the others
\* at most those that say running are kept, and they say the same.
Begin(r) ==
    /\ live = NoRow /\ history[r] # "running"
    /\ \E kept \in SUBSET {k \in Rows : history[k] = "running"} :
          history' = [k \in Rows |-> IF k = r \/ k \in kept THEN "running" ELSE "none"]
    /\ live' = r /\ newest' = r

\* It ends its row.
End ==
    /\ live # NoRow /\ live' = NoRow
    /\ \E verdict \in {"success", "error"} :
          history' = [history EXCEPT ![live] = verdict]
    /\ UNCHANGED newest

\* It dies, or cannot write its end: the row goes on saying running.
Orphan ==
    /\ live # NoRow /\ live' = NoRow
    /\ UNCHANGED <<history, newest>>

PromiseNext == (\E r \in Rows : Begin(r)) \/ End \/ Orphan

PromiseSpec == PromiseInit /\ [][PromiseNext]_promise

=============================================================================
