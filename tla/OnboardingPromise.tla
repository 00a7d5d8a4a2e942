-------------------------- MODULE OnboardingPromise --------------------------
(***************************************************************************)
(* What an onboarding promises an operator who waits for its jobs: one job *)
(* at a time, a status that walks through the steps of the flow in order,  *)
(* a server that is enabled by a run that validated it and by no other,    *)
(* and a verdict that only the operator takes back.  Sessions, copies of   *)
(* the row, scripts and time are not seen.                                 *)
(*                                                                         *)
(* Three limits of the code are part of the promise: a run may overwrite a *)
(* cancellation with its next step or its verdict, a cancellation that was *)
(* asked in time may overwrite the verdict, and a run that fails after it  *)
(* validated the server leaves it enabled.                                 *)
(***************************************************************************)
EXTENDS Integers, Sequences

CONSTANT Flow     \* the statuses a run writes, in order

VARIABLES
    status,       \* what the dialog shows
    work,         \* the job in progress: none, a run, one that gave up but
                  \* has not said so yet, before or after validating, or a
                  \* rollback
    progress,     \* steps of the flow a run has written
    asked,        \* a cancellation was asked of an onboarding in progress
    enabled       \* the server is collected

promise == <<status, work, progress, asked, enabled>>

Ended == {"completed", "failed", "cancelled", "rollback_required"}

PromiseInit ==
    /\ status = "pending" /\ work = "run" /\ progress = 0
    /\ asked = FALSE /\ enabled = FALSE

\* A step is written; some find out only then that they did not succeed.
Advance ==
    /\ work = "run" /\ progress < Len(Flow)
    /\ status' = Flow[progress + 1]
    /\ \/ work' = "run" /\ progress' = progress + 1
       \/ work' = "stopped" /\ progress' = 0
    /\ UNCHANGED <<asked, enabled>>

Validated == progress = Len(Flow)

Complete ==
    /\ work = "run" /\ Validated
    /\ status' = "completed" /\ enabled' = TRUE
    /\ work' = "none" /\ progress' = 0
    /\ UNCHANGED asked

\* Something failed, or a cancellation was seen.
GiveUp ==
    /\ work = "run" /\ progress' = 0
    /\ \/ work' = "stopped"
       \/ work' = "stopped late" /\ Validated
    /\ UNCHANGED <<status, asked, enabled>>

\* The verdict of a run that gave up; a cancellation it saw stands.
Report ==
    /\ work \in {"stopped", "stopped late"} /\ work' = "none"
    /\ \/ status = "cancelled" /\ UNCHANGED <<status, enabled>>
       \/ /\ status' \in {"failed", "rollback_required"}
          /\ enabled' = IF work = "stopped late" THEN TRUE ELSE enabled
    /\ UNCHANGED <<progress, asked>>

\* A rollback ends; without success the server may stay as it was.
Undo ==
    /\ work = "rollback" /\ work' = "none"
    /\ \/ status' = "failed" /\ enabled' = FALSE
       \/ status' = "rollback_required" /\ enabled' \in {FALSE, enabled}
    /\ UNCHANGED <<progress, asked>>

\* The operator asks for a cancellation, and it is done.
Ask ==
    /\ ~asked /\ asked' = TRUE /\ status \notin Ended
    /\ UNCHANGED <<status, work, progress, enabled>>
Cancel ==
    /\ asked /\ asked' = FALSE /\ status' = "cancelled"
    /\ UNCHANGED <<work, progress, enabled>>

\* The operator starts another run, or a rollback.
Retry ==
    /\ work = "none" /\ ~asked /\ status \in Ended \cup {"pending"}
    /\ status' = "pending" /\ work' = "run"
    /\ UNCHANGED <<progress, asked, enabled>>
Rollback ==
    /\ work = "none" /\ ~asked /\ status \in Ended \ {"completed"}
    /\ status' = "rollback_required" /\ work' = "rollback"
    /\ UNCHANGED <<progress, asked, enabled>>

\* A job that died is found out.
Expire ==
    /\ work = "none" /\ ~asked /\ status \notin Ended
    /\ status' \in {"failed", "cancelled"}
    /\ UNCHANGED <<work, progress, asked, enabled>>

\* The process dies, and with it the job and what was asked.
Die ==
    /\ work # "none" /\ work' = "none" /\ progress' = 0 /\ asked' = FALSE
    /\ UNCHANGED <<status, enabled>>

PromiseNext ==
    \/ Advance \/ Complete \/ GiveUp \/ Report \/ Undo
    \/ Ask \/ Cancel \/ Retry \/ Rollback \/ Expire \/ Die

PromiseSpec == PromiseInit /\ [][PromiseNext]_promise

=============================================================================
