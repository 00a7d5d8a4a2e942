-------------------------- MODULE ExporterPromise --------------------------
(***************************************************************************)
(* What the administered scripts promise of a host's Node Exporter: an     *)
(* installation takes place at once and whole, or the host keeps what it   *)
(* had.  There is no stage at which a half installed exporter is left, as  *)
(* long as the script itself is not killed, no copy over the binary is cut *)
(* short and the trap that undoes an installation does not fail itself.    *)
(*                                                                         *)
(* The limits of the code are part of the promise.  A process that was     *)
(* serving is not restarted, so it goes on serving the version it was      *)
(* started with.  The backup of an installation that failed stays, so that *)
(* a later failure may bring a removed exporter back, and so may that of   *)
(* one that succeeded but could not clean.  A process that systemd does    *)
(* not stop goes on serving: the new version after an installation that    *)
(* failed, the old one after a removal, which is then a stray without its  *)
(* files, and which nothing starts again once it is stopped.               *)
(***************************************************************************)
EXTENDS Integers

CONSTANTS
    Versions,   \* versions of Node Exporter
    Absent,     \* no version
    Broken      \* a file cut short

VARIABLES
    installed,  \* the version of the administered binary
    serving,    \* the version of the process that answers on port 9100
    request,    \* the version of the installation in progress, or Absent
    relic,      \* the backup an installation left
    stray,      \* the process that answers has no unit
    faults      \* scripts killed and failures that nothing undoes so far

promise == <<installed, serving, request, relic, stray, faults>>

PromiseInit ==
    /\ installed \in Versions \cup {Absent}
    /\ serving \in {installed, Absent}
    /\ request = Absent /\ relic = Absent /\ stray = FALSE /\ faults = 0

\* install-node-exporter.sh starts.
Begin ==
    /\ request = Absent
    /\ request' \in Versions
    /\ UNCHANGED <<installed, serving, relic, stray, faults>>

\* It passes its own probe; its backups may be left.
Commit ==
    /\ request # Absent /\ request' = Absent
    /\ installed' = request
    /\ serving' = IF serving = Absent THEN request ELSE serving
    /\ relic' \in {Absent, relic, installed} /\ stray' = FALSE
    /\ UNCHANGED faults

\* It fails: what was installed stays or is put back, and what answered on
\* the port answers again.
Abort ==
    /\ request # Absent /\ request' = Absent
    /\ \/ installed' = installed
       \/ installed = Absent /\ installed' = relic
    /\ serving' \in {serving, installed', request, Absent}
    /\ serving # Absent /\ ~stray /\ installed' \in Versions => serving' # Absent
    /\ relic' \in {relic, installed}
    /\ stray' => serving' # Absent
    /\ UNCHANGED faults

\* The script is killed, or fails where nothing undoes it.
Break ==
    /\ faults' = faults + 1
    /\ request' = Absent

\* repair-node-exporter.sh: the unit is written if it is missing, and the
\* installed binary is started if nothing serves.
Restart ==
    /\ request = Absent /\ installed # Absent
    /\ serving' = serving \/ (serving = Absent /\ serving' = installed)
    /\ stray' = FALSE
    /\ UNCHANGED <<installed, request, relic, faults>>

\* remove-node-exporter.sh, whose two steps may be seen apart.
Remove ==
    /\ request = Absent
    /\ serving' \in {serving, Absent}
    /\ installed' \in {installed, Absent}
    /\ stray' \in {stray, serving' # Absent}
    /\ UNCHANGED <<request, relic, faults>>

PromiseNext == Begin \/ Commit \/ Abort \/ Break \/ Restart \/ Remove

PromiseSpec == PromiseInit /\ [][PromiseNext]_promise

=============================================================================
