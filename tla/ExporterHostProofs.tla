------------------------- MODULE ExporterHostProofs -------------------------
(***************************************************************************)
(* The proof that the scripts and their sessions (ExporterHost) implement  *)
(* what they promise of a host's exporter (ExporterPromise), for any       *)
(* versions, monitors and number of faults; and that the rules of the      *)
(* firewall are what a validated job says they are.                        *)
(***************************************************************************)
EXTENDS ExporterHost, SequenceTheorems, WellFoundedInduction, TLAPS

-----------------------------------------------------------------------------
(* The inductive invariant.                                                *)

InstallSteps == {"fetch", "backup_bin", "backup_unit", "replace", "unit", "start",
                 "probe", "clean", "undo_stop", "undo_files", "undo_start"}
Untouched    == {"fetch", "backup_bin", "backup_unit", "replace"}

\* The backup once the binary that was found is in it.
Kept == IF script.found.bin = Absent THEN script.found.bakBin ELSE script.found.bin

HostInv == host \in HostRecord

\* An installation knows at each command what it found and what it changed.
InstallInv ==
    /\ script.version \in Versions /\ script.pc \in InstallSteps
    /\ script.found.running \in Versions \cup {Absent}
    /\ script.armed <=> script.pc \in InstallSteps \ (Untouched \cup {"clean"})
    /\ script.pc \in Untouched =>
          /\ host.bin = script.found.bin /\ host.running = script.found.running
          /\ script.found.stray <=> host.running # Absent /\ ~host.unit
    /\ host.bakBin = IF script.pc \in {"fetch", "backup_bin"}
                     THEN script.found.bakBin ELSE Kept
    /\ script.pc \notin {"fetch", "backup_bin", "backup_unit"} =>
          (script.found.running # Absent /\ ~script.found.stray => host.bakUnit)
    /\ script.pc \in {"unit", "start", "probe", "clean"} => host.bin = script.version
    /\ script.pc \in {"unit", "start"} => host.running = script.found.running
    /\ script.pc \in {"start", "probe", "clean"} => host.unit
    /\ script.pc \in {"probe", "clean"} =>
          host.running = IF script.found.running = Absent THEN script.version
                         ELSE script.found.running
    /\ script.pc \in {"undo_stop", "undo_files", "undo_start"} =>
          host.running \in {script.found.running, script.version, Absent}
    /\ script.pc = "undo_start" => host.bin = Kept /\ host.unit = host.bakUnit

\* Another script is none of its commands and undoes nothing.
OtherInv ==
    /\ script.pc \notin {"clean", "replace", "undo_stop", "undo_files", "undo_start"}
    /\ ~script.armed

ScriptInv ==
    Alive => IF script.name = "install" THEN InstallInv ELSE OtherInv

TypesInv == script \in ScriptRecord /\ session \in SessionRecord

IInv == HostInv /\ TypesInv /\ ScriptInv

(* What is promised of the host, as it is seen from outside.               *)
Seen == <<Installed, Serving, Requested, Relic, Stray, faults>>

-----------------------------------------------------------------------------
(* Steps that do not belong to an installation.                            *)

(* The versions and the values that are none. *)
LEMMA Distinct == Absent \notin Versions /\ Broken \notin Versions /\ Absent # Broken
BY HostAssumption

(* Fields of the host. *)
LEMMA HostFields ==
  ASSUME HostInv
  PROVE  /\ host.bin \in Files /\ host.unit \in BOOLEAN /\ host.bakBin \in Files
         /\ host.bakUnit \in BOOLEAN /\ host.running \in Versions \cup {Absent}
BY DEF HostInv, HostRecord

(* What a script and a session are reset to. *)
LEMMA Resets ==
  /\ NoScript \in ScriptRecord /\ NoSession \in SessionRecord
  /\ session \in SessionRecord =>
       \A pc \in {"closed", "confirmed", "failed"} : Ended(pc) \in SessionRecord
<1>1. NoVersion \in Versions /\ NoMonitor \in Monitors
  BY HostAssumption DEF NoVersion, NoMonitor
<1>2. NoScript \in ScriptRecord
  BY <1>1 DEF NoScript, ScriptRecord, Scripts, Steps, Files
<1>3. NoSession \in SessionRecord
  BY <1>1 DEF NoSession, SessionRecord, Jobs
<1>4. ASSUME session \in SessionRecord, NEW pc \in {"closed", "confirmed", "failed"}
      PROVE  Ended(pc) \in SessionRecord
  BY <1>3, <1>4 DEF Ended, SessionRecord
<1> QED
  BY <1>2, <1>3, <1>4

(* A session that hears of the end of a script is a session. *)
LEMMA AnsweredType ==
  ASSUME session \in SessionRecord, NEW ok \in BOOLEAN
  PROVE  Answered(ok) \in SessionRecord
<1>1. CASE session.pc = "wait"
  <2>1. Answered(ok) = IF ok \/ session.job = "rollback"
                       THEN [session EXCEPT !.pc = "firewall"] ELSE Ended("failed")
    BY <1>1, Zenon DEF Answered
  <2> QED
    BY <2>1, Resets DEF SessionRecord
<1>2. CASE session.pc = "wait_firewall"
  <2>1. Answered(ok) = IF session.job = "rollback" THEN Ended("closed")
                       ELSE IF ok THEN [session EXCEPT !.pc = "verify"] ELSE Ended("failed")
    BY <1>2, Zenon DEF Answered
  <2> QED
    BY <2>1, Resets DEF SessionRecord
<1>3. CASE session.pc \notin {"wait", "wait_firewall"}
  <2>1. Answered(ok) = session
    BY <1>3, Zenon DEF Answered
  <2> QED
    BY <2>1
<1> QED
  BY <1>1, <1>2, <1>3

(* After its end no script is there. *)
LEMMA ExitEnds ==
  ASSUME TypesInv, NEW ok \in BOOLEAN, Exit(ok)
  PROVE  ~Alive' /\ ~Installing' /\ ScriptInv' /\ TypesInv'
BY Resets, AnsweredType DEF Exit, NoScript, Alive, Installing, ScriptInv, TypesInv

(* The first script of a session. *)
LEMMA FirstScript ==
  ScriptFor \in {"repair", "update", "install", "remove", "none"}
BY Zenon DEF ScriptFor

(* A script starts: an installation with what it found, any other unseen. *)
LEMMA LaunchStarts ==
  ASSUME IInv, UNCHANGED <<host, faults>>, NEW pc, NEW v \in Versions,
         NEW name \in Scripts, Launch(name, v, pc), pc \in {"wait", "wait_firewall"}
  PROVE  IInv' /\ [Promise!PromiseNext]_Seen
<1>1. /\ ~Alive /\ ~Installing
      /\ script' = [name |-> name, pc |-> FirstStep[name], armed |-> FALSE,
                    version |-> v, monitor |-> session.monitor,
                    found |-> [bin |-> host.bin, running |-> host.running,
                               bakBin |-> host.bakBin,
                               stray |-> host.running # Absent /\ ~host.unit]]
  BY DEF Launch, Installing
<1>2. HostInv' /\ TypesInv'
  <2>1. HostInv'
    BY DEF IInv, HostInv
  <2>2. session' \in SessionRecord
    BY DEF IInv, TypesInv, Launch, SessionRecord
  <2>3. FirstStep[name] \in Steps
    BY DEF FirstStep, Scripts, Steps
  <2>4. script' \in ScriptRecord
    BY <1>1, <2>3, HostFields DEF IInv, TypesInv, ScriptRecord, SessionRecord
  <2> QED
    BY <2>1, <2>2, <2>4 DEF TypesInv
<1>3. CASE name = "install"
  <2>1. script'.pc = "fetch" /\ script'.name = "install" /\ ~script'.armed
    BY <1>1, <1>3 DEF FirstStep
  <2>2. InstallInv'
    BY <1>1, <2>1, HostFields DEF InstallInv, InstallSteps, Untouched, IInv
  <2>3. Installing'
    BY <2>1 DEF Installing, Alive
  <2>4. Promise!Begin
    BY <1>1, <2>3, Distinct DEF Promise!Begin, Installed, Serving, Requested, Relic, Stray
  <2> QED
    BY <1>2, <2>1, <2>2, <2>4 DEF IInv, ScriptInv, Promise!PromiseNext
<1>4. CASE name # "install"
  <2>1. /\ script'.pc \in {"delegate", "unit", "stop", "allow", "unallow"}
        /\ script'.name # "install" /\ ~script'.armed
    BY <1>1, <1>4 DEF FirstStep, Scripts
  <2>2. OtherInv'
    BY <2>1 DEF OtherInv, At
  <2>3. ~Installing'
    BY <2>1 DEF Installing
  <2>4. UNCHANGED Seen
    BY <1>1, <2>3 DEF Seen, Installed, Serving, Requested, Relic, Stray
  <2> QED
    BY <1>2, <2>1, <2>2, <2>4 DEF IInv, ScriptInv
<1> QED
  BY <1>3, <1>4

(* A step that leaves the host alone and is no step of an installation.    *)
LEMMA UnseenStep ==
  ASSUME IInv, UNCHANGED <<host, faults>>, TypesInv',
         \/ UNCHANGED script
         \/ script.name # "install" /\ ~Alive'
         \/ /\ Alive /\ script.name # "install"
            /\ \E pc \in {"deny", "undeny", "start", "probe"} :
                 script' = [script EXCEPT !.pc = pc]
  PROVE  IInv' /\ UNCHANGED Seen
<1>1. HostInv'
  BY DEF IInv, HostInv
<1>2. CASE UNCHANGED script
  <2>1. ScriptInv'
    BY <1>2 DEF IInv, ScriptInv, Alive, InstallInv, OtherInv, Kept, At
  <2> QED
    BY <1>1, <1>2, <2>1 DEF IInv, Seen, Installed, Serving, Requested, Relic, Stray, Installing, Alive
<1>3. CASE script.name # "install" /\ ~Alive'
  BY <1>1, <1>3 DEF IInv, ScriptInv, Seen, Installed, Serving, Requested, Relic, Stray, Installing
<1>4. ASSUME Alive, script.name # "install",
             NEW pc \in {"deny", "undeny", "start", "probe"},
             script' = [script EXCEPT !.pc = pc]
      PROVE  IInv' /\ UNCHANGED Seen
  <2>1. /\ script'.pc = pc /\ script'.name = script.name /\ script'.armed = script.armed
        /\ OtherInv
    BY <1>4 DEF IInv, ScriptInv, TypesInv, ScriptRecord
  <2>2. OtherInv'
    BY <2>1 DEF OtherInv, At
  <2> QED
    BY <1>1, <1>4, <2>1, <2>2 DEF IInv, ScriptInv, Seen, Installed, Serving, Requested,
       Relic, Stray, Installing
<1> QED
  BY <1>2, <1>3, <1>4

-----------------------------------------------------------------------------
(* The steps of an installation.                                           *)

(* What is known at one of its commands. *)
LEMMA AtInstall ==
  ASSUME IInv, NEW pc \in InstallSteps, At("install", pc)
  PROVE  Installing /\ InstallInv /\ script.pc = pc /\ script \in ScriptRecord
BY DEF IInv, ScriptInv, TypesInv, At, Installing, Alive, InstallSteps

(* A command that succeeds is not seen, as the host counts as it was found. *)
LEMMA UnseenCommand ==
  ASSUME IInv, Installing, UNCHANGED <<session, faults>>, HostInv', InstallInv',
         NEW pc \in InstallSteps, NEW armed \in BOOLEAN,
         script' = [script EXCEPT !.pc = pc, !.armed = armed]
  PROVE  IInv' /\ UNCHANGED Seen
<1>1. /\ script' \in ScriptRecord /\ script'.name = "install" /\ script'.pc = pc
      /\ script'.version = script.version /\ script'.found = script.found
  BY DEF IInv, TypesInv, ScriptRecord, Installing, InstallSteps, Steps
<1>2. Installing'
  BY <1>1 DEF Installing, Alive, InstallSteps
<1> QED
  BY <1>1, <1>2 DEF IInv, TypesInv, ScriptInv, Seen, Installed, Serving, Requested, Relic, Stray

(* The same without a change of "armed". *)
LEMMA ThenCommand ==
  ASSUME IInv, Installing, UNCHANGED faults, NEW new, NEW pc \in InstallSteps,
         Then(new, pc), HostInv', InstallInv'
  PROVE  IInv' /\ UNCHANGED Seen
<1>1. script.armed \in BOOLEAN /\ script' = [script EXCEPT !.pc = pc, !.armed = script.armed]
  BY DEF Then, IInv, TypesInv, ScriptRecord
<1> QED
  BY <1>1, UnseenCommand DEF Then

(* Every command of the installer, in its order. *)
LEMMA InstallStep ==
  ASSUME IInv, Install
  PROVE  IInv' /\ [Promise!PromiseNext]_Seen
<1>0. HostInv /\ TypesInv /\ UNCHANGED faults
  BY DEF IInv, Install
<1> USE DEF InstallSteps, Untouched
<1>1. CASE At("install", "fetch") /\ Then(host, "backup_bin")
  <2>1. InstallInv
    BY <1>1, AtInstall
  <2>2. HostInv' /\ InstallInv'
    BY <1>0, <1>1, <2>1, AtInstall DEF Then, HostInv, InstallInv, ScriptRecord, Kept
  <2> QED
    BY <1>0, <1>1, <2>2, AtInstall, ThenCommand
<1>2. CASE At("install", "backup_bin") /\ Then(Backup, "backup_unit")
  <2>1. InstallInv
    BY <1>2, AtInstall
  <2>2. HostInv' /\ InstallInv'
    BY <1>0, <1>2, <2>1, AtInstall, HostFields
    DEF Then, Backup, HostInv, HostRecord, InstallInv, ScriptRecord, Kept
  <2> QED
    BY <1>0, <1>2, <2>2, AtInstall, ThenCommand
<1>3. CASE /\ At("install", "backup_unit")
           /\ Then([host EXCEPT !.bakUnit = @ \/ host.unit], "replace")
  <2>1. InstallInv
    BY <1>3, AtInstall
  <2>2. HostInv' /\ InstallInv'
    BY <1>0, <1>3, <2>1, AtInstall, HostFields
    DEF Then, HostInv, HostRecord, InstallInv, ScriptRecord, Kept
  <2> QED
    BY <1>0, <1>3, <2>2, AtInstall, ThenCommand
<1>4. CASE /\ At("install", "replace")
           /\ host' = [host EXCEPT !.bin = script.version]
           /\ script' = [script EXCEPT !.pc = "unit", !.armed = TRUE]
           /\ UNCHANGED <<rules, session>>
  <2>1. InstallInv
    BY <1>4, AtInstall
  <2>2. HostInv' /\ InstallInv'
    BY <1>0, <1>4, <2>1, AtInstall, HostFields
    DEF HostInv, HostRecord, Files, InstallInv, ScriptRecord, Kept
  <2> QED
    BY <1>0, <1>4, <2>2, AtInstall, UnseenCommand
<1>5. CASE At("install", "unit") /\ Then([host EXCEPT !.unit = TRUE], "start")
  <2>1. InstallInv
    BY <1>5, AtInstall
  <2>2. HostInv' /\ InstallInv'
    BY <1>0, <1>5, <2>1, AtInstall, HostFields
    DEF Then, HostInv, HostRecord, InstallInv, ScriptRecord, Kept
  <2> QED
    BY <1>0, <1>5, <2>2, AtInstall, ThenCommand
<1>6. CASE /\ At("install", "start") /\ Startable
           /\ Then([host EXCEPT !.running = Started], "probe")
  <2>1. InstallInv
    BY <1>6, AtInstall
  <2>2. HostInv' /\ InstallInv'
    BY <1>0, <1>6, <2>1, AtInstall, HostFields
    DEF Then, Started, Startable, HostInv, HostRecord, InstallInv, ScriptRecord, Kept
  <2> QED
    BY <1>0, <1>6, <2>2, AtInstall, ThenCommand
<1>7. CASE /\ At("install", "probe")
           /\ script' = [script EXCEPT !.pc = "clean", !.armed = FALSE]
           /\ UNCHANGED <<host, rules, session>>
  <2>1. InstallInv
    BY <1>7, AtInstall
  <2>2. HostInv' /\ InstallInv'
    BY <1>0, <1>7, <2>1, AtInstall DEF HostInv, InstallInv, ScriptRecord, Kept
  <2> QED
    BY <1>0, <1>7, <2>2, AtInstall, UnseenCommand
<1>8. CASE /\ At("install", "clean")
           /\ \E bin \in {host.bakBin, Absent}, unit \in {host.bakUnit, FALSE} :
                /\ host' = [host EXCEPT !.bakBin = bin, !.bakUnit = unit]
                /\ Exit(bin = Absent /\ ~unit)
  <2>0. PICK bin \in {host.bakBin, Absent}, unit \in {host.bakUnit, FALSE} :
          /\ host' = [host EXCEPT !.bakBin = bin, !.bakUnit = unit]
          /\ Exit(bin = Absent /\ ~unit)
    BY <1>8
  <2>1. Installing /\ InstallInv /\ script.pc = "clean"
    BY <1>8, AtInstall
  <2>2. HostInv'
    BY <1>0, <2>0, HostFields DEF HostInv, HostRecord, Files
  <2>3. ~Installing' /\ ScriptInv' /\ TypesInv'
    <3>1. (bin = Absent /\ ~unit) \in BOOLEAN
      OBVIOUS
    <3> QED
      BY <1>0, <2>0, <3>1, ExitEnds
  <2>4. /\ host'.bin = script.version /\ host'.bakBin \in {Kept, Absent} /\ host'.unit
        /\ host'.running = IF script.found.running = Absent THEN script.version
                           ELSE script.found.running
    BY <1>0, <2>0, <2>1 DEF HostInv, HostRecord, InstallInv
  <2>5. Promise!Commit
    BY <1>0, <2>1, <2>3, <2>4, Distinct
    DEF Promise!Commit, Installed, Serving, Requested, Relic, Stray, InstallInv, Kept
  <2> QED
    BY <2>2, <2>3, <2>5 DEF IInv, Promise!PromiseNext
<1>9. CASE /\ At("install", "undo_stop")
           /\ \E left \in {host.running, Absent} :
                Then([host EXCEPT !.running = left], "undo_files")
  <2>0. PICK left \in {host.running, Absent} :
          Then([host EXCEPT !.running = left], "undo_files")
    BY <1>9
  <2>1. InstallInv
    BY <1>9, AtInstall
  <2>2. HostInv' /\ InstallInv'
    BY <1>0, <1>9, <2>0, <2>1, AtInstall, HostFields
    DEF Then, HostInv, HostRecord, InstallInv, ScriptRecord, Kept
  <2> QED
    BY <1>0, <1>9, <2>0, <2>2, AtInstall, ThenCommand
<1>10. CASE At("install", "undo_files") /\ Then(Restored, "undo_start")
  <2>1. InstallInv
    BY <1>10, AtInstall
  <2>2. HostInv' /\ InstallInv'
    BY <1>0, <1>10, <2>1, AtInstall, HostFields
    DEF Then, Restored, HostInv, HostRecord, InstallInv, ScriptRecord, Kept
  <2> QED
    BY <1>0, <1>10, <2>2, AtInstall, ThenCommand
<1>11. CASE /\ At("install", "undo_start")
            /\ host' = IF Startable THEN [host EXCEPT !.running = Started] ELSE host
            /\ Exit(FALSE)
  <2>1. Installing /\ InstallInv /\ script.pc = "undo_start"
    BY <1>11, AtInstall
  <2>2. ~Installing' /\ ScriptInv' /\ TypesInv'
    BY <1>0, <1>11, ExitEnds
  <2>3. /\ host.bin = Kept /\ host.bakBin = Kept
        /\ host.running \in {script.found.running, script.version, Absent}
        /\ script.found.running # Absent /\ ~script.found.stray => host.unit
    BY <2>1 DEF InstallInv
  <2>4. /\ HostInv' /\ host'.bin = Kept /\ host'.bakBin = Kept
        /\ host'.running = IF Startable /\ host.running = Absent THEN Kept ELSE host.running
        /\ host'.unit = host.unit
    BY <1>0, <1>11, <2>3 DEF HostInv, HostRecord, Started, Startable
  <2>5. Promise!Abort
    BY <1>0, <2>1, <2>2, <2>3, <2>4, Distinct
    DEF Promise!Abort, Installed, Serving, Requested, Relic, Stray, InstallInv, Kept, Startable
  <2> QED
    BY <2>2, <2>4, <2>5 DEF IInv, Promise!PromiseNext
<1> QED
  BY <1>1, <1>2, <1>3, <1>4, <1>5, <1>6, <1>7, <1>8, <1>9, <1>10, <1>11 DEF Install

(* A script that ends without a change of the host by a fault, or fails    *)
(* with nothing to undo: the promise breaks, or the installation aborts.   *)
LEMMA FailureStep ==
  ASSUME IInv, Fails \/ Unrecovered \/ Kill
  PROVE  IInv' /\ [Promise!PromiseNext]_Seen
<1>0. HostInv /\ TypesInv
  BY DEF IInv
<1>1. CASE Unrecovered \/ Kill
  <2>1. ~Installing' /\ ScriptInv' /\ TypesInv'
    BY <1>0, <1>1, ExitEnds DEF Unrecovered, Kill
  <2>2. HostInv'
    BY <1>0, <1>1, HostFields DEF Unrecovered, Kill, HostInv, HostRecord, Files
  <2>3. Promise!Break
    BY <1>1, <2>1 DEF Unrecovered, Kill, Promise!Break, Requested
  <2> QED
    BY <2>1, <2>2, <2>3 DEF IInv, Promise!PromiseNext
<1>2. CASE Fails /\ script.armed
  <2>1. /\ Installing /\ InstallInv /\ UNCHANGED <<host, faults, session>>
        /\ script' = [script EXCEPT !.pc = "undo_stop"]
    <3>1. Alive
      BY <1>2 DEF Fails, Alive
    <3> QED
      BY <1>2, <3>1 DEF Fails, OnError, IInv, ScriptInv, OtherInv, Installing
  <2>2. script' = [script EXCEPT !.pc = "undo_stop", !.armed = TRUE]
    BY <1>0, <1>2, <2>1 DEF TypesInv, ScriptRecord
  <2>3. HostInv' /\ InstallInv'
    <3>1. HostInv'
      BY <1>0, <2>1 DEF HostInv
    <3>2. /\ script'.pc = "undo_stop" /\ script'.armed = TRUE
          /\ script'.found = script.found /\ script'.version = script.version
      BY <1>0, <2>2 DEF TypesInv, ScriptRecord
    <3>3. script.pc \in {"unit", "start", "probe"}
      BY <1>2, <2>1 DEF InstallInv, Fails, InstallSteps, Untouched
    <3> QED
      BY <2>1, <3>1, <3>2, <3>3 DEF InstallInv, Kept, InstallSteps, Untouched
  <2> QED
    BY <2>1, <2>2, <2>3, UnseenCommand DEF InstallSteps
<1>3. CASE Fails /\ ~script.armed
  <2>1. Exit(FALSE) /\ UNCHANGED <<host, faults>>
    BY <1>3 DEF Fails, OnError
  <2>2. ~Alive' /\ ~Installing' /\ ScriptInv' /\ TypesInv'
    BY <1>0, <2>1, ExitEnds
  <2>3. HostInv'
    BY <1>0, <2>1 DEF HostInv
  <2>4. CASE Installing
    <3>1. /\ InstallInv /\ script.pc \in Untouched
      BY <1>3, <2>4 DEF IInv, ScriptInv, Installing, InstallInv, Fails, InstallSteps, Untouched
    <3>2. Promise!Abort
      BY <2>1, <2>2, <2>4, <3>1, Distinct
      DEF Promise!Abort, Installed, Serving, Requested, Relic, Stray, InstallInv, Kept, Untouched
    <3> QED
      BY <2>2, <2>3, <3>2 DEF IInv, Promise!PromiseNext
  <2>5. CASE ~Installing
    BY <2>1, <2>2, <2>3, <2>5 DEF IInv, Seen, Installed, Serving, Requested, Relic, Stray
  <2> QED
    BY <2>4, <2>5
<1> QED
  BY <1>1, <1>2, <1>3

-----------------------------------------------------------------------------
(* The other scripts and the session.                                      *)

(* The repair starts what is installed if nothing serves. *)
LEMMA RepairStep ==
  ASSUME IInv, Repair
  PROVE  IInv' /\ [Promise!PromiseNext]_Seen
<1>0. HostInv /\ TypesInv /\ UNCHANGED faults
  BY DEF IInv, Repair
<1>1. /\ script.name = "repair" /\ Alive /\ ~Installing /\ OtherInv
  BY DEF Repair, At, Alive, Installing, IInv, ScriptInv
<1>2. ASSUME NEW new, NEW pc \in {"start", "probe"}, Then(new, pc), HostInv'
      PROVE  IInv' /\ ~Installing'
  <2>1. /\ script' \in ScriptRecord /\ script'.name = "repair"
        /\ script'.pc = pc /\ script'.armed = script.armed
    BY <1>0, <1>1, <1>2 DEF Then, TypesInv, ScriptRecord, Steps
  <2>2. OtherInv' /\ TypesInv'
    BY <1>0, <1>1, <1>2, <2>1 DEF OtherInv, At, TypesInv, Then
  <2> QED
    BY <1>2, <2>1, <2>2 DEF IInv, ScriptInv, Installing
<1>3. CASE /\ At("repair", "unit") /\ host.bin # Absent
           /\ Then([host EXCEPT !.unit = TRUE], "start")
  <2>1. HostInv' /\ host'.bin = host.bin /\ host'.running = host.running
        /\ host'.bakBin = host.bakBin
    BY <1>0, <1>3 DEF Then, HostInv, HostRecord
  <2>2. host.bin # Absent /\ host'.unit
    BY <1>0, <1>3 DEF Then, HostInv, HostRecord
  <2>4. IInv' /\ ~Installing'
    BY <1>2, <1>3, <2>1
  <2>3. Promise!Restart
    BY <1>0, <1>1, <2>1, <2>2, <2>4
    DEF Promise!Restart, Installed, Serving, Requested, Relic, Stray
  <2> QED
    BY <2>3, <2>4 DEF Promise!PromiseNext
<1>4. CASE At("repair", "start") /\ Startable /\ Then(Repaired, "probe")
  <2>1. /\ HostInv' /\ host'.bin = host.bin /\ host'.bakBin = host.bakBin
        /\ host.bin \in Versions /\ host.unit /\ host'.unit
        /\ host'.running = IF host.running = Absent THEN host.bin ELSE host.running
    BY <1>0, <1>4 DEF Then, Repaired, Started, Startable, HostInv, HostRecord
  <2>2. IInv' /\ ~Installing'
    BY <1>2, <1>4, <2>1
  <2>3. CASE host.running = Absent
    <3>1. Promise!Restart
      BY <1>0, <1>1, <2>1, <2>2, <2>3, Distinct
      DEF Promise!Restart, Installed, Serving, Requested, Relic, Stray
    <3> QED
      BY <2>2, <3>1 DEF Promise!PromiseNext
  <2>4. CASE host.running # Absent
    BY <1>0, <1>1, <2>1, <2>2, <2>4 DEF Seen, Installed, Serving, Requested, Relic, Stray
  <2> QED
    BY <2>3, <2>4
<1>5. CASE At("repair", "probe") /\ Exit(TRUE) /\ UNCHANGED host
  BY <1>0, <1>1, <1>5, ExitEnds, UnseenStep
<1> QED
  BY <1>3, <1>4, <1>5 DEF Repair

(* The removal stops the exporter and deletes it, in that order, or leaves *)
(* what a command fails to stop or to delete.                              *)
LEMMA RemovalStep ==
  ASSUME IInv, Removal
  PROVE  IInv' /\ [Promise!PromiseNext]_Seen
<1>0. HostInv /\ TypesInv /\ UNCHANGED faults
  BY DEF IInv, Removal
<1>1. /\ script.name = "remove" /\ Alive /\ ~Installing /\ OtherInv
  BY DEF Removal, At, Alive, Installing, IInv, ScriptInv
<1>2. ASSUME NEW left \in {host.running, Absent}, At("remove", "stop"),
             Then([host EXCEPT !.running = left], "rm")
      PROVE  IInv' /\ [Promise!PromiseNext]_Seen
  <2>1. /\ HostInv' /\ host'.bin = host.bin /\ host'.running = left
        /\ host'.bakBin = host.bakBin /\ host'.unit = host.unit
    BY <1>0, <1>2, HostFields DEF Then, HostInv, HostRecord
  <2>2. /\ script' \in ScriptRecord /\ script'.name = "remove"
        /\ script'.pc = "rm" /\ script'.armed = script.armed
    BY <1>0, <1>1, <1>2 DEF Then, TypesInv, ScriptRecord, Steps
  <2>3. OtherInv' /\ TypesInv' /\ ~Installing'
    BY <1>0, <1>1, <1>2, <2>2 DEF OtherInv, TypesInv, Then, Installing
  <2>4. Promise!Remove
    BY <1>0, <1>1, <2>1, <2>3
    DEF Promise!Remove, Installed, Serving, Requested, Relic, Stray
  <2> QED
    BY <2>1, <2>2, <2>3, <2>4 DEF IInv, ScriptInv, Promise!PromiseNext
<1>3. ASSUME NEW bin \in {host.bin, Absent}, NEW unit \in {host.unit, FALSE},
             NEW ok \in BOOLEAN, Exit(ok),
             host' = [host EXCEPT !.bin = bin, !.unit = unit]
      PROVE  IInv' /\ [Promise!PromiseNext]_Seen
  <2>1. /\ HostInv' /\ host'.bin = bin /\ host'.running = host.running
        /\ host'.bakBin = host.bakBin /\ host'.unit = unit
    BY <1>0, <1>3, HostFields DEF HostInv, HostRecord, Files
  <2>2. ~Installing' /\ ScriptInv' /\ TypesInv'
    BY <1>0, <1>3, ExitEnds
  <2>3. Promise!Remove
    BY <1>0, <1>1, <2>1, <2>2
    DEF Promise!Remove, Installed, Serving, Requested, Relic, Stray
  <2> QED
    BY <2>1, <2>2, <2>3 DEF IInv, Promise!PromiseNext
<1> QED
  BY <1>2, <1>3 DEF Removal

(* The update and the firewall script leave the exporter alone. *)
LEMMA FirewallStep ==
  ASSUME IInv, Update \/ Configure \/ Unconfigure
  PROVE  IInv' /\ UNCHANGED Seen
<1>0. TypesInv /\ UNCHANGED <<host, faults>>
  BY DEF IInv, Update, Configure, Unconfigure
<1>1. script.name # "install" /\ Alive
  BY DEF Update, Configure, Unconfigure, At, Alive
<1>2. \/ Exit(TRUE) \/ Exit(FALSE)
      \/ UNCHANGED session /\ script' = [script EXCEPT !.pc = "deny"]
      \/ UNCHANGED session /\ script' = [script EXCEPT !.pc = "undeny"]
  <2>1. (backend.kind = "nft") \in BOOLEAN
    OBVIOUS
  <2> QED
    BY <2>1 DEF Update, Configure, Unconfigure
<1>3. CASE Exit(TRUE) \/ Exit(FALSE)
  BY <1>0, <1>1, <1>3, ExitEnds, UnseenStep
<1>4. ASSUME NEW pc \in {"deny", "undeny"}, UNCHANGED session,
             script' = [script EXCEPT !.pc = pc]
      PROVE  IInv' /\ UNCHANGED Seen
  <2>1. TypesInv'
    BY <1>0, <1>4 DEF TypesInv, ScriptRecord, Steps
  <2> QED
    BY <1>0, <1>1, <1>4, <2>1, UnseenStep
<1> QED
  BY <1>2, <1>3, <1>4

(* A session opens, waits, verifies and gives up without touching a host,  *)
(* and who meddles with its rules does not touch the exporter.             *)
LEMMA SessionStep ==
  ASSUME IInv, OpenSession \/ LeaveExporter \/ Verify \/ GiveUp \/ Meddle
  PROVE  IInv' /\ UNCHANGED Seen
<1>1. UNCHANGED <<host, script, faults>>
  BY DEF OpenSession, LeaveExporter, Verify, GiveUp, Meddle
<1>2. session' \in SessionRecord
  <2>1. CASE OpenSession
    BY <2>1, HostAssumption DEF OpenSession, SessionRecord
  <2>2. CASE LeaveExporter
    BY <2>2 DEF LeaveExporter, IInv, TypesInv, SessionRecord
  <2>3. CASE Verify
    BY <2>3, Resets DEF Verify, IInv, TypesInv
  <2>4. CASE GiveUp
    BY <2>4, Resets DEF GiveUp, IInv, TypesInv
  <2>5. CASE Meddle
    BY <2>5 DEF Meddle, IInv, TypesInv
  <2> QED
    BY <2>1, <2>2, <2>3, <2>4, <2>5
<1>3. TypesInv'
  BY <1>1, <1>2 DEF IInv, TypesInv
<1> QED
  BY <1>1, <1>3, UnseenStep

(* A session uploads a script and starts it. *)
LEMMA RunStep ==
  ASSUME IInv, RunScript \/ RunFirewallScript
  PROVE  IInv' /\ [Promise!PromiseNext]_Seen
<1>1. CASE RunScript
  <2>1. ScriptFor \in Scripts
    BY <1>1, FirstScript DEF RunScript, Scripts
  <2>2. PICK v \in Versions : Launch(ScriptFor, v, "wait")
    BY <1>1, HostAssumption DEF RunScript
  <2> QED
    BY <1>1, <2>1, <2>2, LaunchStarts DEF RunScript
<1>2. CASE RunFirewallScript
  <2>1. NoVersion \in Versions
    BY HostAssumption DEF NoVersion
  <2> QED
    BY <1>2, <2>1, LaunchStarts DEF RunFirewallScript, Scripts
<1> QED
  BY <1>1, <1>2

(* Every step keeps the invariant, and is a step of the promise or unseen. *)
LEMMA StepKeepsPromise == IInv /\ [HostNext]_hostVars => IInv' /\ [Promise!PromiseNext]_Seen
<1> SUFFICES ASSUME IInv, [HostNext]_hostVars
             PROVE  IInv' /\ [Promise!PromiseNext]_Seen
  OBVIOUS
<1>1. CASE UNCHANGED hostVars
  <2>1. TypesInv'
    BY <1>1 DEF hostVars, IInv, TypesInv
  <2> QED
    BY <1>1, <2>1, UnseenStep DEF hostVars
<1> QED
  BY <1>1, InstallStep, FailureStep, RepairStep, RemovalStep, FirewallStep, SessionStep,
     RunStep DEF HostNext

(* The invariant, and the initial states of the promise. *)
LEMMA InitKeepsPromise == HostInit => IInv /\ Promise!PromiseInit
<1> SUFFICES ASSUME HostInit PROVE IInv /\ Promise!PromiseInit
  OBVIOUS
<1>1. /\ host \in HostRecord /\ host.bakBin = Absent
      /\ host.bin \in Versions \cup {Absent} /\ host.running \in {host.bin, Absent}
      /\ host.running # Absent => host.unit
  <2>1. PICK bin \in Versions \cup {Absent}, unit \in BOOLEAN,
             running \in Versions \cup {Absent} :
          /\ host = [bin |-> bin, unit |-> unit, bakBin |-> Absent,
                     bakUnit |-> FALSE, running |-> running]
          /\ running \in {bin, Absent} /\ (running # Absent => unit)
    <3>1. CASE host = Bare
      BY <3>1 DEF Bare
    <3>2. ASSUME NEW v \in Versions, host = [Bare EXCEPT !.bin = v]
          PROVE  host = [bin |-> v, unit |-> FALSE, bakBin |-> Absent,
                         bakUnit |-> FALSE, running |-> Absent]
      BY <3>2 DEF Bare
    <3>3. ASSUME NEW v \in Versions, NEW r \in {v, Absent},
                 host = [Bare EXCEPT !.bin = v, !.unit = TRUE, !.running = r]
          PROVE  host = [bin |-> v, unit |-> TRUE, bakBin |-> Absent,
                         bakUnit |-> FALSE, running |-> r]
      BY <3>3 DEF Bare
    <3>4. \/ host = Bare
          \/ \E v \in Versions : host = [Bare EXCEPT !.bin = v]
          \/ \E v \in Versions : \E r \in {v, Absent} :
                host = [Bare EXCEPT !.bin = v, !.unit = TRUE, !.running = r]
      <4> DEFINE With(v) ==
            {[Bare EXCEPT !.bin = v, !.unit = TRUE, !.running = r] : r \in {v, Absent}}
      <4>1. host \in {Bare} \cup {[Bare EXCEPT !.bin = v] : v \in Versions}
                  \cup UNION {With(v) : v \in Versions}
        BY DEF HostInit, Hosts
      <4>2. ASSUME NEW v \in Versions, host \in With(v)
            PROVE  \E r \in {v, Absent} :
                      host = [Bare EXCEPT !.bin = v, !.unit = TRUE, !.running = r]
        BY <4>2
      <4> HIDE DEF With
      <4>3. \/ host = Bare
            \/ \E v \in Versions : host = [Bare EXCEPT !.bin = v]
            \/ \E v \in Versions : host \in With(v)
        BY <4>1, Zenon
      <4> QED
        BY <4>2, <4>3
    <3> QED
      BY <3>1, <3>2, <3>3, <3>4
  <2> QED
    BY <2>1 DEF HostRecord, Files
<1>2. ~Alive /\ ~Installing
  BY DEF HostInit, NoScript, Alive, Installing
<1>3. IInv
  BY <1>1, <1>2, Resets DEF HostInit, IInv, HostInv, TypesInv, ScriptInv
<1>4. Promise!PromiseInit
  BY <1>1, <1>2 DEF HostInit, Promise!PromiseInit, Installed, Serving, Requested, Relic, Stray
<1> QED
  BY <1>3, <1>4

(* The scripts, their traps and the sessions that start them and give up   *)
(* implement the promise: an installation takes place whole or leaves what *)
(* there was, whichever command of its main part fails.  What the scripts  *)
(* do not undo is said in the promise: a stop or a delete whose failure    *)
(* "|| true" hides, and a failure inside the EXIT trap.                    *)
THEOREM PromiseKept == HostSpec => KeepsPromise
<1>1. IInv /\ [HostNext]_hostVars => [Promise!PromiseNext]_Promise!promise
  BY StepKeepsPromise DEF Seen, Promise!promise
<1> QED
  BY <1>1, InitKeepsPromise, StepKeepsPromise, PTL
  DEF HostSpec, KeepsPromise, Promise!PromiseSpec

-----------------------------------------------------------------------------
(* Rules in their order.                                                   *)

(* A rule put in its place pushes the ones after it down. *)
LEMMA InsertedRule ==
  ASSUME NEW S, NEW s \in Seq(S), NEW k \in 1 .. Len(s) + 1, NEW e \in S
  PROVE  /\ InsertAt(s, k, e) \in Seq(S) /\ Len(InsertAt(s, k, e)) = Len(s) + 1
         /\ \A i \in 1 .. Len(s) + 1 :
              InsertAt(s, k, e)[i] = IF i < k THEN s[i] ELSE IF i = k THEN e ELSE s[i - 1]
<1> DEFINE a == SubSeq(s, 1, k - 1)
           c == SubSeq(s, k, Len(s))
<1>1. Len(s) \in Nat /\ k \in Nat /\ k >= 1 /\ k <= Len(s) + 1
      /\ \A i \in 1 .. Len(s) : s[i] \in S
  BY LenProperties
<1>2. a \in Seq(S) /\ Len(a) = k - 1 /\ \A i \in 1 .. k - 1 : a[i] = s[i]
  <2>1. \A i \in 1 .. k - 1 : s[i] \in S
    BY <1>1
  <2> QED
    BY <1>1, <2>1, SubSeqProperties
<1>3. /\ c \in Seq(S) /\ Len(c) = Len(s) - k + 1
      /\ \A i \in 1 .. Len(s) - k + 1 : c[i] = s[k + i - 1]
  <2>1. \A i \in k .. Len(s) : s[i] \in S
    BY <1>1
  <2> QED
    BY <1>1, <2>1, SubSeqProperties
<1>4. <<e>> \in Seq(S) /\ Len(<<e>>) = 1 /\ <<e>>[1] = e
  OBVIOUS
<1> HIDE DEF a, c
<1> DEFINE b == a \o <<e>>
<1>5. /\ b \in Seq(S) /\ Len(b) = k
      /\ \A i \in 1 .. k : b[i] = IF i <= k - 1 THEN a[i] ELSE <<e>>[i - (k - 1)]
  BY <1>1, <1>2, <1>4, ConcatProperties
<1>6. InsertAt(s, k, e) = b \o c
  BY DEF InsertAt, a, c
<1> HIDE DEF b
<1>7. /\ b \o c \in Seq(S) /\ Len(b \o c) = Len(s) + 1
      /\ \A i \in 1 .. Len(s) + 1 : (b \o c)[i] = IF i <= k THEN b[i] ELSE c[i - k]
  <2>1. Len(b) + Len(c) = Len(s) + 1
    BY <1>1, <1>3, <1>5
  <2>2. /\ b \o c \in Seq(S) /\ Len(b \o c) = Len(b) + Len(c)
        /\ \A i \in 1 .. Len(b) + Len(c) :
             (b \o c)[i] = IF i <= Len(b) THEN b[i] ELSE c[i - Len(b)]
    BY <1>3, <1>5, ConcatProperties
  <2> QED
    BY <1>5, <2>1, <2>2
<1>8. ASSUME NEW i \in 1 .. Len(s) + 1
      PROVE  InsertAt(s, k, e)[i] = IF i < k THEN s[i] ELSE IF i = k THEN e ELSE s[i - 1]
  <2>1. CASE i < k
    <3>1. i \in 1 .. k /\ i \in 1 .. k - 1 /\ i <= k /\ i <= k - 1
      BY <1>1, <2>1
    <3> QED
      BY <1>2, <1>5, <1>7, <1>6, <2>1, <3>1
  <2>2. CASE i = k
    <3>1. i \in 1 .. k /\ i <= k /\ ~(i <= k - 1) /\ i - (k - 1) = 1
      BY <1>1, <2>2
    <3> QED
      BY <1>4, <1>5, <1>7, <1>6, <2>2, <3>1
  <2>3. CASE i > k
    <3>1. ~(i <= k) /\ i - k \in 1 .. Len(s) - k + 1 /\ k + (i - k) - 1 = i - 1
      BY <1>1, <2>3
    <3>2. c[i - k] = s[i - 1]
      BY <1>3, <3>1
    <3>3. InsertAt(s, k, e)[i] = s[i - 1]
      BY <1>7, <1>6, <3>1, <3>2
    <3>4. ~(i < k) /\ i # k
      BY <1>1, <2>3
    <3> QED
      BY <3>3, <3>4
  <2> QED
    BY <1>1, <2>1, <2>2, <2>3
<1> QED
  BY <1>7, <1>6, <1>8

(* A set of numbers that is not empty has a least one, and Min is it. *)
LEMMA LeastNumber ==
  ASSUME NEW T \in SUBSET Nat, T # {}
  PROVE  Min(T) \in T /\ \A n \in T : Min(T) <= n
<1> DEFINE R == {ss \in Nat \X Nat : ss[1] < ss[2]}
<1>1. IsWellFoundedOn(R, Nat)
  BY NatLessThanWellFounded DEF OpToRel
<1> HIDE DEF R
<1>2. PICK m \in T : \A n \in T : ~(<<n, m>> \in R)
  BY <1>1, WFMin
<1>3. ASSUME NEW n \in T PROVE m <= n
  <2>1. n \in Nat /\ m \in Nat
    OBVIOUS
  <2>2. ~(n < m)
    BY <1>2, <2>1 DEF R
  <2> QED
    BY <2>1, <2>2
<1> QED
  BY <1>3 DEF Min

(* The first rule of a kind, and the rules without it. *)
PlaceOf(s, e) == Min({i \in 1 .. Len(s) : s[i] = e})

LEMMA RemovedRule ==
  ASSUME NEW S, NEW s \in Seq(S), NEW e, \E i \in 1 .. Len(s) : s[i] = e
  PROVE  /\ PlaceOf(s, e) \in 1 .. Len(s) /\ s[PlaceOf(s, e)] = e
         /\ \A i \in 1 .. PlaceOf(s, e) - 1 : s[i] # e
         /\ RemoveFirst(s, e) \in Seq(S) /\ Len(RemoveFirst(s, e)) = Len(s) - 1
         /\ \A i \in 1 .. Len(s) - 1 :
              RemoveFirst(s, e)[i] = IF i < PlaceOf(s, e) THEN s[i] ELSE s[i + 1]
<1> DEFINE T == {i \in 1 .. Len(s) : s[i] = e}
           k == PlaceOf(s, e)
           a == SubSeq(s, 1, k - 1)
           c == SubSeq(s, k + 1, Len(s))
<1>1. Len(s) \in Nat /\ \A i \in 1 .. Len(s) : s[i] \in S
  BY LenProperties
<1>2. k \in T /\ \A n \in T : k <= n
  <2>1. T \in SUBSET Nat /\ T # {}
    BY <1>1
  <2>2. k = Min(T)
    BY DEF PlaceOf
  <2> HIDE DEF T, k
  <2> QED
    BY <2>1, <2>2, LeastNumber
<1>3. RemoveFirst(s, e) = a \o c
  <2>1. SelectInSeq(s, LAMBDA v : v = e) = k
    BY <1>2 DEF SelectInSeq, PlaceOf
  <2> QED
    BY <2>1 DEF RemoveFirst, RemoveAt
<1> HIDE DEF k
<1>4. k \in 1 .. Len(s) /\ s[k] = e /\ \A i \in 1 .. k - 1 : s[i] # e
  BY <1>1, <1>2
<1>5. a \in Seq(S) /\ Len(a) = k - 1 /\ \A i \in 1 .. k - 1 : a[i] = s[i]
  <2>1. \A i \in 1 .. k - 1 : s[i] \in S
    BY <1>1, <1>4
  <2> QED
    BY <1>1, <1>4, <2>1, SubSeqProperties
<1>6. /\ c \in Seq(S) /\ Len(c) = Len(s) - k
      /\ \A i \in 1 .. Len(s) - k : c[i] = s[k + i]
  <2>1. \A i \in k + 1 .. Len(s) : s[i] \in S
    BY <1>1, <1>4
  <2>2. /\ c \in Seq(S) /\ Len(c) = IF k + 1 <= Len(s) THEN Len(s) - (k + 1) + 1 ELSE 0
        /\ \A i \in 1 .. Len(s) - (k + 1) + 1 : c[i] = s[(k + 1) + i - 1]
    BY <1>1, <1>4, <2>1, SubSeqProperties
  <2> QED
    BY <1>1, <1>4, <2>2
<1> HIDE DEF a, c
<1>7. /\ a \o c \in Seq(S) /\ Len(a \o c) = Len(s) - 1
      /\ \A i \in 1 .. Len(s) - 1 : (a \o c)[i] = IF i <= k - 1 THEN a[i] ELSE c[i - (k - 1)]
  <2>1. Len(a) + Len(c) = Len(s) - 1
    BY <1>1, <1>4, <1>5, <1>6
  <2>2. /\ a \o c \in Seq(S) /\ Len(a \o c) = Len(a) + Len(c)
        /\ \A i \in 1 .. Len(a) + Len(c) :
             (a \o c)[i] = IF i <= Len(a) THEN a[i] ELSE c[i - Len(a)]
    BY <1>5, <1>6, ConcatProperties
  <2> QED
    BY <1>5, <2>1, <2>2
<1>8. ASSUME NEW i \in 1 .. Len(s) - 1
      PROVE  (a \o c)[i] = IF i < k THEN s[i] ELSE s[i + 1]
  <2>1. CASE i < k
    BY <1>1, <1>4, <1>5, <1>7, <2>1
  <2>2. CASE ~(i < k)
    <3>1. i - (k - 1) \in 1 .. Len(s) - k /\ k + (i - (k - 1)) = i + 1 /\ ~(i <= k - 1)
      BY <1>1, <1>4, <2>2
    <3>2. c[i - (k - 1)] = s[i + 1]
      BY <1>6, <3>1
    <3> QED
      BY <1>7, <2>2, <3>1, <3>2
  <2> QED
    BY <2>1, <2>2
<1> QED
  BY <1>3, <1>4, <1>7, <1>8 DEF k

-----------------------------------------------------------------------------
(* The firewall.                                                           *)

Rule == Monitors \cup {Deny} \cup Foreign

\* Rules of others are there only in a firewall that is shared, and behind
\* those of SuperFlash unless somebody has put one in front.
RulesInv ==
    /\ backend \in Backends /\ rules \in Seq(Rule) /\ overruled \in BOOLEAN
    /\ ~Shared => ~overruled /\ \A i \in 1 .. Len(rules) : rules[i] \notin Foreign
    /\ ~overruled => \A i, j \in 1 .. Len(rules) :
          i < j /\ rules[i] \in Foreign => rules[j] \in Foreign

\* A session that waits for a configuration waits for its own; at its second
\* command the first rule is there; when it has ended well both are, and no
\* script is left to touch them.
ConfigInv ==
    /\ session.pc = "wait_firewall" /\ session.job # "rollback" =>
          script.name = "configure" /\ script.monitor = session.monitor
    /\ At("configure", "deny") => Contains(rules, script.monitor)
    /\ session.pc \in {"verify", "confirmed"} =>
          ~Alive /\ Contains(rules, session.monitor) /\ DenyThere

FirewallInv == TypesInv /\ RulesInv /\ ConfigInv

(* A monitor's address is no other kind of rule. *)
LEMMA DistinctRules ==
  /\ Deny \notin Monitors /\ Deny \notin Foreign /\ Foreign \cap Monitors = {}
  /\ Open # Shut /\ Open \in Foreign /\ Shut \in Foreign
  /\ Outsider \notin Monitors \cup {Deny} \cup Foreign
BY HostAssumption DEF Deny, Open, Shut, Foreign

(* The kinds of firewall. *)
LEMMA Kinds ==
  ASSUME RulesInv
  PROVE  /\ backend.kind \in {"ufw", "iptables", "nft", "none"}
         /\ Shared <=> backend.kind \in {"ufw", "iptables"}
BY DEF RulesInv, Backends, Shared

(* A rule put into the list, place by place. *)
LEMMA InsertedPlaces ==
  \A k \in 1 .. Len(rules) + 1, r \in Rule : rules \in Seq(Rule) =>
    /\ InsertAt(rules, k, r) \in Seq(Rule) /\ Len(InsertAt(rules, k, r)) = Len(rules) + 1
    /\ \A i \in 1 .. Len(rules) + 1 :
         InsertAt(rules, k, r)[i] =
            IF i < k THEN rules[i] ELSE IF i = k THEN r ELSE rules[i - 1]
<1> SUFFICES ASSUME NEW k \in 1 .. Len(rules) + 1, NEW r \in Rule, rules \in Seq(Rule)
             PROVE  /\ InsertAt(rules, k, r) \in Seq(Rule)
                    /\ Len(InsertAt(rules, k, r)) = Len(rules) + 1
                    /\ \A i \in 1 .. Len(rules) + 1 :
                         InsertAt(rules, k, r)[i] =
                            IF i < k THEN rules[i] ELSE IF i = k THEN r ELSE rules[i - 1]
  OBVIOUS
<1> QED
  BY InsertedRule

(* A rule of SuperFlash's put at the front, or behind another one of its   *)
(* own, has no rule of somebody else before it.                            *)
LEMMA InsertedManaged ==
  ASSUME RulesInv, UNCHANGED <<backend, overruled>>, Shared,
         NEW r \in Monitors \cup {Deny}, NEW k \in 1 .. 2, k <= Len(rules) + 1,
         k = 2 => rules[1] \notin Foreign \/ overruled,
         rules' = InsertAt(rules, k, r)
  PROVE  RulesInv' /\ Contains(rules', r)
         /\ \A e : Contains(rules, e) => Contains(rules', e)
<1>1. /\ rules \in Seq(Rule) /\ r \in Rule /\ r \notin Foreign /\ Len(rules) \in Nat
      /\ k \in 1 .. Len(rules) + 1
  BY LenProperties, DistinctRules DEF RulesInv, Rule
<1>0. rules \in Seq(Rule) /\ r \in Rule /\ k \in 1 .. Len(rules) + 1
  BY <1>1
<1> DEFINE more == InsertAt(rules, k, r)
<1>2. /\ more \in Seq(Rule) /\ Len(more) = Len(rules) + 1
      /\ \A i \in 1 .. Len(rules) + 1 :
           more[i] = IF i < k THEN rules[i] ELSE IF i = k THEN r ELSE rules[i - 1]
  BY <1>0, InsertedPlaces, Zenon
<1> HIDE DEF more
<1>3. ASSUME ~overruled, NEW i \in 1 .. Len(more), NEW j \in 1 .. Len(more), i < j,
             more[i] \in Foreign
      PROVE  more[j] \in Foreign
  <2>1. i # k /\ ~(i < k)
    <3>1. i # k
      BY <1>1, <1>2, <1>3
    <3>2. ~(i < k)
      BY <1>1, <1>2, <1>3
    <3> QED
      BY <3>1, <3>2
  <2>2. /\ i - 1 \in 1 .. Len(rules) /\ j - 1 \in 1 .. Len(rules) /\ i - 1 < j - 1
        /\ more[i] = rules[i - 1] /\ more[j] = rules[j - 1]
    BY <1>1, <1>2, <1>3, <2>1
  <2> QED
    BY <1>3, <2>2 DEF RulesInv
<1>4. Contains(more, r)
  <2>1. k \in 1 .. Len(more) /\ more[k] = r
    BY <1>1, <1>2
  <2> QED
    BY <2>1 DEF Contains
<1>5. ASSUME NEW e, Contains(rules, e) PROVE Contains(more, e)
  <2>1. PICK p \in 1 .. Len(rules) : rules[p] = e
    BY <1>5 DEF Contains
  <2>2. CASE p < k
    <3>1. p \in 1 .. Len(more) /\ more[p] = e
      BY <1>1, <1>2, <2>1, <2>2
    <3> QED
      BY <3>1 DEF Contains
  <2>3. CASE ~(p < k)
    <3>1. p + 1 \in 1 .. Len(more) /\ more[p + 1] = e
      BY <1>1, <1>2, <2>1, <2>3
    <3> QED
      BY <3>1 DEF Contains
  <2> QED
    BY <2>2, <2>3
<1>6. rules' = more
  BY DEF more
<1>7. RulesInv'
  BY <1>2, <1>3, <1>6 DEF RulesInv, Shared
<1> QED
  BY <1>4, <1>5, <1>6, <1>7

(* A rule added to the chain of nft. *)
LEMMA AppendedManaged ==
  ASSUME RulesInv, UNCHANGED <<backend, overruled>>, ~Shared,
         NEW r \in Monitors \cup {Deny}, rules' = Append(rules, r)
  PROVE  RulesInv' /\ Contains(rules', r)
         /\ \A e : Contains(rules, e) => Contains(rules', e)
<1>1. rules \in Seq(Rule) /\ r \in Rule /\ r \notin Foreign /\ Len(rules) \in Nat
  BY LenProperties, DistinctRules DEF RulesInv, Rule
<1>2. /\ rules' \in Seq(Rule) /\ Len(rules') = Len(rules) + 1 /\ rules'[Len(rules) + 1] = r
      /\ \A i \in 1 .. Len(rules) : rules'[i] = rules[i]
  BY <1>1, AppendProperties
<1>3. \A i \in 1 .. Len(rules') : rules'[i] \notin Foreign
  <2>1. \A i \in 1 .. Len(rules') : i \in 1 .. Len(rules) \/ i = Len(rules) + 1
    BY <1>1, <1>2
  <2>2. \A i \in 1 .. Len(rules) : rules[i] \notin Foreign
    BY DEF RulesInv
  <2> QED
    BY <1>1, <1>2, <2>1, <2>2
<1>4. Contains(rules', r) /\ \A e : Contains(rules, e) => Contains(rules', e)
  BY <1>1, <1>2 DEF Contains
<1> QED
  BY <1>2, <1>3, <1>4 DEF RulesInv, Shared

(* The allow is put in front of the rules of others. *)
LEMMA AllowedRules ==
  ASSUME RulesInv, NEW m \in Monitors, backend.kind # "none",
         rules' = AllowFor(m), UNCHANGED <<backend, overruled>>
  PROVE  RulesInv' /\ Contains(rules', m)
<1>1. CASE Contains(rules, m)
  BY <1>1 DEF AllowFor, RulesInv, Shared
<1>2. CASE ~Contains(rules, m) /\ backend.kind = "nft"
  BY <1>2, AppendedManaged DEF AllowFor, Shared
<1>3. CASE ~Contains(rules, m) /\ backend.kind # "nft"
  <2>1. Shared /\ rules' = InsertAt(rules, 1, m) /\ Len(rules) \in Nat
    BY <1>3, Kinds, LenProperties DEF AllowFor, RulesInv
  <2> QED
    BY <2>1, InsertedManaged
<1> QED
  BY <1>1, <1>2, <1>3

(* A rule of SuperFlash's in the list is behind nobody else's first one. *)
LEMMA FirstIsManaged ==
  ASSUME RulesInv, NEW m \in Monitors, Contains(rules, m)
  PROVE  Len(rules) \in Nat /\ 2 <= Len(rules) + 1 /\ (rules[1] \notin Foreign \/ overruled)
<1>1. Len(rules) \in Nat
  BY LenProperties DEF RulesInv
<1>2. PICK p \in 1 .. Len(rules) : rules[p] = m
  BY DEF Contains
<1>3. m \notin Foreign
  BY DistinctRules
<1>4. CASE p = 1
  BY <1>1, <1>2, <1>3, <1>4
<1>5. CASE p # 1
  <2>1. 1 \in 1 .. Len(rules) /\ 1 < p
    BY <1>1, <1>2, <1>5
  <2> QED
    BY <1>1, <1>2, <1>3, <2>1 DEF RulesInv
<1> QED
  BY <1>4, <1>5

(* The deny is put behind one rule, which the allow has provided. *)
LEMMA DeniedRules ==
  ASSUME RulesInv, NEW m \in Monitors, Contains(rules, m), backend.kind # "none",
         rules' = DenyOthers, UNCHANGED <<backend, overruled>>
  PROVE  RulesInv' /\ Contains(rules', m) /\ DenyThere'
<1>1. CASE DenyThere
  BY <1>1 DEF DenyOthers, DenyThere, RulesInv, Shared
<1>2. CASE ~DenyThere /\ backend.kind = "nft"
  <2>1. rules' = Append(rules, Deny) /\ ~Shared
    BY <1>2 DEF DenyOthers, Shared
  <2>2. RulesInv' /\ Contains(rules', m) /\ Contains(rules', Deny)
    BY <2>1, AppendedManaged
  <2> QED
    BY <2>2 DEF DenyThere
<1>3. CASE ~DenyThere /\ backend.kind # "nft"
  <2>1. Shared /\ rules' = InsertAt(rules, 2, Deny)
    BY <1>3, Kinds DEF DenyOthers
  <2>2. RulesInv' /\ Contains(rules', m) /\ Contains(rules', Deny)
    BY <2>1, FirstIsManaged, InsertedManaged
  <2> QED
    BY <2>2 DEF DenyThere
<1> QED
  BY <1>1, <1>2, <1>3

(* A rule less, or none. *)
LEMMA FewerRules ==
  ASSUME RulesInv, NEW r, rules' \in {rules, RemoveFirst(rules, r), <<>>},
         UNCHANGED <<backend, overruled>>
  PROVE  RulesInv'
<1>1. rules \in Seq(Rule) /\ Len(rules) \in Nat
  BY LenProperties DEF RulesInv
<1>2. CASE rules' = rules
  BY <1>2 DEF RulesInv, Shared
<1>3. CASE rules' = <<>>
  BY <1>3 DEF RulesInv, Shared
<1>4. CASE rules' = RemoveFirst(rules, r) /\ ~\E i \in 1 .. Len(rules) : rules[i] = r
  BY <1>4 DEF RemoveFirst, RulesInv, Shared
<1>5. CASE rules' = RemoveFirst(rules, r) /\ \E i \in 1 .. Len(rules) : rules[i] = r
  <2> DEFINE k == PlaceOf(rules, r)
             less == RemoveFirst(rules, r)
  <2>1. /\ k \in 1 .. Len(rules)
        /\ less \in Seq(Rule) /\ Len(less) = Len(rules) - 1
        /\ \A i \in 1 .. Len(rules) - 1 :
             less[i] = IF i < k THEN rules[i] ELSE rules[i + 1]
    BY <1>1, <1>5, RemovedRule
  <2>2. rules' = less
    BY <1>5
  <2> HIDE DEF k, less
  <2>3. ASSUME NEW i \in 1 .. Len(less)
        PROVE  \E o \in 1 .. Len(rules) :
                  less[i] = rules[o] /\ o = IF i < k THEN i ELSE i + 1
    <3>1. CASE i < k
      <4>1. i \in 1 .. Len(rules) /\ less[i] = rules[i]
        BY <1>1, <2>1, <3>1
      <4> QED
        BY <3>1, <4>1
    <3>2. CASE ~(i < k)
      <4>1. i + 1 \in 1 .. Len(rules) /\ less[i] = rules[i + 1]
        BY <1>1, <2>1, <3>2
      <4> QED
        BY <3>2, <4>1
    <3> QED
      BY <3>1, <3>2
  <2>4. ASSUME ~Shared, NEW i \in 1 .. Len(less) PROVE less[i] \notin Foreign
    BY <2>3, <2>4 DEF RulesInv
  <2>5. ASSUME ~overruled, NEW i \in 1 .. Len(less), NEW j \in 1 .. Len(less), i < j,
               less[i] \in Foreign
        PROVE  less[j] \in Foreign
    <3>1. PICK o \in 1 .. Len(rules) : less[i] = rules[o] /\ o = IF i < k THEN i ELSE i + 1
      BY <2>3
    <3>2. PICK q \in 1 .. Len(rules) : less[j] = rules[q] /\ q = IF j < k THEN j ELSE j + 1
      BY <2>3
    <3>3. o < q
      BY <1>1, <2>1, <2>5, <3>1, <3>2
    <3> QED
      BY <2>5, <3>1, <3>2, <3>3 DEF RulesInv
  <2> QED
    BY <2>1, <2>2, <2>4, <2>5 DEF RulesInv, Shared
<1> QED
  BY <1>2, <1>3, <1>4, <1>5

(* A rule of somebody else, behind SuperFlash's, or in front and noted. *)
LEMMA MeddledRules ==
  ASSUME FirewallInv, Meddle
  PROVE  RulesInv' /\ ConfigInv'
<1>1. PICK k \in 1 .. Len(rules) + 1, r \in Foreign :
        /\ rules' = InsertAt(rules, k, r)
        /\ overruled' = (overruled \/ \E j \in k .. Len(rules) : rules[j] \notin Foreign)
  BY DEF Meddle
<1>2. /\ rules \in Seq(Rule) /\ r \in Rule /\ Len(rules) \in Nat /\ RulesInv /\ ConfigInv
      /\ UNCHANGED <<backend, script, session>> /\ Shared /\ overruled \in BOOLEAN
      /\ backend \in Backends
  BY LenProperties DEF FirewallInv, RulesInv, Rule, Meddle
<1>0. rules \in Seq(Rule) /\ r \in Rule /\ k \in 1 .. Len(rules) + 1
  BY <1>2
<1> DEFINE more == InsertAt(rules, k, r)
<1>3. /\ more \in Seq(Rule) /\ Len(more) = Len(rules) + 1
      /\ \A i \in 1 .. Len(rules) + 1 :
           more[i] = IF i < k THEN rules[i] ELSE IF i = k THEN r ELSE rules[i - 1]
  BY <1>0, InsertedPlaces, Zenon
<1> HIDE DEF more
<1>4. overruled' \in BOOLEAN
  BY <1>1
<1>5. ASSUME ~overruled', NEW i \in 1 .. Len(more), NEW j \in 1 .. Len(more), i < j,
             more[i] \in Foreign
      PROVE  more[j] \in Foreign
  <2>1. ~overruled /\ \A o \in k .. Len(rules) : rules[o] \in Foreign
    BY <1>1, <1>5
  <2>2. CASE j < k
    <3>1. /\ i \in 1 .. Len(rules) /\ j \in 1 .. Len(rules)
          /\ more[i] = rules[i] /\ more[j] = rules[j]
      BY <1>2, <1>3, <1>5, <2>2
    <3> QED
      BY <1>2, <1>5, <2>1, <3>1 DEF RulesInv
  <2>3. CASE j = k
    BY <1>2, <1>3, <2>3
  <2>4. CASE j > k
    <3>1. j - 1 \in k .. Len(rules) /\ more[j] = rules[j - 1]
      BY <1>2, <1>3, <2>4
    <3> QED
      BY <2>1, <3>1
  <2> QED
    BY <1>2, <2>2, <2>3, <2>4
<1>6. ASSUME NEW e, Contains(rules, e) PROVE Contains(more, e)
  <2>1. PICK p \in 1 .. Len(rules) : rules[p] = e
    BY <1>6 DEF Contains
  <2>2. CASE p < k
    <3>1. p \in 1 .. Len(more) /\ more[p] = e
      BY <1>2, <1>3, <2>1, <2>2
    <3> QED
      BY <3>1 DEF Contains
  <2>3. CASE ~(p < k)
    <3>1. p + 1 \in 1 .. Len(more) /\ more[p + 1] = e
      BY <1>2, <1>3, <2>1, <2>3
    <3> QED
      BY <3>1 DEF Contains
  <2> QED
    BY <2>2, <2>3
<1>7. rules' = more
  BY <1>1 DEF more
<1>8. RulesInv'
  BY <1>2, <1>3, <1>4, <1>5, <1>7 DEF RulesInv, Shared
<1>9. \A e : Contains(rules, e) => Contains(rules', e)
  BY <1>6, <1>7
<1>10. ConfigInv'
  BY <1>2, <1>9 DEF ConfigInv, At, Alive, DenyThere
<1> QED
  BY <1>8, <1>10

(* What a session does when it hears of the end of a script. *)
LEMMA AnsweredFirewall ==
  ASSUME session \in SessionRecord, NEW ok \in BOOLEAN
  PROVE  /\ Answered(ok).pc # "wait_firewall"
         /\ Answered(ok).pc \in {"verify", "confirmed"} =>
              \/ session.pc \in {"verify", "confirmed"}
              \/ /\ session.pc = "wait_firewall" /\ session.job # "rollback" /\ ok
                 /\ Answered(ok).monitor = session.monitor
<1>1. CASE session.pc = "wait"
  <2>1. Answered(ok) = IF ok \/ session.job = "rollback"
                       THEN [session EXCEPT !.pc = "firewall"] ELSE Ended("failed")
    BY <1>1, Zenon DEF Answered
  <2> QED
    BY <2>1 DEF Ended, NoSession, SessionRecord
<1>2. CASE session.pc = "wait_firewall"
  <2>1. Answered(ok) = IF session.job = "rollback" THEN Ended("closed")
                       ELSE IF ok THEN [session EXCEPT !.pc = "verify"] ELSE Ended("failed")
    BY <1>2, Zenon DEF Answered
  <2> QED
    BY <1>2, <2>1 DEF Ended, NoSession, SessionRecord
<1>3. CASE session.pc \notin {"wait", "wait_firewall"}
  <2>1. Answered(ok) = session
    BY <1>3, Zenon DEF Answered
  <2> QED
    BY <1>3, <2>1
<1> QED
  BY <1>1, <1>2, <1>3

(* A script ends: a configuration that ended well has both rules in place. *)
LEMMA ExitConfigures ==
  ASSUME TypesInv, ConfigInv, Alive, NEW ok \in BOOLEAN, Exit(ok),
         ok /\ script.name = "configure" => Contains(rules', script.monitor) /\ DenyThere'
  PROVE  ConfigInv'
<1>1. session' = Answered(ok) /\ session \in SessionRecord /\ ~Alive'
  BY DEF TypesInv, Exit, Alive, NoScript
<1>2. ~At("configure", "deny")'
  BY <1>1 DEF At, Alive
<1>3. session'.pc # "wait_firewall"
  BY <1>1, AnsweredFirewall
<1>4. ASSUME session'.pc \in {"verify", "confirmed"}
      PROVE  Contains(rules', session'.monitor) /\ DenyThere'
  <2>1. session.pc \notin {"verify", "confirmed"}
    BY DEF ConfigInv
  <2>2. /\ session.pc = "wait_firewall" /\ session.job # "rollback" /\ ok
        /\ session'.monitor = session.monitor
    BY <1>1, <1>4, <2>1, AnsweredFirewall
  <2> QED
    BY <2>2 DEF ConfigInv
<1> QED
  BY <1>1, <1>2, <1>3, <1>4 DEF ConfigInv

(* A command of a script other than those of the firewall. *)
LEMMA OtherCommand ==
  ASSUME FirewallInv, UNCHANGED <<rules, backend, overruled, session>>, Alive,
         NEW pc, pc # "deny", NEW armed,
         script' = [script EXCEPT !.pc = pc, !.armed = armed]
  PROVE  RulesInv' /\ ConfigInv'
<1>1. script'.name = script.name /\ script'.monitor = script.monitor /\ script'.pc = pc
  BY DEF FirewallInv, TypesInv, ScriptRecord
<1>2. session.pc \notin {"verify", "confirmed"}
  BY DEF FirewallInv, ConfigInv
<1> QED
  BY <1>1, <1>2 DEF FirewallInv, RulesInv, ConfigInv, At, DenyThere, Shared

(* The scripts of the exporter, and everything that cuts a script short,   *)
(* leave the rules alone and end no configuration well.                    *)
LEMMA ExporterScripts ==
  ASSUME FirewallInv,
         Install \/ Unrecovered \/ Update \/ Repair \/ Removal \/ Fails \/ Kill
  PROVE  RulesInv' /\ ConfigInv'
<1>1. /\ UNCHANGED <<rules, backend, overruled>> /\ Alive /\ TypesInv /\ ConfigInv /\ RulesInv
      /\ script.armed \in BOOLEAN /\ script \in ScriptRecord
  BY DEF Install, Unrecovered, Update, Repair, Removal, Fails, Kill, Then, At, Alive,
         FirewallInv, TypesInv, ScriptRecord
<1>2. \/ Exit(FALSE)
      \/ Exit(TRUE) /\ script.name # "configure"
      \/ /\ UNCHANGED session
         /\ \E pc \in Steps \ {"deny"}, armed \in BOOLEAN :
              script' = [script EXCEPT !.pc = pc, !.armed = armed]
  <2> DEFINE Moved == /\ UNCHANGED session
                      /\ \E pc \in Steps \ {"deny"}, armed \in BOOLEAN :
                           script' = [script EXCEPT !.pc = pc, !.armed = armed]
  <2>1. ASSUME NEW pc \in Steps \ {"deny"}, UNCHANGED session,
               script' = [script EXCEPT !.pc = pc]
        PROVE  Moved
    <3>1. script' = [script EXCEPT !.pc = pc, !.armed = script.armed]
      BY <1>1, <2>1 DEF ScriptRecord
    <3> QED
      BY <1>1, <2>1, <3>1
  <2>2. CASE Install
    <3>1. CASE /\ UNCHANGED session
               /\ \/ script' = [script EXCEPT !.pc = "unit", !.armed = TRUE]
                  \/ script' = [script EXCEPT !.pc = "clean", !.armed = FALSE]
      BY <3>1 DEF Steps
    <3>2. CASE \E new, pc : pc \in {"backup_bin", "backup_unit", "replace", "start", "probe",
                                    "undo_files", "undo_start"} /\ Then(new, pc)
      BY <2>1, <3>2 DEF Then, Steps
    <3>3. CASE script.name = "install" /\ (Exit(TRUE) \/ Exit(FALSE))
      BY <3>3
    <3> HIDE DEF Moved
    <3> QED
      BY <2>2, <3>1, <3>2, <3>3 DEF Install, At
  <2>3. CASE Repair
    <3>1. CASE \E new, pc : pc \in {"start", "probe"} /\ Then(new, pc)
      BY <2>1, <3>1 DEF Then, Steps
    <3>2. CASE script.name = "repair" /\ Exit(TRUE)
      BY <3>2
    <3> HIDE DEF Moved
    <3> QED
      BY <2>3, <3>1, <3>2 DEF Repair, At
  <2>4. CASE Removal
    <3>1. CASE \E new : Then(new, "rm")
      BY <2>1, <3>1 DEF Then, Steps
    <3>2. CASE script.name = "remove" /\ Exit(TRUE)
      BY <3>2
    <3> HIDE DEF Moved
    <3> QED
      BY <2>4, <3>1, <3>2 DEF Removal, At
  <2>5. CASE Fails
    <3>1. CASE UNCHANGED session /\ script' = [script EXCEPT !.pc = "undo_stop"]
      BY <2>1, <3>1 DEF Steps
    <3> HIDE DEF Moved
    <3> QED
      BY <2>5, <3>1 DEF Fails, OnError
  <2>6. CASE Unrecovered \/ Update \/ Kill
    BY <2>6 DEF Unrecovered, Update, Kill
  <2> QED
    BY <2>2, <2>3, <2>4, <2>5, <2>6
<1>3. CASE Exit(FALSE) \/ (Exit(TRUE) /\ script.name # "configure")
  <2>1. ConfigInv'
    BY <1>1, <1>3, ExitConfigures
  <2> QED
    BY <1>1, <2>1 DEF RulesInv, Shared
<1>4. ASSUME UNCHANGED session, NEW pc \in Steps \ {"deny"}, NEW armed \in BOOLEAN,
             script' = [script EXCEPT !.pc = pc, !.armed = armed]
      PROVE  RulesInv' /\ ConfigInv'
  BY <1>1, <1>4, OtherCommand
<1> QED
  BY <1>2, <1>3, <1>4

(* The firewall script puts the rules in their places. *)
LEMMA FirewallScripts ==
  ASSUME FirewallInv, Configure \/ Unconfigure
  PROVE  RulesInv' /\ ConfigInv'
<1>1. /\ UNCHANGED <<backend, overruled>> /\ Alive /\ TypesInv /\ ConfigInv /\ RulesInv
      /\ script.monitor \in Monitors /\ session.pc \notin {"verify", "confirmed"}
  BY DEF Configure, Unconfigure, At, Alive, FirewallInv, TypesInv, ScriptRecord, ConfigInv
<1>2. ASSUME NEW pc \in {"deny", "undeny"}, script' = [script EXCEPT !.pc = pc]
      PROVE  /\ script'.name = script.name /\ script'.pc = pc
             /\ script'.monitor = script.monitor
  BY <1>1, <1>2 DEF TypesInv, ScriptRecord
<1>3. CASE /\ Configure /\ At("configure", "allow") /\ rules' = AllowFor(script.monitor)
           /\ script' = [script EXCEPT !.pc = "deny"] /\ UNCHANGED session
  <2>1. RulesInv' /\ Contains(rules', script.monitor)
    BY <1>1, <1>3, AllowedRules DEF Configure
  <2>2. ConfigInv'
    BY <1>1, <1>2, <1>3, <2>1 DEF ConfigInv, At
  <2> QED
    BY <2>1, <2>2
<1>4. CASE Configure /\ At("configure", "deny") /\ rules' = DenyOthers /\ Exit(TRUE)
  <2>1. RulesInv' /\ Contains(rules', script.monitor) /\ DenyThere'
    BY <1>1, <1>4, DeniedRules DEF Configure, ConfigInv
  <2>2. ConfigInv'
    BY <1>1, <1>4, <2>1, ExitConfigures
  <2> QED
    BY <2>1, <2>2
<1>5. CASE /\ At("unconfigure", "unallow")
           /\ rules' \in {rules, RemoveFirst(rules, script.monitor)}
           /\ script' = [script EXCEPT !.pc = "undeny"] /\ UNCHANGED session
  <2>1. RulesInv'
    BY <1>1, <1>5, FewerRules
  <2>2. ConfigInv'
    BY <1>1, <1>2, <1>5 DEF ConfigInv, At
  <2> QED
    BY <2>1, <2>2
<1>6. CASE /\ At("unconfigure", "unallow") /\ rules' \in {rules, <<>>}
           /\ Exit(backend.kind = "nft")
  <2>1. RulesInv'
    BY <1>1, <1>6, FewerRules
  <2>2. (backend.kind = "nft") \in BOOLEAN /\ script.name # "configure"
    BY <1>6 DEF At
  <2>3. ConfigInv'
    BY <1>1, <1>6, <2>2, ExitConfigures
  <2> QED
    BY <2>1, <2>3
<1>7. CASE /\ At("unconfigure", "undeny") /\ rules' \in {rules, RemoveFirst(rules, Deny)}
           /\ Exit(TRUE)
  <2>1. RulesInv'
    BY <1>1, <1>7, FewerRules
  <2>2. script.name # "configure"
    BY <1>7 DEF At
  <2>3. ConfigInv'
    BY <1>1, <1>7, <2>2, ExitConfigures
  <2> QED
    BY <2>1, <2>3
<1>8. CASE Configure
  BY <1>3, <1>4, <1>8 DEF Configure
<1>9. CASE Unconfigure
  BY <1>5, <1>6, <1>7, <1>9 DEF Unconfigure
<1> QED
  BY <1>8, <1>9

(* A session starts a configuration for its own monitor, and only the      *)
(* exit status of that one lets it go on to the verification.              *)
LEMMA FirewallSession ==
  ASSUME FirewallInv, OpenSession \/ RunScript \/ LeaveExporter \/ RunFirewallScript
                      \/ Verify \/ GiveUp
  PROVE  RulesInv' /\ ConfigInv'
<1>1. /\ UNCHANGED <<rules, backend, overruled>> /\ TypesInv /\ ConfigInv /\ RulesInv
      /\ session \in SessionRecord
  BY DEF OpenSession, RunScript, LeaveExporter, RunFirewallScript, Verify, GiveUp,
         FirewallInv, TypesInv
<1>2. CASE OpenSession
  <2>1. session'.pc = "exporter" /\ UNCHANGED script
    BY <1>2 DEF OpenSession
  <2> QED
    BY <1>1, <2>1 DEF RulesInv, ConfigInv, At, DenyThere, Shared
<1>3. CASE RunScript
  <2>1. PICK v \in Versions : Launch(ScriptFor, v, "wait")
    BY <1>3, HostAssumption DEF RunScript
  <2>2. /\ session'.pc = "wait" /\ script'.name = ScriptFor /\ ScriptFor # "configure"
    BY <1>1, <2>1, FirstScript DEF Launch, SessionRecord
  <2> QED
    BY <1>1, <2>2 DEF RulesInv, ConfigInv, At, DenyThere, Shared
<1>4. CASE LeaveExporter
  <2>1. session'.pc = "firewall" /\ UNCHANGED script
    BY <1>1, <1>4 DEF LeaveExporter, SessionRecord
  <2> QED
    BY <1>1, <2>1 DEF RulesInv, ConfigInv, At, DenyThere, Shared
<1>5. CASE RunFirewallScript
  <2> DEFINE name == IF session.job = "rollback" THEN "unconfigure" ELSE "configure"
  <2>1. Launch(name, NoVersion, "wait_firewall")
    BY <1>5 DEF RunFirewallScript
  <2>2. /\ session'.pc = "wait_firewall" /\ session'.job = session.job
        /\ session'.monitor = session.monitor
        /\ script'.name = name /\ script'.monitor = session.monitor
        /\ script'.pc = FirstStep[name]
    BY <1>1, <2>1 DEF Launch, SessionRecord
  <2>3. script'.pc \in {"allow", "unallow"}
    BY <2>2 DEF FirstStep
  <2> QED
    BY <1>1, <2>2, <2>3 DEF RulesInv, ConfigInv, At, DenyThere, Shared
<1>6. CASE Verify
  <2>1. /\ session.pc = "verify" /\ UNCHANGED script
        /\ session'.monitor = session.monitor /\ session'.pc \in {"confirmed", "failed"}
    BY <1>6 DEF Verify, Ended, NoSession
  <2> QED
    BY <1>1, <2>1 DEF RulesInv, ConfigInv, At, DenyThere, Shared, Alive
<1>7. CASE GiveUp
  <2>1. session'.pc = "failed" /\ UNCHANGED script
    BY <1>7 DEF GiveUp, Ended, NoSession
  <2> QED
    BY <1>1, <2>1 DEF RulesInv, ConfigInv, At, DenyThere, Shared
<1> QED
  BY <1>2, <1>3, <1>4, <1>5, <1>6, <1>7

(* Every step keeps the rules in order. *)
LEMMA FirewallStepKept == IInv /\ FirewallInv /\ [HostNext]_hostVars => FirewallInv'
<1> SUFFICES ASSUME IInv, FirewallInv, [HostNext]_hostVars PROVE FirewallInv'
  OBVIOUS
<1>1. TypesInv'
  BY StepKeepsPromise DEF IInv
<1>2. CASE UNCHANGED hostVars
  BY <1>1, <1>2
     DEF hostVars, FirewallInv, RulesInv, ConfigInv, At, Alive, Contains, DenyThere, Shared
<1>3. RulesInv' /\ ConfigInv'
  BY <1>2, ExporterScripts, FirewallScripts, FirewallSession, MeddledRules
     DEF HostNext, FirewallInv
<1> QED
  BY <1>1, <1>3 DEF FirewallInv

LEMMA FirewallInit == HostInit => FirewallInv
<1> SUFFICES ASSUME HostInit PROVE FirewallInv
  OBVIOUS
<1>1. TypesInv
  BY InitKeepsPromise DEF IInv
<1>2. RulesInv
  <2>0. backend \in Backends /\ overruled = FALSE
    BY HostAssumption DEF HostInit
  <2>1. CASE rules = <<>>
    <3>1. rules \in Seq(Rule) /\ Len(rules) = 0
      BY <2>1
    <3>2. \A i : i \notin 1 .. Len(rules)
      BY <3>1
    <3> QED
      BY <2>0, <3>1, <3>2 DEF RulesInv
  <2>2. ASSUME Shared, NEW n \in 1 .. MaxForeign, rules \in [1 .. n -> Foreign]
        PROVE  RulesInv
    <3>1. n \in Nat
      BY HostAssumption
    <3>2. rules \in Seq(Rule) /\ Len(rules) = n /\ \A i \in 1 .. n : rules[i] \in Foreign
      BY <2>2, <3>1 DEF Rule
    <3> QED
      BY <2>0, <2>2, <3>1, <3>2 DEF RulesInv
  <2> QED
    BY <2>1, <2>2 DEF HostInit
<1>3. ConfigInv
  BY DEF HostInit, NoSession, NoScript, ConfigInv, At
<1> QED
  BY <1>1, <1>2, <1>3 DEF FirewallInv

LEMMA FirewallInvariant == HostSpec => []FirewallInv
<1>1. HostInit => IInv /\ FirewallInv
  BY InitKeepsPromise, FirewallInit
<1>2. (IInv /\ FirewallInv) /\ [HostNext]_hostVars => (IInv /\ FirewallInv)'
  BY StepKeepsPromise, FirewallStepKept
<1> QED
  BY <1>1, <1>2, PTL DEF HostSpec

(* The first rule that matches a connection decides. *)
HitOf(src) == Min({i \in 1 .. Len(rules) : rules[i] \in {src, Deny, Open, Shut}})

LEMMA FirstRuleDecides ==
  ASSUME RulesInv, NEW src, NEW i \in 1 .. Len(rules), rules[i] \in {src, Deny, Open, Shut}
  PROVE  /\ HitOf(src) \in 1 .. Len(rules) /\ HitOf(src) <= i
         /\ rules[HitOf(src)] \in {src, Deny, Open, Shut}
         /\ Admitted(src) <=> rules[HitOf(src)] \notin {Deny, Shut} /\ ~OwnTablesDrop
<1> DEFINE T == {j \in 1 .. Len(rules) : rules[j] \in {src, Deny, Open, Shut}}
           k == HitOf(src)
<1>1. Len(rules) \in Nat /\ T \in SUBSET Nat /\ i \in T
  BY LenProperties DEF RulesInv
<1>2. k \in T /\ \A n \in T : k <= n
  <2>1. k = Min(T)
    BY DEF HitOf
  <2> HIDE DEF T, k
  <2> QED
    BY <1>1, <2>1, LeastNumber
<1>3. SelectInSeq(rules, LAMBDA r : r \in {src, Deny, Open, Shut}) = k
  BY <1>1, <1>2 DEF SelectInSeq, HitOf
<1>4. k # 0
  BY <1>2
<1>5. Admitted(src) <=> rules[k] \notin {Deny, Shut} /\ ~OwnTablesDrop
  BY <1>3, <1>4 DEF Admitted
<1> QED
  BY <1>1, <1>2, <1>5

(* A deny shuts out whoever has no rule, because the rules that open the   *)
(* port are behind it.                                                     *)
LEMMA DenyShuts ==
  ASSUME RulesInv, ~overruled, Contains(rules, Deny)
  PROVE  ~Admitted(Outsider)
<1> DEFINE k == HitOf(Outsider)
<1>1. PICK d \in 1 .. Len(rules) : rules[d] = Deny
  BY DEF Contains
<1>2. /\ k \in 1 .. Len(rules) /\ k <= d /\ rules[k] \in {Outsider, Deny, Open, Shut}
      /\ Admitted(Outsider) <=> rules[k] \notin {Deny, Shut} /\ ~OwnTablesDrop
  BY <1>1, FirstRuleDecides
<1> HIDE DEF k
<1>3. Len(rules) \in Nat /\ rules[k] \in Rule
  BY <1>2, LenProperties DEF RulesInv
<1>4. rules[k] # Outsider
  BY <1>3, DistinctRules DEF Rule
<1>5. rules[k] # Open
  BY <1>1, <1>2, <1>3, DistinctRules DEF RulesInv
<1> QED
  BY <1>2, <1>4, <1>5

(* A job that ends validated leaves the port closed to whoever is no       *)
(* monitor, whatever addresses the monitor has had, whatever rules others  *)
(* have behind those of SuperFlash and whichever earlier scripts were      *)
(* interrupted or left a rule they should have deleted.                    *)
THEOREM OutsiderShut ==
  HostSpec => [](session.pc = "confirmed" /\ Undisputed => ~Admitted(Outsider))
<1>1. FirewallInv => (session.pc = "confirmed" /\ Undisputed => ~Admitted(Outsider))
  BY DenyShuts DEF FirewallInv, ConfigInv, Undisputed, DenyThere
<1> QED
  BY <1>1, FirewallInvariant, PTL

-----------------------------------------------------------------------------
(* A monitor whose address never changes.                                  *)

OneMonitor == \A m, n \in Monitors : m = n

\* Its rule is the first one; in a table of SuperFlash's own it is there as
\* long as any rule is.
OrderInv ==
    ~overruled =>
       /\ \A i \in 1 .. Len(rules) : rules[i] \in Monitors => i = 1
       /\ ~Shared => rules = <<>> \/ rules[1] \in Monitors

(* A rule put into the list of a shared firewall where it leaves the       *)
(* monitor's first.                                                        *)
LEMMA InsertedOrder ==
  ASSUME RulesInv, OrderInv, ~overruled, Shared, NEW r \in Rule, NEW k \in 1 .. Len(rules) + 1,
         r \in Monitors => k = 1,
         k = 1 => r \in Monitors /\ ~\E i \in 1 .. Len(rules) : rules[i] \in Monitors,
         rules' = InsertAt(rules, k, r)
  PROVE  \A i \in 1 .. Len(rules') : rules'[i] \in Monitors => i = 1
<1>1. rules \in Seq(Rule) /\ Len(rules) \in Nat
  BY LenProperties DEF RulesInv
<1> DEFINE more == InsertAt(rules, k, r)
<1>2. /\ Len(more) = Len(rules) + 1
      /\ \A i \in 1 .. Len(rules) + 1 :
           more[i] = IF i < k THEN rules[i] ELSE IF i = k THEN r ELSE rules[i - 1]
  BY <1>1, InsertedPlaces, Zenon
<1> HIDE DEF more
<1>3. ASSUME NEW i \in 1 .. Len(more), more[i] \in Monitors, i # 1 PROVE FALSE
  <2>1. i # k
    BY <1>1, <1>2, <1>3
  <2>2. CASE i < k
    <3>1. i \in 1 .. Len(rules) /\ rules[i] \in Monitors
      BY <1>1, <1>2, <1>3, <2>2
    <3> QED
      BY <1>3, <3>1 DEF OrderInv
  <2>3. CASE i > k
    <3>1. i - 1 \in 1 .. Len(rules) /\ rules[i - 1] \in Monitors
      BY <1>1, <1>2, <1>3, <2>3
    <3>2. i - 1 = 1 /\ k = 1
      BY <1>1, <2>3, <3>1 DEF OrderInv
    <3> QED
      BY <3>1, <3>2
  <2> QED
    BY <1>1, <2>1, <2>2, <2>3
<1>4. rules' = more
  BY DEF more
<1> QED
  BY <1>3, <1>4

(* A rule less, or none, in the order that was. *)
LEMMA FewerOrder ==
  ASSUME RulesInv, OrderInv, UNCHANGED <<backend, overruled>>,
         NEW r, rules' \in {rules, <<>>} \/ (Shared /\ rules' = RemoveFirst(rules, r))
  PROVE  OrderInv'
<1>1. rules \in Seq(Rule) /\ Len(rules) \in Nat
  BY LenProperties DEF RulesInv
<1>2. CASE rules' \in {rules, <<>>}
  BY <1>2 DEF OrderInv, Shared
<1>3. CASE rules' = RemoveFirst(rules, r) /\ ~\E i \in 1 .. Len(rules) : rules[i] = r
  BY <1>3 DEF RemoveFirst, OrderInv, Shared
<1>4. CASE /\ Shared /\ rules' = RemoveFirst(rules, r)
           /\ \E i \in 1 .. Len(rules) : rules[i] = r
  <2> DEFINE k == PlaceOf(rules, r)
             less == RemoveFirst(rules, r)
  <2>1. /\ k \in 1 .. Len(rules) /\ Len(less) = Len(rules) - 1
        /\ \A i \in 1 .. Len(rules) - 1 :
             less[i] = IF i < k THEN rules[i] ELSE rules[i + 1]
    BY <1>1, <1>4, RemovedRule
  <2>2. rules' = less
    BY <1>4
  <2> HIDE DEF k, less
  <2>3. ASSUME ~overruled, NEW i \in 1 .. Len(less), less[i] \in Monitors PROVE i = 1
    <3>1. CASE i < k
      <4>1. i \in 1 .. Len(rules) /\ rules[i] \in Monitors
        BY <1>1, <2>1, <2>3, <3>1
      <4> QED
        BY <2>3, <4>1 DEF OrderInv
    <3>2. CASE ~(i < k)
      <4>1. i + 1 \in 1 .. Len(rules) /\ rules[i + 1] \in Monitors
        BY <1>1, <2>1, <2>3, <3>2
      <4>2. i + 1 = 1
        BY <2>3, <4>1 DEF OrderInv
      <4> QED
        BY <4>2
    <3> QED
      BY <3>1, <3>2
  <2> QED
    BY <1>4, <2>2, <2>3 DEF OrderInv, Shared
<1> QED
  BY <1>2, <1>3, <1>4

(* The firewall script keeps it first. *)
LEMMA OrderKept ==
  ASSUME OneMonitor, FirewallInv, OrderInv, Configure \/ Unconfigure
  PROVE  OrderInv'
<1>1. /\ UNCHANGED <<backend, overruled>> /\ RulesInv /\ ConfigInv
      /\ script.monitor \in Monitors /\ script.monitor \in Rule /\ Deny \in Rule
      /\ rules \in Seq(Rule) /\ Len(rules) \in Nat
      /\ rules # <<>> => 1 \in 1 .. Len(rules)
  <2>1. /\ UNCHANGED <<backend, overruled>> /\ RulesInv /\ ConfigInv
        /\ script.monitor \in Monitors
    BY DEF Configure, Unconfigure, FirewallInv, TypesInv, ScriptRecord
  <2>2. rules \in Seq(Rule) /\ script.monitor \in Rule /\ Deny \in Rule
    BY <2>1 DEF RulesInv, Rule
  <2>3. Len(rules) \in Nat /\ (rules # <<>> => Len(rules) >= 1)
    BY <2>2, LenProperties, EmptySeq
  <2> QED
    BY <2>1, <2>2, <2>3
<1>2. CASE overruled
  BY <1>1, <1>2 DEF OrderInv
<1>3. CASE ~overruled /\ Configure /\ rules' = AllowFor(script.monitor)
  <2> DEFINE m == script.monitor
  <2>1. CASE Contains(rules, m)
    BY <1>1, <1>3, <2>1 DEF AllowFor, OrderInv, Shared
  <2>2. CASE ~Contains(rules, m)
    <3>1. \A i \in 1 .. Len(rules) : rules[i] \notin Monitors
      BY <1>1, <2>2 DEF OneMonitor, Contains
    <3>2. CASE backend.kind = "nft"
      <4>1. rules = <<>> /\ ~Shared
        BY <1>1, <1>3, <3>1, <3>2 DEF OrderInv, Shared
      <4>2. rules' = Append(rules, m)
        BY <1>3, <2>2, <3>2 DEF AllowFor
      <4>3. Len(rules') = 1 /\ rules'[1] = m
        BY <1>1, <4>1, <4>2, AppendProperties
      <4> QED
        BY <1>1, <4>3 DEF OrderInv
    <3>3. CASE backend.kind # "nft"
      <4>1. rules' = InsertAt(rules, 1, m) /\ Shared
        BY <1>1, <1>3, <2>2, <3>3, Kinds DEF AllowFor, Configure
      <4>2. \A i \in 1 .. Len(rules') : rules'[i] \in Monitors => i = 1
        <5>1. 1 \in 1 .. Len(rules) + 1
          BY <1>1
        <5> QED
          BY <1>1, <1>3, <3>1, <4>1, <5>1, InsertedOrder
      <4> QED
        BY <1>1, <4>1, <4>2 DEF OrderInv, Shared
    <3> QED
      BY <3>2, <3>3
  <2> QED
    BY <2>1, <2>2
<1>4. CASE ~overruled /\ Configure /\ At("configure", "deny") /\ rules' = DenyOthers
  <2>1. CASE DenyThere
    BY <1>1, <1>4, <2>1 DEF DenyOthers, OrderInv, Shared
  <2>2. CASE ~DenyThere
    <3>1. Contains(rules, script.monitor)
      BY <1>1, <1>4 DEF ConfigInv
    <3>2. rules # <<>>
      <4>1. PICK i \in 1 .. Len(rules) : rules[i] = script.monitor
        BY <3>1 DEF Contains
      <4> QED
        BY <1>1, <4>1, EmptySeq
    <3>3. 1 \in 1 .. Len(rules)
      BY <1>1, <3>2
    <3>4. CASE backend.kind = "nft"
      <4>1. rules' = Append(rules, Deny) /\ ~Shared
        BY <1>4, <2>2, <3>4 DEF DenyOthers, Shared
      <4>2. /\ Len(rules') = Len(rules) + 1 /\ rules'[Len(rules) + 1] = Deny
            /\ \A i \in 1 .. Len(rules) : rules'[i] = rules[i]
        BY <1>1, <4>1, AppendProperties
      <4>3. ASSUME NEW i \in 1 .. Len(rules'), rules'[i] \in Monitors PROVE i = 1
        <5>1. i # Len(rules) + 1
          BY <4>2, <4>3, DistinctRules
        <5> QED
          BY <1>1, <1>4, <4>2, <4>3, <5>1 DEF OrderInv
      <4>4. rules'[1] \in Monitors
        BY <1>4, <3>2, <3>3, <4>1, <4>2 DEF OrderInv
      <4> QED
        BY <4>3, <4>4 DEF OrderInv
    <3>5. CASE backend.kind # "nft"
      <4>1. rules' = InsertAt(rules, 2, Deny) /\ Shared
        BY <1>1, <1>4, <2>2, <3>5, Kinds DEF DenyOthers, Configure
      <4>2. \A i \in 1 .. Len(rules') : rules'[i] \in Monitors => i = 1
        <5>1. 2 \in 1 .. Len(rules) + 1 /\ Deny \notin Monitors
          BY <1>1, <3>3, DistinctRules
        <5> QED
          BY <1>1, <1>4, <4>1, <5>1, InsertedOrder
      <4> QED
        BY <1>1, <4>1, <4>2 DEF OrderInv, Shared
    <3> QED
      BY <3>4, <3>5
  <2> QED
    BY <2>1, <2>2
<1>5. CASE Configure
  BY <1>2, <1>3, <1>4, <1>5 DEF Configure
<1>6. CASE Unconfigure
  <2>1. \/ rules' \in {rules, <<>>}
        \/ Shared /\ rules' = RemoveFirst(rules, script.monitor)
        \/ Shared /\ rules' = RemoveFirst(rules, Deny)
    BY <1>6 DEF Unconfigure
  <2> QED
    BY <1>1, <2>1, FewerOrder
<1> QED
  BY <1>5, <1>6

(* Who meddles behind the monitor's rule leaves it first. *)
LEMMA OrderMeddled ==
  ASSUME FirewallInv, OrderInv, Meddle
  PROVE  OrderInv'
<1>1. PICK k \in 1 .. Len(rules) + 1, r \in Foreign :
        /\ rules' = InsertAt(rules, k, r)
        /\ overruled' = (overruled \/ \E j \in k .. Len(rules) : rules[j] \notin Foreign)
  BY DEF Meddle
<1>2. /\ rules \in Seq(Rule) /\ r \in Rule /\ r \notin Monitors /\ Len(rules) \in Nat
      /\ RulesInv /\ UNCHANGED backend /\ Shared
  BY LenProperties, DistinctRules DEF FirewallInv, RulesInv, Rule, Meddle
<1> DEFINE more == InsertAt(rules, k, r)
<1>3. /\ Len(more) = Len(rules) + 1
      /\ \A i \in 1 .. Len(rules) + 1 :
           more[i] = IF i < k THEN rules[i] ELSE IF i = k THEN r ELSE rules[i - 1]
  BY <1>2, InsertedPlaces, Zenon
<1> HIDE DEF more
<1>4. ASSUME ~overruled', NEW i \in 1 .. Len(more), more[i] \in Monitors PROVE i = 1
  <2>1. ~overruled /\ \A o \in k .. Len(rules) : rules[o] \in Foreign
    BY <1>1, <1>4
  <2>2. i # k
    BY <1>2, <1>3, <1>4
  <2>3. CASE i < k
    <3>1. i \in 1 .. Len(rules) /\ rules[i] \in Monitors
      BY <1>2, <1>3, <1>4, <2>3
    <3> QED
      BY <2>1, <3>1 DEF OrderInv
  <2>4. CASE i > k
    <3>1. i - 1 \in k .. Len(rules) /\ rules[i - 1] \in Monitors
      BY <1>2, <1>3, <1>4, <2>4
    <3> QED
      BY <2>1, <3>1, DistinctRules
  <2> QED
    BY <1>2, <2>2, <2>3, <2>4
<1>5. rules' = more
  BY <1>1 DEF more
<1> QED
  BY <1>2, <1>4, <1>5 DEF OrderInv, Shared

(* Every other step leaves the rules alone. *)
LEMMA OrderStepKept ==
  OneMonitor /\ FirewallInv /\ OrderInv /\ [HostNext]_hostVars => OrderInv'
<1> SUFFICES ASSUME OneMonitor, FirewallInv, OrderInv, [HostNext]_hostVars PROVE OrderInv'
  OBVIOUS
<1>1. CASE Configure \/ Unconfigure \/ Meddle
  BY <1>1, OrderKept, OrderMeddled
<1>2. CASE UNCHANGED <<rules, backend, overruled>>
  BY <1>2 DEF OrderInv, Shared
<1>3. CASE OpenSession \/ RunScript \/ LeaveExporter \/ RunFirewallScript \/ Verify \/ GiveUp
  BY <1>2, <1>3
     DEF OpenSession, RunScript, LeaveExporter, RunFirewallScript, Verify, GiveUp
<1>4. CASE Install \/ Unrecovered \/ Update \/ Repair \/ Removal \/ Fails \/ Kill
  BY <1>2, <1>4 DEF Install, Unrecovered, Update, Repair, Removal, Fails, Kill, Then
<1> QED
  BY <1>1, <1>2, <1>3, <1>4 DEF HostNext, hostVars

LEMMA OrderInit == HostInit => OrderInv
<1> SUFFICES ASSUME HostInit PROVE OrderInv
  OBVIOUS
<1>1. CASE rules = <<>>
  BY <1>1 DEF OrderInv
<1>2. ASSUME Shared, NEW n \in 1 .. MaxForeign, rules \in [1 .. n -> Foreign] PROVE OrderInv
  <2>1. n \in Nat
    BY HostAssumption
  <2>2. Len(rules) = n /\ \A i \in 1 .. n : rules[i] \in Foreign
    BY <1>2, <2>1
  <2> QED
    BY <1>2, <2>1, <2>2, DistinctRules DEF OrderInv
<1> QED
  BY <1>1, <1>2 DEF HostInit

\* The rules, their places, and what a session knows of them.
FixedInv == IInv /\ FirewallInv /\ OrderInv

LEMMA FixedInit == HostInit => FixedInv
BY InitKeepsPromise, FirewallInit, OrderInit DEF FixedInv

LEMMA FixedStep == OneMonitor /\ FixedInv /\ [HostNext]_hostVars => FixedInv'
BY StepKeepsPromise, FirewallStepKept, OrderStepKept DEF FixedInv

(* The rule of the monitor decides its own connections. *)
LEMMA FirstAdmits ==
  ASSUME OneMonitor, RulesInv, OrderInv, ~overruled, NEW m \in Monitors, Contains(rules, m)
  PROVE  Admitted(m) \/ OwnTablesDrop
<1>1. PICK i \in 1 .. Len(rules) : rules[i] = m
  BY DEF Contains
<1>2. i = 1
  BY <1>1 DEF OrderInv
<1>3. /\ HitOf(m) = 1
      /\ Admitted(m) <=> rules[HitOf(m)] \notin {Deny, Shut} /\ ~OwnTablesDrop
  BY <1>1, <1>2, FirstRuleDecides
<1> QED
  BY <1>1, <1>2, <1>3, DistinctRules

(* A job that ends validated leaves the port open to the monitor and to    *)
(* nobody else, as long as the monitor has always had one address and      *)
(* nobody put a rule in front of SuperFlash's: with iptables and ufw       *)
(* whatever rules others have, with nft unless their own tables drop it,   *)
(* and with ufw unless a denial of theirs was taken for SuperFlash's       *)
(* (configure-node-exporter-firewall.sh: first the allow, then the deny).  *)
THEOREM ConfirmedFirewall == ASSUME OneMonitor PROVE HostSpec => []FirewallConfirmed
<1>1. FixedInv => FirewallConfirmed
  <2> SUFFICES ASSUME FixedInv, session.pc = "confirmed", Undisputed
               PROVE  (Admitted(session.monitor) \/ OwnTablesDrop) /\ ~Admitted(Outsider)
    BY DEF FirewallConfirmed
  <2>1. /\ RulesInv /\ OrderInv /\ session.monitor \in Monitors /\ ~overruled
        /\ Contains(rules, session.monitor) /\ Contains(rules, Deny)
    BY DEF FixedInv, FirewallInv, TypesInv, SessionRecord, ConfigInv, Undisputed, DenyThere
  <2> QED
    BY <2>1, FirstAdmits, DenyShuts
<1> QED
  BY <1>1, FixedInit, FixedStep, PTL DEF HostSpec

-----------------------------------------------------------------------------
(* Types.                                                                  *)

(* A command is killed or cut short only while the bound allows it. *)
LEMMA FaultsBounded ==
  /\ HostInit => faults \in 0 .. MaxFaults
  /\ faults \in 0 .. MaxFaults /\ [HostNext]_hostVars => (faults \in 0 .. MaxFaults)'
<1>1. MaxFaults \in Nat
  BY HostAssumption
<1>2. HostInit => faults \in 0 .. MaxFaults
  BY <1>1 DEF HostInit
<1>3. ASSUME faults \in 0 .. MaxFaults, [HostNext]_hostVars PROVE faults' \in 0 .. MaxFaults
  <2>1. faults' = faults \/ (faults < MaxFaults /\ faults' = faults + 1)
    <3>1. CASE OpenSession \/ RunScript \/ LeaveExporter \/ RunFirewallScript \/ Verify
               \/ GiveUp \/ Meddle
      BY <3>1 DEF OpenSession, RunScript, LeaveExporter, RunFirewallScript, Verify, GiveUp,
                  Meddle
    <3>2. CASE Install \/ Update \/ Repair \/ Removal \/ Configure \/ Unconfigure \/ Fails
      BY <3>2 DEF Install, Update, Repair, Removal, Configure, Unconfigure, Fails
    <3>3. CASE Unrecovered \/ Kill
      BY <3>3 DEF Unrecovered, Kill
    <3> QED
      BY <1>3, <3>1, <3>2, <3>3 DEF HostNext, hostVars
  <2> QED
    BY <1>1, <1>3, <2>1
<1> QED
  BY <1>2, <1>3

(* Nothing changes which firewall a host has. *)
LEMMA BackendStays == [HostNext]_hostVars => backend' = backend
<1>1. CASE OpenSession \/ RunScript \/ LeaveExporter \/ RunFirewallScript \/ Verify
           \/ GiveUp \/ Meddle
  BY <1>1 DEF OpenSession, RunScript, LeaveExporter, RunFirewallScript, Verify, GiveUp, Meddle
<1>2. CASE Install \/ Update \/ Repair \/ Removal \/ Configure \/ Unconfigure \/ Fails
  BY <1>2 DEF Install, Update, Repair, Removal, Configure, Unconfigure, Fails
<1>3. CASE Unrecovered \/ Kill
  BY <1>3 DEF Unrecovered, Kill
<1> QED
  BY <1>1, <1>2, <1>3 DEF HostNext, hostVars

LEMMA HostTypes ==
  IInv /\ FirewallInv /\ faults \in 0 .. MaxFaults /\ backend \in Firewalls => HostTypeOK
<1> SUFFICES ASSUME IInv, FirewallInv, faults \in 0 .. MaxFaults, backend \in Firewalls
             PROVE  HostTypeOK
  OBVIOUS
<1>1. \A i \in DOMAIN rules : rules[i] \in Monitors \cup {Deny} \cup Foreign
  BY DEF FirewallInv, RulesInv, Rule
<1> QED
  BY <1>1 DEF IInv, HostInv, FirewallInv, TypesInv, RulesInv, HostTypeOK

=============================================================================
