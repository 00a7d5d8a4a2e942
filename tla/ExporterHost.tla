---------------------------- MODULE ExporterHost ----------------------------
(***************************************************************************)
(* A host whose Node Exporter the panel administers, and the SSH session   *)
(* that does it.                                                           *)
(*                                                                         *)
(* A session (onboarding, repair, update, reinstallation, rollback)        *)
(* uploads a script, waits for its exit status, uploads the firewall       *)
(* script, and verifies the exporter.  A script is a sequence of commands  *)
(* under "set -e" on the files of the host, systemd and the firewall.  Any *)
(* command may fail: most failures end the script, those followed by       *)
(* "|| true" are passed over, and those inside the EXIT trap leave what    *)
(* was not undone yet.  The script may also be killed.  The session gives  *)
(* up when its budget is over, and then the script goes on without it.     *)
(*                                                                         *)
(* Assumption: a script that outlived its session ends before the next     *)
(* script starts.  Rules of others concern everyone, not one address.      *)
(* sha256sum, tar and useradd are inside the steps that fetch.             *)
(***************************************************************************)
EXTENDS Integers, SequencesExt

CONSTANTS
    Versions,   \* versions of Node Exporter
    Offered,    \* those that a session may install
    Firewalls,  \* the firewalls that hosts have
    Monitors,   \* addresses of the monitor (onboarding_monitor_ip)
    Outsider,   \* any other address
    Absent,     \* no version, no file
    Broken,     \* a file cut short
    MaxFaults,  \* bound: kills and failures that nothing undoes
    MaxForeign  \* bound: rules of others for port 9100

\* Rules for everyone: SuperFlash's denial, and those of others, which let
\* everyone in or nobody.
Deny    == "deny"
Open    == "open"
Shut    == "shut"
Foreign == {Open, Shut}

\* drops: connections that no rule matches are refused; with nft, by the
\* chains of the host's own tables, which come after SuperFlash's.
Backends == [kind : {"ufw", "iptables", "nft"}, drops : BOOLEAN]
            \cup [kind : {"none"}, drops : {FALSE}]

ASSUME HostAssumption ==
    /\ Absent \notin Versions /\ Broken \notin Versions /\ Absent # Broken
    /\ Offered # {} /\ Offered \subseteq Versions /\ Firewalls \subseteq Backends
    /\ Monitors # {} /\ Outsider \notin Monitors
    /\ {Deny, Open, Shut} \cap (Monitors \cup {Outsider}) = {}
    /\ MaxFaults \in Nat /\ MaxForeign \in Nat

VARIABLES
    host,       \* files, backups and the process that answers on port 9100
    rules,      \* the rules for port 9100, in the order they are tried
    backend,    \* the firewall of the host and what it does by default
    overruled,  \* somebody put a rule in front of one of SuperFlash's
    script,     \* the script on the host
    session,    \* the session of the panel
    faults      \* kills and failures that nothing undoes so far

hostVars == <<host, rules, backend, overruled, script, session, faults>>

Files   == Versions \cup {Absent, Broken}
Jobs    == {"onboard", "repair", "update", "reinstall", "rollback"}
Scripts == {"install", "update", "repair", "remove", "configure", "unconfigure"}

Steps == {"idle", "fetch", "backup_bin", "backup_unit", "replace", "unit",
          "start", "probe", "clean", "undo_stop", "undo_files", "undo_start",
          "stop", "rm", "allow", "deny", "unallow", "undeny", "delegate"}

HostRecord == [bin : Files, unit : BOOLEAN, bakBin : Files, bakUnit : BOOLEAN,
               running : Versions \cup {Absent}]
ScriptRecord == [name : Scripts, pc : Steps, armed : BOOLEAN, version : Versions,
                 monitor : Monitors,
                 found : [bin : Files, running : Versions \cup {Absent},
                          bakBin : Files, stray : BOOLEAN]]
SessionRecord == [pc : {"closed", "exporter", "wait", "firewall",
                        "wait_firewall", "verify", "confirmed", "failed"},
                  job : Jobs, version : Versions \cup {Absent},
                  monitor : Monitors]

Bare == [bin |-> Absent, unit |-> FALSE, bakBin |-> Absent, bakUnit |-> FALSE,
         running |-> Absent]

\* A host nobody touched, or one with an exporter: serving, stopped, or
\* copied by hand without a unit.
Hosts ==
    {Bare} \cup {[Bare EXCEPT !.bin = v] : v \in Versions}
    \cup UNION {{[Bare EXCEPT !.bin = v, !.unit = TRUE, !.running = r] :
                    r \in {v, Absent}} : v \in Versions}

NoVersion == CHOOSE v \in Offered : TRUE
NoMonitor == CHOOSE m \in Monitors : TRUE
NoScript  == [name |-> "install", pc |-> "idle", armed |-> FALSE,
              version |-> NoVersion, monitor |-> NoMonitor,
              found |-> [bin |-> Absent, running |-> Absent, bakBin |-> Absent,
                         stray |-> FALSE]]
NoSession == [pc |-> "closed", job |-> "onboard", version |-> Absent,
              monitor |-> NoMonitor]

\* One list of rules holds those of others too; the table of nft is
\* SuperFlash's own.
Shared == backend.kind \in {"ufw", "iptables"}

HostInit ==
    /\ host \in Hosts
    /\ backend \in Firewalls /\ overruled = FALSE
    /\ \/ rules = <<>>
       \/ Shared /\ \E n \in 1 .. MaxForeign : rules \in [1 .. n -> Foreign]
    /\ script = NoScript /\ session = NoSession
    /\ faults = 0

-----------------------------------------------------------------------------
(* The firewall.                                                           *)

\* An accept in one chain of nft does not keep a later one from dropping.
OwnTablesDrop == backend.kind = "nft" /\ backend.drops

\* What happens to a connection to port 9100 from src: the first rule that
\* matches decides, and the default if none does.
Admitted(src) ==
    LET hit == SelectInSeq(rules, LAMBDA r : r \in {src, Deny, Open, Shut})
    IN  IF hit = 0 THEN ~backend.drops
        ELSE rules[hit] \notin {Deny, Shut} /\ ~OwnTablesDrop

\* configure: "|| insert 1 allow"; nft has no insert, it adds to its chain.
AllowFor(m) ==
    IF Contains(rules, m) THEN rules
    ELSE IF backend.kind = "nft" THEN Append(rules, m) ELSE InsertAt(rules, 1, m)

\* What the check before the deny takes for it: ufw is asked for a denial of
\* the port, whoever made it; iptables for one with SuperFlash's comment.
DenyThere ==
    Contains(rules, Deny) \/ (backend.kind = "ufw" /\ Contains(rules, Shut))

\* Fault: the deny is added to the end everywhere.
DenyOthers_Last == IF DenyThere THEN rules ELSE Append(rules, Deny)

\* configure: "|| insert 2 deny".
DenyOthers ==
    IF DenyThere THEN rules
    ELSE IF backend.kind = "nft" THEN Append(rules, Deny)
    ELSE InsertAt(rules, 2, Deny)

\* Somebody else adds a rule of his own, in front of SuperFlash's or behind.
Meddle ==
    /\ Shared
    /\ Cardinality({i \in DOMAIN rules : rules[i] \in Foreign}) < MaxForeign
    /\ \E i \in 1 .. Len(rules) + 1, r \in Foreign :
         /\ rules' = InsertAt(rules, i, r)
         /\ overruled' = (overruled \/ \E j \in i .. Len(rules) : rules[j] \notin Foreign)
    /\ UNCHANGED <<host, backend, script, session, faults>>

\* Fault: the deny is not asked for.
Shown_AllowOnly(m) ==
    CASE Contains(rules, m) -> "restricted"
      [] OTHER -> "not_configured"

\* detect_firewall on the output of FIREWALL_STATUS run as root.  A denial
\* counts whoever made it, and ufw always prints its default policies, so that
\* the word "deny" is there whatever its rules say; the other tools print
\* nothing when there is no rule.
Shown(m) ==
    LET deny == Contains(rules, Deny) \/ Contains(rules, Shut) \/ backend.kind = "ufw"
    IN  CASE Contains(rules, m) /\ deny   -> "restricted"
          [] Contains(rules, m) /\ ~deny  -> "partial"
          [] ~Contains(rules, m) /\ rules # <<>> -> "exposed"
          [] rules = <<>> -> IF backend.kind = "ufw" THEN "not_configured"
                             ELSE "unknown"

-----------------------------------------------------------------------------
(* The session.                                                            *)

Alive == script.pc # "idle"

\* A job opens a session; a job that updates must name a version.
OpenSession ==
    /\ session.pc \in {"closed", "confirmed", "failed"}
    /\ \E job \in Jobs, v \in Offered \cup {Absent}, m \in Monitors :
         /\ job = "update" => v # Absent
         /\ job \in {"repair", "rollback"} => v = Absent
         /\ session' = [pc |-> "exporter", job |-> job, version |-> v, monitor |-> m]
    /\ UNCHANGED <<host, rules, backend, overruled, script, faults>>

\* The first script of the job; an onboarding leaves a healthy exporter of
\* the configured version, or of any if none is configured, as it is.
ScriptFor ==
    CASE session.job = "repair"    -> "repair"
      [] session.job = "update"    -> "update"
      [] session.job = "reinstall" -> "install"
      [] session.job = "rollback"  -> "remove"
      [] OTHER -> IF host.running = Absent THEN "install"
                  ELSE IF session.version \in {Absent, host.bin} THEN "none"
                  ELSE "update"

FirstStep == [install |-> "fetch", update |-> "delegate", repair |-> "unit",
              remove |-> "stop", configure |-> "allow", unconfigure |-> "unallow"]

\* run_script: the file is uploaded and executed, with the version in its
\* environment.
Launch(name, v, pc) ==
    /\ ~Alive
    /\ script' = [name |-> name, pc |-> FirstStep[name], armed |-> FALSE,
                  version |-> v, monitor |-> session.monitor,
                  found |-> [bin |-> host.bin, running |-> host.running,
                             bakBin |-> host.bakBin,
                             stray |-> host.running # Absent /\ ~host.unit]]
    /\ session' = [session EXCEPT !.pc = pc, !.version = Absent]

RunScript ==
    /\ session.pc = "exporter" /\ ScriptFor # "none"
    /\ \E v \in Offered :
         /\ IF ScriptFor = "install" THEN session.version \in {v, Absent}
            ELSE v = NoVersion
         /\ Launch(ScriptFor, v, "wait")
    /\ UNCHANGED <<host, rules, backend, overruled, faults>>

LeaveExporter ==
    /\ session.pc = "exporter" /\ ScriptFor = "none"
    /\ session' = [session EXCEPT !.pc = "firewall"]
    /\ UNCHANGED <<host, rules, backend, overruled, script, faults>>

RunFirewallScript ==
    /\ session.pc = "firewall"
    /\ Launch(IF session.job = "rollback" THEN "unconfigure" ELSE "configure",
              NoVersion, "wait_firewall")
    /\ UNCHANGED <<host, rules, backend, overruled, faults>>

\* The session is closed; what it ended with is kept, its request is not.
Ended(pc) == [NoSession EXCEPT !.pc = pc, !.monitor = session.monitor]

\* The exit status reaches the session, if it still waits: a rollback goes on
\* to the firewall whatever the first script says.
Answered(ok) ==
    CASE session.pc = "wait" ->
            IF ok \/ session.job = "rollback"
            THEN [session EXCEPT !.pc = "firewall"] ELSE Ended("failed")
      [] session.pc = "wait_firewall" ->
            IF session.job = "rollback" THEN Ended("closed")
            ELSE IF ok THEN [session EXCEPT !.pc = "verify"] ELSE Ended("failed")
      [] OTHER -> session

\* CHECK_EXPORTER after the scripts.
Verify ==
    /\ session.pc = "verify"
    /\ session' = Ended(IF host.running # Absent THEN "confirmed" ELSE "failed")
    /\ UNCHANGED <<host, rules, backend, overruled, script, faults>>

\* The budget of _collect_channel_result is over, the connection is lost or
\* the job is cancelled at a checkpoint: nothing tells the script.
GiveUp ==
    /\ session.pc \in {"exporter", "wait", "firewall", "wait_firewall", "verify"}
    /\ session' = Ended("failed")
    /\ UNCHANGED <<host, rules, backend, overruled, script, faults>>

-----------------------------------------------------------------------------
(* The scripts.                                                            *)

At(name, pc) == script.name = name /\ script.pc = pc

\* The command succeeds: the host changes and the next one follows.
Then(newHost, pc) ==
    /\ host' = newHost
    /\ script' = [script EXCEPT !.pc = pc]
    /\ UNCHANGED <<rules, session>>

\* The script ends.
Exit(ok) ==
    /\ script' = NoScript
    /\ session' = Answered(ok)

\* Fault: the trap only cleans.
OnError_NoUndo == Exit(FALSE)

\* A command fails under "set -Eeuo pipefail": the EXIT trap undoes the
\* replacement if it was made and not confirmed yet.
OnError ==
    IF script.armed
    THEN script' = [script EXCEPT !.pc = "undo_stop"] /\ UNCHANGED session
    ELSE Exit(FALSE)

Fails ==
    /\ script.pc \in {"fetch", "backup_bin", "backup_unit", "replace", "unit",
                      "start", "probe", "delegate", "allow", "deny"}
    /\ OnError
    /\ UNCHANGED <<host, rules, backend, overruled, faults>>

\* systemctl can start what is installed.
Startable == host.unit /\ host.bin \in Versions

\* "enable --now" starts the unit only if it does not run already.
Started == IF host.running = Absent THEN host.bin ELSE host.running

\* "if [[ -f bin ]]; then install bin bak": an older backup stays otherwise.
Backup == IF host.bin = Absent THEN host ELSE [host EXCEPT !.bakBin = host.bin]

\* rollback(): each file comes back from its backup, or is removed.
Restored == [host EXCEPT !.bin = host.bakBin, !.unit = host.bakUnit]

\* install-node-exporter.sh, command by command.
Install ==
    /\ \/ At("install", "fetch") /\ Then(host, "backup_bin")
       \/ At("install", "backup_bin") /\ Then(Backup, "backup_unit")
       \/ /\ At("install", "backup_unit")
          /\ Then([host EXCEPT !.bakUnit = @ \/ host.unit], "replace")
       \/ /\ At("install", "replace")
          /\ host' = [host EXCEPT !.bin = script.version]
          /\ script' = [script EXCEPT !.pc = "unit", !.armed = TRUE]
          /\ UNCHANGED <<rules, session>>
       \/ At("install", "unit") /\ Then([host EXCEPT !.unit = TRUE], "start")
       \/ /\ At("install", "start") /\ Startable
          /\ Then([host EXCEPT !.running = Started], "probe")
       \/ /\ At("install", "probe") /\ host.running # Absent
          /\ script' = [script EXCEPT !.pc = "clean", !.armed = FALSE]
          /\ UNCHANGED <<host, rules, session>>
       \/ /\ At("install", "clean")
          /\ \E bin \in {host.bakBin, Absent}, unit \in {host.bakUnit, FALSE} :
               /\ host' = [host EXCEPT !.bakBin = bin, !.bakUnit = unit]
               /\ Exit(bin = Absent /\ ~unit)
          /\ UNCHANGED rules
       \/ /\ At("install", "undo_stop")
          /\ \E left \in {host.running, Absent} :
               Then([host EXCEPT !.running = left], "undo_files")
       \/ At("install", "undo_files") /\ Then(Restored, "undo_start")
       \/ /\ At("install", "undo_start")
          /\ host' = IF Startable THEN [host EXCEPT !.running = Started] ELSE host
          /\ Exit(FALSE)
          /\ UNCHANGED rules
    /\ UNCHANGED <<backend, overruled, faults>>

\* A failure that nothing undoes: the copy over the binary is cut short before
\* ROLLBACK_NEEDED=1, or the trap itself fails to put a file back, which ends
\* it, or to start what it put back.
Unrecovered ==
    /\ faults < MaxFaults
    /\ \/ At("install", "replace") /\ host' = [host EXCEPT !.bin = Broken]
       \/ /\ At("install", "undo_files")
          /\ \E bin \in {host.bin, Broken, host.bakBin}, unit \in {host.unit, host.bakUnit} :
               host' = [host EXCEPT !.bin = bin, !.unit = unit]
       \/ At("install", "undo_start") /\ host' = host
    /\ Exit(FALSE)
    /\ faults' = faults + 1
    /\ UNCHANGED <<rules, backend, overruled>>

\* update-node-exporter.sh looks for the installer beside itself, in /tmp,
\* where run_script uploaded only the update: it ends with 127 or, when there
\* is no binary, with 1.
Update ==
    /\ At("update", "delegate")
    /\ Exit(FALSE)
    /\ UNCHANGED <<host, rules, backend, overruled, faults>>

Repaired == [host EXCEPT !.running = Started]

\* repair-node-exporter.sh: the unit is written only if it is missing.
Repair ==
    /\ \/ /\ At("repair", "unit") /\ host.bin # Absent
          /\ Then([host EXCEPT !.unit = TRUE], "start")
       \/ At("repair", "start") /\ Startable /\ Then(Repaired, "probe")
       \/ /\ At("repair", "probe") /\ host.running # Absent
          /\ Exit(TRUE)
          /\ UNCHANGED <<host, rules>>
    /\ UNCHANGED <<backend, overruled, faults>>

\* remove-node-exporter.sh: "disable --now ... || true" may leave the process;
\* rm or daemon-reload may fail, which ends the script; backups stay; the
\* firewall script it calls was not uploaded, and its failure is ignored.
Removal ==
    /\ \/ /\ At("remove", "stop")
          /\ \E left \in {host.running, Absent} :
               Then([host EXCEPT !.running = left], "rm")
       \/ /\ At("remove", "rm")
          /\ \E bin \in {host.bin, Absent}, unit \in {host.unit, FALSE}, ok \in BOOLEAN :
               /\ ok => bin = Absent /\ ~unit
               /\ host' = [host EXCEPT !.bin = bin, !.unit = unit]
               /\ Exit(ok)
          /\ UNCHANGED rules
    /\ UNCHANGED <<backend, overruled, faults>>

\* configure-node-exporter-firewall.sh: each rule is checked and inserted.
\* Without a firewall it ends with 3, a failure of its first command.
Configure ==
    /\ backend.kind # "none"
    /\ \/ /\ At("configure", "allow")
          /\ rules' = AllowFor(script.monitor)
          /\ script' = [script EXCEPT !.pc = "deny"]
          /\ UNCHANGED session
       \/ /\ At("configure", "deny")
          /\ rules' = DenyOthers
          /\ Exit(TRUE)
    /\ UNCHANGED <<host, backend, overruled, faults>>

\* FIREWALL_ACTION=remove: one rule at a time, or the table of nft.  Each
\* command ends in "|| true", so that a rule may stay and the script ends well.
Unconfigure ==
    /\ \/ /\ Shared /\ At("unconfigure", "unallow")
          /\ rules' \in {rules, RemoveFirst(rules, script.monitor)}
          /\ script' = [script EXCEPT !.pc = "undeny"]
          /\ UNCHANGED session
       \/ /\ Shared /\ At("unconfigure", "undeny")
          /\ rules' \in {rules, RemoveFirst(rules, Deny)}
          /\ Exit(TRUE)
       \/ /\ ~Shared /\ At("unconfigure", "unallow")
          /\ rules' \in {rules, <<>>}
          /\ Exit(backend.kind = "nft")
    /\ UNCHANGED <<host, backend, overruled, faults>>

\* The script dies without running its trap.
Kill ==
    /\ Alive /\ faults < MaxFaults
    /\ Exit(FALSE)
    /\ faults' = faults + 1
    /\ UNCHANGED <<host, rules, backend, overruled>>

HostNext ==
    \/ OpenSession \/ RunScript \/ LeaveExporter \/ RunFirewallScript \/ Verify \/ GiveUp
    \/ Install \/ Unrecovered \/ Update \/ Repair \/ Removal
    \/ Configure \/ Unconfigure \/ Meddle \/ Fails \/ Kill

HostSpec == HostInit /\ [][HostNext]_hostVars

-----------------------------------------------------------------------------
(* Properties.                                                             *)

HostTypeOK ==
    /\ host \in HostRecord
    /\ backend \in Firewalls /\ overruled \in BOOLEAN
    /\ \A i \in DOMAIN rules : rules[i] \in Monitors \cup {Deny} \cup Foreign
    /\ script \in ScriptRecord /\ session \in SessionRecord
    /\ faults \in 0 .. MaxFaults

Installing == Alive /\ script.name = "install"

\* While an installation is under way the host counts as it was found.
Installed == IF Installing THEN script.found.bin ELSE host.bin
Serving   == IF Installing THEN script.found.running ELSE host.running
Requested == IF Installing THEN script.version ELSE Absent
Relic     == IF Installing THEN script.found.bakBin ELSE host.bakBin
Stray     == IF Installing THEN script.found.stray
             ELSE host.running # Absent /\ ~host.unit

Promise == INSTANCE ExporterPromise WITH
    installed <- Installed, serving <- Serving, request <- Requested,
    relic <- Relic, stray <- Stray

\* "el instalador restaura el binario y unit anteriores si la validacion
\* falla": install, repair and remove implement the promise, whichever command
\* of theirs fails, aloud or passed over, and whenever the session gives up
\* (run_script, the EXIT trap); a kill and a failure inside the trap are the
\* faults the promise lets break it.
KeepsPromise == Promise!PromiseSpec

\* SuperFlash's rules come first and are its own: nobody put another one in
\* front of them, and ufw did not take somebody's denial for SuperFlash's.
Undisputed == ~overruled /\ ~(backend.kind = "ufw" /\ Contains(rules, Shut))

\* A job that ends validated leaves the port open to the monitor and to nobody
\* else, whatever rules others had there or added behind, whichever earlier
\* scripts were interrupted or left a rule (maintenance and run after the
\* script).  Verify asks from the host itself, so that three hosts are beyond
\* it: one whose own nft tables drop what SuperFlash accepts, one where the
\* rules are not undisputed, and one whose monitor had another address before,
\* whose rules stay and may refuse the new one.
FirewallConfirmed ==
    session.pc = "confirmed" /\ Undisputed =>
        (Admitted(session.monitor) \/ OwnTablesDrop) /\ ~Admitted(Outsider)

=============================================================================
