----------------------------- MODULE HostChecks -----------------------------
(***************************************************************************)
(* What the panel finds out about a host before and after it administers   *)
(* it: how a call connects (retries, host key, credentials), and what the  *)
(* four readers of the host conclude from the same facts: the SSH test and *)
(* the discovery of the wizard, the precheck of the job, the diagnosis.    *)
(*                                                                         *)
(* The readers change nothing on the host, so that a call is made while no *)
(* session of ExporterHost is open, and a host that would fail a precheck  *)
(* is not administered.  Each reader is an operator of the facts.          *)
(***************************************************************************)
EXTENDS ExporterHost

CONSTANTS
    Retries     \* ssh_retry_count

ASSUME ChecksAssumption == Retries \in Nat

VARIABLES
    facts,      \* what is so on the host and on the way to it
    call        \* the connection attempts of a call

checkVars == <<facts, call>>
vars == <<hostVars, checkVars>>

\* The values of each fact; the host key is listed in known_hosts, is not, or
\* is listed with another key.
FactValues == [
    route      |-> {"open", "flaky", "closed"},
    key        |-> {"listed", "unlisted", "other"},
    login      |-> BOOLEAN,
    root       |-> {"login", "sudo", "none"},
    tools      |-> BOOLEAN,
    systemd    |-> BOOLEAN,
    taken      |-> BOOLEAN,
    inventory  |-> {"full", "nameless", "no_interfaces", "failed"},
    arch       |-> BOOLEAN,
    tmp        |-> BOOLEAN,
    interface  |-> {"unset", "present", "missing"},
    prometheus |-> {"unset", "unreachable", "no_series", "down", "up"}]

Sound == [route |-> "open", key |-> "listed", login |-> TRUE, root |-> "login",
          tools |-> TRUE, systemd |-> TRUE, taken |-> FALSE,
          inventory |-> "full", arch |-> TRUE, tmp |-> TRUE,
          interface |-> "unset", prometheus |-> "up"]

\* Bound: hosts that differ from a sound one in at most two facts.
Differ(f) == UNION {{[f EXCEPT ![k] = v] : v \in FactValues[k]} : k \in DOMAIN f}
Facts     == UNION {Differ(f) : f \in Differ(Sound)}

NoCall == [pc |-> "none", attempt |-> 0, expected |-> "none", sent |-> 0,
           refused |-> 0]

ChecksInit ==
    /\ HostInit
    /\ facts \in Facts
    /\ call = NoCall

-----------------------------------------------------------------------------
(* SSHConnectionService.connect.                                           *)

\* A request with the fingerprint the operator confirmed, or with none; the
\* fingerprint that was confirmed may be that of another key.
Connect ==
    /\ call.pc = "none" /\ session.pc = "closed" /\ ~Alive
    /\ \E e \in {"none", "right", "wrong"} :
         call' = [NoCall EXCEPT !.pc = "connecting", !.expected = e]

\* FingerprintHostKeyPolicy is asked only for a host that is not listed.
KeyAccepted ==
    \/ facts.key = "listed"
    \/ facts.key = "unlisted" /\ call.expected = "right"

\* Fault: any failed attempt but the last is repeated.
Again_Always(transport) == call.attempt < Retries

\* Fault: one attempt too many.
Again_OffByOne(transport) == transport /\ call.attempt <= Retries

\* Only errors of the transport are repeated, ssh_retry_count times.
Again(transport) == transport /\ call.attempt < Retries

\* An attempt ends without a session.
Missed(transport, c) ==
    call' = IF Again(transport)
            THEN [c EXCEPT !.attempt = @ + 1]
            ELSE [c EXCEPT !.pc = "over"]

Attempt ==
    /\ call.pc = "connecting"
    /\ LET sent == [call EXCEPT !.sent = @ + 1]
       IN  \/ facts.route # "open" /\ Missed(TRUE, call)
           \/ facts.route # "closed" /\ ~KeyAccepted /\ Missed(FALSE, call)
           \/ /\ facts.route # "closed" /\ KeyAccepted
              /\ \/ facts.login /\ call' = [sent EXCEPT !.pc = "over"]
                 \/ ~facts.login /\ Missed(FALSE, [sent EXCEPT !.refused = @ + 1])
                 \/ facts.route = "flaky" /\ Missed(TRUE, sent)

HangUp ==
    /\ call.pc = "over"
    /\ call' = NoCall

\* A session of ExporterHost, on a host that passes its precheck.
Administer == facts = Sound /\ call.pc = "none" /\ HostNext

Next ==
    \/ (Connect \/ Attempt \/ HangUp) /\ UNCHANGED <<facts, hostVars>>
    \/ Administer /\ UNCHANGED checkVars

Spec == ChecksInit /\ [][Next]_vars

-----------------------------------------------------------------------------
(* What the readers see.                                                   *)

ExporterOk == host.running # Absent
Occupied   == ExporterOk \/ facts.taken
Privileged == facts.root # "none"

\* _prometheus_target_status.
TargetStatus ==
    CASE facts.prometheus = "up"        -> "UP"
      [] facts.prometheus = "no_series" -> "PENDING_SCRAPE"
      [] OTHER                          -> "CONNECTION_FAILED"

\* Interfaces that parse_inventory_output finds in the output.
SomeInterface == facts.inventory \in {"full", "nameless"}

\* _network_is_valid.
NetworkValid == SomeInterface /\ facts.interface # "missing"

\* detect_firewall sees nothing without root.
SeenFirewall(m) == IF Privileged THEN Shown(m) ELSE "unknown"

\* test_ssh: the errors of its answer.
TestErrors ==
    LET found == [temporary_directory |-> ~facts.tmp,
                  inventory |-> facts.inventory \in {"failed", "nameless"},
                  privilege |-> ~Privileged]
    IN  {e \in DOMAIN found : found[e]}

\* Fault: an occupied port is an error whoever answers on it.
Blocking_AnyListener ==
    LET found == [requirements |-> ~(facts.tools /\ facts.systemd),
                  port      |-> Occupied,
                  privilege |-> ~Privileged,
                  inventory |-> facts.inventory # "full"]
    IN  {e \in DOMAIN found : found[e]}

\* discover: its blocking_errors.
Blocking ==
    LET found == [requirements |-> ~(facts.tools /\ facts.systemd),
                  port      |-> Occupied /\ ~ExporterOk,
                  privilege |-> ~Privileged,
                  inventory |-> facts.inventory # "full"]
    IN  {e \in DOMAIN found : found[e]}

\* _discover_and_precheck, in its order; systemd itself is not looked at.
Precheck ==
    CASE ~facts.tools                       -> "requirements_missing"
      [] Occupied /\ ~ExporterOk            -> "port_9100_occupied"
      [] ~Privileged                        -> "requirements_missing"
      [] facts.inventory = "failed"         -> "inventory_failed"
      [] ~facts.arch                        -> "requirements_missing"
      [] facts.inventory # "full"           -> "inventory_failed"
      [] facts.interface = "missing"        -> "network_interface_missing"
      [] OTHER                              -> "passed"

\* The job gets to run a script: the precheck passes and run_script can write
\* the script to /tmp.
JobReachesHost == Precheck = "passed" /\ facts.tmp

\* diagnose: PASS or PARTIAL.
DiagnosisPasses(m) ==
    /\ ExporterOk
    /\ SeenFirewall(m) = "restricted"
    /\ NetworkValid
    /\ TargetStatus = "UP"

-----------------------------------------------------------------------------
(* Properties.                                                             *)

ChecksTypeOK ==
    /\ HostTypeOK
    /\ facts \in Facts
    /\ call.pc \in {"none", "connecting", "over"}
    /\ call.attempt \in 0 .. Retries
    /\ call.expected \in {"none", "right", "wrong"}

\* Credentials go only to a host whose key is listed or was confirmed, and a
\* refusal is final: no call offers a refused password twice, although it
\* repeats attempts that the network cut (connect and its handlers).
CredentialsSpared ==
    /\ call.refused <= 1
    /\ call.sent > 0 =>
          \/ facts.key = "listed"
          \/ facts.key = "unlisted" /\ call.expected = "right"

\* The wizard and the job judge a host by two copies of the same checks.  A
\* host with a clean test and a clean discovery gets its scripts, unless its
\* architecture or the chosen interface, which only the job looks at, is
\* wrong; and a host the job would take is not turned away, unless systemd
\* does not run, which only the discovery looks at.
WizardPredictsJob ==
    LET clean == TestErrors = {} /\ Blocking = {}
    IN  /\ clean => JobReachesHost \/ ~facts.arch \/ facts.interface = "missing"
        /\ JobReachesHost => clean \/ ~facts.systemd

\* A diagnosis that passes is true of the host at that moment, whichever
\* script is at work or was interrupted: the exporter answers, the monitor is
\* let in and others are not.  Except where the word "deny" comes from
\* elsewhere and makes half a configuration look whole (the default policies
\* of ufw, a denial of somebody else), where somebody's rule stands in front
\* or the host's own nft tables drop, and for a monitor whose address has
\* changed: the rule that lets it in may stand behind one that does not.
DiagnosisIsTrue ==
    \A m \in Monitors : DiagnosisPasses(m) /\ ~overruled =>
        /\ host.running # Absent
        /\ Admitted(m) \/ OwnTablesDrop
        /\ Admitted(Outsider) => backend.kind = "ufw" \/ Contains(rules, Shut)

=============================================================================
