-------------------------- MODULE HostChecksProofs --------------------------
(***************************************************************************)
(* Proofs about HostChecks, for any number of retries: the credentials are *)
(* spared whatever the network does, the sessions among the calls still    *)
(* keep the promise of the scripts, and the readers of a host say of it    *)
(* what is so.                                                             *)
(***************************************************************************)
EXTENDS HostChecks, ExporterHostProofs

-----------------------------------------------------------------------------
(* Credentials.                                                            *)

CallRecord == [pc : {"none", "connecting", "over"}, attempt : Nat,
               expected : {"none", "right", "wrong"}, sent : Nat, refused : Nat]

\* While the call goes on nothing was refused, and what was sent went to a key
\* that was listed or confirmed.
CallInv ==
    /\ call \in CallRecord
    /\ call.pc # "over" => call.refused = 0
    /\ call.refused <= 1
    /\ call.sent > 0 => KeyAccepted

(* An attempt that ends without a session, whatever it has sent. *)
LEMMA MissedCall ==
  ASSUME NEW transport \in BOOLEAN, NEW c \in CallRecord, Missed(transport, c)
  PROVE  /\ call' \in CallRecord /\ call'.pc \in {c.pc, "over"}
         /\ call'.expected = c.expected /\ call'.sent = c.sent /\ call'.refused = c.refused
         /\ ~transport => call'.pc = "over"
BY DEF Missed, Again, CallRecord

(* Every attempt keeps the invariant. *)
LEMMA AttemptSpares == ASSUME CallInv, Attempt, UNCHANGED facts PROVE CallInv'
<1> DEFINE sent == [call EXCEPT !.sent = @ + 1]
           refused == [sent EXCEPT !.refused = @ + 1]
<1>1. /\ call \in CallRecord /\ call.pc = "connecting" /\ call.refused = 0
      /\ call.sent \in Nat
  BY DEF CallInv, Attempt, CallRecord
<1>2. /\ sent \in CallRecord /\ sent.pc = "connecting" /\ sent.refused = 0
      /\ sent.expected = call.expected
  BY <1>1 DEF CallRecord
<1> HIDE DEF sent
<1>3. /\ refused \in CallRecord /\ refused.pc = "connecting" /\ refused.refused = 1
      /\ refused.expected = call.expected
  BY <1>2 DEF CallRecord
<1> HIDE DEF refused
<1>4. CASE Missed(TRUE, call) \/ Missed(FALSE, call)
  <2>1. /\ call' \in CallRecord /\ call'.expected = call.expected
        /\ call'.sent = call.sent /\ call'.refused = 0
    BY <1>1, <1>4, MissedCall
  <2> QED
    BY <2>1 DEF CallInv, KeyAccepted
<1>5. CASE KeyAccepted /\ call' = [sent EXCEPT !.pc = "over"]
  <2>1. call' \in CallRecord /\ call'.refused = 0 /\ call'.expected = call.expected
    BY <1>2, <1>5 DEF CallRecord
  <2> QED
    BY <1>5, <2>1 DEF CallInv, KeyAccepted
<1>6. CASE KeyAccepted /\ Missed(FALSE, refused)
  <2>1. /\ call' \in CallRecord /\ call'.expected = call.expected
        /\ call'.refused = 1 /\ call'.pc = "over"
    BY <1>3, <1>6, MissedCall
  <2> QED
    BY <1>6, <2>1 DEF CallInv, KeyAccepted
<1>7. CASE KeyAccepted /\ Missed(TRUE, sent)
  <2>1. /\ call' \in CallRecord /\ call'.expected = call.expected /\ call'.refused = 0
    BY <1>2, <1>7, MissedCall
  <2> QED
    BY <1>7, <2>1 DEF CallInv, KeyAccepted
<1> QED
  BY <1>4, <1>5, <1>6, <1>7 DEF Attempt, sent, refused

(* Every step does. *)
LEMMA StepSpares == CallInv /\ [Next]_vars => CallInv'
<1> SUFFICES ASSUME CallInv, [Next]_vars PROVE CallInv'
  OBVIOUS
<1>1. CASE Connect /\ UNCHANGED facts
  <2>1. PICK e \in {"none", "right", "wrong"} :
          call' = [NoCall EXCEPT !.pc = "connecting", !.expected = e]
    BY <1>1 DEF Connect
  <2>2. call' = [pc |-> "connecting", attempt |-> 0, expected |-> e, sent |-> 0,
                 refused |-> 0]
    BY <2>1 DEF NoCall
  <2> QED
    BY <2>2 DEF CallInv, CallRecord
<1>2. CASE Attempt /\ UNCHANGED facts
  BY <1>2, AttemptSpares
<1>3. CASE HangUp /\ UNCHANGED facts
  BY <1>3 DEF HangUp, NoCall, CallInv, CallRecord
<1>4. CASE UNCHANGED checkVars
  BY <1>4 DEF checkVars, CallInv, KeyAccepted
<1> QED
  BY <1>1, <1>2, <1>3, <1>4 DEF Next, vars, checkVars

(* A call never sends the credentials to a host whose key is neither       *)
(* listed nor confirmed, and never again after they were refused.          *)
THEOREM Spared == Spec => []CredentialsSpared
<1>1. ChecksInit => CallInv
  BY DEF ChecksInit, NoCall, CallInv, CallRecord
<1>2. CallInv => CredentialsSpared
  BY DEF CallInv, CredentialsSpared, KeyAccepted
<1> QED
  BY <1>1, <1>2, StepSpares, PTL DEF Spec

-----------------------------------------------------------------------------
(* The sessions among the calls keep the promise of the scripts, with the  *)
(* limits that promise states.                                             *)
THEOREM VisitsKeepPromise == Spec => KeepsPromise
<1>1. ChecksInit => HostInit
  BY DEF ChecksInit
<1>2. [Next]_vars => [HostNext]_hostVars
  BY DEF Next, vars, Administer
<1> QED
  BY <1>1, <1>2, PromiseKept, PTL DEF Spec, HostSpec

-----------------------------------------------------------------------------
(* Types.                                                                  *)

ChecksInv ==
    /\ IInv /\ FirewallInv /\ faults \in 0 .. MaxFaults
    /\ backend \in Firewalls /\ facts \in Facts
    /\ call \in CallRecord /\ call.attempt \in 0 .. Retries

(* An attempt is counted only when another one may follow. *)
LEMMA MissedCounts ==
  ASSUME NEW transport \in BOOLEAN, NEW c \in CallRecord, Missed(transport, c),
         c.attempt = call.attempt, c.attempt \in 0 .. Retries
  PROVE  call' \in CallRecord /\ call'.attempt \in 0 .. Retries
<1>1. CASE Again(transport)
  <2>1. call' = [c EXCEPT !.attempt = c.attempt + 1] /\ call.attempt < Retries
    BY <1>1 DEF Missed, Again
  <2>2. call' \in CallRecord /\ call'.attempt = c.attempt + 1
    BY <2>1 DEF CallRecord
  <2> QED
    BY <2>1, <2>2, ChecksAssumption
<1>2. CASE ~Again(transport)
  <2>1. call' = [c EXCEPT !.pc = "over"]
    BY <1>2 DEF Missed
  <2>2. call' \in CallRecord /\ call'.attempt = c.attempt
    BY <2>1 DEF CallRecord
  <2> QED
    BY <2>2
<1> QED
  BY <1>1, <1>2

LEMMA CallStep ==
  ASSUME ChecksInv, Connect \/ Attempt \/ HangUp
  PROVE  call' \in CallRecord /\ call'.attempt \in 0 .. Retries
<1> DEFINE sent == [call EXCEPT !.sent = @ + 1]
           refused == [sent EXCEPT !.refused = @ + 1]
<1>1. /\ call \in CallRecord /\ call.attempt \in 0 .. Retries
      /\ sent \in CallRecord /\ sent.attempt = call.attempt
      /\ refused \in CallRecord /\ refused.attempt = call.attempt
  <2>1. call \in CallRecord /\ call.attempt \in 0 .. Retries
    BY DEF ChecksInv
  <2>2. sent \in CallRecord /\ sent.attempt = call.attempt
    BY <2>1 DEF CallRecord
  <2> HIDE DEF sent
  <2>3. refused \in CallRecord /\ refused.attempt = sent.attempt
    BY <2>2 DEF CallRecord
  <2> QED
    BY <2>1, <2>2, <2>3
<1>2. CASE Connect
  <2>1. PICK e \in {"none", "right", "wrong"} :
          call' = [NoCall EXCEPT !.pc = "connecting", !.expected = e]
    BY <1>2 DEF Connect
  <2>2. call' = [pc |-> "connecting", attempt |-> 0, expected |-> e, sent |-> 0,
                 refused |-> 0]
    BY <2>1 DEF NoCall
  <2> QED
    BY <2>2, ChecksAssumption DEF CallRecord
<1>3. CASE HangUp
  BY <1>3, ChecksAssumption DEF HangUp, NoCall, CallRecord
<1>4. CASE Attempt
  <2>1. CASE call' = [sent EXCEPT !.pc = "over"]
    <3> HIDE DEF sent
    <3> QED
      BY <1>1, <2>1 DEF CallRecord
  <2>2. CASE \E transport \in BOOLEAN, c \in {call, sent, refused} : Missed(transport, c)
    <3> HIDE DEF sent, refused
    <3>1. PICK transport \in BOOLEAN, c \in {call, sent, refused} : Missed(transport, c)
      BY <2>2
    <3>2. c \in CallRecord /\ c.attempt = call.attempt /\ c.attempt \in 0 .. Retries
      BY <1>1, <3>1
    <3> QED
      BY <3>1, <3>2, MissedCounts
  <2> QED
    BY <1>4, <2>1, <2>2 DEF Attempt
<1> QED
  BY <1>2, <1>3, <1>4

LEMMA ChecksInitial == ChecksInit => ChecksInv
<1> SUFFICES ASSUME ChecksInit PROVE ChecksInv
  OBVIOUS
<1>1. IInv /\ FirewallInv /\ faults \in 0 .. MaxFaults
  BY InitKeepsPromise, FirewallInit, FaultsBounded DEF ChecksInit
<1>2. call \in CallRecord /\ call.attempt \in 0 .. Retries
  BY ChecksAssumption DEF ChecksInit, NoCall, CallRecord
<1> QED
  BY <1>1, <1>2 DEF ChecksInit, HostInit, ChecksInv

LEMMA ChecksStep == ChecksInv /\ [Next]_vars => ChecksInv'
<1> SUFFICES ASSUME ChecksInv, [Next]_vars PROVE ChecksInv'
  OBVIOUS
<1>1. [HostNext]_hostVars /\ facts' = facts
  BY DEF Next, vars, checkVars, Administer
<1>2. IInv' /\ FirewallInv'
  BY <1>1, StepKeepsPromise, FirewallStepKept DEF ChecksInv
<1>3. faults' \in 0 .. MaxFaults
  BY <1>1, FaultsBounded DEF ChecksInv
<1>4. call' \in CallRecord /\ call'.attempt \in 0 .. Retries
  <2>1. CASE call' = call
    BY <2>1 DEF ChecksInv
  <2> QED
    BY <2>1, CallStep DEF Next, vars, checkVars
<1>5. backend' = backend
  BY <1>1, BackendStays
<1> QED
  BY <1>1, <1>2, <1>3, <1>4, <1>5 DEF ChecksInv

(* The host, the rules, the sessions and the calls stay of their types:    *)
(* a rule is a monitor's or everyone's, and a call repeats at most         *)
(* ssh_retry_count times.                                                  *)
THEOREM ChecksTypeCorrect == Spec => []ChecksTypeOK
<1>1. ChecksInv => ChecksTypeOK
  <2> SUFFICES ASSUME ChecksInv PROVE ChecksTypeOK
    OBVIOUS
  <2>1. HostTypeOK
    BY HostTypes DEF ChecksInv
  <2> QED
    BY <2>1 DEF ChecksInv, CallRecord, ChecksTypeOK
<1> QED
  BY <1>1, ChecksInitial, ChecksStep, PTL DEF Spec

-----------------------------------------------------------------------------
(* What the readers conclude.                                              *)

(* The wizard and the job agree on a host, whatever is so on it: a clean   *)
(* test and a clean discovery (test_ssh, discover) mean that the precheck  *)
(* passes and a script can be written, and the other way round, but for    *)
(* the facts only one of them looks at.                                    *)
THEOREM WizardPredicts == Spec => []WizardPredictsJob
<1>1. TestErrors = {} <=>
        /\ facts.tmp /\ Privileged
        /\ facts.inventory \notin {"failed", "nameless"}
  <2> DEFINE found == [temporary_directory |-> ~facts.tmp,
                       inventory |-> facts.inventory \in {"failed", "nameless"},
                       privilege |-> ~Privileged]
  <2>1. DOMAIN found = {"temporary_directory", "inventory", "privilege"}
    OBVIOUS
  <2>2. /\ found["temporary_directory"] = ~facts.tmp /\ found["privilege"] = ~Privileged
        /\ found["inventory"] = (facts.inventory \in {"failed", "nameless"})
    OBVIOUS
  <2>3. TestErrors = {e \in DOMAIN found : found[e]}
    BY DEF TestErrors
  <2> HIDE DEF found
  <2> QED
    BY <2>1, <2>2, <2>3, Zenon
<1>2. Blocking = {} <=>
        /\ facts.tools /\ facts.systemd /\ Privileged /\ facts.inventory = "full"
        /\ ~(Occupied /\ ~ExporterOk)
  <2> DEFINE found == [requirements |-> ~(facts.tools /\ facts.systemd),
                       port |-> Occupied /\ ~ExporterOk,
                       privilege |-> ~Privileged,
                       inventory |-> facts.inventory # "full"]
  <2>1. DOMAIN found = {"requirements", "port", "privilege", "inventory"}
    OBVIOUS
  <2>2. /\ found["requirements"] = ~(facts.tools /\ facts.systemd)
        /\ found["port"] = (Occupied /\ ~ExporterOk)
        /\ found["privilege"] = ~Privileged
        /\ found["inventory"] = (facts.inventory # "full")
    OBVIOUS
  <2>3. Blocking = {e \in DOMAIN found : found[e]}
    BY DEF Blocking
  <2> HIDE DEF found
  <2> QED
    BY <2>1, <2>2, <2>3, Zenon
<1>3. JobReachesHost <=>
        /\ facts.tools /\ ~(Occupied /\ ~ExporterOk) /\ Privileged /\ facts.tmp
        /\ facts.inventory = "full" /\ facts.arch /\ facts.interface # "missing"
  BY DEF JobReachesHost, Precheck
<1>4. WizardPredictsJob
  BY <1>1, <1>2, <1>3 DEF WizardPredictsJob
<1> QED
  BY <1>4, PTL

(* The firewall looks restricted only when the monitor has a rule, and     *)
(* the others are denied, by whomever, or the tool prints the word by      *)
(* itself.                                                                 *)
LEMMA ShownRestricted ==
  ASSUME NEW m, Shown(m) = "restricted"
  PROVE  /\ Contains(rules, m)
         /\ Contains(rules, Deny) \/ Contains(rules, Shut) \/ backend.kind = "ufw"
<1> DEFINE deny == Contains(rules, Deny) \/ Contains(rules, Shut) \/ backend.kind = "ufw"
<1>1. CASE Contains(rules, m) /\ ~deny
  <2>1. Shown(m) = "partial"
    BY <1>1, Zenon DEF Shown
  <2> QED
    BY <2>1
<1>2. CASE ~Contains(rules, m) /\ rules # <<>>
  <2>1. Shown(m) = "exposed"
    BY <1>2, Zenon DEF Shown
  <2> QED
    BY <2>1
<1>3. CASE ~Contains(rules, m) /\ rules = <<>>
  <2>1. Shown(m) = IF backend.kind = "ufw" THEN "not_configured" ELSE "unknown"
    BY <1>3, Zenon DEF Shown
  <2> QED
    BY <2>1
<1> QED
  BY <1>1, <1>2, <1>3

(* A diagnosis that passes is true of the host at that moment, whichever   *)
(* script is at work or was interrupted (diagnose, detect_firewall), as    *)
(* long as the monitor has always had one address: but for rules that      *)
(* somebody put in front, own tables of nft that drop, and denials that    *)
(* are not SuperFlash's.                                                   *)
THEOREM DiagnosisTrue == ASSUME OneMonitor PROVE Spec => []DiagnosisIsTrue
<1>1. FixedInv => DiagnosisIsTrue
  <2> SUFFICES ASSUME FixedInv, NEW m \in Monitors, DiagnosisPasses(m), ~overruled
               PROVE  /\ host.running # Absent
                      /\ Admitted(m) \/ OwnTablesDrop
                      /\ Admitted(Outsider) => backend.kind = "ufw" \/ Contains(rules, Shut)
    BY DEF DiagnosisIsTrue
  <2>1. host.running # Absent /\ Shown(m) = "restricted"
    BY DEF DiagnosisPasses, ExporterOk, SeenFirewall
  <2>2. /\ Contains(rules, m)
        /\ Contains(rules, Deny) \/ Contains(rules, Shut) \/ backend.kind = "ufw"
    BY <2>1, ShownRestricted
  <2>3. RulesInv /\ OrderInv
    BY DEF FixedInv, FirewallInv
  <2>4. Admitted(m) \/ OwnTablesDrop
    BY <2>2, <2>3, FirstAdmits
  <2>5. Contains(rules, Deny) => ~Admitted(Outsider)
    BY <2>3, DenyShuts
  <2> QED
    BY <2>1, <2>2, <2>4, <2>5
<1>2. ChecksInit => FixedInv
  BY FixedInit DEF ChecksInit
<1>3. FixedInv /\ [Next]_vars => FixedInv'
  BY FixedStep DEF Next, vars, Administer
<1> QED
  BY <1>1, <1>2, <1>3, PTL DEF Spec

(* The same of the sessions among the calls: one that ended validated left *)
(* the port open to the monitor and to nobody else, on the hosts where     *)
(* Verify, which asks from the host itself, can know it.                   *)
THEOREM VisitsConfirm == ASSUME OneMonitor PROVE Spec => []FirewallConfirmed
<1>1. ChecksInit => HostInit
  BY DEF ChecksInit
<1>2. [Next]_vars => [HostNext]_hostVars
  BY DEF Next, vars, Administer
<1> QED
  BY <1>1, <1>2, ConfirmedFirewall, PTL DEF Spec, HostSpec

=============================================================================
