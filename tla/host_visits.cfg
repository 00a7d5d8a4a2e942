\* One host through sessions of every job, and every host with two defects.
CONSTANTS
  Versions = {v1, v2}
  Offered = {v2}
  Firewalls <- OneOfEach
  Monitors = {monitor}
  Outsider = outsider
  Absent = Absent
  Broken = Broken
  MaxFaults = 1
  MaxForeign = 1
  Retries = 2
SPECIFICATION Spec
INVARIANTS ChecksTypeOK FirewallConfirmed CredentialsSpared WizardPredictsJob DiagnosisIsTrue
PROPERTIES KeepsPromise
