# A verification project for SuperFlash IA

TLA+ models of the monitoring platform in this repository (`app/`, `scripts/`,
`alembic/`), TLC configurations that check them on small instances, and proofs,
checked by TLAPS, of what matters most for every size. It is written from the
code; a document, a docstring or a test is quoted only where the code does
something else.

## 1. The system

A FastAPI process (`app/main.py`) over a SQL database (PostgreSQL in production,
SQLite in the tests). Handlers are synchronous and run on a thread pool, so two
requests interleave at every statement; background tasks run on the same pool; a
scheduler in the event loop starts collections on a thread. Several processes,
and the command line, may share the database.

| Part | State it keeps | Operations | What makes it correct |
|---|---|---|---|
| **SSH onboarding** (`services/onboarding_service.py`, `api/v1/onboarding.py`) | the row of `server_onboardings` (status, `cancel_requested`, error, `updated_at`), the server's `enabled` and contract, audit events | create, run (nine transitions), `_fail`, rollback, `recover_stale`; HTTP get/retry/cancel/rollback | completed means prepared; a cancellation stops the run; a verdict lasts until the operator takes it back; every job ends |
| **SSH transport and host scripts** (`services/ssh_service.py`, `scripts/*.sh`) | the remote host: exporter, unit, firewall rule, backups | connect, precheck, upload and run one script | a script run twice, or failing half way, leaves a host the next run can repair |
| **Collection runner** (`collectors/runner.py`, `lock.py`, `collection_run_repository.py`, `api/v1/collection.py`, `tasks/scheduler.py`, `tasks/collect.py`) | thread lock and `_running_since` per process, advisory lock, `collection_runs` | run, heartbeat, mark abandoned, finish, status | one collection at a time; the history tells the truth; dead rows settle |
| **Collection phases** (`collectors/collection.py`) | servers, channels, samples | sync servers, sync channels, store samples | an element's failure costs only that element |
| **Channel lifecycle** (`repositories/channel_repository.py`) | `channels`, `channel_category_history`, events, streams | upsert, adopt, reconcile, archive | one row per channel for ever; absent means inactive, then archived; the history covers the present |
| **Servers** (`api/v1/servers.py`, `repositories/server_repository.py`) | `servers` (enabled, lifecycle) | create, update, archive, delete; upsert by the collection | retired servers stay retired; a deletion never removes history |
| **Alerts** (`services/alert_service.py`, `alert_repository.py`, `api/v1/alerts.py`) | `alerts`, one row per fingerprint | evaluate on GET, PATCH | open alerts are the firing ones; acknowledgements last |
| **Adapters** (`adapters/`) | the sample of a cycle | read servers, channels, metrics | one sample per cycle |
| **Retention** (`services/retention_service.py`) | - | prune | only rows before the cutoff |
| **Overview, balance, recommendations, pagination** | - | pure functions of the latest samples | agree with their definitions |
| **Frontend** (`frontend/src`) | query caches | poll, act | ends its polling at a status that lasts |
| **Configuration, deployment** | - | - | out of scope |

How they interact. The scheduler, `POST /collection/run` and the command line call
the one runner of their process; the runner calls the phases with a heartbeat
callback that *commits the session the phases write to*. Phases upsert servers,
which onboarding and the servers API also write. The alerts endpoint reads the
samples the phases wrote. Onboarding adds the server a later collection reads.

What is hard. Every session is made with `expire_on_commit=False` and
`autoflush=False` (`database/session.py`): an object keeps the values it was loaded
with, and a commit updates the columns that differ from those values. So each
handler and job works on copies that grow old, and two of them merge column by
column. Background jobs are not restarted after a crash. Locks live on
connections that can drop. Parts of a run are committed before it ends. Time
decides what is stale. The `hazards` of `PROJECT.json` list each of these at its
line, with the properties that watch it.

## 2. The modules

Each module's comments say what every variable and action stands for; `map` in
`PROJECT.json` gives the lines of each definition. Definitions named
`Something_Variant` are wrong versions of `Something`, used to see that the
properties notice.

### `Onboarding`, `OnboardingPromise` (with `MCOnboarding` and `OnboardingProofs`)

One onboarding of one server. `ob` is its row, `server` the two columns of the
server, `remote` the host (which exporter, whether the managed firewall rule is
there), `jobs` the background jobs, `req` the HTTP requests in flight. Every job
and request has `copy`, the values its session loaded; `Merge` is the UPDATE that
writes only what differs from them.

`Flow` is the sequence of transitions of `run`. A transition is two actions,
because another session can commit between them: the refresh with its two checks
(`Transition`, at the end of `Work` and of `ConfigureFirewall`), and the write
(`Commit`). `_check_cancel` (`Guard`, `Promote`) only reads. `InstallExporter`,
`UpdateExporter` and `ConfigureFirewall` are the scripts, each with its effect on
the host or a failure that may have had the effect too. `RemoveExporter` and
`RemoveFirewall` may leave something and succeed: the scripts end the stop and the
deletes with `|| true` (`Leftovers`). `Complete` and `Fail` are
the two ends of `run`; `Fail` flushes the server's columns a run had already set.
`LoadRollback` to `AbortRollback` are the rollback job. `Begin`, `Recover`,
`Refuse`, `Retry`, `Cancel` and `Rollback` are the handlers, which load, may
recover a stale row, decide, and commit. `Crash` ends the process. `sinceCancel`
is a history variable: the scripts a run started after a cancellation was answered.

`OnboardingPromise` is what the dialog and the operator see of that: the status, the
job in progress, how many steps of the flow it has written, whether a cancellation was
asked, and whether the server is collected. A calm onboarding implements it
(`KeepsPromise`) under the mapping `Working`, `Progress`, `Asked`, in which refreshes,
checkpoints, scripts and copies of the row are not seen. Three limits of the code
are part of the promise, since without them it would not be kept: a run may overwrite a
cancellation with its next step or its verdict; a cancellation asked in time may
overwrite the verdict; a run that fails after it validated leaves the server enabled.

### `CollectionRunner`, `CollectionPromise` (with `MCCollectionRunner` and `CollectionRunnerProofs`)

Threads of processes that ask for a collection. `TryThreadLock`, `TryAdvisory`,
`Unlock` and `Leave` are `run` and its `finally`; `SetFlag`, `SelectStale`,
`StartRow`, `Phase`, `PhaseFails`, `FinishSuccess` and `FinishError` are
`_run_locked` with the service's phases and heartbeats. `ConnectionLost` drops the
connection of the advisory lock without its thread noticing. `SaysRunning` is what
the status endpoint answers. Heartbeats are ages in ticks. Rows that ended are
forgotten when a run starts, since no operation reads any but the newest; that
keeps the state finite without ending the behaviour.

`CollectionPromise` is the history as its readers may rely on it: a run writes a row
that does not say running, the row says running until that run ends it or dies, and
only the start of a later run touches what a dead one left. The runner implements
it (`KeepsHistory`) under `History`, the statuses, and `LiveRow`, the row of the thread
that collects, which needs the locks: on SQLite, or when the lock's connection drops,
two runs overlap and it is not kept.

### `ChannelLifecycle` (with `ChannelLifecycleProofs`)

The rows of `channels` and their category history across cycles. `Begin` reads a
listing; `Upsert` and `UpsertFails` are one savepoint per snapshot; `Reconcile` and
`ReconcileFails` one savepoint per source; `Commit` the heartbeat's commit and
`Abort` the rollback to `saved`. Dates are ages that stop growing at `Horizon`,
so a behaviour never runs out of time. Category intervals follow one another in the
order they were written; the last `Window` are kept. `Swept` are the sources a cycle goes
through: the adapter's own one, and those that listed something. Columns no property
tells apart are left out, and so are snapshots whose type is `archived` from the start
(`TypesAssumption`). One session is modelled, because collections exclude one
another (theorem `Exclusion`).

### `ServerLifecycle` (with `ServerLifecycleProofs`)

The inventory row of one server with everybody that writes it, composed from the
other components as far as they touch that row: requests (`Create`, `BeginPatch` and
`Patch`, `BeginDelete` to `Delete` or `Archive`), the onboarding (`CreateOnboarding`,
`LoadJob` to `Fails`, `Retry`, `Expire`, by any of the `Workers`) and the collection (`ReadTargets` to
`EndWithout`). `server` is the row, `history` whatever protects a server from
deletion, `job` the onboarding's status and `cancel_requested`. A deletion is four
steps because its SELECTs and its commit are statements of their own; `JobLocked` is
the row lock its flush takes. The collection's targets are read before its lock, so
its copy may be as old as it likes when `Sync` assigns it. Several background jobs of
one onboarding may be at work together, since `Retry` and `Expire` look at the row
alone, as the endpoints do. `told` and `quiet` are history variables: a job was
cancelled before its last checkpoint, and no retry has taken that back; nothing was
committed since the request loaded the row. `Stop` and `Fail` are `_fail`, whose commit
flushes what the session holds of the server. A transition of the worker is a read and
a write as in `Onboarding`; its scripts, and rollbacks, are left out. Targets come
from the database (`INFRASTRUCTURE_SOURCE=prometheus`).

### `AlertLifecycle` (with `AlertLifecycleProofs`)

Requests over the alerts table. An evaluation is four steps: the metrics
(`Evaluate`), the candidates' rows (`LoadCandidates`), the open rows
(`LoadCurrent`), the commit (`CommitSync`, or `FailSync` when another request created
the same fingerprint). A PATCH is two. `Column` and `Date` are the column-wise
UPDATE. A flush inside `create` can make the database order two requests earlier
than their commits; whoever commits first is the one that inserted first, so the
check at the commit has the same outcomes. `alone` is a history variable: nothing
was committed or collected since the evaluation read the metrics. Which conditions
fire is an input (`Collected`).

### `ExporterHost`, `ExporterPromise` (with `ExporterHostProofs`)

The inside of what `Onboarding` treats as one step: a host and the SSH session that
administers it. `host` is the binary, the unit, their backups and the process that
answers on port 9100; `rules` the firewall rules of that port in the order they are
tried, over a `backend` (ufw, nft, iptables or none, each of the first three refusing
what no rule matches or not); `script` the script at work, with
the next command and whether its trap is armed; `session` what the panel waits for.
`Install`, `Update`, `Repair`, `Removal`, `Configure` and `Unconfigure` are the scripts
of `scripts/`, a disjunct for each command that changes something. `Fails` is a
command that fails under `set -Eeuo pipefail`, with the trap of the installation in the
`undo_` steps. Failures that `|| true` hides are outcomes of the step itself: a stop
that leaves the process, a delete that leaves the rule, and the script goes on and ends
well. `Unrecovered` is what nothing undoes: a copy cut short before
`ROLLBACK_NEEDED=1`, and a trap that cannot put a file back or start it; `Kill` a script
that dies without its trap. `Meddle` is somebody else who adds a rule for everyone,
anywhere in a list that SuperFlash shares (ufw, iptables; the table of nft is its own);
`overruled` remembers that one was put in front of SuperFlash's. `DenyThere` is what the
script takes for its own denial: with ufw, anybody's. An accept in SuperFlash's chain of
nft does not keep the host's own tables from dropping (`OwnTablesDrop`). `OpenSession` to `Verify` are a job of the onboarding or of
maintenance, and `GiveUp` is its budget, its connection or a checkpoint ending while
the script goes on.

`ExporterPromise` is the abstract specification of the same host: an installation
takes place at once and whole, or the host keeps what it had. `ExporterHost` implements
it (`KeepsPromise`) under the mapping `Installed`, `Serving`, `Requested`, `Relic`,
`Stray`: while an installation is under way the host counts as it was found, so that
every command before the last is a stutter. The promise has the limits of the scripts in
it: a process that was serving is not restarted (`enable --now`), so it goes on with
its version; an installation that failed, or could not clean, leaves its backup, which a
later failure may bring back on a host whose exporter was removed meanwhile; and a
process that systemd did not stop goes on serving, the new version after a failed
installation, a `stray` without its files after a removal. A kill, or a failure nothing
undoes, ends the promise for the script that meets it, and no more.

### `HostChecks` (with `HostChecksProofs`)

`ExporterHost` with what the panel finds out before and after. `facts` is what is so on
the host (route, host key, login, root, tools, systemd, port, inventory, architecture,
`/tmp`, interface, Prometheus). `Connect`, `Attempt` and `HangUp` are
`SSHConnectionService.connect` with its retries and its host key policy. The four
readers are operators of the same facts, since they change nothing: `TestErrors`
(the wizard's SSH test), `Blocking` (its discovery), `Precheck` (the job) and
`DiagnosisPasses`. `Administer` is a session of `ExporterHost`, on a sound host.
`MCHostChecks` has the firewalls of the instance (`OneOfEach`).

### `SourceCycle` (with `SourceCycleProofs`)

What one collection after another reads and stores. `run` is the collection in
progress: the servers it began with, the groups (one Prometheus URL and token each)
not asked yet, the answer of each host, the minute its sample has. `inventory` is what
the rows of the servers hold as far as it decides whether a group can be read:
`Rejected` is a group with an instance `InventoryServer` refuses, two servers of one
instance, or a URL httpx refuses, none of which the adapter catches. `Begin`,
`ReadGroup`, `GroupsRead` and `ReadStream` are the composite adapter and the Prometheus
adapter's fan-out; `Sync`, `StoreServerMetrics`, `StoreChannelMetrics` and `PhaseFails`
the phases with their savepoints; `Prune` the retention. `samples` holds the stored
minutes of each server and `beat` its heartbeat. It takes from `CollectionRunner`
that collections exclude one another.

### `Readings` (with `MCReadings` and `SourceCycleProofs`)

`SourceCycle` with its readers. `walk` is a client that follows `X-Next-Cursor`
through a server's history, one page at a time between any other steps (`StartWalk`,
`Page`, `EndWalk`). The overview, the balance, the recommendations and the health of an
onboarding are operators of the stored samples, for any set of enabled servers and any
set of active ones: the recommendations start from `list_all`, which leaves archived
servers out, and the others do not.

## 3. The runs

| Run | Checks | Instance |
|---|---|---|
| `onboarding_jobs` | `TypeOK`, `CompletedIsPrepared`, `CancelledRunTouchesHostOnce`, `KeepsPromise`, `Settles` | three jobs one after the other, any host, faults and crashes at every point; retry and rollback asked when no job runs |
| `collection_locks` | `TypeOK`, `OneCollector`, `LiveRunIsNewest`, `KeepsHistory` | two processes, three threads, phases slower than the timeout, database errors, crashes |
| `collection_orphans` | `LiveRunKeepsItsRow`, `OrphanRowsSettle` | two processes that die finitely often; the lock's connection may drop; heartbeats within the timeout |
| `channels_migrated` | `TypeOK`, `RowsAgree`, `HistoryCovers`, `OneRowPerIdentity`, `ListedIsActive`, `SweptAreListed`, `RowsEndure`, `AbsentIsArchived` | two sources and a migrated row share an external_id; two categories, two types, failing savepoints and cycles; a grace longer than the retention of events |
| `alerts_requests` | `TypeOK`, `QuietEvaluationMirrors`, `AlertsSettle` | two requests, two fingerprints, three changes of the metrics |
| `servers_retire` | `TypeOK`, `ToldJobNeverCompletes`, `QuietDeleteRetires`, `RetiredSamplingEnds` | a request, two background jobs of an onboarding and a collection over two successive rows of one server, retries and expiries at any time, crashes |
| `host_visits` | `ChecksTypeOK`, `FirewallConfirmed`, `CredentialsSpared`, `WizardPredictsJob`, `DiagnosisIsTrue`, `KeepsPromise` | one host with any exporter, one firewall of each kind and nft also with own tables that drop (`OneOfEach`); two versions, of which the panel offers one; one monitor; one rule of others, there at first or added at any time; sessions of every job, with a failure at any command, aloud or hidden, and one that nothing undoes or a kill; two retries; hosts that differ from a sound one in at most two facts |
| `telemetry` | `ReadingsTypeOK`, `AnsweredIsStored`, `FailureIsContained`, `WalkIsComplete`, `ReportsAgree` | three servers in two Prometheus groups, whose rows are good, or two with one instance, or one malformed, or one URL unusable; all enabled or one; any mix of answers, failing savepoints and phases; three minutes, a retention of one; pages of one row |
| `onboarding_old_exporter`, `onboarding_two_polls`, `collection_status`, `servers_history` | one property each, violated: see section 5 | the smallest instance that shows it |

**Bounds, and why they are enough.** Three jobs are a run, its retry and a rollback,
or two rollbacks; more jobs meet the same row states. One request at a time is
enough for a copy that grows old while a job commits; two requests that race are
`onboarding_two_polls`. A timeout of one tick with gaps of one or two makes a job
recent, just at the timeout, and past it. Three threads in two processes have a
competitor of either kind; `MaxRows` leaves a row for each and one that is
orphaned. One external_id is shared by the two sources and the migrated row, the only
way two rows can be confused; a listing of two snapshots has it once of each source, or
twice of one. `Window = 2` is the
interval that ends and the one that begins. Ages stop beyond every retention, where
a later age decides nothing else. Two fingerprints are one that changes and one
that must not. One request on a server meets whatever the jobs and the collection do
between its steps; two background jobs are one that was told of a cancellation and the
one a retry started beside it; two rows are one that is deleted and the one created in
its place. Two versions are the one a host has and the one it gets; one kill leaves a host
that later scripts start from, and a second one starts from the same states. One rule
of others (`MaxForeign`) stands before, between or behind the two of SuperFlash. One
monitor and one outsider are the two addresses a rule may tell apart. Two
facts at a time are enough for one reader to look at a fact that hides another. Two servers in a
group show a failure that spreads within it, the third one that spreads between
groups; three minutes with a retention of one are a row that is kept, the row at the
cutoff and one that is pruned; a page of one row makes every row a page's last. The bound on rows is also where `servers_retire` and `servers_history` may stop, so they
do not check deadlock.

No run uses symmetry.

**Fairness, and why the code justifies it.** In `Onboarding`, a background thread
runs on (every SSH call and script has a timeout) and a handler ends: weak fairness
of each. The dialog polls until a terminal status (`useServerOnboarding.ts`): strong
fairness of `Begin(r, "poll")`, because other requests come between its polls. The
operator and faults owe nothing. In `CollectionRunner`, threads run on, each
process's scheduler asks again at every interval (`_loop`), strong because the lock
is often busy, and processes do not die for ever. The scheduler is off by default
(`scheduler_enabled`): the liveness properties that count on it are about deployments
that turn it on, or whose operator runs collections as regularly. In `ChannelLifecycle` the cycles
go on (weak fairness of `Next`); a failure may happen in every one of them, so
`AbsentIsArchived` itself is about behaviours whose failures stop. In
`ServerLifecycle` a collection that started ends, and the scheduler starts another
one while there is a target. In `AlertLifecycle` a started request is served and a dashboard keeps asking (the
frontend refetches); collections and operators may stop at any time. `host_visits` and
`telemetry` check safety only and assume no fairness.

**What a run may not conclude from.** `onboarding_jobs` assumes an operator who
waits for the job to end before asking for a retry or a rollback. Without that
assumption `CompletedIsPrepared` does not hold: two jobs of one onboarding interfere.
`Patient` is a constant so that both are explored. It has one request in flight. With
several, and a patient operator, `CompletedIsPrepared` and
`CancelledRunTouchesHostOnce` still hold (section 4);
`ExpirySparesRecentJobs` (`onboarding_two_polls`), `CompletedIsStable` and
`KeepsPromise` do not (section 5).

`FirewallConfirmed` and `DiagnosisIsTrue` say of a confirmed host what can be known
from the host itself. `Verify` asks `localhost`, so three hosts are beyond it: one whose
own nft tables drop what SuperFlash accepts, one where somebody put a rule in front of
SuperFlash's or where ufw has a denial of his, and one whose monitor had another
address before. Each of the three is in the instance but for the last.

`host_visits` assumes that a script which outlived its session ends before the next
one starts (the panel does not know of it), and that the version a failed installation
puts back starts. It has one address of the monitor (`OneMonitor`), as
`docs/ssh-auto-onboarding.md:97` asks for; section 5 says what happens when that
address changes. Readers are called while no session is open. `telemetry` assumes that
a collection is shorter than the retention (minutes against days).

## 4. What is proved

`CollectionRunnerProofs` proves, from `RunnerAssumption` (the constants are of the
right kinds) and for any number of processes, threads and rows:

- `TypeCorrect`: `TypeOK` is an invariant.
- `ThreadLockHeld`, then `ProcessExclusion`: a thread past the thread lock holds it,
  so two threads of one process never collect together, whatever the database does.
- `Exclusion`: on PostgreSQL, while the lock's connection lives (`~LoseLock`), at
  most one thread of all processes collects. The invariant `AdvisoryInv` says that a
  thread between `try_acquire` and `release` holds the advisory lock; a crash frees
  exactly the locks of the threads it kills, which is where the proof needs that a
  process's lock is held by one of its own threads.
- `HistoryTrue`: under the same assumptions, a run in progress keeps its row and it
  is the newest. Exclusion alone is not inductive for this: `HistoryInv` is needed
  for the step in which another thread marks abandoned rows, and that step is
  excluded by `AdvisoryInv`.
- `HistoryPromised`: under the same assumptions, the runner implements
  `CollectionPromise`. The invariants above make the row of whoever collects well
  defined (`LiveIsLocked`); the start of a run is the step `Begin`, its end `End`, a
  crash of its process `Orphan`, and everything else is not seen.
- `StatusTrueWithoutFaults`: as long as no commit of a runner fails (`~DbFaults`), a
  process says running of a row with a fresh heartbeat or while a thread is at work,
  whatever the locks do. `FlagInv` is the converse of the second disagreement of
  section 5: a failure between setting `_running_since` and the `try` that resets it is
  the only way the flag goes wrong.
- `HeartbeatProtects`: if no two heartbeats of a run are further apart than the
  timeout (`MaxGap <= Timeout`), a run in progress keeps its row even when the
  locks are lost. `HeartbeatInv` relates the age of a row to the time since its
  run's last heartbeat, and keeps the rows of different runs, and the rows another
  run selected as stale, apart.

`ServerLifecycleProofs` proves, from `RowsAssumption` and for any number of requests,
background jobs and rows:

- `TypeCorrect`. Types alone are not inductive: a job or a collection that worked on
  row 0 could give relations to a row that does not exist, so `ActorsInv` says that
  they work on rows that were created.
- `CancelledNeverCompletes`: a job that a deletion cancelled before its last checkpoint
  does not complete, unless a retry takes the cancellation back. A transition the job
  had already checked may overwrite the cancelled status, the row may expire, and
  another job of the same onboarding may end it; `WorkerInv` says that
  `cancel_requested` stays set as long as a job that was told finds its row, and a row
  created later has another id.
- `QuietRetires`: a deletion during which nothing is committed keeps its promise.
  `QuietInv` says that what it found is still so.

`OnboardingProofs` proves `TypeCorrect` from `OnboardingAssumption` alone. The number
of jobs, the host and the faults are any.

- `CompletedPrepared` and `CancelledOnce` assume `Patient` only: an operator who waits
  for the job before asking for a retry or a rollback. Any number of polls,
  cancellations and requests may be in flight, however long a run takes between two
  commits. A rollback may leave the exporter or the rule and say nothing of it.
- `CompletedStable` assumes `Calm`: besides, one request at a time and a run that
  commits at least once per timeout. Both are needed: section 5 has the
  counterexamples.
- One invariant, `IInv`, carries all of them. `OneJob`: at most one job is alive.
  `RunOK`: the run's copy of the server is the server, and what it did to the host so
  far is there. `RollbackOK`: the same for a rollback. `Told`: a run that was told of a
  cancellation finds `cancel_requested` at its next checkpoint, and has started one
  script at most since. `RequestsInv` is what several requests need: one that will start
  a job has the host to itself and is the only such; a request with an old copy is
  `Late`, and a late one may write a verdict or a cancellation but starts nothing; a
  copy with a cancellation in it stays believable because the retry that takes the
  cancellation back leaves only late requests in flight. `CalmInv` adds what the
  calm theorems need: a request that found the row stale has a copy that is still true.
  Every step of a job is either `Moved` or `Stopped`, so the conjuncts are shown for
  those two and once per handler.
- `OnboardingPromised`: a calm onboarding implements `OnboardingPromise`. `SeenInv` is
  the rest of what that needs: the row says the last step the run committed, or
  cancelled with a request for it; what a run has in its memory of the server is what
  it loaded until it validated; nobody is about to cancel during a rollback; a request
  that will start a job, or judge a stale row, has a current copy. Every step of a run
  is shown to be a `SeenMove` (nothing, the next step of the flow, or giving up)
  or one of its two ends, and every handler one step of the promise or none.

`ExporterHostProofs` proves, for any versions, firewalls, rules of others and number of
faults:

- `PromiseKept`: the sessions implement `ExporterPromise`, whatever monitors there are,
  with the failures that end a script, those it hides and those of its trap. The
  invariant says what the host is at each command of an installation: until it replaces
  the binary nothing seen from outside has changed; from then on the trap is armed and
  the backups are what it found; in the trap the process is the one it found, the new
  one, or none.
- `OutsiderShut`: a job that ends validated leaves the port closed to whoever is no
  monitor, for any monitors, as long as the rules are `Undisputed`: nobody put one in
  front of SuperFlash's, and ufw did not take somebody's denial for it. `RulesInv` says
  that rules of others stand behind those of SuperFlash until somebody puts one in
  front, and `ConfigInv` that a session past `Configure` has the allow rule and what the
  script takes for the denial in place, and no script left that could touch them.
- `ConfirmedFirewall`: with one monitor (`OneMonitor`), such a job also leaves the port
  open to it; with nft, as far as the host's own tables do not drop what SuperFlash's
  accepts. `OrderInv` is the part that needs one monitor: its rule is the first,
  wherever an earlier script was interrupted. With two addresses it is false.

`HostChecksProofs` proves `ChecksTypeCorrect`; `VisitsKeepPromise` (visits between the
sessions are stutters of the promise); `Spared`: a call that is not over has had no
refusal, and has offered nothing to a key it did not accept; `WizardPredicts`: the
wizard's test and discovery and the job's precheck agree on a host, but for the facts
only one of them looks at; and, with one monitor, `DiagnosisTrue` and `VisitsConfirm`
(`FirewallConfirmed` with the visits). `ChecksInv` carries them: the invariants of
`ExporterHostProofs` and the types of `facts` and `call`.

`SourceCycleProofs` proves, for any servers, groups and bounds:

- `TypeCorrect`, `FailuresContained` (`LossInv`: among the groups already asked, a full
  answer without a sample has a refusal in its group, and none of them was rejected: a
  row or URL that is refused ends the collection where it is met) and `AnswersStored`
  (`StoreInv`: no stored minute is later than the sample the collection holds, and a sample held is
  no older than the retention, so that what a phase adds is the server's latest and is
  not pruned before the cycle ends).
- `ReadingsTypeCorrect`, and `ReadersChangeNothing`: the two properties survive the
  readers.
- `WalkComplete`: for any page size, a walk that reached the end has every row that was
  there at its start and still is, each once and newest first, whatever was stored and
  pruned between its pages. `KeptInv` says that nothing older than the last pruning is
  stored, and `WalkInv` that what was there at first and has not been pruned is stored
  still and that the walk has it, down to its cursor, newest first. A page is the first rows of a sequence that `CHOOSE` picks by its
  order; the lemma `Places` shows that the place of a row in it is the number of rows
  not older than it, and needs the pigeonhole principle for that.
- `ReportsConsistent`: the overview, the balance, the recommendations and the health of
  an onboarding agree, for any sets of enabled and of active servers, loads and
  capacities. An enabled server that is archived is in the balance if it has a sample
  and in no recommendation, and the statement says so. Their
  totals are sums over finite sets. `Total` is a fold of the community modules, and what
  it computes is shown without an induction theorem: if a set broke a claim, a minimal
  one would (`LeastSet`), and it breaks none once a server is taken from it. `TotalAtMost` and `TotalLess` compare two
  sums rate by rate.

`ChannelLifecycleProofs` proves, for any sources, listings and retentions:

- `TypeCorrect`, `OneRow`, `RowsConsistent`, `HistoryComplete` and `PlacesKept`. A cycle
  works on uncommitted rows and may be rolled back to the saved ones, so the invariant
  (`Consistent`) is stated of both pairs of tables, and `Extends` says that the
  uncommitted rows are the saved ones in their places, some adopted, and new ones after
  them: without it a rollback could not be shown to keep either.
- `ListedActive`, and `SweptListed`: after a cycle without a failure, what is active
  in a source the cycle went through was listed. `Shown` says which part of the listing
  the rows already show.
- `AbsentInactive`, which adds the two assumptions under which the whole table is reconciled: no
  other source, no migrated row.

`AlertLifecycleProofs` proves `TypeCorrect` and `QuietMirrors`. `Mirrored` says what an
undisturbed evaluation holds after each of its reads; whatever commits makes the
others no longer `alone`.

**Only model-checked:** every liveness property: `Settles`, `OrphanRowsSettle`,
`AbsentIsArchived`, `AlertsSettle`, `RetiredSamplingEnds`. Liveness under fairness and
`ENABLED` are outside the prover. The properties the four violating runs check are
refuted, not proved. No module declares a RECURSIVE operator, which the prover could not
reason about.

## 5. Where the code and its documents disagree

Each is a run TLC ends with a counterexample; `findings` in `PROJECT.json` quotes the
document.

1. `onboarding_old_exporter`: a host with an older exporter never completes; the
   update script calls an installer that was not uploaded with it.
2. `collection_status`: a database error before the `try` leaves `_running_since`
   set, and the status endpoint says running for a dead row.
3. `servers_history`: a deletion counts what it would destroy, and then deletes without
   looking again: a sample stored in between goes with the server.
4. `onboarding_two_polls`: `recover_stale` decides on the copy its request loaded and
   commits without looking again. With two requests, even of a patient operator, a poll
   that judged an old copy writes its verdict over the run of a retry that overtook it.
   `CompletedIsStable` and `KeepsPromise` are refuted in the same way: the poll may come
   after that run has completed.

More disagreements have no run of their own:

- `app/adapters/prometheus.py:15` says that a failure in one host does not keep the
  others from being collected. A hostname that `InventoryServer` refuses (`schemas/server.py:21`
  takes any string of 255 characters), two servers of one group with one
  instance, or a URL that httpx refuses, raise outside the `try`, and every collection
  fails until the row is corrected (`Rejected`, second and third part of
  `FailureIsContained`).
- `docs/ssh-auto-onboarding.md:69` says that a rollback removes the service, the binary
  and SuperFlash's rules, and the audit line of a rollback that both scripts answered
  says so of the host (`onboarding_service.py:909`). The stop and every delete of the
  scripts end in `|| true`: the rollback may report success with the process at work
  and the rules in place (`Leftovers`, `Removal`, `Unconfigure`). No property claims the
  opposite.
- A job that ends validated says that the monitor is let in. When the monitor's address
  has changed, nftables has the old pair of rules, `Configure` appends the new allow
  rule after the denial, and the job is confirmed while the monitor is refused: with
  two monitors TLC refutes `FirewallConfirmed`. With ufw and iptables that takes
  an interrupted script as well. `docs/ssh-auto-onboarding.md:97` speaks of one fixed
  address.
- `app/collectors/collection.py:61` promises a single final commit. Each heartbeat
  between phases commits the session they write to (`runner.py:131`), so a run that
  fails has persisted its earlier phases. `SourceCycle` has these commits
  (`PhaseFails`); `AnsweredIsStored` is what they keep.
- `tests/test_alerts.py:86` expects an acknowledgement to last between reads. An
  evaluation that overlaps another one resolves rows outside the candidates it
  computed earlier (`CommitSync` with an old `view`), and takes it back; the test is
  sequential.

And some behaviour the models have and no document speaks of: `archive` assigns
`enabled` on an old copy, so a server enabled during its deletion is archived and
stays enabled (`QuietDeleteRetires` needs `quiet`); a collection that read its targets
before a deletion creates the server again, or gives a row created meanwhile under the
same `external_id` the `enabled` it had read; a run that was told of its cancellation,
or fails, after it set `server.enabled` enables the server with the commit of `_fail`,
an archived one included; an archived server that is enabled is in the balance and in
no recommendation; the onboarding of an archived server can
be retried, and a second deletion does not cancel that job; a retry right after a
cancellation clears the request before the cancelled job reads it, and that job goes
on (`ToldJobNeverCompletes` leaves it out); a migrated row that was never
adopted, and the last channel of a source other than the configured one, are not
reconciled and stay active (`SweptAreListed` is about the sources a cycle goes through).
A job is confirmed on a host whose own tables of nft drop what SuperFlash's accepts, on
one where somebody's rule stands in front, and on one where ufw has a foreign denial of
the port, which the script takes for its own and which may stand anywhere in the list:
`Verify` asks `localhost` (`FirewallConfirmed` leaves them out). `ufw status verbose`
always prints its default policies, so `detect_firewall` takes a host with the allow rule alone for a restricted one
(`DiagnosisIsTrue` leaves out ufw for that reason). A host that is listed in
`known_hosts` is accepted by that entry, whatever fingerprint the operator confirmed.
The samples of one collection may have different minutes, since each
group takes its own.

## 6. Not modelled, and why

- The creation of an onboarding and its validations, the audit texts, severities and
  messages of alerts: data without interleaving, and no property tells it apart.
- Events, technical streams and the hosting server of a channel: they follow from the
  snapshot being written and are read by no operation modelled here.
- The mock adapters, the inventory file and the adapter factory: they compute data
  from settings.
- Thresholds that compare one value with one number, filters of listings, schemas.
- Configuration, logging, health and the start of the application: wiring. What matters
  of it here, the session factory's settings, is in the way sessions are modelled.
- The transfer of a script over SFTP and the parsing of a command's output: a script
  arrives whole or the session fails; a reader sees the fact or fails.
- The frontend, except that it polls (a fairness assumption), and the deployment.
- A clock that goes back between instances: ages in the models grow.
- An explicit unlock that fails while its connection goes back to the pool alive: in
  `CollectionRunner` the lock goes with `Unlock` or with the connection.
- A snapshot whose type is `archived`: the enumeration has it, no adapter lists it.

## 7. Plan

In order of importance:

1. Events and technical streams in `ChannelLifecycle`.
2. `Onboarding` over `ExporterHost` instead of its one-step scripts.
