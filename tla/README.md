# Verification of cpkit

TLA+ models of cpkit, a Python framework for control-plane web applications: a
PostgreSQL-backed job queue, Ansible playbook runs, authentication, settings and
an application lifespan around them. The modules are translated from the code
under `src/`; line numbers below are of that code.

## 1. Inventory of the system

| Part | Code | State it keeps | Operations |
| --- | --- | --- | --- |
| Message queue and workers | `cpkit/jobs/worker.py`, `jobs/repository.py` | rows of `cpkit.mq`; per worker the events `_stop` and `_polling_stopped`, `_started`, the executor, the pending handles | enqueue, ensure recurring rows, `run`, `dispatch_one`, `stop_polling`, `drain`, `run_queue_worker` |
| Job status | `jobs/repository.py`, `jobs/maintenance.py`, `playbooks/ansible.py` | rows of `cpkit.jobs` and `cpkit.tasks` | `enqueue_command`, `update_job`, the failure hook, `fail_zombie_jobs`, `create_task` |
| Playbook runner | `playbooks/ansible.py` | job and credential directories, the task counter, an Ansible thread | `launch_runner`, hooks before and after it, event handler |
| Playbook versions | `playbooks/service.py`, `playbooks/repository.py`, `cli/schema.py` | rows of `cpkit.playbooks` with a `default_version` time | save, set default, delete, initialise |
| Application runtime | `app.py` | tasks, `_stop_requested`, `_pool_closed`, `_shutdown_lock`, the shared pool | lifespan, `shutdown` |
| Database access | `db/postgres.py` | the process-wide pool | statements in autocommit, `transaction`, `close_db` |
| Settings | `settings/*`, `bundle.py` | rows of `cpkit.settings`; run options in memory | update, reset, load at startup |
| Authentication | `auth/*` | rows of OIDC sessions and API keys; per process the configuration and the provider's metadata and keys | login, refresh, logout, create and delete keys, look up a signing key, reload the configuration |
| Audit, logging, errors, routers, CLI, web assets | the remaining packages | none, or append-only rows | |

How they interact. Requests enqueue through the repository, in their own or in a
caller's transaction. A worker is an asyncio task; it claims rows and hands them
to handler threads of its own executor. Handlers write job rows through the same
repository, usually by way of the playbook runner, which starts a thread of its
own for Ansible. The sweep that fails stale jobs is itself a recurring message,
run by whatever worker claims it. The application lifespan starts the workers'
tasks and, at its end, stops, drains and joins them before it closes the pool
all of them use.

What is hard about it:

- several processes claim rows of one table, and each claim ends in a commit
  whose outcome may be unknown;
- the row is deleted before the handler is submitted, so that a crash in between
  loses work, and it must lose no more than that;
- four parties write one status column without looking at it;
- a status write can fail after it was applied, in code that is already handling
  an exception, while the playbook goes on in another thread;
- recurring work has priority over one-shot work;
- shutdown calls overlap, time out and are cancelled at any `await`, and are
  retried afterwards;
- a provider that rotates refresh tokens accepts each once, and nothing but the
  event loop keeps two requests of one process from sending the same one;
- services change a row, then write an audit event that may raise;
- the threads of one process fill and empty the caches of the provider without a
  lock, while the configuration is replaced under them;
- an administrator's check and the change it allows are separate statements;
- the rows of one job are numbered by a counter that threads share and that not
  every row is counted in.

`PROJECT.json` lists every part under `components` and each of these at its line
under `hazards`.

### What makes each part correct

- *Queue*: a one-shot message is run at most once, and only after its row is
  gone for good; a recurring row is run at most once per period and is never
  lost; nothing disappears without a report, short of a dead process; what is
  due is eventually dispatched.
- *Job status*: COMPLETED is true; a success is recorded even if the sweep
  interfered; a settled outcome is not taken back; every job settles.
- *Shutdown*: nothing that could use the pool outlives it, unless startup creates
  it after the stop; it is closed once; nothing is claimed after a stop; tasks are
  cancelled once; no call hangs.
- *Playbook runner*: credential material outlives every playbook that is waited
  for and is gone afterwards; a number of a task row is refused only for a cause
  one can name; what a run leaves on disk has one too.
- *Playbook versions*: the default that is shown is the one that runs, and it is
  deleted only by a call that was overtaken, under another spelling of its time, or
  by an initialisation that has another file for it.
- *Settings*: run options follow the stored settings (they do not, see 5).
- *OIDC sessions*: a logout is final, whoever is refreshing the session; the table
  holds the refresh token the provider accepts; requests of one process never
  compete for a token; a session in use has its login in the audit log.
- *Provider caches*: a lookup that nobody disturbs turns no good token down and
  meets no emptied cache, whatever others left in the caches before it.
- *API keys*: a key and the application's record of it stand or fall together; of
  concurrent deletions one counts; a live key has a holder of its secret.

## 2. Modules

| Module | Models | State and actions against the code |
| --- | --- | --- |
| `AtMostOnceQueue` | what the one-shot queue promises | abstract: one `stage` per message, `Enqueue`, `Take`, `Start`, `Drop` |
| `QueueDispatch` | `_claim_and_prepare_dispatch`, `QueueWorker._dispatch`, `run`, `dispatch_one` | `mq` is the committed table, `pc`/`claim` a worker's open dispatch, `active` its executor; one action per database round trip or executor call |
| `QueueDispatch_proofs` | theorems about it | |
| `QueueRefinement_proofs` | the theorem that it implements `AtMostOnceQueue` | |
| `JobLifecycle` | every writer of `cpkit.jobs.status` | `stage` comes from `AtMostOnceQueue`; `handler` is the position of a handler in `launch_runner`/`_run_loaded_playbook`, `playing` the Ansible threads |
| `JobLifecycle_proofs` | theorems about it | |
| `AppShutdown` | `AppRuntime.shutdown`, the lifespan around it, `stop_polling`, `drain`, `run`, `dispatch_one` on one event loop | one action per stretch between two awaits; `call` is the position of each owner's `shutdown()` |
| `AppShutdown_proofs` | theorems about it | |
| `AuditHook` | `create_audit_event_hook` as its callers meet it | `auditLog`; a hook returns or raises, the INSERT applied or not; extended by the components that call it |
| `OidcSession` | `auth/oidc.py` (sessions), `auth/router.py`, the session table, `require_authenticated` | `login` is the position of a callback, `phase` that of a request in `claims_from_session`/`refresh_session`/`oidc_logout`; one action per statement or call of the provider |
| `OidcSession_proofs` | theorems about it | |
| `ApiKeys` | `auth/api_key_service.py` on its routes and in a caller's `transaction()` | `keys` and `records` are committed; `adds`, `removes`, `locks` are an open transaction's |
| `ProviderKeys` | the caches of `OIDCProviderClient` and `load_config` in one process | `step` is the position of each thread in `load_config`, `get_metadata`, `get_jwks`, `select_jwk_key`, `validate_jwt`; an action is one access to a shared attribute or one answer of the provider |
| `Auth_proofs` | theorems about `ApiKeys`, `ProviderKeys` and the composition `MCAuth` | |
| `PlaybookVersions` | `playbooks/service.py` and `repository.py`, `_initialize_playbook_file` | `rows`, `mark`, `content` are the table; `does` is what each caller is in the middle of |
| `AnsibleRun` | `playbooks/ansible.py` for one job, settings of runs, the example's handler | `main` is the position in `launch_runner`/`_run_loaded_playbook`, `play` the Ansible threads, `row` the job's task rows |
| `AnsibleRun_proofs` | theorems about it | |
| `Playbooks_proofs` | theorems about `PlaybookVersions` and the composition `MCPlaybooks` | |
| `MCQueueDispatch`, `MCJobLifecycle`, `MCAppShutdown`, `MCAuth`, `MCPlaybooks` | instances for TLC | the last two put several machines side by side, of which one moves in a behaviour |

How they fit together. `QueueDispatch` implements `AtMostOnceQueue`
(`ImplementsQueue`, through the mapping `StageOf`), and `JobLifecycle` is built
on the abstract queue: it takes its messages from `Queue!Take`, `Queue!Start` and
`Queue!Drop` and does not repeat the dispatch protocol. The sweep's fairness in
`JobLifecycle` is what `RecurringServed` states of `QueueDispatch`. `AppShutdown`
looks at the same workers from the event loop: there a dispatch is one
synchronous step, which is what it is on the loop. `ProviderKeys` looks
into a check that is one step of `OidcSession` (`ValidationRaises` is what its
failures mean there). `AnsibleRun` and `JobLifecycle`
are two views of one run: the first has its parts, rows and directories, the
second the status of its job against the sweep and the failure hook. `OidcSession`,
`ApiKeys` and `PlaybookVersions` extend `AuditHook`, because what they do after a
change depends on whether the hook may raise: the hook of the sessions always
may (`auth/bundle.py:87`), that of keys and playbooks is whatever the application
gives, best-effort by default (`bundle.py:85`).

Abstractions:

- Messages and jobs are model values. Payloads, types and actors matter only
  through who may claim (`Scope`), who has a schedule (`Configured`) and who
  refuses to parse or resolve (`Refused`).
- `start_after` is a state (`waiting`, `due`), plus the order `older` among due
  recurring rows, because the claim of recurring rows is ordered and the claim of
  one-shots is not.
- `updated_at` is one bit, `stale`: no statement writes it after the insert.
- A status write that raises may or may not have been applied.
- The bodies of handlers are whatever may happen between their observable steps:
  run a playbook, then return or raise.
- Statuses other than `successful` of an Ansible run are one value, `failed`,
  since the runner treats them alike.
- A refresh token is a number: what the provider accepts for a session and what
  the table holds are equal or not. Deadlines are bits that turn once the clock
  passes them. The provider is external: it accepts its current token, and
  rotates it or does not; one that revokes the whole session when it sees a spent
  token is more than the code relies on.
- Of the configuration `ProviderKeys` keeps the issuer, of the provider's metadata
  whose they are, of a token the key it was signed with. The age of a cached value
  is a bit that turns at some time, and the last three assignments of
  `clear_provider_cache` and the time of loading are one step: a value that is
  stored between them is only fetched once more.
- A session that was logged in before is not distinguished by its user: the
  browser has one session cookie and one set of anti-forgery cookies.
- A playbook version is the second it was saved in, a mark the instant it was set.
  The string of a route names a version as `strftime` writes it or in another way
  (`exact`); only the check of a deletion looks at the string.
- Everything before the first part of a run that can fail (loading, making the
  directory) fails in one step, with or without the directory.
- The end of an Ansible thread is external; an event handler that raises ends it.

Names in capitals after "Mutant" in the modules are variations of one definition,
each a plausible mistake; `PROJECT.json` names for every property the one that
breaks it. They are used in no behaviour of the models.

## 3. Runs

| Run | Instance | Shows |
| --- | --- | --- |
| `queue_safety` | pollers p1, p2, scoped workers s1 (a one-shot), s2 (a recurring row); j1, j2, r1; j2 has no handler, p2 cannot parse r1; 2 failures | the dispatch guarantees and the refinement |
| `queue_liveness` | p1, s2; j1, r1, r2; 1 failure | what is due is dispatched |
| `queue_submission` | p1; j1, j2; 1 failure | a counterexample, see 5 |
| `job_safety` | 3 jobs, 2 threads, 2 failures | honesty, recording and stability of outcomes |
| `job_liveness` | 2 jobs, 1 thread, 1 failure | every job settles |
| `job_sweep` | 1 job, no failure | a counterexample, see 5 |
| `shutdown_safety` | poller p, host-run or scoped worker s, custom task t; the lifespan and two more owners; 2 invocations; 2 interruptions | order and uniqueness of the cleanup, and the invariant its proof rests on |
| `shutdown_liveness` | p, t; lifespan and one more owner; 2 invocations; 1 interruption | every call returns |
| `auth` | one session under three requests of two processes with 2 failures; or two logins of one browser with 1, whose sessions do not expire; or two callers over two keys with 1, and 1 failing audit INSERT; or two threads over the caches of a provider that another one replaces | the sessions', keys' and caches' properties |
| `playbooks` | two administrators and the command line, 4 calls within 3 seconds; or one run with 2 failures, 6 task numbers | the versions' and the run's properties |
| `credential_dir` | one run, no failure | a counterexample, see 5 |
| `run_options` | one run, one update of the settings | a counterexample, see 5 |

Bounds, and why they are enough:

- `MaxFaults`: failed statements, commits, connection releases, submissions and
  crashes together. Two let a failure meet a crash, or two workers fail on the
  same message; the protocol has no counter of failures.
- `MaxOverlap = 1`: a recurring row does not become due again while an executor
  still runs it in the instance. One invocation per worker is possible all the
  same, so overlapping periods across workers are covered.
- Two pollers suffice for every pairwise conflict over a row lock, and the
  scoped workers bring the conflicts to four workers. Two one-shots, one of
  which nobody can parse, show that a refused row does not disturb the other.
- Three jobs over two threads: two running, one waiting while the sweep competes
  for a thread.
- `MaxInterrupts`: timeouts, cancellations, failing `pool.close()` and a replaced
  pool together. Two interruptions let the lifespan's call and a retry both be
  cut off.

- `auth`: a lost token needs one exchange and one failure, a refusal needs a second
  exchange; three requests let two of one process and one of another hold a copy
  of the same row. Two failures let the exchange of one request and the cleanup of
  another fail. `MaxToken = 3` is one initial token and a rotation for each of two
  requests. That a session expires under its requests needs one session; two logins
  are about the cookies and the rows they belong to. Deletion by a third transaction adds nothing to two, since locks are
  exclusive. Of the caches, two threads are a lookup and whoever disturbs it, and
  `MaxChanges = 2` is what an overtaken answer of the provider takes: the settings
  change, and the loaded configuration comes of age. Its proof has no such bound.
- `playbooks`: `MaxNow = 6` half seconds give three seconds, hence three versions,
  and marks in the same second and in different ones. Four calls: two saves, then
  a deletion and the call that overtakes it. `MaxTaskId = 5` lets a run of three
  parts both finish within its numbers and run out of them; the column is an
  INT2, whose limit matters only as a limit.

Deadlock checking is off in every run, because each system really stops: workers
are single-use, jobs end, a runtime that is shut down stays so, and the instances
of sessions, keys, versions and runs come to the end of their calls.

### Fairness

- `QueueDispatch`: the clock advances; a poller keeps polling, since `run()`
  catches what may be retried (274-284); the database answers; handlers of
  recurring rows return. Nothing is assumed of failures, of stopping, of
  restarts, or of which row an unordered SELECT picks. Every poll
  claims a due recurring row first (464-470), so that a one-shot may wait for ever.
  `OneShotServedBetweenRecurring` has the premise that polls of one poller fall,
  again and again, on a moment without a recurring row to claim (`QuietPolls`):
  such moments recur, and strong fairness of `ClaimOneShot` says that polls meet
  them. That is so when the periods of the recurring rows are longer than the poll
  delays they use up, which nothing in the code enforces. The recurring rows may
  keep coming due for ever, as the row of the sweep does (`ddl.sql` inserts it).
- `JobLifecycle`: time passes, playbooks end, handlers return, and the sweep is
  dispatched again and again. Nothing is assumed of the queue.
- `AppShutdown`: the loop runs what is ready; `asyncio.Lock` serves its waiters
  in order, hence strong fairness of `Acquire`; handlers return (cpkit cannot end
  them, and says so); a custom task ends once it was cancelled. Nobody has to
  call `shutdown`, and nothing has to poll.

## 4. Proofs

`tlapm` checks these for every value of the constants, from the assumptions each
module states about its constants (`MessagesAssumption`, `WorkersAssumption`,
`BoundsAssumption`; `JobAssumption`; `OwnersAssumption`; `ApiKeysAssumption`,
`AuditAssumption`; `OidcAssumption`; `KeysAssumption`; `PlaybookAssumption`;
`RunAssumption`). They say
of what kind a constant is, that the command line is no administrator, that None is
no issuer, key set or key, and that
the clock can tick at least once; the bounds of failures, calls, tokens and numbers
are arbitrary, so that the theorems do not depend on those of section 3.

`QueueDispatch_proofs`

- `TypeCorrect`: `TypeOK` is inductive.
- `DispatchInvariant`: `AtMostOnce` is not inductive by itself, since nothing in
  it says that a worker about to submit is the only one. `DispatchInv` adds that
  a worker holds a message exactly while it dispatches it (`ClaimsAreHeld`), that
  the row of an open transaction is due and locked by that worker alone
  (`LocksAreExclusive`), and that a one-shot taken but not yet submitted is gone,
  unsubmitted and in one worker's hands (`TakenIsGone`). One lemma per action.
- `AtMostOnceHolds`, `DeletedBeforeRunHolds`: consequences.
- `NoSilentLossHolds`: inductive relative to the two invariants above.
- `CleanupReportHolds`: that a reported one-shot has not been submitted is not
  inductive, since a worker might still hold it. `CleanupInv` adds that it is gone
  and that nobody does; a message in that state stays in it (`StepSettled`), and a
  worker that reports it has just let go of it.
- `UnparsableHolds`: from `RefusalInv`, that what a worker is about to commit it did
  not refuse.
- `ScopedHolds`: from `ScopedInv`, that a scoped worker has run nothing before its one
  attempt is over, and that what it holds is its identifier.
- `OncePerPeriodHolds`: `credit` counts how often a row became due less how often it
  was run. That it is never negative is not inductive: two workers may have taken
  the row, one in a period the other did not see. `Covered` says that the credit pays
  for every worker that has committed a claim and not yet submitted (`Owing`, a
  finite set) and for the period that is there to be claimed (`DueNow`). A commit
  moves one unit from the second to the first, a submission spends it.
- `RecurringRowsSurvive`, `UncertainErrorsEndTheWorker`: the two action properties,
  by cases over the actions.

`QueueRefinement_proofs`

- `ImplementsQueueHolds`: the state function `StageOf` maps each one-shot to a stage of
  `AtMostOnceQueue`. `StageIs` reads it off the row, the invocations and whether a
  worker holds the message; `StageStays` says when it does not change. With
  `DispatchInvariant`, a commit is a `Take` of one message or a stutter (a recurring
  row, or a commit that was not applied), a submission a `Start`, an insertion an
  `Enqueue`; a `Drop` is a commit that was applied and not acknowledged, or a failure or
  crash of a worker after its commit. Everything else is a stutter.

`JobLifecycle_proofs`

- `TypeCorrect`.
- `HonestyHolds`, `SuccessHolds`: with what `handler` implies about `verdict` and
  `playing` where the outcome is written.
- `OutcomeHolds`: the action property, from the invariant that a job with a
  handler was started by the queue: a dropped message never gets a handler.
- `JobsUseTheQueue`: a step of a job is a step of `AtMostOnceQueue` or a stutter of
  it. `ImplementsQueueHolds` is the other half: what is proved of jobs rests on a
  promise that the workers' protocol keeps.
- `HandlersOnlyAdvance`: `Rank` grows with every step of a handler, failures and
  crashes included. No playbook is launched twice for one message, and a handler has
  at most nine steps to go, which is the variant behind `EveryJobSettles`.

`AppShutdown_proofs`

- `TypeCorrect`.
- Three lemmas say that what was stopped only gets less: the handles of a
  stopped worker (`StoppedHandlesShrink`), its polling
  (`StoppedPollingShrinks`), and the background tasks once the stop was requested,
  but for those that startup has yet to create, which are `late` (`PendingShrinks`). The first is the action property
  `NothingSubmittedOnceStopped` (`StoppedWorkersSubmitNothing`).
- `ShutdownIsOrderly`: `PoolOutlivesWork` is not inductive by itself, since it
  says nothing of a call that is about to close the pool. `ShutdownInv` adds that
  every call in progress finds all workers stopped and every task that is left
  cancelled or late (`StopIsTotal`: nothing else a call waits for was not told to end,
  which is the safety part of `EveryCallReturns`), that the call
  that joins or drains is the holder of the lock (`LockIsHeld`), and that what
  its joins and drains have established still holds (`HolderIsRight`,
  `JoinedBeforeDrained`), which follows from the three lemmas.
- `PoolIsClosedLast`, `PoolIsClosedOnce`, `TasksAreCancelledOnce`: consequences,
  the last two from the histories (`HistoriesAgree`).

`OidcSession_proofs`

- `TypeCorrect`, `LogoutIsEffectiveHolds` and `LoginRecordedHolds` follow from one
  inductive invariant with a lemma per action. `LogoutIsEffective` speaks of what is
  served; nothing in it says that an UPDATE of a request that was refreshing leaves a
  deleted row deleted, or that no login makes the session again. `LoginInv` says so:
  there is no row before the callback inserts it (`RowsFollowLogins`), a cookie and
  a request carry the session of a finished login (`CookiesAreDone`), a row that a
  logout has deleted stays away (`GoneIsGone`), hence a later request is refused or
  raises (`LateIsRefused`).
- `StoredTokenHolds` and `RefusalHolds`: what the table, the provider and the copies
  of the requests have to do with each other. `TokenInv` says that the event loop of
  a process runs one check at a time (`LoopIsExclusive`), that the table is at most
  one token behind the provider and then the newer one is lost or in a request's hands
  (`StoredIsRecent`), that these hands are the only ones (`RefreshedIsNewest`), and
  that a request with an older copy already has the excuse its refusal will need
  (`CopiesAreExcused`): another process spent the token, or its successor was lost.
  That last part needs the loop: were it not exclusive, the spender might be a request
  of the same process. Steps that touch no token are one lemma (`QuietStep`).

`Auth_proofs`

- `ApiTypeCorrect` and `OneTransactionDeletesHolds`. `OneTransactionDeletes` is not
  inductive by itself: nothing in it says that a second transaction cannot have found
  the key before the first commits. `KeyInv` adds that a row is locked by one
  transaction (`LocksAreExclusive`), that what a transaction deletes it has locked and
  is there (`RemovesAreLocked`), that what it creates nobody else sees (`AddsAreNew`),
  and that a key deleted by a committed transaction is gone (`RetiredIsGone`). One
  lemma per action.
- `KeyAndRecordHolds`: with what a transaction has created and not yet committed
  being managed and without a record (`RecordInv`).
- `SecretHolds`: inductive relative to `KeyInv`.
- `KeysTypeCorrect` and `LoneLookupsHold`. `LoneLookupsAreRight` speaks of the end of a
  lookup. `KeysInv` follows a thread that nobody has disturbed on the way there: the
  cached metadata are those of the configuration, unless they were stored by a thread
  that was overtaken or a new configuration is being put in force
  (`MetadataAreRight`), which is done to everybody else (`LoneIsUndisturbed`). A thread
  that assigns the configuration it had found unchanged over one put in force since
  counts as overtaken when metadata of the other are cached (`KeepConfig`). Hence
  the issuer it asks is the configured one, the keys it is sent are those published,
  and when it looks the second time, it looks at these (`KnowsRight`).
- `MovingMachineIsImplemented`: the behaviours of `MCAuth` are behaviours of
  `OidcSpec`, of `ApiSpec` or of `KeysSpec`, whichever machine moves, so that the
  theorems above hold in the run's composition. `AuthTypeCorrect`: the three shapes
  hold there together.

`AnsibleRun_proofs`

- `TypeCorrect`, and what `main` implies about the parts (`PartInv`): they run in order,
  one at a time, except for a target that was left running, which is not started again.
- `CredentialsOutliveHolds`: with `CredentialsHeld`, that the directory exists from the
  first part to the end of each one that is waited for.
- `LeftoversHold`: with `CredentialsKept` and `DirsHaveACause`: a directory is that of
  the part at hand, or of one that never started and whose FAILURE row failed too.
- `RefusedForCauseHolds`: a refusal has its cause when it happens only because of what
  held before. `NumberInv` says that the runner's next number is free unless a
  FAILURE row took it, an INSERT that raised did, or it is about to be counted
  (`NextNumbersAreFree`), and the same of the number handed to the caller
  (`CallersNumberIsFree`). Causes last (`StepCauses`) and new refusals have them
  (`StepRefusals`).

`Playbooks_proofs`

- `ReadingsAgree`: the routes compare marks as they are shown, to the second, and the
  runner reads the first row of an order by the marks themselves. They agree if some
  version is marked and no other shows the same second as the one that is loaded.
  It rests on `DefaultIsAhead`, that a finite table with rows has a
  version ahead of all others: the sets of predecessors are ordered by inclusion,
  which is well-founded on finite sets.
- `VersionsTypeCorrect`, `ShownDefaultHolds`, `DefaultIsRemovedForCauseHolds`, the last
  from what an administrator in the middle of a deletion has read
  (`CheckedIsNotDefault`) and what an initialisation is about to replace
  (`ReplacedIsOther`): a default that nobody overtook it at keeps its content
  (`TellsOfContent`).
- `BothMachinesAreImplemented` and `PlaybooksTypeCorrect`: the same of `MCPlaybooks`,
  whose behaviours are behaviours of `VersionsSpec` and of `RunSpec`.

Every safety property of the runs that pass is proved.

Only model-checked: the liveness properties (`RecurringServed`,
`OneShotServedBetweenRecurring`, `EveryJobSettles`, `EveryCallReturns`) and with them the
fairness that `JobLifecycle` takes from the queue, since the prover has no ENABLED; and
the four counterexamples of section 5. The refinement theorem is of the safety part:
`AtMostOnceQueue` states no fairness.

## 5. Disagreements between code and documents

- `queue_submission`. The phase `submission` is documented as a rejected
  submission, and the text of the error says the handler was not submitted. The
  executor queues the invocation before it starts a thread. If starting the
  thread is what failed and another thread of the executor is busy, that thread
  runs the handler later. `AppShutdown` shows that the drain still waits for it,
  because it joins the executor (`PoolOutlivesWork`).
- `job_sweep`. The sweep is documented to fail stale jobs. `update_job` does not
  touch `updated_at`, so the heartbeat that rewrites RUNNING every 60 s has no
  effect on it, and any job older than 300 s is failed while it runs. The runner
  writes the true outcome at its end (`SuccessIsRecorded`), so the row is wrong
  in between only.
- `credential_dir`. The directory with the credentials is documented to be removed
  unless retention is enabled. The row about a part that cannot be started gets a
  number that is counted in the result but not in the runner (313, 327), and the
  runner goes on after it, for the prepare and the cleanup playbook: the next row
  has the same number and is refused. If the prepare playbook is not valid YAML,
  this happens in the try block, in its except clause and again in the finally
  clause, which is left before the directory is removed.
- `run_options`. Updates and resets of settings are documented to refresh the
  options of runs; nothing but the lifespan calls `configure_playbook_run_options`.

What the models show of behaviour no document speaks of: `NumbersAreRefusedForCause`
lists every way to a refused task row, among them the caller that writes under
`task_id_counter` after a cleanup playbook has used that number (the example does
so when hooks are enabled and a cleanup playbook exists);
`RefusalComesFromAnotherProcess` says that two processes with one rotating provider
drop a good session when both refresh it; `ShownDefaultRuns` excludes versions
none of which is marked, where the routes show the oldest and runs load the newest,
and two marks within one second. `LoneLookupsAreRight` names what sharing the caches
without a lock costs: a lookup that somebody disturbs may read None or turn a good
token down, which ends in a refresh of the session, and one disturbance outlasts the
lookup it met: a thread that has asked the old provider for its metadata stores the
answer after another thread has emptied the caches (105), and until it is 300 s old
every lookup fetches the keys of the old provider. The same comes of the configuration
itself: `load_config` compares first (451) and assigns in any case (56), so that a
thread that read the settings before they changed puts the old configuration back
over the new one, without emptying the caches, for another 300 s.

`DefaultIsRemovedForCause` has, beside the races, one cause that needs no race: the
check "Cannot delete the default version" compares strings (`service.py:134-136`), the
DELETE compares times. A deletion of `2026-07-01T12:00:01` removes the default that
the routes show as `2026-07-01 12:00:01`.

`late` in `AppShutdown`: the runtime is reachable before the startup hooks are awaited
(`app.py:221`). If a hook, or something it started, calls `shutdown`, the pool is closed
and startup goes on: the tasks it creates afterwards (258-259) are not cancelled by any
later call. Pollers end at once, since they were told to stop; a custom task keeps
running without a pool, and the lifespan reports an incomplete shutdown. If the early
call was cut off before it closed the pool, the lifespan's call waits for that task.

## 6. Not modelled

- The check of a signed request (`auth/api_keys.py`), roles, groups and claims:
  functions of one request.
- OIDC switched off, and `/me`. A session check against the caches step by step:
  `OidcSession` takes what `ProviderKeys` shows in one step, `ValidationRaises`.
- A process that dies within a refresh: to the table it is a statement without
  effect and a request that is not answered, which `Store` and `DropSession` have.
- The text of versions and times; a client and a server in different time zones, and a
  change of daylight saving time between two marks (`Shown` is monotone, `strftime` of
  a time in the session's zone is not).
- Secrets, error translation, HTTP routers, log records, the web assets and the
  development tools keep no state that two steps could disagree about.
- `AppShutdown`: re-entering the lifespan with single-use workers, a drain with a
  timeout of its own, `run_queue_worker`.

## 7. Plan

1. Done: the modules of section 2, and the proofs of the safety properties of each.
2. Left: the lifespan entered a second time (a hazard without a property); a
   statement of the sweep's fairness as a theorem about `QueueDispatch` is out of the
   prover's reach.

## 8. Running

In this directory: `tlc -config QueueSafety.cfg MCQueueDispatch.tla` and likewise
for the other configurations (the module of each run is in `PROJECT.json`);
`tlapm QueueDispatch_proofs.tla` and likewise for the other `_proofs` modules.
