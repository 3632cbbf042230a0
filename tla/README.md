# A verification project for Propza

Propza is a property management system for Saudi Arabia: twenty Odoo 17 addons
under `src/addons`, of which `queue_job` is vendored.  This directory holds TLA+
models of its parts that are hard to test, the TLC runs that check them and the
TLAPS proofs about them.

```
tlc -workers 2 -config EjarCrash.cfg MCEjarSubmission     # one run
tlapm EjarSubmissionProofs.tla                            # the proofs of a module
```

## 1. Inventory

How the system runs matters to every part.  Each request, each scheduled action
("cron") and each webhook is one PostgreSQL transaction at REPEATABLE READ, and a
request whose transaction is refused because another wrote one of its rows is run
again from the start by Odoo.  A scheduled action runs in one thread.  Code that
calls `cr.commit()` in the middle is several transactions.  A wizard or a form
stays open as long as its user likes, and most methods do not check again what
the view checked when it showed the button.

| component | state | operations | who it interacts with |
|---|---|---|---|
| Ejar contract (`l10n_sa_ejar`: `ejar_contract.py`, `ejar_contract_jobs.py`, `lifecycle_service.py`, wizards) | `ejar_status`, `ejar_contract_id`, `active_job_uuid`, party and unit identifiers | build, mark ready, upload, submit (in a job or in the request), cancel, reset, poll, clean up dead letters | Ejar (HTTP), `queue_job`, two crons, the webhooks |
| Ejar API client (`ejar_client.py`, `exceptions.py`) | a circuit breaker per company, in process memory | request with retry, breaker check, success, failure; the idempotency key of each call | every pipeline of the process |
| Ejar credentials (`auth_service.py`, `res_config_settings.py`) | a cache with a time to live; the stored parameters | get, invalidate, save | the client |
| Ejar webhooks (`webhook_processor.py`, `webhook_validator.py`) | `ejar_sync_log` rows, contract status | validate, find duplicates, approve, reject, note | Ejar, the contract |
| `queue_job`: jobs (`job.py`, `controllers/main.py`, `queue_job.py`) | `queue_job` and `queue_job_lock` rows | enqueue, start, finish, postpone, requeue, cancel, release what waits | the runner, HTTP workers |
| `queue_job`: channels (`channels.py`) | the tree of channels, their queues and running jobs, in the runner's memory | configure, find a job's channel, notify, let out | the runner |
| `queue_job`: graphs (`delay.py`) | delayables, chains and groups of one program | `on_done`, `split`, `delay` | the jobs' `depends_on` |
| `queue_job`: runner (`runner.py`, `post_init_hook.py`) | sessions, advisory locks, what it remembers | connect, load, notify, ask for, requeue the dead, close | PostgreSQL, the runners of other servers |
| Rent payments (`sa_rental_cycle`) | `sa.rent.payment` rows, invoices, account payments | generate the schedule, wizard, mark paid, cancel, invoice, reconcile, daily flagging | the books, SADAD, portal, dashboards |
| SADAD bills (`sa_sadad`) | `sa.sadad.invoice` rows | issue, pay (page, webhook, button), cancel, expire | rent payments |
| Tenancy (`sa_rental_cycle`, `sa_property_base`) | tenancy, deposit and cycle states, links to predecessor and successor, property state | confirm, start, renew (wizard and daily job), end, delete, deposit movements, alerts | rent payments, properties, Ejar |
| CRM (`sa_crm`) | leads, showings, reservations, `is_reserved` | rotation, stages, activate, expire, convert | properties, users |
| Broker commissions | commissions and their lines, vendor bills | generate, confirm, bill, pay, cancel | tenancies, the books |
| Maintenance, inspections | requests, work orders, contracts, inspections | transitions; the job that generates visits | tenancies, notifications |
| Call centre | calls, tickets | telephony webhooks, clean-up of stale calls, conversion | CRM, maintenance |
| Notifications | none (nothing records what was sent) | reminders on exact days | rent payments, tenancies |
| Portal, dashboards, targets, analytics, matching, security, profiles, projects | mostly none of their own | read the rest | all |

What makes each of them correct, and what is hard about it:

* **Ejar contract.**  What Odoo shows must never be ahead of what Ejar has done;
  a contract must not hang in `submitting`; Ejar's decision must be learnt; a
  terminal contract must stay terminal; one pipeline at a time.  Hard: the
  pipeline is some ten transactions with remote calls between them, run by
  processes that die, are given the job twice, lose answers, and meet polls,
  crons and users who write the same row.
* **Circuit breaker, credentials.**  The breaker must open after the threshold,
  let probes through and close again; a credential must not outlive its
  invalidation.  Hard: shared memory, threads, time.
* **Webhooks.**  Events applied once; a status that claims what Ejar has done.  Hard:
  redelivery, reordering, failure half-way.
* **queue_job.**  A job runs to its end, and only one worker at a time runs it;
  channels keep within their capacities; a child starts when its last parent is
  done; a graph is executed in the order the program described; one runner of
  all servers asks for jobs.  Hard: lock rows, notifications, dead workers,
  graphs built call by call, sessions cut unnoticed.
* **Rent payments, SADAD.**  The state of a row says how much of it is paid; it
  is invoiced once; the books hold what was paid; late rows are flagged.  Hard:
  four writers of one row, stale wizards, swallowed exceptions.
* **Tenancy.**  A tenancy is renewed once and ended once, its deposit returned
  once; a property is let once.  Hard: stale wizards against crons.
* **CRM.**  The least loaded agent gets the lead; one active reservation per
  property.  Hard: snapshot reads under a lock taken later, and searches that
  record rules cut down to what an agent may see.
* **Commissions, maintenance, calls, notifications.**  Paid lines are never
  generated again; visits keep their interval; a call that has ended stays
  ended; a reminder is sent once.

`PROJECT.json` lists the same components with their files and the hazards at
their lines.

## 2. Plan

The modules were written in this order, the parts of the contract's way to Ejar
first.  All of them are done; section 6 says what has been left out and why.

| module | what it models | composed in | theorems |
|---|---|---|---|
| `EjarRegistration` | abstract: what the status of a contract promises about Ejar | implemented by `EjarSubmission` and `EjarWebhook` | - |
| `EjarSubmission` | one contract, its users, jobs, crons and Ejar | - | `EjarSubmissionProofs` |
| `EjarClient` | circuit breaker and credential cache | `EjarGateway` | `EjarGatewayProofs` |
| `EjarFiling` | the fourteen steps of the pipeline | `EjarGateway` | `EjarFilingProofs` |
| `EjarWebhook` | events of Ejar | `EjarGateway` | `EjarGatewayProofs` |
| `QueueJob` | jobs, channels, workers and the runner | `QueueStack` | `QueueJobProofs` |
| `JobGraph` | the description of a graph of jobs | `QueueStack` | `JobGraphProofs` |
| `ChannelTree` | configuration and discovery of channels | `QueueStack` | `QueueStackProofs` |
| `RunnerElection` | runners of several servers | `QueueStack` | `QueueStackProofs` |
| `RentPayments` | payment rows, SADAD bills, books | `BackOffice` | `RentPaymentsProofs` |
| `Reservations` | reservations and leads | `BackOffice` | `BackOfficeProofs` |
| `Tenancies` | tenancies and their renewal | `BackOffice` | `BackOfficeProofs` |
| `Commissions` | a broker's commission and its lines | `BackOffice` | `BackOfficeProofs` |
| `Maintenance` | maintenance contracts and visits | `BackOffice` | `BackOfficeProofs` |

`EjarGateway`, `QueueStack` and `BackOffice` each hold parts that share no state
two of them write.  A behaviour of theirs chooses a `part` at the start and
follows it while the others rest in their initial state: interleaving steps that
cannot meet would only multiply states.  Where a part hands a *result* to another
(the rows of a graph to the jobs, a channel's path to the channels), the other
takes it as a constant, and its theorems hold for every value of it.  That the
whole behaves as its parts is so by construction (the lemmas `GatewayComposes`,
`StackComposes`, `BackOfficeComposes`), so the parts' theorems hold of it.  The
`MC...` modules give the constants their values.

What would come next, in this order: a composition of `EjarSubmission` with
`QueueJob` in place of its own runner and lock; the contract's two pipelines of
two *different* contracts in `EjarFiling` (one key, see section 6); the deposit
beside `Tenancies`; the rotation of leads.

The modules that are proved about declare no recursive operator, take their sets
and bounds as constants with named assumptions, and have one action per
operation.

## 3. What is modelled

### EjarSubmission

One `ejar.contract`, everybody who writes it, its `queue.job` records, and Ejar's
own record of it.

* The **variables** `status`, `ejarId`, `activeJob` and `activity` are the
  columns of the contract; `job` are the `queue.job` records (state, kind, number
  of tries); `remote` is Ejar's record.  `pc`, `task`, `tries`, `err` and `seen`
  are what a request, a worker or the cron thread has in its local variables
  between two transactions; `wizard` are the users with the submission wizard
  open.
* **Transactions.**  A request that is one transaction is one action.  The
  pipeline is one action per group of steps that ends in a commit or in a remote
  call.  `stale[p]` says that another transaction has written the contract row
  since process `p` last committed: then PostgreSQL refuses `p`'s write
  (`WriteRefused`, `PollRefused`, `BeginConflict`, `RequestRetried`).
* **The pipeline** (`lifecycle_service.py`).  `CreateContract` stands for steps
  1-5, `SubmitContract` for steps 6-14, `Finalize` for the last write;
  `EjarFiling` has the steps one by one.
  `CreateFails` and `SubmitFails` are their exceptions, classified as
  `job_policies.py` does: transient, permanent, or the conflict that step 14 does
  not expect.  A failed call may have had its effect at Ejar.  `FailPipeline` is
  the `except` clause.
* **Jobs.**  `WithDelay` returns the pending job of the same identity;
  `Dispatch`, `StartJob`, `JobEnds` and `RequeueDead` are the runner and the
  controller.  `Locked` is the row of `queue_job_lock`: it is held until the
  worker's first commit, which for a submission comes when the pipeline begins.
  A poll whose write is refused inside its method counts as a try; refused when
  the controller commits, it is postponed without a limit (`Postponed`).
* **Old forms.**  The view offers the question about the status only for
  `submitted` and `approved`, while the method looks at the identifier alone; with
  `OldForms` it is asked in any status.  Ejar's state `active`, which a poll takes
  for `registered`, is not told apart from it.
* **Cancelled jobs.**  `queue_job` tells the runner of a change later.  A job
  cancelled while pending is `withdrawn` until the runner has noted it
  (`NoteCancelled`); with `LateRunner` the runner may send it before, since
  `set_job_enqueued` writes without looking at the row (`runner.py:317`).  The
  job then runs after its contract has been given up, so `SubmittingIsOwned` and
  the liveness properties are checked with `LateRunner = FALSE`, the others also
  with TRUE (section 4 says what becomes of the former).
* **Deployment.**  `QueueJobImportable` and `QueueJobUsable` are the two import
  tests of the code.  As shipped they are TRUE and FALSE.
* **Death.**  `Crash` rolls back the open transaction and forgets the process;
  its job stays `started` with no lock, for `RequeueDead` to find.

The form's data is not modelled: a check of it may go either way.

### EjarRegistration

The abstract specification of the same contract: what its status claims about
Ejar (`claim`), and Ejar's record.  A claim may be taken up only when the record
backs it, and the record only goes forward.  `EjarSubmission` implements it with
`claim` the status where it says something of Ejar, and `"none"` elsewhere
(`KeepsItsPromise`), and so do the webhooks (`WebhookKeepsPromise`).

### EjarClient

The threads of one server process, each making one call after another for one
company.  A thread meets shared memory three times in a call, with nothing locked
between: it takes its credentials from the cache (`CacheHit`, or `CacheMiss` and,
later, `FillCache`), it asks the breaker (`CheckCircuit`), and it records the
answer (`Settle`).  `HearsBack` is Ejar.  `circuit` is the breaker's record of the
company, with `cooled` for the time that has passed since the last failure;
`params` are the stored credentials of the two sources, of which `Resolve` picks
one; `accepted` is the version Ejar takes.  Saving settings does not touch the
cache (`SaveSettings`): only a 401 empties it.  `streak` is a history: the
successes recorded since the last recorded failure.

### EjarFiling

The fourteen steps of the pipeline for contracts of one portfolio.  For each
request the model says which idempotency key it carries (`KeyEntity`,
`KeyCreate`, ...), what it creates at Ejar (`held`, `drafts`, `people`), whether a
409 is put up with and what is learnt from it (`Takes`), what is remembered
(`ids`), and where the code commits (`Commit`: `saved` is what survives a death).
`stage` and `todo` are the stage and the records whose turn in it is still to
come, which the model takes in any order.  Each request may be
granted, lose its answer after having had its effect, fail, or find the process
dead; `KeysLapse` is Ejar forgetting the keys of a day ago.  `Reject`,
`ResetRejected` and `PutRight` are the way back: `PutRight` stands for
`action_start_building` and `action_mark_ready` after the data has been changed
(`form`).

No code under `src` writes the identifiers of Ejar's portfolio on a contract's
unit, so `attach_unit` raises unless they have been put there by other means:
`Portfolio` are the units for which they have.

### EjarWebhook

Deliveries of signed events about one contract.  `Receive` is the beginning of the
transaction and the search for a duplicate in the log, which looks only for events
that carry an idempotency key (`keyed`) and only among the rows of 24 hours
(`Forgets` is their passing); a delivery whose signature or timestamp is refused
changes nothing and is no step.
`Process` is the handler and the commit; `ProcessRaises` an exception, which the
controller swallows, so that the log row stays; `ProcessUndone` the database
refusing the write of the contract (`outdated`).  `loggable` says whether the log
lets itself be searched by the route, which has no user, and takes the status the
processor gives it.  As shipped it refuses the status at least: every event ends in
a swallowed exception, and the properties hold because nothing happens.  Both values
are checked.  Polls and people write the status beside the handlers.

`Decides` and `Mentions` are Ejar.  What has been told may arrive at any time, in any
order and any number of times: the timestamp the code tests is a header of the
delivery, beside what is signed, and tells nothing of the age of the event.  The
handlers look neither at the status they overwrite nor at the order of events, so
a rejection that comes late or again puts an approved contract back to `rejected`,
which no scheduled poll corrects.
The model has these behaviours, and no property is about the order.  `applied`
counts how often an event has taken effect since the log last forgot it, up to
`Repeated`.

### QueueJob

The jobs of one dependency graph, from the transaction that stores them to their
end: rows, runner, channels and workers.  It knows nothing of what a job does.

* **Rows.**  `job` has the columns `state`, `retry` and, for `eta`, whether it is
  unset, to come or past.  `Requeue`, `SetDone` and `Cancel` are the buttons of
  the queue manager, with the dependents that `_change_job_state` releases or
  cancels in the same transaction.
* **The runner's memory.**  `queue`, `running`, `failed` and `paused` are those
  of the channel objects.  `Path[c]` is `c` with the channels downstream of it,
  up to the root.  Every write of a row puts it into `notes`; `Notify` is the
  runner reading such a row *as it is by then*.  `RunJobs` is one turn of
  `run_jobs`: each channel takes in what its children let out and lets out its
  first jobs while it has room (`has_capacity`, throttle, sequential mode), and
  `set_job_enqueued` writes what the root lets out, whatever its row holds.  `Restart` rebuilds the memory from the rows.
* **Requests.**  A job in `asked` has a request under way, which any idle worker
  may take up (`Start`), late or never (`RequestWasted`).
* **Workers.**  `Start` is the first transaction of the controller, which commits
  `started` with a lock record; `LockRow` and `LockGranted` are `job.lock()`,
  which reads when it begins and waits; `Perform...` the end of the method;
  `EnqueueWaiting` the last transaction.  `fresh` are the workers whose snapshot
  still holds: another's write of the row since makes the database refuse theirs,
  and the controller postpones the job without counting it.
* **Mishaps.**  A press of a button, a request later than the 10 seconds of
  `requeue_dead_jobs`, a lost request, a death and a restart each use up one of
  `MaxMishaps`, and `mishaps` remembers which kinds occurred: a property that
  holds only without one of them says so.

All jobs have one priority; `Jobs` are numbers in the order of creation.  Identity
keys are in `EjarSubmission` (`WithDelay`).  Times are not: a throttle or an `eta`
ends when it ends.

### JobGraph

How a program describes a graph of jobs before any row exists.  `things` are the
delayables, chains and groups in the order they are made; `links` the graph each
of them has by then, for `on_done` and the making of a chain join *graphs*, and
what was said of a part later is found only when `delay()` gathers the graphs of
all it can reach (`Met`).  `Split` replaces a delayable by smaller ones.
`DelayStored`, `DelayFound` (jobs of the same identity exist) and `DelayRefused`
(a circle) are the outcomes of `delay()`; `DelayDirectly` and `Execute` are the
execution without a queue.  `Said` is the reference the properties compare with:
what the calls say, whatever the edges are.

What `on_done` has said of a delayable before it is split is lost, and
an empty group in a chain loses the order across it; the properties leave such
programs out (`Plain`).  Of a graph whose keyed jobs all exist, the others are not
stored (`DelayFound`).

### ChannelTree

The names of channels, the configuration (`ConfigureChannel`) and the way a job's
channel is found when its name is not configured (`ChannelFor`, `Entered`).  A
channel that has been made for one job changes what a later name finds.  The properties leave
out names that come back to their first segment, such as `a.a`: there the code
takes the part for one that has been repeated below a parent.

### RunnerElection

The runners of several servers and the databases they share.  `Connect` takes the
advisory lock of the next database in the order of names, or gives up all it has
(`ElectionLost`); `LoadJobs`, `ReadNotification` and `AskFor` are the runner's
reading and writing; `CutSession` leaves both ends in the belief that the session
lives, `SessionExpires` is PostgreSQL noticing, `QueryFails` the runner noticing.
One job per database stands for all.

### RentPayments

The payment rows of one tenancy, the SADAD bills issued for them, their invoices
and what has been posted for them.

* `row` holds for each row its state, kind, due date, `amount_paid` (`paid`), the
  linked invoice (`move`), and two counts no column has: the invoices ever posted
  for it (`moves`) and the sum of the account payments posted for it (`ledger`).
  `bill` are the bills, in the order of issue; `wizard` and `issuing` are what
  each user has open or is about to commit; `today` counts days.
* `GenerateSchedule` deletes the `pending` and `overdue` rows, with their bills,
  and creates one row for every line of the schedule, also for lines whose rows
  are kept.  `RegisterPayment` is the wizard: it adds to the row, sets the state,
  tries to invoice and reconciles.  `BillPaid` is `_mark_paid`, reached from the
  page, the webhook and the button, which differ in what they check first.
  `Invoiced` and `Reconciled` are the two accounting methods with their swallowed
  failures.  `MarkOverdue` and `ExpireBills` are the scheduled actions.
* A request is one transaction, and two that write one row exclude each other.
  Issuing a bill writes no row that another request reads: it is two steps.

Amounts are small numbers and VAT is 0, so that the ratio of
`_create_account_payment_and_reconcile` is `amount_paid` itself.  `Reconciled` may
post an account payment whatever has been posted before: the code stops at an invoice
that is cleared, but a reconciliation that fails is swallowed and leaves the invoice
open, with the payment posted.
Not modelled are the form's direct edits of `amount` and `amount_paid`, which no
method checks and which `StateMatchesBalance` would not survive; an accountant who
posts or cancels an invoice by hand, with the second invoice that `InvoicedOnce` does
not count on; and a change of the tenancy's rent or deposit.

### Reservations, Tenancies, Commissions, Maintenance

These four share one idea.  A request of Odoo is one transaction on a snapshot;
the database refuses it when a row it writes has been written since, and Odoo runs
it again.  Where a method reads *other* rows before it writes its own, it is two
steps, the first of which keeps what was read, and every action says which of the
requests under way it makes fail (`Undone`, `Conflicts`, `Meet`, `Disturbs`).  A row is taken to be
written only if a value in it changes, which excludes less than the code does.

* `Reservations`: `ActivateReads` searches for another active reservation,
  `ActivateCommits` writes the state and the property's stored `is_reserved`.
  `booking`, `holder` and `lead` are the rows.  Methods run with the rights of who
  presses the button: `Seen(a)` are the reservations the record rules of
  `sa_crm_security.xml` show to `a`, all of them to `Supervisors` and those of his
  own leads to an agent.  The search of an activation and the direct calls of
  `_compute_is_reserved` (`Recomputed`) are cut down to that; the daily job and the
  ORM's own recomputation, when a form moves a reservation, see all.  `Assign` gives
  a lead to another agent.  `MoveReservation` is the form's change of property, which
  nothing checks (`moved` remembers it, and properties whose reservations change
  hands).
* `Tenancies`: the tenancies of one property with `renewed_from_id` and
  `renewed_to_id`; a wizard stays open (`OpenRenewal`) while the daily job
  and other people renew, close or delete the tenancy.  Closing or cancelling
  *any* tenancy of the property frees it, and setting one back to draft leaves it
  let: the model does so, too.  Under a rent freeze the daily job leaves a draft
  behind every day, so `RenewedOnce` is about cities without one.  Another exception
  after the new tenancy was created, which the job also swallows, would leave such a
  draft, too, and is not modelled.
* `Commissions`: one contract and its lines.  `CreateBill`, `MarkLinePaid`,
  `CancelLine` and `EditLine` read the lines and later write one of them with the
  state of the contract that follows from what they read.  `ConfirmCommission`
  deletes the lines that are not paid and makes new ones; over a paid line it
  writes `confirmed` all the same (`unsettled`).
* `Maintenance`: `RoundReads` and `RoundCommits` are the daily job over all
  contracts that are due, which may stop midway in one of them and swallow the
  exception (`broken`); `GenerateRequestNow` is the button.

## 4. The runs

Six runs pass.  `PROJECT.json` names for each property a change of the code's model
that breaks it.

| run | properties | bounds |
|---|---|---|
| `ejar_crash` | `NeverAheadOfEjar`, `CarriedIsTrue`, `KeepsItsPromise`, with and without jobs, with a death, live pipelines taken for dead and cancelled jobs sent all the same | 1 user, 1 worker, 2 jobs, 2 tries, 1 death |
| `ejar_live` | `SubmittingIsOwned`, `SubmittingSettles`, `DecisionLearnt` | 1 user, 2 workers, 1 job, 2 tries, 1 death |
| `ejar_gateway` | client: `BreakerAgrees`, `ClosesOnEvidence`, `CircuitRecovers`, `RotationTakesEffect`; filing: `FiledIsComplete`, `RememberedIsHeld`, `OneDraftEach`, `FilingEnds`; webhooks: `AppliedOnce`, `WebhookKeepsPromise` | 2 threads, both thresholds 2, 2 versions of the credentials, 1 outage; 1 contract with a lessor who is a company, an agent, a unit and a fee, 1 death, 1 lapse of keys, 2 drafts; 2 HTTP workers, 2 events, with or without a key each, effects counted up to 2 |
| `queue` | jobs: `CapacityKept`, `ExecutionIsKnown`, `ReleaseOwed`, `SequenceKept`; graphs: `OrderKept`, `DirectRunKeepsOrder`; channels: `LimitsOfItsName`, `ChannelStays`; runners: `MemoryIsCurrent`, `AskedByMaster` | 3 jobs, the third waits for the two others, which share a sequential, throttled channel, 2 workers, 2 retries, 1 mishap; up to 3 delayables in 2 chains or groups of 2 parts, 1 `on_done`; names of up to 3 of two segments, 2 entries, 2 lookups; 2 servers, 2 databases, 2 troubles |
| `queue_live` | `ActiveSettles`, `PendingIsServed`, `OneMasterEmerges` | 2 jobs, the second waits for the first, 1 worker, 1 retry, 2 mishaps; 2 servers, 2 databases, 2 troubles |
| `back_office` | `StateMatchesBalance`, `InvoicedOnce`, `PaidStaysPaid`, `ReservedOnceByAgent`, `RenewedOnce`, `StateFollowsLines`, `VisitsAPeriodApart` | 2 rows, 1 user, amount 2, at most 3 paid, 2 bills, 2 days; 2 reservations, 2 properties, 2 leads, an agent and a manager; 3 tenancies, 1 manager and the daily job; 3 lines, 2 clerks, 1-3 instalments; 2 maintenance contracts, of which one ends early, 2 sites, period 2, 5 days, 1 press of the button |

Three of them also check a type invariant that says what the parts' variables may
hold; those of `EjarSubmission` and `QueueJob` are proved.

*Why the bounds are enough.*  Two rows are what regeneration of a schedule needs:
one that goes or stays and one that replaces it.  An amount of 2 has one partial
payment, and 3 is an overpayment by an old wizard.  Two bills are one that expires
and one issued after it.  With two jobs in `ejar_crash` a poll can replace the submission's
uuid and a second submission can follow the first; the one job of `ejar_live` is an
assumption, see below.  One death is enough for a step to be
repeated, one lapse for a key to be unknown and one outage for the circuit to open,
be tried by two threads at once and close.  Thresholds of 2 count something; the code's are 5 and 2.  Two drafts
are the one the contract has and one that should not be there.  Two events are an
approval and the rejection it follows, and of each of the two any number of
deliveries.  Two leads are one that is the agent's and one that is not.  Three jobs are the least with two parents
that may end at once, and the two parents also follow each other in the sequential
channel; the root lets two run, the channel inside it one, so both limits bite.
Three delayables in two chains or groups have a chain in a chain and in a group; two
`on_done` have been checked as well, without a difference.  Two databases are what
two runners need to hold one each and give way.  Three tenancies are one that two
renew; two clerks and three lines have the last two lines paid at once.  Two sites
are one a round has reached and one it has not.  Wherever a property is proved
(section 5) the bounds do not matter for it.

`queue_live` has one worker: with two and two late requests for one job, the
workers can refuse each other's writes for ever, because such conflicts are not
counted against `max_retries`; `ActiveSettles` says nothing about that.
`PendingIsServed` is about a place that is leaked at the root, not about long queues
before a throttled channel.  `queue` has one mishap of any kind and `queue_live`
two, so that a death can follow a restart.  Symmetry is used where rows, workers or
users are interchangeable and no liveness is checked.  `CHECK_DEADLOCK FALSE`:
records on which nobody acts stop.

*What `ejar_live` assumes.*  Its properties are not true of all that the code allows,
and each of its restrictions leaves out behaviours that break `SubmittingIsOwned`:

* *One job*: with two, a job can take the place of a live submission in
  `active_job_uuid`.  TLC's trace for a poll: the pipeline files the contract, the
  worker dies before it stores `done`, the cron enqueues a poll, whose uuid replaces
  the submission's (`ejar_contract_jobs.py:531`), and the contract is cancelled; the
  runner repeats the submission, which sets `submitting` again and fails for good;
  the clean-up looks at the poll's job and never finds it, although it is there to
  "Find contracts stuck in 'submitting' whose queue.job has failed"
  (`ejar_contract_jobs.py:549`).  Two users who have the wizard open do the same
  with two submissions, and a cancelled job that is sent all the same
  (`LateRunner`) with one, as its contract has forgotten its uuid.
* *No `SlowPipeline`*: a job taken for dead while it runs is `pending` for a second
  confirmation, which returns it by its identity, and is then stored as `done` by its
  first worker.
* *No request dies* between the commit of `submitting` and the enqueueing of the job
  (`ejar_contract_jobs.py:243-256`).
* *No status is asked for from an old form* (`OldForms`): the poll job's uuid would
  take the place of the submission's, as under the first point.

`SubmittingOwned` (section 5) proves that these are all: as long as no live submission
loses its uuid and none of the other three happens, the property holds for any
number of users, jobs and workers.

Six runs check what a document, a comment or a docstring says, and find it
violated; `PROJECT.json` quotes the lines.

| run | what happens |
|---|---|
| `ejar_shipped` | The wizard asks whether `queue_job` imports, the submission whether its `job` decorator does.  The vendored `queue_job` has none: every confirmation raises, and nothing is ever submitted. |
| `ejar_two_pipelines` | The pipeline's first commit releases the job's lock row; the runner takes the job for dead and a second worker runs the pipeline next to the first. |
| `ejar_filing_fix` | A rejected contract is put right and filed again.  The key of the financial terms does not depend on what they say, and a conflict counts as success: Ejar keeps the old terms. |
| `queue_orphan` | A worker dies after storing `done` and before releasing the jobs that wait for it: they wait for ever. |
| `queue_nested` | The head of a chain is the *tail* of its first part and its tail the head of its last: `chain(chain(a, b), c)` lets `c` run before `b`. |
| `reserved_twice` | An agent activates a reservation of a property that is reserved for a lead of somebody else: the search for a conflict runs under the record rule that shows agents their own leads' reservations only. |

### Fairness

*`EjarSubmission`* (`FairSpec`): a living process takes its next step, the runner
and the crons keep running (they are loops of the server), the two transactions of
a confirmation go through in the end when they are tried again and again, and a
poll is answered now and then without another write of the row in between (strong
fairness, as single polls may fail or be refused for ever otherwise; the cron
repeats them every half hour).  Users owe nothing.  `ejar_live` also assumes, by
`SlowPipeline = FALSE`, that a pipeline ends within the 10 seconds after which the
runner takes a job for dead: `ejar_two_pipelines` is what happens otherwise.
`ConfirmingSpec` adds a user who confirms again and again.

*`EjarGateway`*: a call goes on with its next step (threads are loops of the HTTP
client); Ejar, when it is up and the credentials are right, grants a request now
and then (strong fairness: it may refuse any single one); time passes, outages end,
and an administrator saves credentials that were rotated in the end.  For
`FilingEnds`, pipelines go on and are started again, and from some point on no
process dies and no request fails; before that point anything may.

*`QueueJob`* and *`RunnerElection`*: the runner's loop turns, notifications arrive,
throttles and `eta`s end, `requeue_dead_jobs` is called again and again, a request
still under way is taken up by some worker, and a living worker goes on; stopped
servers come back, and PostgreSQL notices in the end that a session has been cut.
Mishaps and troubles are never fair: only the requeueing of jobs that are really
dead, which uses none up (`RequeueDead(j) /\ UNCHANGED left`).

## 5. What is proved

Eight modules hold the proofs.  Each theorem is about the component's own
specification, for all values of its constants that its named assumption allows;
the theorems of a composition carry them over to the whole.

**`EjarSubmissionProofs`**, from `ProcessAssumption` and `DeploymentAssumption`:
`TypeCorrect` (`[]TypeOK`), `NeverAhead` (`NeverAheadOfEjar`), `CarriedTrue`
(`CarriedIsTrue`), `PromiseKept` (`KeepsItsPromise`, the implementation of
`EjarRegistration`), `SubmittingOwned` (`SubmittingIsOwned`) and `SinglePipeline`.
`NeverAheadOfEjar` is not inductive: a process at `finalize` writes `submitted`
without asking Ejar, and one that has polled writes what it was told some
transactions ago.  `CarriedIsTrue` is what they know.  It survives the
steps of all the others because Ejar's record only moves forward through the sets
`Filed` and `Registered`, which is what the argument comes down to.  `PromiseKept`
follows action by action: one that takes up a claim finds it backed, and none moves
Ejar's record but forward.

`SubmittingOwned` is about the behaviours in which the contract keeps the uuid of
the submission under way until it ends (`Alone`) and which meet the other conditions
of section 4 (`Unhurried`).  The property alone is not inductive: a job that ends as `done`
must not leave a submitting contract behind.  The invariant `OwnershipInv` adds what
excludes it: a worker's job is `started`, its own, and of the kind its stage is in,
and once the worker has filed the contract nobody starts over before it reports
(`WorkersHaveJobs`), for whoever would finds the job active (`RunnersAreActive`); and
what a submitting contract keeps, if it lives, is no poll, and no contract keeps a
job cancelled while it was pending (`ActiveSubmits`).  Under the same two conditions
`SinglePipeline` follows: whoever is in the pipeline is a worker with a started
submission job, there is one such job, and a job has one worker.  So `OnePipeline`,
which `ejar_two_pipelines` refutes, fails only where a live pipeline is taken for
dead, a request dies between its transactions, a submission is overtaken, or jobs
are not used.

**`EjarFilingProofs`**, from `FilingAssumption`:
`FilesComplete` (`FiledIsComplete`), `RemembersTruly` (`RememberedIsHeld`),
`OpensOnce` (`OneDraftEach`) and `NoFixIsFiled`.  A pipeline skips a step on the word of an
identifier that an earlier attempt stored, or of an answer Ejar repeats for a key it
knows, so completeness of what is filed is a matter of four memories: what the
process has in hand, what is committed, what Ejar has keyed and what the draft holds.
The invariant `FilingInv` says that each of the first three is covered by the fourth:
a step that is over is held (`Passed`), what is noted on a record is held (`Noted`),
a known key stands for something held (`KnownIsHeld`), and the draft is committed
before anything is asked of it (`DraftSaved`), so that no crash detaches the
identifiers from it.  What a draft holds only grows (`HeldGrows`), which carries all
four through the steps of the other contracts.

`NoFixIsFiled` makes a rule of what `ejar_filing_fix` shows once: no draft ever holds
financial information other than that of the first form, so `FixIsFiled` is true just
when no submitted contract has been put right.  What is put right has been rejected
and was filed before; since then its draft is committed and holds the financial
information (`Told`), so that no retry, crash or forgotten key leads to another
draft, and on the same draft the request is a repetition or a conflict
(`WrittenOnce`).

**`EjarGatewayProofs`**, from `ThresholdAssumption`: `BreakerSound`
(`BreakerAgrees`) and `ClosesSoundly` (`ClosesOnEvidence`).  Late answers
reach the circuit in states the requests were not sent in, so every answer is
considered in every state; the invariant adds that nothing is counted, and no
thread carries a failure to count, unless there has been an outage
(`OutagesCounted`), and that the successes of a trial are at most the streak
(`TrialCounts`), which is what makes closing sound.  From `WebhookAssumption`:
`EventsApplyOnce` (`AppliedOnce`), for events that carry a key and while the log
remembers them.  An event that has been applied is in the log, and whoever still works
on it has a snapshot whose write the database will refuse (`AppliedIsKnown`).
`WebhooksBacked` (`WebhookKeepsPromise`) is the refinement of `EjarRegistration`: a
handler writes what an event says, and an event says what Ejar has ruled.
`GatewayTyped` types the whole (`GatewayTypeOK`), and `GatewayKeeps` states
the safety and action properties of the run `ejar_gateway` of the composition.

**`QueueJobProofs`**, from `JobAssumption` and `ChannelAssumption`: `Typed`
(`[]TypeOK`), `PlacesHold` (the inductive invariant `IInv`) and `CapacityHolds`
(`CapacityKept`).  The channels count what they remember, and `CapacityKept` is
about the rows.  The invariant ties them: a job enqueued or started is marked
running in *every* channel on its path, whatever is still in `notes`; a queued job
is marked running in just the channels it has come through; a channel has no more
running than its capacity.  It is not obvious because the runner writes `enqueued`
without looking, buttons change a row behind its back, and a notification reads a
later row than the one it was sent for; each is harmless since a row becomes active
only through the runner or while it holds its place.  That a job which a channel
lets out was queued there or upstream and has been let out by every channel between
is an argument over the tree, by the well-founded order on its subtrees
(`Topmost`, `LetOutAlongTheWay`).  `SomebodyReleases` (`ReleaseOwed`) follows worker by
worker: the one that ends the last parent of a waiting job is the one that has still
to look (`EnqueueWaiting`), whichever of the parents that is.

`ExecutionKnown` (`ExecutionIsKnown`) and `SequenceIsKept` (`SequenceKept`) hold as
long as no manager has interfered and no request has come late, which is part of
both properties.  Neither is inductive.  The first needs what each worker knows of
the row and the lock of its job at each point of the request (`WorkersKnown`), that
a job gets ready only behind parents that are done (`ParentsDone`) and is pending
while it is queued (`QueuedIsPending`); these are `ExecutionInv`
(`ExecutionHolds`).  The second needs that a failed job is marked in its channel,
or still has its place there until the runner is told (`FailedIsMarked`), and then
has it alone (`FailedAlone`); these are `SequenceInv` (`SequenceHolds`).

**`JobGraphProofs`**, from `GraphBounds`: `GraphTyped` (`GraphTypeOK`), `OrderIsKept`
(`OrderKept`) and `DirectRunInOrder` (`DirectRunKeepsOrder`), for programs with any
number of jobs, chains and groups.  The model follows references with recursive
functions: what a chain or group is made of (`Met`), its first and last jobs
(`Ends`), and the closure of the dependencies.  The library's induction theorems
cannot be cited (they take an operator as a parameter), but that a set of numbers
has a least element can (`LeastNumber`), and from it follows induction over sets
(`Induction`), that a recursive function exists and has the value its equation says
(`ValuesExist`, `IterationExists`), and that an iteration that only grows within a
finite set has come to its end after as many rounds as the set has elements
(`Saturates`).  The closure is therefore one: it holds its edges, goes on by an
edge, is transitive and is the least such (`ClosureIterates`, `ClosureGoesOn`,
`ClosureTransitive`, `ClosureIsLeast`).  The invariant `GraphInv` says that a thing is
made of earlier things, that what `on_done` was told is among its links for all that
follows (`GraphShape`), that the stored jobs and edges are those of the thing that
was delayed (`DelayInv`), and that in a direct execution the ready ones are those
that wait for nothing and each of the others counts what it waits for (`DirectInv`).
From it `OrderIsKept` follows thing by thing: in a plain program the first and
the last part of a chain have no chain in them, so that every job of theirs is at
both of their ends (`PlainIsBlunt`), which is where the chain is linked; hence every
job of a chain lies between its two ends, and the links between neighbours lead from
every job of one to every job of the other (`PlainSpans`, `ChainOrders`).  That a direct run leaves none behind unless there is a circle
(`LeftInCircle`) is by the number of jobs again: of the jobs that are left, take one
that the most jobs follow; what it waits for is left too, and is followed by
more unless they follow each other.

**`QueueStackProofs`**.  From `ElectionAssumption`: `RunnerRemembers`
(`MemoryIsCurrent`) and `MasterAsks` (`AskedByMaster`).  Whose session is open
holds the lock (`OpenHolds`), so a runner that is asked to write needs no second
look; the memory is current not only in the loop but from the moment each database
is loaded (`LoadedIsCurrent`), while those before it have nothing
(`NothingBefore`), which needs that databases are connected in their order
(`ConnectedInOrder`).  From `TreeBounds`: `NamesLimited` (`LimitsOfItsName`) and
`NamesStay` (`ChannelStays`), by the invariant `TreeInv` (`TreeHolds`): the channels
there are form a tree, and what was found for a name when it was first met is what
would be found now (`FoundIsCurrent`), although the tree grows with every name.
`StackTyped` types the whole, with the variables of `QueueJob` (`StackTypeOK`), and `StackKeeps` states the safety
and action properties of the run `queue` of the composition.

**`RentPaymentsProofs`**, from `ScheduleAssumption`: `TypeCorrect`, `BalanceTold`
(`StateMatchesBalance`), `NeverInvoicedTwice` (`InvoicedOnce`), and the action
property `PaidIsPaid` (`PaidStaysPaid`).  The invariant adds that a row without a
posted invoice never had one (`Linked`): the methods look at the link, the property
counts.  Every action but the schedule and the flagging touches one row, so the
proof reduces them to `RowStep`; `PaidIsPaid` needs the balance: the wizard adds to
what a paid row holds, so it stays paid.

`BooksMatchIfSettled` is about `BooksMatch`, that the books hold no more than was paid.
No line of the repository says so and it is not so: the second of two instalments
posts what was paid with both.  It holds in the behaviours in which no row that has something in
the books is paid again, or marked as paid after more than its amount was paid
(`Settled`).  An account payment is for all that was paid so far and is posted only
when that has changed (`LedgerMoves`): right the first time, and only then.

**`BackOfficeProofs`** has the other parts of the back office and the whole.

* *Reservations*, from `ReservationsAssumption`: `PropertyReservedOnce`
  (`ReservedOnceByAgent`), which is what `reserved_twice` leaves of `ReservedOnce`:
  the leads of one agent never hold a property twice, and the property shows what
  they hold as long as nobody else's lead is in play.  What two overlapping
  activations rely on is that their search still holds when they commit
  (`SearchHolds`): another activation of the same property would have written the
  property's row and undone them.  (A lead that changes hands beside others puts the
  property into `moved`.)
* *Tenancies*, from `TenanciesAssumption`: `RenewedAtMostOnce` (`RenewedOnce`).  A
  renewal under way has read tenancies that have not been renewed since
  (`ReadingHolds`), because whoever renews one writes its row.
* *Commissions*, from `CommissionsAssumption`: `StateDerived` (`StateFollowsLines`).
  What a request has read of the lines of a contract that is not settled by
  confirmation is still so when it commits, or its own write does not change the
  state (`RequestsOK`, `UnsettledIsConfirmed`).  It is not obvious because two
  requests about different lines meet only if one changes the *stored* state of the
  contract.
* *Maintenance*, from `MaintenanceAssumption`: `VisitsKeepApart`
  (`VisitsAPeriodApart`).  The date on the contract is no earlier than any visit
  (`NotedVisits`), and the contracts of the round under way are still due
  (`RoundIsDue`), for the button in between would have undone the round.
* *The whole*: `BackOfficeTyped` (`BackOfficeTypeOK`), and `BackOfficeKeeps` for the
  safety and action properties of the run `back_office`.

A composition is its parts side by side: a step of it is a step or a stutter of each
part.  That is so by the way it is written, and the lemmas `GatewayComposes`,
`StackComposes` and `BackOfficeComposes` only carry the parts' theorems over.

Every invariant and action property of the runs that must pass is so stated by a
theorem.  Only model-checked are the liveness properties, which are out of the
prover's reach: `SubmittingSettles`, `DecisionLearnt`, `CircuitRecovers`,
`RotationTakesEffect`, `FilingEnds`, `ActiveSettles`, `PendingIsServed` and
`OneMasterEmerges`.

## 6. What is not modelled, and why

* *Two contracts of one company with the same dates and type* share the key under
  which their drafts are opened (`KeyCreate`).  What follows depends on Ejar's
  answer to a request whose key it has seen with another content, which nothing in
  the repository tells; the run has one contract.
* *Steps of the filing*: the signed document is uploaded again on every attempt and
  a conflict about it, about a representative's document or about the submission
  ends the pipeline, which the model has; the custom terms are read by no step.
* *Amounts*: deposits, commissions, penalties.  The end wizard looks neither at the
  tenancy's state nor at earlier refunds, so a second press refunds again; no
  document promises otherwise.  VAT is 0 in `RentPayments`, so that the ratio of
  `_create_account_payment_and_reconcile` is `amount_paid` itself.
* *Rotation of leads*: the advisory lock is taken after the transaction's snapshot,
  so that two creations may see the same loads; which agent gets a lead is no state
  another component depends on.
* *Call centre, inspections, notifications*: each event or button writes a state
  whatever it was, and nothing is promised about the order.
* *Visits after they are asked for*, work orders, showings, stages, matching: forms
  of single records.
* *Catching up*: a maintenance contract that has missed several periods gets one
  visit per run; the model has it, and no property asks for more.
* Payloads, PDF and spreadsheet output, QR codes and check digits (conversions no
  property here is about), views, access rights, record rules other than those of
  reservations, master data, the portal's and the dashboards' reading, and Odoo
  itself, which is taken to be what its documentation says.
* Times are points in an order, not durations: a throttle, an `eta`, a recovery
  timeout, a time to live ends when it ends.  Priorities of jobs are equal.
