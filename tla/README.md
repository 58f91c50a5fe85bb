# Supplier Quote Autopilot: formal models

TLA+ models of the backend that invites suppliers to quote for a request for
quotation (RFQ), collects and parses their answers through a secret link, chases
those who stay silent or leave fields blank, ranks the quotes and records the
buyer's decision. TLC checks the models on small instances; eight modules of proofs
establish every safety property the runs check, among them two refinements of an
abstract specification, with TLAPS for every value of the constants.

    tlc -workers 2 -config intake.cfg MCOutreach.tla     # any run of section 3
    tlapm Award_proofs.tla                               # any module of section 5

`PROJECT.json` maps every definition to the source lines it stands for, and
lists the runs, the mutants, the hazards and the theorems.

## 1. The system

One uvicorn process (`render.yaml`, `Dockerfile`) serves a FastAPI application
over PostgreSQL. What matters to a model of it:

- Synchronous handlers run in threads of a pool, each with its own SQLAlchemy
  session. `submit_quote`, the handler of the public form, is a coroutine: it
  shares the event loop with other submissions and yields only where it awaits.
- The scheduler's timer runs a sweep in a thread every
  `FOLLOWUP_CHECK_INTERVAL_MINUTES`. An external cron may start another through
  `POST /internal/scheduler/tick`, or the expiry alone through
  `POST /internal/expire`. Nothing keeps two of them apart.
- Sessions run at READ COMMITTED with `autoflush=False` and
  `expire_on_commit=True` (`backend/app/core/database.py`). No row locks, no
  version columns. A session keeps what it loaded until its own commit, and
  writes only columns whose value differs from the loaded one.
- The language model is called in the middle of a submission (to parse) and of a
  sweep (to draft), the email provider in the middle of a delivery. None of these
  calls holds a transaction that keeps others out. A submission calls the model on
  the server's event loop; a draft of a sweep and a narrative call it from their own
  thread, on an event loop made for that call (`_draft_sync`, `_narrate_sync`), and all
  of them go through one `asyncio.Lock` and one `asyncio.Semaphore`.

### Components

| Component | State it keeps | Operations | What makes it hard |
|---|---|---|---|
| Follow-up policy (`agents/followup/policy.py`) | none (pure) | `decide`, `next_reminder_due_at` | order of the rules; sequence arithmetic in two places; sweeps that come late |
| Follow-ups (`features/followup`) | rows of `follow_ups` with a status; `reminder_count` of the invitation | `create_draft`, `approve`, `reject`, `create_manual`, `_deliver` | the email leaves before anything of it is committed; retries and restarts; two requests on one row |
| Scheduler sweep (`run_scheduler`, `expire_overdue`) | nothing of its own; a long-lived session | expire, list, decide, draft, deliver | decides on rows listed long before; two drivers; dies on a deleted row |
| Invitations (`features/invitation`) | status, `expires_at`, `sent_at`, `last_sent_at` | create and reinstate, send, resend, cancel, delete | email between read and write; status written by four components |
| Public form (`features/public_form`) | nothing of its own | preview, submit, amend | an await of seconds between the check of the link and the upsert |
| Quotes (`features/quote`) | quote rows, completeness, missing fields | edit, delete, manual entry, import | the invitation's status does not follow |
| RFQs (`features/rfq`) | status, deadline, counters | create, update, close, delete | four writers of `status` |
| Comparison (`features/comparison`) | snapshots with `is_current`, scores | recompute, apply to quotes | recompute is triggered by several actors and writes back what it read |
| Award approvals (`features/comparison`) | approvals, RFQ and quote status | approve, reject | rejection reopens; award by plain update |
| Quote parser and completeness (`agents/quote_parser`) | none | parse, merge, evaluate | three layers, aliases of one field, and answers that mean "none" or "later" |
| Landed cost and ranking (`comparison/`) | none | normalise, score, rank, recommend | rounding, caps, scores measured on the batch's own span |
| Language-model client (`core/llm_client.py`) | a sliding minute, a lock, a semaphore | complete, retry | one lock and one semaphore of asyncio, several event loops in several threads |
| Rate limiter (`core/rate_limit.py`) | hits per bucket | check, prune | three windows counted one after another; threads share the table; clocks read before they are used |
| Attachments (`features/attachment`) | issued keys, per process; stored objects | store, resolve | registered after an await; eviction; lost at restart |
| Scheduler timer (`followup/scheduler.py`) | a task, a stop event | start, stop | a sweep in a thread may fail or hang, and outlives the loop |
| Supplier directory (`features/supplier`) | suppliers | create, update, delete, import | commits row by row while the buyer edits |
| Audit log (`features/audit`) | append-only rows | record | committed after the operation it records |
| Email transport, authentication, dashboard, assistants, demo workspace, frontend, migrations | | | I/O, read-only views or wiring |

How they interact: the public form, the invitations, the quotes and the sweep all
write `invitation.status`; the sweep and the buyer's requests share `follow_ups`
and `_deliver`; the sweep, the RFQ's update, its closing and the award share
`rfq.status`; submissions, edits and deletions of quotes trigger `recompute`.
Everything goes through the database: there are no queues and no callbacks.

### What correctness means, per component

- *Policy*: chasing stops; the last call before a deadline is always made; a late
  sweep loses nothing; the date on the dashboard is the date the policy acts on.
- *Follow-ups*: the log never claims an email that did not leave; with automatic
  sending off nothing leaves unasked; the reminder count never runs ahead of the
  reminders; one open copy of a message at most.
- *Sweep*: it ends if its drafts do; nobody is emailed twice with one message; the silent are
  reminded, the incomplete chased; fields are asked for only if some are missing.
- *Invitations and form*: one quote per invitation; an answered invitation has
  its answer; nobody is chased for a link that never reached them.
- *Comparison and award*: the newest run is the current one; no run recommends what
  is gone; a decision cites its run, is audited, costs what was offered, and nothing is
  awarded but by the buyer.
- *Cost and ranking*: one offer in other words costs the same; cheaper is never worse;
  what is at least as good in everything is ranked ahead; what the buyer reads fits
  what was computed.
- *Parser*: what was typed outranks what was guessed and is never lost; exactly the gaps
  are asked for; a question reaches the buyer.
- *Rate limiter, client*: the budget promised is the budget enforced as long as two threads do
  not meet; every call of the server ends unless a wake-up is lost.
- *Attachments*: a quote lists its own files; a running form's uploads resolve.
- *Directory*: no two suppliers of one email; the import's report tells the truth.
- *Timer*: failing sweeps do not end the sweeping; a stop does, even if a sweep hangs.

## 2. The modules

    FollowUpPolicy -- MCFollowUpPolicy (one conversation) --------------.
        |                     `-- Policy_proofs                          |
    OutreachState                                    LandedCost          |   SlidingWindow
     |     |     \                                        |             |     |        |
     |  Submission InvitationOps                         Ranking  Parsing  RateLimiter  |
     |  FollowUpOps                                          \      |     /            |
     |     |                                                  `- MCRules -'             |
     |  SchedulerSweep  ContactLedger                               `-- Rules_proofs    |
      \    |             /  (refinement) AwardLedger                                    |
     Outreach -- MCOutreach                |  (refinement)                              |
        |                                Award -- MCAward                               |
     Outreach_proofs                       `-- Award_proofs                             |
        |                                                              .----------------'
     Chasing_proofs        Attachments  SupplierDirectory  SchedulerTimer  LlmClient
        |                    |   `--------------- MCServices --------------'
     Counting_proofs       Attachments_proofs

`Services_proofs` is about three modules that share nothing but the deque of
`SlidingWindow`: `RateLimiter`, `LlmClient` and `SupplierDirectory`.

| Module | Code | Correspondence |
|---|---|---|
| `FollowUpPolicy` | `agents/followup/policy.py` | `Decide` = `decide`, `NextReminderDueAt` = `next_reminder_due_at`, a record per dataclass; wording dropped |
| `OutreachState` | the models, the session rules, shared reads | one variable per table (`invitation`, `quotes`, `followups`, `rfq`), one per kind of worker for what it holds between two database steps |
| `Submission` | `public_form/service.py` | `BeginSubmit` (checks, before the await), `FinishSubmit` (`upsert_quote`), `RefuseSubmit` |
| `InvitationOps` | `invitation/service.py`, its router, `quote/service.py`, `rfq/service.py` | `Invite`, `Resend`, `MailLink`/`RecordLink` (`send`), `BeginCancel`/`FinishCancel`, `DeleteInvitation`, `EditQuote`, `DeleteQuote`, `SetRfqStatus` |
| `FollowUpOps` | `followup/service.py` | `Approve`, `BeginReject`/`FinishReject`, `ManualCustom`, `BeginManual`/`DraftManual`/`QueueManual`, and `_deliver` as `DeliverMail`/`DeliverCount`/`DeliverCommit` |
| `SchedulerSweep` | `followup/service.py`, `followup/repository.py` | `SweepBegin`/`SweepExpire` (`expire_overdue`), `SweepScan` (`open_invitations`), `SweepConsider` (`build_snapshot`, `decide`, the duplicate check), `SweepDraft` (`create_draft`) |
| `Outreach` | the process | composition, clock, `Restart`, fairness, properties |
| `ContactLedger` | (abstract) | the emails, on whose word they leave, and what the log may say of them, without rows, sessions and sweeps |
| `Award` | `comparison/service.py`, its repository and router, `quote/service.py`, `rfq/service.py` | `Enter`, `Change` and `Derive` (the quotes and the completeness commit after them), `RunComparison` and `Recompute` (`recompute`: load, list the current rows, store), `Approve` (consider, commit, audit), `AskStatus`/`UpdateStatus`, `Restart` |
| `AwardLedger` | (abstract) | the decisions of the buyer and the status, without a database |
| `LandedCost` | `comparison/units.py`, `fx.py`, `incoterms.py`, `landed_cost.py` and their caller in `engine.py` | money in cents, rates in hundredths, every rounding of the code |
| `Ranking` | `comparison/score.py`, `recommend.py`, `engine.py` | the nine scores and their anchors, weights, caps and deductions, order, recommendation, warnings |
| `Parsing` | `agents/quote_parser/*` | the readers of `normalize.py`, the form's keys, the heuristic (`Candidates` is the table of labels, `LabelledFields` the walk over the lines), the merge, classification, completeness |
| `SlidingWindow` | `core/rate_limit.py`, `core/llm_client.py` | the deque both throttles prune: `PopOlder` |
| `RateLimiter` | `core/rate_limit.py`, its callers in `public_form/router.py` | `check` as `BeginCheck` (read the clock), `Look` (prune and count), `AddHit`; `prune_all` as `BeginPrune` (read the clock), `Test` (a bucket of the listing), `Drop` (a bucket of the second loop); `LookFails` and `PruneFails` are the errors of a deque or a table changed meanwhile |
| `Attachments` | `attachment/service.py`, the storage it uses | `BeginUpload`, `Save`, `Register` (`store`), `Claim` (`resolve` and the submission), restarts |
| `LlmClient` | `core/llm_client.py`, `ai/completer.py`, asyncio's lock and semaphore | the lock: `TestLock`, `JoinQueue`, `GetLock`, `TakeLock`, `Unlock`, `WakeFirst`; under it `Count`, `EndSleep`, `AddAttempt`; the semaphore: `TestPermit`, `TakePermit`, `Park`, `GetPermit`, `Share`, `GiveBack`, `Return`; answers, failures, retries |
| `SupplierDirectory` | `supplier/service.py` and repository | `AddSupplier`, `EditSupplier`, `RemoveSupplier`, and `import_many` as `FindRow` and what becomes of the row |
| `SchedulerTimer` | `followup/scheduler.py`, the lifespan | the loop, the sweep in its thread, its failure, stop, drain and cancellation |

`MCRules` puts four independent things into one run: a state is one conversation of the
policy, one batch of offers, one submission, or the rate limiter at work. `MCServices`
does the same with the four services. Neither composes them: they share no state in
the code.

An operation is split where another worker can get in between: at an await, at a
call to the provider or to the model, and between a read and the commit that
relies on it. Where threads share memory without a lock (`RateLimiter`, `LlmClient`) it is split at every
read and write of what they share; calls on one event loop change over only where they wait
(`Runs`, `Busy`). The two-step forms keep in `seen` what the session had loaded, and
`Written` says that a commit leaves a column alone when the new value equals the
loaded one. The actions named `Lose...` and `SweepDies` are the errors of a worker
whose row was deleted under it.

In `Outreach`, `mailed` and `consent` are history: how often the provider accepted a row's
message, and which rows the buyer asked to have sent. `basis` in a follow-up row
is history too: what the sweep had read of the quote. No guard reads them, except
for the bound `MaxMail`. In the same way `offered` and `cut` of `Award`, `owner` and
`registered` of `Attachments`, `granted`, `met` and `lost` of `LlmClient`, `admitted`, `raced` and `refusal`
of `RateLimiter` and `effects` of `SupplierDirectory` only record what happened: `met` that calls of two loops
had the lock at once, `lost` that a wake-up came before the call it was due to had queued, `raced` which
buckets two workers have used at once.

Operators named `<definition>_<bug>` are mutations: the definition with a
plausible bug, kept next to it. `PROJECT.json` says which property each one
breaks. They take no part in `Next`.

### Abstractions

- Time is a counter. Only the order of instants and the length of intervals
  matter; `RFQ.deadline` is a constant of an instance, or `None`.
- One RFQ. The sweep visits all RFQs of the database; an RFQ closed because an
  invitation of *another* RFQ expired in the same pass is therefore not seen here.
  `OverdueRfqCloses` speaks of an installation with this RFQ alone.
- What a submission parses to is any member of `Answers`: its completeness and
  whether it asks the buyer something (`blocked`). Refusals are `RefuseSubmit`.
- `SweepConsider` takes the reads of one invitation, the policy and the duplicate
  check as one step. The window that matters, from the check to the insert (a
  language-model call), is open.
- `EditQuote` and `DeleteQuote` are one step. The recomputation of the comparison
  that follows them touches nothing the follow-ups read.
- The unique `reference_number` of quotes (`SQ-<rfq>-<invitation>`) is not modelled:
  a second quote of one invitation would be refused by the database, and the
  answer lost. `OneQuotePerInvitation` shows that the code does not get there.
- The status `declined` is in the policy's list; no code sets it.
- `bulk_create` is a loop of `create`. Explicit `expires_at`, view counters and
  the edit of a draft's text are left out: no control flow modelled here reads
  them, apart from an `expires_at` that the buyer chooses.
- The audit entry is a commit of its own after the operation's, and is read by
  no control flow. `Award` models the one of a decision; in `Outreach` it is left out.
- `Award`: a quote is its price and whether it is full; the engine ranks by price among
  the complete first, which is one instance of `Ranking`. The narrative is a pause of
  unknown length between the reading and the writing of a run. Statuses `draft` and
  `cancelled` act like `closed`. The status is followed apart from `Outreach`, whose
  sweep also closes an RFQ: there the answer of the award component is a `SetRfqStatus`.
- `Thresholds` sorts by counting (`SortedPlace`); `IntervalsAreSorted` proves that it sorts.
- `LandedCost` and `Ranking` compute with integers: cents, hundredths of a rate,
  hundredths of a point, with a rounding wherever the code rounds to them. Imperial units, the
  markup on materials and the wording are left out.
- `Parsing`: a text is what the patterns tell apart in it (a gap phrase, a "none", a
  number or a range, a unit word, list items, a date's form). The regular expressions are
  not modelled, only what they find. Confidence and evidence are left out.
- `Parsing`: `Candidates` lists the fields a label matches in the order of the code's table, for
  a few labels of each sort: with one candidate, with two ("gst rate" may be the price or the tax), with none.
  `duties`, `discount` and the contact's email are no fields of the model.
- `RateLimiter` keeps ages of hits and `LlmClient` ages of attempts, cut off beyond their
  window, so that time itself needs no bound. The instant a worker has read is an age as well; `Pause` bounds
  how long it may be interrupted after reading it.
- `RateLimiter`: `weight` is 1, as every caller has it. The walk of `prune_all` meets the buckets in any order.
- `LlmClient`: a read or a write of one attribute is atomic, and so are the semaphore's `_value -= 1` and
  `+= 1`. Left out is that walking over asyncio's own queue of waiters while another thread changes it raises an error.
- A language-model call, a storage or an email provider may answer, fail or take any time; a
  *draft* of a sweep may in addition take for ever.

## 3. The runs

| Run | Instance | Distinct states | What it shows |
|---|---|---|---|
| `intake` | 1 invitation not issued yet, 2 submissions, 1 buyer request (which may also approve), 1 cron (full or expiry only) | 1,056,715 | `TypeOK`, `OneQuotePerInvitation`, `AnsweredMeansQuoted`, `ChasedMeansInvited`, and the refinement `ContactsOnRecord` |
| `approvals` | 1 invitation, 2 buyer requests, 1 sweep, refusals, restarts, deletion | 2,006,946 | `NothingMailedUnasked`, `RemindersNeverOvercounted`, `NoDuplicateDrafts` |
| `sweeps` | 2 invitations (one of high risk), 1 submission, automatic sending, refusals, restarts, deletion of an invitation or of its quote, any status of the RFQ | 4,815,234 | `NeverMailedTwice`, `AskedOnlyWhatIsMissing` |
| `chasing` | 1 invitation, 1 submission that leaves fields blank, the timer, one refusal, a link that expires; the buyer edits the quote, withdraws the invitation and invites again | 247,468 | liveness, unless a draft hangs: `SweepsEnd`, `SilentSupplierReminded`, `IncompleteQuoteChased` |
| `award` | 2 quotes of several texts, 2 requests (all operations), 3 runs, 1 decision, 2 edits, restarts, history limit 1 | 702,776 | `TypeOK`, `LatestIsCurrent`, `RecommendsWhatExists`, `DecisionsCiteTheirRun`, `DecisionsAudited`, `CostWasOffered`, and the refinement `NothingAutoAwarded` |
| `rules` | conversations with a clock 1..7 and intervals out of order; batches of up to 3 of 15 offers under 4 RFQs; submissions of one or two keys of the form, with and without notes and model; the limiter with 2 workers, two windows of an hour and no limit by the minute | 1,205,317 | policy: `ChaseBounded`, `DashboardAgrees`, `LastCall`, `DueStaysDue`; cost and ranking: `CheaperNeverWorse`, `DominatedNeverAhead`, `RestatedOfferCostsTheSame`, `RecommendationExplained`; parser: `FormOutranksGuess`, `NothingTypedIsLost`, `AskedExactlyForGaps`, `QuestionsEscalated`; limiter: `WindowsHold`, `RetryAfterHonest` |
| `services` | files: 2 invitations, 2 uploads, 3 keys; client: 3 calls, one of them in a thread on a loop of its own, 1 slot, 1 permit, 1 retry; directory: sheets with duplicate, malformed and blank rows; the timer | 358,047 | `FilesAreTheirOwn`, `LatestUploadsClaimable`, `SlotsWithinLimit`, `ReportIsTrue`; liveness: `CallsEnd`, `SweepsGoOn` |
| `overlap` | timer and cron at once | violated | `NeverMailedTwice`: two sweeps send one message twice |
| `intervals` | a supplier silent for ever | violated | `SecondReminder`: the first reminder suppresses the second |
| `complete` | a submission under a running sweep | violated | `NoReminderForCompleteQuote`: a supplier who has just answered is reminded |
| `closing` | a supplier who answers before the deadline | violated | `OverdueRfqCloses`: the RFQ stays open |
| `cost` | a decision while a quote is edited or a run is under way | violated | `AwardedAtItsPrice`: the award records a cost that is no longer the quote's |

### Bounds, and why they are enough

- `MaxRows` 2 or 3: with `approvals`' two rows, two requests and a sweep there are
  two deliveries that read one reminder count, an approval against a rejection of
  one row, and a failed row with its replacement. Three rows in `sweeps` are one
  for each of two kinds and one for the other supplier. When the table is full,
  inserting is disabled; the safety properties are about rows that exist. In `chasing` three rows are the
  message that is refused, its replacement and the email of a new invitation; a draft that finds the
  table full counts as one that hangs.
- `MaxMail` 2: a second email is the violation, there is nothing to see after it. In `chasing` it is 1:
  what matters there is that the message gets through.
- `MaxRefusals` 1: after a failed row the provider recovers; a second failed row of
  one invitation repeats the first.
- `MaxTime`: 1 in `approvals`, where only the deadline-free first reminder matters
  and everything else is order of steps; 2 in `intake`, so that a link and a
  deadline can pass during a submission; up to 5 where a second interval has to elapse.
- `MCIntervals`, `BeforeDeadline`, `MaxFollowups`, `MaxIncomplete` keep the order of
  the defaults (72 and 168 hours, 48 hours, 3, 2): the first interval shorter than the
  second, the last call inside the longest, an allowance that can be used up.
- `SweepLimit` 5 is above the number of invitations: the limit of 500 is in the
  model, an instance with more open invitations is not run.
- `award`: two quotes are a winner and a backup, and one to delete under a run; two
  requests are a run overtaken by an edit, by a deletion, by another run or by a
  decision; three runs make a chain in which the middle one clears what it listed;
  `HistoryLimit` 1 makes older current rows possible (the code's 50 does the same later).
- `rules`: three offers show what a third one does to the order of two. Two keys of a form
  are what the merge can confuse; the 15 offers and 16 texts hold every class that a
  branch of the code tells apart. Two workers are one race.
- The limiter of `rules`: `PerMinute` 0 passes the first bucket as unlimited, so the two buckets of
  the hour are met one after the other; `Pause` 1 with `Hour` 2 lets a hit be older than another that is added
  before it, a bucket be used between its listing and its dropping, and a listing be older than the hit it
  looks at. The theorem is for all limits, windows and pauses.
- `services`: a `Period` of one tick makes the throttled sleep two ticks long; `FewRefused` lets the provider refuse the attempts of one
  call only, on the server's loop, and its retry then meets the two others in both queues.
  Two threads in the lock (`met`), a lost wake-up (`lost`), a semaphore with fewer than no permits, and more
  attempts in the minute than the limit all occur in this run; without the exception of `lost`, TLC finds a
  call that never ends.
- `services`: `MaxTracked` 2 of 3 keys is one eviction; three calls are one that holds, one that
  waits and one that finds a queue; `MCSheets` has an email twice in one sheet and across sheets.
- `Alike` (symmetry of requests) in `award` and `cost` is sound: no property singles a request out.
- `MCAlike` (symmetry of submissions and of requests) is used in the two safety
  runs with several of a kind, never with liveness. `ContactsOnRecord` speaks of steps only, and
  of all requests alike. Automatic sending is off in `intake`: that a sweep's own attempts
  are steps of the ledger too is the theorem's part.
- `CHECK_DEADLOCK FALSE` is set because these systems may stop: a bounded clock at
  its end and nobody with anything to do is a legal end. `SweepsEnd` says that a
  sweep does not get stuck anywhere but in a draft.

### Fairness

`Fairness` in `Outreach` assumes that time passes, that the timer starts its next
sweep when the last one is over (`followup/scheduler.py` loops for the process's
lifetime), and that a sweep which has begun takes its next step *unless it is
drafting*. Its thread waits for nothing but its own calls: those to the email provider have a
timeout (`DEFAULT_TIMEOUT`), and the database answers. The draft is excepted (`SweepProceeds`) because
`_draft_sync` runs it on a private event loop (`followup/service.py:703-717`), where the wait for the
client's lock or semaphore (`llm_client.py:124`, `:217`) has no timeout and may last for ever. So the liveness
properties of the sweep say what they depend on: `SweepsEnd` that a sweep ends if its drafts do, the others that
they hold if all drafts end (`AllDraftsEnd`). Whether a draft ends is the subject of `LlmClient`.
Nothing is assumed of suppliers, buyer, or cron: they may never
act. `Restart` is off in the liveness runs: a process that restarts for ever makes
no promise.

`LlmFairness` assumes that time passes, that a call which can take its next step
does (a request ends because the HTTP client has a timeout, a sleep because it is
bounded), and that the server's loop runs a call that was woken. A waiter on a private loop is
*not* among them: it is woken from another thread and its loop, which has nothing else to do, may not
notice; `CallsEnd` excepts it. It excepts too whoever waits once a wake-up was lost.

`TimerFairness` assumes that the lifespan starts the loop, that the interval ends, and that a loop told to
stop takes its next turn. Nothing is assumed of the sweep: `scheduler.py:44` awaits its thread without a
timeout. `SweepsGoOn` therefore promises the next sweep if every sweep ends one way or the other
(`SweepsReturn`), and the end of a loop told to stop whatever its sweep does. Nobody is obliged to
stop the application.

## 4. What the counterexamples show

Five statements of the repository's comments and documentation do not hold. Each is
a run of its own, with the property it violates.

1. **Overlapping sweeps double-send** (`overlap`). `followup/service.py:9` and
   `backend/README.md:302` call overlapping runs safe. The duplicate check and the
   insert are separated by the drafting of the message, and no constraint makes the
   second insert fail. With a *single* driver the promise holds (`sweeps`).
2. **The second interval is never used** (`intervals`). `.env.example:217` promises
   one reminder per entry. `find_recent_duplicate` counts a sent row of the same
   kind for ever, so after one `no_response` reminder there is no other.
   `SilentSupplierReminded`, which asks for the first only, holds.
3. **A complete quote can be followed by a reminder** (`complete`).
   `followup/repository.py:167` relies on the policy to skip a row wrongly listed;
   the policy does so for incomplete quotes but not for complete ones whose
   invitation was loaded as pending.
4. **An answered RFQ is not closed at its deadline** (`closing`). The closing sits
   inside `if expired:` in `expire_overdue`.
5. **An award can record a stale cost** (`cost`). `comparison/model.py:231` calls it the
   landed cost "at decision time". `approve` copies the figure the last run wrote
   back; an edit is committed before the run that follows it, and a run that loaded the
   old price may store its figures after the edit. What does hold, and is proved, is
   `CostWasOffered`: the supplier did offer that price at some time.

The liveness ones (`intervals`, `closing`) speak of systems whose drafts all end, so that it is not a hanging
draft that refutes them.

Further disagreements were met while modelling, which no run states as a property of its own:

- **An award without a decision.** `comparison/service.py:444`, `comparison/router.py:186` and `main.py:133`
  call the decision the only path to an award, "enforced by the call graph". The buyer's plain update
  of an RFQ takes any status, `awarded` among them (`rfq/schema.py:206` with the pattern of `:53`,
  written by `rfq/service.py:175`), without a reason, an approval or its audit entry. `NothingAutoAwarded` holds
  because it says something weaker: that no award happens unasked. In `AwardLedger` the plain update is
  `SetStatus`.
- **A question beside an offer.** `classify.py:17-18` and `:122-124` promise that a message with data and a
  question, classified as data, still carries its `blocking_question`. `parser.py:388` looks
  for the question only when the class is `question`, so it is recorded only if the language model reports it.
  `QuestionsEscalated` therefore speaks of messages classified as questions.
- **A draft that waits hangs its sweep, and the timer.** `ai/completer.py:35-37` says that a call degrades to the
  deterministic path and never raises. A call on a private loop that has to wait for the lock or the semaphore may be
  the first to wait, which binds the primitive to its loop; it is then woken by a thread its loop does not hear.
  Its sweep never returns, `scheduler.py:44` awaits it for ever, and no other sweep begins until the process
  is restarted.
- **The lock of one loop does not protect from the thread of another.** `asyncio.Lock` and `asyncio.Semaphore` are
  not safe across threads. Two threads may both find the lock free: then both count, both are let through, and
  the minute holds more than `LLM_REQUESTS_PER_MINUTE`; the second release fails the call. A release between another call's test of the lock and its
  joining the queue wakes nobody, and that call waits until somebody else releases the lock, if anybody does: a
  call of the server may hang as well.
- `FX_RATES_JSON` is documented (`README.md:740`, `config.py:333`) and never applied:
  `engine.py:172` builds the rates without the overrides.
- `score.py:454` caps an offer without a required accreditation at 25 points, "guaranteeing
  it cannot win on price"; it is still first when every rival scores less, or lacks it too.
- `normalize.py:633`: when the first number of a date exceeds 12 it is taken for the month,
  so 31/12/2026 is not read, although only a day can exceed 12.
- `_ISSUED` is lost at a restart, and files nobody claims stay: a comment promises a
  `prune` that does not exist, and `delete` is called by nothing.
- An import that meets a row deleted or taken in between stops without report or audit entry, the
  rows before it already committed; an update overwrites every field, also with nothing.
- Slots are counted before the semaphore, so requests
  may leave the process later than, and more densely than, their slots.
- Threads that race on a bucket of the rate limiter may let one request too many through, fail with an error, or lose
  a hit: `prune_all` drops what it listed, together with a hit added since; a hit is dated before
  its check, so the last one added need not be the newest. The hits taken from earlier
  buckets stay when a later one refuses.
- `quote/schema.py:36` and `:75` refuse a negative lead time or response time from the buyer;
  the public form stores one: `parse_int` reads a bare "-5" as it stands (`normalize.py:219`),
  and `score.py:100` then gives it no points. `DominatedNeverAhead` counts it as the worst
  there is.
- Rejecting a quote after an award reopens the RFQ. Runs list the newest 50
  snapshots, so an older row may stay current; the newest one is shown all the same.

## 5. What is proved

Every theorem holds for all values of the constants that satisfy the modules'
assumptions (finite sets of ids, numbers where numbers are meant, requests and
sweeps distinct, `None` different from every value). Extra hypotheses are named.

| Module | Theorem | States |
|---|---|---|
| `Outreach_proofs` | `TypeCorrect` | `Spec => []TypeOK` |
| | `SentRowsWereMailed` | `Spec => []SentMeansMailed`, which no run checks by itself: the ledger implies it |
| | `NothingLeavesUnasked` | `Spec => []NothingMailedUnasked` |
| | `OneQuote` | `Spec => []OneQuotePerInvitation` |
| | `AnsweredIsQuoted` | `Spec => []AnsweredMeansQuoted`, if invitations do not begin answered |
| `Chasing_proofs` | `AsksWhatIsMissing` | `Spec => []AskedOnlyWhatIsMissing` |
| | `NoCopies` | `Spec => []NoDuplicateDrafts`, for one driver of the sweep |
| | `OnlyInvitedChased` | `Spec => []ChasedMeansInvited` |
| `Counting_proofs` | `NeverOvercounted` | `Spec => []RemindersNeverOvercounted`, if invitations begin with no reminder |
| | `MailedAtMostOnce` | `Spec => []NeverMailedTwice`, for one driver of the sweep and a buyer who leaves its rows alone |
| | `ImplementsContacts` | `Spec => ContactsOnRecord`: `Outreach` implements `ContactLedger`, if invitations begin with no reminder |
| `Award_proofs` | `TypeCorrect` | `Spec => []TypeOK` |
| | `NewestRunIsShown` | `Spec => []LatestIsCurrent` |
| | `RecommendedQuotesExist` | `Spec => []RecommendsWhatExists` |
| | `DecisionsCite` | `Spec => []DecisionsCiteTheirRun` |
| | `EveryDecisionAudited` | `Spec => []DecisionsAudited` |
| | `AwardsCostOffered` | `Spec => []CostWasOffered` |
| | `ImplementsLedger` | `Spec => NothingAutoAwarded`: `Award` implements `AwardLedger` |
| `Attachments_proofs` | `NoForeignFiles` | `FilesSpec => []FilesAreTheirOwn` |
| | `LatestFilesClaimable` | `FilesSpec => []LatestUploadsClaimable` |
| `Services_proofs` | `SlotsNeverExceeded` | `LlmSpec => []SlotsWithinLimit` |
| | `OneLoopWithinLimit` | `LlmSpec => [](Private = {} /\ RPM > 0 => Len(granted) <= RPM)`: with one loop there is no exception |
| | `WindowsNeverOverfull` | `LimiterSpec => []WindowsHold` |
| | `RetryAfterKept` | `LimiterSpec => []RetryAfterHonest` |
| | `ReportsAreTrue` | `DirectorySpec => []ReportIsTrue` |
| `Policy_proofs` | `ChasingStops` | `Spec => []ChaseBounded`, if an allowance of at least one is set |
| | `LastCallMade` | `Spec => []LastCall` |
| | `DashboardTellsTheTruth` | `Spec => []DashboardAgrees` |
| | `LateSweepsLoseNothing` | `Spec => DueStaysDue` |
| | `IntervalsAreSorted` | `Thresholds` is `Intervals` in ascending order, and never empty |
| `Rules_proofs` | `FormCountsFirst` | `[]FormOutranksGuess` |
| | `TypedTextIsKept` | `[]NothingTypedIsLost` |
| | `AskedForGapsOnly` | `[](NotesHaveLines => AskedExactlyForGaps)`: the lines of the notes are a sequence |
| | `QuestionsWait` | `[]QuestionsEscalated` |
| | `BatchesHold` | `RulesSpec => []BatchHolds` |
| | `DominatedNeverWins` | `[](BatchHolds => DominatedNeverAhead)` |
| | `CheaperIsNeverWorse` | `[](BatchHolds => CheaperNeverWorse)` |
| | `RecommendationIsExplained` | `[](BatchHolds => RecommendationExplained)` |
| | `RestatedIsTheSame` | `[](BatchHolds => RestatedOfferCostsTheSame)` |

**Outreach.** `TypeOK` alone is not inductive: a step that indexes `invitation` or
`followups` by what a worker holds must know that it holds an issued row. That is
`HeldRowsIssued`, and `Inv == TypeOK /\ HeldRowsIssued` is inductive: a lemma for
each action, one step for each part the action can disturb. Rows are never
un-issued, even by a deletion, which is why what a worker holds stays good while
others act. `SentMeansMailed` and `NothingMailedUnasked` need what a
delivery in progress knows (`DeliveriesTrue`: an outcome recorded as accepted was
accepted, a delivery with automatic sending off was asked for); `MailInv` is their
conjunction. The steps that matter are `DeliverCommit`, where
the outcome read earlier becomes the row's status, and `DeliverMail`, where the
count of another delivery of the same row may grow. `OneQuote` rests on
`FinishSubmit` looking for the quote in the step that stores it.
`AnsweredIsQuoted` comes down to this: besides `FinishSubmit`, which stores the quote in the same
step, no step turns a status into an answered one, whatever was loaded before.

**Chasing.** Two lemmas say once and for all what a step of `Next` may do to
one row (`NextRows`) and to one sweep (`NextSweeps`); the three invariants use them
instead of the actions. `AskInv` adds to `AskedOnlyWhatIsMissing` that a sweep about to draft
a request for fields holds an incomplete quote as its basis. `CopyInv` adds that
what a sweep is about to insert has no open copy yet: this is where
one driver is needed, since a second one could insert it meanwhile, as in `overlap`.
`InvitedInv` follows the
link from the provider's acceptance to `last_sent_at`, to the copy of the row a
sweep has listed, and to the reminder it is drafting.

**Counting.** `reminder_count` is read after the email and written back as that value plus
one, so a count can be *lost*; it is never ahead. `Uncharged(i)` is the set of deliveries
whose accepted reminder for `i` is not yet counted. `ChargeInv`: the stored count, and any
value a delivery has read, plus the number of the uncharged, is at most the number the
provider accepted. The email raises both sides by one, the commit moves one from the set to
the count, and a commit that overwrites a newer count only lowers it. A restart empties
the set. `OnceInv` says that an automatic row *claims* its kind for its
invitation while it is open or sent, while it is on its way, and for ever once the provider accepted
it; that no two rows claim the same (`OneClaim`); that a sweep about to draft has left no open or
sent row of that kind behind (`DraftIsNew`); and that automatic rows are delivered by the sweep
alone, once (`BuyerKeepsOut`, `SweepDelivers`, `MailedOnce`). A row that was mailed and is not
marked sent is queued, or deleted with its invitation, so it goes on blocking. The two
hypotheses are those of the run `sweeps`: a second driver breaks the property (`overlap`), and a buyer
who approves a row left queued by a crash has it emailed again, by intent.

**The ledger of contacts.** `ContactLedger` knows entries (addressee, kind, author), attempts to send
one, how often each was accepted, what the log claims and what a supplier is credited with. Its
promise is in what it has no action for: no entry changes hands, nothing is sent outside an attempt or twice
in one, no attempt is begun by anybody but the buyer, or by a sweep for the entry it writes in
the same step, and none is taken up again after a restart. The mapping forgets the clock, the link, the quotes and
the RFQ, and reads an attempt off the row and the outcome a delivery holds, so the `DeliverCount` between the
email and the commit is a stutter. Its step needs three invariants. `Inv` keeps a worker's row issued.
`ChargeInv` gives the end of an attempt its bound: the value written is at most
the number of reminders accepted. `AttemptInv` is new: a worker who is about to draft or to queue holds
no delivery, since one worker does one thing at a time (`OneTask`); a row about to be drafted is of a kind
that may be drafted (`Draftable`); a delivery has no outcome before the
answer and never began from a row read as sent (`InOrder`); and a row never issued has no addressee (`UnissuedEmpty`). Then
each action is a step of the ledger or leaves it alone, one lemma each; the commit of a
refused retry withdraws what another attempt claimed meanwhile, unless the session had loaded `failed`
(`Written` leaves such a column alone). Number of drivers, buyer's
operations, refusals, restarts and the switch for automatic sending are arbitrary: what
`overlap` shows is allowed by this ledger, as two entries written by two sweeps.

**Award.** `Inv` adds to the types that a request between two database steps holds ids that
exist. `NewestRunIsShown` rests on it: a run clears only rows it listed, all of them
older than the one it then appends. `RecommendedQuotesExist` needs that the commit of a run
fails when its winner has gone, and that a deletion clears the references to its
quote. `CiteInv` and `OfferInv` carry their property through the request that has considered
a decision and not yet committed it; `OfferInv` says in addition that every price a run
has loaded, and every figure written back from one, was offered at some time.
For `ImplementsLedger` each
action is shown to be a step of the ledger or to leave it alone: a request on its way to
commit is the ledger's intention, its commit carries the intention out, and a
restart abandons all of them at once.

**Attachments.** `OwnInv`: keys in flight, registered or listed belong to the invitation
they are filed under and, once saved, are in storage. `EndInv`: the registry is always
the end of the sequence of what was registered, all of it or the last `MaxTracked` keys.

**Services.** Both throttles keep a deque of ages and cut it from the front; where it is ordered, oldest first,
the lemmas about `PopOlder` say that what is left is exactly what is young enough, in the
same order.

`LlmInv` never speaks of the lock alone, since threads may pass its test together: all that depends on it
(`OrderlyLock`) is claimed for behaviours in which no two loops have had it at once (`~met`). There one call
at a time has the lock (`Alone`); whoever is inside holds it (`HolderHolds`); between a wake-up and the taking nobody
can pass the test (`WokenWhenFree`: the one woken is still in the queue); who sleeps for a slot sleeps until the oldest attempt
has left the minute (`SleepsLongEnough`), so that who is about to append has room (`RoomToAppend`).
`DequeIsTrue` (the deque is what was let through in the last minute) holds with or without a race. `OneLoopIsSafe`
shows that `met` needs two loops, hence `OneLoopWithinLimit`.

`LimiterInv` speaks of the buckets that are `Calm`: never used by two workers at once. Such a bucket is `Sound`: its hits are
in order, it keeps its limit, what it let pass is spread out, and within its window it holds exactly what it let
pass (`BucketsAreTrue`). The clock is read before it is used, so each visit has to know something as long as it
lasts (`Knows`): by the clock it read the bucket is still true and nothing came since, and a bucket it has listed
holds nothing of the last hour, which is why dropping it loses nothing. That nobody else disturbs this
is `UsersAlone`; that a check whose bucket was dropped under it concerns a raced bucket is `OrphansRaced`.
The bucket that refused has room again, or its oldest hit leaves the window before the announced wait is over
(`RefusalHolds`; the rounding up of `Retry-After` is used here).

`DirectoryInv`:
one supplier per address, every row the import is done with counted once (`RowsCounted`), and each count the
number of the effects it stands for (`EffectsCounted`). Nothing is assumed of the buyer between the
lookup of a row and its write; an address taken
meanwhile fails the row or ends the import, and a broken import makes no report.

**Policy.** `Shape` types a conversation; `ChaseCounts` says that whatever is acted on was below
its allowance. The other three compare instants: the deadline that is soon stays soon,
an interval that has elapsed stays elapsed, and the two ways of counting sequences
index the same interval. `IntervalsAreSorted` is a counting argument: the places of the
intervals form an injection of a finite set into itself, hence every place is taken.

**Rules: parser.** The four properties are about one submission whatever its content, so they are
proved as facts of any state. The form is the first layer of the merge, and the last of its
readable spellings of a field is the one that counts (`LastSpelling`); what is no leftover is readable, so with
no other spelling its field has its value. For the gaps each reader is shown to return nothing
for a text that is no answer. The walk over the labelled lines is a recursive function: that it exists
is shown by a least line at which it would not (`FoundExists`), and in the same way that a field no
line can mean stays open (`UnnamedStaysOpen`) and that one which a line means, and only it, is found
(`NamedIsFound`).

**Rules: ranking.** `BatchHolds` says what a comparison is given: quotes whose amounts and times are
integers or `None`, of either sign, whose tax rate and pack size are not negative (`parse_percent` and
`units.py` see to that), a request whose quantity is not (`rfq/schema.py`), and weights that are any integers. Nothing is
assumed of the number of offers. `BatchesHold` shows that what TLC checks is of this kind.

- *Dominated.* Each score is monotone in its answer: the polylines fall or rise from anchor to anchor,
  and rounding half up preserves order. So do a weighted mean with weights that are not all
  negative, the cap and the deduction, and the order breaks ties by cost.
- *Cheaper.* Lowering one total moves the span on which all prices are scored: neither end rises
  (`CutSpan`). The supplier's own score for price does not fall, because either he becomes the
  cheapest or the lower end stays, and either he was the dearest or the upper end stays (`OwnScoreRises`), and nobody else's rises (`SpanFalls`). So
  whoever is ahead of him afterwards was ahead before, and the place is one more than their number.
- *Explained.* `Ahead` is a strict total order, so a finite nonempty batch has exactly one first;
  it is complete if any offer is, and the cheapest is looked up in the same card.
- *Restated.* Each rewording is followed through the conversions: the division by the pack
  or by a thousand is exact, the currency is exact if every amount is a whole number of cents
  in both, a tax taken as an amount is the tax that was derived.

An induction over numbers is replaced throughout by a least element of a set of numbers
(`WellFoundedInduction` about `<`), and a recursion over sets by finite sums that are written out
(`SumOf`, nine criteria).

Only model-checked: liveness (`SweepsEnd`, `SilentSupplierReminded`, `IncompleteQuoteChased`, `CallsEnd`,
`SweepsGoOn`), because the prover handles neither fairness nor `ENABLED`; and, in the five runs
of section 4, the counterexamples.

## 6. Not modelled, and what is left

- Wording: the drafter, email copy, narratives, prompts and the assistants. In the models they
  take a step of unknown length, and their failure is a fallback.
- Formats: cells of CSV and PDF imports, exporters, JSON extraction, confidence and evidence.
- Views: dashboard, audit queries, supplier statistics. They read only; the one date
  the dashboard computes is in `FollowUpPolicy`.
- Authentication, CAPTCHA and honeypot: stateless checks before the operations modelled here,
  or one row per user.
- Wiring, configuration, demo workspace, frontend, migrations and scripts.

Six hazards of `PROJECT.json` have no property, each with the reason: mostly the model shows what
happens and no document says what should (a double click that sends twice, the status
of an answered invitation that expires meanwhile, a deleted quote whose invitation stays
submitted).

What would come next: an instance with more
open invitations than `SweepLimit`; `Award` and `Outreach` in one composition, with the
RFQ's status written by both; the import of several rows in one commit.
