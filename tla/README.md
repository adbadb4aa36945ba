# Life Events: a verification development

TLA+ models of the Life Events platform, the TLC runs that check them on small
instances and TLAPS proofs of their main invariants. Paths below are relative to
the repository.

Contents: 1 the system · 2 the modules · 3 what each run checks · 4 bounds and
fairness · 5 what is proved · 6 abstractions · 7 not modelled.

## 1. The system

The platform is a set of Fastify services over PostgreSQL (one database each),
Next.js front ends over those services, and an external identity provider
(Logto). The services call each other over HTTP with SDK clients that return
errors as values. The only background actor is the scheduler: everything that
must happen later is a row of its table and a webhook.

| Component | State it keeps | Operations that change it | Talks to |
| --- | --- | --- | --- |
| scheduler-api worker and route (`src/apps/scheduler-api`) | `scheduled_events`, `event_logs`; units of work in flight in each process | POST /tasks, the polling unit of work | webhooks of messaging-api and upload-api |
| messaging-api job delivery (`services/messages/messages.ts`, `routes/jobs`) | `jobs`, `messages.is_delivered`, event log, the pool's connections | POST /jobs/:id (called by the scheduler) | profile-api, e-mail and sms providers |
| messaging-api message creation (`services/messages`, `routes/messages`) | `messages`, `jobs` | POST /messages, processMessages | scheduler, upload-api, profile-api |
| messaging-api imports, invitations, consent (`services/users`, `routes/organisation-settings`) | `users`, `organisation_user_configurations`, `users_imports` | POST /user-imports, PATCH /organisation-settings/:id | profile-api, message creation |
| messaging-api providers, templates, events, actions | their tables | one request each | |
| intg-api journey executor (`routes/executor`) | `runs`, `run_steps` | POST /run, /execute, /transition | the browser, through signed callbacks |
| intg-api journey editing | `journeys`, steps, connections | one statement each | |
| upload-api files and antivirus | `files`, sharings, the object store | upload, download with rescan, delete, share | S3, clamd |
| upload-api cleanup job | a token in `settings`, files to delete | the scheduler's callback, start-up | scheduler |
| payments-api | requests, providers, transactions | create, status callbacks | payment providers |
| profile-api | user profiles and details | webhooks, find or create a user | Logto |
| auth-service, sessions | login sessions | login, callback, refresh | Logto |
| timeline-api | none | reads and merges | messaging, payments |
| api-auth, SDKs, logging, front ends | none of their own | | |

What is hard here, and the property that makes each part right:

- **Scheduler.** A process starts a unit of work at each tick without waiting for
  the previous one; several instances share the table; the row lock ends with the
  selecting statement while calls go on for seconds; the write back is not
  awaited. Right means: nobody else handles a row in hand, every post is counted,
  an acknowledged task is never called again, an exhausted one stays so, and every
  task ends delivered or stale.
- **Job delivery.** The job is read without a lock and updated by id; a request
  holds one connection of the pool while it waits for another; no COMMIT is awaited;
  a failed delivery goes on to the transports. Right means: "accepted" means in the
  mailbox unless the COMMIT was lost, no second e-mail without a cause, every request
  is answered.
- **Journey executor.** Each handler is a chain of single-statement
  transactions, no request names the step it means. Right means: one active step, a
  pending run can go on, submissions survive, a run completes at the end.
- **Imports and consent.** An import commits the person, then commits the
  invitation elsewhere, then marks the person as invited; the person's answer is two
  separate statements; nothing makes a person unique. Right means: "pending" people
  were invited, nobody is forgotten or welcomed twice, answers are accepted,
  messages respect consent.
- **Message creation.** All messages of a request are created side by side on one
  connection, each with a BEGIN and a ROLLBACK of its own; jobs are inserted and the
  scheduler called after the commit; the event log takes a second connection. Right
  means: all messages or none, "ok" only when every message has a task, an error
  before the commit leaves nothing, every request is answered.
- **Files.** A file is named, scanned and stored before it has a row; a download
  scans again when the antivirus has a new database and writes the whole row back,
  as it was before the scan; a deletion schedules first and removes sharings after.
  Right means: what is served was found clean by the database of that day,
  infected objects go, offered files have objects, objects have rows, scheduled
  files lose their readers and go away, two files of an owner do not share a name.
- **Cleanup.** A job that schedules its own successor before it works, behind a token
  every start replaces. Right means: the chain never ends by an interleaving, only
  when a start, a task or a fault of the scheduler drops it, and never doubles
  without a cause.
- **Payments.** A row's status is overwritten by webhooks, redirects and people, none
  of whom look at the status they replace; references are compared with stored rows
  only. Right means: what is recorded as paid was paid, what was paid stays so, a
  reference names one payment, a deleted request had none.

The hazards, line by line with the properties aimed at them, are in `PROJECT.json`.

## 2. The modules

| Module | Models | State ↔ code |
| --- | --- | --- |
| `TaskQueue` | what the scheduler promises its clients | no code: waiting, attempting, resolved |
| `Scheduler` | `worker.ts`, `routes/tasks`, both tables | `status`, `retries`, `executeAt` are the columns, `logs` counts rows of `event_logs`; `phase`, `owner`, `batch`, `answer` are the local variables of each unit in flight |
| `MessageJob` | `executeJob`, `scheduleMessage` | `job`, `mailbox` are rows, `commit` the COMMIT each row waits for; `pc`, `seen`, `carry`, `failed`, `code` are the handler's position and locals; `InUse`, `leaked` count the pool's connections |
| `Delivery` | `Scheduler` and `MessageJob` together | the n-th post of event e is request `<<e, n>>`; its answer, its death or the timeout settles the call |
| `JourneyRun` | the three executor routes | `run`, `status`, `step`, `data` are the tables; `pc`, `held`, `seen` the handler and what it read |
| `Consent` | one person's rows under imports, answers and messages | `status`, `linked`, `contacts`, `welcomed`, `setting` are the tables; the rest is each request's place and locals |
| `Submission` | what messaging-api promises whoever asks it to send | no code: stored, handed over, answered |
| `Outbox` | `processMessages`, `createMessage`, `scheduleMessages`, under POST /messages and under an import's invitations | `messages`, `jobs`, `tasks`, `logged` are the tables (the scheduler's included), `draft` the open transactions; `pc`, `work` the place of each request and of each creation in it; `InUse` counts the pool |
| `Files` | routes `files`, `metadata`, `permissions`, the job's removal | `rows`, `infected`, `deleted`, `label`, `fate`, `name` are columns of `files`, `sharings` is `files_users`, `objects` the bucket, `av` the antivirus database; `up`, `dl`, `del`, `job` the place of each request, `verdict`, `seen`, `version`, `batch` its locals |
| `Cleanup` | `app.ts` (start), `schedulerCallback.ts`, `scheduleCleanupTask.ts`, `storeConfig.ts` | `token` is the row of `settings`; `boot`, `carried` the start of each instance; `task`, `auth`, `failures` the scheduler as `TaskQueue` promises it; `call`, `held`, `host` each attempt's handler |
| `Payments` | hosted pages, `redirect` and `providers` routes, webhooks, confirmations, deletion of the request | `rows`, `ref`, `status`, `request` are the tables; `page` each hosted page; `events` the provider; `notice`, `found` each webhook and the row it looked up; `seen`, `clerk` what the citizen's or the public servant's page has read |
| `...Proofs` (one per module above without `TaskQueue`, `Submission`; `DeliveryProofs` is about `Scheduler` as well) | inductive invariants and theorems | |
| `MC...` | the small instances TLC runs | |

One action is one statement (or one transaction, when nothing can observe its
inside) with the local computation up to the next await. So in `Scheduler`:
`Poll` is the `update ... for update skip locked ... returning`, `Call` the
`fetch` of every row, `Settle` one settled promise, `Record` the write back. In
`MessageJob` each action ends where the handler awaits a connection, a query or
another service; `Free` guards every step that takes a connection; `Claim` and
`Deliver` send a COMMIT that takes effect in `CommitLands`, whenever that is, or never
(`JobCrash`). In `JourneyRun`
`Arrive`, `ReadRun`, `ReadActive`, `Complete`, `ReadConnections`, `CreateNextStep`
are the awaits of `/transition` in order. In `Consent` an import is `FindUser`,
`StoreUser` (commit), `ReadSettings`, `CreateInvitation` (commit of
`processMessages`), `MarkInvited` (commit). In `Files` an upload is `TryName` (one
query per number), `ReadVersion` beside `ScanUpload`, `StoreObject`, `InsertRow`; a
download `ReadRow`, `Fetch`, `CheckVersion`, `ScanDownload`, `RemoveInfected`,
`WriteBack`. In `Outbox` `Connect`, `LogCreation`, `LogScheduling` and `LogFailure`
take a connection, so `Free` guards them.

The modules meet in three places: `Delivery` composes the scheduler with the jobs;
`Outbox` is what `Consent` takes for one step, `CreateInvitation`; and `Cleanup`
stands on `TaskQueue`, which `Scheduler` implements, with the faults of `Scheduler`
that strand a task, and leaves to `Files!JobStep` what the job does.

Operators named `Mistaken...` are plausible bugs, unused by the modules. Putting
one in place of the definition that follows it must break the property listed for
it in `PROJECT.json`.

## 3. What each run checks

| Run | Shows |
| --- | --- |
| `scheduler_safety` | Two processes, two overlapping units in each, two tasks with two retries, two crashes or lost replies. A row is in one unit's hands and 'handling' meanwhile (`ExclusiveHandling`); posts, `retries` and logs agree and a row fails at most max_retries + 1 times (`AttemptsAccounted`); only a fault strands a row (`OrphansNeedFault`); the refinement `Promise`: workers implement `TaskQueue`; and `EverySubmittedEventSettles` under fairness: every task ends delivered, stale, or stranded by a fault; a crash costs only the rows then in hand. |
| `job_safety` | Two requests for one job, a third that competes for two connections, COMMITs on their way, two faults. `AcceptedMeansInMailbox`: a 202 means in the mailbox, or handed to a COMMIT that is on its way or was lost with the process (`HandedOver`); a job marked delivered is in the mailbox. `SecondEmailNeedsCause`; `ReopenedNeedsCause`; and `EveryRequestAnswered` unless the pool waits for itself (`Wedged`), which it can: every connection held by a request waiting for a second one. |
| `delivery_safety` | End to end, with as many failures as a task has attempts: a delivered task has its message `HandedOver`; at most one e-mail unless a call timed out or something failed; every message reaches the mailbox or one of the combinations of failures that prevent it holds (`EveryMessageReachesMailbox`). Timeouts alone cost no message. Failures of messaging-api do when they come with a timeout, leave the job 'working' (a crash that loses the COMMIT of a delivery answered 202 does), or use up the attempts. |
| `delivery_worker` (violation) | `OneWorkerPerJob`, which the "job is already in progress" check is for: a retry after a timeout works on the job beside the first request. |
| `journey_safety` | Two executions and three transitions of one run interleave and abort anywhere. `PendingRunHasWork`, `OneActiveStep`, `SubmissionsKept`: each names the only causes (a stale write, a request cut between two writes, a misread list of connections). |
| `journey_end` (violation) | A run is completed with steps left when the connections query fails. |
| `consent_safety` | Two imports by two organisations, one answer, one message about one person. `PendingWasInvited`: nobody is shown as pending without a committed invitation. `NobodyForgotten`: whoever is 'to_be_invited' is owed it by an import at work or one cut off. `NobodyMessagedUnasked`: weak as the check is, some consent precedes every message. `OneRowPerPerson`: only overlapping imports, or two with nothing in common to know the person by (one carries the e-mail, one the phone, and profile-api did not answer both), make two rows. `WelcomedOnce`: a person, not just a row, is welcomed twice only then or after an import cut off. `RefusedNeedsCause`: a valid answer is refused, or answered with an error after it was stored, only to a duplicated person, because an import wrote the person meanwhile, or because one had stored the person without their profile. |
| `consent_respected` (violation) | The consent query joins its conditions with "and", over all organisations: one organisation may message a person who is active thanks to another. |
| `files_safety` | Uploads of one name, downloads, deletions, a sharing, the removing job and an antivirus that learns. `ServedWasChecked`: what is served was found clean by the database whose version was asked for, though nothing is scanned when the row carries that version; the exceptions are an upload whose label was read after its scan and an update in between, and databases without a number, which row and download both call 'unknown'. `InfectedObjectNeedsFailure`, `ObjectsHaveRows`, `OfferedFilesExist`: bucket and table drift apart only through a named failure or a row written back whole. `ScheduledFilesAreUnshared`, `SameNameNeedsOverlap`: only overlapping requests break these. `RemovedOnlyWhenUnread`: an object is removed because it is infected or after thirty days unread. `ScheduledFilesGoAway`: however few files a job takes. |
| `cleanup_safety` | Two instances start, crash and serve the job, and the scheduler may strand what it has in hand. `ChainEndsForAReason`: no order of starts, calls, retries and tokens drops the chain; a cut start, a task the scheduler did not take, used-up retries, or a crash, lost reply or refused write back of the scheduler before the successor was asked for do. `SecondChainNeedsCause`: only a repeated call or a token replaced under its reader makes two. `CleanupRecurs`: the job keeps running until one of these happens. |
| `payments_safety` | Two payments of one request. `SucceededWasPaid`, `PaidStaysPaid`: the ways in which a status is wrong are exactly a shared reference, TrueLayer asked before it decided, a webhook that follows a later one, a bank transfer confirmed again, a return page opened (or reloaded) under a URL with an error. `SharedReferenceNeedsOverlap`: a reference is shared only if drawn twice before it was stored. `DeletedWasUnused`: through a count that is stale when used. `StripePaymentIsRecorded`: whichever webhooks come before the row or fail. |
| `outbox_safety` | An import's invitations and two messages on a pool of three. `SubmissionKept`: requests implement `Submission`. `FailureLeavesNothing`: a failure before the commit leaves no message, job or task, and a task implies a job, a job a message. `EverySendEnds`: unless the pool waits for itself, which one import and one message of two connections each can bring about. |

Each violation run is a finding in `PROJECT.json` with the line of code and the
sentence of the repository it contradicts.

## 4. Bounds and fairness

**Bounds.** All are constants of the instances, none is in the actions except
`MaxTime`, `MaxFaults`, `MaxJobFaults`, `MaxVersion`, `MaxStarts`, `MaxTasks` and
`MaxEvents`, which cap the clock, the faults, the versions of the antivirus database,
the starts and tasks of the cleanup job and the events of a payment.

- Scheduler: 2 tasks and batches of 2, so that a selection can take both, one or what
  another has left; 2 units in 2 processes is the least that overlaps within and
  across processes; max_retries 2 gives a first post, two retries and an exhausted
  task; two faults can strike one task twice or both. With batches of 1, where the
  limit leaves rows behind, the run ends the same way.
- Job: 2 racing requests show every race on a job (a race is between a read and a
  claim); the third request and a pool of 2 let the pool wait for itself.
- Delivery: one event with two posts, the least with a retry; a pool of 3 so that
  two requests can work and a third connection is still there; two failures of
  messaging-api, so that both posts may fail. What more posts and failures do is
  `FailuresLoseNothing`, proved for any number of them.
- Journey: a two-step journey has a first, a last and a successor step; three
  transitions give a repetition after the last step.
- Consent: two organisations so that one's consent can reach the other; two
  imports so that they overlap or follow each other, each with an e-mail, a phone,
  both or neither; one answer, one message.
- Files: either an upload with two downloads and a deletion (stale write backs), or
  two uploads of one name and a deletion (names); two versions of the antivirus
  database, either of which may be reported without its number, give scans before and
  after the one that knows the content; batches
  of 1, so that the limit can starve; one fault. The exception for stale writes in
  `SameNameNeedsOverlap` arises only with both uploads and both downloads of the
  first, too many for a run kept with the rest (7 million states); the proof covers it.
- Cleanup: 2 instances that start together or in turn, 2 starts, one retry, one
  fault; 5 identities of tasks, used again when free, hold two chains with their
  successors. Where more are alive at once the next insert waits for a free identity,
  which delays it and drops nothing (`CleanupRecurs` would show a chain that stopped);
  the proofs hold for any number.
- Payments: 2 payments and 2 references, so that references are shared or not; 2
  events per payment, so that they come in either order; one failing webhook; three
  pairs of methods, chosen so that each method occurs beside one that names its
  payments the same way.
- Outbox: an import holds up to three connections and a message two, so a pool of 3
  serves each of them alone and not all together; two invitations in one transaction
  let one creation fail beside another that succeeds.

The proofs of section 5 remove the bounds for the properties they cover.

Symmetry is used in the journey and consent runs only, which check no liveness, over
values no definition orders. Deadlock checking is off because each model may really
come to rest: the queue runs empty, or all the finite requests are answered.

**Fairness.** `Fairness` in `Scheduler`: the timer re-arms itself in every process
(`WF` of the clock and of polling), `fetch` is called as soon as rows are returned,
the abort signal settles a silent call (`WF` of settling; which outcome is not
promised), and the write back is issued when the last call has settled. In `MessageJob`
a handler's step is taken when it can be: promises settle, the pool serves its
queue, and the database commits what reached it. Requests are not made to arrive and nothing is fair about faults. `Delivery`
joins these and lets a post be arbitrarily late, not lost: a lost post is a call
that times out or a process that dies, both of which it has.

`FilesFairness`: times to live and thirty days pass, handlers go on, the job is run
again and again (what `Cleanup` shows of an unbroken chain). `CleanupFairness`: the
interval passes, the scheduler attempts what is due and hears answers (what
`Scheduler` shows), starts and calls under way go on; nobody is sure to start an
instance that is down. `WebhookFairness`: a provider repeats a webhook until it is
answered (external to this code) and the handler that found a row
updates it. `OutboxFairSpec`: promises settle and the pool serves whoever waits.

## 5. What is proved

For every value of the constants, from the named assumptions of each module
(`ConfigAssumption`, `DeliveryAssumption`, `JobAssumption`, `JourneyAssumption`,
`ConsentAssumption`, `FilesAssumption`, `CleanupAssumption`, `PaymentsAssumption`,
`OutboxAssumption`).

- **`DeliveryProofs`, the scheduler alone.** `TypeOK`, `ExclusiveHandling`,
  `AttemptsAccounted` and
  `UnitsAgreeWithRows` together are inductive. `AttemptsAccounted` alone is not: a
  write back adds one to `retries` and must know that its unit posted exactly one
  call that is not yet counted, which is what `UnitsAgreeWithRows` says of a unit's
  locals; and two units could both write it back without `ExclusiveHandling`.
  `OrphansNeedFault` needs a case per way a unit ends. `AckedNeverCalledAgain`,
  `StaleForever` and `PromiseKept` (each step of the workers is a step or a stutter
  of `TaskQueue`) follow from the invariant, action by action.
- **`DeliveryProofs`, scheduler and messaging.** `DeliveryRunsScheduler` and
  `DeliveryRunsMessaging`: a behaviour of the composition is a behaviour of each side,
  so the invariants of both hold in it (the theorems of `MessageJobProofs` come in
  through an instance, whose assumption `AssumptionFits` discharges, and whose
  definitions the lemmas `...Same` identify with those of `Delivery`). Then:
  an acknowledged event has its message handed over (`AckedHandedOver`). Until a
  call of an event is recorded as timed out its requests come `InTurn`: the scheduler
  posts the next only when the last is over. A COMMIT of the last may still be on its
  way then, so what a request read of its job is sure to be true when it claims it only
  while nothing failed (`ReadIsFresh`); that gives `OneRequestAtATime` (what the "already in
  progress" check hopes for, which the run `delivery_worker` shows false once a call
  timed out) and `SecondEmailNeedsTimeout`. `FirstCallSuffices` says that the first
  request goes through when nothing fails; hence `RetryNeedsCause`.
  Last, the two halves of "no message is lost", as far as they are safety:
  `TimeoutsLoseNothing` (timeouts may use up an event's attempts, but then a request
  or its COMMIT is still on its way to the mailbox) and `FailuresLoseNothing` (without a timeout
  every failed call costs a fault of its own, except those refused because a job was
  left 'working'). The second counts: requests of an event are numbered, and the n-th
  is doomed only if n faults were spent (`FaultsSpent`), which is inductive because
  the one before it is over and so was doomed too. A job left 'working' is excepted;
  the inductive form of that is `Shut`: nobody is about to claim it either, which a lost
  COMMIT of a delivery leaves behind (`CommitInTurn`).
- **`MessageJobProofs`.** Three invariants: `PoolInv` (types; connections held and
  leaked never exceed the pool), `MailboxInv` (whoever is past delivery without a
  failure has handed its message over) and `CauseInv`: without a fault or a stale
  claim a job has at most one owner, is 'working' only under it, and is not e-mailed
  before the owner does (`OneOwner`, `NoFaultNoError`); a claim whose COMMIT is on its
  way counts as the owner's (`LateClaims` is the case of a claim over a delivery).
  `PendingIsOpenToAll` adds that nobody is refused a pending job, so refusals cost
  nothing (`NothingRefusedInVain`). `StopsOnlyWedged` needs only the count of
  connections: if nobody can go on and no COMMIT is on its way, every connection is
  leaked or held by a request that waits for a second one.
- **`JourneyRunProofs`.** The right to move a run forward is a token: an active row
  holds it, or the request between completing a row and creating the next. A row is
  named by its creating request, so the token never changes its name and "no two
  tokens unless a stale write happened" (`OneToken`) is inductive. `RowsFollowRequests`
  ties rows to places in requests, `FinishingHasReason` keeps `End` out of the table.
- **`ConsentProofs`.** A request keeps the name of its row, its organisation and its
  decision to the end (`Placed`), so a row that waits names the import that owes it:
  that makes `PendingWasInvited` and `NobodyForgotten` inductive. `RowsComplete` (a
  row and a setting appear together) is what turns "no setting refuses" into "some
  setting accepts" for `NobodyMessagedUnasked`, through `AskedFirst`. `StayActive`
  says that between activation and answer only an import touches the person; from it
  follows `RefusedNeedsCause`. `OneRowPerPerson` and `WelcomedOnce` are about imports
  that follow each other: while none overlap the turn to import is a token
  (`OneAtATime`), so an import finds the rows as the last one left them. `RowsWritten`:
  a row has the contacts and the link of the import that wrote it last, and no others,
  so that an import which has something in common with each before it finds the row
  there is (`RowsFound`). `WelcomeKnown`: as long as none was cut off, what
  an import remembers of the welcome mark is still so, and whoever was welcomed
  carries the mark but for the import that is about to set it.
- **`FilesProofs`.** `FilesInv` joins the types with four facts no property says: rows
  come last, so whoever works on a file found its row and an unfinished upload has its
  object to itself (`RowsFollowUploads`); the job holds only files that are due, so
  nobody reads them (`BatchIsDue`); no label claims what a scan at least as recent did
  not find, unless it was read late, and one that is 'unknown' claims nothing
  (`LabelsHonest`); a name was free when given, and
  stays so unless a row of that name comes first (`NamesWereFree`). All seven safety
  properties of the run follow.
- **`CleanupProofs`.** Attempts of a task come one after the other
  (`AttemptsInOrder`), tokens in hand are never newer than the stored one
  (`TokensGoOn`), the chain is somewhere (`LineGoesOn`), and without a repetition or
  a replaced token the handler at work is that of the current attempt
  (`RunningIsCurrent`); with them `ChainEndsForAReason` and `OneChain` are inductive.
- **`PaymentsProofs`.** Which pages have references and rows (`Pages`, `References`,
  `StoredHaveReferences`), which events a method can have (`EventsFit`), that a held
  webhook holds a row of its reference (`HeldIsFound`), that what people carry was
  true when read (`PeopleKnow`), and that two pages with one unstored reference were
  noticed (`SharingIsNoticed`). `PaidStaysPaid` needs in addition that money is the
  last event of a payment (`MoneyIsLast`) and that a success on record is the newest
  that a webhook wrote (`AsRecorded`); that a page from TrueLayer is about to write a
  failure only after one, or for its URL, is part of `PeopleKnow`.
- **`OutboxProofs`.** `Follows` says what is true of a message at each place of its
  request. Batches are disjoint, so a step of one request disturbs no other
  (`OthersFollow`) and each action is followed for one request (`OneFollows`).
  `FailureLeavesNothing` is a consequence, and every action is a step or a stutter of
  `Submission` (`SubmissionKept`): `Kept` is all or nothing, which rests on a failed
  creation being seen by `MustFail`. `StopsOnlyWedged` as for the jobs: creations,
  inserts and calls wait for nothing but a connection.

Some theorems state what no run checks, because the proof says it for every instance:
the type invariants, `UnitsAgreeWithRows`, `AckedNeverCalledAgain` (an acknowledged
task is not called again), `StaleForever` (an exhausted one stays so),
`WorkingHasOwner` (a job that is 'working' has a request at work on it, the COMMIT of
its delivery on its way, or a cause),
`CompletedHasReason` (what a completed run has behind it), and those of
`OneRequestAtATime`, `RetryNeedsCause`, `TimeoutsLoseNothing`, `FailuresLoseNothing`,
`NothingRefusedInVain` and `StopsOnlyWedged`, whose statements are in the `...Proofs`
modules. `Ready` there stands for what ENABLED would say of a request's next step,
guard by guard.

Every safety property that a passing run checks is proved. Only model-checked is
liveness (`EverySubmittedEventSettles`, `EveryRequestAnswered`,
`EveryMessageReachesMailbox`, `ScheduledFilesGoAway`, `CleanupRecurs`,
`StripePaymentIsRecorded`, `EverySendEnds`), since the prover handles neither fairness
nor ENABLED. Nothing here rests on induction over data or on RECURSIVE operators,
which are out of the prover's reach as well.

## 6. Abstractions, and why they are sound

- *Scheduler.* The two statements are atomic. A selection that waits for nobody
  (skip locked) may return fewer rows than the limit when another holds locks; since
  locks end with the statement this is the same as running after it. `retries` NULL
  (never failed) is 0; the order by treats both as the code does. A restart is part
  of the crash. A refused, un-awaited write back is an unhandled rejection, which
  ends a Node process: `RecordFails` is a crash. A poll without rows, or whose
  statement fails, changes nothing and is a stutter; so is an empty body of POST
  /tasks, which is an SQL error.
- *Job.* One transport stands for e-mail and sms: each has the same shape and
  failures. The job row exists with the token the request carries (the scheduler was
  given both). There is one messaging-api process with one pool; event log rows are
  kept only as the connection they need. A COMMIT that was sent needs its connection no
  more as far as the pool is concerned: whoever gets the connection next queues behind
  it. It locks the job row until it lands, so later updates of the row wait, and holding
  a connection while they do takes nothing from the COMMIT. One that fails rejects a
  promise nobody handles, which ends the process: it is a `JobCrash`, and never reaches
  the catch. That BEGIN and ROLLBACK are not awaited changes nothing that is committed:
  the connection serves statements in order.
- *Journey.* The journey is not edited while it runs, so the connections are a
  constant; a failing statement and a dying process are the same `Abort`, called
  "cut" between the two writes; computing the next step joins the read it follows.
  Requests are finite in number and each runs once.
- *Consent.* One person, one record per import, with any of that person's contacts.
  Finding the profile's rows and updating them, two statements of the activation, are
  one step: either fails when there is none. The row lock of the import's update lasts until its commit,
  so finding is one step and writing with committing another. A profile-api error is
  "no profile", as the SDK returns it. An answer that fails midway takes no further
  step. What `processMessages` does inside and after its transaction is `Outbox`.
  Imports run as part of their request (SYNCHRONOUS_USER_IMPORT).
- *Outbox.* The creations of one request queue on one connection, so their statements
  come in rounds and no insert follows another's ROLLBACK; the model allows any order
  and so more. Both callers ask for all or none. A crash takes every request of the
  one process. Failing creations are not counted as faults: a missing receiver is one.
  When a creation throws instead of returning its error (its receiver's row or its
  attachments cannot be read), `Promise.all` rejects at once and the others run on over
  the shared connection; the model ends them first. Nothing is committed by that: POST
  /messages creates one message, invitations have no attachments to wait for, and after
  a failed reading the statements that are queued already fail with the transaction.
  Requests without messages are left out.
- *Files.* All files have one owner and one name, since names of others never meet.
  Scanning and the transfer to the bucket are one stream in the code; here the scan,
  the label and the object are three steps, in the orders the stream allows. A
  database is known by the number in the daemon's answer; an answer without one
  (`Nameless`) becomes 'unknown', and so does one that cannot be read. An
  upload that is refused as too large may still store what was read of it and get its
  row (the stream goes on after the answer); it is then an upload like any other here,
  since answers to uploads are not part of the state. No request lasts thirty days
  (`Lapse`).
- *Cleanup.* The interval is longer than starts, calls and their retries
  (`IntervalPasses`). Tasks that are over, or 'handling' for ever, may be forgotten
  (`Free`). The scheduler's batches, units and processes are not repeated here: one
  fault strands any of the tasks in hand, as the crash of a process, the lost reply of
  a poll or a refused write back does in `Scheduler` (`SchedulerFails`).
- *Payments.* Amounts, encryption and signatures are left out: an event is authentic.
  A citizen is at most once at a time on the page that asks TrueLayer. A public
  servant confirms a transfer after finding money under its reference. Statuses are
  written by the pages and webhooks of the code: that the route behind them, PATCH
  /transactions/:id, takes any status from any citizen is a question of who may call it,
  which is out of scope.

## 7. Not modelled

`PROJECT.json` lists every component with its reason. Nearly all of the repository's
lines are of four kinds, and none of them is a system of states that requests race for:

- front ends (Next.js pages and actions), the design system, SDK clients, logging,
  schemas, generated types, migrations, terraform and CI: rendering, types and
  transport. One of their effects is known to matter: the integrator's callback page
  issues a /transition at every rendering. `JourneyRun` lets any number of transitions
  arrive, but what a page has shown is not in it, so no property says that a step was
  seen before it was completed.
- routes of one statement, or of one transaction, on rows nobody else updates:
  templates, messaging providers, events and actions, journey editing, profiles,
  preferences, payment providers and requests. What two of them do to each other is
  PostgreSQL's isolation, not this code's order of steps.
- readers: timeline, lists, previews, statistics, downloads of logs.
- authentication: token checks and a login's own row.

Inside modelled components: imports of several records and their asynchronous variant
(several imports stand for several records), the deprecated upload in
`routes/utils/scanAndUpload.ts`, the audit log of payments, and the read-only routes.
