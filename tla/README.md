# HelpFlow: a TLA+ verification project

HelpFlow is a support desk. Clients open tickets over HTTP or from a Telegram chat, staff works on
them, and every change is announced in Telegram. The program is Python (FastAPI, SQLAlchemy on
PostgreSQL, pika on RabbitMQ); its code is in `src/src/helpflow/`, and paths below are relative to
that directory. This project models the parts in which several processes meet: requests that change
and read tickets, the outbox and its publisher, the queue and its consumer, the delivery of
notifications under leases, the worker's loop over both, Telegram's updates, and the creation of
accounts. Eight modules of theorems prove for all instances what TLC checks on small ones.

## Inventory

| Component | Code | State it keeps | Operations | Model |
|---|---|---|---|---|
| Notification delivery | `worker/notification.py`, `api.py:283` | `notification_deliveries`, `delivery_replays`; in a worker: the claimed job between two transactions | `process_event`, `claim_delivery`, `deliver_one`, `_send_telegram`, `finish_delivery`, `retry_notification` | `NotificationDelivery` |
| Queue consumer, inbox | `worker/notification.py:90-117, 216-257` | messages in flight, the advisory lock on an event | `consume_one`, `process_event`, quarantine, acknowledgement | `OutboxRelay` |
| Outbox publisher | `worker/publisher.py` | `outbox_events.published_at`, `attempts`; the open transaction with its batch | `publish_batch`, `run` | `OutboxRelay` |
| Worker loop | `worker/notification.py:237-257` | the channel, the place in the loop | `run` | `Pipeline` |
| Ticket workflow | `services.py`, `api.py:136-232` | `tickets`, `ticket_history`, `comments`, `outbox_events` | create, assign, transition, comment and their answers, detail view, `list_tickets` | `TicketWorkflow` |
| Telegram linking, webhook | `telegram.py`, `api.py:108-121` | `telegram_links`, `telegram_receipts`, the chat of a user | `issue_link`, `handle_update`, `apply_update` | `TelegramLink` |
| Accounts | `api.py:74-105`, `security.py`, `dependencies.py` | `users` | register, login, current user | register and login in `Accounts`; the guards of a request in `TicketWorkflow` |
| Seed | `seed.py` | none of its own | `seed_database`, `_upsert_staff` | `Accounts` |
| RabbitMQ topology | `broker.py` | durable queue and quarantine queue | `declare_topology`, `publish_event` | partly, in `OutboxRelay` |
| Models, migrations | `models.py`, `../../migrations` | the schema | two migrations | state and initial states of the modules |
| Staff and dead-delivery lists | `api.py:124-135, 259-280` | none | one query each | not modelled |
| Application, health, settings | `main.py`, `config.py`, `db.py` | none | middleware, probes | not modelled |
| Test safety | `test_safety.py` | none | a one-shot check | not modelled |

How they interact. A ticket's transaction writes the row, its history and an outbox event together.
The publisher moves events from the table to the queue; the database and the broker share no
transaction, so it publishes first and commits `published_at` after. The consumer turns a message
into rows of `notification_deliveries`, commits, and then acknowledges. The same thread claims due
rows and calls Telegram with no transaction open. Telegram's webhook changes whom a chat belongs to,
which a worker in flight does not see, and writes tickets in the name of whom a chat belongs to.

What is hard, and the property that makes it right:

* *Delivery.* A lease may lapse under a slow worker, a worker may die after Telegram took the
  message, an answer may be lost, an administrator may replay a row while its old worker still runs,
  the client may move to another chat. Right means: the newest claim alone decides a row, settled
  rows stay settled, claims are bounded, a message is only repeated when a result was lost, nothing
  goes to a chat that was not the client's since the claim, and every row is settled in the end.
* *Relay.* Confirm and commit, commit and acknowledgement, quarantine and acknowledgement are each
  two steps with a failure between them, and broker or database may give a process up before it
  notices. Right means: nothing is lost, no event is quarantined, duplicates come from failures
  only, the inbox never collides, the queue drains.
* *Loop.* One thread consumes and delivers; either may starve or stop the other. Right means: a
  broker that is down does not hold up stored rows, due rows do not hold up the queue, and every
  committed event is settled with every recipient.
* *Tickets.* Requests read a row, wait for its lock, read it again and decide; READ COMMITTED gives
  each statement its own snapshot; `created_at` is the start of a transaction, not its commit; an
  answer is read after the commit. Right means: no lost update, one winner per version, only legal
  operations, and events, views, lists and answers that tell the truth.
* *Telegram's updates* come repeatedly, concurrently and out of order; a code is found before
  anything is locked. Right means: a code binds once, for its owner, while it is the newest; a chat
  has one owner; an update has one effect and one answer; nobody waits in a circle.
* *Accounts.* Registration and seed look first and insert later. Right means: one account per email
  however it is spelled, no false success, and a seed that can be repeated at will.

`PROJECT.json` lists every such hazard at its line with the properties that watch it.

## Modules

| Module | What it is |
|---|---|
| `NotificationDelivery` | state, actions and properties of the delivery component |
| `AtLeastOnce`, `DeliveryRefinement` | what delivery promises, and the mapping under which it does |
| `OutboxRelay` | publishers, queue, consumers, inbox and quarantine |
| `Pipeline` | the two above composed by the worker's loop |
| `TicketWorkflow` | tickets, history, comments, events, and the sessions that change and read them |
| `TicketLedger`, `TicketRefinement` | a ticket as an object with atomic operations and a log, and the mapping |
| `LinkLedger`, `LinkRefinement` | codes and updates that take effect in a single step, and the mapping |
| `TelegramLink` | codes, receipts, bindings, and the sessions with their locks |
| `Accounts` | users by stored email, requests and seeds |
| `NotificationDeliveryProofs`, `DeliveryRefinementProofs`, `OutboxRelayProofs`, `PipelineProofs`, `TicketProofs`, `TicketHistoryProofs`, `TelegramLinkProofs`, `AccountsProofs` | the theorems |
| `MC...` | small instances for TLC |

A definition named `Wrong...` is no part of a model. It is a plausible bug, standing next to the
definition it would replace; with it in place, the property that watches for it is violated. So each
property of each run is known to be able to fail.

### NotificationDelivery

A row of the table is identified by `(event, recipient)`, the code's `uq_delivery_recipient`;
`Deliveries` are the rows `_recipients` yields for the given payloads, with `NoChat` for the one row
of an event nobody is to hear of. `Legacy` rows are those the migration keeps from the first schema
(`failed`). `delivery[d]` has the columns the code reads: `status`, `error` (classes of errors, not
their texts), `attempts`, `next_attempt_at`, `lease_until`, `lease_token`.

| Action | Code |
|---|---|
| `ProcessEvent` | `process_event`, one transaction under its advisory lock (its inside is in `OutboxRelay`); a call that returns early changes nothing |
| `ClaimDelivery`, `GiveUpDelivery` | `claim_delivery`: claims, or closes a row whose last lease lapsed |
| `CheckRecipientOk`, `CheckRecipientChanged`, `LookupFailed` | the first part of `deliver_one`'s `try` |
| `SendConfirmed`, `SendUnconfirmed`, `SendFailed`, `SendRejected` | `_send_telegram` and the two handlers of `deliver_one`, split by what Telegram did and what the worker learnt of it |
| `FinishDelivery` | `finish_delivery`, the fenced `UPDATE` |
| `WorkerCrash` | the process dies or a transaction fails; `run` starts over |
| `RetryNotification` | `retry_notification` |
| `RebindChat`, `Tick` | a client's chat or activity changes; time passes |

The claims of a row are numbered, and the number stands for the random `lease_token`: uuid4 values
are taken to be distinct. The claimed row is any of the first `|Workers|` in the order of
`next_attempt_at`: SKIP LOCKED passes over at most one row per other worker, and a tie is broken by
a random id. `claim_delivery` reads the clock just before its transaction opens; the model reads it
in the transaction. All processes share one clock. `random.uniform(0, 1)` is 0 or 1, the ends of its
range. `until` and `linked` in a worker, `claims`, `accepted` and `uncertain` are history: no guard
reads them, except that `claims` supplies the next token.

`AtLeastOnce` is the promise without leases, clocks, workers or a database: open jobs are tried a
bounded number of times, any attempt may reach the recipient at any time, a job is sent only on the
word of its newest attempt, settled jobs stay so until somebody sends a dead one round again, and
open jobs are settled in the end. `DeliveryRefinement` maps rows to jobs by their status and claims
to attempts; `KeepsThePromise` is the safety part, `KeepsThePromiseInTime` the whole.

### OutboxRelay

Events are numbered in the order of `created_at`, and commit in any order. A publisher's transaction
holds its batch: `Locked` rows are skipped by others. When the server ends a transaction (`lost`),
its locks are gone, but the publisher goes on publishing until the commit raises. The queue counts
ready copies; it has no order, which includes every redelivery. A message in flight goes back when
its channel is closed (`Close`) or given up by the broker (`ReturnInFlight`); in the second case the
consumer goes on with its copy while another has it too. `process_event` is two actions, because the
advisory lock is what keeps two consumers of one event apart between them. It asks for rows of the
event before it compares the type, so a mistyped message about an event already received is dropped
like a duplicate, and quarantined otherwise (`Known`, `Unknown`).

### Pipeline

`Relay` and `Delivery` are instances of the two modules over one set of variables each; `place` says
where each worker's `run()` stands: the first `deliver_one()`, `connect()`, `consume_one`, or the
`deliver_one()` of the loop. A step of a worker is a step of one part at the right place, and an
exception anywhere returns it to the first delivery. `ReceiveEvent` is where the parts meet: the
commit of `process_event` is one action of both. Connecting may fail at any time, without limit.

The parts assume that workers keep consuming and keep claiming. Here these assumptions are
properties of the loop: `DeliveryNeedsNoBroker` says that the fairness of `NotificationDelivery`
follows from `run()` alone, with the broker down for good; `ConsumingGoesOn` that the fairness of
`OutboxRelay` follows from `run()` and a broker that answers again and again (`BrokerAnswers`).

### TicketWorkflow

A request is one session: `Begin` loads the caller and the ticket (and fixes the transaction's start,
which is `created_at`), `LockTicket` waits for the row lock, refreshes and compares the version, and
one action of the operation decides and commits. Then `AnswerChange` refreshes the row in a new
transaction and answers with it, or the answer is lost. Every refusal, and `Abort` (lock timeout,
database error, death), ends the session without a trace. Comments do not quote a version. The detail
view is three statements: the row, then the comments and the history in either order, since nothing
in `get_ticket` orders the two `selectinload`s (`first` remembers which it was); a list is two: the
page and the total.
The page is any subset of the tickets that match (order, limit and offset are left open), the total
counts all of them. `resolved_at` is a BOOLEAN (set or not); subject,
description, priority and comment texts are left out. `create_ticket` is one action: until its commit
nobody knows the ticket; the Telegram command `/new` uses the same function. Roles and activity of
users are constants, because no route changes them.

`TicketLedger` is a ticket with no sessions, locks or stale reads: each operation is judged by the
state at that moment and leaves one log entry. `ActsLikeALedger` says that every commit of
`TicketWorkflow` is one legal operation on the row as it was just before it.

### TelegramLink

A session is one request and one transaction. Each action is one statement with the lock it needs:
the advisory lock on the update, the advisory lock on the chat, the user's row, the code's row (both
FOR UPDATE, for `issue_link` too), and the KEY SHARE lock that the foreign key of a new ticket takes
on the client. `Wants` is the lock the next statement needs, `Conflict` when two exclude each other;
all are held to the end of the transaction. A session's writes appear at its commit.

| Action | Code |
|---|---|
| `AskForLink`, `RefreshUser`, `CommitLink` | `issue_link` |
| `ReceiveUpdate`, `AnswerFromReceipt`, `ApplyUpdate` | `handle_update` up to `apply_update`; an update without a usable text is rejected |
| `FindLink`, `LockChat`, `LockFirst`, `LockSecond` | `/start`: the code is found, then chat, user and code are locked and read again |
| `FindClient`, `FlushTicket` | `/new`: the client is read without a lock, the flush waits for the row |
| `CommitUpdate` | effect and receipt in one commit, then the answer |
| `Abort`, `Deactivate`, `Tick` | a lock timeout, an error or a crash; an administrator at the database; time |

Codes are numbered in the order they are issued; the number stands for the hash of a random code.
`issued`, `grants` and `answers` are history, except that the length of `issued` supplies the next
number. Users may hold an unverified chat from the first schema (`Legacy`).

`LinkLedger` has the same tables and no sessions: it issues a code, binds a chat, writes a ticket,
refuses or repeats an answer in a single step, and each step has its whole condition in its guard.
`UpdatesActAtOnce` says that every commit is such a step. Two guards say less than one might expect,
because the code promises no more: a code is spent at a time when it was valid, which may be a little
before the commit; and the client of a ticket has bound that chat at some time, not still, since the
user is read without a lock. Why an update is refused the ledger does not ask.

### Accounts

Rows are keyed by the stored email, which is what the unique key compares, and are looked up by
`lower(email)`; `Lower` maps spellings to each other. Register and `_upsert_staff` are the same
statements with other answers: look, insert (waiting for an uncommitted insert of the same key),
commit. The seed goes through `Staff` one transaction at a time, fails at the first error, and may be
started again, after failure or success. Login reads the row, then verifies the password it read.
Deactivation happens by hand in the database. Passwords stand for their hashes.

## Runs

| Run | Instance and states | What it shows |
|---|---|---|
| `DeliveryRaces` | 1 event to 1 chat, 2 workers, 2 attempts, lease 2, backoff cap 2, `retry_after` of -1, 0, 5 clamped to 3, 1 replay; 532,229 | the safety of leases, fence, budget and replays; each step is one `AtLeastOnce` allows |
| `DeliveryRecipients` | 3 events (2 recipients, none, a legacy row), 2 workers, 1 attempt; 66,123 | settled rows stay so among others, no chat is stale |
| `DeliveryLiveness` | as the first with a lease of 1, one reliable worker; 493,907 | all of `AtLeastOnce`: every row settles |
| `TicketRaces` | 1 ticket, a client, an operator, 4 assignments and transitions; 128,799 | no update is lost, the displayed order is the order of commits, each commit is a ledger entry |
| `TicketViews` | the same with comments, views, lists and answers, 3 requests; 1,223,212 | events, views, answers and totals tell the truth |
| `RelayFailures` | 2 events, 1 mistyped message, 2 publishers with batches of 2, 2 consumers, 2 failures; 438,729 | nothing is lost, duplicates have causes |
| `RelayLiveness` | 2 events, 1 malformed message, 1 publisher, 2 consumers, 1 failure; 22,569 | the queue drains |
| `RelayCounter` | 1 event, 1 publisher, 1 consumer, 1 failure | expected violation, see below |
| `PipelineRuns` | 1 event with an internal comment, 1 malformed message, 1 publisher, 1 worker, 1 failure, 1 attempt; 23,378 | from a commit to a settled row; what each part assumes of the loop |
| `LinkRaces` | 2 users, 2 chats, 2 codes that live for 1, 3 updates with them and 1 ticket, 3 sessions; 657,696 | locks: one use per code, one owner per chat, no circle; each commit is a ledger step |
| `LinkRepeats` | a code, a ticket and an unusable update under the ticket's id, 2 sessions; 51,028 | one effect and one final answer for each update, tickets from confirmed chats only |
| `AccountRaces` | an administrator's email in two spellings, 2 passwords, 2 requests, 1 seed of two accounts; 354,788 | the races of registration, login, seed |

### Why the bounds are enough

Every bound is a constant in a guard, never a state constraint.

* *Delivery.* The rows share nothing but the clock, the workers and the order of claims, so one row
  with two workers has every race of a lease, and `DeliveryRecipients` looks at several rows. Two
  attempts give a first, a last and a lapsed one; a lease of 2 lets a worker finish before, at and
  after its end; the clamp lies below one answer and above another. One replay lets a worker of the
  first cycle live into the second. The number of crashes and rebindings is not bounded. Time passes
  only while something in the table waits for it (`Waiting`), which keeps the state space finite
  without a bound on `now`.
* *Tickets.* Four requests reach `closed` with a loser among them; three are enough for a comment, a
  view or a list between two changes. A caller quotes any version there has been or guesses the next
  one. `MaxAnswers` bounds the answers that are read after a commit, not the commits: the other
  answers are lost. Tickets share no row, so one is enough; a list of one ticket can still lose it
  between page and total.
* *Relay.* Two publishers with two events have the overlapping and the disjoint batch. Any two
  failures, at any step, include a lost transaction followed by a returned message. `RelayLiveness`
  and `PipelineRuns` have batches of 1: fairness, not the batch, is their subject.
* *Pipeline.* One event for one recipient (an internal comment is for the operator alone) passes
  every place of the loop beside a message that never becomes a row; a second worker would add the
  races within the parts, which their own runs have.
* *Linking.* Two codes are the old and the new one of a user, or one of each user; with three
  updates of two chats every pair that shares a code or a chat meets, while a third session issues a
  code; the ticket comes from the chat that one of the users has from the first schema. A code that lives for 1 is valid, at its end, or past it.
* *Accounts.* Two requests and the seed are three writers of one key under two spellings.
* *Deadlock* is unchecked in the runs in which all work may be spent (`TicketRaces`, `TicketViews`,
  the three relay runs) and in `LinkRaces`, where codes and time may run out; circles of sessions are
  what its `NoDeadlock` is about.
* *Symmetry* is used in safety runs only, over workers, processes, requests and sessions. No order of
  them is used anywhere.

### Fairness

* `NotificationDelivery!FairSpec`: time passes while something waits, and each `Reliable` worker
  keeps claiming and keeps finishing what it started: `run` calls `deliver_one` for ever, catches
  every exception, and each call in it has a timeout (Telegram 10 s, statements 10 s, locks 3 s).
  The other workers may hang for ever. Crashes are not limited, not even for the reliable worker: a
  row that is claimed and lost each time runs out of attempts and is given up.
* `OutboxRelay!Fairness`: `run` of either process reconnects after every exception, hence weak
  fairness of each process's own steps. Handing out a message is strongly fair per message: a FIFO
  queue does not pass over a message again and again, and the model has no order. Failures are
  bounded by `MaxFaults`, since nothing can arrive while they go on for ever.
* `Pipeline!FairSpec` assumes less than the sum of these: that time passes, and that each reliable
  worker's `run` takes steps. Nothing is said of the broker, which may refuse every connection. What
  needs one says so in its antecedent (`BrokerAnswers`): the publisher goes on, a connection that can
  be made again and again is made, a message that can be handed out again and again is.
* `TelegramLink!FairSpec`: Telegram repeats an update until it is answered, each session goes on
  whenever it can, again and again (locks are granted in turn), and from some time on no request is
  broken off; a lock timeout that never ends leaves an update unanswered.
* `TicketWorkflow` and `Accounts` promise nothing that needs fairness: a request may always be
  refused.

### A disagreement with the documentation

`RelayCounter` checks docs/architecture.md:14, «Счётчик `OutboxEvent.attempts` отражает
подтверждённые публикации»: the counter reflects confirmed publications. `publish_batch` raises it
in the transaction it commits after the whole batch. If anything fails between a confirm and that
commit, the count rolls back with `published_at`, and an event the broker confirmed twice ends with
`attempts = 1`. The counter says how many committed batches an event was in, which is always one.

## Proofs

Each theorem holds for all values of the constants that satisfy the ASSUMEs of the module it is
about; TLC evaluates these in every run. They say that bounds are natural numbers, that `Null` and
its like are no values of the kind they stand beside, and that processes or tickets are finite where
something is counted. `BackoffAssumption` says that the backoff of an attempt is a natural number, so
that no proof needs the properties of `^`.

| Module | Theorem | Property |
|---|---|---|
| `NotificationDeliveryProofs` | `TypeCorrect`, `LeaseColumns`, `ClaimsBounded`, `SentIsAccepted` | `TypeOK`, `LeaseColumnsAgree`, `ClaimBudget`, `SentOnlyIfAccepted` |
| | `SettledForGood` | `SettledStaysSettled` |
| | `DuplicatesArePaidFor` | `DuplicatesNeedALostResult` |
| | `LatestClaimDecides` | `OnlyLatestClaimDecides` |
| | `NoChatIsStale` | `NoStaleChat` |
| | `RowsComeBack` | `RetryWithinHorizon` |
| | `DeathHasAReason` | `DeadForAReason` |
| | `LeasesExclude` | `OneLiveLease` |
| `DeliveryRefinementProofs` | `DeliveryKeepsThePromise` | `KeepsThePromise` |
| `OutboxRelayProofs` | `TypeCorrect` | `TypeOK` |
| | `NoEventIsLost`, `NoJunkIsLost` | `NoEventLost`, `NoJunkLost` |
| | `EventsStayOutOfQuarantine` | `OnlyJunkQuarantined` |
| | `InsertsNeverCollide` | `InboxNeverCollides` |
| | `DuplicatesArePaidFor` | `DuplicatesNeedAFailure` |
| `PipelineProofs` | `PipelineRelays`, `PipelineDelivers` | the specifications of the two parts |
| | `PipelineKeepsThePromise` | `KeepsThePromise`, of the composition |
| | `TypeCorrect`, `NobodyIsForgotten` | `TypeOK`, `NobodyForgotten` |
| | `NothingIsInvented` | `OnlyCommittedIsTold` |
| `TicketProofs` | `TypeCorrect`, `ResolvedAtCorrect`, `ClosedStaysClosed` | `TypeOK`, `ResolvedAtAgrees`, `ClosedIsFinal` |
| | `VersionsAreSpentOnce` | `OneWinnerPerVersion` |
| `TicketHistoryProofs` | `WorkflowActsLikeALedger` | `ActsLikeALedger` |
| | `NoUpdateIsLost` | `NoLostUpdate` |
| | `EventsAreTrue` | `EventsTellTheState` |
| | `AnswersAreTrue` | `AnswersShowTheChange` |
| | `TotalsCoverPages` | `TotalCoversPage` |
| | `DisplayKeepsOrder` | `DisplayedOrderIsCommitOrder` |
| | `ReadersAreToldEnough` | `ViewsExplainThemselves` |
| `TelegramLinkProofs` | `TypeCorrect`, `KeysDoNotCollide` | `TypeOK`, `KeysNeverCollide` |
| | `NewestCodesBind`, `CodesAreUsedOnce` | `NewestCodeBinds`, `CodeUsedOnce` |
| | `AnswersStay` | `AnswersAreFinal` |
| | `TicketsHaveConfirmedChats` | `TicketsNeedAConfirmedChat` |
| | `LocksMakeNoCircle` | `NoDeadlock` |
| | `EffectsHappenOnce` | `OneEffectPerUpdate` |
| | `LinkingActsAtOnce` | `UpdatesActAtOnce` |
| `AccountsProofs` | `TypeCorrect`, `EmailsAreUnique` | `TypeOK`, `OneAccountPerEmail` |
| | `AccountsStayAsTheyAre` | `AccountsAreKept` |
| | `AnswersAreTrue` | `AnswersHold` |
| | `SeedsPrepare` | `SeedPrepares` |

With these, every invariant and every action property that a run checks is proved. A few properties of
the table are checked by no run, because a run checks something that implies them or cannot do without
them; they are steps of the arguments. `OnlyCommittedIsTold` is defined beside its proof: two guards
of the code stand for it (the publisher reads committed rows, `process_event` looks for the row again),
so no single slip violates it. `NewestCodeBinds` follows from `UpdatesActAtOnce`.

*Delivery* has layers, each inductive on top of the one before. `Shape`: types, lease columns, and
what a worker in each phase holds (the result of a worker is recorded in its row, so one has to know
that it is there). `Budget`: `claims` is at most `MaxAttempts` for each past cycle plus the attempts
of this one; `ClaimBudget` alone forgets the attempts and is not inductive. `Fence`: every busy worker
either still holds its row or has its claim written off as uncertain, what it knows agrees with what
Telegram accepted, and no two workers have the same claim; it is needed because `sent` says nothing
about workers, and the danger is a worker. `Links`, `Bounded`, `Reasons` and `LiveHolds` say what a
worker's chat, a row's times, a row's error and a running lease mean. The refinement is then one lemma
per action.

*Relay.* `Custody` says by what each message is safe at any moment: in the queue, in flight, in
quarantine or in the inbox; what a consumer knows of its message, and that a publisher counts as sent
only what is safe. `Paid` is the balance of the duplicates: copies made against failures had.

*Pipeline.* A step of the loop is a step of each part or leaves it alone; the theorems of the parts,
proved in an arbitrary environment, come in through instances. `RowsStored`, that an event received
has all its rows, and its converse `RowsReal`, that a row is about an event that was committed, are the
invariants that span them. The refinement of `AtLeastOnce` comes in the same way, so the composition,
with all that can fail in the relay, makes no delivery that the promise does not allow.

*Tickets.* `Shape`: what a session knows of its row, that a lock has one holder, and that its holder's
copy is fresh. From states of that shape each commit is a ledger entry (a lemma per operation), and
the log determines the row (`Story`): updates cannot be lost because they are all in the log. What a
reader has seen so far is a prefix of something that only grows: `PageOK` says that the rows of a page
stay visible until they are counted, and `ViewOK` that the history, once loaded, tells every change of
the row loaded before it, and that of the comments and the history the second knows of as many comments
as the first, for which `CommentStory` (each comment has its history entry, with the same visibility) is
needed. More cannot be promised: a comment committed after the history was loaded and before the
comments were is shown without its entry, and in the other order an entry is listed without its comment.
For the displayed order, `Stamped` says that the times of entries and sessions are past and that no two
sessions start together, `Pending` that a change waiting for its commit, whose caller
really saw the version it quotes, began after all changes so far or is late already, and `Settled` that committed changes are in order; only the three together are
inductive.

*Linking.* `Facts`: what a session found is still true of the tables because it holds the lock under
which it looked. `Exclusive`: no two sessions hold conflicting locks. Codes stay ahead of those still
being issued, whose number is bounded by that of the sessions. `InOrder` says that what a session holds
ranks below what it waits for, so in any set of sessions the one whose next lock ranks highest waits for
nobody in the set; that there is a highest needs no induction, since there are five ranks. Effects
are counted as the cardinality of their places in the log, which grows by one place exactly
in the commit that writes the receipt. For the ledger one more invariant is needed, `Judged`: between
the judgement of a code and the commit, the user stays active and the code's row as it was, because the
session holds the lock of the user, which issuing, redeeming and deactivating all take.

*Accounts.* Of the processes between INSERT and commit no two have the same key and none has a key
that is taken; rows stand under lower-case keys. `Passed` says which accounts a seed has seen to.

Only model-checked is liveness, for which the prover has no `ENABLED`: `KeepsThePromiseInTime`,
`QueueDrains`, `DeliveryNeedsNoBroker`, `ConsumingGoesOn`, `EveryEventSettles`, `EveryUpdateAnswered`.

## What is left

1. `/new` and ticket requests in one model: today `TicketWorkflow` has `create_ticket` as one action
   and `TelegramLink` the creation as a lock and an effect, and no property needs both.
2. The guard of requests (token, `get_current_user`) with users whose activity changes.

## Not modelled

* Token expiry and `get_current_user` at each request: in `TicketWorkflow` activity is a constant,
  and login in `Accounts` reads it once. Password hashing and JWT are cryptography.
* `test_safety.py`, `main.py`, `config.py`, `db.py`: one-shot checks, middleware, settings, probes;
  they keep no state. The staff list and the dead-delivery list are one query each.
* DDL of the migrations: the models start from the rows they leave; a downgrade is refused by the
  code. `scripts/` checks the migrations and is no part of the program.
* The keys of advisory locks. Updates, chats and events are hashed into one space of numbers; the
  model gives each its own lock, so a collision, which makes strangers wait for each other, is
  not seen.
* A claim that finds every due row locked by others and returns none: it changes nothing, and the
  model has no step for it.
* Idempotency of comments and of HTTP creation: the code has none, a repeated call is another ticket.
* Texts, priorities, routing keys (each event type matches `ticket.*`), order and size of pages.
* PostgreSQL and RabbitMQ beyond transactions, locks, confirms and redelivery; clock skew between
  workers (the code compares one host's clock with what another wrote; the model has one clock).
