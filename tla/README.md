# Verification of the WhatsApp Business Suite backend

TLA+ models of the backend in `src/backend/app` and of its database migrations,
checked with TLC on small instances and, where it matters most, proved with
TLAPS for every value of the constants.  `PROJECT.json` lists the components,
runs, mutants, hazards, findings and theorems, and maps every definition to the
lines it models.

## 1. Inventory

The backend is a FastAPI application on PostgreSQL (SQLAlchemy async sessions,
READ COMMITTED, row-level security), a Celery worker and beat on Redis, and a
Redis used for rate limits and for the channel of the web sockets.  It is
multi-tenant: almost every table carries `company_id`.

| Component | State it keeps | Operations | Interacts with |
|---|---|---|---|
| tenant isolation (`core/database.py`, RLS migrations) | connection pool, `app.current_tenant` per transaction, policies | begin, `SET LOCAL`, statements, commit, rollback | every session |
| accounts and permissions (`services/auth_service.py`, `api/v1/users.py`, `api/v1/platform.py`) | users, roles, companies, tokens outside the server | register, sign in, refresh, reset, change, invite, deactivate, promote, impersonate, suspend | every request |
| rate limiter (`core/rate_limiter.py`, `core/middleware.py`) | sorted set per bucket in Redis | prune and count, add | every request |
| outbound messaging (`api/v1/conversations.py`, `tasks/messaging_tasks.py`, `services/whatsapp/cloud_api.py`) | message rows, Celery tasks, ids at the Cloud API | start a conversation, send, retry, status webhooks | broker, Cloud API, webhooks |
| inbound webhook and inbox (`api/v1/webhooks.py`, `services/conversation_service.py`) | contacts, conversations, messages, unread badge | handle a request of several messages; read, assign, close, reopen, delete | routing, automation (dispatch only) |
| agent routing (`services/routing_engine.py`) | agents, working hours, limits | choose an agent | inbox |
| broadcast campaigns (`services/campaign_service.py`, `tasks/campaign_tasks.py`) | campaign row, recipients, counters | send, pause, delete, execute in chunks | send tasks of messaging |
| contacts, tags and import (`services/contact_service.py`, `tasks/import_tasks.py`) | contacts, tags, links, custom fields and values | create, update, delete, bulk tag, change and delete, import in chunks | inbox, campaigns, deals |
| automation (`services/automation_service.py`, `tasks/automation_tasks.py`) | automations, actions, logs | edit; evaluate an event: conditions, actions, log | webhook, contacts |
| pipelines and deals (`services/pipeline_service.py`) | pipelines, stages, deals, activities | create, move, edit, delete | contacts |
| landing pages (`services/landing_page_service.py`) | pages with slug, status, two counters | create, edit, publish, delete, visit, convert | visitors without a tenant |
| chatbot flows (`services/chatbot_executor.py`, `services/chatbot_service.py`) | flows with nodes, edges and an execution count | edit, match, walk over the graph | conversations |
| subscriptions and invoices (`services/subscription_service.py`, `tasks/periodic_tasks.py`) | subscriptions, invoices, numbers | create, change, cancel, hourly check | payments |
| payments (`api/v1/payments.py`, `services/tap_payments.py`) | payments, invoice status, charges at Tap | charge, webhook | Tap, invoices |
| shipments (`services/shipment_service.py`, `tasks/shipping_tasks.py`) | shipment, tracking events, notices | book, update, refresh, notify | carrier, messages |
| retention and compliance (`tasks/retention_tasks.py`, `services/compliance_service.py`) | what it deletes, audit entries, grades | daily purge, two reports | contacts and conversations |
| realtime events (`websocket/manager.py`) | sockets of each process, Redis subscription | connect, subscribe, broadcast, prune | Redis, browsers |
| schema and migrations (`alembic/versions`) | tables, keys, policies, grants | upgrade, downgrade | all of the above |
| AI and language, other channels, analytics and export, audit log, content, web client, deployment | see section 6 | | |

What is hard in this code:

* **Deciding by what was read.**  Handlers read, decide, and write by primary
  key in a later statement or after a commit; what they read may be stale.
  Nearly all properties below are about this.
* **Dispatch against commit.**  `start_conversation`, `send_campaign` and a
  shipment's notice queue a task inside an open transaction; the worker may be
  faster than the commit, and the transaction may still roll back.
* **At-least-once delivery.**  Celery has `acks_late` and
  `reject_on_worker_lost`; Meta and Tap repeat webhooks and may reorder them.
* **Transaction-local tenant.**  `SET LOCAL` ends with the commit, sessions
  without it see nothing under row-level security.
* **Transactions that fail late.**  A row added to a session is refused at the
  next flush; the import, automation and retention tasks catch exceptions and
  go on, sometimes in a transaction that is already broken.
* **Waiting.**  Unique keys and row locks make requests wait for each other.

What makes the components correct: no handler under the policies writes another
company's rows or reads more of them than its published pages;
nothing new is issued to a deactivated user; a client exceeds its limit by no
more than its requests in flight; a message's status is earned at the Cloud API
and its outcome recorded; a webhook answered 200 has stored what it carried for a
company; a
campaign that says sent has nobody pending; a phone finds one contact, and a
clean import report is true; a log or a timeline tells what happened; a slug
leads to one page; a walk over a flow ends and visits what can be reached;
invoice numbers are distinct and no subscription lacks its invoice; an invoice
is paid only when a charge for it was captured, and no capture is answered
before; a purge deletes only what was
due and never what law keeps; an event reaches the sockets that were open, once;
a database has the policies and keys of the revision it claims.

## 2. Modules

| Module | Models | Composed in |
|---|---|---|
| `TenantIsolation` | abstract: a handler writes rows of its own company only, and reads those and published pages | `TenantContext` |
| `TenantContext` | pool, sessions, `SET LOCAL`, policies; implements `TenantIsolation` | `Requests` |
| `RateLimiter` | middleware and limiter for one client | `Requests` |
| `Accounts` | users, tokens, the handlers that issue and accept them | `Requests` |
| `Messaging` | handlers, send task, Cloud API, status webhooks | |
| `Campaign` | campaign handlers, `execute_campaign`, its send tasks | |
| `Routing` | the choice of `assign_conversation`, as operators | `Inbound` |
| `Inbound` | webhook handler and staff operations on the inbox | |
| `Subscriptions` | subscription requests, invoice numbers, hourly check | |
| `Payments` | `create_charge`, Tap, payment webhook | |
| `Contacts` | contacts, tags, custom fields, the CSV import | `Workspace` |
| `Automation` | the automation page, conditions, actions, the task and its retry | `Workspace` |
| `Deals` | pipelines, stages, deals, timeline | `Workspace` |
| `LandingPages` | pages of several companies and their visitors | `Workspace` |
| `Chatbots` | one flow, its editors and its executions | `Workspace` |
| `Shipments` | one shipment, staff, refreshes, notices | `Operations` |
| `Schema` | tables, foreign keys, tables under policies (data) | `Retention`, `Migrations` |
| `Retention` | the purge beside traffic, carried on by the keys of `Schema` | `Operations` |
| `Realtime` | pods, sockets, one Redis channel, the local fallback | `Operations` |
| `Migrations` | the nine revisions, up and down, in one transaction | `Operations` |
| `Compliance` | the grades and tiers of the two reports | `Operations` |
| `Requests` | composition: what a request meets before its handler | |
| `Workspace` | composition: the pages of a company's workspace | |
| `Operations` | composition: what runs beside the conversations | |
| `*Proofs` | theorems of `Requests`, `Messaging`, `Campaign`, `Inbound`, `Subscriptions`, `Payments`, `Workspace`, `Operations` | |
| `MC*` | instances for TLC | |

Correspondence.  A step of a model is a statement, or a group of statements
nothing else can interfere with: the SELECT a handler decides by, the flush
that takes a lock, the commit that makes rows visible, a call to another
system.  A variable that says `at` or `req` is the program counter of a handler
or task; what it has read and not yet written is kept with it (`exec[r].left`,
`hook[h].seen`, `edit[h]`, `act[h]`, `purge`, `walks[r]`).  Transactions are
READ COMMITTED: SELECTs read the committed variables, an UPDATE writes only the
columns the ORM found changed, and waits for a lock another transaction holds.
A failure is an action that drops what is uncommitted (`Abort`, `Rollback`,
`HookFail`, `TransactionFails`, `ExecRaises`, `ExecLost`, `WorkerLost`).  Variables marked *history* are read by
properties only.  Definitions whose comment starts with "Mutant:" are slips a
programmer could make; each is used to see that a property notices.

`Requests`, `Workspace` and `Operations` each compose several components that
share no variable in one state space: `part` is chosen in `Init` and says whose
behaviour it is, the others stay in an initial state.  What the parts
share of the database (a contact, its company) is left alone by the actions of
the others, so that interleaving them would add states and no behaviour.

Noteworthy choices:

* `Messaging`: one task per message and one more copy for each retry whose
  original was lost before its acknowledgement; ids of the Cloud API are
  numbered by the order of acceptance; an unknown wire status becomes `sent`.
  `RowSecurity` and `TokenReadable` are constants, because the first depends on
  the deployment's database role and the second is a defect of the code that
  would otherwise hide the rest (section 3).
* `Campaign`: a send task of a campaign parses the empty message id and does
  nothing; the model keeps that, so `called` stays 0.
* `Inbound`: `scene` is drawn in `Init` from `Scenes` and says which staff
  operations occur, how often Meta delivers, and whether handlers happen to run
  one at a time; some properties hold only in a part of the scenes and say so.
  `serial` of `Subscriptions` and `scene` of `Accounts` play the same role.
* `Messaging` and `Campaign`: any transaction of a task may raise.  The send
  task retries as after a refused call, also when the Cloud API has accepted the
  message; `execute_campaign` has no retry and is over.  `Erring` and `Faulty`
  say which messages meet which faults, so that properties about the others can
  be stated.
* `TenantContext`: the policies are alternatives, so a SELECT sees the tenant's
  rows and every published landing page (migration 7c2592f64503); a write needs
  the tenant.  `Exempt` are handlers whose database role is free of the policies,
  which platform sessions count on; nothing is claimed of what they reach, and
  where the role is not free they are sessions without a tenant.
* `Inbound`: a change to a number that no company has connected, or to none, is
  passed over (`Skip`) and the request still answers 200.
* `Payments`: `create_charge` passes no `post_url` and nothing asks Tap for a
  status, so a webhook may never come and no liveness is claimed; only charges in
  `Ordered` have every step posted.  `free` draws whether the role is free of the
  policies: if not, the webhook finds no payment and answers ok.
* `LandingPages` draws whether the application's role is free of
  the policies, `Automation` whether they show its task any row.
* `Contacts`: the import's session is modelled statement by statement, since
  what a refused row takes with it depends on when the session flushes; what
  follows a failed flush is lost while the counters go on.  A row of the file
  is only stored while a key of `Ids` is left (`RoomLeft`, a bound).  A bulk
  change of status or assignee and the import's update write by key into rows
  they read as live (`BulkEditCommit`, `ChunkDone`); the import's rows are locked
  from the flush to the commit.
* `Automation`: a log entry that goes with its automation is marked `gone`
  rather than cut out, so that what runs gave stays told.  A task's plan is all
  automations as it loaded them, those not active as `Absent`.
* `Chatbots`: the edges of a node in their order are a function of how many
  come before, and what can be reached is what lies in every closed set of nodes
  that has the first one: both say what the code's list and loop compute without
  a recursion.
* `Retention` applies the foreign keys of `Schema` to a deletion, so that what
  a purge takes along or leaves behind follows from the migration.  The settings
  of a tenant are read outside the try that isolates it: one that is no number
  ends the run (`GiveUp`).
* `Migrations` runs a command as one transaction over the revisions it takes,
  with a failure after any of them.  `MigrationsSound` reads the compliance
  page's check of the isolation as well, and says of each revision what the
  database is then, so that it cannot depend on the way there.
* `Realtime` counts: how often a socket is in the list of its user, and how
  often it was sent an event.  The order of the two lists says nothing more.
* `Campaign` tells lost workers apart by the task they ran, because each gives
  its own task, and no other, one more beginning.
* `Shipments`: `get_carrier` takes no key, so every carrier answers with the
  mock tracking; the model has that carrier and no other.
* `Chatbots`: nothing in the code calls the executor; its caller is assumed.

## 3. Runs

Deadlock is checked for `Messaging`, whose bounded system never stops because
staff can always change the configuration; the other systems legitimately stop
when their bounded requests are used up, and their cfg files say so.  A property
whose name ends in `Sound` is a conjunction of the named claims its module
comments one by one.

| Run | Instance | Shows |
|---|---|---|
| `requests` | tenants: 3 handlers of 2 companies on 2 connections, one of them free of the policies; limiter: 2 requests on 2 routes of one bucket, clock to 3; accounts: 2 handlers, 2 companies, 2 emails, 2 passwords, 4 requests, 2 days | `ScopedSeesOwn`; `IsolationHolds`, the refinement of `TenantIsolation`; `LimiterSound`: overshoot bounded, who is denied had a full window; `AccountsSound`: a deactivated user gets nothing new, an email signs in one user or nobody |
| `messaging` | one message of either kind, 1 retry, 1 fault (a lost worker or timeout of the one, a raising transaction of the other), one unknown wire status | `DuplicatesAreFaults`, `StatusNeverAhead`, `StatusMovesForward`, `TaskEnds` |
| `campaign` | 3 contacts, chunks of 2, a send, a pause, a delete, a lost worker, a task that raises | `SentSound`: nobody pending, counters match; `DispatchSound`: dispatches bounded, pause stops, sent is not sent again; `RunSettles` |
| `inbound` | 4 messages of 2 customers in 2 requests, one to a number of no company, 2 agents with limit 1, 4 scenes | `DeliveriesSound`: answered is stored, rejected can retry, a badge is shown; `RoutingSound`: one open conversation, load within limit; `HandAssignmentsStay`: what staff assigned stays; `RequestAnswered` |
| `subs` | create, change, cancel at period end, cancel now; 2 months | `InvoicesSound`: numbers sequential and distinct, none missing; `StatusSound`: past due is expired, cancelled stays; `Progress`: requests answered, expired handled |
| `pay` | 2 charges of 1 or 2 invoices, 2 webhook handlers, 2 failures or lost answers, with and without row-level security | `PaymentsSound`: paid was captured, rows earned, charges recorded; `PaymentAgrees`; `AnsweredIsPaid`: a capture is answered after its invoice is paid |
| `workspace` | contacts: 2 requests, 3 rows, 2 phones and a long one, 3 files in chunks of 2; automation: 2 events, 2 workers, 3 configurations, 1 lost worker; deals: 2 requests, 2 pipelines, 5 edits; pages: 2 companies, 2 slugs, 2 pages, 6 requests; flows: every graph over 5 edges, 2 executions | `ContactsSound`: a phone finds one contact, a clean report is true, into a deleted contact only those write who had read it before; `AutomationSound`: the log tells what was done, a retry repeats nothing; `TimelineTells`; `PagesSound`; `FlowsSound`: the walk is complete, the count honest |
| `operations` | shipments: 2 requests at a time, 5 in all, 1 lost worker; retention: 2 tenants, 2 runs, 2 changes, any tenant's settings unreadable; events: 2 pods, 2 companies, 2 sockets, 2 failures; migrations: 3 commands; compliance: all facts at the grades' borders | `ShipmentsSound`, `RetentionSound`, `EventsSound`, `MigrationsSound`, `ComplianceSound` |

Runs that find a violation, each against a sentence of the repository (quoted
under `findings`):

| Run | Violated | Because |
|---|---|---|
| `tenant_public` | `OwnRowsFound` | sessions without a tenant, or after their commit, see no row: payment webhook, conversion counter, automation task, dispatch of `send_message` |
| `messaging_token` | `SendOutcomeRecorded` | the task reads an attribute the model does not have, and every attempt raises |
| `campaign_uuid` | `SentWasCalled` | recipients are marked sent though their send task cannot parse its id |
| `subs_cancel` | `CancelTakesEffect` | nothing ends a subscription that cancels at the end of its period |

### What the code does where a property is restricted

The comment at a property says which restriction is needed; without it the
models reach the following, and so does the code.

* Inbox: handlers that run concurrently open two conversations, exceed an
  agent's limit, take over a conversation that was assigned by hand after they
  read it, lose an increment of the badge; the number of a deleted contact is rejected for ever.
* Messaging: where the outcome's transaction raises after the call was accepted,
  the retry sends another copy; on the last try the row says pending for ever.
* Campaigns: a task faster than its commit, or one that raises, leaves the
  campaign in sending; after
  a lost worker the counters are short; two send requests that both read the
  draft start two tasks over the same recipients.
* Subscriptions: a change that meets the check is marked past due; two requests
  at the turn of a month commit the same running number in different months.
* Payments: a capture that Tap does not post, or that the webhook may not see,
  leaves its invoice open for ever.  Webhooks of Tap that overtake each other leave an older status; a
  charge voided after its capture leaves its invoice paid.
* Limiter: count and add are two pipelines, so that requests in flight exceed
  the limit, though the class says "Atomically".
* Accounts: concurrent registrations, or an invitation, give an email to two
  companies, and login then fails for both; a reset token works more than once;
  the audit entries of failed logins and password changes are rolled back by
  `get_db` with the exception that follows them.
* Import: a flush that fails in the middle of a chunk loses the chunk while the
  counters count it.  Bulk edits and imports write into a contact deleted since
  they read it.  A custom field with values cannot be deleted.
* Automation: a lost worker's task repeats what was committed.  `auto_reply`
  stores a pending message that nothing sends.
* Deals: a stage of another pipeline is accepted, which puts the deal on no
  board.
* Flows: overlapping executions lose increments of the count; a tag that is
  already attached aborts an execution; delay and condition nodes do nothing.
* Shipments: overlapping refreshes insert the carrier's events twice, after
  which every refresh fails; each refresh sets the status back to what the
  carrier lists first; a notice may leave for an update that is rolled back.
* Retention: a message that reopens a conversation between selection and
  deletion is deleted with it; purging a soft-deleted contact takes open
  conversations along; an audit entry states the counts of the whole run.  One
  tenant's setting that is no number ends each run with the tenants after it
  untried, though the docstring says one tenant's failure does not poison the
  others.
* Events: a process that cannot subscribe when it starts never does.
* Migrations: the key of invoice numbers cannot be taken back while two
  companies share a number; taking back the grants revokes what `init.sql`
  granted.  Compliance: the region `me-central` is compliant in one report and
  a warning in the other.

### Bounds

* `messaging`: `MaxMessages = 1`.  Messages share nothing but the company's
  configuration, so two in one behaviour multiply states without a new
  interference; which of the two is created is open.  One retry and one fault
  make two copies of a task and two ids, which is what a stale webhook, a
  duplicate and a lost acknowledgement need.
* `campaign`: three contacts in chunks of two give a full and a partial chunk,
  and a pause or a lost worker before, in and between them.  Two send requests
  were checked with one contact (2.3 million states); the properties
  restricted by `SingleTask` are restricted because of it.
* `inbound`: two requests, the first with two messages, are the smallest in
  which two handlers meet at a contact, at a conversation and at an agent, and
  a failure can fall between the messages of a request.
* `subs`: one request of each kind, since two of a kind meet at the invoice
  number only, which a creation and a change do as well; the second month is
  what numbers need.  `pay`: two charges and two handlers, so that two webhooks
  of one charge, and of two charges of one invoice, overlap.
* `requests`: limits of 1 and 2 and a clock that passes the window once; two
  days and four requests are enough to register, sign in, deactivate and use
  any outstanding token, in every order.
* `workspace`: two concurrent requests and one row, deal or slug to meet at;
  three rows so that a create, an import and a deletion each have their own;
  files whose first chunk repeats a phone, misses one and has one too long;
  configurations in which actions wait in the session, raise, or are unknown;
  graphs over three nodes with a cycle, a join and an edge to a removed node.
* `operations`: two overlapping refreshes and an update in between; two tenants
  so that one may fail and the other must be tried; two pods so that an event
  has to cross Redis; three commands to go up, down and up again; opt-in rates
  just below and above each border.
* Symmetry is used in `requests`, `workspace` and `operations`, which check
  safety only.  Its sets are interchangeable in all parts.

### Fairness

Weak fairness of workers and handlers (`WorkerStep`, `ExecStep`, `Handle`): the event loop and the Celery workers run what can
run.  It is never assumed of clients, customers, staff, Meta or Tap's own
progress, nor of faults.  `Subscriptions` asks strong fairness of `CheckCommit`:
the beat starts the check every hour, a failure leaves the rows to the next
hour, and it does not fail every time; a row lock is released and taken again
meanwhile.  A lost worker, or a task that raises, ends what `RunSettles`
promises, and the property says so.  `Payments` has no fairness: nothing obliges
Tap to post.

## 4. Proofs

| Theorem | States |
|---|---|
| `RequestsProofs!TypeCorrect`, `TenantsIsolated`, `ScopedReachesOwn`, `ImplementsIsolation` | types; no handler under the policies writes foreign rows or reads more than published pages; scoped sessions see their own; the refinement |
| `RequestsProofs!LimiterTyped`, `Overshoot`, `Denials`, `LimitsHold` | types; the limit is exceeded by no more than the other requests in flight; who is denied had a full window; both, in the composition |
| `RequestsProofs!AccountsTyped`, `Deactivation`, `Emailed`, `AccountsHold`, `TypesOfParts` | types; nothing new for a deactivated user; an email signs in one user or nobody; both, and the types of limiter and accounts, in the composition |
| `MessagingProofs!TypeCorrect`, `DuplicatesBounded`, `StatusEarned`, `StatusForward` | types; copies bounded by faults; a status is earned; with webhooks in order and no fault it only moves forward |
| `CampaignProofs!TypeCorrect`, `SentProcessed`, `NotResent`, `DispatchCorrect`, `SentCorrect` | types; sent means nobody pending; sent is not dispatched again; dispatches bounded by beginnings, and after a pause by the chunks; the counts of a campaign that is sent |
| `InboundProofs!TypeCorrect`, `DeliveriesCorrect`, `RoutingCorrect`, `HandAssignments` | types; answered is stored, rejected can retry, unseen has a badge; one open conversation and load within the limit, handlers one at a time; what staff assigned stays, with any handlers beside each other |
| `SubscriptionsProofs!TypeCorrect`, `DistinctNumbers`, `SequentialInAMonth`, `InvoiceWithSubscription`, `InvoicesCorrect`, `StatusesCorrect` | types; distinct numbers; no gap until the month turns; no subscription without invoice; the three together; past due has expired and cancelled stays, requests one at a time |
| `PaymentsProofs!TypeCorrect`, `InvoicesEarned`, `RowsEarned`, `CapturedRecorded`, `PaymentsCorrect`, `LastStatusKept`, `AnswersCorrect` | types; an invoice is paid, and a payment captured or refunded, only if Tap did it; no captured charge without a row; the three together; ordered webhooks leave Tap's last status; no capture is answered before its invoice is paid |
| `WorkspaceProofs!ContactsHold`, `AutomationHolds`, `TimelineHolds`, `PagesHold`, `FlowsHold`, `PartsAreTyped` | what the run `workspace` checks of each of the five parts |
| `OperationsProofs!ShipmentsHold`, `RetentionHolds`, `ComplianceHolds`, `EventsHold`, `MigrationsHold`, `PartsAreTyped` | what the run `operations` checks of each of the five parts |

They hold for all sets of handlers, messages, requests, charges, users, agents,
contacts, files, automations, deals, pages, flows, tenants, pods, sockets and
all bounds, under the named assumptions of each module and nothing else: null is
no value; bounds and limits are naturals; requests, contacts and workers are
finite sets where something is counted over them (`Sizes`, `SendsFinite`,
`ContactsFinite`, `RequestsFinite`, `FewWorkers`); a refresh token lives at
least as long as the others, as the settings have it (`Lives`); ordered webhooks
are of messages (`OrderedAreMessages`); the status "none" is no carrier's
(`StatusesReal`); who opted in is a contact (`OptInsFit`); keys of contacts are
finitely many positive numbers, of which the next is the least free one
(`KeysFit`); a row of a file is a phone or empty (`FilesFit`); an automation has
one place in the order (`OrderFits`); a flow is a list of nodes and a list of
edges, which may repeat a node or lead to none (`DrawingsFit`). TLC evaluates
them in each run.

The claims that TLC checks for all parts of a composition are proved of each
part, by an invariant of its own, and carried over: a behaviour of `Requests`,
`Workspace` or `Operations` is a behaviour of each part (`IsShipments` and its
like).  The
invariants:

* **TenantContext.**  A connection carries a tenant only while a handler of
  that tenant has it, and two handlers never have one connection; hence what
  the tenants' policy shows is the handler's own or nothing, and all else it reads
  is a page published at that moment.  Without the first part the
  claim is not inductive: a free connection with a leftover setting would be
  handed to the next session.
* **Messaging.**  The number of ids a message has is bounded through the
  copies of its task: each attempt that may still call is paid for by a retry,
  a fault or the original.  For statuses, every webhook in flight, every update
  between its select and its commit, and every task that has seen a success
  names a status some id has reached; and ids only move forward.  For a message
  without a fault, `Alone` says how far its only task is when it has an id or its
  row does, and `InTurn` ranks what the row has, what a handler is about to write
  and what is still in flight, in this order.
* **Campaign.**  A run hands its recipients on from one set to the next and the
  sets are disjoint (`Tidy`).  The only task (`SingleInv`) knows that what it
  holds is not yet marked and that nothing pending is missing from what it
  holds; so a final `sent` leaves nobody pending, and a chunk, also of a task
  that starts again after its worker was lost, holds nothing marked `sent`.
  The bound on dispatches counts, for each recipient, the runs that may still
  dispatch it (`OpenInv`); the bound after a pause counts what running tasks
  still hold of their chunks, mapped one to one into a chunk for each
  (`LateInv`).  `CountInv` says what the counters are while the task runs.
* **Inbound.**  `Stands`: what a handler has behind it in its payload is stored.
  `Knows`, for one handler at a time: nobody else opened, assigned or reopened
  what its choice rests on.  `HandInv`: a handler that is about to
  write an agent into a conversation read it as unassigned and holds its row, and
  since then nobody's assignment has counted as made by hand (`hand`).  `LengthInv` counts the conversations handlers are
  about to open; `BadgeInv` keeps what a reader has loaded below what there is.
* **Subscriptions.**  `KeyInv`: an inserted, uncommitted invoice has a number
  no committed and no other inserted invoice has; the wait of `InsertInvoice`
  preserves it.  `SeqInv`: in the first month a computed number is at most one
  ahead of the committed invoices and all are of that month; with `KeyInv` an
  inserted number is exactly the next.  `StatusesCorrect` needs `AloneInv`: where
  requests come one at a time, a row that was read as active is active until its
  reader is done; without it a late commit could overwrite a cancellation.
* **Payments.**  Every webhook to be delivered and every handler at work
  carries a status Tap really gave (`HookInv`, `Genuine`).  For a charge with
  ordered webhooks it is the status Tap has now, and when nothing is on its way
  the row has it (`Agrees`).  A handler that has committed a capture and not answered
  has paid its invoice, and a paid invoice stays paid, which `AnsweredIsPaid`
  rests on.
* **RateLimiter.**  What was let through and can still be in a window is in its
  bucket (`ZsetInv`).  The overshoot is not inductive by itself: `PlacesInv`
  keeps, for each request that was counted and is not yet added, a place within
  the bound, and an addition uses its own.
* **Accounts.**  What a handler has read was so when it began, and a user it
  read as active was deactivated after that if at all (`ReadInv`); tokens are
  of users there are (`TokenInv`).  For emails, one handler at a time keeps
  what a registration has looked up unknown until it commits (`AloneInv`).
* **Contacts.**  Each phone is in one row, deleted and uncommitted ones included
  (`OnePhone`), because the key is checked at every write.  Of live rows alone
  this would not be inductive: an import's commit makes its rows live.
  `LeftAlone` says step by step that a row comes under somebody's hand only while
  it is live.  `Counted` says of an import without errors that what it created is stored,
  uncommitted, or the one row its session still holds.
* **Automation.**  A run has in hand what its own entries and the action it is
  at gave (`RunFits`), so the score is what committed entries gave
  (`ScoreTold`).  The count a run writes was loaded before: unless the
  automation is deleted since, it claims no more than is logged by now
  (`PlanStands`), hence neither does what is written (`CountsTold`).  An event
  runs once when its task ends and once more per lost worker (`RanOnce`),
  because one worker has it at a time (`OneEach`) and only while the broker does
  (`Queued`).  Entries are counted as sets of indices, so that a log that grows
  is a disjoint union.
* **Deals.**  An update only keeps what its request says (`EditsFit`);
  `LastWord` shows that the last entry on a field after a commit is one it
  appended or the last one before.
* **LandingPages.**  The unique key is checked at the write, whatever the
  look-up saw (`SlugsApart`); a visit that is to write a count has been served
  (`VisitsServed`).
* **Chatbots.**  A walk has run each node it visited that is there, what it has
  seen is reached from the first node, and every edge of a node it ran leads to
  what it has seen (`Running`); with an empty queue the nodes it ran are closed,
  hence all that can be reached.  The count each walk read is not ahead of what
  has committed (`CountsFit`).
* **Shipments.**  The first event is the carrier's creation (`FirstIsCreated`);
  the status is one of the history (`StatusListed`); a refresh that runs alone
  finds missing what is missing (`RefreshAlone`); the notices staff asked for
  are an allowance that tellings, losses and undone updates use up.
* **Retention.**  Conversations are selected because they were due or because
  the contact they hang on was (`ChosenDue`), what a run has taken is gone with
  all that hangs on it, by every key of `Schema` (`GoneWhole`), and a tenant is
  done, failed, in hand or still ahead (`NoneForgotten`), never both tried and
  ahead (`TriedInv`): so a run that answers ok has tried all, and one that stops
  at unreadable settings has left that tenant out.  Which table goes with
  which is a lemma over the forty-one tables.
* **Realtime.**  An event is read once by each pod (`OneReading`), and for a
  socket exactly one of these holds: it has it, it is in the queue of its pod, a
  task still has the socket ahead (`Tally` adds them up); what a socket is owed
  is in one of the last two or has arrived (`Awaited`).
* **Migrations.**  A database of a revision has what `Fits` says, and part of
  the way through the first revision it has a prefix of the list of tables
  (`There`, `First`).  Each prefix stands by itself, because every table is
  listed after those it references: a lemma over the list.
* **Compliance.**  The fold over the checks is the worst of them (`Among`);
  the page holds what the facts give (`PageInv`).

Every safety invariant and action property of a passing run is stated by a
theorem. Only checked with TLC are the liveness properties (`RunSettles`,
`RequestAnswered`, `TaskEnds`, `Progress`): TLAPS proves
neither properties under fairness nor `ENABLED`. The runs that find a violation
have no theorem.

## 5. Abstract and detailed

`TenantIsolation` is the promise of row-level security: each step of a handler
writes rows of its own company or none, reads those and the pages published at
that moment, and only a company publishes its page or takes it back.  `TenantContext` implements it with a
pool, a setting that is local to a transaction, and policies that compare it;
the mapping takes what a session's statement reaches.  It is checked as a
property of `requests` and proved by `ImplementsIsolation`.

## 6. Not modelled

* **AI and language** (`services/ai`): word lists, scores and regular
  expressions over text; the state is none, the results are data.
* **Other channels and catalog**: adapters that translate payloads; the
  Instagram webhook logs what it receives and changes nothing.
* **Analytics, platform listings and export**: read-only queries.
* **Audit log**: one row for each call, in the transaction of its caller; where
  that matters (`Accounts`, `Retention`) the entries are in the caller's module.
* **Content** (templates, surveys, glossary, media, QR codes): create, read,
  update and delete of single rows without a decision that another request
  could make stale.
* **Web client and deployment**: pages and tokens in a browser, containers and
  proxies.  Each request of the client is an input of a handler; what
  `init.sql` grants is in `Migrations`.

Within the modelled components: formatting, payloads, prices and card data;
signatures of webhooks; headers; round-robin, team and queue routing,
`send_to_user`, the bus of `core/events.py`, refunds and the Aramex calls, which
no caller reaches; permissions, which no handler checks; API keys, which have a
table and no operation; reads that change nothing.
