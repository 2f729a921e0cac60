# Sales OS in TLA+

TLA+ models of this repository's sales backend (`src/app`, FastAPI, SQLAlchemy,
LangGraph), model-checked with TLC on small instances; what is safe in them, but for
liveness, is also proved with TLAPS for every instance.

The backend runs a sales conversation per customer: messages arrive by mail,
WhatsApp and the website and become runs of a sales graph; the graph qualifies,
prices, quotes, negotiates and hands an order over; reminders are sent; staff
work in a CRM; an assistant ("Jarvis") proposes business actions that a policy
engine or a human has to allow; master data is uploaded as files. What it must
get right is what is done *once*, what is done *only with permission*, what must
*not* be done any more, and what may be *relied on* when it is read. All of it is
kept by rows of one database that several coroutines, workers and processes read
and write in short transactions, with calls to a provider or a language model
between them. So the models have one action per transaction, statement or
external call, and anything may happen between two of them: another request,
another worker, a human answer, a crash, a timeout.

## 1. The system

### Components

| Component (under `app/`) | State it keeps | Operations | Interacts with |
|---|---|---|---|
| Idempotency (`idempotency/service.py`) | `processed_events`: one claim per (endpoint, key), its stored response | claim (with takeover of a stale claim), complete, fail | tools, ingestion, CRM, Jarvis, uploads |
| AI action ledger (`ai_actions/`) | `ai_action_requests`: status, facts, decision, attempts | propose, record evaluation, begin execution, begin revalidation, finish | tool executor, authority engine |
| Authority engine (`authority/`) | settings and policy versions, principals, scopes, decisions, approval requests | initialise, evaluate, preview, answer an approval, change settings, policy, principal, scope | ledger, administrators |
| Controlled business tools (`business_tools/`) | `ai_tool_executions` | execute, resume; one handler per tool | ledger, authority, idempotency, CRM tables |
| Jarvis (`jarvis/`) | `jarvis_runs`, messages | run: plan, call tools in order, answer | language model, tool executor |
| Channel jobs (`channels/jobs.py`) | `channel_inbound_jobs` | enqueue, claim, settle, recover, worker loop | adapters, ingestion |
| Channel ingestion (`channels/service.py`, `website.py`) | `channel_ingestions`, conversations | ingest one provider event | idempotency, customers, sales graph |
| Channel adapters (`channels/email_adapter.py`, `whatsapp.py`, `outbound.py`) | mailbox cursor, delivery attempts | poll, webhook, send | providers, channel jobs |
| Follow-ups (`followups/`) | `followup_jobs`, `follow_up_records` | schedule, cancel, operator cancel and retry, reconcile, claim, settle | sales graph, CRM, ingestion |
| Sales graph (`graph2.py`), agents (`agents/`) | LangGraph checkpoint of a thread; quotation, order and handoff rows | stages from inquiry to handoff; rules of score, stock, date, price, counteroffer, purchase order | all business tables, providers, language model |
| Customers (`customers/`) | customers, identities, match reviews | resolve identity, review, merge, 360 view | ingestion, CRM, every row with a customer |
| Customer memory (`sales_context/`) | `customer_notes`, `memory_outbox` | add note, project notes to the vector store | Qdrant, tools, merge |
| CRM (`crm/`) | sessions, members, leads, assignments, account owners, tasks | log in, assign, assign automatically, close, reopen, tasks, members | follow-ups, sales graph |
| Structured documents, documents (`structured_documents/`, `documents/`) | `business_documents`, rows of master data, vectors | upload: parse, import, replace, index | everything that reads prices, stock or history |
| Pipeline snapshot, product resolution, events, dashboard, migrations | snapshots, event log | persist, match, append, report | read by the rest |

`PROJECT.json` lists them all with what is modelled of each, and why not where
nothing is.

### What is hard

* **Takeover.** Claims older than 900 s, jobs and outbox rows older than 300 s are
  given to somebody else; nothing stops the previous owner, which may still be
  waiting for a provider or a model and writes its outcome later.
* **Unconditional outcomes.** `complete_request`, `fail_request`, the settling
  updates of channel jobs, `_mark_retry` and `_mark_dead` write whatever the row
  says by then.
* **Several transactions per operation.** A tool call is up to nine
  transactions, an upload three; a crash between any two must neither repeat the
  effect nor let it happen without permission, nor answer what is not so.
* **Reads without locks.** PostgreSQL runs these transactions at READ COMMITTED:
  each statement sees what was committed when it started. Evaluations, identity
  resolution, automatic assignment, imports, mailbox cursors and the expiry of an
  approval read without a lock and write by what they read; an UPDATE of the ORM
  names only the columns that differ from what was read.
* **Humans at any time.** Approvals are answered, policies changed, grants
  revoked, customers merged, leads closed and jobs retried while requests are on
  their way.
* **Recovery only at start.** Workers recover stale jobs once, when they start.
* **Checkpoints that are overwritten.** Two runs of a thread each write the whole
  state; the last one wins.
* **Thresholds and rounding.** Five agents hand each other scores, stock, dates and
  rounded prices, each with limits of its own.

The `hazards` of `PROJECT.json` give each of these at its line.

### What makes each component correct

| Component | Correctness |
|---|---|
| Ledger, tools, idempotency | a mutation is committed at most once; only with a policy ALLOW or a human approval for the very facts and versions recorded; never after a refusal; a replayed answer is true; human answers stand, and final statuses but for the EXPIRED a late answer writes over them; no action hangs |
| Authority | nothing is asked of or approved by a human that the rules do not leave to one; an approval serves once; no version is overwritten unseen; a revoked principal is powerless; tighter settings never allow more; the preview promises nothing the engine refuses |
| Jarvis | an answer tells all calls and their results; a command acts once; every run ends |
| Channels | the webhook loses no message, and the mailbox cursor none, unless two pollers tear it over a mailbox made anew; a provider event starts the sales graph at most once; success is reported only for a run that answered; what arrives is finally handled |
| Follow-ups | "completed" means sent; a run that starts after the customer's reply or after the reminder was recorded sends nothing; two workers send the same reminder together only after a recovery; every job settles |
| Sales graph, endpoints, agents | its documents agree; stock is not oversold; no quotation, revised price or order leaves without the approval it needs; a lost lead is not won by a later event; better inquiries are not treated worse; no price below the quotation is conceded; an order that repeats the first quotation is accepted, one at a revised price only within half a percent of it |
| Customers, notes | reviews and customers agree; a merge takes all and loses no contact; a note is found under its customer; every note is projected or dead |
| CRM | one open assignment per lead, the owner's; no assignment or task edit is lost or made twice |
| Uploads | rows in effect belong to a document in effect; two files feed one table only when imported side by side; an answer of success is true |

## 2. The modules

| Module | Models | Kind |
|---|---|---|
| `AIActionLedger` | tools, ledger, authority decisions and approvals, tool-call claims | component, detailed |
| `AuthorisedEffect` | what the ledger promises about one mutation | abstract specification |
| `ChannelJobs` | channel jobs, workers, website requests, ingestion, ingestion claims | component |
| `ChannelIntake` | e-mail pollers with their cursor, WhatsApp webhooks | component |
| `ChannelFlow` | `ChannelIntake` in front of `ChannelJobs` | composition |
| `FollowUpJobs` | reminders: scheduling, workers, graph branch, operators, replies | component |
| `SalesPipeline` | one conversation: all nodes and routes of the sales graph, the endpoints that run it, close and reopen of the lead | component |
| `SoundDeal` | what the graph promises about a conversation: quoted, cleared, held, confirmed, handed off | abstract specification |
| `LeadRules`, `DealRules` | the agents' arithmetic: profile, score, match, stock, date; price, quotation, counteroffer, revised draft, purchase order | operators |
| `AuthorityRules` | default policies, `evaluate_policy`, the older preview | operators |
| `DealCases`, `PolicyCases` | any inquiry or deal, any judged action, and what is relied on for it | properties of the rules |
| `AuthorityControl` | settings, policies, principal, scopes, evaluations, approvals | component over `AuthorityRules` |
| `CustomerRecords` | identity resolution, match reviews, merge, contacts edited by staff | component |
| `MemoryOutbox` | notes and their projection | composition over `CustomerRecords` |
| `CRMDesk` | sessions, members, leads, assignments, account owners, tasks, their claims | component |
| `JarvisRuns` | commands, runs, calls, messages | component |
| `BackOffice` | the desk and Jarvis, which share the table of claims | composition of `CRMDesk` and `JarvisRuns` |
| `StructuredDocuments` | uploads: claim, import, replacement, vectors | component |
| `Administration_proofs` | theorems of what administrators lay down: `AuthorityControl`, `PolicyCases`, `StructuredDocuments` | proofs |
| other `*_proofs` | theorems of the module they are named after and of the components it composes | proofs |
| `MC*` | instances for TLC: values, policies, parts | model checking |

In every component an actor (request, worker, evaluation, upload) is a record
with a `pc`: the name of the transaction, statement or external call it runs next,
plus the local variables that survive from one to the next. A step reads and
writes the database variables in one go, as the code's transaction does, and moves
`pc`. A failing step goes where the code catches the exception; a crash forgets
the actor. Provider calls and language model calls are steps with every outcome.

Assumed of the environment: a transaction that takes a row lock (`with_for_update`)
before it reads is one step, as on PostgreSQL, the database of
`docker-compose.yml`; one that reads without a lock and then writes is split into
its reads and its commit wherever a property depends on it. SQLite, which the
tests use, ignores the clause. Time is abstracted: a claim or job that is taken
*may* become old, an approval *may* lapse, a pending job *may* be due.

### AIActionLedger

| State | Code |
|---|---|
| `status`, `attempts`, `basis` | `ai_action_requests`: status, `execution_attempt_count`, and the decision with facts hash, versions and approval it records |
| `approval`, `overdue` | `authority_approval_requests` and whether `expires_at` is past |
| `expiring` | approvals a late answer holds locked, between its read of the action and its commit |
| `overwritten` | history: actions whose EXPIRED was written over another status |
| `claim` | `processed_events` of the call; "executed" and "declined" are the two kinds of stored response |
| `execution` | `ai_tool_executions.status` |
| `effects`, `effectData` | how often the handler's transaction committed, and on which master data |
| `data`, `version`, `granted` | master data, policy and settings version, the principal's standing |
| `req` | coroutines inside `execute` or `resume` |

A mutating `execute` is `StartExecute` (claim), `Propose`, `CreateExecution`,
`BuildFacts`, `EvaluateAction`, `RecordEvaluation`, `BeginExecution`,
`HandlerCommits`, `FinishExecution`, `Finish`, `CompleteRequest`; a read-only one
takes `AllowRead` for the evaluation. `resume` starts with `StartResume` and
`BeginRevalidation` and joins them. `EvaluateAction` consumes a matching
APPROVED approval, applies the policy, or opens a new approval, in one
transaction as `evaluate_action` and `_persist_decision` do. The exception paths
are `StepFails`, `FinishFailed`, `FailRequest`. The environment answers
approvals, lets them lapse, lets claims go stale, changes master data, policies
and grants. An answer in time locks the action and is one step
(`ResolveApproval`). One that comes too late reads the action without a lock and
writes EXPIRED when it commits, whatever the action is by then: `ResolveTooLate`,
then `CommitExpiry` or `ExpiryFails`. The approval's row is locked throughout, so
nobody else answers it meanwhile.

The policy is a constant, `Verdict`, from master data and version to an outcome:
the proofs hold for every policy, TLC is given two; what a policy says of which
facts is `AuthorityRules`. Request bodies are equal under one key, so the conflict
answer of `claim_request` does not occur here (it does in `StructuredDocuments`).

`Promise == INSTANCE AuthorisedEffect WITH phase <- ..., count <- effects` is the
refinement: a mutation is `open`, then `authorised` (its attempt count is 1) or
`closed` (a final status without an attempt), for ever; only an authorised one
is carried out, once.

### ChannelIntake, ChannelJobs, ChannelFlow

`mailbox` is the folder with its UIDs, `validity` its UIDVALIDITY, `cursor` the row
of `channel_cursors`. A poll reads the cursor and the folder (`poller[p].last`,
`batch`) and then, message by message, enqueues (`QueueMail`), reads the cursor's row
again without a lock (`LoadCursor`) and writes it (`CommitCursor`); a renumbered mailbox
starts again from zero. The write names only the columns that differ from what was read
(`Updated`), so two pollers may leave a cursor neither has written as a whole; `torn`
notes it. `webhook[h]` is a provider's payload, whose messages are
enqueued one by one and which is accepted last. An event is a message, or, when it
has no Message-ID, its UID with its UIDVALIDITY.

`job` is `channel_inbound_jobs`, `claim` the `processed_events` row of
`/channels/ingest`, `ingestion` the `channel_ingestions` row. `runs` counts
starts of the graph and `answered` holds the events of runs that returned
without an error; both are history. `task` holds the workers and the website
requests inside `ingest`. `StartWorker` recovers stale jobs; `ClaimJob`, then the
steps of `ingest` (`ClaimRequest`, `FindThread`, `InsertIngestion`, `InvokeGraph`,
`GraphReturns`, `FinishIngestion`, `CompleteClaim`), then `CompleteJob`, or on an
exception `FailIngestion`, `FailClaim`, `SettleJob` as far as they apply
(`CaughtAt`). Event keys differ between channels, so mail and WhatsApp events
(`JobEvents`) only come through jobs, website submissions (`WebEvents`) only through
requests. `ChannelFlow` makes the `Enqueue` of `ChannelJobs` the step in which the
poller or the webhook adds to `queued`; its jobs are made of exactly the events the
intake can deliver (`FlowAssumption`).

### FollowUpJobs

One quotation, its thread and its reminders. `job` is `followup_jobs`, `record`
the attempts with a `follow_up_records` row, `quotation` its status, `replied`
whether an incoming interaction is newer than `sent_at`, `thread` the checkpoint,
`lead` whether the lead is won or closed lost, and `unwritten` the commits of the
CRM and of the order whose checkpoint update is still to come.
`sends` counts reminders the provider took and `recovered` the jobs a starting
worker took away; both are history. A worker runs `StartWorker`, `Reconcile`,
`ClaimDueJob`, `LoadState`, `CheckEligibility`, `SendReminder`, `RecordReminder`,
`MarkCompleted`, `RecordEvent`; or `MarkCancelled`, `MarkDead`, `MarkRetry`.
Around it are `SendQuotation`, `ScheduleFollowups`, `Reply`, `GraphCancels`,
`OrderWon`, `CloseLost`, `ReopenLead`, each followed by its `UpdateCheckpoint`
where it has one, and the operator's `CancelJob` and `RetryJob`.

`worker[w].late` notes, when a job is claimed, whether its reminder had already
become pointless. `Init` includes quotations sent before jobs existed, for which
`reconcile` creates them, possibly on a thread without a checkpoint.
`RecordReminder` may also put a won or lost thread back to open, because the last
writer of a checkpoint wins. Revised quotations are new quotations with jobs of
their own and are not modelled; the opt-out flags the eligibility check reads are
written nowhere in the code.

### SalesPipeline

| State | Code |
|---|---|
| `checkpoint` | the thread's LangGraph state: status, pending approval stage, price, quotation, offered price, purchase order, last counteroffer |
| `task` | runs of the graph: the node it is at, its own copy of the state, and the stage and item a human approved |
| `quotes`, `revised` | quotations with their delivery attempt, and `quotation_versions` |
| `purchases`, `orders`, `reserved` | `purchase_orders` with verdict, `sales_orders`, `inventory_reservations` |
| `handoffs` | `handoff_records`: how many departments were told, and whether that is marked |
| `lead`, `closed`, `crm` | the lead, and a CRM request between its commit and its checkpoint update |

`ProcessInquiry`, `ProcessPipelineEvent`, `RetryPipelinePricing`,
`ApprovePipelineStage`, `ApproveInCRM` (the CRM's endpoint, which lets a role approve
only its stages, `RoleStages`), `ContinueConversation` (a channel message) and
`ProcessOne` (a reminder the follow-up worker sends through the graph) are the
ways a run starts; each reads the checkpoint for its guard and only later, in `Invoke`,
loads it into the run. Then there is one action per node, named after it, which
also takes the route the graph takes from there. Three nodes are split because
their transactions are: the quotation's delivery is marked before it is sent and
the outcome stored after (`DispatchQuotation`, `SendQuotation`), a reservation
looks for an earlier one before it locks the rows (`ReserveInventory`,
`AllocateRows`), and a handoff stores all its records, sends its messages one by one
and marks the records in a last transaction (`DispatchHandoff`, `NotifyDepartment`,
`MarkDepartments`). Every node may fail, before or after its own commit (`Fails`), and
a run may be cut anywhere (`Abandon`). The result of a node is the run's
checkpoint, so the last of two runs wins.

Prices are numbers. `Decision` compares a counteroffer with the current price, the
floor and the automatic limit as `evaluate_counteroffer` does, credit included;
`Verdicts` says when a purchase order agrees with the quotation as first stored;
`RevalidateOrderState` lets a price pass that is the same or changed by half a percent
at most (`Immaterial`, with the pairs of such prices in `Near`).
Whether an invoice is large, a requirement needs review or credit is exceeded is
free. The floor is not above any price, because `ComputePricing` discounts none below it
(`DealRules`). One product, one quantity. Statuses that no guard tells apart are merged,
as the head of the module says.

`disturbed` marks a conversation on which two requests have overlapped, or in which a
CRM request was cut before its checkpoint update. Nothing in the code keeps two
requests of a thread apart (each endpoint's claim is per idempotency key), and what
overlaps may undo a checkpoint: an approval in flight twice confirms a purchase
order twice. So what depends on the checkpoint (approvals, lost leads) is stated
for undisturbed conversations, and what the rows and locks guarantee (the
documents, the stock, the quantity reserved) for all.

`SoundDeal` is the promise without nodes, checkpoints and requests: prices are quoted
with the approval they need; a purchase order becomes cleared (its comparison or a human
accepted it, and its credit), held, ordered and handed off, each once and in this order,
and nothing moves while the conversation is lost. `Deal` maps the pipeline to it:
`QuotedPrices` from `quotes`, `PurchaseDeals` from `purchases`, `reserved`, `orders` and
the handoffs that are marked, `LostThreads` from `closed`. A clearance may be
withdrawn (a second comparison, a credit check) until stock is held and never after. A
disturbed conversation is `loose`: mapped to nothing, and nothing is promised of it.

### LeadRules, DealRules, AuthorityRules

Operators without state, one per agent or evaluator, with the order of the code's
checks. Money is in hundredths (lakh for the customer's history), percentages in the
unit the code rounds to, a priced quantity in thousandths of its unit, and every
rounding of the code is a rounding of the model (`Round`; `Times` for an amount times a
quantity). Half a unit is rounded up, where Python's floats round to even or by their
binary expansion. What a language model or a search returns is an input.

The models keep what the code does where one might expect something else: an
unparseable quantity counts as zero; a unit that differs is only flagged; open
quotations lower the win rate; partial stock without any capacity is promised with a
lead time of nothing and no review; a capacity exceeded more than twice makes the
feasibility "MEDIUM" and asks no human, although the head of
`08_feasiblity.py:17` lists it among the triggers of a review; a purchase order that
names no price, quantity or total is no mismatch; a quotation of quantity zero makes
the comparison raise. The concession a salesperson may make without asking is never
left over for a counteroffer, because the first quotation already grants it
(`NothingBelowTheQuote`, `NothingBelowTheQuotation`). A purchase order is compared with
the first draft of the quotation whatever was revised since (`ComparedWith`), because
`validate_po` loads the draft of the quotation's record.

`DealCases` and `PolicyCases` state what is relied on for a `case`, one inquiry, deal or
judged action that is chosen in the initial state and does not change. The sets the
cases come from are constants: the MC modules give grids for them, the theorems
take any sets of the types `CasesAssumption` names.

`request_approval` names a role the conversation waits for (`graph2.py:2412-2419`), and
the CRM's endpoint lets roles approve by a table of its own (`crm/router.py:684-692`,
`crm/auth.py:35-58`). They differ for four stages: a negotiation and a purchase order
that failed its second check wait for finance and are approved by sales and by
production, a requirement waits for production and is approved by sales, a purchase
order waits for sales and is approved by production. `RoleStages` is the second table;
`waiting_for` is not part of the model, because no guard reads it.

### AuthorityControl

`settings` and `policy` are the sequences of versions, each with the version its
author had seen; the last one is in force. `principal` is its status and scopes,
`approvals` the approval requests, `evaluation[e]` an evaluation between its
statements, `starter` and `admin` calls that initialise a business or change it. An
evaluation reads settings, principal, policy and scope in that order, one action
each, takes a matching approval under a lock, and persists its decision.
`Ledger` evaluations speak for an action of the ledger; `Previews` may not open an
approval, but the founder's deterministic preview does consume one that matches.

### CustomerRecords, MemoryOutbox

| State | Code |
|---|---|
| `customer`, `identity`, `review` | `customers`, `customer_identities` (one row per type and value), `customer_match_reviews` |
| `run`, `lead`, `document` | a sales run that resolves its sender; the rows it writes at once and later on |
| `note`, `outbox`, `point` | `customer_notes`, `memory_outbox`, the payload of the point in Qdrant |
| `worker` | outbox workers with the copy of the row they claimed |
| `late`, `released` | history: rows written for a customer that had been merged by then, contacts staff took away |

A resolution is two steps, its reads and its commit, and its later rows are two
more. `Merge` moves everything a customer has in one transaction; keeping apart,
dismissing and editing contacts are actions of staff. A worker claims, projects and
settles, and its settling update is guarded by the worker's name only, which the
guard in the model is as well. `OnlyAMergeMoves` looks at every row of a customer in
every step: a run gives rows to the customer it resolved, staff take contacts away, and
only a merge passes anything from one customer to another.

### CRMDesk

A request logs in, claims its key, runs one transaction that locks the row it is
about (`lead`, `account`, `task`, `member`), and completes its claim; `lost[k]` counts
how often it died or failed once applied. The automatic assignment locks the lead,
chooses (`choosing`) and writes when the transaction of the sales graph commits;
the account it read is not locked.

### JarvisRuns

`taken` is the claim of a command, `run` the request at work, `jarvis` the row,
`messages` how many messages of each role it has, and `ledger` what became of each
call in the ledger: a call is one step here, with the outcomes `AIActionLedger`
gives it, and may have acted although it raised. What a plan `needs` is stored with
it: a plan that asks for clarification may carry calls, none of which is `Due`, so
such a run is completed with planned calls and no result. `cut` and `overtaken` are history:
runs whose process or database died, and runs that lost the claim, to the hour or to
another run of the command that failed it.

`BackOffice` puts the desk and Jarvis side by side: both claim keys in one table, each
its own, and share no other row.

### StructuredDocuments

| State | Code |
|---|---|
| `document`, `rows` | `business_documents`, and the rows of master data a document was the source of |
| `indexed` | documents with vectors in Qdrant |
| `answered` | `processed_events` of the upload endpoint |
| `upload` | calls; inside the transaction what their statements saw and changed (`seen`, `previous`, `retired`, `replaced`) |
| `beside` | history: the documents committed while the transaction of a call was open |

The transaction of `ingest` is shown statement by statement. A write that meets a
row another open transaction has changed waits, then looks at the row again, as
READ COMMITTED does, so each update is a pair of actions: `StartRetiring` and
`RetireDocuments`, `StartReplacing` and `ReplaceRows`. Tables with `is_active`
(`Flagged`) lose the flag of every row in effect; of others the rows of the
previous documents are deleted.

Two things the code does and the model keeps: the claim is for name and version
and not for the content (`main.py:928`), so a key used again with another content is
answered by the first; and a version that was superseded and is uploaded once more is
answered `already_imported` without coming into effect.

## 3. The runs

| Run | Question | Instance | Result |
|---|---|---|---|
| `ledger_takeover` | Can two requests that propose, retry, resume and take over one mutation, failing or crashing anywhere, execute it twice, after a refusal that stood, or report what is not so? Does the ledger implement `AuthorisedEffect`? | 1 mutation, 2 requests, own and one resume key, a policy that always asks, 2 approvals | no; yes (2.1 M states) |
| `ledger_change` | May master data, policy and grants change between any two transactions without an effect losing its authority or an outcome being rewritten otherwise than by the commit of a late answer? Does every action a crash or failure left halfway reach an outcome or a human? | 1 mutation or 1 read, 1 request at a time, 2 data values, 2 versions, 1 approval, a policy that allows, asks, denies and blocks | yes (370 k states) |
| `ledger_stale_price` | Is what is committed what was approved? | 1 mutation, 2 data values | **violated** |
| `channels` | Do pollers and webhooks lose nothing but by a torn cursor, is the graph started at most once per event, is success never invented, and is everything that arrives handled? | 4 mails, 2 pollers, 2 webhooks with 2 texts, 2 workers, 2 website requests, 2 attempts, 6 claims, in 6 parts | yes (125 k states) |
| `followups` | Are reminders sent only by an owner, only while they make sense, and completed only when sent? Do they settle? | 1 reminder, 2 workers, 2 attempts, 4 claims, in 2 parts | yes (467 k states) |
| `sales_requests` | Do runs that overlap, fail or are cut keep documents and stock right, and does nothing pass a human who had to be asked? Does the graph implement `SoundDeal`? Do the agents' rules fit together? | 1 conversation, 2 runs at a time, 3 requests, 1 cut, 2 prices, 2 offers, 2 inventory rows, 2 departments; 26 k inquiries and deals | yes (925 k states) |
| `sales_pending` | Can a conversation that awaits an approval be given it? | 1 conversation, 1 run at a time, 3 requests | **violated** |
| `customers` | Do merges lose nothing and alone move what a customer has, while runs resolve senders and a worker projects a note of the customer that is merged? Does every note settle? | 4 customers, 2 runs at a time, 2 values, 1 edit, 1 note, 2 workers, 2 attempts, 1 crash, in 3 parts | yes (169 k states) |
| `customers_skipped` | Does the flow decide about every identity that is skipped? | the same | **violated** |
| `back_office` | Do assignments, tasks and answers stay consistent while staff, automatic assignment, dying requests and Jarvis interleave? Does every run of Jarvis end? | 3 users, 2 leads, 1 account, 1 task, 3 keys, 1 repetition; 1 command claimed twice, 2 calls, in 4 parts | yes (516 k states) |
| `account_owner` | Does existing account ownership win? | the same | **violated** |
| `authority` | Do evaluations that read while administrators write ask for, take and give only what the rules leave to a human? Do the rules fit together? Can what is read from uploads be relied on? | 2 calls that initialise, 2 administrators, 2 evaluations, 3 versions, 2 approvals; a grid of actions, modes, limits and facts; 2 or 3 uploads of 8 files, 2 keys, in 6 parts | yes (976 k states) |

Deadlock is not checked in any run: a request may be answered, a job completed
and everybody idle for good.

**Parts.** An MC module may explore several small systems in one run: `part` is
chosen in the initial state and never changes, and restricts what the next step may
touch. A part stands for a question (workers that crash, workers that do not; two
pollers; a poller and its worker), and what parts leave out is named where they are
defined. `Shared` are the mails that may arrive in the mailbox of two pollers. `ledger_change` has a state constraint instead, `OneKindOfTool`: actions
share no row, so a mutation and a read are explored apart.

**Bounds.** `MaxVersion`, `MaxVersions`, `MaxApprovals`, `MaxClaims`, `MaxRuns`,
`MaxRequests`, `MaxEdits`, `MaxTries`, `MaxValidity`, `MaxRefusals` and the bounds on
crashes (`MaxCrashes`, `MaxStops`, `MaxLosses`, `MaxCuts`) limit what the code leaves
unbounded; each appears only in the guard of the action it limits. Two versions, two
data values and two approvals are what it takes for an approval to be stale in each
way `Matches` looks at, and for a crash to leave a second open approval next to the
first. Two requests on a row make every race on its lock; what a third may add is left
to the proofs, which cover any number. `MaxClaims` exceeds `MaxAttempts`, so a job is claimed once
more after its last attempt, which recovery makes possible, and no calm job is ever
claimed often enough to be stopped by the bound.

Three requests are what a conversation needs to become an order with an approval, or
to have a quotation approved and its price bargained over; two rows of three and a
quantity of two make a reservation span both rows, and the next one meet rows
with less left than it needs. Two approvals of one purchase order in flight, the case
in which `reserve_inventory` finds its own reservation, take a fourth request; the run
does not include it because of its size, the theorems do (`OrdersAreReserved`).

Four customers let a provisional one be merged into a candidate that is itself merged
into a third, with a fourth run still to write; one note is enough, because notes
share no row. Three versions let an administrator publish over what an evaluation has
read twice. Three uploads of one name are the least in which one replaces another
while a third waits for both. The grids hold every threshold of the rules with a value
on either side of it; the quantities of the deals are nothing, a fraction of a unit, one,
one and a fraction, and several.

**Fairness.** The event loop runs every coroutine it has started: weak fairness
of the steps of each request, worker, poller or run. Workers poll and are started:
weak fairness of starting; a due job is offered again and again (strong fairness of
claiming one, or weak fairness where one worker has nothing else to wait for).
Ledger: clients repeat a call until it is answered and a stuck claim grows old
(strong fairness of `StartExecute` and `StartResume` of each key, weak fairness of
`ClaimGoesStale`), and crashes do not go on for ever; without the repeated calls
nothing in the code finishes an action, and the property says only what the code
can deliver with them, to a principal that keeps its grants
(`NoGrantedActionHangs`). Follow-ups and the calm part of the channels: neither a
crash nor a failure that ends a worker loop occurs. This is a real restriction:
stale jobs are recovered only at the start of a worker, so a job abandoned
shortly before a restart waits for a later one. Mail and webhooks: a poll is repeated
and the provider repeats what was not accepted, and not every attempt fails. Notes:
workers step, and a note that a crash abandoned is excepted by name
(`EveryNoteSettles`). Jarvis: the request of a run steps; runs whose process or
database died are excepted (`EveryRunEnds`). Nothing is assumed about failures of
single steps, which may go on as long as attempts last.

### What the violations show

* `ledger_stale_price`: `prepare_quotation` reads the price again in the
  transaction that writes the quotation, after the policy was applied to an
  earlier read. A price changed in between is quoted under the approval of the
  old one. `ai_actions/service.py:137` says an old approval cannot authorize
  changed data, and a test asserts it for a change *before* the resume.
* `sales_pending`: the approval of a counteroffer clears the pending stage, and
  neither `prepare_revised_quotation` nor `dispatch_message` sets a status. The
  revised quotation goes out and the conversation stays `awaiting_approval`
  without a stage: every event, the purchase order too, is answered "Approve the
  pending stage before sending another event." (`main.py:1261`), every approval is
  refused, and only a channel message gets through.
* `customers_skipped`: `_add_identities` leaves out an identity that another customer
  has, because "the identity-resolution flow decides whether the customers should be
  matched or manually reviewed" (`identity_resolver.py:150-152`). Two runs with one
  telephone number have both decided before either commits; a second active customer
  remains, without the contact and without a review.
* `account_owner`: `auto_assign_lead` reads the customer without a lock and writes the
  account owner when it was empty at that read; an owner staff named in between is
  overwritten, although "existing account ownership wins" (`assignment.py:20`).

Three more things the code does contradict what it says of itself, and the passing
properties name each as an exception:

* The answer to an overdue approval reads its action with `session.get`
  (`authority/service.py:899`), without the lock the other branch takes (930-933), and
  writes EXPIRED at its commit. A repeated `execute` fails the action in between, or a
  second approval is granted and resumed, and a FAILED, EXECUTING or SUCCEEDED is
  overwritten, which `assert_transition` allows nobody (`state_machine.py:45`). The ledger
  then denies an effect that was committed; that effect is still the only one and has
  its authority (`EffectHappensOnce`, `EffectHasAuthority`). `OutcomesStand` says that
  nothing else leaves a final status.
* `docs/phase2_batch2_email_whatsapp.md:44` promises a cursor of UIDVALIDITY and last
  UID. Two processes poll while the mailbox is made anew; one reads the old row, the
  other commits the first message of the new mailbox, and the UPDATE of the first then
  names only the UID (`email_adapter.py:313-332`). Its old UID stands beside the new
  validity, and new messages up to it are never fetched. `NothingIsPassed` says that it
  takes just that; with a third mail in `Shared` TLC shows a message lost so when `torn`
  is left out of it.
* `19_PO.py:4` compares "against the final quotation version", but `validate_po` of the
  graph loads `draft_json` of the quotation's record (`graph2.py:1970-1981`), which keeps
  the first draft. An order at the price that was agreed on is a critical mismatch when
  that price differs by more than half a percent (`AgreedOrderPasses`).

Also met, and not worth a property: channel jobs get 8 attempts (`channels/jobs.py:47`)
where `docs/phase2_batch2_email_whatsapp.md` says five, and that document's promise
that jobs left by a crash return when a worker starts is true only of those older
than 300 s. A message whose worker died after it inserted the ingestion row is never
answered: the retry finds the row and is terminal (`channels/service.py:297`), which
is what makes `AtMostOneGraphRun` true. A repeated website submission that takes over a
slow one fails on the existing row, and its `fail_request` overwrites the claim the
first has completed meanwhile. A failed `execute` cannot be repeated with success under
its key, because its action is FAILED for good. `close_lost` cancels the jobs and its
router writes the checkpoint afterwards, so a reminder in flight may be revived by
`_mark_retry` in between and sent after the lead was closed. `revalidate_order_state` reads a field the
feasibility result does not have (`graph2.py:2067`), and replaces the price it
compares with, so the same purchase order passes when it is sent again. Two uploads of
one table overlap and both stay in effect (`OneFileInEffect` says when); of tables
without `is_active` rows may outlive their document when another import commits between
the read of `structured_documents/service.py:122` and the update. A mail without a
valid sender stops every poll, and what came after it waits (`Behind`). A run of
Jarvis that was overtaken fails the claim it shares with its successor
(`jarvis/router.py:112-126`; `idempotency/service.py:142-154` looks at no owner), so
with a third request a command that has been answered may be taken and acted on again;
TLC is given two runs of a command, the theorem says what holds with any number.

## 4. The proofs

Most theorems are of the form `Spec => []P` or `Spec => [][A]_vars`, for every value
of the constants that satisfies the assumption named in the module (disjoint
kinds of actors or events, a `None` outside them, a positive `MaxAttempts` or
`MaxVersion`, a `Verdict` of the right type, finitely many stock rows or messages). The
bounds stay as parameters, so a theorem covers every bound. Two kinds are different.
That a specification implements another: an abstract one (`LedgerImplementsPromise`,
`SalesCarryOutSoundDeals`), or that of a part (`RecordsAreKept`, `FlowKeepsItsParts`), by
which what is proved of the part holds in the composition. And the theorems on the rules
of the agents and of the policies, which hold for all inputs; those over `CasesSpec` say so
of the properties the runs check.

Each component has one inductive invariant, a conjunction of named parts, and one
lemma or a few for each action; the checked properties follow from it. The invariants of
runs, requests and workers have a form in common: for each value of `pc`, what the
actor has read that is *still* true, and what may have become of it.

**Ledger.** `LedgerInv` is inductive. That a mutation happens at most once does
not follow from counting claims, because claims are taken over; it follows from
`ExecutionIsExclusive`: `attempts` becomes 1 on the one entry into EXECUTING, no
transition leads back before it, and whoever is at the handler has made that
entry itself. Authority needs `BasisIsAuthority` (what is ALLOWED or was begun
rests on the recorded decision) together with `RequestsAreSound` (the decision a
request still carries is covered now: consumed approvals are never un-consumed).
`ReportsAreTrue` connects the two with `CachedResponseIsTrue`. The proof goes
conjunct by conjunct, each with a lemma over all steps; `StatusesMoveForward` and
`WaysToWriteLedger` say once which steps write the ledger and how.
A late answer may commit EXPIRED over any status its action has reached. It never opens
a closed action again and never brings one to EXECUTING, so single effect, authority
and refinement hold as they stand; what a status alone would say is said up to
`overwritten`, the actions it has written over: that an attempt is executing or over, that a
cached answer's row succeeded, that a refused action had no effect (`RefusalHolds`
speaks of an EXPIRED that was not written over anything). `OutcomesAreFinal` is an action
property from the same invariant, with that one commit as its exception, and
`LedgerImplementsPromise` shows that each step carries out one abstract step or
none, on one action at a time (`OneRowAtATime`).

**Authority.** `ControlInv`. An evaluation reads in four statements, and what it decided
by may no longer be in force. What remains true is that each version it read was in
force once (`EvaluationsKnow`), because the sequences only grow (`ConfigGrows`), and
that an approval names such versions (`ApprovalsKnow`, `ApprovalsAreAskedFor`); an
administrator publishes only upon what it has read (`AdminsKnow`,
`NothingOverwritten`). `LateKnows` is the part for evaluations that began after a
revocation. `TighterSettingsAreNeverFreer` and `PreviewsAreKept` go through the order
of the checks of `evaluate_policy` with arbitrary numbers where the run has a grid;
`CasesTighten` and `CasesKeepPreviews` add that each tightening of a case is one they speak
of (a limit lowered or raised, a mode or a policy replaced) and that its facts are numbers
(`NumbersAre`), and so prove the properties of the run.

**Ingestion.** `IngestionInv`. The unique ingestion row is the only lock: a task
that has inserted it is the only owner (`OwnerIsAlone`) whatever happens to claim
and job, and while it is one, claim and job are not completed (`SoundTask`). From
that the single run follows, since an owner at `invoke` has `runs = 0` and an
event without a row has none (`NoRunUnrecorded`).

**Intake.** `IntakeInv`. A cursor, be it stored or held by a poller that was overtaken, is
sound when every message up to it, under its own validity, has its event queued or was
refused (`CursorSound`); so is a fetched message whose predecessors are (`ItemSound`).
`Later` says what may happen meanwhile: the mailbox is appended to or renumbered, and
queued events and refusals stay. The row a poller is about to update is the one
it read, or another poller has written since (`ReadSound`); what is written is then
the poller's own cursor, the one that stands, or a mixture, and the mixture is `torn`.
It takes two pollers and a second validity (`TornInv`), and until then nothing passed
is without a job. With `Later` a cursor that was sound is sound, so the
order in which pollers commit does not matter. `FlowInv` adds that `queued` is exactly
the events with a job (`Present`), after `FlowKeepsItsParts` has shown that each part
sees calls of `enqueue` only of the other.

**Reminders.** `FollowUpInv`. `_mark_retry` needs no guard as long as a held job
is not open to another claim (`HeldIsTaken`) and has one holder (`OneHolder`), both
only until it is recovered; a thread without a checkpoint is the exception, as
`_mark_dead` lets an operator retry a job whose worker is still settling, and it
gets no reminder anyway. A late worker never passes the check, because replies
and records do not go away.

**Sales graph.** `PipelineInv` has three parts, by how much they ask for. `BaseInv` holds of
every conversation: what a run or a checkpoint names exists (`RunsInv`), documents name
one another (`DocumentsAgree`), and a handoff belongs to an order and is marked only
when all were told (`HandoffsAgree`). `StockInv` needs sums: no row is promised beyond
its stock (`NotOversold`), a purchase order that holds anything holds all of it
(`HeldWhole`), and every order holds (`OrdersHeld`). Their lemmas (`SubsetInduction`,
`Sums`) are proved by induction over the subsets of a finite set, for which
the library's `WFMin` can be used with a set in the place of a predicate.
`UndisturbedInv` is about conversations on which no two calls have overlapped: one run at
most (`Alone`), a checkpoint that is sound for its status (`Sound`), and a run whose
state is sound for the node it has come to and for the approval it was started with
(`RunSound`): from `reserve_inventory` to `create_sales_order`, for instance, the purchase
order names the price of its quotation, its verdict was good or a human approved it, its
credit too where that was exceeded, and no order was made from it yet. From these `Papers`,
the approvals of what was sent and confirmed, is preserved; a lost lead is not won because
the checkpoint says so before the next run reads it (`Closing`).

`SalesCarryOutSoundDeals` needs more of it than the invariants do: that nothing held is
ever cleared, or not, by a later step (`HeldCleared`). A run that stopped after it
reserved stock leaves a checkpoint that still names the purchase order, and every later run
starts from there; so a purchase order with stock or an order is `Firm`, and a state that
names a firm one agrees with its quotation, is not blocked, and waits for no stage
that would quote or compare again (`Sound`, `RunSound`). It is what keeps an approval
given twice, a retried pricing and a second comparison away from an order whose stock is
held. The refinement itself goes node by node: a step changes what is seen of one
conversation at most (`OthersStay`, `RunDeals`), and of that one by one step of
`SoundDeal` or none (`GenerateQuotationDeals`, ..., `MarkDepartmentsDeals`), or the
conversation comes loose (`ComingLoose`).

**Rules of the agents.** Each property of `DealCases` follows from a theorem on the rules
and from what the types of `CasesAssumption` say of a case (`EasierIsAnsweredNoWorse` from
`BetterNeverWorse`, `CounteroffersKeepTheQuote` from `NothingBelowTheQuotation`,
`RepeatedOrdersPass` from `AgreedOrdersPass`). `NothingBelowTheQuotation` holds for any price documents in whole
hundredths with a smallest margin below 100 %: the automatic limit and the first
discount are the same number of the same band, so nothing of it is left.
`AgreedOrdersPass` says of both drafts what becomes of an order that repeats them. The
first agrees with itself field by field. For the revised one the total decides: the
three roundings of a total (tax per unit, tax, subtotal) keep it near the exact product
(`TotalIsNear`), so a price within half a percent keeps the total within the one
percent `validate_po` tolerates, if a unit or more is ordered at ten rupees or more;
below that a paisa is more than the other half percent. A price further away is
stopped by itself (`OtherPriceIsStopped`). The rate of tax must not be negative.
`BetterNeverWorse` follows an inquiry through profile, score, match, stock and date
with any numbers; the date the customer asks for must not be day zero, which the code
takes for no date.

**Customers and notes.** `RecordsInv`. Two runs that resolve at once may each hold a
customer the other's commit, or a merge, has changed; `RunsInv` says what a held choice
still is, `ReviewsInv` and `HoldersInv` what the rows say of it. That no customer is
merged into itself, in however many merges, needs an order the rows do not store: every
customer points only at one that was created before it (`Ordered`, an invariant that
states such an order exists). `KeptInv` with `TakenInv` gives `MergeLosesNothing`:
whatever a merged customer has was taken, or was written late and is noted as such.
`OutboxInv` (`NotesInv`, `WorkersInv`) ties a worker's copy to its row, whose customer may
have changed since it was claimed. `RecordsAreKept` shows that notes do not disturb the
customers. `BelongingsMoveByMerge` compares every row before and after every step
(`RunMoves`, `StaffMove`, `MergeMovesRows`, `NotesMove`): a run that resolved long ago
takes no row from anybody, because what it writes had no customer yet (the last part of
`Resolving`), and a customer that is merged has no second merge, because its review is
answered (`CandidateIsAnother`).

**Back office.** `DeskInv` and `JarvisInv`. A request's entries in a history are counted:
they never exceed its losses, and one more only while it is applied or its claim
completed (`EntriesInv`), whatever number of executions a key has. A conversation with
Jarvis is `Sound` for each point of its run, which says of a plan that asks for
clarification that it has made none of the calls it may carry; which of several runs of one command may
still answer is `ClaimsInv`, in which runs that were cut or overtaken are `Excused`. `BackOfficeSpec`
is the conjunction of both, and so are its invariants.

**Uploads.** `ImportInvariant`. No lock protects what is in effect: an import looks
at the rows to replace in one statement and commits later. `ReplacesEnough` says what
makes it right all the same: of a table with the flag, whatever is active is covered
by what the import saw, or was committed beside it, and what it retires it also
covers, since one name is one table (`RetiresOlder` with `FilesAssumption`). From that
`RowsFollowTheirDocument` and `OneFileInEffect` follow at the commit. Replayed answers
need `AnswersAreReady`, a claim about requests still on their way. `StepsHaveShape`
says once what each of the thirteen actions does (`Shape`); the parts of the invariant
are proved from the shape alone.

| Theorem | Shows |
|---|---|
| `LedgerInvariant`, `TypeCorrect` | `LedgerInv`, and that every row keeps its type |
| `EffectHappensOnce` | `AtMostOneEffect` |
| `EffectHasAuthority` | `EffectIsAuthorised` |
| `RefusalHolds` | `RefusedHasNoEffect`, of refusals that were not written over another status |
| `CachedResponseTruth` | a stored "executed" has one effect and a row that succeeded, or did until a late answer wrote over it |
| `OutcomesAreFinal` | `OutcomesStand`: only the commit of a late answer leaves a final status |
| `LedgerImplementsPromise` | `ImplementsPromise` |
| `ControlInvariant`, `AuthorityStaysInOrder` | `ControlInv`, `AuthorityInv` |
| `HumansAreAskedRightly` | `ApprovalsAreAskedFor` |
| `RevokedStaysPowerless` | `RevokedIsPowerless` |
| `CasesTighten`, `CasesKeepPreviews` | `TighterIsNeverFreer`, `PreviewPromisesNoMore` |
| `TighterSettingsAreNeverFreer`, `PreviewsAreKept` | the same of `evaluate_policy` and the preview, for all inputs |
| `IngestionInvariant` | `IngestionInv` |
| `GraphRunsOnce` | `AtMostOneGraphRun` |
| `SuccessIsNeverInvented` | a completed claim, job or ingestion has a run that answered |
| `IntakeInvariant`, `FlowKeepsItsParts`, `FlowInvariant` | `IntakeInv`; the composition implements both parts; `FlowInv` |
| `NoMessageIsLost` | `NothingIsLost`: nothing passed or accepted is without a job, unless the cursor is torn |
| `FollowUpInvariant` | `FollowUpInv` |
| `OneSenderAtATime` | `OneSender` |
| `LateRunsSendNothing` | `NoLateReminder` |
| `CompletionIsTrue` | a completed job has a record, a record a reminder that was sent |
| `PipelineInvariant` | `PipelineInv` |
| `ConversationsKeepTheirPapers` | `SalesInv` |
| `OrdersAreReserved` | `OrderReserved` |
| `OrdersAreApproved`, `PricesAreAuthorised` | `OrderApproved`, `PricesAuthorised` |
| `SalesCarryOutSoundDeals` | `CarriesOutSoundDeals`: the graph implements `SoundDeal` |
| `EasierIsAnsweredNoWorse` | `BetterIsNeverWorse` |
| `CounteroffersKeepTheQuote` | `NothingBelowTheQuote` |
| `RepeatedOrdersPass` | `AgreedOrderPasses`: of the first draft every repetition, of a revised one those within half a percent |
| `NothingBelowTheQuotation`, `AgreedOrdersPass`, `BetterNeverWorse` | the same of the agents' operators, for all inputs |
| `RecordsInvariant`, `RecordsAreKept`, `MemoryInvariant` | `RecordsInv`; notes leave customers as they are; `MemoryInv` |
| `CustomersStayConsistent` | `CustomerInv` |
| `MergesLoseNothing` | `MergeLosesNothing` |
| `NotesAreProjectedForTheirCustomer` | `ProjectedForItsCustomer` |
| `BelongingsMoveByMerge` | `OnlyAMergeMoves` |
| `DeskInvariant`, `DeskTypes`, `AssignmentsAgree` | `DeskInv`, its types, and that owner and assignments agree |
| `RequestsAssignOnce`, `TasksAreEditedInOrder` | `AssignedOncePerRequest`, `TaskEditedInOrder` |
| `JarvisInvariant`, `JarvisTypes`, `ResultsStayNoted` | `JarvisInv`, its types, and that the ledger is at most a call ahead of the messages |
| `CommandsAreAnsweredTruly` | `CommandsAnswerTruly` |
| `BackOfficeStaysInOrder` | `BackOfficeInv` |
| `ImportInvariance` | the inductive invariant of uploads |
| `ImportsHold` | `ImportsInv` |
| `FilesTakeTurns` | `OneFileInEffect` |

Every invariant, action property and refinement that a passing run checks is a theorem.
Only model-checked are the liveness properties (`NoGrantedActionHangs`,
`MessagesAreHandled`, `FollowUpsSettleWhenCalm`, `EveryNoteSettles`, `EveryRunEnds`):
liveness under fairness and `ENABLED` are outside the prover's reach. The four
violations are counterexamples of TLC. No module declares a recursive operator, and
nothing is claimed about data structures by induction other than over the subsets of a
finite set.

## 5. Not modelled, and what is left

Not modelled because there is no control to check: prompts and model calls of
the agents, document parsing, embedding and retrieval, spreadsheet readers, product
matching, the dashboard, the 360 view and the other reads, event records
(append-only), the pipeline snapshot (only the dashboard reads it), migrations,
outbound delivery and signatures (I/O), `graph.py`, which nothing mounts any more,
and scripts that draw reports. The handlers of the business tools are one shape each
(a mutation that reads master data, a read); their SQL is not modelled.

Where calls on one conversation overlap the project promises only what rows and locks
guarantee (`SalesInv`, `OrderReserved`); `SoundDeal` lets such a conversation come loose,
because nothing in the code keeps two requests of a thread apart.
