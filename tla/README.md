# A verification model of ECHO's Authority

ECHO's Authority service turns each person's meetings into approved, signed
records: it pulls a meeting from the person's tool, pays for one model
extraction, freezes a proposal, lets its reviewer decide it in the desktop app
or in Slack, appends one signed record per chosen destination, publishes a search
index of the records, and runs research on them. The person's devices reach it
with sessions that rotate. This directory holds TLA+ models of that pipeline and
of what surrounds it, the TLC runs that check them, and TLAPS proofs. Paths below are relative to the repository; `lines` of every
definition are in `PROJECT.json`.

To repeat: `tlc -workers 2 -config <run>.cfg <module>` for each run of the
table below; `tlapm` on each `…_proofs.tla` for the proofs.

## 1. The system

| Component | State | Operations | Interacts with | Hard behaviour | What makes it correct | Here |
| --- | --- | --- | --- | --- | --- | --- |
| Extraction attempt ledger (`sqlite-extraction-attempt-store-v1.ts`, operator CLI) | attempts and retry permissions per review input, in a database of its own | reserve, complete, authorizeRetry | called by the cycle around each model call; by the operator in the stopped lane | two processes, leases, crashes between park and close | bounded spend, one call per input, results never refused | `ExtractionLedger` |
| Processing cycle and its state (`meeting-processing-cycle-v1.ts`, `sqlite-authority-meeting-processing-state-v1.ts`) | candidates, outbox, lineage heads, parked extractions | runOnce, retryHeldOnce; stageCandidate, holdExtraction, advanceCursor | provider, ledger, approval core | three transactions around two awaits, each with its own fence | no import lost, nothing paid twice, one open proposal | `MeetingProcessing` |
| Meeting intake (`person-meeting-intake-v1.ts`, `granola-watch-source-v1.ts`) | checkpoint (import queue and watch marks), settings, project choices | enqueue, cancelImport, watch, rebase, promote | requests of the person while a pass awaits | compare-and-swap against concurrent edits of the queue | no import dropped, no choice inherited | `MeetingProcessing` |
| Meeting runtime (`person-meeting-runtime-v1.ts`) | in-flight lanes, breaker, next-poll times | runSource, topUp, settle, targeted pass | worker, intake, cycle | detached callbacks, shutdown | one pass per source, bounded lanes, nothing forgotten | passes in `MeetingProcessing`, lanes in `MeetingLanes` |
| Approval core (`approval-core-v1.ts`) | outbox state, frozen snapshot, decision row | stage, reconcile, decide | cycle, desktop, Slack | two surfaces and retries | first decision wins, decisions are final | `ApprovalPublication` |
| Publisher (`approval-publisher-v1.ts`) | receipts | publish | record log, after-record hooks | two databases, several publishers, crashes | one record per destination, hooks once | `ApprovalPublication` |
| Record log (`record-log-v4-append.ts`) | the log and its signed receipts | append | publisher | an await inside a write transaction | no duplicate, append only | append in `ApprovalPublication` |
| Worker and writer gate (`serialized-meeting-processing-worker.ts`) | promise tail, active flag | runExclusive, close | lifecycle | promise ordering at close | mutual exclusion, nothing runs after close | `WriterGate`, `ServiceLifecycle` |
| Model call limiter (`model-call-limiter-v1.ts`) | slots, queues, pause | run | every model call | abort while queued, pause episodes | no slot leaks, one pause per episode, nobody blocked by a session | `ModelCallLimiter` |
| Service lifecycle (`organization-authority-service-lifecycle.ts`) | wakes of publication, cards and search; what close and drain wait for | cycle, requestApprovalPublication, runUngated, drain, close | all of the above | wakes that coalesce, shutdown and drain races | no wake is lost, drain is a barrier, databases close last | `ServiceLifecycle`; the search part of startup in `SearchGenerations` |
| Search task (`readable-search-reconciliation-task.ts`) | one active run and one wake | request, drain, close | lifecycle | a wake during a run | one run at a time, every wake served | `ServiceLifecycle` |
| Search generations (`readable-search-generation-reconciler.ts`, `readable-search-engine-v1.ts`, `state-lineage-preopen-guard.ts`) | immutable generation directories, the active pointer, the validated handle | reconcile, build, publish, retire, warm | record log, search task, startup | a head that moves during a build; kills and power losses between rename, fsync, commit and deletion | the pointer names the head and files that survive; the guard lets the service start | `SearchGenerations` |
| Trigger runs and sweeps (`trigger-runs-v1.ts`, `person-trigger-runs-v1.ts`, `impact-items-v1.ts`) | runs with leases and attempts; the last check of an item | enqueue, claim, release, finish, fail, retry; recordCheck | after-record hook, research, desktop | expired leases, late finishes, sweeps that judge one item in another order than they read it | one live run per person, follow-ups written once, the newest verdict kept | `TriggerRuns` |
| Identity and sessions (`person-identity-sessions.ts`; client `session-store.ts`, `session-operations.ts`, `client.ts`) | session families and rotating credentials; session and lock files of a private directory | sign-in, refresh, read, sign-out; rotate, revoke | every request | several client processes meeting in files, crashes, lost answers | a used token is never submitted, a request keeps its credential, nobody waits for ever | `SessionFiles`; OIDC is not modelled |
| Slack surface, tool connections | card rows; consent attempts | click, present; consent | approval core; Nango | stale cards, shared lookups | a click approves what the card showed | clicks are decisions of `ApprovalPublication`; the rest is not modelled |
| Ask and research, HTTP edge, protocols, provider adapters, desktop, release tools | none of their own, or none shared | | | | | not modelled (see `PROJECT.json`), but for which run the desktop starts next |

How they interact: the worker starts passes on due sources; a pass reads the
checkpoint, awaits the provider, admits a meeting in a custody transaction,
reserves in the ledger, awaits the model, writes the candidate, freezes its
proposal through the approval core and moves the checkpoint. Requests of the
person run on the same event loop at the awaits. The publisher reads decided
proposals and writes the record log, then the receipt and the hooks. Three
databases are involved (Authority, ledger, record log), and no transaction
spans two of them: that is where crashes matter.

## 2. The modules

| Module | Models | Composition |
| --- | --- | --- |
| `ExtractionLedger` | the store's three writes, the protocol of the cycle around one call, leases, crashes, the operator's command | parameter of `MeetingProcessing` |
| `MeetingProcessing` | one person's source: provider, intake, passes, candidates, parked revisions, freezes, the checkpoint | `INSTANCE`s `ExtractionLedger` with keys meeting × review input; a pass is a worker of the ledger |
| `ApprovalRegister` | the abstract promise: one final decision per proposal, one record per chosen destination, published when all are in the log | abstract specification |
| `ApprovalPublication` | decisions, publishers, record log, receipts and hooks | implements `ApprovalRegister` (`RegisterSpec`) |
| `MeetingLanes` | which sources run a pass: lanes, round-robin, waits, granted retries, the breaker, targeted passes, shutdown | a pass is `MeetingProcessing`'s subject; the lanes are abstracted in `ServiceLifecycle` |
| `WriterGate` | the promise chain of gated turns and its flag | `INSTANCE`d by `ServiceLifecycle`; has a specification of its own for any requests |
| `ServiceLifecycle` | the serving process: cycle, publication wake, search task, card turns, lanes as passes in flight, drain and close | composes `WriterGate` with the rest |
| `SessionFiles` | the files and lock entries of a session directory, the clients that meet in it, and the Authority's families | of its own |
| `TriggerRuns` | stored runs, leases, the process's attempts, an item's last check | of its own; the hook that queues a run is `ApprovalPublication`'s `WriteReceipt` |
| `ModelCallLimiter` | the two nested limiters: callers, sessions with their requests, pauses and timers | of its own; a call is `MeetingProcessing`'s `Extracted`, a session `TriggerRuns`' research |
| `SearchGenerations` | log head, generation directory, pointer, handle, with kills and power losses | a reconciliation is one search run of `ServiceLifecycle` |
| `MC…` | constants for TLC | extend the module they instantiate |
| `…_proofs` | theorems and proofs | extend the module they prove about; `ServiceLifecycle_proofs` extends `ModelCallLimiter` as well |

**Atomicity.** A better-sqlite3 transaction is synchronous, so it is one
action. What a pass does between two awaits is several actions when it writes
twice, since a process may die between the writes (`Crash`). In
`MeetingProcessing`, `pass[p].pc` names the next transaction; requests of the
process `Server` run only while its pass is idle or awaits the provider or the
model (`Serving`). Passes of another process, which the code expects after a
restart or during a deployment (runtime lines 199-200), interleave freely.

**ExtractionLedger.** Every operation reads and writes only the latest attempt
of its key and the permission on it, so those are the state; older attempts are
immutable. `claim` is what a pass holds in memory. `billed`, `unbilled`,
`automatic` and `operator` are history for the properties: `billed` counts
every answer that was or may have been paid, including a call cut off by a
crash.

**MeetingProcessing.** A canonical revision is a hash of the meeting's content
(`granola-meeting-normalizer-v1.ts`), so an edit that is undone returns to an
earlier revision: `Content[n]` is the revision after the n-th edit and may
repeat. `Input[r]` is the review input extraction reads, which several revisions
may share. The checkpoint `cursor` has the import queue, the watch's baseline
flag and the seen marks (`updated_at`, here the number of edits); the
compare-and-swap compares all of it, as the code compares its text. `adm` and
`next` are the checkpoint a pass read and the one it would move to. A decision
is abstracted to its review semantics; `NoCommitment` is one without signals. A
member may be revoked and leave a project at any time, which is more than the
routes allow. `asked` is history: `updated_at` of a meeting when its live import
was queued.

**ApprovalPublication.** A request names its proposal, command, surface and
number of destination groups (0 rejects); refusals that change no state (bad
projects, retention) are left out, and a changed snapshot digest is folded into
`stale`. `lock` is the write transaction of the record log, held across the
signing await; `signed` the positions whose signed receipt is stored; `done` the
positions a publisher appended. A publisher may be in another process; a busy
database is `RowFails`. A decision whose records cannot be built, or whose
source this runtime does not configure, is `Unpublishable`. `runs` counts what
each after-record hook wrote.

**MeetingLanes.** `pass[s]` is the entry of source s in `inFlight` with the phase
its pass is in; whether it is a retry and what it pulls are decided when the
code decides them, on entry and at the pull, while the queue may change until it
ends. `wait` is `observed.next`: due now, after at most a minute (`soon`) or
after five (`later`). Time is abstract: any wait may end, in any order, but not
before a macrotask that is already queued (`TimePasses`), since every wait is
thirty seconds or more. A top-up is one synchronous step over the round-robin
order. A source that is due only because a freeze failed is left to
`MeetingProcessing`.

**ServiceLifecycle.** One step is what the event loop runs without awaiting: a
turn that leaves the gate, the continuation of the cycle behind it and the wakes
it requests are one step, because promise continuations run before any macrotask
or I/O. A macrotask (`setImmediate`) and every await on a database, provider or
search build is a step of its own. `publication`, `cards` and `search` each stand
for a pending flag with its macrotask; `drain.unresolved` are the promises
`drain()` took and still waits for, of which a newer one may take the place
(`Replaced`), and then it looks again. `close()` goes through `ClosesAfter`. Of
the lanes only the passes in flight are kept, and a top-up may start any of them,
which is more than `MeetingLanes` allows. The abort of the worker is
the end of the lanes' grace. `decided`, `published` and `indexed` are what
`ApprovalPublication` and the search generations make durable, and `lost` the
approvals whose requested publication or build failed, which the next cycle
retries. Only one call of `drain()` and of `runUngated` waits at a time.

**SessionFiles.** Its steps are single calls of the file system, which is all
that two client processes share: exclusive creation, rename, link, removal,
listing. A token stands for a session family (one per sign-in) and a rotation.
`client[p]` is an operation in flight with the token it holds in memory;
`entries` the lock entries of running processes and `left` those of dead ones
that nothing can prove dead, which count until they are ten minutes old. The
Authority's answer to a refresh is one transaction: it rotates the pair, or ends
the family, as replayed when an older token was submitted. A refresh that is not
answered may have rotated. A sign-in may install its session between any two calls
of a refresh. Two places matter: after a refresh set the session aside and before
it reads it, and after it looked at its claim and before it links. `overtaken`
(history) holds the clients that were at one of them when a sign-in installed its
session, or when a client that was overtaken itself made one live, and `crossed`
(history) says whether such a client then took for its own a session that another
had set aside. For that, the token of a client that just set a session aside is
history too: the client does not know it before it reads. Left out: the record of why
a session ended, a process suspended for longer than its entry lives, the checks
of the answer's identity, that a directory is removed entry by entry, and a
request that arrives after its client gave it up.

**TriggerRuns.** `run` is the table's row; `held` says whether its lease has time
left. `attempt[t]` is research under way in the process under lease token t; a
token is used again only once its attempt is over, when no row can be taken for
its own. An attempt aborted by the process's close leaves its run running, and
the next claim after the lease takes it. `check` is the last check of one item:
the time it carries, and when it was read. The time may be pushed one past the
unreadable check it replaces (`Stamped`), as in the code. `written`, `judged` and
`unread` are history.

**SearchGenerations.** A generation is a record head and a retrieval contract
(one per release); its files are complete when it is renamed in, since each is
flushed before, so only its directory entry is kept: present, entering (renamed
in, not flushed) or leaving. A power loss undoes any set of unflushed entries.
The databases keep a rollback journal with synchronous=FULL
(`open-authority-database.ts:54-55`), so the last commit may be undone by the
loss of the journal's removal until a flush of the directory: `pointerDisk` is the
pointer such a loss would bring back. `forgotten` is history (section 4). Debris
beside the directory, the manifest's validation and the durability of record
commits are left out, and one Authority process reconciles while others append.

**ModelCallLimiter.** `calls` and `sessions` are two values of one limiter, whose
operators are `model-call-limiter-v1.ts`'s `pump` and the branches of `run`. All
a limiter does for one event runs without an await, so arrival, abort, end and
timer are one step each; a loop of admissions is one `Pumped`. A session holds a
session slot and makes requests, which a promise chain passes to the call limiter
one at a time (`NextOf`); a session that fails leaves the requests it made to
run their course, and an abort of its signal takes the one that waits out of the
queue. Time is ticks of `left`, the rest of the pause; a timer may fire early,
and then looks again. `admitted` is what a call keeps of `pauses`. `under`, the
calls that ran when the pause began, is history. A caller
whose signal is aborted before it arrives never does.

## 3. The runs

| Run | Instance | Distinct states | Shows |
| --- | --- | --- | --- |
| `ExtractionLedger` | 2 inputs, 2 passes, 3 attempts | 47,297 | spend bound, one call per input, results never refused, under crashes, leases and grants |
| `EditsAndWatch` | 1 meeting, contents r1 r2 r3 r1 with r1 and r2 of one input, 1 project, 1 attempt, 1 pass; 1 settings change, with the first two contents | 3.7 M | one open proposal, also when an edit is undone; the checkpoint passes only settled revisions, choices end with their import, frozen suggestions stay |
| `TwoImports` | 2 meetings, 1 attempt, `LiveSpec` | 373 k | the rebased compare-and-swap loses no import; imports settle and failed freezes are retried |
| `TwoProcesses` | 1 meeting, 2 processes, 2 attempts, one kind of result, `LiveSpec` | 391 k | nothing is paid for that already has a result, grants are spent |
| `TwoPublishers` | 2 proposals, 2 surfaces, 2 commands, 2 groups, 2 publishers, pages of 1 | 225 k (symmetric) | one record per destination, receipts complete, hooks once, first decision wins, `ApprovalRegister` implemented |
| `PublisherLiveness` | 3 proposals, one unpublishable, pages of 1, `LiveSpec` | 93 k | a decision that never publishes holds up no other |
| `MeetingLanes` | 2 sources, 1 lane, 1 import, grants and targeted passes on the second, `LiveSpec` | 24 k | lanes bounded, imports never wait like idle sources, no source or grant starves |
| `ServiceLifecycle` | 2 approvals, 1 lane | 2.0 M (symmetric) | turns never overlap, no wake lost, drain is a barrier, nothing runs after close |
| `SessionFiles` | 2 clients: one reads and refreshes, the other refreshes, signs in and out and asks for the status; 2 families, 1 rotation, 1 crash, `LiveSpec` | 1.1 M | a used token is submitted or live only after an overtaken client took another's session, requests keep their credential, waits end |
| `TriggerRuns` | 1 impact check, 2 sweeps of 2 people, 2 attempts, 2 at once, 1 stop, `LiveSpec` | 550 k | one live run, follow-ups written once, newest verdict kept, every run ends |
| `SearchGenerations` | 2 releases, 3 records over a ceiling of 2, 1 fault, 1 kill, 2 power losses, `LiveSpec` | 413 k | surviving pointers name surviving generations, publications name the head, search returns |
| `ModelCallLimiter` | 1 single call and 1 session in the background, 1 interactive session; 2 call slots (1 background), 1 session slot; 1 request, 2 pauses between the two limiters, of 1 and 2 ticks, `LiveSpec` | 46 k | slots never leak or overflow, one pause per episode, sessions and calls never block each other |

Three more configurations are kept to reproduce what section 4 says; TLC refutes
their property, which a document or comment of the repository states and the code
breaks. They are not among the runs of `PROJECT.json`, which all pass.

| Configuration | Module and instance | Refuted |
| --- | --- | --- |
| `SessionReplayed.cfg` | `MCSessionFiles`, no crash | `NeverReplayed`, in 19 states (section 4.5) |
| `SessionReplaced.cfg` | `MCSessionFiles`, no crash | `NewerLoginStands`, in 19 states (section 4.5) |
| `SearchDangles.cfg` | `MCSearchGenerations`, no failed step, 1 kill, 1 power loss | `NeverDangling`, in 11 states (section 4.4) |

Deadlock is not checked in `ExtractionLedger` and `MeetingProcessing`, which
really may stop: attempts, edits and settings are bounded, and a revoked person
has nothing left to do; nor in `ServiceLifecycle`, which ends closed; nor in
`SessionFiles`, `TriggerRuns` and `SearchGenerations`, whose sign-ins, runs and
records are bounded: when all are used up, the system rests. It is
checked in `ApprovalPublication`, `MeetingLanes` and `ModelCallLimiter`.

**Why the bounds are enough.** Two passes, two inputs and two proposals are the
fewest that can interfere, and every guard compares at most two of them. Three
attempts reach a first try, the automatic retry and an operator's grant, with
`MaxAttempt` reached by all three. Four contents give an edit
that reuses an extraction, one that needs its own, and an undone one; the state
constraint `WatchChangesEarly` keeps a changed watch away from the later two, which
with it exceed what TLC can check in minutes. (An undone edit with two attempts was
checked once, over 4.7 M states; the theorems on `MeetingProcessing` hold for any
of them.) Pages of one row make every
publication cross a page. Two sources on one lane always have one waiting for
the other, and a watched one never runs out of work; with more lanes the model
only has less contention (three sources on two lanes exceed what TLC can check
for liveness in minutes). Two approvals let one be decided while the other's
publication is requested, queued or running, which is all the wake can tell
apart. Two clients meet in every pair of file-system calls; two families let a
sign-in replace a session that a refresh still holds, and one rotation makes its
first token a used one (three clients that refresh, one of which signs in, with
three families and no crash, were checked once for the two invariants, over 14.4 M
states, and hold). Two sweeps and two times give every order in which an item is read and
judged; one stop leaves one attempt of every state behind. Two power losses reach
one after a restart from one, and a ceiling below the last record gives the
refused build. One background slot of two is the least at which both kinds share
and neither has all; the one session slot makes sessions wait for each other too.
A second pause meets calls admitted before the first. (Two requests, where an
abort meets a session's first request while the second one waits, were checked
for the safety properties over 1.5 M states.) Each property has a mutant of the code, listed in `PROJECT.json`,
that its run refutes.

**Fairness.** `LiveSpec` of `MeetingProcessing` assumes weak fairness of each
pass's own steps (the worker's loop polls for ever and a pass is a straight
line of awaits), strong fairness of starting a due retry (`runSource` looks for
one before it pulls, and a pass of the same source may make it temporarily
unavailable), weak fairness of leases' ends (time passes: some lapsed lease ends), and that faults stop
eventually: a person whose provider always fails is never served, by design,
nor one who keeps changing the queue while a pull is out, since custody refuses
that pull. A crash that changes only what an ordinary step would counts as that
step, so no ordinary step is ruled out.
`LiveSpec` of `ApprovalPublication` assumes the same of publishers: the
periodic cycle publishes again after every failure.
`LiveSpec` of `MeetingLanes` assumes that the worker keeps topping up, macrotasks
run and passes end (their provider and model calls have timeouts): weak fairness;
that waits end although passes keep settling in between: strong fairness, since a
wait only ends when no macrotask is queued; and that the operator asks for
targeted passes and grants retries only finitely often, since either may occupy a
source for ever. Nothing is assumed of the other sources: they may fail, trip the
breaker and get new imports for ever. `ServiceLifecycle` is checked for safety only.
`LiveSpec` of `SessionFiles` assumes that each client goes on with the read or
refresh it is at (one weak fairness per client: each has one next step at a time),
requests and refreshes end (both have timeouts) and entries of the dead age; that credentials
do not expire at every request; and nothing of the deadline of a wait, which would
make waiting end by itself. `LiveSpec` of `TriggerRuns` assumes weakly fair
progress of the whole: while a desktop can start a run, an attempt can end, a lost
lease can lapse or a closing process can exit, one of these happens; and that the
index catches up, research stops outliving its lease and nobody retries a failed
check for ever. `LiveSpec` of `SearchGenerations` assumes that a service that is
down is started again, a reconciliation takes its next step, and the search task
runs again while the head is not served, as it does after each append and at each
cycle; faults are bounded. `LiveSpec` of `ModelCallLimiter` assumes that calls end
and that a session's program ends once its requests have (both have timeouts),
that a settled request lets the next one wait, timers fire and time passes. It
also assumes that interactive callers stop coming eventually: by design they
may hold up background ones for ever. The bound on pauses stands for a provider
that recovers.

## 4. Known divergences and limits

Met while modelling; the first five contradict a comment or a document. Configurations
kept beside the runs show the fourth and the fifth; the first three appeared in
instances of the models that were checked at the time. All five are excepted from
the properties that hold.

1. *A cancelled import's advance may succeed.* The comment in
   `person-meeting-intake-v1.ts:200-206` says "A cancelled import changed the
   cursor first, so its advance never succeeds". Cancelling an import and
   queueing the same meeting again during the first one's extraction restores
   the checkpoint's exact text; the compare-and-swap then advances for the
   cancelled pull. The second import is answered by a revision pulled before
   it was made. `NoLostImport` does not cover an import made while a cancelled
   pull of the same meeting still runs.
2. *An undone edit leaves the newer proposal open.*
   `docs/product/2026-10-07-unified-meeting-approval-v1.md:136` says "A new
   revision before a decision supersedes the open proposal". When a meeting goes
   A, B, A, the third pull finds A frozen and only advances
   (`meeting-processing-cycle-v1.ts:662-690`), so B stays open. Still one at a
   time, as `EditsAndWatch` shows with exactly this sequence.
3. *A retry that cannot reserve may block its source's intake.* The comment in
   `person-meeting-runtime-v1.ts:185` says "After a retry poll, a source's next
   retry waits a minute, so a retry that cannot reserve never blocks its
   intake." The minute runs on the clock. If the lanes are busy with other
   sources, or the breaker is tripped by one, until it is over, the source's next
   pass is the same retry again, and its queued import is not pulled. With a lane
   free within the minute, as in the tests, the comment holds. `ImportsServed`
   holds because grants come to an end.
4. *A generation whose flush was prevented is taken as it is.* The build renames a
   generation in and then flushes the directory (`readable-search-engine-v1.ts:1028-1030`).
   If the process is killed between the two, or the flush fails, the next build
   of the same head finds it in place and does not flush (1010-1026); the pointer
   is then committed, and a power loss may leave a durable pointer to a generation
   that is gone, which the guard refuses to start with
   (`dangling_generation_pointer`).
   `docs/qualification/readable-search-minimum-v1-source-readiness-matrix.md:72`
   says "Crashes throughout staging, rename, and pointer commit leave either the
   prior pointer or one complete new pointer".
   `SearchDangles` shows it with one kill and one power loss. `PointerComplete`
   excepts exactly these generations (`forgotten`).
5. *A sign-in may overtake a refresh.* A refresh sets the live session aside and
   then reads what lies aside (`session-store.ts:509-528`), and it checks its claim
   and then links (543-571, 594-605), each in two calls. In `SessionReplayed` a
   sign-in falls between the first two; its own refresh sets the new session aside,
   the first refresh reads that one, and both submit it, although
   `session-operations.ts:173` says "A token already submitted is never replayed".
   In `SessionReplaced` the sign-in and the start of its refresh fall between the
   second two, and the older session is linked in the place of the newer, although
   `docs/decisions/ADR-0002-external-oidc-person-sessions.md:253` says "publication
   cannot replace a newer explicit login". Either takes a sign-in on a device, and
   a refresh after it, in the microseconds between two calls of another process
   there. `ReplayTakesCrossing` and `StaleTakesCrossing` except only what follows
   once a client took another's session so (`crossed`): a sign-in between any two
   calls, a late completion over a new sign-in included, does no harm to the
   families by itself.
6. *Claims that stay.* A sign-out tried while a refresh has the session aside
   leaves `logout_claim` (`session-store.ts:617-629`), which only a sign-in
   removes. After a crash that leaves a refresh claim, two refreshes wait for each
   other until their deadline of eleven minutes (`Orphaned` in `WaitsEnd`). A
   reader that tidies up late may remove another process's claim: the session is
   lost, and a sign-in needed, but nothing is replayed.
7. *Attempts lost with a lease are never counted.* Research that always outlives
   its lease would be repeated for ever; `RunsEnd` assumes it does not. The race of
   three sweeps that the comment of `recordCheck` describes (a verdict read
   minutes earlier is kept) is within what `VerdictIsNewest` allows.

## 5. The proofs

`ExtractionLedger_proofs` proves, for any keys, workers and attempt limit:
`LedgerTypes`, `LedgerSpendBound`, `LedgerOneCall` and `LedgerClaimLatest`. The
spend bound is not inductive: a billed call, a permission and the free first
attempt must be counted together. The invariant says of each key that at most
one pass holds a claim on it and it is the latest attempt's; that a permission
is on an attempt no pass holds; that the attempts made are one plus the grants
consumed; and that the one automatic grant was paid for by an unbilled refusal
of the first attempt. Each action is then checked against each conjunct.

`ApprovalPublication_proofs` proves, for any proposals, commands, surfaces,
groups and publishers, every safety property `TwoPublishers` checks and four
more (types, `OnlyApprovedRecorded`, `ReceiptsAgree`, `CommandDecidesOnce`). The
inductive invariant has two parts. `StoreInv` relates the two databases: a
decision names its own proposal, which stays staged; a log position has one
proposal and destination; receipts and hooks agree with the log. `PubOK` relates
a publisher's memory to them: the records it believes it appended are in the log
and signed, and one that is creating a record holds the lock over a log without
it, which is what makes `OneRecordPerGroup` inductive. Since decisions, records
and signed receipts are never taken back (`Grows`), a step of one publisher keeps
`PubOK` of all others (`PubFrame`); each step is then one lemma.
`PublicationReceiptsAgree` follows: two lists of records of the same groups are
equal because each group has one position. A part after it is the core of `PublishedInTheEnd`:
`PublicationSkipsNobody` says that a publisher's cursor passes an approval that has
no receipt only by taking it up, whatever is decided and published meanwhile.
`CursorInv` is why: the decisions' sequences are as many as the decisions and
differ (`Sequenced`), so that what is decided later lies above every cursor; and
the rows of a page that are still to be read lie above the cursor, in order, with
nothing unpublished missing among them (`PageCovers`). The last part shows that
the whole implements `ApprovalRegister`, so the run's refinement check holds
for every value of the constants. The assumption used is `ConstantsAssumption`:
finitely many proposals, and `None` outside the sets it marks the absence of.

`MeetingProcessing_proofs` proves, for any meetings, contents, projects, edits and
passes, every safety property its three runs check. One invariant carries the
first six theorems: `Inv` says of each pass what it may hold where it stands in its program
(`PassSound`), of the tables what their writes keep (`Stored`, `ImportsExist`,
`Review`), that the open proposal of a meeting is its lineage's head
(`OneOpenProposal`), and it takes the ledger's own invariant (`IndInv`, through
an `INSTANCE` of its proof module) with `Linked`: a pass holds a claim exactly
where its program counter says so. Because of that, `ProcessingUsesLedger` maps
every step to one of the ledger's or a stutter. `ProcessingPaysOnce` adds `Settled`: an
input with a stored result has an attempt that ended with one, or is spent, and no
grant, crash or lost lease makes it reservable again.

`ProcessingLosesNoImport` and `ProcessingAdvancesSettled` are about one process
(`Passes = {Server}`), since a second process may change the queue while the first one is
between two awaits. Their invariant `Safe` follows an import through a pass:
what was asked for is no newer than what is pulled after it (`AskedBefore`), the
queue serves what the pass pulled (`PullServes`), a pass at work knows where it
ends (`WorkCovers`), one that advances has settled what it pulled
(`AdvancesSettled`), and a cancelled pull is asked for by nobody
(`CancelledForgotten`). The compare-and-swap is what makes the advance keep them: it succeeds only on the queue
the pass last read.

`ServiceLifecycle_proofs` proves `ServiceGateExclusive`, for any approvals and
lanes: every step of the service is a step of `WriterGate` or leaves it alone,
and the gate's invariant is that only the first turn of the chain can be running
and that without the flag there is no chain.

The same module proves `ClosesQuietly` and `WakesAreKept`. For the first,
`QuietInv` says of each position of `close()` that what it has waited for is over
and cannot begin again: the worker's loop, then the gate, the lanes, the cards and
the search. `WakeInv`, for the second, says where an approval that is not yet
published or indexed is accounted for: a requested publication will read it, the
running one has read it, or it was lost to a failure that the next cycle retries.

`DrainIsABarrier` is about everything drain() owes: an approval decided before the
call and not yet indexed, a lane that ran. That nothing is owed when it returns is
not inductive, since a wake that arrives while drain() waits replaces a promise it
has seen resolved. `DrainInv` says that such a wake marks the round (`drain.again`),
that in an unmarked round every publication or cycle still open is one drain()
waits for, and what each owed thing is waiting for: an approval that is not
indexed, a pass among the lanes that drain() gathers. A round that is not
marked when it ends has therefore nothing left, and `WakeInv` says what an approval
without a publication is: published, and its search wanted, or lost.

The same module has the proofs about the slots that the service's model calls wait
for: it extends `ModelCallLimiter` as well (whose specification is therefore called
`LimiterSpec`) and proves `SlotsAlwaysFit` and `EpisodesPauseOnce` for any callers,
priorities, sessions, slots and pauses. `Sound` says of a limiter that who waits is
in its queue once, has its priority and does not run, that the counters are the
numbers of calls that run, and that a call under way when a pause began was
admitted before it (`PausesOk`). The first is why
`pump`, which shifts callers off the queues, admits nobody twice; the last is why
`admittedAt === pauses` excludes every call of an episode but the first to fail.
Each event (arrival, abort, end, timer, time) keeps it and ends in `pump`, for which
one lemma counts: the prefix of a queue of distinct callers has as many members as
its length.

`NobodyWaitsIdly`, `RequestsTakeTurns` and `BackgroundComesLast` are the safety core
of `AllServed`. `AllPrompt` says that a limiter at which somebody waits is in a pause
whose timer is set, or has every slot taken that the waiter's kind may have: a wake
that got lost would leave it neither. `InTurn` and `AbortedGone` say that only a
session's first unsettled request stands at the gate, so that sessions cannot fill
it with requests that wait for one another, and that nothing of an aborted session
waits. `BackgroundYields` is an action property: no step admits a background call
while an interactive one waits, or in a pause. All three need calls and requests
to be different (`NamesAssumption`: a caller's own call and a session's request
have names apart).

`MeetingLanes_proofs` proves `LanesTyped`, `LanesNeverOverfilled`,
`PassesStartAlone` and `ImportsWaitShortly` for any sources and lanes. A top-up
starts the first due sources of the round that fit: `StartedFit` counts them by
their distinct places in the round, since the sources it may start are those with
fewer due ones before them than lanes are free. `EveryTurnComesNearer` and
`NoLaneStaysEmpty` are the safety core of `ImportsServed`: a top-up leaves no lane
empty while a source is due, and each due source is started by it or comes nearer
by as many places as others are started. Nothing else moves the round, so that a
source that stays due is started after at most one start less than there are sources.

`SessionFiles_proofs` proves `SafeFromReplay` and `LiveStaysCurrent` for any
clients, sign-ins, rotations and crashes, with sign-ins between any two calls.
`KeptInv` holds until a client took another's session (`KeptUntilCrossed`). It says
that every token that may still be submitted (live, set aside by the client that
will read it, in the memory of one that will submit, restore or link it) is the
latest its family was issued, that one process at a time has it, and of a client
between two calls that no sign-in overtook (`Fresh`) that it is the only one, that
nothing is live, and that what lies aside is its own. An overtaken client
goes on with its own session, fails, or crosses. Nearly all of
the forty kinds of step only take tokens away, which one lemma (`QuietStep`) covers.

`RequestsKeepTheirs` needs no exception for crossing. `AccessInv` says that a client at
each place of a read or a refresh has its entry in the directory or had it cleared
by signing in or out (`Registered`), and that a read and a refresh that both passed
their checks have not both kept theirs (`Apart`): whoever looks second sees the
other's entry, so it waits.

`EntriesHaveOwners` and `NobodyWaitsInACircle` need none either, and are the safety
core of `WaitsEnd`. `OwnedInv` says that every entry of a living client in the
directory is one its present step accounts for. Therefore a wait is never for an
entry that nobody will remove, and `WaitsAreShort` says that waits form no circle: a
request waits for a refresh, that refresh for another client's request, and that
one for nobody, since it has passed its check. Chains of two do occur.

`SearchGenerations_proofs` proves `AlwaysComplete`, `StartsAgain` and
`PublishesTheHead` for any number of records, releases, faults, kills and power
losses. `CompleteInv` says at each phase which generations are durably in the
directory: both pointers', the one being built once it is flushed, and, while
others are deleted, that the commit which replaced them was flushed first.
Excepted throughout is a generation whose flush a kill or a failed step prevented
(`forgotten`); `AlwaysComplete` therefore also says that without kills and failed
steps the pointers' generations are durable with no exception, after any number of
power losses.
`EachRoundServes` and `SearchGoesOn` are the safety core of `SearchReturns`: each
reconciliation that does not fail leaves search answering at the head it read, unless
that is over the ceiling or no longer the head, and only an append, a failed step or
the end of the process takes search away again. Both rest on `ServedInv`: pointers never
run ahead of the log, so a generation under construction is newer than the served
one, and what is published is in the handle until the reconciliation ends.

`TriggerRuns_proofs` proves `OneAtATime`, `OneSetOfWrites` and `NewestVerdict` for
any runs, people, leases and restarts, with the types (`TypedInv`) as their
foundation. `CheckInv` relates the item's check to the two times remembered beside
it: an unreadable check is there only while no judged one was finished, stamped
with its own time, so that one bump covers it. `OneSweepOfAScope` says that a
person's sweep of a scope is not queued twice, and `QueueIsServed` is the safety core
of `RunsEnd`: what the desktop chooses to start is what the claim accepts, room
permitting, and while a run is not over some attempt researches, some lost lease has
yet to lapse, or such a choice exists.

The assumptions are those the modules name (`…Assumption`): bounds are naturals,
sets that are counted are finite, and `None` is none of the values it is put for.

Every safety invariant and every action property of the runs is a theorem. Only
model-checked: the liveness properties (`ImportSettles`, `ProposalReachesReviewer`,
`GrantSpent`, `PublishedInTheEnd`, `ImportsServed`, `GrantTried`, `WaitsEnd`,
`RunsEnd`, `SearchReturns`, `AllServed`), which are out of TLAPS's reach. What the
theorems called a safety core above add is the reason they hold, for any number
of actors: that nobody is left with no step of anyone to wait for. That such steps
are taken remains to fairness, and to TLC. Those theorems' statements were
also checked with TLC once, on the runs' instances or larger ones, before they
were proved.

## 6. What is not modelled, and the plan

Left out of the modelled parts: the watch's retention window and the bound on
passed-over meetings, folders, a seen mark slightly older than the content read,
adapter and digest assertions, signatures, the presentation of cards, OIDC and
enrolment, what research finds, the owners and messages of open items, the
contents and ranking of the search index. Not checked: that two equal suggestion
sets give equal snapshot bytes. With two overlapping processes a revision may be
parked although it has a result; the row is harmless and goes with the next retry.

Not modelled at all: the Slack presenter and tool connections, which
deliver through external services; Ask and research, which keep no shared state;
the HTTP edge, protocols, provider adapters, the desktop and the release tools,
which are pure functions, user interface or scripts. They make up most of the
repository's lines.

What remains worth doing, in order:

1. The startup of `ServiceLifecycle` as a whole, and the presenter's delivery.
2. What a client that crossed can still do to the session it took, as theorems.
