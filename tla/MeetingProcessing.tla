-------------------------- MODULE MeetingProcessing --------------------------
(***************************************************************************)
(* One person's meeting source: the provider's rolling window and import   *)
(* queue, the passes that pull one revision at a time, extract it at most  *)
(* once, freeze its proposal and advance the checkpoint, and the person    *)
(* and operator acting meanwhile.                                          *)
(*                                                                         *)
(* An action is one SQLite transaction (or one in-memory step) of a pass.  *)
(* A pass may die between any two of them.  Each pass is the one pass its  *)
(* process runs on this source; a person's request is served by the        *)
(* process Server and so runs only where that process's pass awaits its    *)
(* provider or its model, everything between being synchronous.            *)
(***************************************************************************)
EXTENDS Naturals, Sequences, SequencesExt

CONSTANTS
  Meetings,     \* meetings of the person's tool account
  Content,      \* Content[n]: the revision a meeting holds after its n-th edit
  Input,        \* Input[r]: the review input of revision r (what extraction reads)
  Decisions,    \* the review semantics an extraction can produce
  NoCommitment, \* the one of them without a decision or action signal
  Projects,     \* projects a meeting can be suggested to
  Passes,       \* processes that run a pass on this source
  Server,       \* the one of them that serves requests
  MaxSettings,  \* bound: changes of the watch settings
  MaxAttempt,   \* bound: attempts per review input (see ExtractionLedger)
  None          \* absence

Edits     == 1..Len(Content)
Revisions == {Content[n] : n \in Edits}
Inputs    == {Input[r] : r \in Revisions}

ASSUME ConstantsAssumption ==
  /\ Server \in Passes
  /\ NoCommitment \in Decisions
  /\ Len(Content) \in Nat
  /\ MaxSettings \in Nat /\ MaxAttempt \in Nat \ {0}

VARIABLES
  edits,      \* provider: edits of each meeting so far, its updated_at; 0 before it exists
  cursor,     \* the source's checkpoint
  setting,    \* the stored watch and its settings_revision
  member,     \* whether the person's membership is active
  joined,     \* projects the person is an active member of
  pending,    \* project choices of queued imports
  suggested,  \* recorded suggestions
  cand,       \* candidates with their outbox row, by meeting and revision
  head,       \* the lineage head's revision
  held,       \* parked extractions, one per lineage
  attempt, outcome, failure, permitted, fresh, claim,   \* the attempt ledger
  billed, unbilled, automatic, operator,                \* its history
  pass,       \* the pass each process runs
  asked       \* history: updated_at of a meeting when its live import was queued, 0 if none

provider == <<edits>>
intake   == <<cursor, setting, member, joined, pending, suggested>>
review   == <<cand, head, held>>
ledger   == <<attempt, outcome, failure, permitted, fresh, claim,
              billed, unbilled, automatic, operator>>
vars     == <<edits, cursor, setting, member, joined, pending, suggested,
              cand, head, held, attempt, outcome, failure, permitted, fresh,
              claim, billed, unbilled, automatic, operator, pass, asked>>

Ledger == INSTANCE ExtractionLedger
            WITH Keys <- Meetings \X Inputs, Workers <- Passes, NoClaim <- None

\* The rows the tables and a pass hold.
Boxes  == {"none", "queued", "staged", "superseded"}
Stages == {"none", "failed", "interrupted", "output_not_saved", "cancelled", "not_recorded"}
Steps  == {"idle", "pulling", "admitted", "reserving", "calling", "granting", "parking",
           "closing", "rereading", "persisting", "staging", "advancing", "reconciling"}
Stamps == 0..Len(Content)
Cursors == [queue : Seq(Meetings), on : BOOLEAN, base : BOOLEAN,
            since : [Meetings -> Stamps], seen : [Meetings -> Stamps]]
Candidates == [dec : Decisions, box : Boxes, proj : SUBSET Projects, decided : BOOLEAN]
Parked == [r : Revisions, attempt : 1..MaxAttempt, stage : Stages \ {"none"}]

ASSUME NoneAssumption ==
  /\ None \notin Meetings /\ None \notin Revisions /\ None \notin Decisions
  /\ None \notin Cursors /\ None \notin Candidates /\ None \notin Parked
  /\ None \notin Ledger!Claims

Idle == [pc |-> "idle", src |-> "pull", set |-> 0, adm |-> None, next |-> None,
         m |-> None, r |-> None, stage |-> "none", dec |-> None,
         failed |-> FALSE, cancelled |-> FALSE]

Init ==
  /\ edits     = [m \in Meetings |-> 0]
  /\ cursor    = [queue |-> <<>>, on |-> FALSE, base |-> FALSE,
                  since |-> [m \in Meetings |-> 0], seen |-> [m \in Meetings |-> 0]]
  /\ setting   = [rev |-> 0, on |-> FALSE, proj |-> None]
  /\ member    = TRUE
  /\ joined    = Projects
  /\ pending   = [m \in Meetings |-> {}]
  /\ suggested = [m \in Meetings |-> {}]
  /\ cand      = [m \in Meetings |-> [r \in Revisions |-> None]]
  /\ head      = [m \in Meetings |-> None]
  /\ held      = [m \in Meetings |-> None]
  /\ Ledger!Init
  /\ pass      = [p \in Passes |-> Idle]
  /\ asked     = [m \in Meetings |-> 0]

-----------------------------------------------------------------------------
(* The checkpoint and its compare-and-swap. *)

Queued(c) == ToSet(c.queue)

\* A queue, which names a meeting once, without meeting m.
Dequeued(q, m) ==
  IF m \in ToSet(q) THEN RemoveAt(q, CHOOSE i \in DOMAIN q : q[i] = m) ELSE q

\* The imports dropped from the queue between two checkpoints.
Consumed(from, to) == Queued(from) \ Queued(to)
WithoutQueue(c) == [c EXCEPT !.queue = <<>>]

\* A mutant for TwoImports: the queue of the pull instead of the current one.
RebaseDroppingNew(from, to, now) ==
  IF /\ WithoutQueue(from) = WithoutQueue(now)
     /\ Consumed(from, to) \subseteq Queued(now)
    THEN to ELSE None

\* Where a pull from "from" to "to", which consumed the head of its queue or
\* nothing, advances when the queue changed since; None when its import was
\* cancelled or anything but the queue changed.
Rebase(from, to, now) ==
  IF /\ WithoutQueue(from) = WithoutQueue(now)
     /\ Consumed(from, to) \subseteq Queued(now)
    THEN [to EXCEPT !.queue = IF Consumed(from, to) = {} THEN now.queue
                              ELSE Dequeued(now.queue, Head(from.queue))]
    ELSE None

PullStillApplies(from, to) ==
  from = cursor \/ (to # None /\ Rebase(from, to, cursor) # None)

-----------------------------------------------------------------------------
(* Passes. *)

At(p, pc) == pass[p].pc = pc
Goto(p, pc) == pass' = [pass EXCEPT ![p].pc = pc]
End(p) == pass' = [pass EXCEPT ![p] = Idle]

\* requireCurrent: the membership is active and the settings are the pass's.
Current(p) == member /\ setting.rev = pass[p].set

KeyOf(m, r) == <<m, Input[r]>>
Key(p) == KeyOf(pass[p].m, pass[p].r)
PullOf(p) == pass[p].src = "pull"

\* A mutant for EditsAndWatch: a frozen head is frozen again.
UnfrozenOrOpen == {mr \in Meetings \X Revisions :
                     /\ head[mr[1]] = mr[2]
                     /\ cand[mr[1]][mr[2]].box \in {"queued", "staged"}}

\* Queued proposals that are their lineage's head.
Unfrozen == {mr \in Meetings \X Revisions :
               head[mr[1]] = mr[2] /\ cand[mr[1]][mr[2]].box = "queued"}

\* runSource starts a pull: the source is watched or has a queued import.
StartPull(p) ==
  /\ At(p, "idle") /\ member
  /\ setting.on \/ cursor.queue # <<>>
  /\ pass' = [pass EXCEPT ![p] = [Idle EXCEPT !.pc = "pulling", !.set = setting.rev,
                                              !.adm = cursor]]
  /\ UNCHANGED <<provider, intake, review, ledger, asked>>

\* A mutant for ProposalReachesReviewer: an unwatched source's failed freeze is forgotten.
StartFreezeOfWatched(p) ==
  /\ At(p, "idle") /\ member
  /\ setting.on /\ cursor.queue = <<>> /\ Unfrozen # {}
  /\ pass' = [pass EXCEPT ![p] = [Idle EXCEPT !.pc = "reconciling"]]
  /\ UNCHANGED <<provider, intake, review, ledger, asked>>

\* Only a failed freeze is left: the pass retries it without the provider.
StartFreeze(p) ==
  /\ At(p, "idle") /\ member
  /\ ~setting.on /\ cursor.queue = <<>> /\ Unfrozen # {}
  /\ pass' = [pass EXCEPT ![p] = [Idle EXCEPT !.pc = "reconciling"]]
  /\ UNCHANGED <<provider, intake, review, ledger, asked>>

\* A mutant for GrantSpent: only a failed attempt is retried.
StartRetryOfFailed(p) ==
  /\ At(p, "idle") /\ member
  /\ \E m \in Meetings :
       /\ held[m] # None
       /\ permitted[KeyOf(m, held[m].r)] /\ outcome[KeyOf(m, held[m].r)] = "failed"
       /\ pass' = [pass EXCEPT ![p] =
                     [Idle EXCEPT !.pc = "admitted", !.src = "retry", !.set = setting.rev,
                                  !.adm = cursor, !.m = m, !.r = held[m].r]]
  /\ UNCHANGED <<provider, intake, review, ledger, asked>>

\* retryHeldOnce picks a parked revision whose latest attempt may be retried.
StartRetry(p) ==
  /\ At(p, "idle") /\ member
  /\ \E m \in Meetings :
       /\ held[m] # None
       /\ permitted[KeyOf(m, held[m].r)]
       /\ pass' = [pass EXCEPT ![p] =
                     [Idle EXCEPT !.pc = "admitted", !.src = "retry", !.set = setting.rev,
                                  !.adm = cursor, !.m = m, !.r = held[m].r]]
  /\ UNCHANGED <<provider, intake, review, ledger, asked>>

\* The provider fails the pull; an adapter error still reconciles proposals.
PullFails(p) ==
  /\ At(p, "pulling")
  /\ End(p) \/ Goto(p, "reconciling")
  /\ UNCHANGED <<provider, intake, review, ledger, asked>>

\* The custody transaction admits nothing: access or the checkpoint changed.
CustodyCurrent(p) == Current(p) /\ cursor = pass[p].adm

CustodyRefuses(p) ==
  /\ At(p, "pulling") /\ ~CustodyCurrent(p)
  /\ End(p)
  /\ UNCHANGED <<provider, intake, review, ledger, asked>>

Admit(p, m, next) ==
  pass' = [pass EXCEPT ![p].pc = "admitted", ![p].m = m, ![p].r = Content[edits[m]],
                       ![p].next = next]

\* A queued import goes first and is never passed over.
PullImport(p) ==
  LET adm == pass[p].adm IN
  /\ At(p, "pulling") /\ CustodyCurrent(p)
  /\ adm.queue # <<>>
  /\ Admit(p, Head(adm.queue), [adm EXCEPT !.queue = Tail(@)])
  /\ UNCHANGED <<provider, intake, review, ledger, asked>>

\* The first pull after a watch change imports nothing: it marks the window's
\* meetings that were last edited before the change.
PullBaseline(p) ==
  LET adm == pass[p].adm IN
  /\ At(p, "pulling") /\ Current(p)
  /\ adm.queue = <<>> /\ ~adm.base
  /\ pass' = [pass EXCEPT ![p].pc = "advancing",
       ![p].next = [adm EXCEPT !.base = TRUE,
                      !.seen = [m \in Meetings |->
                                  IF edits[m] = adm.since[m] THEN edits[m] ELSE 0]]]
  /\ UNCHANGED <<provider, intake, review, ledger, asked>>

\* A later pull marks the unreadable changed meetings it passes over and takes
\* at most one readable, settled one; recordAdmission keeps the watch's project.
PullWatch(p) ==
  LET adm     == pass[p].adm
      changed == {m \in Meetings : edits[m] # 0 /\ adm.seen[m] # edits[m]}
      marked(M) == [adm EXCEPT !.seen = [m \in Meetings |->
                                           IF m \in M THEN edits[m] ELSE @[m]]] IN
  /\ At(p, "pulling") /\ adm.queue = <<>> /\ adm.base
  /\ \E over \in SUBSET changed :
       \/ /\ Current(p)
          /\ pass' = [pass EXCEPT ![p].pc = "advancing", ![p].next = marked(over)]
          /\ UNCHANGED suggested
       \/ \E m \in changed \ over :
            /\ CustodyCurrent(p)
            /\ Admit(p, m, marked(over \cup {m}))
            /\ suggested' = [suggested EXCEPT ![m] = @ \cup ({setting.proj} \cap joined)]
  /\ UNCHANGED <<provider, cursor, setting, member, joined, pending, review, ledger, asked>>

\* The frozen candidate of this revision, if any, is all there is to do.
AlreadyFrozen(p) ==
  LET m == pass[p].m
      c == cand[m][pass[p].r] IN
  /\ At(p, "admitted") /\ member
  /\ c # None
  /\ held' = IF ~PullOf(p) /\ held[m] # None /\ held[m].r = pass[p].r
               THEN [held EXCEPT ![m] = None] ELSE held
  /\ Goto(p, IF c.box = "queued" THEN "staging" ELSE "advancing")
  /\ UNCHANGED <<provider, intake, cand, head, ledger, asked>>

\* Another revision's extraction of the same input is rebound, without a call.
Reuse(p) ==
  /\ At(p, "admitted") /\ member
  /\ cand[pass[p].m][pass[p].r] = None
  /\ \E r \in Revisions :
       /\ Input[r] = Input[pass[p].r] /\ cand[pass[p].m][r] # None
       /\ pass' = [pass EXCEPT ![p].dec = cand[pass[p].m][r].dec,
                               ![p].pc = IF PullOf(p) THEN "persisting" ELSE "rereading"]
  /\ UNCHANGED <<provider, intake, review, ledger, asked>>

NothingFrozen(p) ==
  /\ At(p, "admitted") /\ member
  /\ \A r \in Revisions : Input[r] = Input[pass[p].r] => cand[pass[p].m][r] = None
  /\ Goto(p, "reserving")
  /\ UNCHANGED <<provider, intake, review, ledger, asked>>

\* The reads refuse a revoked person.
ReadRefused(p) ==
  /\ At(p, "admitted") \/ At(p, "rereading")
  /\ ~member
  /\ End(p)
  /\ UNCHANGED <<provider, intake, review, ledger, asked>>

-----------------------------------------------------------------------------
(* The attempt and the call. *)

Reserve(p) ==
  /\ At(p, "reserving")
  /\ Ledger!Reserve(p, Key(p))
  /\ Goto(p, "calling")
  /\ UNCHANGED <<provider, intake, review, asked>>

\* A fresh pending attempt may be running elsewhere: the revision stays put.
\* Any other blocked reservation parks the revision without a model call.
BlockedStage(k) ==
  IF outcome[k] = "pending" THEN "interrupted"
  ELSE IF outcome[k] = "succeeded" THEN "output_not_saved"
  ELSE IF failure[k] = "cancelled" THEN "cancelled"
  ELSE "not_recorded"

\* A mutant for EditsAndWatch: an attempt that succeeded is
\* taken for a processed revision.
BlockedOnSuccess(p) ==
  /\ At(p, "reserving") /\ ~Ledger!Reservable(Key(p))
  /\ IF Ledger!InFlight(Key(p)) THEN Goto(p, "reconciling")
     ELSE IF outcome[Key(p)] = "succeeded" THEN Goto(p, "advancing")
     ELSE pass' = [pass EXCEPT ![p].pc = "parking", ![p].stage = BlockedStage(Key(p))]
  /\ UNCHANGED <<provider, intake, review, ledger, asked>>

Blocked(p) ==
  /\ At(p, "reserving") /\ ~Ledger!Reservable(Key(p))
  /\ IF Ledger!InFlight(Key(p))
       THEN Goto(p, "reconciling")
       ELSE pass' = [pass EXCEPT ![p].pc = "parking", ![p].stage = BlockedStage(Key(p))]
  /\ UNCHANGED <<provider, intake, review, ledger, asked>>

Extracted(p) ==
  /\ At(p, "calling")
  /\ Ledger!Succeed(p)
  /\ \E d \in Decisions :
       pass' = [pass EXCEPT ![p].dec = d,
                            ![p].pc = IF PullOf(p) THEN "persisting" ELSE "rereading"]
  /\ UNCHANGED <<provider, intake, review, asked>>

Aborted(p) ==
  /\ At(p, "calling")
  /\ Ledger!Abort(p)
  /\ End(p)
  /\ UNCHANGED <<provider, intake, review, asked>>

RefusedFirst(p) ==
  /\ At(p, "calling") /\ PullOf(p)
  /\ Ledger!RefuseFirst(p)
  /\ Goto(p, "granting")
  /\ UNCHANGED <<provider, intake, review, asked>>

GrantRetry(p) ==
  /\ At(p, "granting")
  /\ Ledger!GrantAutomatic(p)
  /\ Goto(p, "reconciling")
  /\ UNCHANGED <<provider, intake, review, asked>>

ExtractionFails(p) ==
  /\ At(p, "calling")
  /\ Ledger!FailBilled(p) \/ Ledger!FailUnbilled(p)
  /\ pass' = [pass EXCEPT ![p].pc = "parking", ![p].stage = "failed"]
  /\ UNCHANGED <<provider, intake, review, asked>>

\* The first stage reported for an attempt stays with its parked revision.
FirstStage(m, r, n, stage) ==
  IF held[m] # None /\ Input[held[m].r] = Input[r] /\ held[m].attempt = n
    THEN held[m].stage ELSE stage

\* holdExtraction: at most one row per lineage. A pull that no longer applies
\* parks nothing.
Park(p) ==
  LET me == pass[p]
      n  == attempt[Key(p)]
  IN
  /\ At(p, "parking") /\ Current(p)
  /\ held' = IF PullOf(p) /\ ~PullStillApplies(me.adm, me.next) THEN held
             ELSE [held EXCEPT ![me.m] =
                     [r |-> me.r, attempt |-> n,
                      stage |-> FirstStage(me.m, me.r, n, me.stage)]]
  /\ Goto(p, IF claim[p] = None THEN "advancing" ELSE "closing")
  /\ UNCHANGED <<provider, intake, cand, head, ledger, asked>>

\* A park that throws closes the attempt and reports the failure.
ParkRefused(p) ==
  /\ At(p, "parking") /\ ~Current(p)
  /\ IF claim[p] = None THEN End(p)
     ELSE pass' = [pass EXCEPT ![p].pc = "closing", ![p].failed = TRUE]
  /\ UNCHANGED <<provider, intake, review, ledger, asked>>

CloseAttempt(p) ==
  /\ At(p, "closing")
  /\ Ledger!CloseFailed(p)
  /\ IF pass[p].failed THEN End(p) \/ Goto(p, "reconciling") ELSE Goto(p, "advancing")
  /\ UNCHANGED <<provider, intake, review, asked>>

-----------------------------------------------------------------------------
(* The candidate, its proposal and the checkpoint. *)

\* A retry from custody persists against the admission it reads now.
Reread(p) ==
  /\ At(p, "rereading") /\ member
  /\ pass' = [pass EXCEPT ![p].pc = "persisting", ![p].adm = cursor]
  /\ UNCHANGED <<provider, intake, review, ledger, asked>>

PersistAllowed(p) == Current(p) /\ PullStillApplies(pass[p].adm, pass[p].next)

\* A mutant for EditsAndWatch: a proposal the reviewer was shown is not superseded.
SupersededQueued(m) ==
  [r \in Revisions |->
     IF cand[m][r] # None /\ cand[m][r].box = "queued"
       THEN [cand[m][r] EXCEPT !.box = "superseded"]
       ELSE cand[m][r]]

\* A result for the lineage, or a cancelled import, ends its parked extraction.
Unparked(m) == [held EXCEPT ![m] = None]

\* stageCandidate: the first snapshot of a revision stays. A new semantic
\* supersedes the lineage's undecided proposals and becomes its head.
Superseded(m) ==
  [r \in Revisions |->
     IF cand[m][r] # None /\ cand[m][r].box \in {"queued", "staged"} /\ ~cand[m][r].decided
       THEN [cand[m][r] EXCEPT !.box = "superseded"]
       ELSE cand[m][r]]

Persist(p) ==
  LET m == pass[p].m
      r == pass[p].r
      d == pass[p].dec
      changed == head[m] = None \/ cand[m][head[m]].dec # d
      box == IF changed /\ d # NoCommitment THEN "queued" ELSE "none"
      fresh_row == [dec |-> d, box |-> box, proj |-> {}, decided |-> FALSE]
      others == IF changed THEN Superseded(m) ELSE cand[m]
  IN
  /\ At(p, "persisting") /\ PersistAllowed(p)
  /\ IF cand[m][r] # None
       THEN /\ UNCHANGED review
            /\ Goto(p, IF cand[m][r].box = "none" THEN "advancing" ELSE "staging")
       ELSE /\ cand' = [cand EXCEPT ![m] = [others EXCEPT ![r] = fresh_row]]
            /\ head' = IF changed THEN [head EXCEPT ![m] = r] ELSE head
            /\ held' = Unparked(m)
            /\ Goto(p, IF box = "queued" THEN "staging" ELSE "advancing")
  /\ UNCHANGED <<provider, intake, ledger, asked>>

PersistRefused(p) ==
  /\ At(p, "persisting") /\ ~PersistAllowed(p)
  /\ End(p)
  /\ UNCHANGED <<provider, intake, review, ledger, asked>>

\* The freeze writes the snapshot with the meeting's suggestions and its
\* still-pending choices of projects the person is in.
Frozen(m, c) == [c EXCEPT !.box = "staged", !.proj = suggested[m] \cup (pending[m] \cap joined)]

Stage(p) ==
  LET m == pass[p].m
      r == pass[p].r IN
  /\ At(p, "staging")
  /\ IF ~member \/ cand[m][r].box = "superseded"
       THEN Goto(p, "reconciling") /\ UNCHANGED cand
       ELSE /\ Goto(p, "advancing")
            /\ cand' = IF cand[m][r].box = "staged" THEN cand
                       ELSE [cand EXCEPT ![m][r] = Frozen(m, @)]
  /\ UNCHANGED <<provider, intake, head, held, ledger, asked>>

\* A failed freeze leaves the proposal queued and releases the intake.
StageFails(p) ==
  /\ At(p, "staging") /\ member
  /\ cand[pass[p].m][pass[p].r].box = "queued"
  /\ pass' = [pass EXCEPT ![p].pc = "advancing", ![p].failed = TRUE]
  /\ UNCHANGED <<provider, intake, review, ledger, asked>>

Moves(p) == pass[p].next # None /\ pass[p].next # pass[p].adm

\* What the compare-and-swap moves the checkpoint to, None when it refuses.
AdvanceTo(p) ==
  IF cursor = pass[p].adm THEN pass[p].next
  ELSE LET to == Rebase(pass[p].adm, pass[p].next, cursor)
       IN IF to = cursor THEN None ELSE to

\* The rest of a run: reconcile, unless a failed freeze is rethrown.
AfterAdvance(p) == IF pass[p].failed THEN End(p) ELSE Goto(p, "reconciling")

\* A mutant for EditsAndWatch: promoted choices stay pending.
ChoicesKept(gone) == pending

\* Consumed imports have no pending choices left.
ChoicesLeft(gone) == [m \in Meetings |-> IF m \in gone THEN {} ELSE pending[m]]

\* advanceCursor: each import the move drops was consumed, and its pending
\* choices become suggestions in the same transaction.
Advance(p) ==
  LET to == AdvanceTo(p)
      gone == Consumed(cursor, to) IN
  /\ At(p, "advancing") /\ Moves(p) /\ Current(p)
  /\ IF to = None THEN UNCHANGED <<cursor, suggested, pending>>
     ELSE /\ cursor' = to
          /\ suggested' = [m \in Meetings |->
               IF m \in gone THEN suggested[m] \cup (pending[m] \cap joined) ELSE suggested[m]]
          /\ pending' = ChoicesLeft(gone)
  /\ AfterAdvance(p)
  /\ UNCHANGED <<provider, setting, member, joined, review, ledger, asked>>

Stays(p) ==
  /\ At(p, "advancing") /\ ~Moves(p)
  /\ AfterAdvance(p)
  /\ UNCHANGED <<provider, intake, review, ledger, asked>>

AdvanceRefused(p) ==
  /\ At(p, "advancing") /\ Moves(p) /\ ~Current(p)
  /\ End(p)
  /\ UNCHANGED <<provider, intake, review, ledger, asked>>

\* reconcilePendingDeliveries: re-freezes queued heads; each freeze may fail.
Reconcile(p) ==
  /\ At(p, "reconciling")
  /\ \E done \in SUBSET (IF member THEN Unfrozen ELSE {}) :
       cand' = [m \in Meetings |-> [r \in Revisions |->
                  IF <<m, r>> \in done THEN Frozen(m, cand[m][r]) ELSE cand[m][r]]]
  /\ End(p)
  /\ UNCHANGED <<provider, intake, head, held, ledger, asked>>

\* The process dies, or the run is aborted between two steps.
Crash(p) ==
  /\ ~At(p, "idle")
  /\ End(p)
  /\ IF claim[p] = None THEN UNCHANGED ledger ELSE Ledger!Crash(p)
  /\ UNCHANGED <<provider, intake, review, asked>>

-----------------------------------------------------------------------------
(* The provider, the person and the operator. *)

Edit(m) ==
  /\ edits[m] < Len(Content)
  /\ edits' = [edits EXCEPT ![m] = @ + 1]
  /\ UNCHANGED <<intake, review, ledger, pass, asked>>

\* Requests run where the serving process awaits.
Serving == member /\ pass[Server].pc \in {"idle", "pulling", "calling"}

\* A fresh import is remembered, unless a cancelled pull of it still runs.
Importing(p, m) ==
  /\ pass[p].pc # "idle" /\ pass[p].src = "pull"
  /\ pass[p].adm # None /\ pass[p].adm.queue # <<>> /\ m = Head(pass[p].adm.queue)

Cancelled(m) == \E p \in Passes : pass[p].cancelled /\ Importing(p, m)

Import(m, proj) ==
  /\ Serving /\ edits[m] # 0
  /\ proj \in joined \cup {None}
  /\ cursor' = IF m \in Queued(cursor) THEN cursor
               ELSE [cursor EXCEPT !.queue = Append(@, m)]
  /\ pending' = [pending EXCEPT ![m] = ({proj} \ {None}) \cup
                                        (IF m \in Queued(cursor) THEN @ ELSE {})]
  /\ asked' = IF m \in Queued(cursor) THEN asked
              ELSE [asked EXCEPT ![m] = IF Cancelled(m) THEN 0 ELSE edits[m]]
  /\ UNCHANGED <<provider, setting, member, joined, suggested, review, ledger, pass>>

CancelImport(m) ==
  /\ Serving
  /\ cursor' = [cursor EXCEPT !.queue = Dequeued(@, m)]
  /\ pending' = [pending EXCEPT ![m] = {}]
  /\ held' = Unparked(m)
  /\ asked' = [asked EXCEPT ![m] = 0]
  /\ pass' = [p \in Passes |-> IF Importing(p, m)
                THEN [pass[p] EXCEPT !.cancelled = TRUE] ELSE pass[p]]
  /\ UNCHANGED <<provider, setting, member, joined, suggested, cand, head, ledger>>

\* A changed watch restarts change detection; another suggestion for the same
\* watch only bumps the revision, which still fences a pass in flight.
Watch(on, same, proj) ==
  /\ Serving /\ setting.rev < MaxSettings
  /\ on \/ setting.on
  /\ proj \in joined \cup {None} /\ (~on => proj = None)
  /\ same => on /\ setting.on /\ proj # setting.proj
  /\ setting' = [rev |-> setting.rev + 1, on |-> on, proj |-> proj]
  /\ cursor' = IF same THEN cursor
               ELSE [cursor EXCEPT !.on = on, !.base = FALSE, !.since = edits,
                                   !.seen = [m \in Meetings |-> 0]]
  /\ UNCHANGED <<provider, member, joined, pending, suggested, review, ledger, pass, asked>>

LeaveProject(q) ==
  /\ q \in joined /\ joined' = joined \ {q}
  /\ UNCHANGED <<provider, cursor, setting, member, pending, suggested, review,
                 ledger, pass, asked>>

RevokeMember ==
  /\ member /\ member' = FALSE
  /\ UNCHANGED <<provider, cursor, setting, joined, pending, suggested, review,
                 ledger, pass, asked>>

\* The reviewer decides a staged proposal (see ApprovalPublication).
Decide(m, r) ==
  /\ Serving
  /\ cand[m][r] # None /\ cand[m][r].box = "staged" /\ ~cand[m][r].decided
  /\ cand' = [cand EXCEPT ![m][r].decided = TRUE]
  /\ UNCHANGED <<provider, intake, head, held, ledger, pass, asked>>

LeaseExpires(m, i) ==
  /\ Ledger!LeaseExpires(<<m, i>>)
  /\ UNCHANGED <<provider, intake, review, pass, asked>>

\* The operator's command: the lane is stopped and nothing frozen owns the input.
GrantOperator(m, i) ==
  /\ \A p \in Passes : At(p, "idle")
  /\ \A r \in Revisions : Input[r] = i => cand[m][r] = None
  /\ Ledger!GrantOperator(<<m, i>>)
  /\ UNCHANGED <<provider, intake, review, pass, asked>>

PassStep(p) ==
  \/ StartPull(p) \/ StartFreeze(p) \/ StartRetry(p)
  \/ PullFails(p) \/ CustodyRefuses(p)
  \/ PullImport(p) \/ PullBaseline(p) \/ PullWatch(p)
  \/ AlreadyFrozen(p) \/ Reuse(p) \/ NothingFrozen(p) \/ ReadRefused(p)
  \/ Reserve(p) \/ Blocked(p)
  \/ Extracted(p) \/ Aborted(p) \/ RefusedFirst(p) \/ GrantRetry(p) \/ ExtractionFails(p)
  \/ Park(p) \/ ParkRefused(p) \/ CloseAttempt(p)
  \/ Reread(p) \/ Persist(p) \/ PersistRefused(p) \/ Stage(p) \/ StageFails(p)
  \/ Advance(p) \/ Stays(p) \/ AdvanceRefused(p) \/ Reconcile(p)

Next ==
  \/ \E p \in Passes : PassStep(p) \/ Crash(p)
  \/ \E m \in Meetings :
       \/ Edit(m) \/ CancelImport(m)
       \/ \E proj \in Projects \cup {None} : Import(m, proj)
       \/ \E r \in Revisions : Decide(m, r)
       \/ \E i \in Inputs : LeaseExpires(m, i) \/ GrantOperator(m, i)
  \/ \E on, same \in BOOLEAN, proj \in Projects \cup {None} : Watch(on, same, proj)
  \/ \E q \in Projects : LeaveProject(q)
  \/ RevokeMember

Spec == Init /\ [][Next]_vars

\* What the environment must eventually stop doing for work to get done: a
\* process dying, the provider or the model failing, a freeze failing, a person
\* changing the queue under a pull (which then ends as a failed pull does). A
\* crash that changes only what an ordinary step would is that step.
FreezeFails(p) ==
  At(p, "reconciling") /\ member /\ cand' # [m \in Meetings |-> [r \in Revisions |->
    IF <<m, r>> \in Unfrozen THEN Frozen(m, cand[m][r]) ELSE cand[m][r]]]

Fault ==
  \E p \in Passes :
    \/ Crash(p) /\ ~PassStep(p)
    \/ PullFails(p)
    \/ Reconcile(p) /\ FreezeFails(p)
    \/ Aborted(p)
    \/ StageFails(p)

\* The worker polls for ever (a pass of an idle source starts again, a due retry
\* goes before the next pull), time passes, and faults are finitely many.
LiveSpec ==
  /\ Spec
  /\ \A p \in Passes : WF_vars(PassStep(p)) /\ SF_vars(StartRetry(p))
  /\ WF_vars(\E m \in Meetings, i \in Inputs : LeaseExpires(m, i))
  /\ <>[][~Fault]_vars

-----------------------------------------------------------------------------
(* Properties. *)

\* The tables hold rows their schema admits: a queued import at most once, a
\* proposal box only for a candidate with a commitment, no decision on a
\* proposal that was never staged.
TypeOK ==
  /\ edits \in [Meetings -> Stamps]
  /\ cursor \in Cursors /\ IsInjective(cursor.queue)
  /\ ~cursor.base => \A m \in Meetings : cursor.seen[m] = 0
  /\ setting \in [rev : 0..MaxSettings, on : BOOLEAN, proj : Projects \cup {None}]
  /\ setting.on = cursor.on
  /\ member \in BOOLEAN /\ joined \subseteq Projects
  /\ pending \in [Meetings -> SUBSET Projects]
  /\ suggested \in [Meetings -> SUBSET Projects]
  /\ \A m \in Meetings, r \in Revisions : cand[m][r] # None =>
       /\ cand[m][r] \in Candidates
       /\ cand[m][r].dec = NoCommitment => cand[m][r].box = "none"
       /\ cand[m][r].decided => cand[m][r].box = "staged"
  /\ \A m \in Meetings : held[m] \in Parked \cup {None}
  /\ \A p \in Passes :
       /\ pass[p].pc \in Steps
       /\ pass[p].stage \in Stages
       /\ claim[p] # None <=> pass[p].pc \in {"calling", "granting", "closing"}
                             \/ (pass[p].pc = "parking" /\ pass[p].stage = "failed")

\* No paid call for an input that already has a frozen extraction: the reuse
\* read, the reservation and the operator's check together keep it out.
NeverPayTwice ==
  \A p \in Passes, r \in Revisions :
    At(p, "calling") /\ Input[r] = Input[pass[p].r] => cand[pass[p].m][r] = None

\* A person never has two open proposals of one meeting, and the open one is
\* the lineage's head.
Open(m) == {r \in Revisions : /\ cand[m][r] # None
                              /\ cand[m][r].box \in {"queued", "staged"}
                              /\ ~cand[m][r].decided}

OneOpenProposal == \A m \in Meetings : Open(m) \subseteq {head[m]}

\* An import the person queued and did not cancel is never lost: it is still
\* queued, or a revision no older than the one it was queued at has a frozen
\* result, or is parked for an operator. Crashes, failures, lost
\* compare-and-swaps, settings changes and other imports do not drop it.
Covered(m) ==
  \E n \in asked[m]..edits[m] :
    \/ cand[m][Content[n]] # None
    \/ held[m] # None /\ held[m].r = Content[n]

NoLostImport ==
  \A m \in Meetings : asked[m] # 0 => m \in Queued(cursor) \/ Covered(m)

\* Pending project choices exist only while their import is queued
\* (the comment in enqueue), so no later import inherits them.
PendingOnlyQueued ==
  \A m \in Meetings : pending[m] # {} => m \in Queued(cursor)

\* The checkpoint moves past a pulled revision only once that revision has a
\* frozen result or is parked, in whatever way the pass got there.
AdvancePast(p) ==
  At(p, "advancing") /\ pass'[p].pc # "advancing" /\ cursor' # cursor

AdvanceSettled ==
  [][\A p \in Passes :
       AdvancePast(p) /\ pass[p].m # None /\ ~pass[p].cancelled =>
         \/ cand[pass[p].m][pass[p].r] # None
         \/ held[pass[p].m] # None /\ held[pass[p].m].r = pass[p].r]_vars

\* A decided proposal never changes again, a superseded one never reopens and
\* a frozen one keeps its suggestions, whatever later revisions bring.
ProposalsFinal ==
  [][\A m \in Meetings, r \in Revisions : cand[m][r] # None =>
       /\ cand'[m][r] # None /\ cand'[m][r].dec = cand[m][r].dec
       /\ cand[m][r].decided => cand'[m][r] = cand[m][r]
       /\ cand[m][r].box = "superseded" => cand'[m][r].box = "superseded"
       /\ cand[m][r].box = "staged" => cand'[m][r].proj = cand[m][r].proj]_vars

\* No queued import waits for ever: it is consumed, parked and passed, or
\* cancelled, or its person is revoked, whatever crashes and failures came first.
ImportSettles ==
  \A m \in Meetings : m \in Queued(cursor) ~> m \notin Queued(cursor) \/ ~member

\* No proposal stays unfrozen for ever: failed freezes are retried even when
\* nothing is left to import, until no meeting has an unfrozen proposal.
ProposalReachesReviewer ==
  Unfrozen # {} ~> Unfrozen = {} \/ ~member

\* A retry an operator granted for a parked meeting is spent, or the meeting is
\* no longer parked.
Granted(m) == held[m] # None /\ permitted[KeyOf(m, held[m].r)]
GrantSpent == \A m \in Meetings : Granted(m) ~> ~Granted(m) \/ ~member
=============================================================================
