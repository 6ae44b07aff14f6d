------------------------- MODULE ApprovalPublication -------------------------
(***************************************************************************)
(* Deciding a frozen meeting proposal on any surface (approval-core-v1.ts) *)
(* and publishing approved decisions (approval-publisher-v1.ts): one       *)
(* record per destination in the record log (record-log-v4-append.ts), a   *)
(* database of its own, then the receipt and the after-record hooks in one *)
(* Authority transaction.  A publisher may die between any two steps, any  *)
(* row may fail, and several publishers may run.                           *)
(***************************************************************************)
EXTENDS Naturals, Sequences, FiniteSets

CONSTANTS
  Proposals,      \* proposals of the Authority's meetings
  Commands,       \* command ids of decision requests
  Surfaces,       \* "desktop" and "slack" in the code
  MaxGroups,      \* bound: destination groups of one decision
  Publishers,     \* publishers of this Authority's decisions
  PageSize,       \* rows of one publisher page, 25 in the code
  Unpublishable,  \* proposals whose records cannot be built
  None            \* absence

Groups == 1..MaxGroups

ASSUME ConstantsAssumption ==
  /\ IsFiniteSet(Proposals)
  /\ MaxGroups \in Nat \ {0} /\ PageSize \in Nat \ {0}
  /\ Unpublishable \subseteq Proposals
  /\ None \notin Publishers /\ None \notin Proposals
  /\ None \notin [prop : Proposals, cmd : Commands, surface : Surfaces, groups : 0..MaxGroups]

\* A decision request; it rejects with no group and approves with 1..groups,
\* numbered in the order of the snapshot's items.
Requests == [prop : Proposals, cmd : Commands, surface : Surfaces, groups : 0..MaxGroups]

VARIABLES
  box,       \* each proposal's outbox state
  member,    \* whether the reviewer's membership is active
  decision,  \* its decision row: the request, its sequence and its receipt
  log,       \* the record log: proposal and destination by position
  signed,    \* positions with a stored signed receipt
  runs,      \* rows the after-record hooks wrote, counted per record
  lock,      \* the publisher in a record-log write transaction
  pub,       \* each publisher's pass
  won        \* history: requests whose sender was told they decided

authority == <<box, member, decision, runs>>
recordlog == <<log, signed, lock>>
vars == <<box, member, decision, log, signed, runs, lock, pub, won>>

Undecided == [req |-> None, seq |-> 0, receipt |-> <<>>]
Idle == [pc |-> "idle", after |-> 0, rows |-> <<>>, prop |-> None, done |-> <<>>]

Init ==
  /\ box      = [p \in Proposals |-> "queued"]
  /\ member   = TRUE
  /\ decision = [p \in Proposals |-> Undecided]
  /\ log      = <<>>
  /\ signed   = {}
  /\ runs     = [p \in Proposals |-> [g \in Groups |-> 0]]
  /\ lock     = None
  /\ pub      = [w \in Publishers |-> Idle]
  /\ won      = {}

-----------------------------------------------------------------------------
(* The proposal and its decision. *)

Decided(p)  == decision[p].seq # 0
Chosen(p)   == 1..decision[p].req.groups
Approved(p) == Decided(p) /\ decision[p].req.groups > 0
Published(p) == decision[p].receipt # <<>>

\* The freeze, and a later revision (see MeetingProcessing).
Freeze(p) ==
  /\ box[p] = "queued" /\ member
  /\ box' = [box EXCEPT ![p] = "staged"]
  /\ UNCHANGED <<member, decision, runs, recordlog, pub, won>>

Supersede(p) ==
  /\ box[p] \in {"queued", "staged"} /\ ~Decided(p)
  /\ box' = [box EXCEPT ![p] = "superseded"]
  /\ UNCHANGED <<member, decision, runs, recordlog, pub, won>>

RevokeMember ==
  /\ member /\ member' = FALSE
  /\ UNCHANGED <<box, decision, runs, recordlog, pub, won>>

\* A mutant for TwoPublishers: the last decision wins.
AnswerLastWins(q) ==
  IF ~member THEN "denied"
  ELSE IF decision[q.prop].req = q THEN "replayed"
  ELSE IF box[q.prop] # "staged" THEN "stale"
  ELSE "decided"

\* What decide answers, in the order of its checks.
Answer(q) ==
  IF ~member THEN "denied"
  ELSE IF decision[q.prop].req = q THEN "replayed"
  ELSE IF Decided(q.prop) THEN "already_decided"
  ELSE IF \E p \in Proposals : Decided(p) /\ decision[p].req.cmd = q.cmd THEN "invalid"
  ELSE IF box[q.prop] # "staged" THEN "stale"
  ELSE "decided"

\* Sequences are AUTOINCREMENT: one above every earlier decision's.
NextSequence == Cardinality({p \in Proposals : Decided(p)}) + 1

Decide(q) ==
  /\ decision' = IF Answer(q) = "decided"
                   THEN [decision EXCEPT ![q.prop] =
                           [req |-> q, seq |-> NextSequence, receipt |-> <<>>]]
                   ELSE decision
  /\ won' = IF Answer(q) \in {"decided", "replayed"} THEN won \cup {q} ELSE won
  /\ UNCHANGED <<box, member, runs, recordlog, pub>>

-----------------------------------------------------------------------------
(* A publisher's pass. *)

At(w, pc) == pub[w].pc = pc
Goto(w, pc) == pub' = [pub EXCEPT ![w].pc = pc]
Prop(w) == pub[w].prop
Group(w) == Len(pub[w].done) + 1   \* the group it appends next
Entry(w) == <<Prop(w), Group(w)>>

\* A failed row is passed over; a later pass tries it again.
NextRow(w) == pub' = [pub EXCEPT ![w].pc = "row", ![w].done = <<>>]

Start(w) ==
  /\ At(w, "idle")
  /\ pub' = [pub EXCEPT ![w] = [Idle EXCEPT !.pc = "page"]]
  /\ UNCHANGED <<authority, recordlog, won>>

Unpublished(after) ==
  {p \in Proposals : Approved(p) /\ ~Published(p) /\ decision[p].seq > after}

\* The page: the unpublished approvals above the cursor, in sequence order.
Page(after, rows) ==
  LET n == Cardinality(Unpublished(after)) IN
  /\ Len(rows) = IF n < PageSize THEN n ELSE PageSize
  /\ \A i \in 1..Len(rows) :
       /\ rows[i] \in Unpublished(after)
       /\ Cardinality({p \in Unpublished(after) : decision[p].seq < decision[rows[i]].seq})
            = i - 1

ReadPage(w) ==
  /\ At(w, "page")
  /\ \E n \in 0..PageSize : \E rows \in [1..n -> Proposals] :
       /\ Page(pub[w].after, rows)
       /\ pub' = [pub EXCEPT ![w] = IF n = 0 THEN Idle
                                    ELSE [@ EXCEPT !.pc = "row", !.rows = rows]]
  /\ UNCHANGED <<authority, recordlog, won>>

\* A mutant for PublisherLiveness: a decision that cannot be built ends the pass.
TakeRowOrStop(w) ==
  LET p == Head(pub[w].rows) IN
  /\ At(w, "row") /\ pub[w].rows # <<>>
  /\ pub' = [pub EXCEPT ![w] =
       [pc |-> IF p \in Unpublishable THEN "idle" ELSE "append", after |-> decision[p].seq,
        rows |-> Tail(@.rows), prop |-> p, done |-> <<>>]]
  /\ UNCHANGED <<authority, recordlog, won>>

\* The cursor passes the row first. Every record is built before the first is
\* appended, so a decision that cannot be built leaves nothing behind.
TakeRow(w) ==
  LET p == Head(pub[w].rows) IN
  /\ At(w, "row") /\ pub[w].rows # <<>>
  /\ pub' = [pub EXCEPT ![w] =
       [pc |-> IF p \in Unpublishable THEN "row" ELSE "append", after |-> decision[p].seq,
        rows |-> Tail(@.rows), prop |-> p, done |-> <<>>]]
  /\ UNCHANGED <<authority, recordlog, won>>

EndOfPage(w) ==
  /\ At(w, "row") /\ pub[w].rows = <<>>
  /\ Goto(w, "page")
  /\ UNCHANGED <<authority, recordlog, won>>

\* The run is aborted between two rows.
Abort(w) ==
  /\ At(w, "row")
  /\ pub' = [pub EXCEPT ![w] = Idle]
  /\ UNCHANGED <<authority, recordlog, won>>

\* A mutant for TwoPublishers: the duplicate check runs outside the transaction.
BeginAppendUnlocked(w) ==
  /\ At(w, "append")
  /\ Goto(w, IF \E i \in DOMAIN log : log[i] = Entry(w) THEN "signing" ELSE "creating")
  /\ UNCHANGED <<authority, recordlog, won>>

\* BEGIN IMMEDIATE takes the log's write lock; a record already there is a
\* duplicate, and commits at once.
BeginAppend(w) ==
  /\ At(w, "append") /\ lock = None
  /\ IF \E i \in DOMAIN log : log[i] = Entry(w)
       THEN Goto(w, "signing") /\ UNCHANGED lock
       ELSE Goto(w, "creating") /\ lock' = w
  /\ UNCHANGED <<authority, log, signed, won>>

\* The envelope is signed inside the transaction, which then commits.
CommitAppend(w) ==
  /\ At(w, "creating")
  /\ log' = Append(log, Entry(w))
  /\ lock' = None
  /\ Goto(w, "signing")
  /\ UNCHANGED <<authority, signed, won>>

\* A mutant for TwoPublishers: the receipt is written after the first record.
StoreSignedOnce(w) ==
  /\ At(w, "signing")
  /\ \E i \in DOMAIN log :
       /\ log[i] = Entry(w)
       /\ signed' = signed \cup {i}
       /\ pub' = [pub EXCEPT ![w].done = Append(@, i), ![w].pc = "receipt"]
  /\ UNCHANGED <<authority, log, lock, won>>

\* The record's signed receipt is stored in its own autocommit, once.
StoreSigned(w) ==
  /\ At(w, "signing")
  /\ \E i \in DOMAIN log :
       /\ log[i] = Entry(w)
       /\ signed' = signed \cup {i}
       /\ pub' = [pub EXCEPT ![w].done = Append(@, i),
            ![w].pc = IF Group(w) = decision[Prop(w)].req.groups THEN "receipt" ELSE "append"]
  /\ UNCHANGED <<authority, log, lock, won>>

\* A busy or failing log, signer, receipt or hook fails the row: the open
\* transaction rolls back, and what was committed before stays.
RowFails(w) ==
  /\ pub[w].pc \in {"append", "creating", "signing", "receipt"}
  /\ lock' = IF lock = w THEN None ELSE lock
  /\ NextRow(w)
  /\ UNCHANGED <<authority, log, signed, won>>

\* A mutant for TwoPublishers: the hooks run although the receipt was there.
WriteReceiptAgain(w) ==
  LET p == Prop(w) IN
  /\ At(w, "receipt")
  /\ decision' = [decision EXCEPT ![p].receipt = pub[w].done]
  /\ runs' = [runs EXCEPT ![p] = [g \in Groups |-> IF g \in Chosen(p) THEN @[g] + 1 ELSE @[g]]]
  /\ NextRow(w)
  /\ UNCHANGED <<box, member, recordlog, won>>

\* One transaction: the receipt where there is none, and each hook once per
\* record. Another publisher's receipt is compared with this one's records.
WriteReceipt(w) ==
  LET p == Prop(w) IN
  /\ At(w, "receipt")
  /\ IF Published(p) THEN UNCHANGED <<decision, runs>>
     ELSE /\ decision' = [decision EXCEPT ![p].receipt = pub[w].done]
          /\ runs' = [runs EXCEPT ![p] =
                        [g \in Groups |-> IF g \in Chosen(p) THEN @[g] + 1 ELSE @[g]]]
  /\ NextRow(w)
  /\ UNCHANGED <<box, member, recordlog, won>>

Crash(w) ==
  /\ ~At(w, "idle")
  /\ lock' = IF lock = w THEN None ELSE lock
  /\ pub' = [pub EXCEPT ![w] = Idle]
  /\ UNCHANGED <<authority, log, signed, won>>

PassStep(w) ==
  \/ Start(w) \/ ReadPage(w) \/ TakeRow(w) \/ EndOfPage(w)
  \/ BeginAppend(w) \/ CommitAppend(w) \/ StoreSigned(w) \/ WriteReceipt(w)

Fault(w) == Abort(w) \/ RowFails(w) \/ Crash(w)

Next ==
  \/ \E w \in Publishers : PassStep(w) \/ Fault(w)
  \/ \E p \in Proposals : Freeze(p) \/ Supersede(p)
  \/ \E q \in Requests : Decide(q)
  \/ RevokeMember

Spec == Init /\ [][Next]_vars

\* Passes recur, and faults are finitely many. A fault that changes what an
\* ordinary step would is that step.
LiveSpec ==
  /\ Spec
  /\ \A w \in Publishers : WF_vars(PassStep(w))
  /\ <>[][\A w \in Publishers : Fault(w) => PassStep(w)]_vars

-----------------------------------------------------------------------------
(* Properties. *)

Boxes == {"queued", "staged", "superseded"}
Steps == {"idle", "page", "row", "append", "creating", "signing", "receipt"}
Rows  == [req : Requests \cup {None}, seq : Nat, receipt : Seq(Nat)]
Passes == [pc : Steps, after : Nat, rows : Seq(Proposals),
           prop : Proposals \cup {None}, done : Seq(Nat)]

\* Rows, the log and the publishers' memory have the shapes the code gives them.
TypeOK ==
  /\ box \in [Proposals -> Boxes]
  /\ member \in BOOLEAN
  /\ decision \in [Proposals -> Rows]
  /\ log \in Seq(Proposals \X Groups)
  /\ signed \subseteq DOMAIN log
  /\ runs \in [Proposals -> [Groups -> Nat]]
  /\ lock \in Publishers \cup {None}
  /\ pub \in [Publishers -> Passes]
  /\ won \subseteq Requests

\* However its publishers crash, race or retry, a decision has at most one
\* record per destination.
OneRecordPerGroup ==
  \A i, j \in DOMAIN log : log[i] = log[j] => i = j

\* Nothing but an approval's chosen destinations reaches the log: no rejected,
\* undecided or superseded proposal does.
OnlyApprovedRecorded ==
  \A i \in DOMAIN log : LET p == log[i][1] IN
    Approved(p) /\ log[i][2] \in Chosen(p) /\ box[p] = "staged"

\* A receipt names exactly its decision's records, in group order, each in the
\* log with its signed receipt.
ReceiptComplete ==
  \A p \in Proposals : Published(p) =>
    /\ Approved(p)
    /\ Len(decision[p].receipt) = decision[p].req.groups
    /\ \A g \in Chosen(p) :
         /\ decision[p].receipt[g] \in signed
         /\ log[decision[p].receipt[g]] = <<p, g>>

\* Each hook's effect is there once per record of a published decision and not
\* at all before, whoever wrote the receipt.
HooksOncePerRecord ==
  \A p \in Proposals, g \in Groups :
    runs[p][g] = IF Published(p) /\ g \in Chosen(p) THEN 1 ELSE 0

\* A publisher that finds another's receipt finds its own records in it, so the
\* "receipt conflicts with the stored records" failure never happens.
ReceiptsAgree ==
  \A w \in Publishers :
    At(w, "receipt") /\ Published(Prop(w)) => decision[Prop(w)].receipt = pub[w].done

\* Whoever was told that a request decided was told the truth, for good: the
\* decision is that request's, on its surface, with its command.
WinnersDecided == \A q \in won : decision[q.prop].req = q

\* A command id decides at most one proposal.
CommandDecidesOnce ==
  \A p, q \in Proposals :
    Decided(p) /\ Decided(q) /\ decision[p].req.cmd = decision[q].req.cmd => p = q

\* Every approved decision that can be built is published in the end, also
\* when a decision before it never can.
PublishedInTheEnd ==
  \A p \in Proposals \ Unpublishable : Approved(p) ~> Published(p)

-----------------------------------------------------------------------------
(* The refinement of ApprovalRegister. *)

Outcome(p) ==
  IF Published(p) THEN "published"
  ELSE IF Approved(p) THEN "approved"
  ELSE IF Decided(p) THEN "rejected"
  ELSE IF box[p] = "staged" THEN "open"
  ELSE IF box[p] = "superseded" THEN "withdrawn"
  ELSE "queued"

Register == INSTANCE ApprovalRegister WITH
  outcome  <- [p \in Proposals |-> Outcome(p)],
  audience <- [p \in Proposals |-> IF Decided(p) THEN Chosen(p) ELSE {}],
  records  <- {log[i] : i \in DOMAIN log}

\* The approval core keeps the register's promise.
RegisterSpec == Register!Spec
=============================================================================
