----------------------- MODULE MeetingProcessing_proofs -----------------------
(***************************************************************************)
(* What a meeting source's passes, its person and its operator keep, for   *)
(* any meetings, revisions, projects and processes.                        *)
(***************************************************************************)
EXTENDS MeetingProcessing, SequenceTheorems, TLAPS

Attempts == INSTANCE ExtractionLedger_proofs
              WITH Keys <- Meetings \X Inputs, Workers <- Passes, NoClaim <- None

-----------------------------------------------------------------------------
(* Types.                                                                    *)

Rows == [pc : Steps, src : {"pull", "retry"}, set : 0..MaxSettings,
         adm : Cursors \cup {None}, next : Cursors \cup {None},
         m : Meetings \cup {None}, r : Revisions \cup {None}, stage : Stages,
         dec : Decisions \cup {None}, failed : BOOLEAN, cancelled : BOOLEAN]

\* A checkpoint queues a meeting once and marks none before its baseline.
Sound(c) ==
  /\ c \in Cursors /\ IsInjective(c.queue)
  /\ ~c.base => \A m \in Meetings : c.seen[m] = 0

\* A pull keeps its queue or takes its head, and leaves the watch alone.
Pulled(from, to, m) ==
  /\ Sound(to) /\ from # None /\ to.on = from.on
  /\ \/ to.queue = from.queue
     \/ from.queue # <<>> /\ to.queue = Tail(from.queue) /\ m = Head(from.queue)

OnRevision == {"admitted", "reserving", "calling", "granting", "parking", "closing",
               "rereading", "persisting", "staging"}

\* What a pass knows at each of its steps.
RowSound(me) ==
  /\ me.pc \in OnRevision => me.m # None
  /\ me.m # None => me.r # None /\ (me.src = "pull" => me.next # None)
  /\ me.pc = "pulling" => me.src = "pull" /\ me.m = None /\ me.next = None
  /\ me.src = "retry" => me.next = None
  /\ me.pc \notin {"idle", "reconciling"} => me.adm # None
  /\ me.adm # None => Sound(me.adm)
  /\ me.next # None => Pulled(me.adm, me.next, me.m)
  /\ me.pc \in {"rereading", "persisting"} => me.dec # None
  /\ me.pc = "rereading" => me.src = "retry"
  /\ me.pc = "parking" => me.stage # "none"

PassSound == pass \in [Passes -> Rows] /\ \A p \in Passes : RowSound(pass[p])

Stored ==
  /\ edits \in [Meetings -> Stamps] /\ asked \in [Meetings -> Stamps]
  /\ Sound(cursor)
  /\ setting \in [rev : 0..MaxSettings, on : BOOLEAN, proj : Projects \cup {None}]
  /\ setting.on = cursor.on
  /\ member \in BOOLEAN /\ joined \subseteq Projects
  /\ pending \in [Meetings -> SUBSET Projects]
  /\ suggested \in [Meetings -> SUBSET Projects]

\* Imports are of meetings the provider has.
ImportsExist ==
  /\ \A m \in Queued(cursor) : edits[m] # 0
  /\ \A p \in Passes : pass[p].adm # None => \A m \in Queued(pass[p].adm) : edits[m] # 0

Review ==
  /\ cand \in [Meetings -> [Revisions -> Candidates \cup {None}]]
  /\ head \in [Meetings -> Revisions \cup {None}]
  /\ held \in [Meetings -> Parked \cup {None}]
  /\ \A m \in Meetings, r \in Revisions : cand[m][r] # None =>
       /\ cand[m][r].dec = NoCommitment => cand[m][r].box = "none"
       /\ cand[m][r].decided => cand[m][r].box = "staged"
  /\ \A m \in Meetings : head[m] # None => cand[m][head[m]] # None
  /\ \A p \in Passes : At(p, "staging") =>
       cand[pass[p].m][pass[p].r] # None /\ cand[pass[p].m][pass[p].r].box # "none"

\* A pass at these steps holds a claim on its revision's input.
Claiming(p) == pass[p].pc \in {"calling", "granting", "closing"} \/ (At(p, "parking") /\ pass[p].stage = "failed")

LinkOf(p) ==
  /\ claim[p] # None <=> Claiming(p)
  /\ claim[p] # None =>
       /\ claim[p].key = Key(p)
       /\ claim[p].phase = IF pass[p].pc \in {"calling", "granting"} THEN pass[p].pc ELSE "failing"
  /\ At(p, "parking") => attempt[Key(p)] # 0

Linked == \A p \in Passes : LinkOf(p)

Inv == PassSound /\ Stored /\ ImportsExist /\ Review /\ OneOpenProposal /\ Attempts!IndInv /\ Linked

-----------------------------------------------------------------------------
(* The queue.                                                                *)

\* Dropping a meeting from a queue that names it once leaves the others.
LEMMA DequeuedIs ==
  ASSUME NEW q \in Seq(Meetings), IsInjective(q), NEW m
  PROVE  /\ Dequeued(q, m) \in Seq(Meetings)
         /\ IsInjective(Dequeued(q, m))
         /\ ToSet(Dequeued(q, m)) = ToSet(q) \ {m}
<1>1. CASE m \notin ToSet(q)
  BY <1>1 DEF Dequeued
<1>2. CASE m \in ToSet(q)
  <2> DEFINE i == CHOOSE i \in DOMAIN q : q[i] = m
  <2>1. i \in 1..Len(q) /\ q[i] = m
    BY <1>2 DEF ToSet
  <2> HIDE DEF i
  <2> DEFINE d == RemoveAt(q, i)
  <2>2. Dequeued(q, m) = d
    BY <1>2 DEF Dequeued, i
  <2>3. /\ d \in Seq(Meetings) /\ Len(d) = Len(q) - 1
        /\ \A j \in 1..Len(d) : d[j] = q[IF j < i THEN j ELSE j + 1]
    <3>1. d = SubSeq(q, 1, i - 1) \o SubSeq(q, i + 1, Len(q))
      BY DEF RemoveAt
    <3> DEFINE a == SubSeq(q, 1, i - 1)
               b == SubSeq(q, i + 1, Len(q))
    <3>2. a \in Seq(Meetings) /\ Len(a) = i - 1 /\ \A j \in 1..i-1 : a[j] = q[j]
      BY <2>1, SubSeqProperties
    <3>3. b \in Seq(Meetings) /\ Len(b) = Len(q) - i /\ \A j \in 1..Len(q)-i : b[j] = q[j + i]
      BY <2>1, SubSeqProperties
    <3>4. d = a \o b
      BY <3>1
    <3> HIDE DEF a, b, d
    <3>5. /\ d \in Seq(Meetings) /\ Len(d) = Len(a) + Len(b)
          /\ \A j \in 1..Len(a) + Len(b) : d[j] = IF j <= Len(a) THEN a[j] ELSE b[j - Len(a)]
      BY <3>2, <3>3, <3>4, ConcatProperties, Zenon
    <3>6. Len(d) = Len(q) - 1
      BY <2>1, <3>2, <3>3, <3>5
    <3>7. ASSUME NEW j \in 1..Len(d) PROVE d[j] = q[IF j < i THEN j ELSE j + 1]
      <4>1. CASE j < i
        BY <2>1, <3>2, <3>3, <3>5, <3>6, <4>1
      <4>2. CASE j >= i
        <5>1. j - (i - 1) \in 1..Len(q)-i /\ (j - (i - 1)) + i = j + 1
          BY <2>1, <3>6, <4>2
        <5>2. d[j] = b[j - (i - 1)]
          BY <2>1, <3>2, <3>3, <3>5, <3>6, <4>2
        <5>3. d[j] = q[(j - (i - 1)) + i]
          BY <3>3, <5>1, <5>2
        <5>4. ~(j < i)
          BY <2>1, <3>6, <4>2
        <5> QED
          BY <5>1, <5>3, <5>4
      <4> QED
        BY <2>1, <4>1, <4>2
    <3> QED
      BY <3>5, <3>6, <3>7
  <2> HIDE DEF d
  <2>4. IsInjective(d)
    BY <2>1, <2>3 DEF IsInjective
  <2>5. ToSet(d) \subseteq ToSet(q) \ {m}
    BY <2>1, <2>3 DEF IsInjective, ToSet
  <2>6. ASSUME NEW x \in ToSet(q), x # m PROVE x \in ToSet(d)
    <3>1. PICK k \in 1..Len(q) : q[k] = x
      BY DEF ToSet
    <3>2. (IF k < i THEN k ELSE k - 1) \in 1..Len(d) /\ k # i
      BY <2>1, <2>3, <2>6, <3>1
    <3>3. d[IF k < i THEN k ELSE k - 1] = x
      BY <2>1, <2>3, <3>1, <3>2
    <3> QED
      BY <2>3, <3>2, <3>3 DEF ToSet
  <2> QED
    BY <2>2, <2>3, <2>4, <2>5, <2>6
<1> QED
  BY <1>1, <1>2

\* What a checkpoint keeps when a meeting leaves its queue or one is marked.
LEMMA CursorFields ==
  ASSUME NEW c \in Cursors
  PROVE  /\ c.queue \in Seq(Meetings) /\ c.on \in BOOLEAN /\ c.base \in BOOLEAN
         /\ c.since \in [Meetings -> Stamps] /\ c.seen \in [Meetings -> Stamps]
         /\ c # None
BY NoneAssumption DEF Cursors

\* A sound checkpoint with another queue that names meetings once is sound.
LEMMA Requeued ==
  ASSUME NEW c, Sound(c), NEW q \in Seq(Meetings), IsInjective(q)
  PROVE  LET d == [c EXCEPT !.queue = q] IN
         /\ Sound(d) /\ d.queue = q
         /\ d.on = c.on /\ d.base = c.base /\ d.since = c.since /\ d.seen = c.seen
BY DEF Sound, Cursors

\* A queue without its head is the queue without that meeting.
LEMMA TailIs ==
  ASSUME NEW q \in Seq(Meetings), IsInjective(q), q # <<>>
  PROVE  /\ Tail(q) \in Seq(Meetings) /\ IsInjective(Tail(q))
         /\ Head(q) \in ToSet(q)
         /\ ToSet(Tail(q)) = ToSet(q) \ {Head(q)}
<1>1. /\ Tail(q) \in Seq(Meetings) /\ Len(Tail(q)) = Len(q) - 1 /\ Len(q) \in Nat \ {0}
      /\ \A i \in 1..Len(Tail(q)) : Tail(q)[i] = q[i + 1]
  BY HeadTailProperties, EmptySeq
<1>2. Head(q) = q[1] /\ 1 \in 1..Len(q)
  BY <1>1
<1> DEFINE t == Tail(q)
<1> HIDE DEF t
<1>3. /\ t \in Seq(Meetings) /\ Len(t) = Len(q) - 1
      /\ \A i \in 1..Len(t) : t[i] = q[i + 1]
  BY <1>1 DEF t
<1>4. IsInjective(t)
  <2> SUFFICES ASSUME NEW a \in 1..Len(t), NEW b \in 1..Len(t), t[a] = t[b] PROVE a = b
    BY <1>3 DEF IsInjective
  <2>1. a + 1 \in DOMAIN q /\ b + 1 \in DOMAIN q /\ q[a + 1] = q[b + 1]
    BY <1>1, <1>3
  <2>2. a + 1 = b + 1
    BY <2>1, Zenon DEF IsInjective
  <2> QED
    BY <1>1, <1>3, <2>2
<1>5. ToSet(t) \subseteq ToSet(q) \ {q[1]}
  BY <1>1, <1>3 DEF ToSet, IsInjective
<1>6. ASSUME NEW x \in ToSet(q), x # q[1] PROVE x \in ToSet(t)
  <2>1. PICK k \in 1..Len(q) : q[k] = x
    BY DEF ToSet
  <2>2. k - 1 \in 1..Len(t) /\ t[k - 1] = x
    BY <1>1, <1>3, <1>6, <2>1
  <2> QED
    BY <1>3, <2>2 DEF ToSet
<1>7. q[1] \in ToSet(q)
  BY <1>2 DEF ToSet
<1> QED
  BY <1>2, <1>3, <1>4, <1>5, <1>6, <1>7 DEF t

-----------------------------------------------------------------------------
(* How a pass's row changes.                                                 *)

\* The fields of a row.
LEMMA RowFields ==
  ASSUME NEW me \in Rows
  PROVE  /\ me.pc \in Steps /\ me.src \in {"pull", "retry"} /\ me.set \in 0..MaxSettings
         /\ me.adm \in Cursors \cup {None} /\ me.next \in Cursors \cup {None}
         /\ me.m \in Meetings \cup {None} /\ me.r \in Revisions \cup {None}
         /\ me.stage \in Stages /\ me.dec \in Decisions \cup {None}
         /\ me.failed \in BOOLEAN /\ me.cancelled \in BOOLEAN
BY DEF Rows

\* The steps there are.
LEMMA StepNames ==
  {"admitted", "advancing", "parking", "closing", "persisting", "rereading"} \subseteq Steps
BY DEF Steps

\* One pass's row changes.
LEMMA RowMoves ==
  ASSUME PassSound, NEW p \in Passes, NEW row \in Rows, RowSound(row), pass' = [pass EXCEPT ![p] = row]
  PROVE  PassSound' /\ pass'[p] = row /\ \A q \in Passes \ {p} : pass'[q] = pass[q]
BY DEF PassSound

\* A pass goes on, keeping what it knows.
LEMMA Goes ==
  ASSUME PassSound, NEW p \in Passes, NEW pc \in Steps, Goto(p, pc),
         RowSound([pass[p] EXCEPT !.pc = pc])
  PROVE  PassSound' /\ pass'[p] = [pass[p] EXCEPT !.pc = pc] /\ \A q \in Passes \ {p} : pass'[q] = pass[q]
<1>1. [pass[p] EXCEPT !.pc = pc] \in Rows
  BY DEF PassSound, Rows
<1> QED
  BY <1>1, RowMoves DEF Goto

\* An idle pass knows nothing, which is sound.
LEMMA IdleSound == Idle \in Rows /\ RowSound(Idle)
BY ConstantsAssumption DEF Idle, Rows, RowSound, Steps, Stages, OnRevision

\* A pass ends and knows nothing any more.
LEMMA Ends ==
  ASSUME PassSound, NEW p \in Passes, End(p)
  PROVE  PassSound' /\ pass'[p] = Idle /\ \A q \in Passes \ {p} : pass'[q] = pass[q]
BY IdleSound, RowMoves DEF End

\* A pass goes on to a step whose knowledge it has.
LEMMA Continues ==
  ASSUME PassSound, NEW p \in Passes, NEW pc \in Steps \ {"idle", "pulling"}, Goto(p, pc),
         pc \in OnRevision => pass[p].m # None,
         pc # "reconciling" => pass[p].adm # None,
         pc \in {"rereading", "persisting"} => pass[p].dec # None,
         pc = "rereading" => pass[p].src = "retry",
         pc = "parking" => pass[p].stage # "none"
  PROVE  PassSound' /\ pass'[p] = [pass[p] EXCEPT !.pc = pc] /\ \A q \in Passes \ {p} : pass'[q] = pass[q]
<1>1. RowSound([pass[p] EXCEPT !.pc = pc])
  BY DEF PassSound, RowSound, Rows
<1> QED
  BY <1>1, Goes

\* No step of a pass changes the row of another.
Alone(p) == PassSound' /\ \A q \in Passes \ {p} : pass'[q] = pass[q]

\* A started pass leaves sound rows and the other passes alone.
LEMMA StartsAlone ==
  ASSUME Inv, NEW p \in Passes, StartPull(p) \/ StartFreeze(p) \/ StartRetry(p)
  PROVE  Alone(p)
<1> USE DEF Inv
<1>1. CASE StartPull(p)
  <2> DEFINE row == [Idle EXCEPT !.pc = "pulling", !.set = setting.rev, !.adm = cursor]
  <2>1. row \in Rows /\ RowSound(row)
    BY IdleSound, CursorFields DEF Idle, Rows, RowSound, OnRevision, Stored, Sound, Steps
  <2> QED
    BY <1>1, <2>1, RowMoves DEF StartPull, Alone
<1>2. CASE StartFreeze(p)
  <2> DEFINE row == [Idle EXCEPT !.pc = "reconciling"]
  <2>1. row \in Rows /\ RowSound(row)
    BY IdleSound DEF Idle, Rows, RowSound, OnRevision, Steps
  <2> QED
    BY <1>2, <2>1, RowMoves DEF StartFreeze, Alone
<1>3. CASE StartRetry(p)
  <2>1. PICK m \in Meetings : /\ held[m] # None
          /\ pass' = [pass EXCEPT ![p] = [Idle EXCEPT !.pc = "admitted", !.src = "retry",
                        !.set = setting.rev, !.adm = cursor, !.m = m, !.r = held[m].r]]
    BY <1>3 DEF StartRetry
  <2> DEFINE row == [Idle EXCEPT !.pc = "admitted", !.src = "retry", !.set = setting.rev,
                                 !.adm = cursor, !.m = m, !.r = held[m].r]
  <2>2. held[m].r \in Revisions
    BY <2>1 DEF Review, Parked
  <2>3. cursor \in Cursors /\ cursor # None /\ Sound(cursor)
    BY CursorFields DEF Stored, Sound
  <2>4. row \in Rows
    BY <2>2, <2>3, IdleSound, StepNames DEF Idle, Rows, Stored
  <2>5. /\ row.pc = "admitted" /\ row.src = "retry" /\ row.adm = cursor /\ row.next = None
        /\ row.m = m /\ row.r = held[m].r
    BY DEF Idle
  <2> HIDE DEF row
  <2>6. row.m # None /\ row.r # None
    BY <2>2, <2>5, NoneAssumption
  <2>7. RowSound(row)
    BY <2>3, <2>5, <2>6 DEF RowSound
  <2>8. pass' = [pass EXCEPT ![p] = row]
    BY <2>1 DEF row
  <2> QED
    BY <2>4, <2>7, <2>8, RowMoves DEF Alone
<1> QED
  BY <1>1, <1>2, <1>3

\* So does a pull, whatever it takes and marks.
LEMMA PullsAlone ==
  ASSUME Inv, NEW p \in Passes,
         PullFails(p) \/ CustodyRefuses(p) \/ PullImport(p) \/ PullBaseline(p) \/ PullWatch(p)
  PROVE  Alone(p)
<1> USE DEF Inv
<1>1. CASE PullFails(p) \/ CustodyRefuses(p)
  BY <1>1, Ends, Continues DEF PullFails, CustodyRefuses, Alone, Steps, OnRevision
<1> DEFINE adm == pass[p].adm
<1>2. ASSUME At(p, "pulling")
      PROVE  /\ pass[p] \in Rows /\ pass[p].src = "pull" /\ pass[p].m = None /\ pass[p].next = None
             /\ Sound(adm) /\ adm \in Cursors /\ adm # None
  BY <1>2 DEF At, PassSound, RowSound, Sound
<1>3. ASSUME NEW m \in Meetings, NEW next, At(p, "pulling"), edits[m] # 0, Admit(p, m, next),
             Pulled(adm, next, m)
      PROVE  Alone(p)
  <2> DEFINE row == [pass[p] EXCEPT !.pc = "admitted", !.m = m, !.r = Content[edits[m]], !.next = next]
  <2>1. Content[edits[m]] \in Revisions
    BY <1>3, ConstantsAssumption DEF Stored, Stamps, Revisions, Edits
  <2>2. next \in Cursors /\ next # None
    BY <1>3, CursorFields DEF Pulled, Sound
  <2>3. row \in Rows
    BY <1>2, <1>3, <2>1, <2>2 DEF Rows, Steps
  <2>4. RowSound(row)
    BY <1>2, <1>3, <2>1, <2>2, NoneAssumption DEF RowSound, Rows, OnRevision
  <2>5. pass' = [pass EXCEPT ![p] = row]
    BY <1>3 DEF Admit
  <2> QED
    BY <2>3, <2>4, <2>5, RowMoves DEF Alone
<1>4. ASSUME NEW next, At(p, "pulling"), Pulled(adm, next, None),
             pass' = [pass EXCEPT ![p].pc = "advancing", ![p].next = next]
      PROVE  Alone(p)
  <2> DEFINE row == [pass[p] EXCEPT !.pc = "advancing", !.next = next]
  <2>1. next \in Cursors /\ next # None
    BY <1>4, CursorFields DEF Pulled, Sound
  <2>2. row \in Rows
    BY <1>2, <1>4, <2>1, StepNames DEF Rows
  <2>3. row.pc = "advancing" /\ row.next = next /\ row.adm = adm /\ row.m = None /\ row.src = "pull"
    BY <1>2, <1>4 DEF Rows
  <2>4. pass' = [pass EXCEPT ![p] = row]
    BY <1>4
  <2> HIDE DEF row
  <2>5. RowSound(row)
    BY <1>2, <1>4, <2>1, <2>3 DEF RowSound, OnRevision
  <2> QED
    BY <2>2, <2>4, <2>5, RowMoves DEF Alone
<1>5. CASE PullImport(p)
  <2>1. At(p, "pulling") /\ adm.queue # <<>> /\ Admit(p, Head(adm.queue), [adm EXCEPT !.queue = Tail(@)])
    BY <1>5 DEF PullImport
  <2>2. /\ Head(adm.queue) \in Queued(adm) /\ Head(adm.queue) \in Meetings
        /\ Tail(adm.queue) \in Seq(Meetings) /\ IsInjective(Tail(adm.queue))
    BY <1>2, <2>1, TailIs, CursorFields, HeadTailProperties DEF Sound, Queued
  <2>3. edits[Head(adm.queue)] # 0
    BY <1>2, <2>1, <2>2 DEF ImportsExist
  <2>4. Pulled(adm, [adm EXCEPT !.queue = Tail(@)], Head(adm.queue))
    BY <1>2, <2>1, <2>2, Requeued DEF Pulled
  <2> QED
    BY <1>3, <2>1, <2>2, <2>3, <2>4
<1>6. CASE PullBaseline(p)
  <2> DEFINE seen == [m \in Meetings |-> IF edits[m] = adm.since[m] THEN edits[m] ELSE 0]
             next == [adm EXCEPT !.base = TRUE, !.seen = seen]
  <2>1. At(p, "pulling") /\ pass' = [pass EXCEPT ![p].pc = "advancing", ![p].next = next]
    BY <1>6 DEF PullBaseline
  <2>2. seen \in [Meetings -> Stamps]
    BY ConstantsAssumption DEF Stored, Stamps
  <2> HIDE DEF seen
  <2>3. Pulled(adm, next, None)
    BY <1>2, <2>1, <2>2 DEF Pulled, Sound, Cursors
  <2> HIDE DEF next
  <2> QED
    BY <1>4, <2>1, <2>3
<1>7. CASE PullWatch(p)
  <2> DEFINE changed == {m \in Meetings : edits[m] # 0 /\ adm.seen[m] # edits[m]}
             seen(M) == [m \in Meetings |-> IF m \in M THEN edits[m] ELSE adm.seen[m]]
             marked(M) == [adm EXCEPT !.seen = seen(M)]
  <2>1. At(p, "pulling") /\ adm.base
    BY <1>7 DEF PullWatch
  <2>2. PICK over \in SUBSET changed :
          \/ pass' = [pass EXCEPT ![p].pc = "advancing", ![p].next = marked(over)]
          \/ \E m \in changed \ over : Admit(p, m, marked(over \cup {m}))
    BY <1>7 DEF PullWatch
  <2>3. ASSUME NEW M, NEW m PROVE Pulled(adm, marked(M), m)
    <3>1. seen(M) \in [Meetings -> Stamps]
      BY <1>2, <2>1, CursorFields DEF Stored
    <3> HIDE DEF seen
    <3> QED
      BY <1>2, <2>1, <3>1 DEF Pulled, Sound, Cursors
  <2> HIDE DEF marked
  <2> QED
    BY <1>3, <1>4, <2>1, <2>2, <2>3
<1> QED
  BY <1>1, <1>5, <1>6, <1>7

\* A pass at a step on a revision knows it, and its pull.
LEMMA OnOne ==
  ASSUME PassSound, NEW p \in Passes, pass[p].pc \in OnRevision \cup {"advancing"}
  PROVE  /\ pass[p] \in Rows /\ RowSound(pass[p]) /\ pass[p].adm # None /\ pass[p].adm \in Cursors
         /\ pass[p].pc # "advancing" =>
              /\ pass[p].m \in Meetings /\ pass[p].r \in Revisions
              /\ Key(p) \in Meetings \X Inputs
BY DEF PassSound, RowSound, Rows, OnRevision, Key, KeyOf, Inputs

\* A row that keeps what the pull gave it, and what a pass on a revision knows
\* with it at each step.
KeepsKnown(me, row) ==
  row.m = me.m /\ row.r = me.r /\ row.src = me.src /\ row.adm = me.adm /\ row.next = me.next

LEMMA Knows ==
  ASSUME NEW me, RowSound(me), me.pc \in OnRevision, NEW row, KeepsKnown(me, row),
         row.pc \in {"parking", "closing", "advancing", "persisting", "rereading"},
         row.pc \in {"persisting", "rereading"} => row.dec # None,
         row.pc = "rereading" => row.src = "retry",
         row.pc = "parking" => row.stage # "none"
  PROVE  RowSound(row)
<1>1. me.m # None /\ me.adm # None /\ Sound(me.adm)
  BY DEF RowSound, OnRevision
<1> QED
  BY <1>1 DEF RowSound, KeepsKnown, OnRevision

\* A decision comes with the next step: persisting for a pull, rereading for a retry.
LEMMA Decides ==
  ASSUME PassSound, NEW p \in Passes, NEW d \in Decisions, pass[p].pc \in OnRevision,
         pass' = [pass EXCEPT ![p].dec = d,
                              ![p].pc = IF PullOf(p) THEN "persisting" ELSE "rereading"]
  PROVE  Alone(p)
<1> DEFINE pc == IF PullOf(p) THEN "persisting" ELSE "rereading"
           row == [pass[p] EXCEPT !.dec = d, !.pc = pc]
<1>1. pc \in {"persisting", "rereading"} /\ (pc = "rereading" => pass[p].src = "retry")
  BY OnOne, RowFields DEF PullOf
<1>2. pass' = [pass EXCEPT ![p] = row]
  OBVIOUS
<1> HIDE DEF pc
<1>3. pass[p] \in Rows /\ RowSound(pass[p]) /\ d # None
  BY NoneAssumption DEF PassSound
<1>4. row \in Rows
  BY <1>1, <1>3, StepNames DEF Rows
<1>5. row.dec = d /\ row.pc = pc /\ row.src = pass[p].src /\ KeepsKnown(pass[p], row)
  BY <1>3 DEF Rows, KeepsKnown
<1> HIDE DEF row
<1>6. RowSound(row)
  <2>1. /\ row.pc \in {"persisting", "rereading"} /\ row.dec # None
        /\ row.pc = "rereading" => row.src = "retry"
    BY <1>1, <1>3, <1>5
  <2>2. row.pc \in {"parking", "closing", "advancing", "persisting", "rereading"} /\ row.pc # "parking"
    BY <2>1
  <2> QED
    BY <1>3, <1>5, <2>1, <2>2, Knows
<1> QED
  BY <1>2, <1>4, <1>6, RowMoves DEF Alone

\* So do the reads of what is frozen.
LEMMA ReadsAlone ==
  ASSUME Inv, NEW p \in Passes,
         AlreadyFrozen(p) \/ Reuse(p) \/ NothingFrozen(p) \/ ReadRefused(p)
  PROVE  Alone(p)
<1> USE DEF Inv
<1>1. CASE AlreadyFrozen(p)
  <2>1. Goto(p, "staging") \/ Goto(p, "advancing")
    BY <1>1 DEF AlreadyFrozen
  <2> QED
    BY <1>1, <2>1, Continues, OnOne DEF AlreadyFrozen, At, Alone, Steps, OnRevision, RowSound
<1>2. CASE NothingFrozen(p)
  BY <1>2, Continues, OnOne DEF NothingFrozen, At, Alone, Steps, OnRevision, RowSound
<1>3. CASE ReadRefused(p)
  BY <1>3, Ends DEF ReadRefused, Alone
<1>4. CASE Reuse(p)
  <2>1. PICK r \in Revisions :
          /\ cand[pass[p].m][r] # None
          /\ pass' = [pass EXCEPT ![p].dec = cand[pass[p].m][r].dec,
                                  ![p].pc = IF PullOf(p) THEN "persisting" ELSE "rereading"]
    BY <1>4 DEF Reuse
  <2>2. pass[p].m \in Meetings /\ pass[p].pc \in OnRevision
    BY <1>4, OnOne DEF Reuse, At, OnRevision
  <2>3. cand[pass[p].m][r].dec \in Decisions
    BY <2>1, <2>2 DEF Review, Candidates
  <2> QED
    BY <2>1, <2>2, <2>3, Decides
<1> QED
  BY <1>1, <1>2, <1>3, <1>4

\* So do the attempt, the call and the park.
LEMMA CallsAlone ==
  ASSUME Inv, NEW p \in Passes,
         \/ Reserve(p) \/ Blocked(p) \/ Extracted(p) \/ Aborted(p) \/ RefusedFirst(p) \/ GrantRetry(p)
         \/ ExtractionFails(p) \/ Park(p) \/ ParkRefused(p) \/ CloseAttempt(p)
  PROVE  Alone(p)
<1> USE DEF Inv
<1>1. ASSUME pass[p].pc \in OnRevision,
             NEW pc \in {"calling", "granting", "advancing", "closing", "reconciling"}, Goto(p, pc)
      PROVE  Alone(p)
  BY <1>1, Continues, OnOne DEF Alone, Steps, OnRevision, RowSound
<1>2. ASSUME NEW stage \in Stages \ {"none"}, pass[p].pc \in OnRevision,
             pass' = [pass EXCEPT ![p].pc = "parking", ![p].stage = stage]
      PROVE  Alone(p)
  <2> DEFINE row == [pass[p] EXCEPT !.pc = "parking", !.stage = stage]
  <2>1. pass[p] \in Rows /\ RowSound(pass[p])
    BY DEF PassSound
  <2>2. row \in Rows
    BY <1>2, <2>1, StepNames DEF Rows
  <2>3. row.pc = "parking" /\ row.stage = stage /\ KeepsKnown(pass[p], row)
    BY <2>1 DEF Rows, KeepsKnown
  <2>4. pass' = [pass EXCEPT ![p] = row]
    BY <1>2
  <2> HIDE DEF row
  <2>5. RowSound(row)
    BY <1>2, <2>1, <2>3, Knows
  <2> QED
    BY <2>2, <2>4, <2>5, RowMoves DEF Alone
<1>3. pass[p].pc \in OnRevision
  BY DEF Reserve, Blocked, Extracted, Aborted, RefusedFirst, GrantRetry, ExtractionFails, Park, ParkRefused,
         CloseAttempt, At, OnRevision
<1>4. CASE Reserve(p) \/ RefusedFirst(p) \/ GrantRetry(p) \/ Park(p)
  <2>1. Goto(p, "calling") \/ Goto(p, "granting") \/ Goto(p, "reconciling") \/ Goto(p, "advancing") \/ Goto(p, "closing")
    BY <1>4 DEF Reserve, RefusedFirst, GrantRetry, Park
  <2> QED
    BY <1>1, <1>3, <2>1
<1>5. CASE CloseAttempt(p)
  <2>1. End(p) \/ Goto(p, "reconciling") \/ Goto(p, "advancing")
    BY <1>5 DEF CloseAttempt
  <2> QED
    BY <1>1, <1>3, <2>1, Ends DEF Alone
<1>6. CASE Blocked(p)
  <2>1. BlockedStage(Key(p)) \in Stages \ {"none"}
    BY DEF BlockedStage, Stages
  <2>2. CASE Goto(p, "reconciling")
    BY <1>1, <1>3, <2>2
  <2>3. CASE pass' = [pass EXCEPT ![p].pc = "parking", ![p].stage = BlockedStage(Key(p))]
    BY <1>2, <1>3, <2>1, <2>3
  <2> QED
    BY <1>6, <2>2, <2>3 DEF Blocked
<1>7. CASE ExtractionFails(p)
  <2>1. "failed" \in Stages \ {"none"}
    BY DEF Stages
  <2> QED
    BY <1>2, <1>3, <1>7, <2>1 DEF ExtractionFails
<1>8. CASE Extracted(p)
  BY <1>3, <1>8, Decides DEF Extracted
<1>9. CASE Aborted(p)
  BY <1>9, Ends DEF Aborted, Alone
<1>10. CASE ParkRefused(p)
  <2> DEFINE row == [pass[p] EXCEPT !.pc = "closing", !.failed = TRUE]
  <2>1. pass[p] \in Rows /\ RowSound(pass[p])
    BY DEF PassSound
  <2>2. row \in Rows
    BY <2>1, StepNames DEF Rows
  <2>3. row.pc = "closing" /\ KeepsKnown(pass[p], row)
    BY <2>1 DEF Rows, KeepsKnown
  <2>4. End(p) \/ pass' = [pass EXCEPT ![p] = row]
    BY <1>10 DEF ParkRefused
  <2> HIDE DEF row
  <2>5. RowSound(row)
    BY <1>3, <2>1, <2>3, Knows
  <2> QED
    BY <2>2, <2>4, <2>5, RowMoves, Ends DEF Alone
<1> QED
  BY <1>4, <1>5, <1>6, <1>7, <1>8, <1>9, <1>10

\* So do the persist, the freeze and the advance.
LEMMA KeepsAlone ==
  ASSUME Inv, NEW p \in Passes,
         \/ Reread(p) \/ Persist(p) \/ PersistRefused(p) \/ Stage(p) \/ StageFails(p)
         \/ Advance(p) \/ Stays(p) \/ AdvanceRefused(p) \/ Reconcile(p) \/ Crash(p)
  PROVE  Alone(p)
<1> USE DEF Inv
<1>1. CASE PersistRefused(p) \/ AdvanceRefused(p) \/ Reconcile(p) \/ Crash(p)
  <2>1. End(p)
    BY <1>1 DEF PersistRefused, AdvanceRefused, Reconcile, Crash
  <2> QED
    BY <2>1, Ends DEF Alone
<1>2. ASSUME pass[p].pc \in OnRevision \cup {"advancing"},
             NEW pc \in {"staging", "advancing", "reconciling"}, Goto(p, pc), pc = "staging" => pass[p].m # None
      PROVE  Alone(p)
  BY <1>2, Continues, OnOne DEF Alone, Steps, OnRevision
<1>3. CASE Advance(p) \/ Stays(p)
  <2>1. At(p, "advancing") /\ (End(p) \/ Goto(p, "reconciling"))
    BY <1>3 DEF Advance, Stays, AfterAdvance
  <2> QED
    BY <1>2, <2>1, Ends DEF At, Alone
<1>4. CASE Persist(p) \/ Stage(p)
  <2>1. At(p, "persisting") \/ At(p, "staging")
    BY <1>4 DEF Persist, Stage
  <2>2. Goto(p, "staging") \/ Goto(p, "advancing") \/ Goto(p, "reconciling")
    BY <1>4 DEF Persist, Stage
  <2> QED
    BY <1>2, <2>1, <2>2, OnOne, NoneAssumption DEF At, OnRevision
<1>5. CASE StageFails(p)
  <2> DEFINE row == [pass[p] EXCEPT !.pc = "advancing", !.failed = TRUE]
  <2>1. pass[p].pc = "staging" /\ pass' = [pass EXCEPT ![p] = row]
    BY <1>5 DEF StageFails, At
  <2>2. pass[p] \in Rows /\ RowSound(pass[p]) /\ pass[p].pc \in OnRevision
    BY <2>1 DEF PassSound, OnRevision
  <2>3. row \in Rows
    BY <2>2, StepNames DEF Rows
  <2>4. row.pc = "advancing" /\ KeepsKnown(pass[p], row)
    BY <2>2 DEF Rows, KeepsKnown
  <2> HIDE DEF row
  <2>5. RowSound(row)
    BY <2>2, <2>4, Knows
  <2> QED
    BY <2>1, <2>3, <2>5, RowMoves DEF Alone
<1>6. CASE Reread(p)
  <2> DEFINE row == [pass[p] EXCEPT !.pc = "persisting", !.adm = cursor]
  <2>1. pass[p].pc = "rereading" /\ pass' = [pass EXCEPT ![p] = row]
    BY <1>6 DEF Reread, At
  <2>2. cursor \in Cursors /\ cursor # None /\ Sound(cursor)
    BY CursorFields DEF Stored, Sound
  <2>3. pass[p] \in Rows /\ RowSound(pass[p])
    BY DEF PassSound
  <2>4. /\ pass[p].m # None /\ pass[p].r # None /\ pass[p].dec # None
        /\ pass[p].src = "retry" /\ pass[p].next = None
    BY <2>1, <2>3 DEF RowSound, OnRevision
  <2>5. row \in Rows
    BY <2>2, <2>3, StepNames DEF Rows
  <2>6. /\ row.pc = "persisting" /\ row.adm = cursor /\ row.m = pass[p].m /\ row.r = pass[p].r
        /\ row.src = pass[p].src /\ row.next = pass[p].next /\ row.dec = pass[p].dec
    BY <2>3 DEF Rows
  <2> HIDE DEF row
  <2>7. RowSound(row)
    BY <2>2, <2>4, <2>6 DEF RowSound
  <2> QED
    BY <2>1, <2>5, <2>7, RowMoves DEF Alone
<1> QED
  BY <1>1, <1>3, <1>4, <1>5, <1>6

\* So does every step of a pass, which leaves the other rows alone.
LEMMA PassesAlone ==
  ASSUME Inv, NEW p \in Passes, PassStep(p) \/ Crash(p)
  PROVE  Alone(p)
BY StartsAlone, PullsAlone, ReadsAlone, CallsAlone, KeepsAlone DEF PassStep

\* Only a cancelled import marks passes from outside.
LEMMA CancelMarks ==
  ASSUME PassSound, NEW m \in Meetings, CancelImport(m)
  PROVE  /\ PassSound'
         /\ \A p \in Passes : pass'[p] = pass[p] \/ pass'[p] = [pass[p] EXCEPT !.cancelled = TRUE]
<1>1. ASSUME NEW me \in Rows, RowSound(me)
      PROVE  [me EXCEPT !.cancelled = TRUE] \in Rows /\ RowSound([me EXCEPT !.cancelled = TRUE])
  <2> DEFINE row == [me EXCEPT !.cancelled = TRUE]
  <2>1. row \in Rows
    BY DEF Rows
  <2>2. /\ row.pc = me.pc /\ row.src = me.src /\ row.adm = me.adm /\ row.next = me.next
        /\ row.m = me.m /\ row.r = me.r /\ row.stage = me.stage /\ row.dec = me.dec
    BY DEF Rows
  <2> HIDE DEF row
  <2>3. RowSound(row)
    BY <1>1, <2>2 DEF RowSound
  <2> QED
    BY <2>1, <2>3 DEF row
<1> QED
  BY <1>1 DEF CancelImport, PassSound

\* The mark changes nothing else of a pass.
LEMMA CancelLeaves ==
  ASSUME PassSound, NEW m \in Meetings, CancelImport(m), NEW p \in Passes
  PROVE  /\ pass'[p].pc = pass[p].pc /\ pass'[p].m = pass[p].m
         /\ pass'[p].r = pass[p].r /\ pass'[p].stage = pass[p].stage
<1>1. pass[p] \in Rows
  BY DEF PassSound
<1>2. pass'[p] = pass[p] \/ pass'[p] = [pass[p] EXCEPT !.cancelled = TRUE]
  BY CancelMarks
<1> QED
  BY <1>1, <1>2 DEF Rows

\* Rows stay sound in every step.
LEMMA PassSoundStep == Inv /\ [Next]_vars => PassSound'
<1> SUFFICES ASSUME Inv, [Next]_vars PROVE PassSound'
  OBVIOUS
<1>1. CASE \E p \in Passes : PassStep(p) \/ Crash(p)
  BY <1>1, PassesAlone DEF Alone
<1>2. CASE \E m \in Meetings : CancelImport(m)
  BY <1>2, CancelMarks DEF Inv
<1>3. CASE UNCHANGED pass
  BY <1>3 DEF Inv, PassSound
<1> QED
  BY <1>1, <1>2, <1>3
  DEF Next, vars, Edit, Import, Decide, LeaseExpires, GrantOperator, Watch, LeaveProject, RevokeMember

-----------------------------------------------------------------------------
(* The attempt ledger.                                                       *)

\* The assumptions of the attempt ledger hold of its instance here.
LEMMA LedgerConstants == None \notin Attempts!Claims /\ MaxAttempt \in Nat \ {0}
<1>1. Attempts!Claims = Ledger!Claims
  BY DEF Attempts!Claims, Ledger!Claims, Attempts!Phases, Ledger!Phases
<1> QED
  BY <1>1, ConstantsAssumption, NoneAssumption

\* The ledger starts as its own specification does.
LEMMA LedgerStarts == Ledger!Init => Attempts!IndInv
<1>1. Ledger!Init => Attempts!Init
  BY DEF Ledger!Init, Attempts!Init
<1> QED
  BY <1>1, LedgerConstants, Attempts!IndInvInit

\* The two instances of the ledger's actions are one.
LEMMA SameWorker ==
  ASSUME NEW w
  PROVE  /\ \A k : Ledger!Reserve(w, k) => Attempts!Reserve(w, k)
         /\ Ledger!Succeed(w) => Attempts!Succeed(w)
         /\ Ledger!Abort(w) => Attempts!Abort(w)
         /\ Ledger!RefuseFirst(w) => Attempts!RefuseFirst(w)
         /\ Ledger!GrantAutomatic(w) => Attempts!GrantAutomatic(w)
         /\ Ledger!FailBilled(w) => Attempts!FailBilled(w)
         /\ Ledger!FailUnbilled(w) => Attempts!FailUnbilled(w)
         /\ Ledger!CloseFailed(w) => Attempts!CloseFailed(w)
         /\ Ledger!Crash(w) => Attempts!Crash(w)
<1> USE DEF Ledger!Holds, Attempts!Holds, Ledger!Complete, Attempts!Complete,
            Ledger!Completable, Attempts!Completable, Ledger!Release, Attempts!Release,
            Ledger!Move, Attempts!Move, Ledger!Bill, Attempts!Bill, Ledger!store, Attempts!store,
            Ledger!history, Attempts!history
<1>1. ASSUME NEW k, Ledger!Reserve(w, k) PROVE Attempts!Reserve(w, k)
  BY <1>1 DEF Ledger!Reserve, Attempts!Reserve, Ledger!Reservable, Attempts!Reservable
<1>2. Ledger!Succeed(w) => Attempts!Succeed(w)
  BY DEF Ledger!Succeed, Attempts!Succeed
<1>3. Ledger!Abort(w) => Attempts!Abort(w)
  BY DEF Ledger!Abort, Attempts!Abort
<1>4. Ledger!RefuseFirst(w) => Attempts!RefuseFirst(w)
  BY DEF Ledger!RefuseFirst, Attempts!RefuseFirst
<1>5. Ledger!GrantAutomatic(w) => Attempts!GrantAutomatic(w)
  BY DEF Ledger!GrantAutomatic, Attempts!GrantAutomatic, Ledger!Grantable, Attempts!Grantable
<1>6. Ledger!FailBilled(w) => Attempts!FailBilled(w)
  BY DEF Ledger!FailBilled, Attempts!FailBilled
<1>7. Ledger!FailUnbilled(w) => Attempts!FailUnbilled(w)
  BY DEF Ledger!FailUnbilled, Attempts!FailUnbilled
<1>8. Ledger!CloseFailed(w) => Attempts!CloseFailed(w)
  BY DEF Ledger!CloseFailed, Attempts!CloseFailed
<1>9. Ledger!Crash(w) => Attempts!Crash(w)
  BY DEF Ledger!Crash, Attempts!Crash
<1> QED
  BY <1>1, <1>2, <1>3, <1>4, <1>5, <1>6, <1>7, <1>8, <1>9

\* The two instances of the ledger agree on the lease's and the operator's steps.
LEMMA SameKey ==
  ASSUME NEW k
  PROVE  /\ Ledger!LeaseExpires(k) => Attempts!LeaseExpires(k)
         /\ Ledger!GrantOperator(k) => Attempts!GrantOperator(k)
BY DEF Ledger!LeaseExpires, Attempts!LeaseExpires, Ledger!InFlight, Attempts!InFlight, Ledger!history, Attempts!history,
       Ledger!GrantOperator, Attempts!GrantOperator, Ledger!Grantable, Attempts!Grantable

\* A step of the ledger keeps its invariant.
LEMMA LedgerStep ==
  ASSUME Attempts!IndInv, [Ledger!Next]_(Ledger!vars)
  PROVE  Attempts!IndInv'
<1>1. [Attempts!Next]_(Attempts!vars)
  BY SameWorker, SameKey DEF Ledger!Next, Attempts!Next, Ledger!vars, Attempts!vars
<1> QED
  BY <1>1, LedgerConstants, Attempts!IndInvNext

\* The steps of a pass that are steps of the ledger, and those that are none.
LEMMA LedgerPass ==
  ASSUME Inv, NEW p \in Passes, PassStep(p) \/ Crash(p)
  PROVE  \/ UNCHANGED ledger
         \/ Reserve(p) /\ Ledger!Reserve(p, Key(p)) /\ Key(p) \in Meetings \X Inputs
         \/ Extracted(p) /\ Ledger!Succeed(p)
         \/ Aborted(p) /\ Ledger!Abort(p)
         \/ RefusedFirst(p) /\ Ledger!RefuseFirst(p)
         \/ GrantRetry(p) /\ Ledger!GrantAutomatic(p)
         \/ ExtractionFails(p) /\ (Ledger!FailBilled(p) \/ Ledger!FailUnbilled(p))
         \/ CloseAttempt(p) /\ Ledger!CloseFailed(p)
         \/ Crash(p) /\ Ledger!Crash(p)
<1>1. CASE Reserve(p)
  BY <1>1, OnOne DEF Inv, Reserve, At, OnRevision
<1>2. CASE StartPull(p) \/ StartFreeze(p) \/ StartRetry(p) \/ PullFails(p) \/ CustodyRefuses(p)
           \/ PullImport(p) \/ PullBaseline(p) \/ PullWatch(p)
  BY <1>2 DEF StartPull, StartFreeze, StartRetry, PullFails, CustodyRefuses, PullImport, PullBaseline, PullWatch
<1>3. CASE AlreadyFrozen(p) \/ Reuse(p) \/ NothingFrozen(p) \/ ReadRefused(p) \/ Blocked(p) \/ Park(p) \/ ParkRefused(p)
  BY <1>3 DEF AlreadyFrozen, Reuse, NothingFrozen, ReadRefused, Blocked, Park, ParkRefused
<1>4. CASE Reread(p) \/ Persist(p) \/ PersistRefused(p) \/ Stage(p) \/ StageFails(p)
           \/ Advance(p) \/ Stays(p) \/ AdvanceRefused(p) \/ Reconcile(p)
  BY <1>4 DEF Reread, Persist, PersistRefused, Stage, StageFails, Advance, Stays, AdvanceRefused, Reconcile
<1>5. CASE Extracted(p) \/ Aborted(p) \/ RefusedFirst(p) \/ GrantRetry(p) \/ ExtractionFails(p) \/ CloseAttempt(p) \/ Crash(p)
  BY <1>5 DEF Extracted, Aborted, RefusedFirst, GrantRetry, ExtractionFails, CloseAttempt, Crash
<1> QED
  BY <1>1, <1>2, <1>3, <1>4, <1>5 DEF PassStep

\* A step that is no pass's touches the ledger as time or as the operator.
LEMMA LedgerOutside ==
  ASSUME [Next]_vars, ~\E p \in Passes : PassStep(p) \/ Crash(p)
  PROVE  \/ UNCHANGED ledger
         \/ \E m \in Meetings, i \in Inputs : LeaseExpires(m, i) \/ GrantOperator(m, i)
<1>1. ASSUME NEW m \in Meetings, Edit(m) \/ CancelImport(m) \/ \E proj : Import(m, proj)
      PROVE  UNCHANGED ledger
  BY <1>1 DEF Edit, CancelImport, Import
<1>2. ASSUME NEW m \in Meetings, NEW r \in Revisions, Decide(m, r) PROVE UNCHANGED ledger
  BY <1>2 DEF Decide
<1>3. ASSUME (\E on, same, proj : Watch(on, same, proj)) \/ (\E j : LeaveProject(j)) \/ RevokeMember \/ UNCHANGED vars
      PROVE  UNCHANGED ledger
  BY <1>3 DEF Watch, LeaveProject, RevokeMember, vars, ledger
<1> QED
  BY <1>1, <1>2, <1>3, Zenon DEF Next

\* Every step is one of the ledger or leaves it alone.
LEMMA LedgerMoves == Inv /\ [Next]_vars => [Ledger!Next]_(Ledger!vars)
<1> SUFFICES ASSUME Inv, [Next]_vars PROVE [Ledger!Next]_(Ledger!vars)
  OBVIOUS
<1>1. ASSUME NEW p \in Passes, PassStep(p) \/ Crash(p) PROVE [Ledger!Next]_(Ledger!vars)
  BY <1>1, LedgerPass DEF Ledger!Next, Ledger!vars, ledger
<1>2. ASSUME NEW m \in Meetings, NEW i \in Inputs, LeaseExpires(m, i) \/ GrantOperator(m, i)
      PROVE  [Ledger!Next]_(Ledger!vars)
  BY <1>2 DEF LeaseExpires, GrantOperator, Ledger!Next
<1> QED
  BY <1>1, <1>2, LedgerOutside DEF Ledger!vars, ledger

\* No step takes back an attempt.
LEMMA AttemptStays ==
  ASSUME Attempts!IndInv, [Ledger!Next]_(Ledger!vars), NEW k \in Meetings \X Inputs, attempt[k] # 0
  PROVE  attempt'[k] # 0
<1>1. attempt \in [Meetings \X Inputs -> 0..MaxAttempt]
  BY DEF Attempts!IndInv, Attempts!TypeOK
<1>2. UNCHANGED attempt \/ \E j \in Meetings \X Inputs : attempt' = [attempt EXCEPT ![j] = @ + 1]
  BY DEF Ledger!Next, Ledger!vars, Ledger!Reserve, Ledger!Succeed, Ledger!Abort, Ledger!RefuseFirst,
         Ledger!GrantAutomatic, Ledger!FailBilled, Ledger!FailUnbilled, Ledger!CloseFailed, Ledger!Crash,
         Ledger!LeaseExpires, Ledger!GrantOperator, Ledger!Complete, Ledger!store
<1> QED
  BY <1>1, <1>2, ConstantsAssumption

-----------------------------------------------------------------------------
(* A pass's claim and where it stands.                                       *)

\* A claim is on one of the ledger's keys.
LEMMA ClaimTyped ==
  ASSUME Inv
  PROVE  claim \in [Passes -> Ledger!Claims \cup {None}]
<1>1. Attempts!Claims = Ledger!Claims
  BY DEF Attempts!Claims, Ledger!Claims, Attempts!Phases, Ledger!Phases
<1> QED
  BY <1>1 DEF Inv, Attempts!IndInv, Attempts!TypeOK

\* A step of the ledger by one pass leaves the claims of the others.
LEMMA ClaimsAlone ==
  ASSUME Inv, NEW p \in Passes, PassStep(p) \/ Crash(p)
  PROVE  \A q \in Passes \ {p} : claim'[q] = claim[q]
<1>1. UNCHANGED claim \/ \E c : claim' = [claim EXCEPT ![p] = c]
  BY LedgerPass, Zenon DEF ledger, Ledger!Reserve, Ledger!Succeed, Ledger!Abort, Ledger!RefuseFirst, Ledger!GrantAutomatic,
     Ledger!FailBilled, Ledger!FailUnbilled, Ledger!CloseFailed, Ledger!Crash, Ledger!Release, Ledger!Move
<1> QED
  BY <1>1, ClaimTyped

\* A pass without a claim that is neither calling, parking nor closing.
LEMMA LinkQuiet ==
  ASSUME NEW p, claim'[p] = None, pass'[p].pc \notin {"calling", "granting", "closing", "parking"}
  PROVE  LinkOf(p)'
BY DEF LinkOf, Claiming, At

\* Where a step of a pass leads.
LEMMA Leads ==
  ASSUME Inv, NEW p \in Passes
  PROVE  /\ End(p) => pass'[p] = Idle /\ pass'[p].pc = "idle"
         /\ \A pc : Goto(p, pc) => pass'[p] = [pass[p] EXCEPT !.pc = pc] /\ pass'[p].pc = pc
         /\ StartPull(p) => pass'[p].pc = "pulling"
         /\ StartFreeze(p) => pass'[p].pc = "reconciling"
         /\ StartRetry(p) => pass'[p].pc = "admitted"
         /\ \A m, next : Admit(p, m, next) => pass'[p].pc = "admitted"
         /\ \A next : pass' = [pass EXCEPT ![p].pc = "advancing", ![p].next = next] => pass'[p].pc = "advancing"
         /\ \A d : pass' = [pass EXCEPT ![p].dec = d, ![p].pc = IF PullOf(p) THEN "persisting" ELSE "rereading"]
              => pass'[p].pc \in {"persisting", "rereading"}
<1>1. pass \in [Passes -> Rows] /\ pass[p] \in Rows
  BY DEF Inv, PassSound
<1>2. End(p) => pass'[p] = Idle /\ pass'[p].pc = "idle"
  BY <1>1 DEF End, Idle
<1>3. ASSUME NEW pc, Goto(p, pc) PROVE pass'[p] = [pass[p] EXCEPT !.pc = pc] /\ pass'[p].pc = pc
  BY <1>1, <1>3 DEF Goto, Rows
<1>4. StartPull(p) => pass'[p].pc = "pulling"
  BY <1>1 DEF StartPull, Idle
<1>5. StartFreeze(p) => pass'[p].pc = "reconciling"
  BY <1>1 DEF StartFreeze, Idle
<1>6. StartRetry(p) => pass'[p].pc = "admitted"
  BY <1>1 DEF StartRetry, Idle
<1>7. ASSUME NEW m, NEW next, Admit(p, m, next) PROVE pass'[p].pc = "admitted"
  BY <1>1, <1>7 DEF Admit, Rows
<1>8. ASSUME NEW d, pass' = [pass EXCEPT ![p].dec = d, ![p].pc = IF PullOf(p) THEN "persisting" ELSE "rereading"]
      PROVE  pass'[p].pc \in {"persisting", "rereading"}
  BY <1>1, <1>8 DEF Rows
<1>9. ASSUME NEW next, pass' = [pass EXCEPT ![p].pc = "advancing", ![p].next = next]
      PROVE  pass'[p].pc = "advancing"
  BY <1>1, <1>9 DEF Rows
<1> QED
  BY <1>2, <1>3, <1>4, <1>5, <1>6, <1>7, <1>8, <1>9

\* A pass that leaves its call or its attempt, or dies, holds no claim.
LEMMA LinkReleased ==
  ASSUME Inv, NEW p \in Passes,
         Extracted(p) \/ Aborted(p) \/ GrantRetry(p) \/ CloseAttempt(p) \/ Crash(p)
  PROVE  LinkOf(p)'
<1>1. pass'[p].pc \notin {"calling", "granting", "closing", "parking"}
  <2>1. End(p) \/ Goto(p, "reconciling") \/ Goto(p, "advancing") \/ Extracted(p)
    BY DEF Aborted, GrantRetry, CloseAttempt, Crash
  <2>2. pass'[p].pc \in {"idle", "reconciling", "advancing", "persisting", "rereading"}
    <3>1. CASE Extracted(p)
      BY <3>1, Leads DEF Extracted
    <3> QED
      BY <2>1, <3>1, Leads
  <2> QED
    BY <2>2
<1>2. claim'[p] = None
  <2>1. (claim[p] = None /\ UNCHANGED claim) \/ claim' = [claim EXCEPT ![p] = None]
    BY DEF Extracted, Aborted, GrantRetry, CloseAttempt, Crash, ledger, Ledger!Succeed, Ledger!Abort,
           Ledger!GrantAutomatic, Ledger!CloseFailed, Ledger!Crash, Ledger!Release
  <2> QED
    BY <2>1, ClaimTyped
<1> QED
  BY <1>1, <1>2, LinkQuiet

\* A pass without a claim that goes on elsewhere needs none.
LEMMA LinkUnclaimed ==
  ASSUME Inv, NEW p \in Passes, UNCHANGED ledger, ~Claiming(p),
         pass'[p].pc \notin {"calling", "granting", "closing", "parking"}
  PROVE  LinkOf(p)'
BY LinkQuiet DEF Inv, Linked, LinkOf, ledger

\* The steps that touch no attempt keep a pass without a claim.
LEMMA LinkOther ==
  ASSUME Inv, NEW p \in Passes,
         \/ StartPull(p) \/ StartFreeze(p) \/ StartRetry(p)
         \/ PullFails(p) \/ CustodyRefuses(p) \/ PullImport(p) \/ PullBaseline(p) \/ PullWatch(p)
         \/ AlreadyFrozen(p) \/ Reuse(p) \/ NothingFrozen(p) \/ ReadRefused(p)
         \/ Reread(p) \/ Persist(p) \/ PersistRefused(p) \/ Stage(p) \/ StageFails(p)
         \/ Advance(p) \/ Stays(p) \/ AdvanceRefused(p) \/ Reconcile(p)
  PROVE  LinkOf(p)'
<1>1. CASE StartPull(p) \/ StartFreeze(p) \/ StartRetry(p)
  <2>1. UNCHANGED ledger /\ ~Claiming(p)
    BY <1>1 DEF StartPull, StartFreeze, StartRetry, At, Claiming
  <2> QED
    BY <1>1, <2>1, Leads, LinkUnclaimed
<1>2. CASE PullFails(p) \/ CustodyRefuses(p) \/ PullImport(p) \/ PullBaseline(p) \/ PullWatch(p)
  <2>1. UNCHANGED ledger /\ ~Claiming(p)
    BY <1>2 DEF PullFails, CustodyRefuses, PullImport, PullBaseline, PullWatch, At, Claiming
  <2>2. CASE PullBaseline(p) \/ PullWatch(p)
    <3>1. (\E next : pass' = [pass EXCEPT ![p].pc = "advancing", ![p].next = next]) \/ \E m, next : Admit(p, m, next)
      BY <2>2, Zenon DEF PullBaseline, PullWatch
    <3>2. pass'[p].pc \in {"idle", "reconciling", "advancing", "admitted", "staging", "reserving"}
      BY <3>1, Leads, Zenon
    <3> QED
      BY <2>1, <3>2, LinkUnclaimed
  <2>3. CASE PullFails(p) \/ CustodyRefuses(p) \/ PullImport(p)
    <3>1. End(p) \/ Goto(p, "reconciling") \/ \E m, next : Admit(p, m, next)
      BY <2>3 DEF PullFails, CustodyRefuses, PullImport
    <3>2. pass'[p].pc \in {"idle", "reconciling", "advancing", "admitted", "staging", "reserving"}
      BY <3>1, Leads, Zenon
    <3> QED
      BY <2>1, <3>2, LinkUnclaimed
  <2> QED
    BY <1>2, <2>2, <2>3
<1>3. CASE AlreadyFrozen(p) \/ Reuse(p) \/ NothingFrozen(p) \/ ReadRefused(p)
  <2>1. UNCHANGED ledger /\ ~Claiming(p)
    BY <1>3 DEF AlreadyFrozen, Reuse, NothingFrozen, ReadRefused, At, Claiming
  <2>2. CASE Reuse(p)
    BY <2>1, <2>2, Leads, LinkUnclaimed DEF Reuse
  <2>3. CASE AlreadyFrozen(p) \/ NothingFrozen(p) \/ ReadRefused(p)
    <3>1. End(p) \/ Goto(p, "staging") \/ Goto(p, "advancing") \/ Goto(p, "reserving")
      BY <2>3 DEF AlreadyFrozen, NothingFrozen, ReadRefused
    <3>2. pass'[p].pc \in {"idle", "reconciling", "advancing", "admitted", "staging", "reserving"}
      BY <3>1, Leads, Zenon
    <3> QED
      BY <2>1, <3>2, LinkUnclaimed
  <2> QED
    BY <1>3, <2>2, <2>3
<1>4. CASE Reread(p) \/ Persist(p) \/ PersistRefused(p) \/ Stage(p) \/ StageFails(p)
  <2> UNCHANGED ledger /\ ~Claiming(p)
    BY <1>4 DEF Reread, Persist, PersistRefused, Stage, StageFails, At, Claiming
  <2>1. End(p) \/ (\E pc \in {"staging", "advancing", "reconciling"} : Goto(p, pc)) \/ Reread(p) \/ StageFails(p)
    <3>1. Persist(p) \/ Stage(p) => \E pc \in {"staging", "advancing", "reconciling"} : Goto(p, pc)
      BY DEF Persist, Stage
    <3>2. PersistRefused(p) => End(p)
      BY DEF PersistRefused
    <3> QED
      BY <1>4, <3>1, <3>2
  <2>2. pass \in [Passes -> Rows] /\ pass[p] \in Rows
    BY DEF Inv, PassSound
  <2>3. pass'[p].pc \in {"persisting", "staging", "advancing", "idle", "reconciling"}
    <3>1. CASE End(p) \/ \E pc \in {"staging", "advancing", "reconciling"} : Goto(p, pc)
      BY <3>1, Leads, Zenon
    <3>2. CASE Reread(p)
      BY <2>2, <3>2 DEF Reread, Rows
    <3>3. CASE StageFails(p)
      BY <2>2, <3>3 DEF StageFails, Rows
    <3> QED
      BY <2>1, <3>1, <3>2, <3>3
  <2> QED
    BY <2>3, LinkUnclaimed
<1>5. CASE Advance(p) \/ Stays(p) \/ AdvanceRefused(p) \/ Reconcile(p)
  <2>1. UNCHANGED ledger /\ ~Claiming(p)
    BY <1>5 DEF Advance, Stays, AdvanceRefused, Reconcile, At, Claiming
  <2>2. End(p) \/ Goto(p, "reconciling")
    BY <1>5 DEF Advance, Stays, AdvanceRefused, Reconcile, AfterAdvance
  <2>3. pass'[p].pc \in {"idle", "reconciling"}
    BY <2>2, Leads
  <2> QED
    BY <2>1, <2>3, LinkUnclaimed
<1> QED
  BY <1>1, <1>2, <1>3, <1>4, <1>5

\* A pass parks with the claim of a failed call, or without one.
LEMMA LinkParks ==
  ASSUME Inv, NEW p \in Passes, Blocked(p) \/ Park(p) \/ ParkRefused(p)
  PROVE  LinkOf(p)'
<1> USE DEF Inv, PassSound
<1>1. pass[p].pc \in {"reserving", "parking"} /\ UNCHANGED ledger
  BY DEF Blocked, Park, ParkRefused, At
<1>2. CASE Blocked(p)
  <2>1. At(p, "reserving") /\ ~Ledger!Reservable(Key(p))
    BY <1>2 DEF Blocked
  <2>2. claim'[p] = None
    BY <1>1, <2>1 DEF Linked, LinkOf, Claiming, At, ledger
  <2>3. BlockedStage(Key(p)) # "failed"
    BY DEF BlockedStage
  <2>4. attempt[Key(p)] # 0
    BY <2>1 DEF Ledger!Reservable
  <2>5. CASE Goto(p, "reconciling")
    BY <2>2, <2>5, LinkQuiet DEF Goto, Rows
  <2>6. CASE pass' = [pass EXCEPT ![p].pc = "parking", ![p].stage = BlockedStage(Key(p))]
    <3>1. /\ pass'[p].pc = "parking" /\ pass'[p].stage # "failed"
          /\ pass'[p].m = pass[p].m /\ pass'[p].r = pass[p].r
      BY <2>3, <2>6 DEF Rows
    <3>2. attempt'[Key(p)'] # 0
      BY <1>1, <2>4, <3>1 DEF Key, KeyOf, ledger
    <3> QED
      BY <2>2, <3>1, <3>2 DEF LinkOf, Claiming, At
  <2> QED
    BY <1>2, <2>5, <2>6 DEF Blocked
<1>3. CASE Park(p) \/ ParkRefused(p)
  <2>1. pass[p].pc = "parking"
    BY <1>3 DEF Park, ParkRefused, At
  <2>2. CASE claim[p] = None
    <3>1. pass'[p].pc \in {"advancing", "idle"}
      BY <1>3, <2>2 DEF Park, ParkRefused, Goto, End, Idle, Rows
    <3> QED
      BY <1>1, <2>2, <3>1, LinkQuiet DEF ledger
  <2>3. CASE claim[p] # None
    <3>1. pass'[p].pc = "closing" /\ pass'[p].m = pass[p].m /\ pass'[p].r = pass[p].r
      BY <1>3, <2>3 DEF Park, ParkRefused, Goto, Rows
    <3>2. claim'[p] = claim[p] /\ claim[p].key = Key(p) /\ claim[p].phase = "failing"
      BY <1>1, <2>1, <2>3 DEF Linked, LinkOf, ledger
    <3> QED
      BY <2>3, <3>1, <3>2 DEF LinkOf, Claiming, At, Key
  <2> QED
    BY <2>2, <2>3
<1> QED
  BY <1>2, <1>3

\* A pass that calls the model holds the claim it calls under.
LEMMA LinkCalls ==
  ASSUME Inv, NEW p \in Passes, Reserve(p) \/ RefusedFirst(p) \/ ExtractionFails(p)
  PROVE  LinkOf(p)'
<1> USE DEF Inv, PassSound
<1>1. pass'[p].m = pass[p].m /\ pass'[p].r = pass[p].r
  BY DEF Reserve, RefusedFirst, ExtractionFails, Goto, Rows
<1>2. Key(p)' = Key(p)
  BY <1>1 DEF Key
<1>3. None \notin Ledger!Claims
  BY NoneAssumption
<1>4. pass[p].pc \in OnRevision
  BY DEF Reserve, RefusedFirst, ExtractionFails, At, OnRevision
<1>5. Key(p) \in Meetings \X Inputs
  BY <1>4, OnOne DEF OnRevision
<1>6. CASE Reserve(p)
  <2>1. pass'[p].pc = "calling"
    BY <1>6 DEF Reserve, Goto, Rows
  <2>2. claim'[p] = [key |-> Key(p), attempt |-> attempt[Key(p)] + 1, phase |-> "calling"]
    BY <1>6, ClaimTyped DEF Reserve, Ledger!Reserve
  <2>3. attempt[Key(p)] + 1 \in 1..MaxAttempt
    <3>1. attempt[Key(p)] \in 0..MaxAttempt
      BY <1>5 DEF Attempts!IndInv, Attempts!TypeOK
    <3>2. attempt[Key(p)] # MaxAttempt
      BY <1>6, LedgerConstants DEF Reserve, Ledger!Reserve, Ledger!Reservable
    <3> QED
      BY <3>1, <3>2, LedgerConstants
  <2>4. claim'[p] \in Ledger!Claims
    BY <1>5, <2>2, <2>3 DEF Ledger!Claims, Ledger!Phases
  <2> QED
    BY <1>2, <1>3, <2>1, <2>2, <2>4 DEF LinkOf, Claiming, At
<1>7. CASE RefusedFirst(p) \/ ExtractionFails(p)
  <2>1. claim[p] # None /\ claim[p].key = Key(p) /\ claim[p] \in Ledger!Claims
    BY <1>7, ClaimTyped DEF RefusedFirst, ExtractionFails, Linked, LinkOf, Claiming, At
  <2>2. PICK phase \in {"granting", "failing"} :
          /\ claim' = [claim EXCEPT ![p].phase = phase]
          /\ phase = "granting" => pass'[p].pc = "granting"
          /\ phase = "failing" => pass'[p].pc = "parking" /\ pass'[p].stage = "failed"
    <3>1. CASE RefusedFirst(p)
      BY <3>1 DEF RefusedFirst, Goto, Ledger!RefuseFirst, Ledger!Move, Rows
    <3>2. CASE ExtractionFails(p)
      BY <3>2 DEF ExtractionFails, Ledger!FailBilled, Ledger!FailUnbilled, Ledger!Move, Rows
    <3> QED
      BY <1>7, <3>1, <3>2
  <2>3. claim'[p] = [claim[p] EXCEPT !.phase = phase]
    BY <2>2, ClaimTyped
  <2>4. claim'[p].key = Key(p) /\ claim'[p].phase = phase /\ claim'[p] \in Ledger!Claims
    BY <2>1, <2>2, <2>3 DEF Ledger!Claims, Ledger!Phases
  <2>5. pass'[p].pc = "parking" => attempt'[Key(p)] # 0
    <3>1. attempt' = attempt
      BY <1>7 DEF RefusedFirst, ExtractionFails, Ledger!RefuseFirst, Ledger!Complete, Ledger!FailBilled,
                  Ledger!FailUnbilled, Ledger!store
    <3>2. attempt[Key(p)] = claim[p].attempt /\ claim[p].attempt \in 1..MaxAttempt
      BY <2>1 DEF Attempts!IndInv, Attempts!ClaimInv, Attempts!ClaimOK, Ledger!Claims
    <3> QED
      BY <3>1, <3>2
  <2> QED
    BY <1>2, <1>3, <2>2, <2>4, <2>5 DEF LinkOf, Claiming, At
<1> QED
  BY <1>6, <1>7

\* In every step, claims stay with the passes whose steps need them.
LEMMA LinkedStep == Inv /\ [Next]_vars => Linked'
<1> SUFFICES ASSUME Inv, [Next]_vars PROVE Linked'
  OBVIOUS
<1>1. ASSUME NEW q \in Passes, claim'[q] = claim[q], pass'[q].pc = pass[q].pc, pass'[q].m = pass[q].m,
             pass'[q].r = pass[q].r, pass'[q].stage = pass[q].stage
      PROVE  LinkOf(q)'
  <2>1. Key(q)' = Key(q)
    BY <1>1 DEF Key
  <2>2. At(q, "parking") => attempt'[Key(q)] # 0
    <3>1. CASE At(q, "parking")
      <4>1. Key(q) \in Meetings \X Inputs /\ attempt[Key(q)] # 0
        BY <3>1, OnOne DEF At, OnRevision, Inv, Linked, LinkOf
      <4> QED
        BY <4>1, LedgerMoves, AttemptStays DEF Inv
    <3> QED
      BY <3>1
  <2> QED
    BY <1>1, <2>1, <2>2 DEF Inv, Linked, LinkOf, Claiming, At
<1>2. ASSUME NEW p \in Passes, PassStep(p) \/ Crash(p) PROVE Linked'
  <2>1. LinkOf(p)'
    BY <1>2, LinkReleased, LinkOther, LinkParks, LinkCalls DEF PassStep
  <2>2. ASSUME NEW q \in Passes \ {p} PROVE LinkOf(q)'
    BY <1>1, <1>2, PassesAlone, ClaimsAlone DEF Alone
  <2> QED
    BY <2>1, <2>2 DEF Linked
<1>3. CASE \E m \in Meetings : CancelImport(m)
  <2>1. UNCHANGED claim
    BY <1>3 DEF CancelImport, ledger
  <2>2. ASSUME NEW q \in Passes
        PROVE  /\ pass'[q].pc = pass[q].pc /\ pass'[q].m = pass[q].m
               /\ pass'[q].r = pass[q].r /\ pass'[q].stage = pass[q].stage
    BY <1>3, CancelLeaves DEF Inv
  <2> QED
    BY <1>1, <2>1, <2>2 DEF Linked
<1>4. CASE UNCHANGED <<pass, claim>>
  BY <1>1, <1>4 DEF Linked
<1>5. CASE \E m \in Meetings, i \in Inputs : LeaseExpires(m, i) \/ GrantOperator(m, i)
  <2> UNCHANGED <<pass, claim>>
    BY <1>5 DEF LeaseExpires, GrantOperator, Ledger!LeaseExpires, Ledger!GrantOperator
  <2> QED
    BY <1>4
<1> QED
  BY <1>2, <1>3, <1>4, <1>5 DEF Next, vars, ledger, Edit, Import, Decide, Watch, LeaveProject, RevokeMember

-----------------------------------------------------------------------------
(* The checkpoint.                                                           *)

\* What a pull's compare-and-swap may move the checkpoint to: its own
\* checkpoint, or the same with the queue changed meanwhile.
LEMMA AdvanceGoes ==
  ASSUME Inv, NEW p \in Passes, At(p, "advancing"), Moves(p)
  PROVE  LET to == AdvanceTo(p) IN
         \/ to = None
         \/ /\ Sound(to) /\ to.on = cursor.on
            /\ Queued(to) \subseteq Queued(cursor)
            /\ Consumed(cursor, to) \subseteq {pass[p].m}
            /\ Consumed(cursor, to) # {} => pass[p].adm.queue # <<>> /\ pass[p].m = Head(pass[p].adm.queue)
<1> DEFINE from == pass[p].adm
           next == pass[p].next
<1>1. /\ from # None /\ Sound(from) /\ from \in Cursors /\ next # None
      /\ Pulled(from, next, pass[p].m) /\ next \in Cursors
  BY DEF Inv, PassSound, RowSound, At, Moves, Pulled, Sound
<1>2. /\ Queued(next) \subseteq Queued(from)
      /\ Consumed(from, next) \subseteq {pass[p].m}
      /\ Consumed(from, next) # {} => from.queue # <<>> /\ pass[p].m = Head(from.queue)
  <2>1. CASE next.queue = from.queue
    BY <2>1 DEF Queued, Consumed
  <2>2. CASE from.queue # <<>> /\ next.queue = Tail(from.queue) /\ pass[p].m = Head(from.queue)
    BY <1>1, <2>2, TailIs, CursorFields DEF Queued, Consumed, Sound
  <2> QED
    BY <1>1, <2>1, <2>2 DEF Pulled
<1>3. Sound(cursor) /\ cursor \in Cursors
  BY DEF Inv, Stored, Sound
<1>4. CASE cursor = from
  BY <1>1, <1>2, <1>4 DEF AdvanceTo, Pulled
<1>5. CASE cursor # from
  <2> DEFINE q == IF Consumed(from, next) = {} THEN cursor.queue ELSE Dequeued(cursor.queue, Head(from.queue))
             to == [next EXCEPT !.queue = q]
  <2>1. CASE WithoutQueue(from) = WithoutQueue(cursor)
    <3>1. from.on = cursor.on
      BY <1>1, <1>3, <2>1 DEF WithoutQueue, Cursors
    <3>2. /\ q \in Seq(Meetings) /\ IsInjective(q)
          /\ ToSet(q) \subseteq ToSet(cursor.queue)
          /\ ToSet(cursor.queue) \ ToSet(q) \subseteq {pass[p].m}
          /\ ToSet(cursor.queue) \ ToSet(q) # {} => Consumed(from, next) # {}
      BY <1>2, <1>3, DequeuedIs, CursorFields DEF Sound
    <3> HIDE DEF q
    <3>3. Sound(to) /\ to.queue = q /\ to.on = next.on
      BY <1>1, <3>2, Requeued DEF Pulled
    <3>4. AdvanceTo(p) \in {None, to}
      BY <1>5 DEF AdvanceTo, Rebase, q
    <3> QED
      BY <1>1, <3>1, <3>2, <3>3, <3>4 DEF Pulled, Queued, Consumed
  <2>2. CASE WithoutQueue(from) # WithoutQueue(cursor)
    BY <1>5, <2>2, CursorFields, <1>3 DEF AdvanceTo, Rebase
  <2> QED
    BY <2>1, <2>2
<1> QED
  BY <1>4, <1>5

\* An advance leaves sound tables and queues nothing.
LEMMA StoredAdvance ==
  ASSUME Inv, NEW p \in Passes, Advance(p)
  PROVE  Stored' /\ Queued(cursor') \subseteq Queued(cursor)
<1> DEFINE to == AdvanceTo(p)
           gone == Consumed(cursor, to)
<1> USE DEF Inv, Stored
<1>1. UNCHANGED <<edits, asked, setting, member, joined>>
  BY DEF Advance, provider
<1>2. CASE to = None
  BY <1>1, <1>2 DEF Advance, Sound
<1>3. CASE to # None
  <2>1. /\ cursor' = to
        /\ suggested' = [m \in Meetings |->
             IF m \in gone THEN suggested[m] \cup (pending[m] \cap joined) ELSE suggested[m]]
        /\ pending' = [m \in Meetings |-> IF m \in gone THEN {} ELSE pending[m]]
    BY <1>3 DEF Advance, ChoicesLeft
  <2>2. Sound(to) /\ to.on = cursor.on /\ Queued(to) \subseteq Queued(cursor)
    BY <1>3, AdvanceGoes DEF Advance
  <2> HIDE DEF to, gone
  <2>3. Sound(cursor)'
    BY <2>1, <2>2 DEF Sound
  <2> QED
    BY <1>1, <2>1, <2>2, <2>3
<1> QED
  BY <1>2, <1>3

\* The tables stay sound in every step.
LEMMA StoredStep == Inv /\ [Next]_vars => Stored'
<1> SUFFICES ASSUME Inv, [Next]_vars PROVE Stored'
  OBVIOUS
<1> DEFINE quiet == UNCHANGED <<edits, asked, cursor, setting, member, joined, pending, suggested>>
<1>1. CASE quiet
  BY <1>1 DEF Inv, Stored, Sound
<1>2. ASSUME NEW p \in Passes, Advance(p) PROVE Stored'
  BY <1>2, StoredAdvance
<1>3. ASSUME NEW p \in Passes, PullWatch(p) PROVE Stored'
  <2>1. UNCHANGED <<edits, asked, cursor, setting, member, joined, pending>>
    BY <1>3 DEF PullWatch, provider
  <2>2. UNCHANGED suggested \/ \E m \in Meetings : suggested' = [suggested EXCEPT ![m] = @ \cup ({setting.proj} \cap joined)]
    BY <1>3 DEF PullWatch
  <2> QED
    BY <2>1, <2>2 DEF Inv, Stored, Sound
<1>4. ASSUME NEW p \in Passes, PassStep(p) \/ Crash(p), ~Advance(p), ~PullWatch(p) PROVE quiet
  <2>1. CASE StartPull(p) \/ StartFreeze(p) \/ StartRetry(p) \/ PullFails(p) \/ CustodyRefuses(p)
             \/ PullImport(p) \/ PullBaseline(p)
    BY <2>1 DEF StartPull, StartFreeze, StartRetry, PullFails, CustodyRefuses, PullImport, PullBaseline, provider, intake
  <2>2. CASE AlreadyFrozen(p) \/ Reuse(p) \/ NothingFrozen(p) \/ ReadRefused(p) \/ Reserve(p) \/ Blocked(p)
             \/ Extracted(p) \/ Aborted(p) \/ RefusedFirst(p) \/ GrantRetry(p) \/ ExtractionFails(p)
    BY <2>2 DEF AlreadyFrozen, Reuse, NothingFrozen, ReadRefused, Reserve, Blocked, Extracted, Aborted, RefusedFirst,
                GrantRetry, ExtractionFails, provider, intake
  <2>3. CASE Park(p) \/ ParkRefused(p) \/ CloseAttempt(p) \/ Reread(p) \/ Persist(p) \/ PersistRefused(p)
             \/ Stage(p) \/ StageFails(p) \/ Stays(p) \/ AdvanceRefused(p) \/ Reconcile(p) \/ Crash(p)
    BY <2>3 DEF Park, ParkRefused, CloseAttempt, Reread, Persist, PersistRefused, Stage, StageFails, Stays,
                AdvanceRefused, Reconcile, Crash, provider, intake
  <2> QED
    BY <1>4, <2>1, <2>2, <2>3 DEF PassStep
<1>5. ASSUME NEW m \in Meetings, Edit(m) PROVE Stored'
  <2>1. UNCHANGED <<asked, cursor, setting, member, joined, pending, suggested>>
    BY <1>5 DEF Edit, intake
  <2>2. edits' \in [Meetings -> Stamps]
    <3>1. edits[m] \in Stamps /\ edits[m] < Len(Content) /\ edits' = [edits EXCEPT ![m] = edits[m] + 1]
      BY <1>5 DEF Edit, Inv, Stored
    <3>2. edits[m] + 1 \in Stamps
      BY <3>1, ConstantsAssumption DEF Stamps
    <3> QED
      BY <3>1, <3>2 DEF Inv, Stored
  <2> QED
    BY <2>1, <2>2 DEF Inv, Stored, Sound
<1>6. ASSUME NEW m \in Meetings, CancelImport(m) PROVE Stored'
  <2> DEFINE q == Dequeued(cursor.queue, m)
  <2>1. /\ UNCHANGED <<edits, setting, member, joined, suggested>>
        /\ cursor' = [cursor EXCEPT !.queue = q]
        /\ pending' = [pending EXCEPT ![m] = {}]
        /\ asked' = [asked EXCEPT ![m] = 0]
    BY <1>6 DEF CancelImport, provider
  <2>2. q \in Seq(Meetings) /\ IsInjective(q)
    BY DequeuedIs, CursorFields DEF Inv, Stored, Sound
  <2> HIDE DEF q
  <2>3. Sound(cursor') /\ cursor'.on = cursor.on
    BY <2>1, <2>2, Requeued DEF Inv, Stored
  <2>4. asked' \in [Meetings -> Stamps] /\ pending' \in [Meetings -> SUBSET Projects]
    BY <2>1, ConstantsAssumption DEF Inv, Stored, Stamps
  <2> QED
    BY <2>1, <2>3, <2>4 DEF Inv, Stored, Sound
<1>7. ASSUME NEW m \in Meetings, NEW proj \in Projects \cup {None}, Import(m, proj) PROVE Stored'
  <2> DEFINE q == Append(cursor.queue, m)
  <2>1. /\ UNCHANGED <<edits, setting, member, joined, suggested>>
        /\ cursor' = cursor \/ (m \notin ToSet(cursor.queue) /\ cursor' = [cursor EXCEPT !.queue = q])
        /\ pending' = [pending EXCEPT ![m] = ({proj} \ {None}) \cup (IF m \in Queued(cursor) THEN @ ELSE {})]
        /\ asked' = asked \/ asked' = [asked EXCEPT ![m] = IF Cancelled(m) THEN 0 ELSE edits[m]]
    BY <1>7 DEF Import, provider, Queued
  <2>2. Sound(cursor') /\ cursor'.on = cursor.on
    <3>1. CASE cursor' = cursor
      BY <3>1 DEF Inv, Stored
    <3>2. CASE m \notin ToSet(cursor.queue) /\ cursor' = [cursor EXCEPT !.queue = q]
      <4>1. /\ cursor.queue \in Seq(Meetings) /\ IsInjective(cursor.queue)
            /\ q \in Seq(Meetings) /\ Len(q) = Len(cursor.queue) + 1 /\ q[Len(q)] = m
            /\ \A i \in 1..Len(cursor.queue) : q[i] = cursor.queue[i]
        BY CursorFields, AppendProperties DEF Inv, Stored, Sound
      <4>2. Len(cursor.queue) \in Nat /\ DOMAIN q = 1..Len(q) /\ DOMAIN cursor.queue = 1..Len(cursor.queue)
        BY <4>1
      <4> HIDE DEF q
      <4>3. IsInjective(q)
        <5>1. \A i \in 1..Len(cursor.queue) : cursor.queue[i] # m
          BY <3>2, <4>2 DEF ToSet
        <5>2. ASSUME NEW i \in 1..Len(q), NEW j \in 1..Len(q), q[i] = q[j] PROVE i = j
          <6>1. CASE i = Len(q) /\ j # Len(q)
            BY <4>1, <4>2, <5>1, <5>2, <6>1
          <6>2. CASE j = Len(q) /\ i # Len(q)
            BY <4>1, <4>2, <5>1, <5>2, <6>2
          <6>3. CASE i # Len(q) /\ j # Len(q)
            <7>1. i \in DOMAIN cursor.queue /\ j \in DOMAIN cursor.queue
              BY <4>1, <4>2, <6>3
            <7>2. cursor.queue[i] = cursor.queue[j]
              BY <4>1, <4>2, <5>2, <7>1
            <7> QED
              BY <4>1, <7>1, <7>2, Zenon DEF IsInjective
          <6> QED
            BY <6>1, <6>2, <6>3
        <5> QED
          BY <4>2, <5>2 DEF IsInjective
      <4> QED
        BY <3>2, <4>1, <4>3, Requeued DEF Inv, Stored
    <3> QED
      BY <2>1, <3>1, <3>2
  <2>3. pending' \in [Meetings -> SUBSET Projects]
    BY <2>1 DEF Inv, Stored
  <2>4. asked' \in [Meetings -> Stamps]
    BY <2>1, ConstantsAssumption DEF Inv, Stored, Stamps
  <2> QED
    BY <2>1, <2>2, <2>3, <2>4 DEF Inv, Stored, Sound
<1>8. ASSUME NEW on \in BOOLEAN, NEW same \in BOOLEAN, NEW proj \in Projects \cup {None}, Watch(on, same, proj) PROVE Stored'
  <2>1. /\ UNCHANGED <<edits, asked, member, joined, pending, suggested>>
        /\ setting' = [rev |-> setting.rev + 1, on |-> on, proj |-> proj] /\ setting.rev < MaxSettings
        /\ cursor' = IF same THEN cursor
                     ELSE [cursor EXCEPT !.on = on, !.base = FALSE, !.since = edits,
                                         !.seen = [m \in Meetings |-> 0]]
        /\ same => on /\ setting.on
    BY <1>8 DEF Watch, provider
  <2>2. setting' \in [rev : 0..MaxSettings, on : BOOLEAN, proj : Projects \cup {None}]
    BY <2>1, ConstantsAssumption DEF Inv, Stored
  <2>3. Sound(cursor') /\ cursor'.on = on
    <3>1. CASE same
      BY <2>1, <3>1 DEF Inv, Stored
    <3>2. CASE ~same
      <4> DEFINE zero == [m \in Meetings |-> 0]
      <4>1. zero \in [Meetings -> Stamps] /\ \A m \in Meetings : zero[m] = 0
        BY ConstantsAssumption DEF Stamps
      <4> HIDE DEF zero
      <4>2. cursor' = [cursor EXCEPT !.on = on, !.base = FALSE, !.since = edits, !.seen = zero]
        BY <2>1, <3>2 DEF zero
      <4> QED
        BY <4>1, <4>2 DEF Inv, Stored, Sound, Cursors
    <3> QED
      BY <3>1, <3>2
  <2> QED
    BY <2>1, <2>2, <2>3 DEF Inv, Stored, Sound
<1>9. CASE \E q \in Projects : LeaveProject(q)
  BY <1>9 DEF LeaveProject, provider, Inv, Stored, Sound
<1>10. CASE RevokeMember
  BY <1>10 DEF RevokeMember, provider, Inv, Stored, Sound
<1>11. CASE \E m \in Meetings : \/ \E r \in Revisions : Decide(m, r)
                                \/ \E i \in Inputs : LeaseExpires(m, i) \/ GrantOperator(m, i)
  <2> quiet
    BY <1>11 DEF Decide, LeaseExpires, GrantOperator, provider, intake
  <2> QED
    BY <1>1
<1>12. CASE UNCHANGED vars
  <2> quiet
    BY <1>12 DEF vars
  <2> QED
    BY <1>1
<1> QED
  BY <1>1, <1>2, <1>3, <1>4, <1>5, <1>6, <1>7, <1>8, <1>9, <1>10, <1>11, <1>12 DEF Next

\* Meetings do not lose edits.
LEMMA EditsGrow ==
  ASSUME Inv, [Next]_vars, NEW m \in Meetings, edits[m] # 0
  PROVE  edits'[m] # 0
<1>1. UNCHANGED edits \/ \E n \in Meetings : edits' = [edits EXCEPT ![n] = @ + 1]
  <2>1. ASSUME NEW p \in Passes, PassStep(p) \/ Crash(p) PROVE UNCHANGED edits
    <3>1. StartPull(p) \/ StartFreeze(p) \/ StartRetry(p) \/ PullFails(p) \/ CustodyRefuses(p) \/ PullImport(p) \/ PullBaseline(p) \/ PullWatch(p)
          => UNCHANGED edits
      BY DEF StartPull, StartFreeze, StartRetry, PullFails, CustodyRefuses, PullImport, PullBaseline, PullWatch, provider
    <3>2. AlreadyFrozen(p) \/ Reuse(p) \/ NothingFrozen(p) \/ ReadRefused(p) \/ Reserve(p) \/ Blocked(p) => UNCHANGED edits
      BY DEF AlreadyFrozen, Reuse, NothingFrozen, ReadRefused, Reserve, Blocked, provider
    <3>3. Extracted(p) \/ Aborted(p) \/ RefusedFirst(p) \/ GrantRetry(p) \/ ExtractionFails(p) \/ Park(p) \/ ParkRefused(p) \/ CloseAttempt(p)
          => UNCHANGED edits
      BY DEF Extracted, Aborted, RefusedFirst, GrantRetry, ExtractionFails, Park, ParkRefused, CloseAttempt, provider
    <3>4. Reread(p) \/ Persist(p) \/ PersistRefused(p) \/ Stage(p) \/ StageFails(p) => UNCHANGED edits
      BY DEF Reread, Persist, PersistRefused, Stage, StageFails, provider
    <3>5. Advance(p) \/ Stays(p) \/ AdvanceRefused(p) \/ Reconcile(p) \/ Crash(p) => UNCHANGED edits
      BY DEF Advance, Stays, AdvanceRefused, Reconcile, Crash, provider
    <3> QED
      BY <2>1, <3>1, <3>2, <3>3, <3>4, <3>5, Zenon DEF PassStep
  <2>2. ASSUME NEW n \in Meetings, NEW proj, NEW r, NEW i,
               CancelImport(n) \/ Import(n, proj) \/ Decide(n, r) \/ LeaseExpires(n, i) \/ GrantOperator(n, i)
        PROVE  UNCHANGED edits
    BY <2>2 DEF CancelImport, Import, Decide, LeaseExpires, GrantOperator, provider
  <2>3. ASSUME NEW on, NEW same, NEW proj, NEW q,
               Watch(on, same, proj) \/ LeaveProject(q) \/ RevokeMember \/ UNCHANGED vars
        PROVE  UNCHANGED edits
    BY <2>3 DEF Watch, LeaveProject, RevokeMember, vars, provider
  <2>4. ASSUME NEW n \in Meetings, Edit(n) PROVE edits' = [edits EXCEPT ![n] = @ + 1]
    BY <2>4 DEF Edit
  <2> QED
    BY <2>1, <2>2, <2>3, <2>4, Zenon DEF Next
<1>2. edits[m] \in Nat
  BY ConstantsAssumption DEF Inv, Stored, Stamps
<1> QED
  BY <1>1, <1>2 DEF Inv, Stored

\* A pass holds the checkpoint it read, or reads the current one.
LEMMA AdmFrom ==
  ASSUME Inv, NEW p \in Passes, PassStep(p) \/ Crash(p)
  PROVE  pass'[p].adm \in {pass[p].adm, cursor, None}
<1>1. pass \in [Passes -> Rows] /\ pass[p] \in Rows
  BY DEF Inv, PassSound
<1>2. ASSUME End(p) PROVE pass'[p].adm = None
  BY <1>1, <1>2 DEF End, Idle
<1>3. ASSUME NEW pc, Goto(p, pc) PROVE pass'[p].adm = pass[p].adm
  BY <1>1, <1>3 DEF Goto, Rows
<1>4. CASE StartPull(p) \/ StartFreeze(p) \/ StartRetry(p)
  <2>1. CASE StartPull(p)
    BY <1>1, <2>1 DEF StartPull, Idle
  <2>2. CASE StartFreeze(p)
    BY <1>1, <2>2 DEF StartFreeze, Idle
  <2>3. CASE StartRetry(p)
    BY <1>1, <2>3 DEF StartRetry, Idle
  <2> QED
    BY <1>4, <2>1, <2>2, <2>3
<1>5. CASE PullImport(p) \/ PullBaseline(p) \/ PullWatch(p)
  <2>1. \/ \E next : pass' = [pass EXCEPT ![p].pc = "advancing", ![p].next = next]
        \/ \E m, next : Admit(p, m, next)
    BY <1>5, Zenon DEF PullImport, PullBaseline, PullWatch
  <2>2. ASSUME NEW next, pass' = [pass EXCEPT ![p].pc = "advancing", ![p].next = next]
        PROVE  pass'[p].adm = pass[p].adm
    BY <1>1, <2>2 DEF Rows
  <2>3. ASSUME NEW m, NEW next, Admit(p, m, next) PROVE pass'[p].adm = pass[p].adm
    BY <1>1, <2>3 DEF Admit, Rows
  <2> QED
    BY <2>1, <2>2, <2>3
<1>6. CASE Reuse(p) \/ Extracted(p)
  <2>1. PICK d, pc : pass' = [pass EXCEPT ![p].dec = d, ![p].pc = pc]
    BY <1>6 DEF Reuse, Extracted
  <2>2. pass'[p] = [pass[p] EXCEPT !.dec = d, !.pc = pc]
    BY <1>1, <2>1
  <2> QED
    BY <1>1, <2>2 DEF Rows
<1>7. CASE ExtractionFails(p) \/ StageFails(p) \/ Reread(p)
  BY <1>1, <1>7 DEF ExtractionFails, StageFails, Reread, Rows
<1>8. CASE Blocked(p)
  <2>1. Goto(p, "reconciling") \/ pass' = [pass EXCEPT ![p].pc = "parking", ![p].stage = BlockedStage(Key(p))]
    BY <1>8 DEF Blocked
  <2> QED
    BY <1>1, <1>3, <2>1 DEF Rows
<1>9. CASE ParkRefused(p)
  <2>1. End(p) \/ pass' = [pass EXCEPT ![p].pc = "closing", ![p].failed = TRUE]
    BY <1>9 DEF ParkRefused
  <2> QED
    BY <1>1, <1>2, <2>1 DEF Rows
<1>10. CASE PullFails(p) \/ CustodyRefuses(p) \/ AlreadyFrozen(p) \/ NothingFrozen(p) \/ ReadRefused(p) \/ Reserve(p)
            \/ Aborted(p) \/ RefusedFirst(p) \/ GrantRetry(p) \/ Park(p) \/ CloseAttempt(p) \/ Persist(p)
            \/ PersistRefused(p) \/ Stage(p) \/ Advance(p) \/ Stays(p) \/ AdvanceRefused(p) \/ Reconcile(p) \/ Crash(p)
  <2>1. End(p) \/ \E pc : Goto(p, pc)
    BY <1>10, Zenon DEF PullFails, CustodyRefuses, AlreadyFrozen, NothingFrozen, ReadRefused, Reserve, Aborted, RefusedFirst,
       GrantRetry, Park, CloseAttempt, Persist, PersistRefused, Stage, Advance, Stays, AfterAdvance, AdvanceRefused,
       Reconcile, Crash
  <2> QED
    BY <1>2, <1>3, <2>1
<1> QED
  BY <1>4, <1>5, <1>6, <1>7, <1>8, <1>9, <1>10 DEF PassStep

\* The queue only takes meetings that exist.
LEMMA QueueFrom ==
  ASSUME Inv, [Next]_vars, NEW m \in Queued(cursor')
  PROVE  m \in Queued(cursor) \/ (m \in Meetings /\ edits[m] # 0)
<1> DEFINE same == Queued(cursor') \subseteq Queued(cursor)
<1>1. CASE UNCHANGED cursor
  BY <1>1
<1>2. ASSUME NEW p \in Passes, Advance(p) PROVE same
  BY <1>2, StoredAdvance
<1>3. ASSUME NEW n \in Meetings, CancelImport(n) PROVE same
  <2>1. /\ cursor' = [cursor EXCEPT !.queue = Dequeued(cursor.queue, n)]
        /\ cursor \in Cursors /\ IsInjective(cursor.queue)
    BY <1>3 DEF CancelImport, Inv, Stored, Sound
  <2>2. cursor'.queue = Dequeued(cursor.queue, n)
    BY <2>1 DEF Cursors
  <2> QED
    BY <2>1, <2>2, DequeuedIs, CursorFields DEF Queued
<1>4. ASSUME NEW n \in Meetings, NEW proj, Import(n, proj) PROVE same \/ (m \in Queued(cursor) \cup {n} /\ edits[n] # 0)
  <2>1. cursor' = cursor \/ cursor' = [cursor EXCEPT !.queue = Append(cursor.queue, n)]
    BY <1>4 DEF Import
  <2>2. CASE cursor' = [cursor EXCEPT !.queue = Append(cursor.queue, n)]
    <3>1. cursor \in Cursors
      BY DEF Inv, Stored, Sound
    <3>2. cursor'.queue = Append(cursor.queue, n) /\ cursor.queue \in Seq(Meetings)
      BY <2>2, <3>1 DEF Cursors
    <3>3. m \in ToSet(cursor.queue) \cup {n}
      BY <3>2, AppendProperties DEF ToSet, Queued
    <3> QED
      BY <1>4, <3>3 DEF Import, Queued
  <2> QED
    BY <2>1, <2>2
<1>5. ASSUME NEW on \in BOOLEAN, NEW sm \in BOOLEAN, NEW proj, Watch(on, sm, proj) PROVE same
  <2>1. cursor \in Cursors
    BY DEF Inv, Stored, Sound
  <2>2. cursor'.queue = cursor.queue
    BY <1>5, <2>1 DEF Watch, Cursors
  <2> QED
    BY <2>2 DEF Queued
<1>6. ASSUME NEW p \in Passes, PassStep(p) \/ Crash(p), ~Advance(p) PROVE UNCHANGED cursor
  BY <1>6 DEF PassStep, StartPull, StartFreeze, StartRetry, PullFails, CustodyRefuses, PullImport, PullBaseline, PullWatch,
       AlreadyFrozen, Reuse, NothingFrozen, ReadRefused, Reserve, Blocked, Extracted, Aborted, RefusedFirst, GrantRetry,
       ExtractionFails, Park, ParkRefused, CloseAttempt, Reread, Persist, PersistRefused, Stage, StageFails, Stays,
       AdvanceRefused, Reconcile, Crash, intake
<1> QED
  BY <1>1, <1>2, <1>3, <1>4, <1>5, <1>6 DEF Next, vars, Edit, Decide, LeaseExpires, GrantOperator, LeaveProject,
     RevokeMember, intake

\* In every step, queued imports are of meetings the provider has.
LEMMA ImportsExistStep == Inv /\ [Next]_vars => ImportsExist'
<1> SUFFICES ASSUME Inv, [Next]_vars PROVE ImportsExist'
  OBVIOUS
<1>1. ASSUME NEW m \in Queued(cursor) PROVE edits'[m] # 0
  <2>1. m \in Meetings /\ edits[m] # 0
    BY CursorFields DEF Inv, Stored, Sound, ImportsExist, Queued, ToSet
  <2> QED
    BY <2>1, EditsGrow
<1>2. \A m \in Queued(cursor') : edits'[m] # 0
  BY <1>1, QueueFrom, EditsGrow
<1>3. ASSUME NEW p \in Passes, pass[p].adm # None, NEW m \in Queued(pass[p].adm) PROVE edits'[m] # 0
  <2>1. m \in Meetings
    BY <1>3, CursorFields DEF Inv, PassSound, RowSound, Sound, Queued, ToSet
  <2> QED
    BY <1>3, <2>1, EditsGrow DEF Inv, ImportsExist
<1>4. ASSUME NEW p \in Passes, pass'[p].adm # None PROVE pass'[p].adm \in {pass[p].adm, cursor}
  <2>1. CASE \E q \in Passes : PassStep(q) \/ Crash(q)
    <3>1. PICK q \in Passes : PassStep(q) \/ Crash(q)
      BY <2>1
    <3> QED
      BY <1>4, <3>1, AdmFrom, PassesAlone DEF Alone
  <2>2. CASE \E m \in Meetings : CancelImport(m)
    <3>1. pass'[p].adm = pass[p].adm
      BY <2>2, CancelMarks DEF Inv, PassSound, Rows
    <3> QED
      BY <3>1
  <2>3. CASE UNCHANGED pass
    BY <2>3
  <2> QED
    BY <2>1, <2>2, <2>3 DEF Next, vars, Edit, Import, Decide, LeaseExpires, GrantOperator, Watch, LeaveProject, RevokeMember
<1> QED
  BY <1>1, <1>2, <1>3, <1>4 DEF ImportsExist

-----------------------------------------------------------------------------
(* Candidates, proposals and parked extractions.                             *)

\* A cell of the candidate table that the schema admits, and how one may change.
CellOK(c) == c # None =>
  /\ c \in Candidates
  /\ c.dec = NoCommitment => c.box = "none"
  /\ c.decided => c.box = "staged"

CellMoves(c, d) == c # None =>
  /\ d # None /\ d.dec = c.dec
  /\ c.decided => d = c
  /\ c.box = "superseded" => d.box = "superseded"
  /\ c.box = "staged" => d.proj = c.proj
  /\ c.box # "none" => d.box # "none"

IsOpen(c) == c # None /\ c.box \in {"queued", "staged"} /\ ~c.decided

\* The fields of a candidate.
LEMMA CellFields ==
  ASSUME NEW c \in Candidates
  PROVE  /\ c.dec \in Decisions /\ c.box \in Boxes /\ c.proj \in SUBSET Projects /\ c.decided \in BOOLEAN /\ c # None
BY NoneAssumption DEF Candidates

\* Every cell is one the schema admits, and only the head's is open.
LEMMA CellsTyped ==
  ASSUME Inv, NEW m \in Meetings, NEW r \in Revisions
  PROVE  /\ CellOK(cand[m][r]) /\ cand[m][r] \in Candidates \cup {None}
         /\ IsOpen(cand[m][r]) => r = head[m]
BY DEF Inv, Review, CellOK, IsOpen, OneOpenProposal, Open

\* A freeze of a queued proposal.
LEMMA FreezeCell ==
  ASSUME Inv, NEW m \in Meetings, NEW c, CellOK(c), c # None, c.box = "queued"
  PROVE  LET d == Frozen(m, c) IN CellOK(d) /\ d # None /\ d \in Candidates /\ CellMoves(c, d) /\ (IsOpen(d) => IsOpen(c))
<1> DEFINE proj == suggested[m] \cup (pending[m] \cap joined)
<1>1. proj \in SUBSET Projects
  BY DEF Inv, Stored
<1> HIDE DEF proj
<1>2. c \in Candidates /\ ~c.decided /\ c.dec # NoCommitment
  BY DEF CellOK, Candidates
<1> DEFINE d == [c EXCEPT !.box = "staged", !.proj = proj]
<1>3. /\ d \in Candidates /\ d.dec = c.dec /\ d.box = "staged" /\ d.decided = c.decided
  BY <1>1, <1>2 DEF Candidates, Boxes
<1>4. d # None
  BY <1>3, NoneAssumption
<1>5. Frozen(m, c) = d
  BY DEF Frozen, proj
<1> HIDE DEF d
<1> QED
  BY <1>2, <1>3, <1>4, <1>5 DEF CellOK, CellMoves, IsOpen

\* A superseded proposal.
LEMMA SupersedeCell ==
  ASSUME NEW c, CellOK(c), IsOpen(c)
  PROVE  LET d == [c EXCEPT !.box = "superseded"] IN
         CellOK(d) /\ d # None /\ d \in Candidates /\ (c.box # "staged" \/ d.proj = c.proj) /\ CellMoves(c, d) /\ ~IsOpen(d)
<1> DEFINE d == [c EXCEPT !.box = "superseded"]
<1>1. c \in Candidates /\ c.dec # NoCommitment /\ ~c.decided /\ c.box \in {"queued", "staged"}
  BY DEF CellOK, IsOpen, Candidates
<1>2. d \in Candidates /\ d.dec = c.dec /\ d.box = "superseded" /\ d.decided = c.decided /\ d.proj = c.proj
  BY <1>1 DEF Candidates, Boxes
<1>3. d # None
  BY <1>2, NoneAssumption
<1> HIDE DEF d
<1>4. CellOK(d) /\ d # None /\ d \in Candidates /\ (c.box # "staged" \/ d.proj = c.proj) /\ CellMoves(c, d) /\ ~IsOpen(d)
  BY <1>1, <1>2, <1>3 DEF CellOK, CellMoves, IsOpen
<1> QED
  BY <1>4 DEF d

\* What every step does to the candidates: cells stay sound, move as they may,
\* and only a new head's cell opens.
CellsStep ==
  /\ cand' \in [Meetings -> [Revisions -> Candidates \cup {None}]]
  /\ \A m \in Meetings, r \in Revisions :
       /\ CellOK(cand'[m][r]) /\ CellMoves(cand[m][r], cand'[m][r])
       /\ IsOpen(cand'[m][r]) => r = head'[m]

\* A cell may stay as it is.
LEMMA CellStays == \A c : CellMoves(c, c)
BY DEF CellMoves

\* A persist freezes its revision and leaves the cells sound.
LEMMA PersistCells ==
  ASSUME Inv, NEW p \in Passes, Persist(p)
  PROVE  /\ CellsStep
         /\ head' \in [Meetings -> Revisions \cup {None}]
         /\ \A m \in Meetings : head'[m] # None => cand'[m][head'[m]] # None
         /\ cand'[pass[p].m][pass[p].r] # None
         /\ pass'[p].pc = "staging" => cand'[pass[p].m][pass[p].r].box # "none"
<1> DEFINE m == pass[p].m
           r == pass[p].r
           d == pass[p].dec
           changed == head[m] = None \/ cand[m][head[m]].dec # d
           box == IF changed /\ d # NoCommitment THEN "queued" ELSE "none"
           new == [dec |-> d, box |-> box, proj |-> {}, decided |-> FALSE]
           others == IF changed THEN Superseded(m) ELSE cand[m]
<1>1. pass[p].pc = "persisting" /\ m \in Meetings /\ r \in Revisions /\ d \in Decisions
  BY OnOne DEF Persist, At, OnRevision, Inv, PassSound, RowSound, Rows
<1>2. /\ cand \in [Meetings -> [Revisions -> Candidates \cup {None}]]
      /\ head \in [Meetings -> Revisions \cup {None}]
      /\ \A n \in Meetings : head[n] # None => cand[n][head[n]] # None
  BY DEF Inv, Review
<1>0. Goto(p, "advancing") => pass'[p].pc # "staging"
  <2>1. Goto(p, "advancing") => pass'[p].pc = "advancing"
    BY Leads, Zenon
  <2> QED
    BY <2>1
<1>3. CASE cand[m][r] # None
  <2>1. /\ UNCHANGED <<cand, head>>
        /\ Goto(p, "advancing") \/ (cand[m][r].box # "none" /\ Goto(p, "staging"))
    BY <1>3 DEF Persist, review
  <2>2. pass'[p].pc = "staging" => cand[m][r].box # "none"
    BY <1>0, <2>1, Zenon
  <2> QED
    BY <1>2, <1>3, <2>1, <2>2, CellsTyped, CellStays DEF CellsStep
<1>4. CASE cand[m][r] = None
  <2>1. /\ cand' = [cand EXCEPT ![m] = [others EXCEPT ![r] = new]]
        /\ head' = IF changed THEN [head EXCEPT ![m] = r] ELSE head
        /\ Goto(p, "advancing") \/ (box = "queued" /\ Goto(p, "staging"))
    BY <1>4 DEF Persist
  <2>2. pass'[p].pc = "staging" => box = "queued"
    BY <1>0, <2>1, Zenon
  <2>3. new \in Candidates /\ new # None /\ new.dec = d /\ new.box = box /\ ~new.decided
    <3>1. box \in Boxes
      BY DEF Boxes
    <3> HIDE DEF box, changed
    <3>2. new \in Candidates
      BY <1>1, <3>1 DEF Candidates
    <3> QED
      BY <3>2, NoneAssumption
  <2>4. CellOK(new) /\ (IsOpen(new) => changed)
    BY <2>3 DEF CellOK, IsOpen
  <2>5. others \in [Revisions -> Candidates \cup {None}]
        /\ \A s \in Revisions : CellOK(others[s]) /\ CellMoves(cand[m][s], others[s])
                               /\ (IsOpen(others[s]) => ~changed /\ s = head[m])
    <3>1. CASE ~changed
      BY <1>1, <1>2, <3>1, CellsTyped, CellStays
    <3>2. CASE changed
      <4>1. others = Superseded(m)
        BY <3>2
      <4>2. ASSUME NEW s \in Revisions
            PROVE  LET c == Superseded(m)[s] IN
                   CellOK(c) /\ c \in Candidates \cup {None} /\ CellMoves(cand[m][s], c) /\ ~IsOpen(c)
        <5>1. CASE IsOpen(cand[m][s])
          <6>1. Superseded(m)[s] = [cand[m][s] EXCEPT !.box = "superseded"]
            BY <5>1 DEF Superseded, IsOpen
          <6> QED
            BY <1>1, <5>1, <6>1, CellsTyped, SupersedeCell
        <5>2. CASE ~IsOpen(cand[m][s])
          <6>1. Superseded(m)[s] = cand[m][s]
            BY <5>2 DEF Superseded, IsOpen
          <6> QED
            BY <1>1, <5>2, <6>1, CellsTyped, CellStays
        <5> QED
          BY <5>1, <5>2
      <4>3. Superseded(m) = [s \in Revisions |-> Superseded(m)[s]]
        BY DEF Superseded
      <4> QED
        BY <4>1, <4>2, <4>3
    <3> QED
      BY <3>1, <3>2
  <2> HIDE DEF new, others, changed, box
  <2> DEFINE row == [others EXCEPT ![r] = new]
  <2>6. row \in [Revisions -> Candidates \cup {None}] /\ row[r] = new /\ \A s \in Revisions \ {r} : row[s] = others[s]
    BY <1>1, <2>3, <2>5
  <2> HIDE DEF row
  <2>7. cand' = [cand EXCEPT ![m] = row]
    BY <2>1 DEF row
  <2>8. head' \in [Meetings -> Revisions \cup {None}]
    BY <1>1, <1>2, <2>1
  <2>9. ASSUME NEW s \in Revisions
        PROVE  CellOK(cand'[m][s]) /\ CellMoves(cand[m][s], cand'[m][s]) /\ (IsOpen(cand'[m][s]) => s = head'[m])
    <3>1. cand'[m][s] = row[s]
      BY <1>1, <1>2, <2>7
    <3>2. CASE s = r
      <4>1. CellMoves(cand[m][s], cand'[m][s])
        BY <1>4, <3>2 DEF CellMoves
      <4>2. IsOpen(cand'[m][s]) => s = head'[m]
        BY <1>1, <1>2, <2>1, <2>4, <2>6, <3>1, <3>2
      <4> QED
        BY <2>4, <2>6, <3>1, <3>2, <4>1, <4>2
    <3>3. CASE s # r
      BY <1>1, <1>2, <2>1, <2>5, <2>6, <3>1, <3>3
    <3> QED
      BY <3>2, <3>3
  <2>10. ASSUME NEW n \in Meetings \ {m}, NEW s \in Revisions
         PROVE  CellOK(cand'[n][s]) /\ CellMoves(cand[n][s], cand'[n][s]) /\ (IsOpen(cand'[n][s]) => s = head'[n])
    <3>1. cand'[n][s] = cand[n][s] /\ head'[n] = head[n]
      BY <1>1, <1>2, <2>1, <2>7
    <3> QED
      BY <3>1, CellsTyped, CellStays
  <2>11. cand' \in [Meetings -> [Revisions -> Candidates \cup {None}]]
    BY <1>1, <1>2, <2>6, <2>7
  <2>12. CellsStep
    BY <2>9, <2>10, <2>11 DEF CellsStep
  <2>13. \A n \in Meetings : head'[n] # None => cand'[n][head'[n]] # None
    <3>1. cand'[m][r] # None
      BY <1>1, <1>2, <2>3, <2>6, <2>7
    <3>2. ASSUME NEW n \in Meetings, head'[n] # None PROVE cand'[n][head'[n]] # None
      <4>1. CASE n = m /\ changed
        BY <1>1, <1>2, <2>1, <3>1, <4>1
      <4>2. CASE ~(n = m /\ changed)
        <5>1. head'[n] = head[n] /\ head[n] \in Revisions /\ cand[n][head[n]] # None
          BY <1>1, <1>2, <2>1, <2>8, <3>2, <4>2
        <5> QED
          BY <2>12, <5>1 DEF CellsStep, CellMoves
      <4> QED
        BY <4>1, <4>2
    <3> QED
      BY <3>2
  <2> QED
    BY <1>1, <1>2, <2>2, <2>3, <2>6, <2>7, <2>8, <2>12, <2>13
<1> QED
  BY <1>3, <1>4

\* So does the freeze of one proposal.
LEMMA StageCells ==
  ASSUME Inv, NEW p \in Passes, Stage(p)
  PROVE  CellsStep
<1> DEFINE m == pass[p].m
           r == pass[p].r
<1>1. /\ m \in Meetings /\ r \in Revisions /\ UNCHANGED head
      /\ cand[m][r] # None /\ cand[m][r].box # "none"
  BY OnOne DEF Stage, At, OnRevision, Inv, Review
<1>2. cand \in [Meetings -> [Revisions -> Candidates \cup {None}]]
  BY DEF Inv, Review
<1>3. CASE UNCHANGED cand
  BY <1>1, <1>2, <1>3, CellsTyped, CellStays DEF CellsStep
<1>4. CASE ~UNCHANGED cand
  <2>1. /\ cand' = [cand EXCEPT ![m][r] = Frozen(m, cand[m][r])]
        /\ cand[m][r].box \notin {"superseded", "staged"}
    BY <1>4 DEF Stage
  <2>2. cand[m][r].box = "queued"
    BY <1>1, <1>2, <2>1, CellFields DEF Boxes
  <2> DEFINE d == Frozen(m, cand[m][r])
  <2>3. CellOK(d) /\ d # None /\ d \in Candidates /\ CellMoves(cand[m][r], d) /\ (IsOpen(d) => IsOpen(cand[m][r]))
    BY <1>1, <2>2, CellsTyped, FreezeCell
  <2> HIDE DEF d
  <2>4. cand' = [cand EXCEPT ![m][r] = d]
    BY <2>1 DEF d
  <2>5. cand' \in [Meetings -> [Revisions -> Candidates \cup {None}]]
    BY <1>1, <1>2, <2>3, <2>4
  <2>6. \A n \in Meetings, s \in Revisions : cand'[n][s] = IF n = m /\ s = r THEN d ELSE cand[n][s]
    BY <1>1, <1>2, <2>4
  <2> QED
    BY <1>1, <2>3, <2>5, <2>6, CellsTyped, CellStays DEF CellsStep
<1> QED
  BY <1>3, <1>4

\* So does the retry of the failed freezes.
LEMMA ReconcileCells ==
  ASSUME Inv, NEW p \in Passes, Reconcile(p)
  PROVE  CellsStep
<1>1. PICK done \in SUBSET Unfrozen :
        cand' = [m \in Meetings |-> [r \in Revisions |->
                   IF <<m, r>> \in done THEN Frozen(m, cand[m][r]) ELSE cand[m][r]]]
  BY DEF Reconcile
<1>2. UNCHANGED head
  BY DEF Reconcile
<1>3. ASSUME NEW m \in Meetings, NEW r \in Revisions
      PROVE  /\ CellOK(cand'[m][r]) /\ CellMoves(cand[m][r], cand'[m][r]) /\ cand'[m][r] \in Candidates \cup {None}
             /\ IsOpen(cand'[m][r]) => r = head'[m]
  <2>1. CASE <<m, r>> \in done
    <3>1. cand'[m][r] = Frozen(m, cand[m][r])
      BY <1>1, <2>1
    <3>2. head[m] = r /\ cand[m][r].box = "queued"
      BY <2>1 DEF Unfrozen
    <3>3. cand[m][r] # None
      BY <3>2, NoneAssumption DEF Inv, Review
    <3> QED
      BY <1>2, <3>1, <3>2, <3>3, CellsTyped, FreezeCell
  <2>2. CASE <<m, r>> \notin done
    BY <1>1, <1>2, <2>2, CellsTyped, CellStays
  <2> QED
    BY <2>1, <2>2
<1>4. cand' \in [Meetings -> [Revisions -> Candidates \cup {None}]]
  BY <1>1, <1>3
<1> QED
  BY <1>3, <1>4 DEF CellsStep

\* So does a reviewer's decision.
LEMMA DecideCells ==
  ASSUME Inv, NEW m \in Meetings, NEW r \in Revisions, Decide(m, r)
  PROVE  CellsStep /\ UNCHANGED head
<1> DEFINE c == cand[m][r]
           d == [c EXCEPT !.decided = TRUE]
<1>1. /\ UNCHANGED head /\ c # None /\ c.box = "staged" /\ ~c.decided
      /\ cand' = [cand EXCEPT ![m][r].decided = TRUE]
  BY DEF Decide
<1>2. cand \in [Meetings -> [Revisions -> Candidates \cup {None}]] /\ c \in Candidates /\ CellOK(c)
  BY <1>1, CellsTyped DEF Inv, Review
<1>3. d \in Candidates /\ d.dec = c.dec /\ d.box = c.box /\ d.decided /\ d.proj = c.proj /\ d # None
  <2>1. d \in Candidates /\ d.dec = c.dec /\ d.box = c.box /\ d.decided /\ d.proj = c.proj
    BY <1>2 DEF Candidates
  <2> QED
    BY <2>1, NoneAssumption
<1>4. cand' = [cand EXCEPT ![m][r] = d]
  BY <1>1
<1> HIDE DEF d
<1>5. CellOK(d) /\ CellMoves(c, d) /\ ~IsOpen(d)
  BY <1>1, <1>2, <1>3 DEF CellOK, CellMoves, IsOpen
<1>6. \A n \in Meetings, s \in Revisions : cand'[n][s] = IF n = m /\ s = r THEN d ELSE cand[n][s]
  BY <1>2, <1>4
<1>7. cand' \in [Meetings -> [Revisions -> Candidates \cup {None}]]
  BY <1>2, <1>3, <1>4
<1>8. ASSUME NEW n \in Meetings, NEW s \in Revisions
      PROVE  /\ CellOK(cand'[n][s]) /\ CellMoves(cand[n][s], cand'[n][s])
             /\ IsOpen(cand'[n][s]) => s = head'[n]
  <2>1. CASE n = m /\ s = r
    <3>1. cand'[n][s] = d /\ cand[n][s] = c
      BY <1>6, <2>1
    <3> HIDE DEF c
    <3> QED
      BY <1>5, <3>1
  <2>2. CASE ~(n = m /\ s = r)
    <3>1. cand'[n][s] = cand[n][s] /\ head'[n] = head[n]
      BY <1>1, <1>6, <2>2
    <3> QED
      BY <3>1, CellsTyped, CellStays
  <2> QED
    BY <2>1, <2>2
<1>9. CellsStep
  BY <1>7, <1>8 DEF CellsStep
<1> QED
  BY <1>1, <1>9

\* So does a step that leaves candidates and heads alone.
LEMMA CellsStay ==
  ASSUME Inv, UNCHANGED <<cand, head>>
  PROVE  CellsStep
BY CellsTyped, CellStays DEF CellsStep, Inv, Review

\* Everything but a persist leaves the heads, and everything but these three
\* and a decision leaves the candidates.
LEMMA ReviewFrame ==
  ASSUME [Next]_vars
  PROVE  /\ UNCHANGED head \/ \E p \in Passes : Persist(p)
         /\ UNCHANGED cand \/ (\E p \in Passes : Persist(p) \/ Stage(p) \/ Reconcile(p))
                           \/ (\E m \in Meetings, r \in Revisions : Decide(m, r))
         /\ UNCHANGED held \/ (\E p \in Passes : AlreadyFrozen(p) \/ Park(p) \/ Persist(p))
                           \/ (\E m \in Meetings : CancelImport(m))
<1>1. ASSUME NEW p \in Passes, PassStep(p) \/ Crash(p), ~Persist(p)
      PROVE  /\ UNCHANGED head
             /\ UNCHANGED cand \/ Stage(p) \/ Reconcile(p)
             /\ UNCHANGED held \/ AlreadyFrozen(p) \/ Park(p)
  BY <1>1 DEF PassStep, StartPull, StartFreeze, StartRetry, PullFails, CustodyRefuses, PullImport, PullBaseline, PullWatch,
       AlreadyFrozen, Reuse, NothingFrozen, ReadRefused, Reserve, Blocked, Extracted, Aborted, RefusedFirst, GrantRetry,
       ExtractionFails, Park, ParkRefused, CloseAttempt, Reread, PersistRefused, Stage, StageFails, Advance, Stays,
       AdvanceRefused, Reconcile, Crash, review
<1>2. ASSUME ~\E p \in Passes : PassStep(p) \/ Crash(p)
      PROVE  /\ UNCHANGED head
             /\ UNCHANGED cand \/ \E m \in Meetings, r \in Revisions : Decide(m, r)
             /\ UNCHANGED held \/ \E m \in Meetings : CancelImport(m)
  BY <1>2 DEF Next, vars, Edit, CancelImport, Import, Decide, LeaseExpires, GrantOperator, Watch, LeaveProject,
                RevokeMember, review
<1>3. CASE \E p \in Passes : PassStep(p) \/ Crash(p)
  <2>1. PICK p \in Passes : PassStep(p) \/ Crash(p)
    BY <1>3
  <2>2. CASE Persist(p)
    BY <2>2
  <2>3. CASE ~Persist(p)
    BY <1>1, <2>1, <2>3
  <2> QED
    BY <2>2, <2>3
<1> QED
  BY <1>2, <1>3

\* So does every step.
LEMMA CellsMove ==
  ASSUME Inv, [Next]_vars
  PROVE  CellsStep
<1>1. ASSUME NEW p \in Passes, Persist(p) \/ Stage(p) \/ Reconcile(p) PROVE CellsStep
  BY <1>1, PersistCells, StageCells, ReconcileCells
<1> QED
  BY <1>1, ReviewFrame, CellsStay, DecideCells

\* A park writes one row of the table, or nothing when its pull no longer applies.
LEMMA ParkHolds ==
  ASSUME Inv, NEW p \in Passes, Park(p)
  PROVE  LET m == pass[p].m IN
         \/ held' = held /\ PullOf(p) /\ ~PullStillApplies(pass[p].adm, pass[p].next)
         \/ \E row \in Parked : row.r = pass[p].r /\ held' = [held EXCEPT ![m] = row]
<1> DEFINE me == pass[p]
           n  == attempt[Key(p)]
           stage == FirstStage(me.m, me.r, n, me.stage)
           row == [r |-> me.r, attempt |-> n, stage |-> stage]
<1>0. held \in [Meetings -> Parked \cup {None}]
  BY DEF Inv, Review
<1>1. /\ At(p, "parking")
      /\ \/ held' = held /\ PullOf(p) /\ ~PullStillApplies(me.adm, me.next)
         \/ held' = [held EXCEPT ![me.m] = row]
  BY DEF Park
<1>2. me.m \in Meetings /\ me.r \in Revisions /\ Key(p) \in Meetings \X Inputs /\ me.stage \in Stages \ {"none"}
  BY <1>1, OnOne DEF At, OnRevision, Inv, RowSound, Rows
<1>3. n \in 1..MaxAttempt
  <2>1. n \in 0..MaxAttempt /\ n # 0
    BY <1>1, <1>2 DEF Inv, Linked, LinkOf, Attempts!IndInv, Attempts!TypeOK
  <2> QED
    BY <2>1, LedgerConstants
<1>4. stage \in Stages \ {"none"}
  BY <1>0, <1>2 DEF FirstStage, Parked
<1>5. row \in Parked /\ row.r = me.r
  BY <1>2, <1>3, <1>4 DEF Parked
<1> HIDE DEF row
<1> QED
  BY <1>1, <1>5

\* Every step leaves parked rows the schema admits.
LEMMA HeldTyped ==
  ASSUME Inv, [Next]_vars
  PROVE  held' \in [Meetings -> Parked \cup {None}]
<1>0. held \in [Meetings -> Parked \cup {None}]
  BY DEF Inv, Review
<1>1. CASE UNCHANGED held
  BY <1>0, <1>1
<1>2. ASSUME NEW m, held' = held \/ held' = [held EXCEPT ![m] = None]
      PROVE  held' \in [Meetings -> Parked \cup {None}]
  BY <1>0, <1>2
<1>3. ASSUME NEW p \in Passes, AlreadyFrozen(p) \/ Persist(p) PROVE held' \in [Meetings -> Parked \cup {None}]
  <2>1. held' = held \/ held' = [held EXCEPT ![pass[p].m] = None]
    BY <1>3 DEF AlreadyFrozen, Persist, review, Unparked
  <2> QED
    BY <1>2, <2>1
<1>4. ASSUME NEW m \in Meetings, CancelImport(m) PROVE held' \in [Meetings -> Parked \cup {None}]
  BY <1>2, <1>4 DEF CancelImport, Unparked
<1>5. ASSUME NEW p \in Passes, Park(p) PROVE held' \in [Meetings -> Parked \cup {None}]
  BY <1>0, <1>5, ParkHolds
<1> QED
  BY <1>1, <1>3, <1>4, <1>5, ReviewFrame

\* A pass comes to stage a proposal it found frozen or just persisted.
LEMMA ComesToStage ==
  ASSUME Inv, NEW p \in Passes, PassStep(p) \/ Crash(p), pass'[p].pc = "staging"
  PROVE  AlreadyFrozen(p) \/ Persist(p)
<1>1. pass \in [Passes -> Rows] /\ pass[p] \in Rows
  BY DEF Inv, PassSound
<1>2. ~End(p)
  <2>1. End(p) => pass'[p].pc = "idle"
    BY Leads
  <2> QED
    BY <2>1
<1>3. ASSUME NEW pc, Goto(p, pc) PROVE pc = "staging"
  <2>1. pass'[p].pc = pc
    BY <1>3, Leads
  <2> QED
    BY <2>1
<1>4. ~StartPull(p) /\ ~StartFreeze(p) /\ ~StartRetry(p)
  <2>1. /\ StartPull(p) => pass'[p].pc = "pulling"
        /\ StartFreeze(p) => pass'[p].pc = "reconciling"
        /\ StartRetry(p) => pass'[p].pc = "admitted"
    BY Leads
  <2> QED
    BY <2>1
<1>5. ~PullFails(p) /\ ~CustodyRefuses(p) /\ ~NothingFrozen(p) /\ ~ReadRefused(p) /\ ~Reserve(p) /\ ~Aborted(p)
      /\ ~RefusedFirst(p) /\ ~GrantRetry(p) /\ ~Park(p) /\ ~CloseAttempt(p) /\ ~PersistRefused(p) /\ ~Stage(p)
  BY <1>2, <1>3 DEF PullFails, CustodyRefuses, NothingFrozen, ReadRefused, Reserve, Aborted, RefusedFirst, GrantRetry, Park,
     CloseAttempt, PersistRefused, Stage
<1>6. ~Advance(p) /\ ~Stays(p) /\ ~AdvanceRefused(p) /\ ~Reconcile(p) /\ ~Crash(p)
  BY <1>2, <1>3 DEF Advance, Stays, AdvanceRefused, Reconcile, Crash, AfterAdvance
<1>7. ~PullImport(p) /\ ~PullBaseline(p) /\ ~PullWatch(p)
  <2>1. ASSUME NEW next, pass' = [pass EXCEPT ![p].pc = "advancing", ![p].next = next] PROVE FALSE
    BY <1>1, <2>1 DEF Rows
  <2>2. ASSUME NEW m, NEW next, Admit(p, m, next) PROVE FALSE
    BY <1>1, <2>2 DEF Admit, Rows
  <2> QED
    BY <2>1, <2>2 DEF PullImport, PullBaseline, PullWatch
<1>8. ~Reuse(p) /\ ~Extracted(p)
  <2>1. ASSUME NEW d, pass' = [pass EXCEPT ![p].dec = d, ![p].pc = IF PullOf(p) THEN "persisting" ELSE "rereading"]
        PROVE  FALSE
    BY <1>1, <2>1 DEF Rows
  <2> QED
    BY <2>1 DEF Reuse, Extracted
<1>9. ~Blocked(p) /\ ~ExtractionFails(p) /\ ~ParkRefused(p) /\ ~Reread(p) /\ ~StageFails(p)
  <2>1. ASSUME NEW stage, pass' = [pass EXCEPT ![p].pc = "parking", ![p].stage = stage] PROVE FALSE
    BY <1>1, <2>1 DEF Rows
  <2>2. ~Blocked(p) /\ ~ExtractionFails(p)
    BY <1>3, <2>1 DEF Blocked, ExtractionFails
  <2>3. ~ParkRefused(p)
    <3>1. pass' # [pass EXCEPT ![p].pc = "closing", ![p].failed = TRUE]
      BY <1>1 DEF Rows
    <3> QED
      BY <1>2, <3>1 DEF ParkRefused
  <2>4. ~Reread(p) /\ ~StageFails(p)
    BY <1>1 DEF Reread, StageFails, Rows
  <2> QED
    BY <2>2, <2>3, <2>4
<1> QED
  BY <1>4, <1>5, <1>6, <1>7, <1>8, <1>9 DEF PassStep

\* The review tables stay sound, and one proposal of a meeting open, in every step.
LEMMA ReviewStep == Inv /\ [Next]_vars => Review' /\ OneOpenProposal'
<1> SUFFICES ASSUME Inv, [Next]_vars PROVE Review' /\ OneOpenProposal'
  OBVIOUS
<1>1. CellsStep /\ held' \in [Meetings -> Parked \cup {None}]
  BY CellsMove, HeldTyped
<1>2. /\ head' \in [Meetings -> Revisions \cup {None}]
      /\ \A m \in Meetings : head'[m] # None => cand'[m][head'[m]] # None
  <2>1. CASE UNCHANGED head
    <3>1. /\ head \in [Meetings -> Revisions \cup {None}]
          /\ \A m \in Meetings : head[m] # None => cand[m][head[m]] # None
      BY DEF Inv, Review
    <3> QED
      BY <1>1, <2>1, <3>1 DEF CellsStep, CellMoves
  <2> QED
    BY <2>1, PersistCells, ReviewFrame
<1>3. ASSUME NEW p \in Passes, pass'[p].pc = "staging"
      PROVE  cand'[pass'[p].m][pass'[p].r] # None /\ cand'[pass'[p].m][pass'[p].r].box # "none"
  <2>1. ASSUME pass'[p].pc = pass[p].pc, pass'[p].m = pass[p].m, pass'[p].r = pass[p].r
        PROVE  cand'[pass'[p].m][pass'[p].r] # None /\ cand'[pass'[p].m][pass'[p].r].box # "none"
    <3>1. pass[p].m \in Meetings /\ pass[p].r \in Revisions /\ At(p, "staging")
      BY <1>3, <2>1, OnOne DEF At, OnRevision, Inv
    <3>2. cand[pass[p].m][pass[p].r] # None /\ cand[pass[p].m][pass[p].r].box # "none"
      BY <3>1 DEF Inv, Review
    <3> QED
      BY <1>1, <2>1, <3>1, <3>2 DEF CellsStep, CellMoves
  <2>2. ASSUME NEW q \in Passes, PassStep(q) \/ Crash(q)
        PROVE  cand'[pass'[p].m][pass'[p].r] # None /\ cand'[pass'[p].m][pass'[p].r].box # "none"
    <3>1. CASE q # p
      BY <2>1, <2>2, <3>1, PassesAlone DEF Alone
    <3>2. CASE q = p /\ AlreadyFrozen(p)
      <4>1. pass[p].m \in Meetings /\ pass[p].r \in Revisions /\ cand[pass[p].m][pass[p].r] # None
        BY <3>2, OnOne DEF AlreadyFrozen, At, OnRevision, Inv
      <4>2. Goto(p, "advancing") \/ (cand[pass[p].m][pass[p].r].box = "queued" /\ Goto(p, "staging"))
        BY <3>2 DEF AlreadyFrozen
      <4>3. \A pc : Goto(p, pc) => pass'[p] = [pass[p] EXCEPT !.pc = pc] /\ pass'[p].pc = pc
        BY Leads
      <4>4. cand[pass[p].m][pass[p].r].box = "queued" /\ pass'[p] = [pass[p] EXCEPT !.pc = "staging"]
        BY <1>3, <4>2, <4>3
      <4>5. pass'[p].m = pass[p].m /\ pass'[p].r = pass[p].r
        BY <4>4 DEF Inv, PassSound, Rows
      <4> QED
        BY <1>1, <4>1, <4>4, <4>5 DEF CellsStep, CellMoves
    <3>3. CASE q = p /\ Persist(p)
      <4>1. \E pc : Goto(p, pc)
        BY <3>3, Zenon DEF Persist
      <4>2. pass'[p].m = pass[p].m /\ pass'[p].r = pass[p].r
        BY <4>1 DEF Goto, Inv, PassSound, Rows
      <4> QED
        BY <1>3, <3>3, <4>2, PersistCells
    <3> QED
      BY <1>3, <2>2, <3>1, <3>2, <3>3, ComesToStage
  <2>3. ASSUME NEW m \in Meetings, CancelImport(m)
        PROVE  cand'[pass'[p].m][pass'[p].r] # None /\ cand'[pass'[p].m][pass'[p].r].box # "none"
    <3>1. pass'[p].pc = pass[p].pc /\ pass'[p].m = pass[p].m /\ pass'[p].r = pass[p].r
      BY <2>3, CancelLeaves DEF Inv
    <3> QED
      BY <2>1, <3>1
  <2>4. CASE UNCHANGED pass
    BY <2>1, <2>4
  <2> QED
    BY <2>2, <2>3, <2>4 DEF Next, vars, Edit, Import, Decide, LeaseExpires, GrantOperator, Watch, LeaveProject, RevokeMember
<1>4. Review'
  BY <1>1, <1>2, <1>3 DEF Review, CellsStep, CellOK, At
<1>5. OneOpenProposal'
  BY <1>1 DEF OneOpenProposal, Open, CellsStep, IsOpen
<1> QED
  BY <1>4, <1>5

-----------------------------------------------------------------------------
(* The invariant and the theorems.                                           *)

\* The invariant holds initially,
LEMMA InvInit == Init => Inv
<1> SUFFICES ASSUME Init PROVE Inv
  OBVIOUS
<1> USE DEF Init
<1>1. 0 \in Stamps
  BY ConstantsAssumption DEF Stamps
<1>2. PassSound
  BY IdleSound DEF PassSound
<1> DEFINE zero == [m \in Meetings |-> 0]
           first == [queue |-> <<>>, on |-> FALSE, base |-> FALSE, since |-> zero, seen |-> zero]
<1>3. cursor = first /\ Sound(first) /\ cursor.queue = <<>> /\ cursor.on = FALSE
  <2>1. zero \in [Meetings -> Stamps]
    BY <1>1
  <2>2. <<>> \in Seq(Meetings) /\ IsInjective(<<>>)
    BY DEF IsInjective
  <2>3. first \in Cursors
    BY <2>1, <2>2 DEF Cursors
  <2> QED
    BY <2>2, <2>3 DEF Sound
<1>4. Stored
  <2>1. setting \in [rev : 0..MaxSettings, on : BOOLEAN, proj : Projects \cup {None}] /\ setting.on = FALSE
    BY ConstantsAssumption
  <2> QED
    BY <1>1, <1>3, <2>1 DEF Stored
<1>5. ImportsExist
  <2>1. Queued(cursor) = {}
    BY <1>3 DEF Queued, ToSet
  <2> QED
    BY <2>1 DEF ImportsExist, Idle
<1>6. Review /\ OneOpenProposal
  BY DEF Review, OneOpenProposal, Open, At, Idle
<1>7. Attempts!IndInv
  BY LedgerStarts
<1>8. Linked
  BY DEF Linked, LinkOf, Claiming, At, Idle, Ledger!Init
<1> QED
  BY <1>2, <1>4, <1>5, <1>6, <1>7, <1>8 DEF Inv

\* is kept by every step,
LEMMA InvNext == Inv /\ [Next]_vars => Inv'
<1>1. Inv /\ [Next]_vars => Attempts!IndInv'
  BY LedgerMoves, LedgerStep DEF Inv
<1> QED
  BY <1>1, PassSoundStep, StoredStep, ImportsExistStep, ReviewStep, LinkedStep DEF Inv

\* and so always holds.
LEMMA InvAlways == Spec => []Inv
BY InvInit, InvNext, PTL DEF Spec

\* The tables hold rows their schema admits, and a pass claims an attempt
\* exactly while it calls, grants, parks a failure or closes it.
THEOREM ProcessingTypes == Spec => []TypeOK
<1>1. Inv => TypeOK
  <2> SUFFICES ASSUME Inv PROVE TypeOK
    OBVIOUS
  <2>1. \A p \in Passes :
          /\ pass[p].pc \in Steps /\ pass[p].stage \in Stages
          /\ claim[p] # None <=> (pass[p].pc \in {"calling", "granting", "closing"}
                                 \/ (pass[p].pc = "parking" /\ pass[p].stage = "failed"))
    BY RowFields DEF Inv, PassSound, Linked, LinkOf, Claiming, At
  <2>2. \A m \in Meetings, r \in Revisions : cand[m][r] # None =>
          /\ cand[m][r] \in Candidates
          /\ cand[m][r].dec = NoCommitment => cand[m][r].box = "none"
          /\ cand[m][r].decided => cand[m][r].box = "staged"
    BY DEF Inv, Review
  <2>3. \A m \in Meetings : held[m] \in Parked \cup {None}
    BY DEF Inv, Review
  <2> QED
    BY <2>1, <2>2, <2>3 DEF Inv, Stored, Sound, TypeOK
<1> QED
  BY <1>1, InvAlways, PTL

\* A person never has two open proposals of one meeting, and the open one is
\* its lineage's head, whatever passes, decisions and freezes interleave.
THEOREM ProcessingOneOpen == Spec => []OneOpenProposal
<1>1. Inv => OneOpenProposal
  BY DEF Inv
<1> QED
  BY <1>1, InvAlways, PTL

\* What a reviewer decided never changes, a superseded proposal never reopens
\* and a frozen one keeps its suggestions.
THEOREM ProcessingFinal == Spec => ProposalsFinal
<1>1. Inv /\ [Next]_vars => [\A m \in Meetings, r \in Revisions : cand[m][r] # None =>
       /\ cand'[m][r] # None /\ cand'[m][r].dec = cand[m][r].dec
       /\ cand[m][r].decided => cand'[m][r] = cand[m][r]
       /\ cand[m][r].box = "superseded" => cand'[m][r].box = "superseded"
       /\ cand[m][r].box = "staged" => cand'[m][r].proj = cand[m][r].proj]_vars
  BY CellsMove DEF CellsStep, CellMoves
<1> QED
  BY <1>1, InvAlways, PTL DEF Spec, ProposalsFinal

\* The passes' use of the attempt ledger is the ledger's own protocol: each of
\* their steps is a step of it or leaves it alone.
THEOREM ProcessingUsesLedger == Spec => Ledger!Spec
<1>1. Init => Ledger!Init
  BY DEF Init
<1> QED
  BY <1>1, LedgerMoves, InvAlways, PTL DEF Spec, Ledger!Spec

\* Every step keeps the project choices with their imports.
LEMMA PendingStep == Inv /\ PendingOnlyQueued /\ [Next]_vars => PendingOnlyQueued'
<1> SUFFICES ASSUME Inv, PendingOnlyQueued, [Next]_vars PROVE PendingOnlyQueued'
  OBVIOUS
<1>0. pending \in [Meetings -> SUBSET Projects] /\ cursor \in Cursors /\ IsInjective(cursor.queue)
  BY DEF Inv, Stored, Sound
<1>1. ASSUME UNCHANGED pending, Queued(cursor) \subseteq Queued(cursor') PROVE PendingOnlyQueued'
  BY <1>1 DEF PendingOnlyQueued
<1>2. ASSUME NEW p \in Passes, Advance(p) PROVE PendingOnlyQueued'
  <2>1. \/ UNCHANGED <<cursor, pending>>
        \/ \E to : cursor' = to /\ pending' = ChoicesLeft(Consumed(cursor, to))
    BY <1>2, Zenon DEF Advance
  <2> QED
    BY <1>1, <2>1 DEF PendingOnlyQueued, ChoicesLeft, Consumed
<1>3. ASSUME NEW n \in Meetings, CancelImport(n) PROVE PendingOnlyQueued'
  <2>1. cursor' = [cursor EXCEPT !.queue = Dequeued(cursor.queue, n)] /\ pending' = [pending EXCEPT ![n] = {}]
    BY <1>3 DEF CancelImport
  <2>2. cursor'.queue = Dequeued(cursor.queue, n)
    BY <1>0, <2>1 DEF Cursors
  <2>3. Queued(cursor') = Queued(cursor) \ {n}
    BY <1>0, <2>2, DequeuedIs, CursorFields DEF Queued
  <2> QED
    BY <1>0, <2>1, <2>3 DEF PendingOnlyQueued
<1>4. ASSUME NEW n \in Meetings, NEW proj, Import(n, proj) PROVE PendingOnlyQueued'
  <2>1. /\ IF n \in Queued(cursor) THEN cursor' = cursor ELSE cursor' = [cursor EXCEPT !.queue = Append(cursor.queue, n)]
        /\ \A m \in Meetings \ {n} : pending'[m] = pending[m]
    BY <1>0, <1>4 DEF Import
  <2>2. CASE cursor' = [cursor EXCEPT !.queue = Append(cursor.queue, n)]
    <3>1. cursor'.queue = Append(cursor.queue, n) /\ cursor.queue \in Seq(Meetings)
      BY <1>0, <2>2 DEF Cursors
    <3>2. Queued(cursor) \cup {n} \subseteq Queued(cursor')
      <4> DEFINE q == Append(cursor.queue, n)
      <4>1. /\ Len(q) = Len(cursor.queue) + 1 /\ q[Len(q)] = n /\ Len(cursor.queue) \in Nat
            /\ \A i \in 1..Len(cursor.queue) : q[i] = cursor.queue[i]
            /\ DOMAIN q = 1..Len(q) /\ DOMAIN cursor.queue = 1..Len(cursor.queue)
        BY <3>1, AppendProperties
      <4> HIDE DEF q
      <4>2. n \in ToSet(q)
        BY <4>1 DEF ToSet
      <4>3. \A x \in ToSet(cursor.queue) : x \in ToSet(q)
        BY <4>1 DEF ToSet
      <4> QED
        BY <3>1, <4>2, <4>3 DEF Queued, q
    <3> QED
      BY <2>1, <3>2 DEF PendingOnlyQueued
  <2> QED
    BY <2>1, <2>2 DEF PendingOnlyQueued
<1>5. ASSUME NEW on \in BOOLEAN, NEW sm \in BOOLEAN, NEW proj, Watch(on, sm, proj) PROVE PendingOnlyQueued'
  <2>1. cursor'.queue = cursor.queue /\ UNCHANGED pending
    BY <1>0, <1>5 DEF Watch, Cursors
  <2> QED
    BY <1>1, <2>1 DEF Queued
<1>6. ASSUME NEW p \in Passes, PassStep(p) \/ Crash(p), ~Advance(p) PROVE UNCHANGED <<cursor, pending>>
  BY <1>6 DEF PassStep, StartPull, StartFreeze, StartRetry, PullFails, CustodyRefuses, PullImport, PullBaseline, PullWatch,
       AlreadyFrozen, Reuse, NothingFrozen, ReadRefused, Reserve, Blocked, Extracted, Aborted, RefusedFirst, GrantRetry,
       ExtractionFails, Park, ParkRefused, CloseAttempt, Reread, Persist, PersistRefused, Stage, StageFails, Stays,
       AdvanceRefused, Reconcile, Crash, intake
<1>7. CASE UNCHANGED <<cursor, pending>>
  BY <1>1, <1>7
<1> QED
  BY <1>2, <1>3, <1>4, <1>5, <1>6, <1>7 DEF Next, vars, Edit, Decide, LeaseExpires, GrantOperator, LeaveProject,
     RevokeMember, intake

\* Pending project choices exist only while their import is queued, so no
\* later import inherits them.
THEOREM ProcessingPending == Spec => []PendingOnlyQueued
<1>1. Init => PendingOnlyQueued
  BY DEF Init, PendingOnlyQueued
<1> QED
  BY <1>1, PendingStep, InvAlways, PTL DEF Spec

-----------------------------------------------------------------------------
(* A frozen extraction's input is never paid for again.                      *)

\* The input's attempt is over: nobody may retry it and nobody holds it.
Spent(k) ==
  /\ attempt[k] # 0 /\ ~permitted[k]
  /\ \A w \in Passes : claim[w] = None \/ claim[w].key # k

Settled ==
  /\ \A m \in Meetings, r \in Revisions : cand[m][r] # None => Spent(KeyOf(m, r))
  /\ \A p \in Passes : pass[p].pc \in {"rereading", "persisting"} => Spent(Key(p))

\* A spent input stays spent, but for an operator's grant of it.
LEMMA SpentStays ==
  ASSUME Inv, [Next]_vars, NEW k \in Meetings \X Inputs, Spent(k),
         \A m \in Meetings, i \in Inputs : GrantOperator(m, i) => <<m, i>> # k
  PROVE  Spent(k)'
<1>0. /\ attempt \in [Meetings \X Inputs -> 0..MaxAttempt] /\ permitted \in [Meetings \X Inputs -> BOOLEAN]
      /\ claim \in [Passes -> Ledger!Claims \cup {None}]
  BY ClaimTyped DEF Inv, Attempts!IndInv, Attempts!TypeOK
<1>1. attempt'[k] # 0
  BY LedgerMoves, AttemptStays DEF Inv, Spent
<1>2. ASSUME UNCHANGED permitted,
             UNCHANGED claim \/ \E w \in Passes : claim' = [claim EXCEPT ![w] = None]
      PROVE  Spent(k)'
  BY <1>0, <1>1, <1>2 DEF Spent
<1>3. ASSUME NEW w \in Passes, claim[w] # None, NEW phase, claim' = [claim EXCEPT ![w].phase = phase], UNCHANGED permitted
      PROVE  Spent(k)'
  <2>1. claim[w] \in Ledger!Claims
    BY <1>0, <1>3
  <2>2. claim'[w] = [claim[w] EXCEPT !.phase = phase] /\ \A v \in Passes \ {w} : claim'[v] = claim[v]
    BY <1>0, <1>3
  <2>3. claim'[w].key = claim[w].key
    BY <2>1, <2>2 DEF Ledger!Claims
  <2> QED
    BY <1>1, <1>3, <2>2, <2>3 DEF Spent
<1>4. CASE UNCHANGED ledger
  BY <1>2, <1>4 DEF ledger
<1>5. ASSUME NEW p \in Passes, PassStep(p) \/ Crash(p) PROVE Spent(k)'
  <2>1. CASE Ledger!Reserve(p, Key(p)) /\ Key(p) \in Meetings \X Inputs
    <3>1. Key(p) # k
      BY <2>1 DEF Ledger!Reserve, Ledger!Reservable, Spent
    <3>2. permitted'[k] = permitted[k]
      BY <1>0, <2>1, <3>1 DEF Ledger!Reserve
    <3>3. claim'[p].key = Key(p) /\ \A v \in Passes \ {p} : claim'[v] = claim[v]
      BY <1>0, <2>1 DEF Ledger!Reserve
    <3> QED
      BY <1>1, <3>1, <3>2, <3>3 DEF Spent
  <2>2. CASE Ledger!Succeed(p) \/ Ledger!Abort(p) \/ Ledger!CloseFailed(p) \/ Ledger!Crash(p)
    BY <1>2, <2>2 DEF Ledger!Succeed, Ledger!Abort, Ledger!CloseFailed, Ledger!Crash, Ledger!Complete, Ledger!Release,
       Ledger!store
  <2>3. CASE Ledger!RefuseFirst(p) \/ Ledger!FailBilled(p) \/ Ledger!FailUnbilled(p)
    BY <1>3, <2>3 DEF Ledger!RefuseFirst, Ledger!FailBilled, Ledger!FailUnbilled, Ledger!Complete, Ledger!Move,
       Ledger!Holds, Ledger!store
  <2>4. CASE Ledger!GrantAutomatic(p)
    <3>1. PICK j \in Meetings \X Inputs :
            /\ claim[p] # None /\ claim[p].key = j
            /\ permitted' = permitted \/ permitted' = [permitted EXCEPT ![j] = TRUE]
      BY <2>4 DEF Ledger!GrantAutomatic, Ledger!Holds
    <3>2. j # k
      BY <3>1 DEF Spent
    <3>3. permitted'[k] = permitted[k] /\ claim' = [claim EXCEPT ![p] = None]
      BY <1>0, <2>4, <3>1, <3>2 DEF Ledger!GrantAutomatic, Ledger!Release
    <3> QED
      BY <1>0, <1>1, <3>3 DEF Spent
  <2> QED
    BY <1>4, <1>5, <2>1, <2>2, <2>3, <2>4, LedgerPass
<1>6. ASSUME NEW m \in Meetings, NEW i \in Inputs, LeaseExpires(m, i) PROVE Spent(k)'
  BY <1>2, <1>6 DEF LeaseExpires, Ledger!LeaseExpires
<1>7. ASSUME NEW m \in Meetings, NEW i \in Inputs, GrantOperator(m, i) PROVE Spent(k)'
  <2>1. <<m, i>> # k /\ permitted' = [permitted EXCEPT ![<<m, i>>] = TRUE] /\ UNCHANGED claim
    BY <1>7 DEF GrantOperator, Ledger!GrantOperator
  <2>2. permitted'[k] = permitted[k]
    BY <1>0, <2>1
  <2> QED
    BY <1>1, <2>1, <2>2 DEF Spent
<1> QED
  BY <1>4, <1>5, <1>6, <1>7, LedgerOutside

\* An extraction, and a reuse, leave the input's attempt over.
LEMMA ExtractedSpent ==
  ASSUME Inv, NEW p \in Passes, Extracted(p)
  PROVE  Spent(Key(p))'
<1> DEFINE k == Key(p)
<1>1. k \in Meetings \X Inputs /\ claim[p] # None /\ claim[p].key = k
  BY OnOne DEF Extracted, At, OnRevision, Inv, Linked, LinkOf, Claiming
<1>2. attempt[k] # 0 /\ ~permitted[k] /\ \A w \in Passes : w = p \/ claim[w] = None \/ claim[w].key # k
  <2>1. attempt[k] = claim[p].attempt /\ ~permitted[k] /\ claim[p] \in Ledger!Claims
    BY <1>1, ClaimTyped DEF Inv, Attempts!IndInv, Attempts!ClaimInv, Attempts!ClaimOK
  <2>2. claim[p].attempt # 0
    BY <2>1 DEF Ledger!Claims
  <2> QED
    BY <1>1, <2>1, <2>2 DEF Inv, Attempts!IndInv, Attempts!ClaimUnique
<1>3. UNCHANGED <<attempt, permitted>> /\ claim' = [claim EXCEPT ![p] = None]
  BY DEF Extracted, Ledger!Succeed, Ledger!Complete, Ledger!Release
<1>4. k' = k
  <2>1. pass'[p].m = pass[p].m /\ pass'[p].r = pass[p].r
    BY DEF Extracted, Inv, PassSound, Rows
  <2> QED
    BY <2>1 DEF Key
<1>5. claim'[p] = None /\ \A w \in Passes \ {p} : claim'[w] = claim[w]
  BY <1>3, ClaimTyped
<1> HIDE DEF k
<1>6. attempt'[k] # 0 /\ ~permitted'[k] /\ \A w \in Passes : claim'[w] = None \/ claim'[w].key # k
  BY <1>2, <1>3, <1>5
<1> QED
  BY <1>4, <1>6 DEF Spent, k

\* A pass comes to keep a result it extracted, found frozen or read again.
LEMMA ComesToKeep ==
  ASSUME Inv, NEW p \in Passes, PassStep(p) \/ Crash(p), pass'[p].pc \in {"rereading", "persisting"}
  PROVE  Extracted(p) \/ Reuse(p) \/ Reread(p)
<1>1. pass \in [Passes -> Rows] /\ pass[p] \in Rows
  BY DEF Inv, PassSound
<1>2. ~End(p)
  <2>1. End(p) => pass'[p].pc = "idle"
    BY Leads
  <2> QED
    BY <2>1
<1>3. ASSUME NEW pc, Goto(p, pc) PROVE pc \in {"rereading", "persisting"}
  <2>1. pass'[p].pc = pc
    BY <1>3, Leads
  <2> QED
    BY <2>1
<1>4. ~StartPull(p) /\ ~StartFreeze(p) /\ ~StartRetry(p)
  <2>1. /\ StartPull(p) => pass'[p].pc = "pulling"
        /\ StartFreeze(p) => pass'[p].pc = "reconciling"
        /\ StartRetry(p) => pass'[p].pc = "admitted"
    BY Leads
  <2> QED
    BY <2>1
<1>5. ~PullFails(p) /\ ~CustodyRefuses(p) /\ ~NothingFrozen(p) /\ ~ReadRefused(p) /\ ~Reserve(p) /\ ~Aborted(p)
      /\ ~RefusedFirst(p) /\ ~GrantRetry(p) /\ ~Park(p) /\ ~CloseAttempt(p) /\ ~PersistRefused(p) /\ ~Stage(p)
  BY <1>2, <1>3 DEF PullFails, CustodyRefuses, NothingFrozen, ReadRefused, Reserve, Aborted, RefusedFirst, GrantRetry, Park,
     CloseAttempt, PersistRefused, Stage
<1>6. ~Advance(p) /\ ~Stays(p) /\ ~AdvanceRefused(p) /\ ~Reconcile(p) /\ ~Crash(p) /\ ~AlreadyFrozen(p) /\ ~Persist(p)
  <2>1. ~Advance(p) /\ ~Stays(p)
    BY <1>2, <1>3 DEF Advance, Stays, AfterAdvance
  <2>2. ~AdvanceRefused(p) /\ ~Reconcile(p) /\ ~Crash(p)
    BY <1>2 DEF AdvanceRefused, Reconcile, Crash
  <2>3. ~AlreadyFrozen(p)
    BY <1>3 DEF AlreadyFrozen
  <2>4. ~Persist(p)
    <3>1. Persist(p) => \E pc \in {"advancing", "staging"} : Goto(p, pc)
      BY DEF Persist
    <3>2. ~Goto(p, "advancing") /\ ~Goto(p, "staging")
      BY <1>3
    <3> QED
      BY <3>1, <3>2
  <2> QED
    BY <2>1, <2>2, <2>3, <2>4
<1>7. ~PullImport(p) /\ ~PullBaseline(p) /\ ~PullWatch(p)
  <2>1. ASSUME NEW next, pass' = [pass EXCEPT ![p].pc = "advancing", ![p].next = next] PROVE FALSE
    BY <1>1, <2>1 DEF Rows
  <2>2. ASSUME NEW m, NEW next, Admit(p, m, next) PROVE FALSE
    BY <1>1, <2>2 DEF Admit, Rows
  <2> QED
    BY <2>1, <2>2 DEF PullImport, PullBaseline, PullWatch
<1>8. ~Blocked(p) /\ ~ExtractionFails(p) /\ ~ParkRefused(p) /\ ~StageFails(p)
  <2>1. ASSUME NEW stage, pass' = [pass EXCEPT ![p].pc = "parking", ![p].stage = stage] PROVE FALSE
    BY <1>1, <2>1 DEF Rows
  <2>2. ~Blocked(p) /\ ~ExtractionFails(p)
    BY <1>3, <2>1 DEF Blocked, ExtractionFails
  <2>3. ~ParkRefused(p)
    <3>1. pass' # [pass EXCEPT ![p].pc = "closing", ![p].failed = TRUE]
      BY <1>1 DEF Rows
    <3> QED
      BY <1>2, <3>1 DEF ParkRefused
  <2>4. ~StageFails(p)
    BY <1>1 DEF StageFails, Rows
  <2> QED
    BY <2>2, <2>3, <2>4
<1> QED
  BY <1>4, <1>5, <1>6, <1>7, <1>8 DEF PassStep

\* Only a persist freezes a revision that was not.
LEMMA NewCell ==
  ASSUME Inv, [Next]_vars, NEW m \in Meetings, NEW r \in Revisions, cand[m][r] = None, cand'[m][r] # None
  PROVE  \E p \in Passes : Persist(p) /\ pass[p].m = m /\ pass[p].r = r
<1>0. cand \in [Meetings -> [Revisions -> Candidates \cup {None}]]
  BY DEF Inv, Review
<1>1. ASSUME NEW p \in Passes, Stage(p) PROVE FALSE
  <2>1. /\ pass[p].m \in Meetings /\ pass[p].r \in Revisions /\ cand[pass[p].m][pass[p].r] # None
    BY <1>1, OnOne DEF Stage, At, OnRevision, Inv, Review
  <2>2. cand' = cand \/ \E d : cand' = [cand EXCEPT ![pass[p].m][pass[p].r] = d]
    BY <1>1, Zenon DEF Stage
  <2>3. PICK d : cand' = [cand EXCEPT ![pass[p].m][pass[p].r] = d]
    BY <2>2
  <2>4. \A n \in Meetings, t \in Revisions :
          cand'[n][t] = IF n = pass[p].m /\ t = pass[p].r THEN d ELSE cand[n][t]
    BY <1>0, <2>1, <2>3
  <2> QED
    BY <2>1, <2>4
<1>2. ASSUME NEW p \in Passes, Reconcile(p) PROVE FALSE
  <2>1. PICK done \in SUBSET Unfrozen :
          cand' = [n \in Meetings |-> [s \in Revisions |->
                     IF <<n, s>> \in done THEN Frozen(n, cand[n][s]) ELSE cand[n][s]]]
    BY <1>2 DEF Reconcile
  <2>2. <<m, r>> \in Unfrozen
    BY <2>1
  <2> QED
    BY <2>2, NoneAssumption DEF Unfrozen, Inv, Review
<1>3. ASSUME NEW n \in Meetings, NEW s \in Revisions, Decide(n, s) PROVE FALSE
  BY <1>0, <1>3 DEF Decide
<1>4. ASSUME NEW p \in Passes, Persist(p) PROVE pass[p].m = m /\ pass[p].r = r
  <2> DEFINE n == pass[p].m
             s == pass[p].r
  <2>1. n \in Meetings /\ s \in Revisions
    BY <1>4, OnOne DEF Persist, At, OnRevision, Inv
  <2>2. PICK new, others : /\ cand' = cand \/ cand' = [cand EXCEPT ![n] = [others EXCEPT ![s] = new]]
                           /\ others = Superseded(n) \/ others = cand[n]
    BY <1>4, Zenon DEF Persist, review
  <2>3. \A t \in Revisions : cand[n][t] = None => Superseded(n)[t] = None
    BY DEF Superseded
  <2>4. DOMAIN others = Revisions /\ \A t \in Revisions : cand[n][t] = None => others[t] = None
    <3>1. DOMAIN Superseded(n) = Revisions
      BY DEF Superseded
    <3>2. DOMAIN cand[n] = Revisions
      BY <1>0, <2>1
    <3> QED
      BY <2>2, <2>3, <3>1, <3>2
  <2>5. m = n
    BY <1>0, <2>1, <2>2
  <2>6. cand'[n] = [others EXCEPT ![s] = new]
    BY <1>0, <2>1, <2>2, <2>5
  <2> QED
    BY <2>4, <2>5, <2>6
<1> QED
  BY <1>1, <1>2, <1>3, <1>4, ReviewFrame

\* In every step, what is frozen or about to be is of a spent input.
LEMMA SettledStep == Inv /\ Settled /\ [Next]_vars => Settled'
<1> SUFFICES ASSUME Inv, Settled, [Next]_vars PROVE Settled'
  OBVIOUS
<1>1. ASSUME NEW m \in Meetings, NEW r \in Revisions, cand'[m][r] # None PROVE Spent(KeyOf(m, r))'
  <2>1. KeyOf(m, r) \in Meetings \X Inputs
    BY DEF KeyOf, Inputs
  <2>2. CASE cand[m][r] # None
    <3>1. Spent(KeyOf(m, r))
      BY <2>2 DEF Settled
    <3>2. ASSUME NEW n \in Meetings, NEW i \in Inputs, GrantOperator(n, i) PROVE <<n, i>> # KeyOf(m, r)
      BY <2>2, <3>2 DEF GrantOperator, KeyOf
    <3> QED
      BY <2>1, <3>1, <3>2, SpentStays DEF KeyOf
  <2>3. CASE cand[m][r] = None
    <3>1. PICK p \in Passes : Persist(p) /\ pass[p].m = m /\ pass[p].r = r
      BY <1>1, <2>3, NewCell
    <3>2. Spent(KeyOf(m, r)) /\ ~At(p, "idle")
      BY <3>1 DEF Persist, At, Settled, Key
    <3>3. ASSUME NEW n \in Meetings, NEW i \in Inputs PROVE ~GrantOperator(n, i)
      BY <3>2 DEF GrantOperator
    <3> QED
      BY <2>1, <3>2, <3>3, SpentStays DEF KeyOf
  <2> QED
    BY <2>2, <2>3
<1>2. ASSUME NEW p \in Passes, pass'[p].pc \in {"rereading", "persisting"} PROVE Spent(Key(p))'
  <2>1. ASSUME pass[p].pc \in {"rereading", "persisting"}, pass'[p].m = pass[p].m, pass'[p].r = pass[p].r
        PROVE  Spent(Key(p))'
    <3>1. Spent(Key(p)) /\ Key(p) \in Meetings \X Inputs /\ ~At(p, "idle")
      BY <2>1, OnOne DEF Settled, OnRevision, Inv, At
    <3>2. ASSUME NEW n \in Meetings, NEW i \in Inputs PROVE ~GrantOperator(n, i)
      BY <3>1 DEF GrantOperator
    <3>3. Key(p)' = Key(p)
      BY <2>1 DEF Key
    <3> DEFINE k == Key(p)
    <3>4. k \in Meetings \X Inputs /\ Spent(k)
      BY <3>1
    <3> HIDE DEF k
    <3>5. \A j \in Meetings \X Inputs : Spent(j) => attempt'[j] # 0 /\ ~permitted'[j]
                                       /\ \A w \in Passes : claim'[w] = None \/ claim'[w].key # j
      BY <3>2, SpentStays DEF Spent
    <3>6. attempt'[k] # 0 /\ ~permitted'[k] /\ \A w \in Passes : claim'[w] = None \/ claim'[w].key # k
      BY <3>4, <3>5
    <3> QED
      BY <3>3, <3>6 DEF Spent, k
  <2>2. ASSUME NEW q \in Passes, PassStep(q) \/ Crash(q) PROVE Spent(Key(p))'
    <3>1. CASE q # p
      <4>1. pass'[p] = pass[p]
        BY <2>2, <3>1, PassesAlone DEF Alone
      <4> QED
        BY <1>2, <2>1, <4>1
    <3>2. CASE q = p /\ Extracted(p)
      BY <3>2, ExtractedSpent
    <3>3. CASE q = p /\ Reread(p)
      <4>1. pass'[p].m = pass[p].m /\ pass'[p].r = pass[p].r /\ pass[p].pc = "rereading"
        BY <3>3 DEF Reread, At, Inv, PassSound, Rows
      <4> QED
        BY <2>1, <4>1
    <3>4. CASE q = p /\ Reuse(p)
      <4>1. PICK r \in Revisions : Input[r] = Input[pass[p].r] /\ cand[pass[p].m][r] # None
        BY <3>4 DEF Reuse
      <4>2. pass[p].m \in Meetings /\ pass[p].r \in Revisions
        BY <3>4, OnOne DEF Reuse, At, OnRevision, Inv
      <4>3. Spent(Key(p))
        BY <4>1, <4>2 DEF Settled, Key, KeyOf
      <4>4. UNCHANGED <<attempt, permitted, claim>>
        BY <3>4 DEF Reuse, ledger
      <4>5. pass'[p].m = pass[p].m /\ pass'[p].r = pass[p].r
        BY <3>4 DEF Reuse, Inv, PassSound, Rows
      <4>6. Key(p)' = Key(p)
        BY <4>5 DEF Key
      <4> QED
        BY <4>3, <4>4, <4>6 DEF Spent
    <3> QED
      BY <1>2, <2>2, <3>1, <3>2, <3>3, <3>4, ComesToKeep
  <2>3. ASSUME NEW m \in Meetings, CancelImport(m) PROVE Spent(Key(p))'
    <3>1. pass'[p].pc = pass[p].pc /\ pass'[p].m = pass[p].m /\ pass'[p].r = pass[p].r
      BY <2>3, CancelLeaves DEF Inv
    <3> QED
      BY <1>2, <2>1, <3>1
  <2>4. CASE UNCHANGED pass
    BY <1>2, <2>1, <2>4
  <2> QED
    BY <2>2, <2>3, <2>4 DEF Next, vars, Edit, Import, Decide, LeaseExpires, GrantOperator, Watch, LeaveProject, RevokeMember
<1> QED
  BY <1>1, <1>2 DEF Settled

\* No paid call is ever made for an input that already has a frozen
\* extraction, whatever passes, crashes and grants came before.
THEOREM ProcessingPaysOnce == Spec => []NeverPayTwice
<1>1. Init => Settled
  BY DEF Init, Settled, Idle
<1>2. Inv /\ Settled => NeverPayTwice
  <2> SUFFICES ASSUME Inv, Settled, NEW p \in Passes, NEW r \in Revisions,
                      At(p, "calling"), Input[r] = Input[pass[p].r], cand[pass[p].m][r] # None
               PROVE  FALSE
    BY DEF NeverPayTwice
  <2>1. claim[p] # None /\ claim[p].key = Key(p)
    BY DEF Inv, Linked, LinkOf, Claiming, At
  <2>2. pass[p].m \in Meetings
    BY OnOne DEF At, OnRevision, Inv
  <2> QED
    BY <2>1, <2>2 DEF Settled, Spent, Key, KeyOf
<1> QED
  BY <1>1, <1>2, SettledStep, InvAlways, PTL DEF Spec

-----------------------------------------------------------------------------
(* No import is lost, when one process runs the passes and serves requests.  *)

\* A step of a pass that keeps what it works on.
SameWork(p) ==
  /\ pass[p].pc \notin {"idle", "reconciling"}
  /\ pass'[p].src = pass[p].src /\ pass'[p].m = pass[p].m /\ pass'[p].r = pass[p].r
  /\ pass'[p].adm = pass[p].adm /\ pass'[p].next = pass[p].next
  /\ pass'[p].cancelled = pass[p].cancelled

\* Where a step of a pass leaves what it works on.
LEMMA WorkGoes ==
  ASSUME Inv, NEW p \in Passes, PassStep(p) \/ Crash(p)
  PROVE  \/ End(p)
         \/ StartPull(p) \/ StartFreeze(p) \/ StartRetry(p)
         \/ PullImport(p) \/ PullBaseline(p) \/ PullWatch(p)
         \/ Reread(p)
         \/ SameWork(p)
<1>1. pass \in [Passes -> Rows] /\ pass[p] \in Rows
  BY DEF Inv, PassSound
<1>2. ASSUME NEW pc, Goto(p, pc), pass[p].pc \notin {"idle", "reconciling"} PROVE SameWork(p)
  BY <1>1, <1>2 DEF Goto, SameWork, Rows
<1>3. ASSUME pass[p].pc \notin {"idle", "reconciling"},
             \/ \E stage : pass' = [pass EXCEPT ![p].pc = "parking", ![p].stage = stage]
             \/ pass' = [pass EXCEPT ![p].pc = "closing", ![p].failed = TRUE]
             \/ pass' = [pass EXCEPT ![p].pc = "advancing", ![p].failed = TRUE]
             \/ \E d, pc : pass' = [pass EXCEPT ![p].dec = d, ![p].pc = pc]
      PROVE  SameWork(p)
  <2>1. ASSUME NEW stage, pass' = [pass EXCEPT ![p].pc = "parking", ![p].stage = stage] PROVE SameWork(p)
    BY <1>1, <1>3, <2>1 DEF SameWork, Rows
  <2>2. ASSUME NEW d, NEW pc, pass' = [pass EXCEPT ![p].dec = d, ![p].pc = pc] PROVE SameWork(p)
    BY <1>1, <1>3, <2>2 DEF SameWork, Rows
  <2>3. CASE \/ pass' = [pass EXCEPT ![p].pc = "closing", ![p].failed = TRUE]
             \/ pass' = [pass EXCEPT ![p].pc = "advancing", ![p].failed = TRUE]
    BY <1>1, <1>3, <2>3 DEF SameWork, Rows
  <2> QED
    BY <1>3, <2>1, <2>2, <2>3
<1>4. CASE \/ PullFails(p) \/ AlreadyFrozen(p) \/ NothingFrozen(p) \/ Reserve(p) \/ RefusedFirst(p) \/ GrantRetry(p)
           \/ Park(p) \/ CloseAttempt(p) \/ Persist(p) \/ Stage(p) \/ Advance(p) \/ Stays(p)
  <2>1. pass[p].pc \notin {"idle", "reconciling"}
    BY <1>4 DEF PullFails, AlreadyFrozen, NothingFrozen, Reserve, RefusedFirst, GrantRetry, Park, CloseAttempt, Persist, Stage,
                Advance, Stays, At
  <2>2. End(p) \/ \E pc : Goto(p, pc)
    BY <1>4, Zenon DEF PullFails, AlreadyFrozen, NothingFrozen, Reserve, RefusedFirst, GrantRetry, Park, CloseAttempt, Persist,
       Stage, Advance, Stays, AfterAdvance
  <2> QED
    BY <1>2, <2>1, <2>2
<1>5. CASE CustodyRefuses(p) \/ ReadRefused(p) \/ Aborted(p) \/ PersistRefused(p) \/ AdvanceRefused(p) \/ Reconcile(p) \/ Crash(p)
  BY <1>5 DEF CustodyRefuses, ReadRefused, Aborted, PersistRefused, AdvanceRefused, Reconcile, Crash
<1>6. CASE Reuse(p) \/ Extracted(p)
  <2>1. pass[p].pc \notin {"idle", "reconciling"} /\ \E d, pc : pass' = [pass EXCEPT ![p].dec = d, ![p].pc = pc]
    BY <1>6 DEF Reuse, Extracted, At
  <2> QED
    BY <1>3, <2>1
<1>7. CASE ExtractionFails(p) \/ StageFails(p) \/ ParkRefused(p)
  BY <1>3, <1>7 DEF ExtractionFails, StageFails, ParkRefused, At
<1>8. CASE Blocked(p)
  BY <1>2, <1>3, <1>8 DEF Blocked, At
<1> QED
  BY <1>4, <1>5, <1>6, <1>7, <1>8 DEF PassStep

\* The revision is one the meeting had since its import was queued.
Known(m, r) == \E n \in asked[m]..edits[m] : r = Content[n]
HasFrozen(m) == \E n \in asked[m]..edits[m] : cand[m][Content[n]] # None

\* Nothing was asked of a revision that is yet to come.
AskedBefore == \A m \in Meetings : asked[m] <= edits[m]

\* An import cancelled under its pull is forgotten until that pull ends.
CancelledForgotten ==
  \A p \in Passes, m \in Meetings : pass[p].cancelled /\ Importing(p, m) => asked[m] = 0

\* The import a pull serves stays queued, and what it pulled is recent enough.
Pulling(p, m) == pass[p].pc # "reconciling" /\ Importing(p, m) /\ ~pass[p].cancelled

PullServes ==
  \A p \in Passes, m \in Meetings : Pulling(p, m) =>
    /\ m \in Queued(cursor)
    /\ pass[p].m = m /\ asked[m] # 0 => Known(m, pass[p].r)

\* A pass's own result will not uncover an import.
WorkCovers ==
  \A p \in Passes : LET m == pass[p].m IN
    m # None /\ asked[m] # 0 => m \in Queued(cursor) \/ HasFrozen(m) \/ Known(m, pass[p].r)

\* Before a pull advances past a revision, it is frozen or parked, or the
\* checkpoint will refuse.
HasResult(m, r) == cand[m][r] # None \/ (held[m] # None /\ held[m].r = r)

AdvancesSettled ==
  \A p \in Passes :
    /\ pass[p].m # None /\ pass[p].src = "pull"
    /\ pass[p].pc = "advancing" \/ (pass[p].pc = "closing" /\ ~pass[p].failed)
    => HasResult(pass[p].m, pass[p].r) \/ ~PullStillApplies(pass[p].adm, pass[p].next)

Safe ==
  /\ AskedBefore /\ CancelledForgotten /\ PullServes /\ WorkCovers /\ AdvancesSettled /\ NoLostImport

\* A single process serves only where its pass awaits.
LEMMA ServesAlone ==
  ASSUME Passes = {Server}, NEW p \in Passes, Serving
  PROVE  pass[p].pc \in {"idle", "pulling", "calling"}
BY DEF Serving

\* What any step does to the stamps and the queue, as far as imports go.
LEMMA Stamped ==
  ASSUME Inv, NEW m \in Meetings
  PROVE  edits[m] \in Nat /\ asked[m] \in Nat
BY ConstantsAssumption DEF Inv, Stored, Stamps

\* A pass changes no stamp, and the checkpoint only by its advance.
LEMMA PassKeeps ==
  ASSUME Inv, NEW p \in Passes, PassStep(p) \/ Crash(p)
  PROVE  /\ UNCHANGED <<asked, edits>>
         /\ UNCHANGED cursor \/ Advance(p)
BY DEF PassStep, StartPull, StartFreeze, StartRetry, PullFails, CustodyRefuses, PullImport, PullBaseline, PullWatch,
       AlreadyFrozen, Reuse, NothingFrozen, ReadRefused, Reserve, Blocked, Extracted, Aborted, RefusedFirst, GrantRetry,
       ExtractionFails, Park, ParkRefused, CloseAttempt, Reread, Persist, PersistRefused, Stage, StageFails, Stays,
       AdvanceRefused, Advance, Reconcile, Crash, provider, intake

\* The steps that are no pass's, as far as imports go.
LEMMA OutsideKeeps ==
  ASSUME Inv, [Next]_vars, ~\E p \in Passes : PassStep(p) \/ Crash(p)
  PROVE  \/ \E m \in Meetings : Edit(m)
         \/ \E m \in Meetings : CancelImport(m)
         \/ \E m \in Meetings, proj \in Projects \cup {None} : Import(m, proj)
         \/ Serving /\ UNCHANGED <<edits, asked, pass, held>> /\ cursor'.queue = cursor.queue
         \/ UNCHANGED <<edits, asked, pass, cursor, cand, held>>
<1>1. ASSUME NEW on \in BOOLEAN, NEW sm \in BOOLEAN, NEW proj, Watch(on, sm, proj)
      PROVE  Serving /\ UNCHANGED <<edits, asked, pass, held>> /\ cursor'.queue = cursor.queue
  BY <1>1 DEF Watch, Inv, Stored, Sound, Cursors, provider, review
<1>2. ASSUME NEW m \in Meetings, NEW r \in Revisions, Decide(m, r)
      PROVE  Serving /\ UNCHANGED <<edits, asked, pass, held>> /\ cursor'.queue = cursor.queue
  BY <1>2 DEF Decide, provider, intake
<1> QED
  BY <1>1, <1>2 DEF Next, vars, LeaseExpires, GrantOperator, LeaveProject, RevokeMember, provider, intake, review

\* A served import: queued already, or queued now at the meeting's stamp.
LEMMA ImportKeeps ==
  ASSUME Inv, NEW m \in Meetings, NEW proj, Import(m, proj)
  PROVE  /\ Serving /\ UNCHANGED <<edits, pass, cand, held>>
         /\ m \in Queued(cursor') /\ Queued(cursor) \subseteq Queued(cursor')
         /\ \A n \in Meetings \ {m} : asked'[n] = asked[n]
         /\ IF m \in Queued(cursor) THEN asked' = asked
            ELSE asked'[m] = IF Cancelled(m) THEN 0 ELSE edits[m]
<1>1. Serving /\ UNCHANGED <<edits, pass, cand, held>>
  BY DEF Import, provider, review
<1>2. /\ IF m \in Queued(cursor) THEN cursor' = cursor ELSE cursor' = [cursor EXCEPT !.queue = Append(cursor.queue, m)]
      /\ IF m \in Queued(cursor) THEN asked' = asked
         ELSE asked' = [asked EXCEPT ![m] = IF Cancelled(m) THEN 0 ELSE edits[m]]
  BY DEF Import
<1>3. asked \in [Meetings -> Stamps] /\ cursor \in Cursors
  BY DEF Inv, Stored, Sound
<1>4. m \in Queued(cursor') /\ Queued(cursor) \subseteq Queued(cursor')
  <2>1. CASE m \notin Queued(cursor)
    <3> DEFINE q == Append(cursor.queue, m)
    <3>1. cursor'.queue = q /\ cursor.queue \in Seq(Meetings)
      BY <1>2, <1>3, <2>1 DEF Cursors
    <3>2. /\ Len(q) = Len(cursor.queue) + 1 /\ q[Len(q)] = m /\ Len(cursor.queue) \in Nat
          /\ \A i \in 1..Len(cursor.queue) : q[i] = cursor.queue[i]
          /\ DOMAIN q = 1..Len(q) /\ DOMAIN cursor.queue = 1..Len(cursor.queue)
      BY <3>1, AppendProperties
    <3> HIDE DEF q
    <3>3. m \in ToSet(q) /\ \A x \in ToSet(cursor.queue) : x \in ToSet(q)
      BY <3>2 DEF ToSet
    <3> QED
      BY <3>1, <3>3 DEF Queued
  <2> QED
    BY <1>2, <2>1
<1> QED
  BY <1>1, <1>2, <1>3, <1>4

\* A cancelled import: gone from the queue, forgotten, its pulls marked.
LEMMA CancelKeeps ==
  ASSUME Inv, NEW m \in Meetings, CancelImport(m)
  PROVE  /\ Serving /\ UNCHANGED <<edits, cand>>
         /\ Queued(cursor') = Queued(cursor) \ {m}
         /\ asked'[m] = 0 /\ \A n \in Meetings \ {m} : asked'[n] = asked[n] /\ held'[n] = held[n]
         /\ \A p \in Passes : pass'[p] = IF Importing(p, m) THEN [pass[p] EXCEPT !.cancelled = TRUE] ELSE pass[p]
<1>1. cursor' = [cursor EXCEPT !.queue = Dequeued(cursor.queue, m)] /\ cursor \in Cursors /\ IsInjective(cursor.queue)
  BY DEF CancelImport, Inv, Stored, Sound
<1>2. cursor'.queue = Dequeued(cursor.queue, m)
  BY <1>1 DEF Cursors
<1>3. Queued(cursor') = Queued(cursor) \ {m}
  BY <1>1, <1>2, DequeuedIs, CursorFields DEF Queued
<1>4. asked' = [asked EXCEPT ![m] = 0] /\ held' = [held EXCEPT ![m] = None]
  BY DEF CancelImport, Unparked
<1>5. asked \in [Meetings -> Stamps] /\ held \in [Meetings -> Parked \cup {None}]
  BY DEF Inv, Stored, Review
<1> QED
  BY <1>3, <1>4, <1>5 DEF CancelImport, provider

\* No step asks for a revision that is yet to come.
LEMMA AskedStep == Inv /\ AskedBefore /\ [Next]_vars => AskedBefore'
<1> SUFFICES ASSUME Inv, AskedBefore, [Next]_vars, NEW m \in Meetings PROVE asked'[m] <= edits'[m]
  BY DEF AskedBefore
<1>0. asked[m] <= edits[m] /\ edits[m] \in Nat /\ asked[m] \in Nat
  BY Stamped DEF AskedBefore
<1>1. CASE UNCHANGED <<asked, edits>>
  BY <1>0, <1>1
<1>2. ASSUME NEW n \in Meetings, Edit(n) PROVE asked'[m] <= edits'[m]
  <2>1. asked' = asked /\ edits' = [edits EXCEPT ![n] = @ + 1]
    BY <1>2 DEF Edit
  <2> QED
    BY <1>0, <2>1 DEF Inv, Stored
<1>3. ASSUME NEW n \in Meetings, CancelImport(n) PROVE asked'[m] <= edits'[m]
  BY <1>0, <1>3, CancelKeeps
<1>4. ASSUME NEW n \in Meetings, NEW proj, Import(n, proj) PROVE asked'[m] <= edits'[m]
  BY <1>0, <1>4, ImportKeeps
<1> QED
  BY <1>1, <1>2, <1>3, <1>4, PassKeeps, OutsideKeeps

\* What is importing after a pass's step was, or starts to.
LEMMA ImportingGoes ==
  ASSUME Inv, NEW p \in Passes, PassStep(p) \/ Crash(p), NEW m, Importing(p, m)'
  PROVE  \/ StartPull(p) /\ ~pass'[p].cancelled /\ pass'[p].m = None
            /\ pass'[p].adm = cursor /\ cursor.queue # <<>> /\ m = Head(cursor.queue)
         \/ /\ Importing(p, m) /\ pass'[p].cancelled = pass[p].cancelled
            /\ PullImport(p) \/ PullBaseline(p) \/ PullWatch(p) \/ (SameWork(p) /\ pass[p].pc # "reconciling")
<1>1. pass \in [Passes -> Rows] /\ pass[p] \in Rows
  BY DEF Inv, PassSound
<1>2. pass'[p].pc # "idle" /\ pass'[p].src = "pull" /\ pass'[p].adm # None
      /\ pass'[p].adm.queue # <<>> /\ m = Head(pass'[p].adm.queue)
  BY DEF Importing
<1>3. CASE End(p)
  <2>1. pass'[p].pc = "idle"
    BY <1>3, Leads
  <2> QED
    BY <1>2, <2>1
<1>4. CASE StartPull(p)
  <2>1. ~pass'[p].cancelled /\ pass'[p].adm = cursor /\ pass'[p].m = None
    BY <1>1, <1>4 DEF StartPull, Idle
  <2> QED
    BY <1>2, <1>4, <2>1
<1>5. CASE StartFreeze(p)
  BY <1>1, <1>2, <1>5 DEF StartFreeze, Idle
<1>6. CASE StartRetry(p)
  BY <1>1, <1>2, <1>6 DEF StartRetry, Idle
<1>7. CASE PullImport(p) \/ PullBaseline(p) \/ PullWatch(p)
  <2>1. pass[p].pc = "pulling"
    BY <1>7 DEF PullImport, PullBaseline, PullWatch, At
  <2>2. \/ \E next : pass' = [pass EXCEPT ![p].pc = "advancing", ![p].next = next]
        \/ \E n, next : Admit(p, n, next)
    BY <1>7, Zenon DEF PullImport, PullBaseline, PullWatch
  <2>3. ASSUME NEW next, pass' = [pass EXCEPT ![p].pc = "advancing", ![p].next = next]
        PROVE  pass'[p].adm = pass[p].adm /\ pass'[p].src = pass[p].src /\ pass'[p].cancelled = pass[p].cancelled
    BY <1>1, <2>3 DEF Rows
  <2>4. ASSUME NEW n, NEW next, Admit(p, n, next)
        PROVE  pass'[p].adm = pass[p].adm /\ pass'[p].src = pass[p].src /\ pass'[p].cancelled = pass[p].cancelled
    BY <1>1, <2>4 DEF Admit, Rows
  <2>5. pass'[p].adm = pass[p].adm /\ pass'[p].src = pass[p].src /\ pass'[p].cancelled = pass[p].cancelled
    BY <2>2, <2>3, <2>4
  <2> QED
    BY <1>2, <1>7, <2>1, <2>5 DEF Importing
<1>8. CASE Reread(p)
  <2>1. pass[p].pc = "rereading" /\ pass[p].src = "retry" /\ pass'[p].src = pass[p].src
    BY <1>1, <1>8 DEF Reread, At, Inv, PassSound, RowSound, Rows
  <2> QED
    BY <1>2, <2>1
<1>9. CASE SameWork(p)
  BY <1>2, <1>9 DEF SameWork, Importing
<1> QED
  BY <1>3, <1>4, <1>5, <1>6, <1>7, <1>8, <1>9, WorkGoes

\* A cancelled import changes no row but marks it.
LEMMA MarksOnly ==
  ASSUME Inv, NEW m \in Meetings, CancelImport(m), NEW p \in Passes
  PROVE  /\ pass'[p].pc = pass[p].pc /\ pass'[p].src = pass[p].src /\ pass'[p].adm = pass[p].adm
         /\ pass'[p].m = pass[p].m /\ pass'[p].r = pass[p].r /\ pass'[p].next = pass[p].next
         /\ pass'[p].failed = pass[p].failed
         /\ \A n : Importing(p, n)' <=> Importing(p, n)
         /\ IF Importing(p, m) THEN pass'[p].cancelled ELSE pass'[p].cancelled = pass[p].cancelled
<1>1. pass[p] \in Rows
  BY DEF Inv, PassSound
<1>2. /\ pass'[p].pc = pass[p].pc /\ pass'[p].src = pass[p].src /\ pass'[p].adm = pass[p].adm
      /\ pass'[p].m = pass[p].m /\ pass'[p].r = pass[p].r /\ pass'[p].next = pass[p].next
      /\ pass'[p].failed = pass[p].failed
      /\ IF Importing(p, m) THEN pass'[p].cancelled ELSE pass'[p].cancelled = pass[p].cancelled
  <2>1. CASE Importing(p, m)
    <3>1. pass'[p] = [pass[p] EXCEPT !.cancelled = TRUE]
      BY <2>1, CancelKeeps
    <3> QED
      BY <1>1, <2>1, <3>1 DEF Rows
  <2>2. CASE ~Importing(p, m)
    BY <2>2, CancelKeeps
  <2> QED
    BY <2>1, <2>2
<1> QED
  BY <1>2 DEF Importing

\* Every step leaves an import cancelled under its pull forgotten.
LEMMA ForgottenStep == Inv /\ CancelledForgotten /\ [Next]_vars => CancelledForgotten'
<1> SUFFICES ASSUME Inv, CancelledForgotten, [Next]_vars, NEW p \in Passes, NEW m \in Meetings,
                    pass'[p].cancelled, Importing(p, m)'
             PROVE  asked'[m] = 0
  BY DEF CancelledForgotten
<1>1. ASSUME Importing(p, m), pass[p].cancelled, asked'[m] = asked[m] PROVE asked'[m] = 0
  BY <1>1 DEF CancelledForgotten
<1>2. ASSUME NEW q \in Passes, PassStep(q) \/ Crash(q) PROVE asked'[m] = 0
  <2>1. CASE q = p
    BY <1>1, <1>2, <2>1, PassKeeps, ImportingGoes
  <2>2. CASE q # p
    BY <1>1, <1>2, <2>2, PassKeeps, PassesAlone DEF Alone, Importing
  <2> QED
    BY <2>1, <2>2
<1>3. ASSUME NEW n \in Meetings, CancelImport(n) PROVE asked'[m] = 0
  BY <1>1, <1>3, MarksOnly, CancelKeeps DEF Importing
<1>4. ASSUME NEW n \in Meetings, NEW proj, Import(n, proj) PROVE asked'[m] = 0
  <2>1. Importing(p, m) /\ pass[p].cancelled
    BY <1>4, ImportKeeps DEF Importing
  <2> QED
    BY <1>1, <1>4, <2>1, ImportKeeps DEF Cancelled
<1>5. CASE UNCHANGED <<asked, pass>>
  BY <1>1, <1>5 DEF Importing
<1> QED
  BY <1>2, <1>3, <1>4, <1>5, OutsideKeeps DEF Edit

\* Every step leaves the import a pull serves queued.
LEMMA PullServesStep ==
  Passes = {Server} /\ Inv /\ AskedBefore /\ PullServes /\ [Next]_vars => PullServes'
<1> SUFFICES ASSUME Passes = {Server}, Inv, AskedBefore, PullServes, [Next]_vars,
                    NEW p \in Passes, NEW m \in Meetings, Pulling(p, m)'
             PROVE  /\ m \in Queued(cursor')
                    /\ pass'[p].m = m /\ asked'[m] # 0 => Known(m, pass[p].r)'
  BY DEF PullServes
<1>0. pass'[p].pc # "reconciling" /\ Importing(p, m)' /\ ~pass'[p].cancelled /\ edits[m] \in Nat /\ asked[m] \in Nat
  BY Stamped DEF Pulling
<1>1. ASSUME Pulling(p, m), pass'[p].m = pass[p].m, pass'[p].r = pass[p].r, UNCHANGED <<asked, edits>>
      PROVE  pass'[p].m = m /\ asked'[m] # 0 => Known(m, pass[p].r)'
  BY <1>1 DEF PullServes, Known
<1>2. ASSUME PassStep(p) \/ Crash(p)
      PROVE  m \in Queued(cursor') /\ (pass'[p].m = m /\ asked'[m] # 0 => Known(m, pass[p].r)')
  <2>1. UNCHANGED <<asked, edits>> /\ (UNCHANGED cursor \/ Advance(p))
    BY <1>2, PassKeeps
  <2>2. ~Advance(p)
    <3>1. ASSUME Advance(p) PROVE FALSE
      <4>1. End(p) \/ Goto(p, "reconciling")
        BY <3>1 DEF Advance, AfterAdvance
      <4>2. pass'[p].pc \in {"idle", "reconciling"}
        BY <4>1, Leads
      <4> QED
        BY <1>0, <4>2 DEF Importing
    <3> QED
      BY <3>1
  <2>3. UNCHANGED cursor
    BY <2>1, <2>2
  <2>4. CASE StartPull(p) /\ pass'[p].m = None /\ cursor.queue # <<>> /\ m = Head(cursor.queue)
    <3>1. m \in Queued(cursor)
      BY <2>4, TailIs, CursorFields DEF Inv, Stored, Sound, Queued
    <3> QED
      BY <2>3, <2>4, <3>1, NoneAssumption
  <2>5. CASE PullImport(p) /\ Importing(p, m) /\ pass'[p].cancelled = pass[p].cancelled
    <3>1. /\ pass[p].pc = "pulling" /\ m = Head(pass[p].adm.queue)
          /\ pass' = [pass EXCEPT ![p].pc = "admitted", ![p].m = m, ![p].r = Content[edits[m]],
                                  ![p].next = [pass[p].adm EXCEPT !.queue = Tail(@)]]
      BY <2>5 DEF PullImport, At, Admit, Importing
    <3>2. Pulling(p, m)
      BY <1>0, <2>5, <3>1 DEF Pulling
    <3>3. pass'[p].r = Content[edits[m]]
      BY <3>1 DEF Inv, PassSound, Rows
    <3>4. edits'[m] \in asked'[m]..edits'[m]
      BY <1>0, <2>1 DEF AskedBefore
    <3> QED
      BY <2>1, <2>3, <3>2, <3>3, <3>4 DEF PullServes, Known
  <2>6. CASE PullWatch(p) /\ Importing(p, m)
    BY <2>6 DEF PullWatch, Importing
  <2>7. CASE PullBaseline(p) /\ Importing(p, m)
    BY <2>7 DEF PullBaseline, Importing
  <2>8. CASE SameWork(p) /\ pass[p].pc # "reconciling" /\ Importing(p, m) /\ pass'[p].cancelled = pass[p].cancelled
    <3>1. Pulling(p, m)
      BY <1>0, <2>8 DEF Pulling
    <3> QED
      BY <1>1, <2>1, <2>3, <2>8, <3>1 DEF SameWork, PullServes
  <2> QED
    BY <1>0, <1>2, <2>4, <2>5, <2>6, <2>7, <2>8, ImportingGoes
<1>3. ASSUME NEW n \in Meetings, CancelImport(n)
      PROVE  m \in Queued(cursor') /\ (pass'[p].m = m /\ asked'[m] # 0 => Known(m, pass[p].r)')
  <2>1. Pulling(p, m) /\ ~Importing(p, n)
    BY <1>0, <1>3, MarksOnly DEF Pulling
  <2>2. m # n
    BY <2>1 DEF Pulling
  <2>3. m \in Queued(cursor')
    BY <1>3, <2>1, <2>2, CancelKeeps DEF PullServes
  <2>4. /\ pass'[p].m = pass[p].m /\ pass'[p].r = pass[p].r
        /\ asked'[m] = asked[m] /\ edits'[m] = edits[m]
    BY <1>3, <2>2, MarksOnly, CancelKeeps
  <2> QED
    BY <2>1, <2>3, <2>4 DEF PullServes, Known
<1>4. ASSUME NEW n \in Meetings, NEW proj, Import(n, proj)
      PROVE  m \in Queued(cursor') /\ (pass'[p].m = m /\ asked'[m] # 0 => Known(m, pass[p].r)')
  <2>1. Pulling(p, m)
    BY <1>0, <1>4, ImportKeeps DEF Pulling, Importing
  <2>2. m \in Queued(cursor) /\ asked'[m] = asked[m]
    BY <1>4, <2>1, ImportKeeps DEF PullServes
  <2>3. UNCHANGED <<edits, pass>> /\ m \in Queued(cursor')
    BY <1>4, <2>2, ImportKeeps
  <2> QED
    BY <2>1, <2>2, <2>3 DEF PullServes, Known
<1>5. ASSUME NEW n \in Meetings, Edit(n)
      PROVE  m \in Queued(cursor') /\ (pass'[p].m = m /\ asked'[m] # 0 => Known(m, pass[p].r)')
  <2>1. UNCHANGED <<asked, pass, cursor>> /\ edits' = [edits EXCEPT ![n] = @ + 1]
    BY <1>5 DEF Edit, intake
  <2>2. edits'[m] \in Nat /\ edits'[m] >= edits[m]
    BY <1>0, <2>1 DEF Inv, Stored
  <2>3. Pulling(p, m)
    BY <1>0, <2>1 DEF Pulling, Importing
  <2> QED
    BY <1>0, <2>1, <2>2, <2>3 DEF PullServes, Known
<1>6. ASSUME UNCHANGED <<edits, asked, pass>>, cursor'.queue = cursor.queue
      PROVE  m \in Queued(cursor') /\ (pass'[p].m = m /\ asked'[m] # 0 => Known(m, pass[p].r)')
  <2>1. Pulling(p, m)
    BY <1>0, <1>6 DEF Pulling, Importing
  <2> QED
    BY <1>1, <1>6, <2>1 DEF PullServes, Queued
<1> QED
  BY <1>2, <1>3, <1>4, <1>5, <1>6, OutsideKeeps

\* An import asked for is queued by the step, or the stamp it was asked at stays.
LEMMA AskedGoes ==
  ASSUME Inv, [Next]_vars, NEW m \in Meetings, asked'[m] # 0
  PROVE  m \in Queued(cursor') \/ (asked'[m] = asked[m] /\ edits[m] \in Nat /\ edits'[m] \in Nat /\ edits[m] <= edits'[m])
<1>0. edits[m] \in Nat /\ asked[m] \in Nat
  BY Stamped
<1>1. CASE UNCHANGED <<asked, edits>>
  BY <1>0, <1>1
<1>2. ASSUME NEW n \in Meetings, Edit(n) PROVE asked'[m] = asked[m] /\ edits'[m] \in Nat /\ edits[m] <= edits'[m]
  <2>1. asked' = asked /\ edits' = [edits EXCEPT ![n] = @ + 1]
    BY <1>2 DEF Edit
  <2> QED
    BY <1>0, <2>1 DEF Inv, Stored
<1>3. ASSUME NEW n \in Meetings, CancelImport(n) PROVE asked'[m] = asked[m] /\ edits' = edits
  BY <1>3, CancelKeeps
<1>4. ASSUME NEW n \in Meetings, NEW proj, Import(n, proj)
      PROVE  m \in Queued(cursor') \/ (asked'[m] = asked[m] /\ edits' = edits)
  BY <1>4, ImportKeeps
<1> QED
  BY <1>0, <1>1, <1>2, <1>3, <1>4, PassKeeps, OutsideKeeps

\* While an import's stamp stays, what covered it still does.
LEMMA CoverStays ==
  ASSUME Inv, [Next]_vars, NEW m \in Meetings, asked'[m] # 0, asked'[m] = asked[m],
         edits[m] \in Nat, edits'[m] \in Nat, edits[m] <= edits'[m]
  PROVE  /\ \A n \in asked[m]..edits[m] : n \in asked'[m]..edits'[m] /\ Content[n] \in Revisions
         /\ \A r : Known(m, r) => Known(m, r)'
         /\ HasFrozen(m) => HasFrozen(m)'
<1>0. asked[m] \in Nat
  BY Stamped
<1>1. ASSUME NEW n \in asked[m]..edits[m] PROVE n \in asked'[m]..edits'[m] /\ Content[n] \in Revisions
  <2>1. n \in Edits
    BY <1>0, <1>1, ConstantsAssumption DEF Inv, Stored, Stamps, Edits
  <2> QED
    BY <1>0, <1>1, <2>1 DEF Revisions
<1>2. ASSUME NEW n \in asked[m]..edits[m], cand[m][Content[n]] # None PROVE cand'[m][Content[n]] # None
  <2>1. Content[n] \in Revisions
    BY <1>1
  <2> QED
    BY <1>2, <2>1, CellsMove DEF CellsStep, CellMoves
<1>3. \A r : Known(m, r) => \E n \in asked'[m]..edits'[m] : r = Content[n]
  BY <1>1 DEF Known
<1>4. HasFrozen(m) => HasFrozen(m)'
  BY <1>1, <1>2 DEF HasFrozen
<1> QED
  BY <1>1, <1>3, <1>4 DEF Known

\* An import leaves the queue, uncancelled, only by the advance of the pull that
\* served it.
LEMMA Drops ==
  ASSUME Inv, CancelledForgotten, PullServes, [Next]_vars, NEW m \in Meetings,
         m \in Queued(cursor), m \notin Queued(cursor'), asked'[m] # 0
  PROVE  \E p \in Passes :
           /\ Advance(p) /\ pass[p].m = m /\ pass[p].src = "pull"
           /\ Known(m, pass[p].r) /\ PullStillApplies(pass[p].adm, pass[p].next)
<1>1. ASSUME NEW p \in Passes, Advance(p)
      PROVE  /\ pass[p].m = m /\ pass[p].src = "pull"
             /\ Known(m, pass[p].r) /\ PullStillApplies(pass[p].adm, pass[p].next)
  <2> DEFINE to == AdvanceTo(p)
  <2>1. to # None /\ cursor' = to
    BY <1>1 DEF Advance
  <2>2. m \in Consumed(cursor, to)
    BY <2>1 DEF Consumed
  <2>3. At(p, "advancing") /\ Moves(p) /\ UNCHANGED asked
    BY <1>1 DEF Advance
  <2>4. pass[p].adm.queue # <<>> /\ pass[p].m = Head(pass[p].adm.queue) /\ pass[p].m = m
    BY <2>1, <2>2, <2>3, AdvanceGoes
  <2>5. pass[p].next # None /\ pass[p].adm # None /\ pass[p].src = "pull"
    BY <2>3, RowFields DEF Inv, PassSound, RowSound, Moves, At
  <2>6. Importing(p, m)
    BY <2>3, <2>4, <2>5 DEF Importing, At
  <2>7. ~pass[p].cancelled
    BY <2>3, <2>6 DEF CancelledForgotten
  <2>8. Pulling(p, m)
    BY <2>3, <2>6, <2>7 DEF Pulling, At
  <2>9. Known(m, pass[p].r)
    BY <2>3, <2>4, <2>8 DEF PullServes
  <2>10. PullStillApplies(pass[p].adm, pass[p].next)
    BY <2>1, <2>5 DEF AdvanceTo, PullStillApplies
  <2> QED
    BY <2>4, <2>5, <2>9, <2>10
<1>2. ASSUME NEW p \in Passes, PassStep(p) \/ Crash(p) PROVE Advance(p)
  BY <1>2, PassKeeps
<1>3. ASSUME ~\E p \in Passes : PassStep(p) \/ Crash(p) PROVE FALSE
  <2>1. ASSUME NEW n \in Meetings, CancelImport(n) PROVE FALSE
    BY <2>1, CancelKeeps
  <2>2. ASSUME NEW n \in Meetings, NEW proj, Import(n, proj) PROVE FALSE
    BY <2>2, ImportKeeps
  <2>3. ASSUME cursor'.queue = cursor.queue PROVE FALSE
    BY <2>3 DEF Queued
  <2>4. ASSUME NEW n \in Meetings, Edit(n) PROVE FALSE
    BY <2>4 DEF Edit, intake
  <2> QED
    BY <1>3, <2>1, <2>2, <2>3, <2>4, OutsideKeeps
<1> QED
  BY <1>1, <1>2, <1>3

\* Every step leaves a pass work that will not uncover an import.
LEMMA WorkCoversStep ==
  Passes = {Server} /\ Inv /\ Safe /\ [Next]_vars => WorkCovers'
<1> SUFFICES ASSUME Passes = {Server}, Inv, Safe, [Next]_vars, NEW p \in Passes, NEW m, pass'[p].m = m,
                    m # None, asked'[m] # 0, m \notin Queued(cursor')
             PROVE  HasFrozen(m)' \/ Known(m, pass[p].r)'
  BY DEF WorkCovers, HasFrozen, Known
<1> DEFINE Later(r) == \E n \in asked'[m]..edits'[m] : r = Content[n]
           Covers == HasFrozen(m)' \/ Later(pass'[p].r)
<1> SUFFICES Covers
  BY DEF Known
<1>0. m \in Meetings /\ pass[p] \in Rows
  BY PassSoundStep, RowFields DEF Inv, PassSound
<1>1. asked'[m] = asked[m] /\ edits[m] \in Nat /\ edits'[m] \in Nat /\ edits[m] <= edits'[m]
  BY <1>0, AskedGoes
<1>2. (HasFrozen(m) => HasFrozen(m)') /\ \A r : Known(m, r) => Later(r)
  BY <1>0, <1>1, CoverStays DEF Known
<1>3. CASE m \in Queued(cursor)
  <2>1. PICK q \in Passes : Advance(q) /\ pass[q].m = m /\ Known(m, pass[q].r)
    BY <1>0, <1>3, Drops DEF Safe
  <2>2. q = p
    OBVIOUS
  <2>3. End(p) \/ Goto(p, "reconciling")
    BY <2>1, <2>2 DEF Advance, AfterAdvance
  <2>4. End(p) => pass'[p].m = None
    BY Leads DEF Idle
  <2>5. Goto(p, "reconciling") => pass'[p].r = pass[p].r
    BY <1>0 DEF Goto, Inv, PassSound, Rows
  <2> QED
    BY <1>2, <2>1, <2>2, <2>3, <2>4, <2>5
<1>4. ASSUME m \notin Queued(cursor), pass[p].m = m, pass'[p].r = pass[p].r
      PROVE  Covers
  BY <1>1, <1>2, <1>4 DEF Safe, WorkCovers
<1>5. ASSUME m \notin Queued(cursor), PassStep(p) \/ Crash(p)
      PROVE  Covers
  <2>1. CASE End(p)
    <3>1. pass'[p].m = None
      BY <2>1, Leads DEF Idle
    <3> QED
      BY <3>1
  <2>2. CASE StartPull(p) \/ StartFreeze(p)
    <3>1. pass'[p].m = None
      BY <2>2 DEF StartPull, StartFreeze, Idle, Inv, PassSound
    <3> QED
      BY <3>1
  <2>3. CASE StartRetry(p)
    <3>1. held[m] # None /\ pass'[p].r = held[m].r
      BY <2>3 DEF StartRetry, Idle, Inv, PassSound
    <3>2. m \in Queued(cursor) \/ Covered(m)
      BY <1>0, <1>1 DEF Safe, NoLostImport
    <3> QED
      BY <1>2, <1>5, <3>1, <3>2 DEF Covered, HasFrozen, Known
  <2>4. CASE PullImport(p)
    <3>1. pass[p].adm = cursor /\ cursor.queue # <<>> /\ m = Head(cursor.queue)
      BY <2>4 DEF PullImport, CustodyCurrent, Admit, Inv, PassSound
    <3>2. m \in Queued(cursor)
      BY <3>1, TailIs, CursorFields DEF Inv, Stored, Sound, Queued
    <3> QED
      BY <1>5, <3>2
  <2>5. CASE PullBaseline(p) \/ PullWatch(p)
    <3>1. pass[p].m = None
      BY <2>5 DEF PullBaseline, PullWatch, At, Inv, PassSound, RowSound
    <3>2. \/ \E next : pass' = [pass EXCEPT ![p].pc = "advancing", ![p].next = next]
          \/ \E n, next : Admit(p, n, next)
      BY <2>5, Zenon DEF PullBaseline, PullWatch
    <3>3. ASSUME NEW next, pass' = [pass EXCEPT ![p].pc = "advancing", ![p].next = next]
          PROVE  FALSE
      BY <3>1, <3>3, <1>0 DEF Inv, PassSound, Rows
    <3>4. ASSUME NEW n, NEW next, Admit(p, n, next) PROVE pass'[p].r = Content[edits[m]]
      BY <3>4, <1>0 DEF Admit, Inv, PassSound, Rows
    <3>5. edits[m] \in asked[m]..edits[m]
      BY <1>0, <1>1, Stamped DEF Safe, AskedBefore
    <3>6. Known(m, Content[edits[m]])
      BY <3>5 DEF Known
    <3> QED
      BY <1>2, <3>2, <3>3, <3>4, <3>6
  <2>6. CASE Reread(p)
    <3>1. pass'[p].m = pass[p].m /\ pass'[p].r = pass[p].r
      BY <2>6, <1>0 DEF Reread, Inv, PassSound, Rows
    <3> QED
      BY <1>4, <1>5, <3>1
  <2>7. CASE SameWork(p)
    BY <1>4, <1>5, <2>7 DEF SameWork
  <2> QED
    BY <1>5, <2>1, <2>2, <2>3, <2>4, <2>5, <2>6, <2>7, WorkGoes
<1>6. ASSUME ~\E q \in Passes : PassStep(q) \/ Crash(q) PROVE pass'[p].m = pass[p].m /\ pass'[p].r = pass[p].r
  BY <1>6, OutsideKeeps, MarksOnly, ImportKeeps DEF Edit
<1> QED
  BY <1>3, <1>4, <1>5, <1>6

\* A pass comes to advance or to close a parked attempt in one of these ways.
LEMMA ComesToAdvance ==
  ASSUME Inv, NEW p \in Passes, PassStep(p) \/ Crash(p), pass'[p].pc \in {"advancing", "closing"}
  PROVE  \/ AlreadyFrozen(p) \/ Park(p) \/ CloseAttempt(p) \/ Persist(p) \/ Stage(p) \/ StageFails(p)
         \/ PullBaseline(p) \/ PullWatch(p)
         \/ ParkRefused(p) /\ pass'[p].pc = "closing" /\ pass'[p].failed
<1>1. pass \in [Passes -> Rows] /\ pass[p] \in Rows
  BY DEF Inv, PassSound
<1>2. ~End(p)
  <2>1. End(p) => pass'[p].pc = "idle"
    BY Leads
  <2> QED
    BY <2>1
<1>3. ASSUME NEW pc, Goto(p, pc) PROVE pc \in {"advancing", "closing"}
  <2>1. pass'[p].pc = pc
    BY <1>3, Leads
  <2> QED
    BY <2>1
<1>4. ~StartPull(p) /\ ~StartFreeze(p) /\ ~StartRetry(p)
  <2>1. /\ StartPull(p) => pass'[p].pc = "pulling"
        /\ StartFreeze(p) => pass'[p].pc = "reconciling"
        /\ StartRetry(p) => pass'[p].pc = "admitted"
    BY Leads
  <2> QED
    BY <2>1
<1>5. ~PullFails(p) /\ ~CustodyRefuses(p) /\ ~NothingFrozen(p) /\ ~ReadRefused(p) /\ ~Reserve(p) /\ ~Aborted(p)
      /\ ~RefusedFirst(p) /\ ~GrantRetry(p) /\ ~PersistRefused(p)
  BY <1>2, <1>3 DEF PullFails, CustodyRefuses, NothingFrozen, ReadRefused, Reserve, Aborted, RefusedFirst, GrantRetry,
     PersistRefused
<1>6. ~Advance(p) /\ ~Stays(p) /\ ~AdvanceRefused(p) /\ ~Reconcile(p) /\ ~Crash(p)
  BY <1>2, <1>3 DEF Advance, Stays, AdvanceRefused, Reconcile, Crash, AfterAdvance
<1>7. ~PullImport(p)
  <2>1. ASSUME NEW m, NEW next, Admit(p, m, next) PROVE FALSE
    BY <1>1, <2>1 DEF Admit, Rows
  <2> QED
    BY <2>1 DEF PullImport
<1>8. ~Reuse(p) /\ ~Extracted(p)
  <2>1. ASSUME NEW d, pass' = [pass EXCEPT ![p].dec = d, ![p].pc = IF PullOf(p) THEN "persisting" ELSE "rereading"]
        PROVE  FALSE
    BY <1>1, <2>1 DEF Rows
  <2> QED
    BY <2>1 DEF Reuse, Extracted
<1>9. ~Blocked(p) /\ ~ExtractionFails(p) /\ ~Reread(p)
  <2>1. ASSUME NEW stage, pass' = [pass EXCEPT ![p].pc = "parking", ![p].stage = stage] PROVE FALSE
    BY <1>1, <2>1 DEF Rows
  <2>2. ~Blocked(p) /\ ~ExtractionFails(p)
    BY <1>3, <2>1 DEF Blocked, ExtractionFails
  <2>3. ~Reread(p)
    BY <1>1 DEF Reread, Rows
  <2> QED
    BY <2>2, <2>3
<1>10. ParkRefused(p) => pass'[p].pc = "closing" /\ pass'[p].failed
  BY <1>1, <1>2 DEF ParkRefused, Rows
<1> QED
  BY <1>4, <1>5, <1>6, <1>7, <1>8, <1>9, <1>10 DEF PassStep

\* Every step that comes to advance past a revision has settled it.
LEMMA AdvancesSettledStep ==
  Passes = {Server} /\ Inv /\ AdvancesSettled /\ [Next]_vars => AdvancesSettled'
<1> SUFFICES ASSUME Passes = {Server}, Inv, AdvancesSettled, [Next]_vars, NEW p \in Passes,
                    pass'[p].m # None, pass'[p].src = "pull",
                    pass'[p].pc = "advancing" \/ (pass'[p].pc = "closing" /\ ~pass'[p].failed)
             PROVE  HasResult(pass[p].m, pass[p].r)' \/ ~PullStillApplies(pass[p].adm, pass[p].next)'
  BY DEF AdvancesSettled
<1> DEFINE Result == HasResult(pass[p].m, pass[p].r)' \/ ~PullStillApplies(pass[p].adm, pass[p].next)'
<1>0. pass \in [Passes -> Rows] /\ pass[p] \in Rows
  BY DEF Inv, PassSound
<1>1. ASSUME UNCHANGED <<cursor, cand, held>>,
             pass'[p].m = pass[p].m, pass'[p].r = pass[p].r, pass'[p].src = pass[p].src,
             pass'[p].adm = pass[p].adm, pass'[p].next = pass[p].next,
             pass[p].pc = "advancing" \/ (pass[p].pc = "closing" /\ ~pass[p].failed)
      PROVE  Result
  BY <1>1 DEF AdvancesSettled, HasResult, PullStillApplies
<1>2. ASSUME PassStep(p) \/ Crash(p) PROVE Result
  <2>1. CASE PullBaseline(p)
    <3>1. pass[p].m = None /\ pass'[p].m = pass[p].m
      BY <1>0, <2>1 DEF PullBaseline, At, Inv, PassSound, RowSound, Rows
    <3> QED
      BY <3>1
  <2>2. CASE PullWatch(p)
    <3>1. pass[p].m = None
      BY <2>2 DEF PullWatch, At, Inv, PassSound, RowSound
    <3>2. \/ \E next : pass' = [pass EXCEPT ![p].pc = "advancing", ![p].next = next]
          \/ \E n, next : Admit(p, n, next)
      BY <2>2, Zenon DEF PullWatch
    <3>3. ASSUME NEW next, pass' = [pass EXCEPT ![p].pc = "advancing", ![p].next = next] PROVE FALSE
      BY <1>0, <3>1, <3>3 DEF Rows
    <3>4. ASSUME NEW n, NEW next, Admit(p, n, next) PROVE FALSE
      BY <1>0, <3>4 DEF Admit, Rows
    <3> QED
      BY <3>2, <3>3, <3>4
  <2>3. ASSUME AlreadyFrozen(p) \/ Park(p) \/ CloseAttempt(p) \/ Persist(p) \/ Stage(p) \/ StageFails(p)
        PROVE  Result
    <3>1. /\ SameWork(p) /\ UNCHANGED cursor
          /\ pass[p].pc \in OnRevision /\ pass[p].m \in Meetings /\ pass[p].r \in Revisions
      <4>1. ~End(p)
        BY Leads, Zenon
      <4>2. /\ pass[p].pc \notin {"idle", "reconciling", "pulling", "advancing", "rereading"}
            /\ pass[p].pc \in OnRevision
            /\ UNCHANGED cursor
        BY <2>3 DEF AlreadyFrozen, Park, CloseAttempt, Persist, Stage, StageFails, At, OnRevision, intake
      <4>3. ~StartPull(p) /\ ~StartFreeze(p) /\ ~StartRetry(p) /\ ~PullImport(p) /\ ~PullBaseline(p) /\ ~PullWatch(p)
            /\ ~Reread(p)
        BY <4>2 DEF StartPull, StartFreeze, StartRetry, PullImport, PullBaseline, PullWatch, Reread, At
      <4> QED
        BY <1>2, <4>1, <4>2, <4>3, WorkGoes, OnOne DEF Inv
    <3> DEFINE m == pass[p].m
               r == pass[p].r
    <3>2. pass'[p].m = m /\ pass'[p].r = r /\ pass'[p].adm = pass[p].adm /\ pass'[p].next = pass[p].next
          /\ pass'[p].src = pass[p].src
      BY <3>1 DEF SameWork
    <3>3. ASSUME cand'[m][r] # None PROVE Result
      BY <3>2, <3>3 DEF HasResult
    <3>4. cand[m][r] # None => cand'[m][r] # None
      BY <3>1, CellsMove DEF CellsStep, CellMoves
    <3>5. CASE AlreadyFrozen(p)
      BY <3>3, <3>4, <3>5 DEF AlreadyFrozen
    <3>6. CASE Stage(p) \/ StageFails(p)
      <4>1. cand[m][r] # None
        BY <3>6 DEF Stage, StageFails, Inv, Review
      <4> QED
        BY <3>3, <3>4, <4>1
    <3>7. CASE Persist(p)
      BY <3>3, <3>7, PersistCells
    <3>8. CASE Park(p)
      <4>1. CASE PullStillApplies(pass[p].adm, pass[p].next)
        <5>1. held'[m] # None /\ held'[m].r = r
          BY <3>1, <3>8, <4>1, ParkHolds, NoneAssumption DEF Inv, Review
        <5> QED
          BY <3>2, <5>1 DEF HasResult
      <4>2. CASE ~PullStillApplies(pass[p].adm, pass[p].next)
        BY <3>1, <3>2, <4>2 DEF PullStillApplies
      <4> QED
        BY <4>1, <4>2
    <3>9. CASE CloseAttempt(p)
      <4>1. UNCHANGED <<cursor, cand, held>> /\ pass[p].pc = "closing"
        BY <3>9 DEF CloseAttempt, intake, review, At
      <4>2. ~pass[p].failed
        <5>1. End(p) => pass'[p].pc = "idle"
          BY Leads, Zenon
        <5>2. Goto(p, "reconciling") => pass'[p].pc = "reconciling"
          BY Leads, Zenon
        <5> QED
          BY <3>9, <5>1, <5>2 DEF CloseAttempt
      <4> QED
        BY <1>1, <3>2, <4>1, <4>2
    <3> QED
      BY <2>3, <3>5, <3>6, <3>7, <3>8, <3>9
  <2> QED
    BY <1>2, <2>1, <2>2, <2>3, ComesToAdvance
<1>3. ASSUME ~\E q \in Passes : PassStep(q) \/ Crash(q) PROVE Result
  <2>1. pass'[p].pc = pass[p].pc
    BY <1>3, OutsideKeeps, MarksOnly, ImportKeeps DEF Edit
  <2>2. ~Serving
    BY <2>1, ServesAlone
  <2>3. UNCHANGED <<pass, cursor, cand, held>>
    BY <1>3, <2>2, OutsideKeeps, CancelKeeps, ImportKeeps DEF Edit, intake, review
  <2> QED
    BY <1>1, <2>3
<1> QED
  BY <1>2, <1>3

\* No step loses an import.
LEMMA NoLostImportStep ==
  Passes = {Server} /\ Inv /\ Safe /\ [Next]_vars => NoLostImport'
<1> SUFFICES ASSUME Passes = {Server}, Inv, Safe, [Next]_vars, NEW m \in Meetings,
                    asked'[m] # 0, m \notin Queued(cursor')
             PROVE  Covered(m)'
  BY DEF NoLostImport
<1>1. asked'[m] = asked[m] /\ edits[m] \in Nat /\ edits'[m] \in Nat /\ edits[m] <= edits'[m]
  BY AskedGoes
<1>2. /\ \A n \in asked[m]..edits[m] : n \in asked'[m]..edits'[m] /\ Content[n] \in Revisions
      /\ HasFrozen(m) => HasFrozen(m)'
  BY <1>1, CoverStays
<1>3. HasFrozen(m)' => Covered(m)'
  BY DEF HasFrozen, Covered
<1>4. ASSUME NEW n \in asked[m]..edits[m], HasResult(m, Content[n])'
      PROVE  Covered(m)'
  BY <1>2, <1>4 DEF HasResult, Covered
<1>5. CASE m \in Queued(cursor)
  <2>1. PICK p \in Passes : /\ Advance(p) /\ pass[p].m = m /\ pass[p].src = "pull"
                            /\ Known(m, pass[p].r) /\ PullStillApplies(pass[p].adm, pass[p].next)
    BY <1>5, Drops DEF Safe
  <2>2. UNCHANGED <<cand, held>> /\ pass[p].pc = "advancing"
    BY <2>1 DEF Advance, review, At
  <2>3. HasResult(m, pass[p].r)
    BY <2>1, <2>2, NoneAssumption DEF Safe, AdvancesSettled
  <2>4. PICK n \in asked[m]..edits[m] : pass[p].r = Content[n]
    BY <2>1 DEF Known
  <2> QED
    BY <1>4, <2>2, <2>3, <2>4 DEF HasResult
<1>6. CASE m \notin Queued(cursor)
  <2>1. Covered(m)
    BY <1>1, <1>6 DEF Safe, NoLostImport
  <2>2. CASE HasFrozen(m)
    BY <1>2, <1>3, <2>2
  <2>3. CASE ~HasFrozen(m)
    <3>1. PICK n \in asked[m]..edits[m] : held[m] # None /\ held[m].r = Content[n]
      BY <2>1, <2>3 DEF Covered, HasFrozen
    <3>2. ASSUME held'[m] = held[m] PROVE Covered(m)'
      BY <1>4, <3>1, <3>2 DEF HasResult
    <3>3. held \in [Meetings -> Parked \cup {None}]
      BY DEF Inv, Review
    <3>4. ASSUME NEW p \in Passes, pass[p].m = m
          PROVE  \E k \in asked[m]..edits[m] : pass[p].r = Content[k]
      BY <1>1, <1>6, <2>3, <3>4, NoneAssumption DEF Safe, WorkCovers, Known
    <3>5. ASSUME NEW p \in Passes, AlreadyFrozen(p) PROVE Covered(m)'
      <4>1. CASE held' = held
        BY <3>2, <4>1
      <4>2. CASE held' # held
        <5>1. held' = [held EXCEPT ![pass[p].m] = None] /\ cand[pass[p].m][pass[p].r] # None
              /\ held[pass[p].m].r = pass[p].r
          BY <3>5, <4>2 DEF AlreadyFrozen
        <5>2. pass[p].m # m
          BY <2>3, <3>1, <5>1 DEF HasFrozen
        <5> QED
          BY <3>2, <3>3, <5>1, <5>2
      <4> QED
        BY <4>1, <4>2
    <3>6. ASSUME NEW p \in Passes, Park(p) PROVE Covered(m)'
      <4>1. CASE held'[m] = held[m]
        BY <3>2, <4>1
      <4>2. CASE held'[m] # held[m]
        <5>1. pass[p].m = m /\ held'[m] # None /\ held'[m].r = pass[p].r
          BY <3>3, <3>6, <4>2, ParkHolds, NoneAssumption
        <5> QED
          BY <1>4, <3>4, <5>1 DEF HasResult
      <4> QED
        BY <4>1, <4>2
    <3>7. ASSUME NEW p \in Passes, Persist(p) PROVE Covered(m)'
      <4>1. CASE held'[m] = held[m]
        BY <3>2, <4>1
      <4>2. CASE held'[m] # held[m]
        <5>1. pass[p].m = m
          BY <3>3, <3>7, <4>2 DEF Persist, review, Unparked
        <5>2. cand'[m][pass[p].r] # None
          BY <3>7, <5>1, PersistCells
        <5> QED
          BY <1>4, <3>4, <5>1, <5>2 DEF HasResult
      <4> QED
        BY <4>1, <4>2
    <3>8. ASSUME NEW k \in Meetings, CancelImport(k) PROVE Covered(m)'
      BY <3>2, <3>8, CancelKeeps
    <3> QED
      BY <3>2, <3>5, <3>6, <3>7, <3>8, ReviewFrame
  <2> QED
    BY <2>2, <2>3
<1> QED
  BY <1>5, <1>6

\* All of this holds always, where one process runs the passes.
LEMMA SafeAlways ==
  ASSUME Passes = {Server}
  PROVE  Spec => []Safe
<1>1. Init => Safe
  <2> SUFFICES ASSUME Init PROVE Safe
    OBVIOUS
  <2>1. /\ \A m \in Meetings : asked[m] = 0 /\ edits[m] = 0
        /\ \A p \in Passes : pass[p] = Idle
    BY DEF Init
  <2> QED
    BY <2>1 DEF Safe, AskedBefore, CancelledForgotten, PullServes, Pulling, Importing, WorkCovers, AdvancesSettled,
                NoLostImport, Idle
<1>2. Inv /\ Safe /\ [Next]_vars => Safe'
  BY AskedStep, ForgottenStep, PullServesStep, WorkCoversStep, AdvancesSettledStep, NoLostImportStep DEF Safe
<1> QED
  BY <1>1, <1>2, InvAlways, PTL DEF Spec

\* Where one process runs the passes and serves the requests, whatever crashes,
\* failures, edits, other imports and lost compare-and-swaps come, an import the
\* person asked for and did not cancel stays queued until a revision no older
\* than the one it was asked at is frozen or parked.
THEOREM ProcessingLosesNoImport ==
  ASSUME Passes = {Server}
  PROVE  Spec => []NoLostImport
<1>1. Safe => NoLostImport
  BY DEF Safe
<1> QED
  BY <1>1, SafeAlways, PTL

\* There the checkpoint passes a pulled revision only once it is frozen or
\* parked, by whichever of a pass's ways to its advance.
THEOREM ProcessingAdvancesSettled ==
  ASSUME Passes = {Server}
  PROVE  Spec => AdvanceSettled
<1>1. Inv /\ Safe /\ [Next]_vars =>
        [\A p \in Passes :
           AdvancePast(p) /\ pass[p].m # None /\ ~pass[p].cancelled =>
             \/ cand[pass[p].m][pass[p].r] # None
             \/ held[pass[p].m] # None /\ held[pass[p].m].r = pass[p].r]_vars
  <2> SUFFICES ASSUME Inv, Safe, [Next]_vars, NEW p \in Passes, AdvancePast(p), pass[p].m # None
               PROVE  HasResult(pass[p].m, pass[p].r)
    BY DEF HasResult
  <2>1. pass[p].pc = "advancing" /\ pass'[p].pc # "advancing" /\ cursor' # cursor
    BY DEF AdvancePast, At
  <2>2. PassStep(p) \/ Crash(p)
    <3>1. ASSUME ~\E q \in Passes : PassStep(q) \/ Crash(q) PROVE pass'[p].pc = pass[p].pc
      BY <3>1, OutsideKeeps, MarksOnly, ImportKeeps DEF Edit
    <3> QED
      BY <2>1, <3>1
  <2>3. Advance(p) /\ AdvanceTo(p) # None
    <3>1. Advance(p)
      BY <2>1, <2>2, PassKeeps
    <3> QED
      BY <2>1, <3>1 DEF Advance
  <2>4. pass[p].next # None /\ pass[p].src = "pull"
    BY <2>1, <2>3, RowFields DEF Advance, Moves, Inv, PassSound, RowSound
  <2>5. PullStillApplies(pass[p].adm, pass[p].next)
    BY <2>3, <2>4 DEF AdvanceTo, PullStillApplies
  <2> QED
    BY <2>1, <2>4, <2>5 DEF Safe, AdvancesSettled
<1> QED
  BY <1>1, SafeAlways, InvAlways, PTL DEF Spec, AdvanceSettled
=============================================================================
