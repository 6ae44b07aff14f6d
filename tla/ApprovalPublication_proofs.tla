---------------------- MODULE ApprovalPublication_proofs ----------------------
(***************************************************************************)
(* Proofs that approval and publication keep their promises for any number *)
(* of proposals, commands, surfaces, groups and concurrent publishers.     *)
(* The inductive invariant has two parts: StoreInv relates what the two    *)
(* databases hold, and PubOK what a publisher remembers to it.  Decisions, *)
(* log positions and signed receipts are never taken back (Grows), so one  *)
(* publisher's step leaves every other publisher's part standing.          *)
(***************************************************************************)
EXTENDS ApprovalPublication, FiniteSetTheorems, TLAPS

\* A decision names its own proposal, which stays staged; a row without a
\* sequence is empty.
DecisionsShaped ==
  \A p \in Proposals :
    /\ Decided(p) => /\ decision[p].req \in Requests /\ decision[p].req.prop = p
                     /\ box[p] = "staged"
    /\ ~Decided(p) => decision[p] = Undecided

Recorded(p, g) == \E i \in DOMAIN log : log[i] = <<p, g>>

Working == {"append", "creating", "signing", "receipt"}

\* What a publisher remembers of its page and its row is still so: its rows
\* are approved, its records are in the log with their receipts, and while it
\* creates one it alone holds the log, which has no such record.
PubOK(w) ==
  /\ \A i \in DOMAIN pub[w].rows : Approved(pub[w].rows[i])
  /\ pub[w].pc \in Working =>
       /\ Prop(w) \in Proposals
       /\ Approved(Prop(w))
       /\ Len(pub[w].done) <= decision[Prop(w)].req.groups
       /\ \A g \in DOMAIN pub[w].done :
            pub[w].done[g] \in signed /\ log[pub[w].done[g]] = <<Prop(w), g>>
  /\ pub[w].pc \in Working \ {"receipt"} =>
       Len(pub[w].done) < decision[Prop(w)].req.groups
  /\ At(w, "receipt") => Len(pub[w].done) = decision[Prop(w)].req.groups
  /\ At(w, "creating") => lock = w /\ ~Recorded(Prop(w), Group(w))
  /\ At(w, "signing") => Recorded(Prop(w), Group(w))

StoreInv == /\ DecisionsShaped
            /\ OneRecordPerGroup
            /\ OnlyApprovedRecorded
            /\ ReceiptComplete
            /\ HooksOncePerRecord

PubInv == \A w \in Publishers : PubOK(w)

IndInv == TypeOK /\ StoreInv /\ PubInv /\ WinnersDecided /\ CommandDecidesOnce
-----------------------------------------------------------------------------
(* Facts about the state that the actions read. *)

\* A decided proposal's row, field by field.
LEMMA DecisionFields ==
  ASSUME TypeOK, DecisionsShaped, NEW p \in Proposals, Decided(p)
  PROVE  /\ decision[p].req \in Requests
         /\ decision[p].req.prop = p
         /\ decision[p].req.cmd \in Commands
         /\ decision[p].req.groups \in 0..MaxGroups
         /\ Chosen(p) \subseteq Groups
         /\ decision[p] = [req |-> decision[p].req, seq |-> decision[p].seq,
                           receipt |-> decision[p].receipt]
<1>1. decision[p] \in Rows /\ decision[p].req \in Requests /\ decision[p].req.prop = p
  BY DEF TypeOK, DecisionsShaped
<1>2. decision[p].req.cmd \in Commands /\ decision[p].req.groups \in 0..MaxGroups
  BY <1>1 DEF Requests
<1>3. QED
  BY <1>1, <1>2, ConstantsAssumption DEF Rows, Chosen, Groups

\* A publisher's pass, field by field.
LEMMA PassFields ==
  ASSUME TypeOK, NEW w \in Publishers
  PROVE  /\ pub[w] \in Passes
         /\ pub[w].pc \in Steps
         /\ pub[w].after \in Nat
         /\ pub[w].rows \in Seq(Proposals)
         /\ pub[w].prop \in Proposals \cup {None}
         /\ pub[w].done \in Seq(Nat)
BY DEF TypeOK, Passes

\* The next sequence is a number above zero.
LEMMA NextSequenceType == NextSequence \in Nat \ {0}
<1>1. IsFiniteSet({p \in Proposals : Decided(p)})
  BY ConstantsAssumption, FS_Subset
<1>2. Cardinality({p \in Proposals : Decided(p)}) \in Nat
  BY <1>1, FS_CardinalityType
<1>3. QED
  BY <1>2 DEF NextSequence

-----------------------------------------------------------------------------
(* What every step leaves standing. *)

\* Decisions keep their requests, and the log and its receipts only grow.
Grows ==
  /\ \A p \in Proposals : Decided(p) =>
       Decided(p)' /\ decision'[p].req = decision[p].req
  /\ DOMAIN log \subseteq DOMAIN log'
  /\ \A i \in DOMAIN log : log'[i] = log[i]
  /\ signed \subseteq signed'

\* A publisher whose memory a step leaves alone is still right about it, if
\* the log gets no record while it creates one.
LEMMA PubFrame ==
  ASSUME TypeOK, Grows, NEW w \in Publishers, PubOK(w), pub'[w] = pub[w],
         At(w, "creating") => lock' = lock /\ log' = log
  PROVE  PubOK(w)'
<1>0. pub[w].rows \in Seq(Proposals) /\ pub[w].done \in Seq(Nat)
  BY PassFields
<1>1. \A p \in Proposals : Approved(p) => Approved(p)' /\ decision'[p].req = decision[p].req
  BY DEF Grows, Approved, Decided
<1>2. \A i \in DOMAIN pub[w].rows : pub[w].rows[i] \in Proposals
  BY <1>0
<1>3. (\A i \in DOMAIN pub[w].rows : Approved(pub[w].rows[i]))'
  BY <1>1, <1>2 DEF PubOK, Approved, Decided
<1>4. Prop(w)' = Prop(w) /\ Group(w)' = Group(w) /\ \A pc \in Steps : At(w, pc)' <=> At(w, pc)
  BY DEF Prop, Group, At
<1>5. ASSUME pub[w].pc \in Working
      PROVE  /\ Prop(w) \in Proposals /\ Approved(Prop(w))'
             /\ decision'[Prop(w)].req = decision[Prop(w)].req
             /\ \A g \in DOMAIN pub[w].done :
                  pub[w].done[g] \in signed' /\ log'[pub[w].done[g]] = <<Prop(w), g>>
  <2>1. Prop(w) \in Proposals /\ Approved(Prop(w))
    BY <1>5 DEF PubOK
  <2>2. \A g \in DOMAIN pub[w].done : pub[w].done[g] \in signed /\ log[pub[w].done[g]] = <<Prop(w), g>>
    BY <1>5 DEF PubOK
  <2>3. signed \subseteq DOMAIN log
    BY DEF TypeOK
  <2>4. QED
    <3>1. Approved(Prop(w))' /\ decision'[Prop(w)].req = decision[Prop(w)].req
      BY <1>1, <1>4, <2>1 DEF Approved, Decided
    <3>2. ASSUME NEW g \in DOMAIN pub[w].done
          PROVE  pub[w].done[g] \in signed' /\ log'[pub[w].done[g]] = <<Prop(w), g>>
      <4> DEFINE i == pub[w].done[g]
      <4>1. i \in signed /\ i \in DOMAIN log /\ log[i] = <<Prop(w), g>>
        BY <2>2, <2>3
      <4> HIDE DEF i
      <4>2. i \in signed' /\ log'[i] = log[i]
        BY <4>1 DEF Grows
      <4>3. QED
        BY <4>1, <4>2 DEF i
    <3>3. QED
      BY <2>1, <3>1, <3>2
<1>6. At(w, "creating") => lock' = w /\ ~Recorded(Prop(w), Group(w))'
  BY <1>4 DEF PubOK, Recorded
<1>7. At(w, "signing") => Recorded(Prop(w), Group(w))'
  BY <1>4 DEF PubOK, Recorded, Grows
<1>8. At(w, "creating")' => At(w, "creating")
  BY DEF At
<1>9. At(w, "signing")' => At(w, "signing")
  BY DEF At
<1>10. pub[w].pc \in Working \ {"receipt"} =>
         Len(pub[w].done) < decision'[Prop(w)].req.groups
  BY <1>5 DEF PubOK, Working
<1>11. At(w, "receipt") => Len(pub[w].done) = decision'[Prop(w)].req.groups
  BY <1>5 DEF PubOK, Working, At
<1>12. pub[w].pc \in Working => Len(pub[w].done) <= decision'[Prop(w)].req.groups
  BY <1>5 DEF PubOK
<1>13. (pub[w].pc \in Working =>
          /\ Prop(w) \in Proposals
          /\ Approved(Prop(w))
          /\ Len(pub[w].done) <= decision[Prop(w)].req.groups
          /\ \A g \in DOMAIN pub[w].done :
               pub[w].done[g] \in signed /\ log[pub[w].done[g]] = <<Prop(w), g>>)'
  BY <1>4, <1>5, <1>12
<1>14. (pub[w].pc \in Working \ {"receipt"} =>
          Len(pub[w].done) < decision[Prop(w)].req.groups)'
  BY <1>4, <1>10
<1>15. (At(w, "receipt") => Len(pub[w].done) = decision[Prop(w)].req.groups)'
  BY <1>4, <1>11 DEF At
<1>16. At(w, "creating")' => lock' = w /\ ~Recorded(Prop(w), Group(w))'
  BY <1>6, <1>8
<1>17. At(w, "signing")' => Recorded(Prop(w), Group(w))'
  BY <1>7, <1>9
<1>18. QED
  BY <1>3, <1>13, <1>14, <1>15, <1>16, <1>17 DEF PubOK

\* A pass that leaves the databases alone leaves what holds of them standing.
LEMMA StoreFrame ==
  ASSUME StoreInv, UNCHANGED <<box, decision, log, signed, runs>>
  PROVE  StoreInv' /\ Grows
<1>1. StoreInv'
  BY DEF StoreInv, DecisionsShaped, OneRecordPerGroup, OnlyApprovedRecorded, ReceiptComplete,
         HooksOncePerRecord, Decided, Approved, Published, Chosen
<1>2. Grows
  BY DEF Grows, Decided
<1>3. QED
  BY <1>1, <1>2

\* Decisions unchanged, the told winners and the commands' uses stand.
LEMMA RequestFrame ==
  ASSUME TypeOK, WinnersDecided, CommandDecidesOnce, won' = won,
         \A p \in Proposals : decision'[p].req = decision[p].req /\ (Decided(p)' <=> Decided(p))
  PROVE  WinnersDecided' /\ CommandDecidesOnce'
<1>1. \A q \in won : q.prop \in Proposals
  BY DEF TypeOK, Requests
<1>2. QED
  BY <1>1 DEF WinnersDecided, CommandDecidesOnce

-----------------------------------------------------------------------------
(* What a step of another kind leaves standing: a summary of each action. *)

\* A pass that wrote only its own memory and perhaps the lock.
LEMMA PassOnly ==
  ASSUME IndInv, NEW w \in Publishers, NEW r \in Passes,
         pub' = [pub EXCEPT ![w] = r],
         UNCHANGED <<authority, log, signed, won>>,
         lock' = lock \/ lock = None \/ (lock = w /\ lock' = None),
         lock' \in Publishers \cup {None},
         PubOK(w)'
  PROVE  IndInv'
<1>1. StoreInv' /\ Grows
  BY StoreFrame DEF IndInv, authority
<1>2. ASSUME NEW v \in Publishers, v # w PROVE PubOK(v)'
  <2>1. pub'[v] = pub[v] /\ PubOK(v)
    BY <1>2 DEF IndInv, TypeOK, PubInv
  <2>2. At(v, "creating") => lock' = lock /\ log' = log
    BY <1>2, <2>1, ConstantsAssumption DEF PubOK
  <2>3. QED
    BY <1>1, <2>1, <2>2, PubFrame DEF IndInv
<1>3. PubInv'
  BY <1>2 DEF PubInv
<1>4. TypeOK'
  BY DEF IndInv, TypeOK, authority
<1>5. WinnersDecided' /\ CommandDecidesOnce'
  BY RequestFrame DEF IndInv, authority, Decided
<1>6. QED
  BY <1>1, <1>3, <1>4, <1>5 DEF IndInv

\* A pass between rows only remembers approvals.
LEMMA PubQuiet ==
  ASSUME NEW w \in Publishers, pub'[w].pc \notin Working,
         (\A i \in DOMAIN pub[w].rows : Approved(pub[w].rows[i]))'
  PROVE  PubOK(w)'
BY DEF PubOK, At, Working

\* An idle pass remembers nothing.
LEMMA IdlePass == Idle \in Passes /\ Idle.pc = "idle" /\ Idle.rows = <<>>
BY DEF Idle, Passes, Steps

-----------------------------------------------------------------------------
(* The steps of a pass that write neither database. *)

LEMMA StartStep ==
  ASSUME IndInv, NEW w \in Publishers, Start(w)
  PROVE  IndInv'
<1> DEFINE r == [Idle EXCEPT !.pc = "page"]
<1>1. r \in Passes /\ r.pc = "page" /\ r.rows = <<>>
  BY IdlePass DEF Passes, Steps
<1> HIDE DEF r
<1>2. pub' = [pub EXCEPT ![w] = r]
  BY DEF Start, r
<1>3. pub'[w] = r
  BY <1>2 DEF IndInv, TypeOK
<1>4. PubOK(w)'
  BY <1>1, <1>3, PubQuiet DEF Working
<1>5. lock' = lock /\ lock' \in Publishers \cup {None}
  BY DEF Start, recordlog, IndInv, TypeOK
<1>6. UNCHANGED <<authority, log, signed, won>>
  BY DEF Start, recordlog
<1>7. QED
  BY <1>1, <1>2, <1>4, <1>5, <1>6, PassOnly

LEMMA ReadPageStep ==
  ASSUME IndInv, NEW w \in Publishers, ReadPage(w)
  PROVE  IndInv'
<1>0. PICK n \in 0..PageSize :
        \E rows \in [1..n -> Proposals] :
          /\ Page(pub[w].after, rows)
          /\ pub' = [pub EXCEPT ![w] = IF n = 0 THEN Idle
                                       ELSE [@ EXCEPT !.pc = "row", !.rows = rows]]
  BY DEF ReadPage
<1>1. PICK rows \in [1..n -> Proposals] :
        /\ Page(pub[w].after, rows)
        /\ pub' = [pub EXCEPT ![w] = IF n = 0 THEN Idle
                                     ELSE [@ EXCEPT !.pc = "row", !.rows = rows]]
  BY <1>0
<1> DEFINE r == IF n = 0 THEN Idle ELSE [pub[w] EXCEPT !.pc = "row", !.rows = rows]
<1>2. n \in Nat
  BY <1>1, ConstantsAssumption
<1>3. rows \in Seq(Proposals) /\ DOMAIN rows = 1..Len(rows)
  BY <1>2
<1>4. r \in Passes
  BY <1>3, PassFields, IdlePass DEF IndInv, Passes, Steps
<1>5. r.pc \notin Working
  BY IdlePass, PassFields DEF Working, IndInv, Passes
<1>6. r.rows = <<>> \/ r.rows = rows
  BY IdlePass, PassFields DEF IndInv, Passes
<1> HIDE DEF r
<1>7. pub' = [pub EXCEPT ![w] = r]
  BY <1>1 DEF r
<1>8. pub'[w] = r
  BY <1>7 DEF IndInv, TypeOK
<1>9. \A i \in DOMAIN r.rows : Approved(r.rows[i])
  <2>1. \A i \in DOMAIN rows : Approved(rows[i])
    BY <1>1, <1>3 DEF Page, Unpublished
  <2>2. QED
    BY <1>6, <2>1
<1>10. UNCHANGED <<authority, log, signed, won>> /\ lock' = lock
  BY DEF ReadPage, recordlog
<1>11. (\A i \in DOMAIN pub[w].rows : Approved(pub[w].rows[i]))'
  BY <1>8, <1>9, <1>10 DEF Approved, Decided, authority
<1>12. PubOK(w)'
  BY <1>5, <1>8, <1>11, PubQuiet
<1>13. lock' \in Publishers \cup {None}
  BY <1>10 DEF IndInv, TypeOK
<1>14. QED
  BY <1>4, <1>7, <1>10, <1>12, <1>13, PassOnly

\* A pass that drops its row, or all it remembers, and gives up the lock.
LEMMA DropStep ==
  ASSUME IndInv, NEW w \in Publishers, NEW r \in Passes,
         pub' = [pub EXCEPT ![w] = r], r.pc \notin Working,
         r.rows = <<>> \/ r.rows = pub[w].rows,
         UNCHANGED <<authority, log, signed, won>>,
         lock' = lock \/ (lock = w /\ lock' = None)
  PROVE  IndInv'
<1>1. pub'[w] = r
  BY DEF IndInv, TypeOK
<1>2. \A i \in DOMAIN r.rows : Approved(r.rows[i])
  BY DEF IndInv, PubInv, PubOK
<1>3. (\A i \in DOMAIN pub[w].rows : Approved(pub[w].rows[i]))'
  BY <1>1, <1>2 DEF Approved, Decided, authority
<1>4. PubOK(w)'
  BY <1>1, <1>3, PubQuiet
<1>5. lock' \in Publishers \cup {None}
  BY DEF IndInv, TypeOK
<1>6. QED
  BY <1>4, <1>5, PassOnly

LEMMA EndOfPageStep ==
  ASSUME IndInv, NEW w \in Publishers, EndOfPage(w)
  PROVE  IndInv'
<1> DEFINE r == [pub[w] EXCEPT !.pc = "page"]
<1>1. r \in Passes /\ r.pc \notin Working /\ r.rows = pub[w].rows
  BY PassFields DEF IndInv, Passes, Steps, Working
<1>2. pub' = [pub EXCEPT ![w] = r]
  BY DEF EndOfPage, Goto
<1> HIDE DEF r
<1>3. UNCHANGED <<authority, log, signed, won>> /\ lock' = lock
  BY DEF EndOfPage, recordlog
<1>4. QED
  BY <1>1, <1>2, <1>3, DropStep

LEMMA FaultStep ==
  ASSUME IndInv, NEW w \in Publishers, Fault(w)
  PROVE  IndInv'
<1>1. CASE Abort(w) \/ Crash(w)
  <2>1. pub' = [pub EXCEPT ![w] = Idle] /\ UNCHANGED <<authority, log, signed, won>>
    BY <1>1 DEF Abort, Crash, recordlog
  <2>2. lock' = lock \/ (lock = w /\ lock' = None)
    BY <1>1 DEF Abort, Crash, recordlog
  <2>3. QED
    BY <2>1, <2>2, IdlePass, DropStep DEF Working
<1>2. CASE RowFails(w)
  <2> DEFINE r == [pub[w] EXCEPT !.pc = "row", !.done = <<>>]
  <2>0. <<>> \in Seq(Nat) /\ pub[w] \in Passes
    BY PassFields DEF IndInv
  <2>1. r \in Passes /\ r.pc \notin Working /\ r.rows = pub[w].rows
    BY <2>0 DEF Passes, Steps, Working
  <2>2. pub' = [pub EXCEPT ![w] = r]
    BY <1>2 DEF RowFails, NextRow
  <2> HIDE DEF r
  <2>3. UNCHANGED <<authority, log, signed, won>> /\ (lock' = lock \/ (lock = w /\ lock' = None))
    BY <1>2 DEF RowFails
  <2>4. QED
    BY <2>1, <2>2, <2>3, DropStep
<1>3. QED
  BY <1>1, <1>2 DEF Fault

LEMMA TakeRowStep ==
  ASSUME IndInv, NEW w \in Publishers, TakeRow(w)
  PROVE  IndInv'
<1> DEFINE p == Head(pub[w].rows)
           r == [pc |-> IF p \in Unpublishable THEN "row" ELSE "append",
                 after |-> decision[p].seq, rows |-> Tail(pub[w].rows), prop |-> p, done |-> <<>>]
<1>1. pub[w].rows \in Seq(Proposals) /\ pub[w].rows # <<>>
  BY PassFields DEF IndInv, TakeRow
<1>2. p \in Proposals /\ p = pub[w].rows[1] /\ 1 \in DOMAIN pub[w].rows
  BY <1>1
<1>3. Approved(p)
  BY <1>2 DEF IndInv, PubInv, PubOK
<1>4. decision[p].seq \in Nat /\ decision[p].req.groups \in Nat /\ decision[p].req.groups > 0
  BY <1>2, <1>3, DecisionFields DEF Approved, IndInv, StoreInv, TypeOK, Rows
<1>5. Tail(pub[w].rows) \in Seq(Proposals)
      /\ \A i \in DOMAIN Tail(pub[w].rows) :
           i+1 \in DOMAIN pub[w].rows /\ Tail(pub[w].rows)[i] = pub[w].rows[i+1]
  BY <1>1
<1>6. pub' = [pub EXCEPT ![w] = r] /\ UNCHANGED <<authority, recordlog, won>>
  BY DEF TakeRow
<1> HIDE DEF p
<1>7. r \in Passes
  BY <1>2, <1>4, <1>5 DEF Passes, Steps
<1>8. pub'[w] = r
  BY <1>6 DEF IndInv, TypeOK
<1>9. r.pc \in {"row", "append"} /\ r.rows = Tail(pub[w].rows) /\ r.prop = p /\ r.done = <<>>
  OBVIOUS
<1> HIDE DEF r
<1>10. \A i \in DOMAIN r.rows : Approved(r.rows[i])
  BY <1>5, <1>9 DEF IndInv, PubInv, PubOK
<1>11. (\A i \in DOMAIN pub[w].rows : Approved(pub[w].rows[i]))'
  BY <1>6, <1>8, <1>10 DEF Approved, Decided, authority
<1>12. Prop(w)' \in Proposals /\ Approved(Prop(w))' /\ decision'[Prop(w)'].req.groups \in Nat
       /\ decision'[Prop(w)'].req.groups > 0
  BY <1>2, <1>3, <1>4, <1>6, <1>8, <1>9 DEF Prop, Approved, Decided, authority
<1>13. PubOK(w)'
  BY <1>8, <1>9, <1>11, <1>12 DEF PubOK, At, Working
<1>14. lock' = lock /\ lock' \in Publishers \cup {None}
  BY <1>6 DEF recordlog, IndInv, TypeOK
<1>15. UNCHANGED <<authority, log, signed, won>>
  BY <1>6 DEF recordlog
<1>16. QED
  BY <1>6, <1>7, <1>13, <1>14, <1>15, PassOnly

LEMMA BeginAppendStep ==
  ASSUME IndInv, NEW w \in Publishers, BeginAppend(w)
  PROVE  IndInv'
<1> DEFINE pc == IF Recorded(Prop(w), Group(w)) THEN "signing" ELSE "creating"
           r == [pub[w] EXCEPT !.pc = pc]
<1>1. pub' = [pub EXCEPT ![w] = r] /\ At(w, "append") /\ lock = None
      /\ UNCHANGED <<authority, log, signed, won>>
      /\ lock' = IF Recorded(Prop(w), Group(w)) THEN lock ELSE w
  BY DEF BeginAppend, Goto, Recorded, Entry
<1>2. pub[w] \in Passes
  BY PassFields DEF IndInv
<1>3. r \in Passes /\ r.pc = pc /\ r.rows = pub[w].rows /\ r.prop = pub[w].prop /\ r.done = pub[w].done
  BY <1>2 DEF Passes, Steps
<1>4. pc \in {"signing", "creating"}
  OBVIOUS
<1> HIDE DEF r
<1>5. pub'[w] = r
  BY <1>1 DEF IndInv, TypeOK
<1>6. Prop(w)' = Prop(w) /\ Group(w)' = Group(w)
  BY <1>3, <1>5 DEF Prop, Group
<1>7. pub[w].pc = "append" /\ PubOK(w)
  BY <1>1 DEF At, IndInv, PubInv
<1>8. (\A i \in DOMAIN pub[w].rows : Approved(pub[w].rows[i]))'
  BY <1>1, <1>3, <1>5, <1>7 DEF Approved, Decided, authority, PubOK
<1>9. (/\ Prop(w) \in Proposals
       /\ Approved(Prop(w))
       /\ Len(pub[w].done) <= decision[Prop(w)].req.groups
       /\ Len(pub[w].done) < decision[Prop(w)].req.groups
       /\ \A g \in DOMAIN pub[w].done :
            pub[w].done[g] \in signed /\ log[pub[w].done[g]] = <<Prop(w), g>>)'
  <2>1. /\ Prop(w) \in Proposals
        /\ Approved(Prop(w))
        /\ Len(pub[w].done) <= decision[Prop(w)].req.groups
        /\ Len(pub[w].done) < decision[Prop(w)].req.groups
        /\ \A g \in DOMAIN pub[w].done :
             pub[w].done[g] \in signed /\ log[pub[w].done[g]] = <<Prop(w), g>>
    BY <1>7 DEF PubOK, Working
  <2>2. pub'[w].done = pub[w].done /\ decision' = decision /\ signed' = signed /\ log' = log
    BY <1>1, <1>3, <1>5 DEF authority
  <2>3. QED
    BY <1>6, <2>1, <2>2 DEF Approved, Decided
<1>10. (At(w, "creating") => lock = w /\ ~Recorded(Prop(w), Group(w)))'
  BY <1>1, <1>3, <1>5, <1>6 DEF At, Recorded
<1>11. (At(w, "signing") => Recorded(Prop(w), Group(w)))'
  BY <1>1, <1>3, <1>5, <1>6 DEF At, Recorded
<1>12. ~At(w, "receipt")'
  BY <1>3, <1>4, <1>5 DEF At
<1>13. PubOK(w)'
  BY <1>8, <1>9, <1>10, <1>11, <1>12 DEF PubOK
<1>14. lock' \in Publishers \cup {None} /\ (lock' = lock \/ lock = None)
  BY <1>1
<1>15. QED
  BY <1>1, <1>3, <1>13, <1>14, PassOnly

-----------------------------------------------------------------------------
(* The steps that write the record log. *)

\* A step that writes the databases and one publisher's memory.
LEMMA PubOthers ==
  ASSUME IndInv, Grows, NEW w \in Publishers, NEW r, pub' = [pub EXCEPT ![w] = r],
         \A v \in Publishers : v # w /\ At(v, "creating") => lock' = lock /\ log' = log,
         PubOK(w)'
  PROVE  PubInv'
<1>1. ASSUME NEW v \in Publishers, v # w PROVE PubOK(v)'
  <2>1. pub'[v] = pub[v] /\ PubOK(v)
    BY <1>1 DEF IndInv, TypeOK, PubInv
  <2>2. QED
    BY <1>1, <2>1, PubFrame DEF IndInv
<1>2. QED
  BY <1>1 DEF PubInv

LEMMA CommitAppendStep ==
  ASSUME IndInv, NEW w \in Publishers, CommitAppend(w)
  PROVE  IndInv'
<1> DEFINE p == Prop(w)
           g == Group(w)
           r == [pub[w] EXCEPT !.pc = "signing"]
<1>1. /\ pub[w].pc = "creating" /\ log' = Append(log, <<p, g>>) /\ lock' = None
      /\ pub' = [pub EXCEPT ![w] = r] /\ UNCHANGED <<authority, signed, won>>
  BY DEF CommitAppend, At, Goto, Entry
<1>2. TypeOK /\ StoreInv /\ PubOK(w)
  BY DEF IndInv, PubInv
<1>3. pub[w] \in Passes /\ pub[w].done \in Seq(Nat)
  BY <1>2, PassFields
<1>4. r \in Passes /\ r.pc = "signing" /\ r.rows = pub[w].rows /\ r.prop = pub[w].prop
      /\ r.done = pub[w].done
  BY <1>3 DEF Passes, Steps
<1> HIDE DEF r
<1>5. pub'[w] = r
  BY <1>1, <1>2 DEF TypeOK
<1>6. /\ p \in Proposals /\ Approved(p) /\ lock = w /\ ~Recorded(p, g)
      /\ Len(pub[w].done) < decision[p].req.groups
      /\ \A h \in DOMAIN pub[w].done :
           pub[w].done[h] \in signed /\ log[pub[w].done[h]] = <<p, h>>
  BY <1>1, <1>2 DEF PubOK, At, Working
<1>7. decision[p].req.groups \in 0..MaxGroups /\ g \in Nat /\ g > 0
  <2>1. decision[p].req.groups \in 0..MaxGroups
    BY <1>2, <1>6, DecisionFields DEF Approved, StoreInv
  <2>2. Len(pub[w].done) \in Nat
    BY <1>3
  <2>3. QED
    BY <2>1, <2>2 DEF Group
<1>8. g \in Chosen(p) /\ g \in Groups
  BY <1>3, <1>6, <1>7, ConstantsAssumption DEF Chosen, Groups, Group
<1> HIDE DEF p, g
<1>9. /\ log \in Seq(Proposals \X Groups) /\ signed \subseteq DOMAIN log
      /\ log' \in Seq(Proposals \X Groups)
      /\ DOMAIN log = 1..Len(log) /\ Len(log) \in Nat
      /\ DOMAIN log' = 1..Len(log)+1
      /\ log'[Len(log)+1] = <<p, g>>
      /\ \A i \in DOMAIN log : log'[i] = log[i]
  <2>1. log \in Seq(Proposals \X Groups) /\ signed \subseteq DOMAIN log
    BY <1>2 DEF TypeOK
  <2>2. <<p, g>> \in Proposals \X Groups
    BY <1>6, <1>8
  <2> DEFINE e == <<p, g>>
  <2> HIDE DEF e
  <2>3. e \in Proposals \X Groups /\ log' = Append(log, e)
    BY <1>1, <2>2 DEF e
  <2>4. /\ log' \in Seq(Proposals \X Groups)
        /\ DOMAIN log = 1..Len(log) /\ Len(log) \in Nat
        /\ DOMAIN log' = 1..Len(log)+1
        /\ log'[Len(log)+1] = e
        /\ \A i \in DOMAIN log : log'[i] = log[i]
    BY <2>1, <2>3
  <2>5. QED
    BY <2>1, <2>4 DEF e
<1>10. Grows
  BY <1>1, <1>9 DEF Grows, Decided, authority
<1>11. TypeOK'
  <2>1. pub' \in [Publishers -> Passes] /\ lock' \in Publishers \cup {None}
    BY <1>1, <1>2, <1>4 DEF TypeOK
  <2>2. signed' \subseteq DOMAIN log'
    BY <1>1, <1>9
  <2>3. QED
    BY <1>1, <1>2, <1>9, <2>1, <2>2 DEF TypeOK, authority
<1>12. OneRecordPerGroup'
  <2>1. ASSUME NEW i \in DOMAIN log', NEW j \in DOMAIN log', log'[i] = log'[j] PROVE i = j
    <3>1. CASE i \in DOMAIN log /\ j \in DOMAIN log
      BY <1>2, <1>9, <2>1, <3>1 DEF StoreInv, OneRecordPerGroup
    <3>2. \A h \in DOMAIN log : log'[h] # <<p, g>>
      BY <1>6, <1>9 DEF Recorded
    <3>3. CASE i = Len(log)+1 \/ j = Len(log)+1
      <4>1. log'[i] = <<p, g>> /\ log'[j] = <<p, g>>
        BY <1>9, <2>1, <3>3
      <4>2. i \notin DOMAIN log /\ j \notin DOMAIN log
        BY <3>2, <4>1
      <4> QED
        BY <1>9, <2>1, <4>2
    <3>4. QED
      BY <1>9, <3>1, <3>3
  <2>2. QED
    BY <2>1 DEF OneRecordPerGroup
<1>13. OnlyApprovedRecorded'
  <2>1. ASSUME NEW i \in DOMAIN log'
        PROVE  /\ Approved(log'[i][1]) /\ log'[i][2] \in Chosen(log'[i][1])
               /\ box[log'[i][1]] = "staged"
    <3>1. CASE i \in DOMAIN log
      BY <1>2, <1>9, <3>1 DEF StoreInv, OnlyApprovedRecorded
    <3>2. CASE i = Len(log)+1
      BY <1>2, <1>6, <1>8, <1>9, <3>2 DEF StoreInv, DecisionsShaped, Approved
    <3>3. QED
      BY <1>9, <3>1, <3>2
  <2>2. QED
    BY <1>1, <2>1 DEF OnlyApprovedRecorded, Approved, Decided, Chosen, authority
<1>14. ReceiptComplete'
  <2>1. ASSUME NEW q \in Proposals, Published(q)
        PROVE  \A h \in Chosen(q) : log'[decision[q].receipt[h]] = <<q, h>>
    BY <1>2, <1>9, <2>1 DEF StoreInv, ReceiptComplete
  <2>2. QED
    BY <1>1, <1>2, <2>1 DEF StoreInv, ReceiptComplete, Published, Approved, Decided, Chosen, authority
<1>15. DecisionsShaped' /\ HooksOncePerRecord'
  BY <1>1, <1>2 DEF StoreInv, DecisionsShaped, HooksOncePerRecord, Published, Chosen, Decided, authority
<1>16. Prop(w)' = p /\ Group(w)' = g
  BY <1>4, <1>5 DEF Prop, Group, p, g
<1>17. PubOK(w)'
  <2>1. (\A i \in DOMAIN pub[w].rows : Approved(pub[w].rows[i]))'
    BY <1>1, <1>2, <1>4, <1>5 DEF PubOK, Approved, Decided, authority
  <2>2. Approved(Prop(w))' /\ decision'[Prop(w)'].req.groups = decision[p].req.groups
    BY <1>1, <1>6, <1>16 DEF Approved, Decided, authority
  <2>3. \A h \in DOMAIN pub[w].done : pub[w].done[h] \in signed' /\ log'[pub[w].done[h]] = <<p, h>>
    BY <1>1, <1>6, <1>9
  <2>4. \E i \in DOMAIN log' : log'[i] = <<p, g>>
    BY <1>9
  <2>5. Len(pub[w].done) <= decision[p].req.groups /\ Len(pub[w].done) < decision[p].req.groups
    BY <1>3, <1>6, <1>7
  <2>6. (/\ Prop(w) \in Proposals /\ Approved(Prop(w))
         /\ Len(pub[w].done) <= decision[Prop(w)].req.groups
         /\ Len(pub[w].done) < decision[Prop(w)].req.groups
         /\ \A h \in DOMAIN pub[w].done :
              pub[w].done[h] \in signed /\ log[pub[w].done[h]] = <<Prop(w), h>>)'
    BY <1>4, <1>5, <1>6, <1>16, <2>2, <2>3, <2>5
  <2>7. (At(w, "signing") => Recorded(Prop(w), Group(w)))'
    BY <1>16, <2>4 DEF Recorded
  <2>8. ~At(w, "creating")' /\ ~At(w, "receipt")'
    BY <1>4, <1>5 DEF At
  <2>9. QED
    BY <2>1, <2>6, <2>7, <2>8 DEF PubOK
<1>18. PubInv'
  <2>1. ASSUME NEW v \in Publishers, v # w, At(v, "creating") PROVE FALSE
    BY <1>6, <2>1 DEF IndInv, PubInv, PubOK
  <2>2. QED
    BY <1>1, <1>10, <1>17, <2>1, PubOthers
<1>19. WinnersDecided' /\ CommandDecidesOnce'
  BY <1>1, RequestFrame DEF IndInv, authority, Decided
<1>20. QED
  BY <1>11, <1>12, <1>13, <1>14, <1>15, <1>18, <1>19 DEF IndInv, StoreInv

LEMMA Appended ==
  ASSUME NEW s \in Seq(Nat), NEW i \in Nat
  PROVE  /\ Append(s, i) \in Seq(Nat) /\ DOMAIN Append(s, i) = 1..Len(s)+1
         /\ Len(Append(s, i)) = Len(s) + 1 /\ Len(s) \in Nat
         /\ DOMAIN s = 1..Len(s)
         /\ Append(s, i)[Len(s)+1] = i
         /\ \A h \in DOMAIN s : Append(s, i)[h] = s[h]
OBVIOUS

LEMMA StoreSignedStep ==
  ASSUME IndInv, NEW w \in Publishers, StoreSigned(w)
  PROVE  IndInv'
<1> DEFINE p == Prop(w)
           g == Group(w)
           n == decision[p].req.groups
           pc == IF g = n THEN "receipt" ELSE "append"
<1>1. PICK i \in DOMAIN log :
        /\ log[i] = <<p, g>>
        /\ signed' = signed \cup {i}
        /\ pub' = [pub EXCEPT ![w].done = Append(@, i), ![w].pc = pc]
  BY DEF StoreSigned, Entry
<1>2. pub[w].pc = "signing" /\ UNCHANGED <<authority, log, lock, won>>
  BY DEF StoreSigned, At
<1>3. TypeOK /\ StoreInv /\ PubOK(w)
  BY DEF IndInv, PubInv
<1>4. pub[w] \in Passes /\ pub[w].done \in Seq(Nat)
  BY <1>3, PassFields
<1>5. log \in Seq(Proposals \X Groups) /\ i \in Nat
  BY <1>3 DEF TypeOK
<1> DEFINE done == Append(pub[w].done, i)
           r == [pub[w] EXCEPT !.done = done, !.pc = pc]
<1>6. /\ done \in Seq(Nat) /\ DOMAIN done = 1..Len(pub[w].done)+1
      /\ Len(done) = Len(pub[w].done) + 1 /\ Len(pub[w].done) \in Nat
      /\ DOMAIN pub[w].done = 1..Len(pub[w].done)
      /\ done[Len(pub[w].done)+1] = i
      /\ \A h \in DOMAIN pub[w].done : done[h] = pub[w].done[h]
  BY <1>4, <1>5, Appended
<1>7. pub' = [pub EXCEPT ![w] = r]
  BY <1>1, <1>3 DEF TypeOK
<1>8. /\ p \in Proposals /\ Approved(p) /\ Len(pub[w].done) < n
      /\ \A h \in DOMAIN pub[w].done :
           pub[w].done[h] \in signed /\ log[pub[w].done[h]] = <<p, h>>
  BY <1>2, <1>3 DEF PubOK, Working
<1>9. n \in Nat
  <2>1. n \in 0..MaxGroups
    BY <1>3, <1>8, DecisionFields DEF Approved, StoreInv
  <2>2. QED
    BY <2>1, ConstantsAssumption
<1>10. Len(done) = g /\ g \in Nat /\ g <= n
  BY <1>6, <1>8, <1>9 DEF Group
<1>11. pc \in {"receipt", "append"} /\ (pc = "receipt" <=> g = n)
  OBVIOUS
<1> HIDE DEF done
<1>12. r \in Passes /\ r.pc = pc /\ r.rows = pub[w].rows /\ r.prop = pub[w].prop /\ r.done = done
  BY <1>4, <1>6, <1>11 DEF Passes, Steps
<1> HIDE DEF p, g, n, pc, r
<1>13. pub'[w] = r
  BY <1>3, <1>7 DEF TypeOK
<1>14. Prop(w)' = p /\ decision'[p].req.groups = n
  BY <1>2, <1>12, <1>13 DEF Prop, authority, p, n
<1>15. Grows
  BY <1>1, <1>2 DEF Grows, Decided, authority
<1>16. TypeOK'
  <2>1. pub' \in [Publishers -> Passes]
    BY <1>3, <1>7, <1>12 DEF TypeOK
  <2>2. signed' \subseteq DOMAIN log'
    BY <1>1, <1>2, <1>3 DEF TypeOK
  <2>3. QED
    BY <1>2, <1>3, <2>1, <2>2 DEF TypeOK, authority
<1>17. ReceiptComplete'
  BY <1>1, <1>2, <1>3 DEF StoreInv, ReceiptComplete, Published, Approved, Decided, Chosen, authority
<1>18. DecisionsShaped' /\ OneRecordPerGroup' /\ OnlyApprovedRecorded' /\ HooksOncePerRecord'
  BY <1>2, <1>3 DEF StoreInv, DecisionsShaped, OneRecordPerGroup, OnlyApprovedRecorded,
                    HooksOncePerRecord, Published, Approved, Decided, Chosen, authority
<1>19. PubOK(w)'
  <2>1. (\A k \in DOMAIN pub[w].rows : Approved(pub[w].rows[k]))'
    BY <1>2, <1>3, <1>12, <1>13 DEF PubOK, Approved, Decided, authority
  <2>2. Approved(Prop(w))'
    BY <1>2, <1>8, <1>14 DEF Approved, Decided, authority
  <2>3. ASSUME NEW h \in DOMAIN done
        PROVE  done[h] \in signed' /\ log'[done[h]] = <<p, h>>
    <3>1. CASE h \in DOMAIN pub[w].done
      BY <1>1, <1>2, <1>6, <1>8, <3>1
    <3>2. CASE h = Len(pub[w].done) + 1
      BY <1>1, <1>2, <1>6, <1>10, <3>2
    <3>3. QED
      BY <1>6, <2>3, <3>1, <3>2
  <2>4. (/\ Prop(w) \in Proposals /\ Approved(Prop(w))
         /\ Len(pub[w].done) <= decision[Prop(w)].req.groups
         /\ \A h \in DOMAIN pub[w].done :
              pub[w].done[h] \in signed /\ log[pub[w].done[h]] = <<Prop(w), h>>)'
    BY <1>8, <1>10, <1>12, <1>13, <1>14, <2>2, <2>3
  <2>5. (pub[w].pc \in Working \ {"receipt"} => Len(pub[w].done) < decision[Prop(w)].req.groups)'
    BY <1>9, <1>10, <1>11, <1>12, <1>13, <1>14
  <2>6. (At(w, "receipt") => Len(pub[w].done) = decision[Prop(w)].req.groups)'
    BY <1>10, <1>11, <1>12, <1>13, <1>14 DEF At
  <2>7. ~At(w, "creating")' /\ ~At(w, "signing")'
    BY <1>11, <1>12, <1>13 DEF At
  <2>8. QED
    BY <2>1, <2>4, <2>5, <2>6, <2>7 DEF PubOK
<1>20. PubInv'
  BY <1>2, <1>7, <1>15, <1>19, PubOthers
<1>21. WinnersDecided' /\ CommandDecidesOnce'
  BY <1>2, <1>3, RequestFrame DEF IndInv, authority, Decided
<1>22. QED
  BY <1>16, <1>17, <1>18, <1>20, <1>21 DEF IndInv, StoreInv

-----------------------------------------------------------------------------
(* The step that writes the receipt. *)

LEMMA WriteReceiptStep ==
  ASSUME IndInv, NEW w \in Publishers, WriteReceipt(w)
  PROVE  IndInv'
<1> DEFINE p == Prop(w)
           done == pub[w].done
           r == [pub[w] EXCEPT !.pc = "row", !.done = <<>>]
<1>1. TypeOK /\ StoreInv /\ PubOK(w)
  BY DEF IndInv, PubInv
<1>2. pub[w] \in Passes /\ done \in Seq(Nat) /\ <<>> \in Seq(Nat)
  BY <1>1, PassFields
<1>3. r \in Passes /\ r.pc = "row" /\ r.rows = pub[w].rows
  BY <1>2 DEF Passes, Steps
<1>4. pub[w].pc = "receipt" /\ pub' = [pub EXCEPT ![w] = r] /\ UNCHANGED <<box, member, recordlog, won>>
  BY DEF WriteReceipt, At, NextRow
<1>5. CASE Published(p)
  <2>1. r.pc \notin Working
    BY <1>3 DEF Working
  <2>2. UNCHANGED <<authority, log, signed, won>> /\ lock' = lock
    BY <1>4, <1>5 DEF WriteReceipt, authority, recordlog
  <2> HIDE DEF r
  <2>3. QED
    BY <1>3, <1>4, <2>1, <2>2, DropStep
<1>6. CASE ~Published(p)
  <2>1. /\ decision' = [decision EXCEPT ![p].receipt = done]
        /\ runs' = [runs EXCEPT ![p] = [g \in Groups |-> IF g \in Chosen(p) THEN @[g] + 1 ELSE @[g]]]
    BY <1>6 DEF WriteReceipt
  <2>2. /\ p \in Proposals /\ Approved(p) /\ Len(done) = decision[p].req.groups
        /\ \A h \in DOMAIN done : done[h] \in signed /\ log[done[h]] = <<p, h>>
    BY <1>1, <1>4 DEF PubOK, At, Working
  <2>3. /\ decision[p].req.groups \in Nat /\ decision[p].req.groups > 0 /\ Chosen(p) \subseteq Groups
        /\ decision \in [Proposals -> Rows] /\ runs \in [Proposals -> [Groups -> Nat]]
    BY <1>1, <2>2, DecisionFields DEF Approved, StoreInv, TypeOK
  <2>4. DOMAIN done = Chosen(p) /\ done # <<>>
    BY <1>2, <2>2, <2>3 DEF Chosen
  <2> HIDE DEF p, done, r
  <2>5. /\ decision' \in [Proposals -> Rows]
        /\ decision'[p].receipt = done
        /\ \A q \in Proposals :
             /\ decision'[q].req = decision[q].req /\ decision'[q].seq = decision[q].seq
             /\ q # p => decision'[q] = decision[q]
    BY <1>2, <2>1, <2>2, <2>3 DEF Rows
  <2>6. /\ runs' \in [Proposals -> [Groups -> Nat]]
        /\ \A g \in Groups : runs'[p][g] = IF g \in Chosen(p) THEN runs[p][g] + 1 ELSE runs[p][g]
        /\ \A q \in Proposals : q # p => runs'[q] = runs[q]
    BY <2>1, <2>2, <2>3
  <2>7. \A q \in Proposals :
          /\ Decided(q)' <=> Decided(q)
          /\ Approved(q)' <=> Approved(q)
          /\ Chosen(q)' = Chosen(q)
          /\ Published(q)' <=> Published(q) \/ q = p
    BY <2>4, <2>5 DEF Decided, Approved, Chosen, Published
  <2>8. Grows
    BY <1>4, <2>5, <2>7 DEF Grows, recordlog
  <2>9. TypeOK'
    <3>1. pub' \in [Publishers -> Passes]
      BY <1>1, <1>3, <1>4 DEF TypeOK
    <3>2. QED
      BY <1>1, <1>4, <2>5, <2>6, <3>1 DEF TypeOK, recordlog
  <2>10. DecisionsShaped'
    <3>1. ASSUME NEW q \in Proposals, ~Decided(q) PROVE decision'[q] = decision[q]
      BY <2>2, <2>5, <3>1 DEF Approved
    <3>2. QED
      BY <1>1, <1>4, <2>5, <2>7, <3>1 DEF StoreInv, DecisionsShaped
  <2>11. OneRecordPerGroup'
    BY <1>1, <1>4 DEF StoreInv, OneRecordPerGroup, recordlog
  <2>12. OnlyApprovedRecorded'
    <3>1. \A i \in DOMAIN log : log[i][1] \in Proposals
      BY <1>1 DEF TypeOK
    <3>2. log' = log /\ box' = box
      BY <1>4 DEF recordlog
    <3>3. QED
      BY <1>1, <2>7, <3>1, <3>2 DEF StoreInv, OnlyApprovedRecorded
  <2>13. ReceiptComplete'
    <3>1. log' = log /\ signed' = signed
      BY <1>4 DEF recordlog
    <3>2. ASSUME NEW q \in Proposals, Published(q)'
          PROVE  /\ Approved(q) /\ Len(decision'[q].receipt) = decision[q].req.groups
                 /\ \A g \in Chosen(q) : decision'[q].receipt[g] \in signed
                                         /\ log[decision'[q].receipt[g]] = <<q, g>>
      <4>1. CASE q = p
        BY <2>2, <2>4, <2>5, <4>1
      <4>2. CASE q # p
        BY <1>1, <2>5, <2>7, <3>2, <4>2 DEF StoreInv, ReceiptComplete
      <4>3. QED
        BY <4>1, <4>2
    <3>3. QED
      BY <2>5, <2>7, <3>1, <3>2 DEF ReceiptComplete
  <2>14. HooksOncePerRecord'
    <3>1. ASSUME NEW q \in Proposals, NEW g \in Groups
          PROVE  runs'[q][g] = IF Published(q)' /\ g \in Chosen(q) THEN 1 ELSE 0
      <4>1. runs[q][g] = IF Published(q) /\ g \in Chosen(q) THEN 1 ELSE 0
        BY <1>1 DEF StoreInv, HooksOncePerRecord
      <4>2. CASE q = p
        BY <1>6, <2>6, <2>7, <4>1, <4>2 DEF p
      <4>3. CASE q # p
        BY <2>6, <2>7, <4>1, <4>3
      <4>4. QED
        BY <4>2, <4>3
    <3>2. QED
      BY <2>7, <3>1 DEF HooksOncePerRecord
  <2>15. PubOK(w)'
    <3>1. pub'[w] = r
      BY <1>1, <1>4 DEF TypeOK
    <3>2. \A i \in DOMAIN r.rows : r.rows[i] \in Proposals /\ Approved(r.rows[i])
      BY <1>1, <1>2, <1>3 DEF PubOK, Passes
    <3>3. (\A i \in DOMAIN pub[w].rows : Approved(pub[w].rows[i]))'
      BY <2>5, <2>7, <3>1, <3>2 DEF Approved, Decided
    <3>4. QED
      BY <1>3, <3>1, <3>3, PubQuiet DEF Working
  <2>16. PubInv'
    <3>1. lock' = lock /\ log' = log
      BY <1>4 DEF recordlog
    <3>2. QED
      BY <1>4, <2>8, <2>15, <3>1, PubOthers
  <2>17. WinnersDecided' /\ CommandDecidesOnce'
    BY <1>4, <2>5, <2>7, RequestFrame DEF IndInv
  <2>18. QED
    BY <2>9, <2>10, <2>11, <2>12, <2>13, <2>14, <2>16, <2>17 DEF IndInv, StoreInv
<1>7. QED
  BY <1>5, <1>6

-----------------------------------------------------------------------------
(* The steps of proposals, requests and membership. *)

\* A step of the Authority that no publisher takes part in.
LEMMA PubIdleFrame ==
  ASSUME IndInv, Grows, UNCHANGED <<pub, recordlog>>
  PROVE  PubInv'
<1>1. ASSUME NEW v \in Publishers PROVE PubOK(v)'
  BY <1>1, PubFrame DEF IndInv, PubInv, recordlog
<1>2. QED
  BY <1>1 DEF PubInv

LEMMA ProposalStep ==
  ASSUME IndInv, NEW p \in Proposals, Freeze(p) \/ Supersede(p)
  PROVE  IndInv'
<1>1. /\ UNCHANGED <<member, decision, runs, recordlog, pub, won>>
      /\ \E b \in Boxes : box' = [box EXCEPT ![p] = b]
  BY DEF Freeze, Supersede, Boxes
<1>2. ~Decided(p)
  BY DEF Freeze, Supersede, IndInv, StoreInv, DecisionsShaped
<1>3. TypeOK'
  BY <1>1 DEF IndInv, TypeOK, recordlog
<1>4. \A q \in Proposals : q # p => box'[q] = box[q]
  BY <1>1 DEF IndInv, TypeOK
<1>5. DecisionsShaped'
  BY <1>1, <1>2, <1>4 DEF IndInv, StoreInv, DecisionsShaped, Decided
<1>6. OnlyApprovedRecorded'
  <2>1. \A i \in DOMAIN log : log[i][1] \in Proposals
    BY DEF IndInv, TypeOK
  <2>2. \A i \in DOMAIN log : log[i][1] # p
    BY <1>2 DEF IndInv, StoreInv, OnlyApprovedRecorded, Approved
  <2>3. QED
    BY <1>1, <1>4, <2>1, <2>2 DEF IndInv, StoreInv, OnlyApprovedRecorded, Approved, Decided,
                                  Chosen, recordlog
<1>7. OneRecordPerGroup' /\ ReceiptComplete' /\ HooksOncePerRecord'
  BY <1>1 DEF IndInv, StoreInv, OneRecordPerGroup, ReceiptComplete, HooksOncePerRecord,
              Published, Approved, Decided, Chosen, recordlog
<1>8. PubInv'
  BY <1>1, PubIdleFrame DEF Grows, Decided, recordlog
<1>9. WinnersDecided' /\ CommandDecidesOnce'
  BY <1>1, RequestFrame DEF IndInv, Decided
<1>10. QED
  BY <1>3, <1>5, <1>6, <1>7, <1>8, <1>9 DEF IndInv, StoreInv

LEMMA RevokeStep ==
  ASSUME IndInv, RevokeMember
  PROVE  IndInv'
<1>1. member' \in BOOLEAN /\ UNCHANGED <<box, decision, runs, recordlog, pub, won>>
  BY DEF RevokeMember
<1>2. StoreInv' /\ Grows
  BY <1>1, StoreFrame DEF IndInv, recordlog
<1>3. PubInv'
  BY <1>1, <1>2, PubIdleFrame
<1>4. TypeOK'
  BY <1>1 DEF IndInv, TypeOK, recordlog
<1>5. WinnersDecided' /\ CommandDecidesOnce'
  BY <1>1, RequestFrame DEF IndInv, Decided
<1>6. QED
  BY <1>2, <1>3, <1>4, <1>5 DEF IndInv

\* Only an undecided staged proposal is decided, by a command not used before.
LEMMA DecideStep ==
  ASSUME IndInv, NEW q \in Requests, Decide(q)
  PROVE  IndInv'
<1> DEFINE p == q.prop
<1>1. TypeOK /\ StoreInv /\ WinnersDecided /\ CommandDecidesOnce
  BY DEF IndInv
<1>2. p \in Proposals /\ q.groups \in Nat
  BY ConstantsAssumption DEF Requests
<1>3. UNCHANGED <<box, member, runs, recordlog, pub>>
  BY DEF Decide
<1>4. CASE Answer(q) = "decided"
  <2> DEFINE row == [req |-> q, seq |-> NextSequence, receipt |-> <<>>]
  <2>1. decision' = [decision EXCEPT ![p] = row] /\ won' = won \cup {q}
    BY <1>4 DEF Decide
  <2>2. /\ box[p] = "staged" /\ ~Decided(p)
        /\ \A o \in Proposals : Decided(o) => decision[o].req.cmd # q.cmd
    BY <1>4 DEF Answer
  <2>3. row \in Rows /\ row.req = q /\ row.seq # 0 /\ row.receipt = <<>>
    BY NextSequenceType DEF Rows
  <2> HIDE DEF p, row
  <2>4. decision' \in [Proposals -> Rows] /\ decision'[p] = row
        /\ \A o \in Proposals : o # p => decision'[o] = decision[o]
    BY <1>1, <1>2, <2>1, <2>3 DEF TypeOK
  <2>5. decision[p].receipt = <<>> /\ decision[p].req = None
    BY <1>1, <1>2, <2>2 DEF StoreInv, DecisionsShaped, Undecided
  <2>6. \A o \in Proposals :
          /\ Decided(o)' <=> Decided(o) \/ o = p
          /\ Published(o)' <=> Published(o)
          /\ decision'[o].receipt = decision[o].receipt
          /\ o # p => /\ Approved(o)' <=> Approved(o)
                      /\ Chosen(o)' = Chosen(o)
    BY <2>3, <2>4, <2>5 DEF Decided, Published, Approved, Chosen
  <2>7. Grows
    BY <1>3, <2>2, <2>4, <2>6 DEF Grows, recordlog
  <2>8. TypeOK'
    BY <1>1, <1>3, <2>1, <2>4 DEF TypeOK, recordlog
  <2>9. DecisionsShaped'
    BY <1>1, <1>3, <2>2, <2>3, <2>4, <2>6 DEF StoreInv, DecisionsShaped, p
  <2>10. OneRecordPerGroup'
    BY <1>1, <1>3 DEF StoreInv, OneRecordPerGroup, recordlog
  <2>11. OnlyApprovedRecorded'
    <3>1. \A i \in DOMAIN log : log[i][1] \in Proposals /\ log[i][1] # p
      BY <1>1, <2>2 DEF TypeOK, StoreInv, OnlyApprovedRecorded, Approved
    <3>2. QED
      BY <1>1, <1>3, <2>6, <3>1 DEF StoreInv, OnlyApprovedRecorded, recordlog
  <2>12. ReceiptComplete'
    <3>1. ASSUME NEW o \in Proposals, Published(o) PROVE o # p
      BY <2>5, <3>1 DEF Published
    <3>2. \A o \in Proposals : o # p => decision'[o].req = decision[o].req
      BY <2>4
    <3>3. QED
      BY <1>1, <1>3, <2>6, <3>1, <3>2 DEF StoreInv, ReceiptComplete, recordlog
  <2>13. HooksOncePerRecord'
    <3>1. \A o \in Proposals : Published(o) => o # p
      BY <2>5 DEF Published
    <3>2. QED
      BY <1>1, <1>3, <2>6, <3>1 DEF StoreInv, HooksOncePerRecord
  <2>14. PubInv'
    BY <1>3, <2>7, PubIdleFrame
  <2>15. WinnersDecided'
    <3>1. ASSUME NEW o \in won PROVE decision'[o.prop].req = o
      <4>1. o \in Requests /\ o.prop \in Proposals /\ decision[o.prop].req = o
        BY <1>1 DEF TypeOK, Requests, WinnersDecided
      <4>2. o # None
        BY <4>1, ConstantsAssumption DEF Requests
      <4>3. o.prop # p
        BY <2>5, <4>1, <4>2
      <4>4. QED
        BY <2>4, <4>1, <4>3
    <3>2. decision'[q.prop].req = q
      BY <2>3, <2>4 DEF p
    <3>3. QED
      BY <2>1, <3>1, <3>2 DEF WinnersDecided
  <2>16. CommandDecidesOnce'
    <3>1. ASSUME NEW a \in Proposals, NEW b \in Proposals, Decided(a)', Decided(b)',
                 decision'[a].req.cmd = decision'[b].req.cmd
          PROVE  a = b
      <4>1. CASE a # p /\ b # p
        BY <1>1, <2>4, <2>6, <3>1, <4>1 DEF CommandDecidesOnce
      <4>2. CASE a = p /\ b # p
        BY <2>2, <2>3, <2>4, <2>6, <3>1, <4>2
      <4>3. CASE b = p /\ a # p
        BY <2>2, <2>3, <2>4, <2>6, <3>1, <4>3
      <4>4. QED
        BY <4>1, <4>2, <4>3
    <3>2. QED
      BY <3>1 DEF CommandDecidesOnce
  <2>17. QED
    BY <2>8, <2>9, <2>10, <2>11, <2>12, <2>13, <2>14, <2>15, <2>16 DEF IndInv, StoreInv
<1>5. CASE Answer(q) # "decided"
  <2>1. decision' = decision
    BY <1>5 DEF Decide
  <2>2. StoreInv' /\ Grows
    BY <1>1, <1>3, <2>1, StoreFrame DEF recordlog
  <2>3. PubInv'
    BY <1>3, <2>2, PubIdleFrame
  <2>4. won' = won \/ (won' = won \cup {q} /\ decision[p].req = q)
    BY <1>5 DEF Decide, Answer
  <2>5. WinnersDecided' /\ CommandDecidesOnce'
    BY <1>1, <2>1, <2>4 DEF WinnersDecided, CommandDecidesOnce, Decided
  <2>6. TypeOK'
    BY <1>1, <1>3, <2>1, <2>4 DEF TypeOK, recordlog
  <2>7. QED
    BY <2>2, <2>3, <2>5, <2>6 DEF IndInv
<1>6. QED
  BY <1>4, <1>5

-----------------------------------------------------------------------------
(* The invariant holds of every behaviour. *)

LEMMA InitIndInv == Init => IndInv
<1> SUFFICES ASSUME Init PROVE IndInv
  OBVIOUS
<1>1. \A p \in Proposals : decision[p] = Undecided /\ ~Decided(p) /\ ~Published(p)
  BY DEF Init, Decided, Published, Undecided
<1>2. DOMAIN log = {} /\ log \in Seq(Proposals \X Groups)
  BY DEF Init
<1>3. Undecided \in Rows
  BY DEF Undecided, Rows
<1>4. \A w \in Publishers : pub[w] = Idle
  BY DEF Init
<1>5. TypeOK
  BY <1>2, <1>3, IdlePass DEF Init, TypeOK, Boxes
<1>6. StoreInv
  BY <1>1, <1>2 DEF Init, StoreInv, DecisionsShaped, OneRecordPerGroup, OnlyApprovedRecorded,
                    ReceiptComplete, HooksOncePerRecord
<1>7. PubInv
  BY <1>4, IdlePass DEF PubInv, PubOK, Working, At
<1>8. WinnersDecided /\ CommandDecidesOnce
  BY <1>1 DEF Init, WinnersDecided, CommandDecidesOnce
<1>9. QED
  BY <1>5, <1>6, <1>7, <1>8 DEF IndInv

LEMMA NextIndInv == IndInv /\ [Next]_vars => IndInv'
<1> SUFFICES ASSUME IndInv, [Next]_vars PROVE IndInv'
  OBVIOUS
<1>1. ASSUME NEW w \in Publishers, PassStep(w) PROVE IndInv'
  BY <1>1, StartStep, ReadPageStep, TakeRowStep, EndOfPageStep, BeginAppendStep,
     CommitAppendStep, StoreSignedStep, WriteReceiptStep DEF PassStep
<1>2. ASSUME NEW w \in Publishers, Fault(w) PROVE IndInv'
  BY <1>2, FaultStep
<1>3. ASSUME NEW p \in Proposals, Freeze(p) \/ Supersede(p) PROVE IndInv'
  BY <1>3, ProposalStep
<1>4. ASSUME NEW q \in Requests, Decide(q) PROVE IndInv'
  BY <1>4, DecideStep
<1>5. CASE RevokeMember
  BY <1>5, RevokeStep
<1>6. CASE UNCHANGED vars
  <2>1. StoreInv' /\ Grows
    BY <1>6, StoreFrame DEF IndInv, vars
  <2>2. PubInv'
    BY <1>6, <2>1, PubIdleFrame DEF vars, recordlog
  <2>3. TypeOK' /\ WinnersDecided' /\ CommandDecidesOnce'
    BY <1>6, RequestFrame DEF IndInv, vars, TypeOK, Decided
  <2>4. QED
    BY <2>1, <2>2, <2>3 DEF IndInv
<1>7. QED
  BY <1>1, <1>2, <1>3, <1>4, <1>5, <1>6 DEF Next

\* Freezing, deciding, publishing and crashing keep the inductive invariant IndInv.
THEOREM PublicationInvariant == Spec => []IndInv
BY InitIndInv, NextIndInv, PTL DEF Spec

\* Proposals, decisions, the log and the publishers' memory keep their types,
\* whatever the numbers of proposals, surfaces and publishers.
THEOREM PublicationTypes == Spec => []TypeOK
<1>1. IndInv => TypeOK
  BY DEF IndInv
<1>2. QED
  BY <1>1, PublicationInvariant, PTL

\* No crash, race or retry of any number of publishers gives a decision two
\* records for one destination.
THEOREM PublicationOneRecord == Spec => []OneRecordPerGroup
<1>1. IndInv => OneRecordPerGroup
  BY DEF IndInv, StoreInv
<1>2. QED
  BY <1>1, PublicationInvariant, PTL

\* Only an approval's chosen destinations reach the log.
THEOREM PublicationApprovedOnly == Spec => []OnlyApprovedRecorded
<1>1. IndInv => OnlyApprovedRecorded
  BY DEF IndInv, StoreInv
<1>2. QED
  BY <1>1, PublicationInvariant, PTL

\* A receipt names exactly its decision's signed records, in group order.
THEOREM PublicationReceipts == Spec => []ReceiptComplete
<1>1. IndInv => ReceiptComplete
  BY DEF IndInv, StoreInv
<1>2. QED
  BY <1>1, PublicationInvariant, PTL

\* The after-record hooks take effect once per record, with the receipt.
THEOREM PublicationHooks == Spec => []HooksOncePerRecord
<1>1. IndInv => HooksOncePerRecord
  BY DEF IndInv, StoreInv
<1>2. QED
  BY <1>1, PublicationInvariant, PTL

\* Whoever was told a request decided keeps being right.
THEOREM PublicationWinners == Spec => []WinnersDecided
<1>1. IndInv => WinnersDecided
  BY DEF IndInv
<1>2. QED
  BY <1>1, PublicationInvariant, PTL

\* No two proposals are decided by one command id.
THEOREM PublicationCommands == Spec => []CommandDecidesOnce
<1>1. IndInv => CommandDecidesOnce
  BY DEF IndInv
<1>2. QED
  BY <1>1, PublicationInvariant, PTL

\* A publisher that finds a receipt finds its own records in it: both name the
\* one position of each destination.
THEOREM PublicationReceiptsAgree == Spec => []ReceiptsAgree
<1>1. ASSUME IndInv, NEW w \in Publishers, At(w, "receipt"), Published(Prop(w))
      PROVE  decision[Prop(w)].receipt = pub[w].done
  <2> DEFINE p == Prop(w)
             receipt == decision[p].receipt
             done == pub[w].done
  <2>1. TypeOK /\ StoreInv /\ PubOK(w)
    BY <1>1 DEF IndInv, PubInv
  <2>2. /\ p \in Proposals /\ Len(done) = decision[p].req.groups
        /\ \A g \in DOMAIN done : done[g] \in signed /\ log[done[g]] = <<p, g>>
    BY <1>1, <2>1 DEF PubOK, At, Working
  <2>3. /\ Len(receipt) = decision[p].req.groups
        /\ \A g \in Chosen(p) : receipt[g] \in signed /\ log[receipt[g]] = <<p, g>>
    BY <1>1, <2>1, <2>2 DEF StoreInv, ReceiptComplete
  <2>4. receipt \in Seq(Nat) /\ done \in Seq(Nat) /\ signed \subseteq DOMAIN log
    BY <2>1, <2>2, PassFields DEF TypeOK, Rows
  <2>5. DOMAIN done = Chosen(p) /\ DOMAIN receipt = Chosen(p)
    <3>1. DOMAIN done = 1..Len(done) /\ DOMAIN receipt = 1..Len(receipt)
      BY <2>4
    <3>2. QED
      BY <2>2, <2>3, <3>1 DEF Chosen
  <2> HIDE DEF p, receipt, done
  <2>6. ASSUME NEW g \in Chosen(p) PROVE receipt[g] = done[g]
    <3>1. receipt[g] \in DOMAIN log /\ done[g] \in DOMAIN log
      BY <2>2, <2>3, <2>4, <2>5
    <3>2. log[receipt[g]] = log[done[g]]
      BY <2>2, <2>3, <2>5
    <3>3. QED
      BY <2>1, <3>1, <3>2 DEF StoreInv, OneRecordPerGroup
  <2>7. receipt = done
    BY <2>4, <2>5, <2>6
  <2>8. QED
    BY <2>7 DEF p, receipt, done
<1>2. IndInv => ReceiptsAgree
  BY <1>1 DEF ReceiptsAgree
<1>3. QED
  BY <1>2, PublicationInvariant, PTL

-----------------------------------------------------------------------------
(* Approval and publication implement ApprovalRegister: each step maps to    *)
(* one step of the register or to none.                                      *)

\* The register's variables, as the mapping of Register names them.
outcome  == [p \in Proposals |-> Outcome(p)]
Audience(p) == IF Decided(p) THEN Chosen(p) ELSE {}
audience == [p \in Proposals |-> Audience(p)]
records  == {log[i] : i \in DOMAIN log}

\* A proposal whose row and box a step leaves alone stands where it stood.
LEMMA OutcomeFrame ==
  ASSUME NEW p \in Proposals, box'[p] = box[p], decision'[p] = decision[p]
  PROVE  Outcome(p)' = Outcome(p) /\ Audience(p)' = Audience(p)
BY DEF Outcome, Audience, Published, Approved, Decided, Chosen

\* A step that moves one proposal moves the register's outcome there alone.
LEMMA OutcomeMove ==
  ASSUME NEW p \in Proposals, NEW o,
         \A q \in Proposals : q # p => box'[q] = box[q] /\ decision'[q] = decision[q],
         Outcome(p)' = o
  PROVE  outcome' = [outcome EXCEPT ![p] = o]
         /\ audience' = [audience EXCEPT ![p] = Audience(p)']
<1>1. \A q \in Proposals : q # p => Outcome(q)' = Outcome(q) /\ Audience(q)' = Audience(q)
  BY OutcomeFrame
<1>2. QED
  BY <1>1 DEF outcome, audience

\* A step that writes neither the boxes, the decisions nor the log is no step
\* of the register.
LEMMA RegisterStutter ==
  ASSUME UNCHANGED <<box, decision, log>>
  PROVE  UNCHANGED <<outcome, audience, records>>
BY OutcomeFrame DEF outcome, audience, records

LEMMA RegisterVars ==
  UNCHANGED <<outcome, audience, records>> => UNCHANGED Register!vars
BY DEF Register!vars, outcome, audience, records, Audience

LEMMA ProposalRefines ==
  ASSUME IndInv, NEW p \in Proposals, Freeze(p) \/ Supersede(p)
  PROVE  Register!Next
<1>1. ~Decided(p) /\ ~Published(p)
  BY DEF Freeze, Supersede, IndInv, StoreInv, DecisionsShaped, Published, Undecided
<1>2. decision' = decision /\ log' = log /\ \A q \in Proposals : q # p => box'[q] = box[q]
  BY DEF Freeze, Supersede, recordlog, IndInv, TypeOK
<1>3. records' = records /\ Audience(p)' = Audience(p) /\ Audience(p) = {}
  BY <1>1, <1>2 DEF records, Audience, Decided, Chosen
<1>4. ~Approved(p) /\ ~Decided(p)' /\ ~Published(p)' /\ ~Approved(p)'
  BY <1>1, <1>2 DEF Approved, Decided, Published
<1>5. CASE Freeze(p)
  <2>1. box[p] = "queued" /\ box'[p] = "staged"
    BY <1>5 DEF Freeze, IndInv, TypeOK
  <2>2. Outcome(p) = "queued" /\ Outcome(p)' = "open"
    BY <1>1, <1>4, <2>1 DEF Outcome
  <2>3. Register!Open(p)
    BY <1>2, <1>3, <2>2, OutcomeMove
    DEF Register!Open, Register!Move, outcome, audience, records, Audience
  <2>4. QED
    BY <2>3 DEF Register!Next
<1>6. CASE Supersede(p)
  <2>1. box[p] \in {"queued", "staged"} /\ box'[p] = "superseded"
    BY <1>6 DEF Supersede, IndInv, TypeOK
  <2>2. Outcome(p) \in {"queued", "open"} /\ Outcome(p)' = "withdrawn"
    BY <1>1, <1>4, <2>1 DEF Outcome
  <2>3. Register!Withdraw(p)
    BY <1>2, <1>3, <2>2, OutcomeMove
    DEF Register!Withdraw, Register!Move, outcome, audience, records, Audience
  <2>4. QED
    BY <2>3 DEF Register!Next
<1>7. QED
  BY <1>5, <1>6

LEMMA DecideRefines ==
  ASSUME IndInv, NEW q \in Requests, Decide(q), Answer(q) = "decided",
         NEW p, p = q.prop
  PROVE  Register!Next
<1> DEFINE row == [req |-> q, seq |-> NextSequence, receipt |-> <<>>]
<1>1. p \in Proposals /\ q.groups \in Nat /\ 1..q.groups \subseteq Groups
  BY ConstantsAssumption DEF Requests, Groups
<1>2. box[p] = "staged" /\ ~Decided(p)
  BY DEF Answer
<1>3. ~Published(p) /\ ~Approved(p)
  BY <1>1, <1>2 DEF IndInv, StoreInv, DecisionsShaped, Undecided, Published, Approved
<1>4. decision' = [decision EXCEPT ![p] = row] /\ UNCHANGED <<box, log>>
  BY DEF Decide, recordlog
<1>5. row.req = q /\ row.seq # 0 /\ row.receipt = <<>>
  BY NextSequenceType
<1> HIDE DEF row
<1>6. decision'[p] = row /\ \A o \in Proposals : o # p => decision'[o] = decision[o]
  BY <1>1, <1>4 DEF IndInv, TypeOK
<1>7. ~Published(p)' /\ Decided(p)' /\ (Approved(p)' <=> q.groups > 0) /\ Chosen(p)' = 1..q.groups
  BY <1>5, <1>6 DEF Published, Decided, Approved, Chosen
<1>8. Outcome(p) = "open" /\ Audience(p) = {} /\ Audience(p)' = 1..q.groups
  BY <1>2, <1>3, <1>7 DEF Outcome, Audience
<1>9. records' = records
  BY <1>4 DEF records
<1>10. CASE q.groups = 0
  <2>1. Outcome(p)' = "rejected" /\ Audience(p)' = Audience(p)
    BY <1>7, <1>8, <1>10 DEF Outcome
  <2>2. outcome' = [outcome EXCEPT ![p] = "rejected"]
        /\ audience' = [audience EXCEPT ![p] = Audience(p)']
    BY <1>1, <1>4, <1>6, <2>1, OutcomeMove
  <2>3. audience' = audience
    BY <1>1, <2>1, <2>2 DEF audience
  <2>4. Register!Reject(p)
    BY <1>1, <1>8, <1>9, <2>2, <2>3 DEF Register!Reject, Register!Move, outcome, audience, records, Audience
  <2>5. QED
    BY <1>1, <2>4 DEF Register!Next
<1>11. CASE q.groups > 0
  <2>1. Outcome(p)' = "approved"
    BY <1>7, <1>11 DEF Outcome
  <2>2. outcome' = [outcome EXCEPT ![p] = "approved"]
        /\ audience' = [audience EXCEPT ![p] = 1..q.groups]
    BY <1>1, <1>4, <1>6, <1>8, <2>1, OutcomeMove
  <2>3. Register!Approve(p, 1..q.groups)
    BY <1>1, <1>8, <1>9, <2>2 DEF Register!Approve, Register!Move, outcome, audience, records, Audience
  <2>4. 1..q.groups \in (SUBSET Groups) \ {{}}
    <3>1. 1 \in 1..q.groups
      BY <1>1, <1>11
    <3>2. QED
      BY <1>1, <3>1
  <2>5. QED
    BY <1>1, <2>3, <2>4 DEF Register!Next
<1>12. QED
  BY <1>1, <1>10, <1>11

\* The record a publisher commits is its decision's, new to the log, and comes
\* before the receipt: no decision is published that lacks it.
LEMMA CommitRefines ==
  ASSUME IndInv, NEW w \in Publishers, CommitAppend(w), NEW p, p = Prop(w), NEW g, g = Group(w)
  PROVE  Register!Next
<1>1. TypeOK /\ StoreInv /\ PubOK(w) /\ pub[w].pc = "creating"
  BY DEF IndInv, PubInv, CommitAppend, At
<1>2. /\ p \in Proposals /\ Approved(p) /\ ~Recorded(p, g)
      /\ Len(pub[w].done) < decision[p].req.groups
  BY <1>1 DEF PubOK, At, Working
<1>3. g \in Chosen(p) /\ g \in Groups
  <2>1. Len(pub[w].done) \in Nat
    BY <1>1, PassFields
  <2>2. decision[p].req.groups \in 0..MaxGroups /\ Chosen(p) \subseteq Groups
    BY <1>1, <1>2, DecisionFields DEF Approved, StoreInv
  <2>3. QED
    BY <1>2, <2>1, <2>2, ConstantsAssumption DEF Chosen, Group
<1>4. ~Published(p)
  BY <1>1, <1>2, <1>3 DEF StoreInv, ReceiptComplete, Recorded, TypeOK
<1>5. Outcome(p) = "approved" /\ Audience(p) = Chosen(p)
  BY <1>2, <1>4 DEF Outcome, Audience, Approved
<1>6. log' = Append(log, <<p, g>>) /\ UNCHANGED <<box, decision>>
  BY DEF CommitAppend, Entry, authority
<1>7. records' = records \cup {<<p, g>>}
  <2>1. log \in Seq(Proposals \X Groups)
    BY <1>1 DEF TypeOK
  <2> DEFINE e == <<p, g>>
  <2>2. e \in Proposals \X Groups /\ log' = Append(log, e)
    BY <1>2, <1>3, <1>6
  <2> HIDE DEF e
  <2>3. /\ DOMAIN log = 1..Len(log) /\ Len(log) \in Nat
        /\ DOMAIN log' = 1..Len(log)+1
        /\ log'[Len(log)+1] = e
        /\ \A i \in DOMAIN log : log'[i] = log[i]
    BY <2>1, <2>2
  <2>4. \A i \in DOMAIN log' : i \in DOMAIN log \/ i = Len(log)+1
    BY <2>3
  <2>5. DOMAIN log \subseteq DOMAIN log' /\ Len(log)+1 \in DOMAIN log'
    BY <2>3
  <2>6. {log'[i] : i \in DOMAIN log'} = {log[i] : i \in DOMAIN log} \cup {e}
    BY <2>3, <2>4, <2>5
  <2>7. QED
    BY <2>6 DEF records, e
<1>8. <<p, g>> \notin records
  BY <1>2 DEF records, Recorded
<1>9. outcome' = outcome /\ audience' = audience
  BY <1>6, OutcomeFrame DEF outcome, audience
<1>10. Register!Record(p, g)
  BY <1>2, <1>3, <1>5, <1>7, <1>8, <1>9
  DEF Register!Record, outcome, audience, records, Audience
<1>11. QED
  BY <1>2, <1>3, <1>10 DEF Register!Next

\* The receipt is written when every chosen destination has its record.
LEMMA ReceiptRefines ==
  ASSUME IndInv, NEW w \in Publishers, WriteReceipt(w), NEW p, p = Prop(w), ~Published(p)
  PROVE  Register!Next
<1>1. TypeOK /\ StoreInv /\ PubOK(w) /\ pub[w].pc = "receipt"
  BY DEF IndInv, PubInv, WriteReceipt, At
<1>2. /\ p \in Proposals /\ Approved(p) /\ Len(pub[w].done) = decision[p].req.groups
      /\ \A h \in DOMAIN pub[w].done :
           pub[w].done[h] \in signed /\ log[pub[w].done[h]] = <<p, h>>
  BY <1>1 DEF PubOK, At, Working
<1>3. pub[w].done \in Seq(Nat) /\ signed \subseteq DOMAIN log
  BY <1>1, PassFields DEF TypeOK
<1>4. DOMAIN pub[w].done = Chosen(p)
  BY <1>2, <1>3 DEF Chosen
<1>5. decision[p].req.groups \in Nat /\ decision[p].req.groups > 0
  <2>1. decision[p].req.groups \in 0..MaxGroups
    BY <1>1, <1>2, DecisionFields DEF Approved, StoreInv
  <2>2. QED
    BY <1>2, <2>1, ConstantsAssumption DEF Approved
<1>6. pub[w].done # <<>>
  BY <1>2, <1>3, <1>5
<1>7. decision' = [decision EXCEPT ![p].receipt = pub[w].done] /\ UNCHANGED <<box, log>>
  BY DEF WriteReceipt, recordlog
<1>8. /\ decision'[p].receipt = pub[w].done /\ decision'[p].req = decision[p].req
      /\ decision'[p].seq = decision[p].seq
      /\ \A q \in Proposals : q # p => decision'[q] = decision[q]
  BY <1>1, <1>2, <1>7 DEF TypeOK, Rows
<1>9. Outcome(p) = "approved" /\ Audience(p) = Chosen(p)
  BY <1>2 DEF Outcome, Audience, Approved
<1>10. Published(p)'
  BY <1>6, <1>8 DEF Published
<1>11. Outcome(p)' = "published"
  BY <1>10 DEF Outcome
<1>12. Audience(p)' = Audience(p)
  BY <1>8 DEF Audience, Decided, Chosen
<1>13. outcome' = [outcome EXCEPT ![p] = "published"]
       /\ audience' = [audience EXCEPT ![p] = Audience(p)']
  BY <1>2, <1>7, <1>8, <1>11, OutcomeMove
<1>14. audience' = audience
  BY <1>12, <1>13 DEF audience
<1>15. {p} \X Chosen(p) \subseteq records
  <2>1. ASSUME NEW g \in Chosen(p) PROVE <<p, g>> \in records
    <3>1. g \in DOMAIN pub[w].done
      BY <1>4
    <3>2. pub[w].done[g] \in DOMAIN log /\ log[pub[w].done[g]] = <<p, g>>
      BY <1>2, <1>3, <3>1
    <3> QED
      BY <3>2 DEF records
  <2> QED
    BY <2>1
<1>16. records' = records
  BY <1>7 DEF records
<1>17. Register!Publish(p)
  BY <1>2, <1>9, <1>13, <1>14, <1>15, <1>16
  DEF Register!Publish, Register!Move, outcome, audience, records, Audience
<1>18. QED
  BY <1>2, <1>17 DEF Register!Next

-----------------------------------------------------------------------------

LEMMA InitRefines == Init => Register!Init
<1> SUFFICES ASSUME Init PROVE Register!Init
  OBVIOUS
<1>1. \A p \in Proposals : Outcome(p) = "queued" /\ Audience(p) = {}
  BY DEF Init, Outcome, Audience, Published, Approved, Decided, Undecided
<1>2. records = {}
  BY DEF Init, records
<1>3. QED
  BY <1>1, <1>2 DEF Register!Init, records, Audience

LEMMA NextRefines == IndInv /\ [Next]_vars => [Register!Next]_(Register!vars)
<1> SUFFICES ASSUME IndInv, [Next]_vars PROVE [Register!Next]_(Register!vars)
  OBVIOUS
<1> DEFINE Goal == Register!Next \/ UNCHANGED Register!vars
<1>1. ASSUME UNCHANGED <<box, decision, log>> PROVE Goal
  BY <1>1, RegisterStutter, RegisterVars
<1>2. ASSUME NEW w \in Publishers, PassStep(w) PROVE Goal
  <2>1. CASE Start(w) \/ ReadPage(w) \/ TakeRow(w) \/ EndOfPage(w) \/ BeginAppend(w) \/ StoreSigned(w)
    <3>1. UNCHANGED <<box, decision, log>>
      BY <2>1 DEF Start, ReadPage, TakeRow, EndOfPage, BeginAppend, StoreSigned, authority, recordlog
    <3>2. QED
      BY <1>1, <3>1
  <2>2. CASE CommitAppend(w)
    BY <2>2, CommitRefines
  <2>3. CASE WriteReceipt(w)
    <3>1. CASE Published(Prop(w))
      BY <1>1, <2>3, <3>1 DEF WriteReceipt, recordlog
    <3>2. CASE ~Published(Prop(w))
      BY <2>3, <3>2, ReceiptRefines
    <3>3. QED
      BY <3>1, <3>2
  <2>4. QED
    BY <1>2, <2>1, <2>2, <2>3 DEF PassStep
<1>3. ASSUME NEW w \in Publishers, Fault(w) PROVE Goal
  <2>1. UNCHANGED <<box, decision, log>>
    BY <1>3 DEF Fault, Abort, RowFails, Crash, authority, recordlog
  <2>2. QED
    BY <1>1, <2>1
<1>4. ASSUME NEW p \in Proposals, Freeze(p) \/ Supersede(p) PROVE Goal
  BY <1>4, ProposalRefines
<1>5. ASSUME NEW q \in Requests, Decide(q) PROVE Goal
  <2>1. CASE Answer(q) = "decided"
    BY <1>5, <2>1, DecideRefines
  <2>2. CASE Answer(q) # "decided"
    BY <1>1, <1>5, <2>2 DEF Decide, recordlog
  <2>3. QED
    BY <2>1, <2>2
<1>6. CASE RevokeMember
  BY <1>1, <1>6 DEF RevokeMember, recordlog
<1>7. CASE UNCHANGED vars
  BY <1>1, <1>7 DEF vars
<1>8. QED
  BY <1>2, <1>3, <1>4, <1>5, <1>6, <1>7 DEF Next

\* Approval and publication keep the register's promise: one final decision,
\* one record per chosen destination, published exactly when all are recorded.
THEOREM PublicationImplementsRegister == Spec => RegisterSpec
<1>1. Spec => Register!Init /\ [][Register!Next]_(Register!vars)
  BY InitRefines, NextRefines, PublicationInvariant, PTL DEF Spec
<1>2. QED
  BY <1>1 DEF RegisterSpec, Register!Spec

-----------------------------------------------------------------------------
(* The cursor.  What PublishedInTheEnd rests on: a page is all there is to   *)
(* publish up to its last row, and stays so while other publishers work on   *)
(* it and new decisions are made.                                            *)

DecidedOnes == {p \in Proposals : Decided(p)}

\* Sequences count the decisions.
Sequenced ==
  /\ \A p \in DecidedOnes : decision[p].seq <= Cardinality(DecidedOnes)
  /\ \A p, q \in DecidedOnes : decision[p].seq = decision[q].seq => p = q

\* A publisher's rows lie above its cursor, in sequence order, and none is
\* missing among them.
PageCovers(w) ==
  LET rows == pub[w].rows IN
  \A i \in DOMAIN rows :
    /\ pub[w].after < decision[rows[i]].seq
    /\ \A j \in 1..(i - 1) : decision[rows[j]].seq < decision[rows[i]].seq
    /\ \A p \in Unpublished(pub[w].after) :
         decision[p].seq <= decision[rows[i]].seq => \E j \in 1..i : rows[j] = p

CursorInv == Sequenced /\ \A w \in Publishers : PageCovers(w)

LEMMA SequenceTypes == TypeOK => \A p \in Proposals : decision[p].seq \in Nat
BY DEF TypeOK, Rows

LEMMA FiniteDecided == IsFiniteSet(DecidedOnes) /\ Cardinality(DecidedOnes) \in Nat
BY ConstantsAssumption, FS_Subset, FS_CardinalityType DEF DecidedOnes

\* A page that was just read.
LEMMA PageReadCovers ==
  ASSUME TypeOK, Sequenced, NEW after \in Nat, NEW n \in Nat, NEW rows \in [1..n -> Proposals], Page(after, rows),
         NEW i \in 1..n
  PROVE  /\ after < decision[rows[i]].seq
         /\ \A j \in 1..(i - 1) : decision[rows[j]].seq < decision[rows[i]].seq
         /\ \A p \in Unpublished(after) :
              decision[p].seq <= decision[rows[i]].seq => \E j \in 1..i : rows[j] = p
<1> DEFINE U == Unpublished(after)
           Below(k) == {p \in U : decision[p].seq < decision[rows[k]].seq}
<1>1. Len(rows) = n
  OBVIOUS
<1>2. \A k \in 1..n : rows[k] \in U /\ Cardinality(Below(k)) = k - 1
  BY <1>1 DEF Page
<1>3. U \subseteq Proposals /\ U \subseteq DecidedOnes /\ \A p \in U : decision[p].seq \in Nat /\ after < decision[p].seq
  BY SequenceTypes DEF Unpublished, Approved, DecidedOnes
<1>4. \A k \in 1..n : IsFiniteSet(Below(k)) /\ Below(k) \subseteq U
  BY <1>3, ConstantsAssumption, FS_Subset
<1>5. ASSUME NEW k \in 1..n, NEW j \in 1..(k - 1) PROVE decision[rows[j]].seq < decision[rows[k]].seq
  <2>0. j \in 1..n
    OBVIOUS
  <2>1. rows[j] \in U /\ rows[k] \in U /\ decision[rows[j]].seq \in Nat /\ decision[rows[k]].seq \in Nat
    <3> HIDE DEF U, Below
    <3> QED
      BY <1>2, <1>3, <2>0
  <2> SUFFICES ASSUME decision[rows[k]].seq <= decision[rows[j]].seq PROVE FALSE
    BY <2>1
  <2>2. Below(k) \subseteq Below(j)
    BY <1>3, <2>1
  <2> HIDE DEF Below
  <2>3. Cardinality(Below(k)) <= Cardinality(Below(j))
    BY <1>4, <2>0, <2>2, FS_Subset
  <2>4. Cardinality(Below(k)) = k - 1 /\ Cardinality(Below(j)) = j - 1
    BY <1>2, <2>0
  <2> QED
    BY <2>0, <2>3, <2>4
<1> DEFINE S == Below(i) \cup {rows[i]}
           first == [j \in 1..i |-> rows[j]]
<1>6. rows[i] \notin Below(i)
  BY <1>2, <1>3
<1>7. IsFiniteSet(S) /\ Cardinality(S) = i
  <2>1. IsFiniteSet(Below(i)) /\ Cardinality(Below(i)) = i - 1
    BY <1>2, <1>4
  <2> HIDE DEF Below
  <2> QED
    BY <1>6, <2>1, FS_AddElement
<1>8. first \in Injection(1..i, S)
  <2>1. ASSUME NEW j \in 1..i PROVE rows[j] \in S
    <3>1. CASE j = i
      BY <3>1
    <3>2. CASE j # i
      <4>1. j \in 1..(i - 1) /\ j \in 1..n
        BY <3>2
      <4>2. decision[rows[j]].seq < decision[rows[i]].seq /\ rows[j] \in U
        BY <1>2, <1>5, <4>1
      <4> QED
        BY <4>2
    <3> QED BY <3>1, <3>2
  <2>2. ASSUME NEW j \in 1..i, NEW k \in 1..i, rows[j] = rows[k] PROVE j = k
    <3>1. j \in 1..n /\ k \in 1..n
      OBVIOUS
    <3>2. decision[rows[j]].seq \in Nat
      <4> HIDE DEF U, Below
      <4> QED
        BY <1>2, <1>3, <3>1
    <3>3. ~(j < k) /\ ~(k < j)
      <4>1. j < k => j \in 1..(k - 1)
        BY <3>1
      <4>2. k < j => k \in 1..(j - 1)
        BY <3>1
      <4> QED
        BY <1>5, <2>2, <3>1, <3>2, <4>1, <4>2
    <3> QED
      BY <3>1, <3>3
  <2> HIDE DEF S
  <2> QED
    BY <2>1, <2>2 DEF Injection, IsInjective
<1>9. first \in Surjection(1..i, S)
  <2> HIDE DEF S, first
  <2>1. IsFiniteSet(1..i) /\ Cardinality(1..i) = i
    BY FS_Interval
  <2> QED
    BY <1>7, <1>8, <2>1, FS_Injection
<1>10. ASSUME NEW p \in U, decision[p].seq <= decision[rows[i]].seq PROVE \E j \in 1..i : rows[j] = p
  <2>1. p \in S
    <3>1. rows[i] \in DecidedOnes /\ p \in DecidedOnes /\ decision[rows[i]].seq \in Nat /\ decision[p].seq \in Nat
      BY <1>2, <1>3
    <3>2. CASE decision[p].seq = decision[rows[i]].seq
      BY <3>1, <3>2 DEF Sequenced
    <3>3. CASE decision[p].seq # decision[rows[i]].seq
      BY <1>10, <3>1, <3>3
    <3> QED
      BY <3>2, <3>3
  <2> HIDE DEF S
  <2> QED
    BY <1>9, <2>1 DEF Surjection
<1> QED
  BY <1>2, <1>3, <1>5, <1>10

\* What a step does to the decisions: it keeps those made, and the sequence of
\* one that it makes is above theirs.
Later ==
  /\ \A p \in Proposals : Decided(p) =>
       /\ decision'[p].seq = decision[p].seq /\ decision'[p].req = decision[p].req
       /\ Published(p) => Published(p)'
  /\ \A p \in Proposals : ~Decided(p) /\ Decided(p)' =>
       \A q \in Proposals : Decided(q) => decision[q].seq < decision'[p].seq

LEMMA ReceiptKeepsSequences ==
  ASSUME IndInv, NEW w \in Publishers, WriteReceipt(w)
  PROVE  Later
<1> DEFINE p == Prop(w)
<1>1. p \in Proposals /\ Len(pub[w].done) = decision[p].req.groups /\ decision[p].req.groups > 0 /\ pub[w].done \in Seq(Nat)
  BY PassFields DEF IndInv, PubInv, PubOK, WriteReceipt, At, Working, Approved
<1>2. pub[w].done # <<>>
  BY <1>1
<1> HIDE DEF p
<1>3. decision' = decision \/ (~Published(p) /\ decision' = [decision EXCEPT ![p].receipt = pub[w].done])
  BY DEF WriteReceipt, p
<1>4. decision \in [Proposals -> Rows]
  BY DEF IndInv, TypeOK
<1>5. ASSUME NEW o \in Proposals
      PROVE  /\ decision'[o].seq = decision[o].seq /\ decision'[o].req = decision[o].req
             /\ Published(o) => Published(o)'
  <2>1. CASE o = p
    BY <1>1, <1>2, <1>3, <1>4, <2>1 DEF Published, Rows
  <2>2. CASE o # p
    BY <1>1, <1>3, <1>4, <2>2 DEF Published
  <2> QED BY <2>1, <2>2
<1> QED
  BY <1>5 DEF Later, Decided

\* A step keeps the decisions, and numbers them, whoever takes it.
LEMMA DecisionsLater ==
  ASSUME IndInv, Sequenced, [Next]_vars
  PROVE  Later /\ Sequenced'
<1>1. CASE UNCHANGED decision
  BY <1>1 DEF Later, Sequenced, DecidedOnes, Decided, Published
<1>2. ASSUME NEW w \in Publishers, WriteReceipt(w) PROVE Later /\ Sequenced'
  <2>1. Later
    BY <1>2, ReceiptKeepsSequences
  <2>2. \A p \in Proposals : decision'[p].seq = decision[p].seq
    <3>1. PICK o \in Proposals : decision' = decision \/ decision' = [decision EXCEPT ![o].receipt = pub[w].done]
      BY <1>2, PassFields DEF WriteReceipt, IndInv, PubInv, PubOK, At, Working
    <3> QED
      BY <3>1 DEF IndInv, TypeOK, Rows
  <2>3. DecidedOnes' = DecidedOnes
    BY <2>2 DEF DecidedOnes, Decided
  <2> QED
    BY <2>1, <2>2, <2>3 DEF Sequenced, DecidedOnes
<1>3. ASSUME NEW q \in Requests, Decide(q) PROVE Later /\ Sequenced'
  <2>1. CASE Answer(q) = "decided"
    <3> DEFINE p == q.prop
    <3>1. p \in Proposals /\ ~Decided(p) /\ decision' = [decision EXCEPT ![p] = [req |-> q, seq |-> NextSequence, receipt |-> <<>>]]
      BY <1>3, <2>1 DEF Decide, Answer, Requests
    <3>2. decision'[p].seq = Cardinality(DecidedOnes) + 1 /\ \A o \in Proposals : o # p => decision'[o] = decision[o]
      BY <3>1 DEF IndInv, TypeOK, NextSequence, DecidedOnes
    <3>3. DecidedOnes' = DecidedOnes \cup {p} /\ p \notin DecidedOnes
      BY <3>1, <3>2, FiniteDecided DEF DecidedOnes, Decided
    <3>4. Cardinality(DecidedOnes') = Cardinality(DecidedOnes) + 1
      BY <3>3, FiniteDecided, FS_AddElement
    <3>5. \A o \in DecidedOnes : o # p /\ decision[o].seq \in Nat /\ decision[o].seq <= Cardinality(DecidedOnes)
      BY <3>3, SequenceTypes DEF Sequenced, DecidedOnes, IndInv
    <3>6. Later
      BY <3>1, <3>2, <3>5, FiniteDecided DEF Later, DecidedOnes, Decided, Published
    <3>7. \A o \in DecidedOnes : decision'[o].seq = decision[o].seq /\ decision'[o].seq < decision'[p].seq
      BY <3>2, <3>5, FiniteDecided DEF DecidedOnes
    <3>8. \A o \in DecidedOnes' : decision'[o].seq \in Nat /\ decision'[o].seq <= Cardinality(DecidedOnes')
      <4> HIDE DEF p
      <4> QED
        BY <3>2, <3>3, <3>4, <3>5, <3>7, FiniteDecided
    <3>9. ASSUME NEW o \in DecidedOnes', NEW r \in DecidedOnes', decision'[o].seq = decision'[r].seq PROVE o = r
      <4>1. CASE o = p /\ r = p
        BY <4>1
      <4>2. CASE o \in DecidedOnes /\ r \in DecidedOnes
        BY <3>7, <3>9, <4>2 DEF Sequenced
      <4>3. ~(o = p /\ r \in DecidedOnes) /\ ~(o \in DecidedOnes /\ r = p)
        <5> HIDE DEF p
        <5> QED
          BY <3>7, <3>8, <3>9
      <4> QED
        BY <3>3, <4>1, <4>2, <4>3
    <3>10. Sequenced'
      BY <3>8, <3>9 DEF Sequenced
    <3> QED BY <3>6, <3>10
  <2>2. CASE Answer(q) # "decided"
    BY <1>1, <1>3, <2>2 DEF Decide
  <2> QED BY <2>1, <2>2
<1>4. ASSUME NEW w \in Publishers, PassStep(w) PROVE UNCHANGED decision \/ WriteReceipt(w)
  BY <1>4 DEF PassStep, Start, ReadPage, TakeRow, EndOfPage, BeginAppend, CommitAppend, StoreSigned, authority
<1>5. ASSUME NEW w \in Publishers, Fault(w) PROVE UNCHANGED decision
  BY <1>5 DEF Fault, Abort, RowFails, Crash, authority
<1>6. ASSUME NEW p \in Proposals, Freeze(p) \/ Supersede(p) PROVE UNCHANGED decision
  BY <1>6 DEF Freeze, Supersede
<1>7. RevokeMember \/ UNCHANGED vars => UNCHANGED decision
  BY DEF RevokeMember, vars
<1>8. \/ UNCHANGED decision
      \/ \E w \in Publishers : WriteReceipt(w)
      \/ \E q \in Requests : Decide(q)
  BY <1>4, <1>5, <1>6, <1>7 DEF Next
<1> QED
  BY <1>1, <1>2, <1>3, <1>8

\* Rows and a cursor that a step leaves alone still cover what there is.
LEMMA CoversFrame ==
  ASSUME IndInv, IndInv', Later, NEW w \in Publishers, PageCovers(w), pub'[w].rows = pub[w].rows, pub'[w].after = pub[w].after
  PROVE  PageCovers(w)'
<1> DEFINE rows == pub[w].rows
<1>1. rows \in Seq(Proposals) /\ \A i \in DOMAIN rows : rows[i] \in Proposals /\ Decided(rows[i])
  BY PassFields DEF IndInv, PubInv, PubOK, Approved
<1>2. \A i \in DOMAIN rows : i \in Nat /\ \A j \in 1..i : j \in DOMAIN rows
  BY <1>1
<1> HIDE DEF rows
<1>3. \A i \in DOMAIN rows : decision'[rows[i]].seq = decision[rows[i]].seq
  BY <1>1 DEF Later
<1>4. ASSUME NEW p \in Unpublished(pub[w].after)', NEW i \in DOMAIN rows, decision'[p].seq <= decision'[rows[i]].seq
      PROVE  p \in Unpublished(pub[w].after) /\ decision'[p].seq = decision[p].seq
  <2>1. Decided(p)
    <3>1. p \in Proposals /\ Decided(p)' /\ decision'[p].seq \in Nat /\ decision[rows[i]].seq \in Nat
      BY <1>1, <1>4, SequenceTypes DEF Unpublished, Approved, TypeOK, Rows, IndInv
    <3> QED
      BY <1>1, <1>3, <1>4, <3>1 DEF Later
  <2> QED
    BY <1>4, <2>1 DEF Unpublished, Approved, Later, Decided
<1> QED
  BY <1>1, <1>2, <1>3, <1>4 DEF PageCovers, rows

\* No rows cover everything.
LEMMA NoRowsCover == ASSUME NEW w \in Publishers, pub'[w].rows = <<>> PROVE PageCovers(w)'
BY DEF PageCovers

LEMMA CoversReadPage ==
  ASSUME IndInv, CursorInv, NEW w \in Publishers, ReadPage(w)
  PROVE  PageCovers(w)'
<1>0. PICK n \in 0..PageSize :
        \E rows \in [1..n -> Proposals] :
          /\ Page(pub[w].after, rows)
          /\ pub' = [pub EXCEPT ![w] = IF n = 0 THEN Idle ELSE [@ EXCEPT !.pc = "row", !.rows = rows]]
  BY DEF ReadPage
<1>1. PICK rows \in [1..n -> Proposals] :
        /\ Page(pub[w].after, rows)
        /\ pub' = [pub EXCEPT ![w] = IF n = 0 THEN Idle ELSE [@ EXCEPT !.pc = "row", !.rows = rows]]
  BY <1>0
<1>2. n \in Nat /\ TypeOK /\ pub[w] \in Passes /\ pub[w].after \in Nat
  BY PassFields, ConstantsAssumption DEF IndInv
<1>3. CASE n = 0
  <2>1. pub'[w].rows = <<>>
    BY <1>1, <1>3, IdlePass DEF IndInv, TypeOK
  <2> QED
    BY <2>1, NoRowsCover
<1>4. CASE n # 0
  <2>1. pub'[w].rows = rows /\ pub'[w].after = pub[w].after /\ UNCHANGED decision
    BY <1>1, <1>2, <1>4 DEF TypeOK, Passes, ReadPage, authority
  <2>2. DOMAIN rows = 1..n
    BY <1>2
  <2>3. \A a : Unpublished(a)' = Unpublished(a)
    BY <2>1 DEF Unpublished, Approved, Decided, Published
  <2>4. ASSUME NEW i \in 1..n
        PROVE  /\ pub[w].after < decision[rows[i]].seq
               /\ \A j \in 1..(i - 1) : decision[rows[j]].seq < decision[rows[i]].seq
               /\ \A p \in Unpublished(pub[w].after) :
                    decision[p].seq <= decision[rows[i]].seq => \E j \in 1..i : rows[j] = p
    <3> DEFINE after == pub[w].after
    <3>1. TypeOK /\ Sequenced /\ after \in Nat /\ Page(after, rows)
      BY <1>1, <1>2 DEF CursorInv
    <3> HIDE DEF after
    <3>2. after < decision[rows[i]].seq
      BY <1>2, <3>1, PageReadCovers
    <3>3. \A j \in 1..(i - 1) : decision[rows[j]].seq < decision[rows[i]].seq
      BY <1>2, <3>1, PageReadCovers
    <3>4. ASSUME NEW p \in Unpublished(after), decision[p].seq <= decision[rows[i]].seq
          PROVE  \E j \in 1..i : rows[j] = p
      BY <1>2, <3>1, <3>4, PageReadCovers
    <3> QED
      BY <3>2, <3>3, <3>4 DEF after
  <2> QED
    BY <2>1, <2>2, <2>3, <2>4 DEF PageCovers
<1> QED
  BY <1>3, <1>4

\* The first row of a page is the next approval above the cursor.
LEMMA CoversTakeRow ==
  ASSUME IndInv, CursorInv, NEW w \in Publishers, TakeRow(w)
  PROVE  /\ PageCovers(w)'
         /\ \A p \in Unpublished(pub[w].after) : decision[p].seq <= pub'[w].after => pub'[w].prop = p
<1> DEFINE rows == pub[w].rows
<1>1. /\ pub'[w].rows = Tail(rows) /\ pub'[w].after = decision[rows[1]].seq /\ pub'[w].prop = rows[1]
      /\ UNCHANGED decision
  BY DEF TakeRow, IndInv, TypeOK, authority
<1>2. rows \in Seq(Proposals) /\ rows # <<>> /\ PageCovers(w)
  BY PassFields DEF TakeRow, IndInv, CursorInv
<1> HIDE DEF rows
<1>3. 1 \in DOMAIN rows /\ \A i \in DOMAIN rows : i \in 1..Len(rows) /\ rows[i] \in Proposals
  BY <1>2
<1>4. \A i \in DOMAIN Tail(rows) : i \in Nat \ {0} /\ i + 1 \in DOMAIN rows /\ Tail(rows)[i] = rows[i + 1]
                                    /\ \A j \in 1..i : Tail(rows)[j] = rows[j + 1]
  BY <1>2
<1>5. ASSUME NEW i \in DOMAIN rows
      PROVE  /\ pub[w].after < decision[rows[i]].seq
             /\ \A j \in 1..(i - 1) : decision[rows[j]].seq < decision[rows[i]].seq
             /\ \A p \in Unpublished(pub[w].after) :
                  decision[p].seq <= decision[rows[i]].seq => \E j \in 1..i : rows[j] = p
  BY <1>2 DEF PageCovers, rows
<1>6. pub[w].after \in Nat /\ \A p \in Proposals : decision[p].seq \in Nat
  BY PassFields, SequenceTypes DEF IndInv
<1>7. \A p \in Unpublished(decision[rows[1]].seq) : p \in Unpublished(pub[w].after) /\ decision[rows[1]].seq < decision[p].seq
  BY <1>3, <1>5, <1>6 DEF Unpublished
<1>8. ASSUME NEW i \in DOMAIN Tail(rows)
      PROVE  /\ decision[rows[1]].seq < decision[Tail(rows)[i]].seq
             /\ \A j \in 1..(i - 1) : decision[Tail(rows)[j]].seq < decision[Tail(rows)[i]].seq
  <2>1. 1 \in 1..((i + 1) - 1) /\ \A j \in 1..(i - 1) : j + 1 \in 1..((i + 1) - 1) /\ j \in 1..i
    BY <1>4
  <2> QED
    BY <1>4, <1>5, <2>1
<1>9. ASSUME NEW i \in DOMAIN Tail(rows), NEW p \in Unpublished(decision[rows[1]].seq),
             decision[p].seq <= decision[Tail(rows)[i]].seq
      PROVE  \E j \in 1..i : Tail(rows)[j] = p
  <2>1. PICK j \in 1..(i + 1) : rows[j] = p
    BY <1>4, <1>5, <1>7, <1>9
  <2>2. j # 1
    <3>1. decision[rows[1]].seq \in Nat /\ decision[rows[1]].seq < decision[p].seq
      BY <1>3, <1>6, <1>7
    <3> QED
      BY <2>1, <3>1
  <2>3. j - 1 \in 1..i
    BY <1>4, <2>1, <2>2
  <2>4. Tail(rows)[j - 1] = rows[(j - 1) + 1] /\ (j - 1) + 1 = j
    BY <1>4, <2>1, <2>3
  <2> QED
    BY <2>1, <2>3, <2>4
<1>10. \A a : Unpublished(a)' = Unpublished(a)
  BY <1>1 DEF Unpublished, Approved, Decided, Published
<1>11. PageCovers(w)'
  BY <1>1, <1>8, <1>9, <1>10 DEF PageCovers
<1>12. \A p \in Unpublished(pub[w].after) : decision[p].seq <= decision[rows[1]].seq => rows[1] = p
  BY <1>3, <1>5
<1> QED
  BY <1>1, <1>11, <1>12

\* Moving on within a row keeps the page.
LEMMA PageStays ==
  ASSUME NEW w \in Publishers, pub \in [Publishers -> Passes], NEW pc, NEW done,
         \/ pub' = [pub EXCEPT ![w].pc = pc]
         \/ pub' = [pub EXCEPT ![w].done = done, ![w].pc = pc]
         \/ pub' = [pub EXCEPT ![w].pc = pc, ![w].done = done]
  PROVE  pub'[w].rows = pub[w].rows /\ pub'[w].after = pub[w].after
<1>1. pub[w] \in Passes
  OBVIOUS
<1>2. CASE pub' = [pub EXCEPT ![w].pc = pc]
  <2>1. pub'[w] = [pub[w] EXCEPT !.pc = pc]
    BY <1>2
  <2> QED
    BY <1>1, <2>1 DEF Passes
<1>3. CASE \/ pub' = [pub EXCEPT ![w].done = done, ![w].pc = pc]
          \/ pub' = [pub EXCEPT ![w].pc = pc, ![w].done = done]
  <2>1. \/ pub'[w] = [pub[w] EXCEPT !.done = done, !.pc = pc]
        \/ pub'[w] = [pub[w] EXCEPT !.pc = pc, !.done = done]
    BY <1>3
  <2> QED
    BY <1>1, <2>1 DEF Passes
<1> QED
  BY <1>2, <1>3

\* What any step does to a publisher's page: it forgets it and starts over, leaves
\* it alone, reads it or takes a row of it.
LEMMA PageSteps ==
  ASSUME IndInv, [Next]_vars, NEW w \in Publishers
  PROVE  \/ pub'[w].rows = <<>> /\ pub'[w].after = 0
         \/ pub'[w].rows = pub[w].rows /\ pub'[w].after = pub[w].after
         \/ ReadPage(w) \/ TakeRow(w)
<1>1. pub[w] \in Passes /\ Idle.after = 0 /\ Idle.rows = <<>> /\ pub \in [Publishers -> Passes]
  BY PassFields DEF IndInv, TypeOK, Idle
<1>2. ASSUME NEW v \in Publishers, PassStep(v) \/ Fault(v)
      PROVE  \/ pub'[w].rows = <<>> /\ pub'[w].after = 0
             \/ pub'[w].rows = pub[w].rows /\ pub'[w].after = pub[w].after
             \/ ReadPage(w) \/ TakeRow(w)
  <2>1. CASE v # w
    <3>1. \E r : pub' = [pub EXCEPT ![v] = r]
      BY <1>2 DEF PassStep, Start, ReadPage, TakeRow, EndOfPage, BeginAppend, CommitAppend, StoreSigned, WriteReceipt,
         Fault, Abort, RowFails, Crash, Goto, NextRow
    <3> QED
      BY <1>1, <2>1, <3>1
  <2>2. CASE v = w /\ (Start(w) \/ Abort(w) \/ Crash(w))
    <3>1. pub'[w].rows = <<>> /\ pub'[w].after = 0
      BY <1>1, <2>2 DEF Start, Abort, Crash, Idle
    <3> QED BY <3>1
  <2>3. CASE v = w /\ (EndOfPage(w) \/ BeginAppend(w) \/ CommitAppend(w) \/ StoreSigned(w) \/ WriteReceipt(w) \/ RowFails(w))
    <3>1. CASE EndOfPage(w) \/ BeginAppend(w) \/ CommitAppend(w)
      <4>1. PICK pc : Goto(w, pc)
        BY <3>1 DEF EndOfPage, BeginAppend, CommitAppend
      <4> QED
        BY <1>1, <4>1, PageStays DEF Goto
    <3>2. CASE StoreSigned(w)
      <4>1. PICK done, pc : pub' = [pub EXCEPT ![w].done = done, ![w].pc = pc]
        BY <3>2 DEF StoreSigned
      <4> QED
        BY <1>1, <4>1, PageStays
    <3>3. CASE WriteReceipt(w) \/ RowFails(w)
      <4>1. pub' = [pub EXCEPT ![w].pc = "row", ![w].done = <<>>]
        BY <3>3 DEF WriteReceipt, RowFails, NextRow
      <4> QED
        BY <1>1, <4>1, PageStays
    <3> QED
      BY <2>3, <3>1, <3>2, <3>3
  <2> QED
    BY <1>2, <2>1, <2>2, <2>3 DEF PassStep, Fault
<1>3. CASE UNCHANGED pub
  BY <1>3
<1> QED
  BY <1>2, <1>3 DEF Next, Freeze, Supersede, Decide, RevokeMember, vars

LEMMA CursorStep == IndInv /\ IndInv' /\ CursorInv /\ [Next]_vars => CursorInv'
<1> SUFFICES ASSUME IndInv, IndInv', CursorInv, [Next]_vars PROVE CursorInv'
  OBVIOUS
<1>1. Later /\ Sequenced'
  BY DecisionsLater DEF CursorInv
<1>2. ASSUME NEW w \in Publishers PROVE PageCovers(w)'
  BY <1>1, PageSteps, NoRowsCover, CoversFrame, CoversReadPage, CoversTakeRow DEF CursorInv
<1> QED
  BY <1>1, <1>2 DEF CursorInv

LEMMA CursorHolds == Spec => []CursorInv
<1>1. Init => CursorInv
  <2> SUFFICES ASSUME Init PROVE CursorInv
    OBVIOUS
  <2>1. DecidedOnes = {} /\ \A w \in Publishers : pub[w].rows = <<>>
    BY DEF Init, DecidedOnes, Decided, Undecided, Idle
  <2> QED
    BY <2>1 DEF CursorInv, Sequenced, PageCovers
<1> QED
  BY <1>1, CursorStep, PublicationInvariant, PTL DEF Spec

\* A publisher's cursor passes an approval that is not published only by taking
\* it up, whatever other publishers publish and whatever is decided meanwhile: a
\* row that fails, or can never be built, costs none of the rows after it.
CursorSkipsNobody ==
  [][\A w \in Publishers, p \in Proposals :
       /\ Approved(p) /\ ~Published(p)
       /\ pub[w].after < decision[p].seq /\ decision[p].seq <= pub'[w].after
       => pub'[w].prop = p]_vars

THEOREM PublicationSkipsNobody == Spec => CursorSkipsNobody
<1>1. ASSUME IndInv, CursorInv, [Next]_vars, NEW w \in Publishers, NEW p \in Proposals, Approved(p), ~Published(p),
             pub[w].after < decision[p].seq, decision[p].seq <= pub'[w].after
      PROVE  pub'[w].prop = p
  <2>1. p \in Unpublished(pub[w].after) /\ decision[p].seq \in Nat /\ pub[w].after \in Nat
    BY <1>1, PassFields, SequenceTypes DEF Unpublished, IndInv
  <2>2. CASE ReadPage(w)
    <3>1. pub'[w].after = 0 \/ pub'[w].after = pub[w].after
      <4>1. \E n, rows : pub' = [pub EXCEPT ![w] = IF n = 0 THEN Idle ELSE [@ EXCEPT !.pc = "row", !.rows = rows]]
        BY <2>2 DEF ReadPage
      <4> QED
        BY <1>1, <4>1, PassFields DEF IndInv, TypeOK, Passes, Idle
    <3> QED
      BY <1>1, <2>1, <3>1
  <2>3. CASE TakeRow(w)
    BY <1>1, <2>1, <2>3, CoversTakeRow
  <2> QED
    BY <1>1, <2>1, <2>2, <2>3, PageSteps
<1>2. IndInv /\ CursorInv /\ [Next]_vars =>
        [\A w \in Publishers, p \in Proposals :
           /\ Approved(p) /\ ~Published(p)
           /\ pub[w].after < decision[p].seq /\ decision[p].seq <= pub'[w].after
           => pub'[w].prop = p]_vars
  BY <1>1
<1> QED
  BY <1>2, CursorHolds, PublicationInvariant, PTL DEF Spec, CursorSkipsNobody
=============================================================================
