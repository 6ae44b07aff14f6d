------------------------ MODULE ServiceLifecycle_proofs ------------------------
(***************************************************************************)
(* Proofs about ServiceLifecycle, for any approvals and lanes: the writer  *)
(* gate runs one turn at a time, close() closes the database after         *)
(* everything that uses it, no wake is lost, and drain() is a barrier.     *)
(*                                                                         *)
(* Every step of the service is a step of the gate or leaves it alone.     *)
(* The flag and the order of the chain carry the gate: only the first      *)
(* turn of the chain can be running, and without the flag there is no      *)
(* chain for a turn started on its caller's stack to overtake.             *)
(*                                                                         *)
(* The second half is about the slots the service's model calls wait for,  *)
(* the two limiters of ModelCallLimiter.                                   *)
(***************************************************************************)
EXTENDS ServiceLifecycle, ModelCallLimiter, FiniteSetTheorems, SequenceTheorems, TLAPS

\* The gate's inductive invariant.
GateInv ==
  /\ chain \in Seq(Gate!Turns)
  /\ exclusiveActive \in BOOLEAN
  /\ \A i \in 1..Len(chain) : chain[i].started => i = 1
  /\ exclusiveActive <=> chain # <<>>

\* Whoever runs, runs alone.
LEMMA GateAlone == GateInv => Gate!GateExclusive
BY LenProperties DEF GateInv, Gate!GateExclusive, Gate!Running

LEMMA GateStarts == Gate!GateInit => GateInv
<1> SUFFICES ASSUME Gate!GateInit PROVE GateInv
  OBVIOUS
<1>1. chain = <<>> /\ exclusiveActive = FALSE
  BY DEF Gate!GateInit
<1>2. chain \in Seq(Gate!Turns)
  BY <1>1, EmptySeq
<1>3. Len(chain) = 0
  BY <1>1, EmptySeq
<1>4. \A i \in 1..Len(chain) : chain[i].started => i = 1
  BY <1>3
<1> QED BY <1>1, <1>2, <1>4 DEF GateInv

\* A request appends a turn that waits, or starts the first turn of no chain.
LEMMA RequestKeeps ==
  ASSUME NEW op \in Publishing \cup {"barrier"}, GateInv, Gate!RunExclusive(op)
  PROVE  GateInv'
<1>1. CASE exclusiveActive
  <2>1. chain' = Append(chain, Gate!Turn(op, FALSE)) /\ exclusiveActive' = TRUE
    BY <1>1 DEF Gate!RunExclusive, Gate!StartsAtOnce, GateInv
  <2>2. Gate!Turn(op, FALSE) \in Gate!Turns /\ Gate!Turn(op, FALSE).started = FALSE
    BY DEF Gate!Turn, Gate!Turns
  <2>3. /\ chain' \in Seq(Gate!Turns) /\ Len(chain') = Len(chain) + 1
        /\ \A i \in 1..Len(chain) : chain'[i] = chain[i]
        /\ chain'[Len(chain) + 1] = Gate!Turn(op, FALSE)
    <3>1. chain \in Seq(Gate!Turns)
      BY DEF GateInv
    <3> DEFINE turn == Gate!Turn(op, FALSE)
    <3> HIDE DEF turn
    <3>2. turn \in Gate!Turns
      BY <2>2 DEF turn
    <3>3. /\ Append(chain, turn) \in Seq(Gate!Turns) /\ Len(Append(chain, turn)) = Len(chain) + 1
          /\ \A i \in 1..Len(chain) : Append(chain, turn)[i] = chain[i]
          /\ Append(chain, turn)[Len(chain) + 1] = turn
      BY <3>1, <3>2, AppendProperties
    <3>4. chain' = Append(chain, turn)
      BY <2>1 DEF turn
    <3>5. turn = Gate!Turn(op, FALSE)
      BY DEF turn
    <3> QED BY <3>3, <3>4, <3>5, Zenon
  <2>4. \A i \in 1..Len(chain') : chain'[i].started => i = 1
    <3>1. Len(chain) \in Nat /\ \A i \in 1..Len(chain) : chain[i].started => i = 1
      BY LenProperties DEF GateInv
    <3>2. \A i \in 1..Len(chain') : i \in 1..Len(chain) \/ i = Len(chain) + 1
      BY <2>3, <3>1
    <3> QED BY <2>2, <2>3, <3>1, <3>2
  <2>5. chain' # <<>>
    BY <2>3, EmptySeq, LenProperties DEF GateInv
  <2> QED BY <2>1, <2>3, <2>4, <2>5 DEF GateInv
<1>2. CASE ~exclusiveActive /\ Aborted
  BY <1>2 DEF Gate!RunExclusive, GateInv
<1>3. CASE ~exclusiveActive /\ ~Aborted
  <2>1. chain' = Append(<<>>, Gate!Turn(op, Gate!StartsAtOnce)) /\ exclusiveActive' = TRUE
    BY <1>3 DEF Gate!RunExclusive, GateInv
  <2>2. Gate!Turn(op, Gate!StartsAtOnce) \in Gate!Turns
    BY <1>3 DEF Gate!Turn, Gate!Turns, Gate!StartsAtOnce
  <2>3. chain' \in Seq(Gate!Turns) /\ Len(chain') = 1
    BY <2>1, <2>2, EmptySeq, AppendProperties
  <2>4. chain' # <<>>
    BY <2>3
  <2> QED BY <2>1, <2>3, <2>4 DEF GateInv
<1> QED BY <1>1, <1>2, <1>3

LEMMA StartKeeps ==
  ASSUME NEW op \in Publishing \cup {"barrier"}, GateInv, Gate!StartTurn(op)
  PROVE  GateInv'
<1>1. chain # <<>> /\ exclusiveActive
  BY DEF Gate!StartTurn, Gate!MayStart, GateInv
<1>2. 1 \in 1..Len(chain) /\ DOMAIN chain = 1..Len(chain) /\ chain[1] \in Gate!Turns
  BY <1>1, EmptySeq, LenProperties, ElementOfSeq DEF GateInv
<1>3. [chain[1] EXCEPT !.started = TRUE] \in Gate!Turns
  BY <1>2 DEF Gate!Turns
<1>4. chain' = [chain EXCEPT ![1] = [chain[1] EXCEPT !.started = TRUE]]
  BY DEF Gate!StartTurn
<1>5. chain' \in Seq(Gate!Turns) /\ Len(chain') = Len(chain)
  BY <1>2, <1>3, <1>4, ExceptSeq DEF GateInv
<1>6. \A i \in 1..Len(chain') : i # 1 => chain'[i] = chain[i]
  BY <1>2, <1>4, <1>5
<1>7. chain' # <<>>
  BY <1>2, <1>5, EmptySeq
<1> QED BY <1>1, <1>5, <1>6, <1>7 DEF GateInv, Gate!StartTurn

LEMMA LeaveIsTail ==
  ASSUME GateInv, chain # <<>>, Gate!Leave(1)
  PROVE  /\ chain' = Tail(chain) /\ chain' \in Seq(Gate!Turns) /\ Len(chain') = Len(chain) - 1
         /\ \A i \in 1..Len(chain') : chain'[i] = chain[i + 1]
<1>1. /\ Tail(chain) \in Seq(Gate!Turns) /\ Len(Tail(chain)) = Len(chain) - 1
      /\ \A i \in 1..Len(Tail(chain)) : Tail(chain)[i] = chain[i + 1]
  BY HeadTailProperties DEF GateInv
<1>2. SubSeq(chain, 2, Len(chain)) = Tail(chain)
  BY TailIsSubSeq DEF GateInv
<1>3. SubSeq(chain, 1, 1 - 1) = <<>>
  BY SubSeqEmpty DEF GateInv
<1>4. chain' = Tail(chain)
  BY <1>1, <1>2, <1>3, ConcatEmptySeq DEF Gate!Leave
<1> QED
  BY <1>1, <1>4

\* The first turn leaves: all that remain were waiting, and if it was also the
\* last one the flag falls with it.
LEMMA LeaveKeeps ==
  ASSUME GateInv, chain # <<>>, Gate!Leave(1)
  PROVE  GateInv'
<1>1. Len(chain) \in Nat \ {0} /\ exclusiveActive
  BY EmptySeq DEF GateInv
<1>2. \A i \in 1..Len(chain') : ~chain'[i].started
  BY <1>1, LeaveIsTail DEF GateInv
<1>3. chain' = <<>> <=> Len(chain) = 1
  BY <1>1, LeaveIsTail, EmptySeq
<1>4. exclusiveActive' = IF 1 = Len(chain) THEN FALSE ELSE exclusiveActive
  BY DEF Gate!Leave, Gate!LeavesIdle
<1> QED BY <1>1, <1>2, <1>3, <1>4, LeaveIsTail DEF GateInv

LEMMA EndKeeps ==
  ASSUME NEW op, GateInv, Gate!EndTurn(op) \/ Gate!RefuseTurn(op)
  PROVE  GateInv'
<1>1. CASE Gate!EndTurn(op)
  <2>1. PICK i \in Gate!Running : Gate!Leave(i)
    BY <1>1 DEF Gate!EndTurn
  <2>2. i = 1 /\ chain # <<>>
    BY <2>1, EmptySeq, LenProperties DEF Gate!Running, GateInv
  <2> QED BY <2>1, <2>2, LeaveKeeps
<1>2. CASE Gate!RefuseTurn(op)
  BY <1>2, LeaveKeeps DEF Gate!RefuseTurn, Gate!MayStart
<1> QED BY <1>1, <1>2

\* A turn of op runs; it is the first of the chain.
Runs(op) == chain # <<>> /\ chain[1].op = op /\ chain[1].started

\* A request does not disturb the turn that runs, and its own runs if it starts at once.
LEMMA RequestRuns ==
  ASSUME NEW op \in Publishing \cup {"barrier"}, NEW other, GateInv, Gate!RunExclusive(op)
  PROVE  (Runs(other) => Runs(other)') /\ (Gate!StartsAtOnce => Runs(op)')
<1> DEFINE turn == Gate!Turn(op, Gate!StartsAtOnce)
<1>1. turn \in Gate!Turns /\ turn.op = op /\ turn.started = Gate!StartsAtOnce
  BY DEF Gate!Turn, Gate!Turns, Gate!StartsAtOnce, GateInv
<1> HIDE DEF turn
<1>2. exclusiveActive \/ ~Aborted => chain' = Append(chain, turn)
  BY DEF Gate!RunExclusive, turn
<1>3. /\ Append(chain, turn) \in Seq(Gate!Turns) /\ Len(Append(chain, turn)) = Len(chain) + 1
      /\ \A i \in 1..Len(chain) : Append(chain, turn)[i] = chain[i]
      /\ Append(chain, turn)[Len(chain) + 1] = turn
  BY <1>1, AppendProperties DEF GateInv
<1>4. Append(chain, turn) # <<>> /\ Len(chain) \in Nat
  BY <1>3, LenProperties DEF GateInv
<1>5. ASSUME Runs(other) PROVE Runs(other)'
  <2>1. exclusiveActive /\ 1 \in 1..Len(chain)
    BY <1>5, EmptySeq DEF Runs, GateInv
  <2> QED
    BY <1>2, <1>3, <1>4, <1>5, <2>1 DEF Runs
<1>6. ASSUME Gate!StartsAtOnce PROVE Runs(op)'
  <2>1. chain = <<>> /\ chain' = Append(chain, turn)
    BY <1>2, <1>6 DEF Gate!StartsAtOnce, GateInv
  <2>2. Len(chain) + 1 = 1
    BY <2>1, EmptySeq
  <2> QED
    BY <1>1, <1>3, <1>4, <1>6, <2>1, <2>2 DEF Runs
<1> QED
  BY <1>5, <1>6

LEMMA StartRuns ==
  ASSUME NEW op \in Publishing \cup {"barrier"}, GateInv, Gate!StartTurn(op)
  PROVE  Runs(op)' /\ \A other : ~Runs(other)
<1>1. 1 \in 1..Len(chain) /\ chain[1] \in Gate!Turns /\ chain[1].op = op /\ ~chain[1].started
  BY EmptySeq, ElementOfSeq DEF Gate!StartTurn, Gate!MayStart, GateInv
<1>2. chain' # <<>>
  BY StartKeeps DEF GateInv, Gate!StartTurn, Gate!MayStart
<1>3. chain'[1] = [chain[1] EXCEPT !.started = TRUE]
  BY <1>1, LenProperties DEF Gate!StartTurn, GateInv
<1> QED
  BY <1>1, <1>2, <1>3 DEF Runs, Gate!Turns

\* The turn that settles is the one that runs.
LEMMA EndRuns ==
  ASSUME NEW op, GateInv, Gate!EndTurn(op)
  PROVE  Runs(op) /\ \A other : Runs(other) => other = op
<1>1. PICK i \in Gate!Running : chain[i].op = op
  BY DEF Gate!EndTurn
<1>2. i = 1 /\ chain # <<>> /\ chain[1].started
  BY <1>1, EmptySeq, LenProperties DEF Gate!Running, GateInv
<1> QED
  BY <1>1, <1>2 DEF Runs

LEMMA RunsRuns ==
  ASSUME NEW op, GateInv, Runs(op)
  PROVE  \E i \in Gate!Running : chain[i].op = op
<1>1. 1 \in DOMAIN chain
  BY EmptySeq, LenProperties DEF Runs, GateInv
<1> QED
  BY <1>1 DEF Runs, Gate!Running

\* What the gate may do in a step of the service.
GateMoves ==
  \/ UNCHANGED gate
  \/ \E op \in Publishing \cup {"barrier"} :
       Gate!RunExclusive(op) \/ Gate!StartTurn(op) \/ Gate!EndTurn(op) \/ Gate!RefuseTurn(op)

LEMMA CycleMoves == Cycle => GateMoves
<1> SUFFICES ASSUME Cycle PROVE GateMoves
  OBVIOUS
<1>1. CASE CycleStarts
  BY <1>1 DEF CycleStarts, Asks, GateMoves, Publishing
<1>2. CASE CycleRecovered
  BY <1>2 DEF CycleRecovered, GateMoves, Publishing
<1>3. CASE CycleIntake
  BY <1>3 DEF CycleIntake, Asks, GateMoves, Publishing
<1>4. CASE CycleIntakeFails
  BY <1>4 DEF CycleIntakeFails, GateMoves
<1>5. CASE CyclePublished
  BY <1>5 DEF CyclePublished, GateMoves, Publishing
<1>6. CASE CycleRefused
  BY <1>6 DEF CycleRefused, GateMoves, Publishing
<1>7. CASE LoopEnds
  BY <1>7 DEF LoopEnds, GateMoves
<1> QED BY <1>1, <1>2, <1>3, <1>4, <1>5, <1>6, <1>7 DEF Cycle

LEMMA WakesMove == Wakes => GateMoves
<1> SUFFICES ASSUME Wakes PROVE GateMoves
  OBVIOUS
<1>1. CASE PublicationAsks
  BY <1>1 DEF PublicationAsks, Asks, GateMoves, Publishing
<1>2. CASE PublicationEnds
  BY <1>2 DEF PublicationEnds, GateMoves, Publishing
<1>3. CASE PublicationRefused
  BY <1>3 DEF PublicationRefused, GateMoves, Publishing
<1>4. CASE SearchStarts \/ SearchEnds \/ CardsStart \/ CardsEnd
  BY <1>4 DEF SearchStarts, SearchEnds, CardsStart, CardsEnd, GateMoves
<1> QED BY <1>1, <1>2, <1>3, <1>4 DEF Wakes

LEMMA DrainMoves == Drain => GateMoves
<1> SUFFICES ASSUME Drain PROVE GateMoves
  OBVIOUS
<1>1. CASE DrainAsks
  BY <1>1 DEF DrainAsks, GateMoves
<1>2. CASE DrainTurnEnds
  BY <1>2 DEF DrainTurnEnds, GateMoves
<1>3. CASE DrainCalled \/ DrainLooksAgain \/ DrainReturns \/ DrainRejects
  BY <1>3 DEF DrainCalled, DrainLooksAgain, DrainReturns, DrainRejects, GateMoves
<1> QED BY <1>1, <1>2, <1>3 DEF Drain

LEMMA NextMoves == [Next]_vars => GateMoves
<1> SUFFICES ASSUME [Next]_vars PROVE GateMoves
  OBVIOUS
<1>1. CASE \E op \in Publishing \cup {"barrier"} : TurnStarts(op)
  BY <1>1 DEF TurnStarts, GateMoves
<1>2. CASE LanesRun
  BY <1>2 DEF LanesRun, LaneSettles, LaneRefills, UngatedCalled, UngatedStarts, UngatedEnds, GateMoves
<1>3. CASE \E a \in Approvals : Decide(a)
  BY <1>3 DEF Decide, GateMoves
<1>4. CASE Close \/ GraceEnds \/ CloseWaited
  BY <1>4 DEF Close, GraceEnds, CloseWaited, GateMoves
<1>5. CASE UNCHANGED vars
  BY <1>5 DEF vars, gate, GateMoves
<1> QED BY <1>1, <1>2, <1>3, <1>4, <1>5, CycleMoves, WakesMove, DrainMoves DEF Next, Service

LEMMA MovesKeep ==
  ASSUME GateInv, GateMoves
  PROVE  GateInv'
<1>1. CASE UNCHANGED gate
  BY <1>1 DEF gate, GateInv, Gate!Turns
<1>2. ASSUME NEW op \in Publishing \cup {"barrier"},
             Gate!RunExclusive(op) \/ Gate!StartTurn(op) \/ Gate!EndTurn(op) \/ Gate!RefuseTurn(op)
      PROVE  GateInv'
  <2>1. CASE Gate!RunExclusive(op)
    BY <2>1, RequestKeeps
  <2>2. CASE Gate!StartTurn(op)
    BY <2>2, StartKeeps
  <2>3. CASE Gate!EndTurn(op) \/ Gate!RefuseTurn(op)
    BY <2>3, EndKeeps
  <2> QED BY <1>2, <2>1, <2>2, <2>3
<1> QED BY <1>1, <1>2 DEF GateMoves

LEMMA GateStays == Spec => []GateInv
<1>1. Init => GateInv
  BY GateStarts DEF Init, Gate!GateInit
<1>2. GateInv /\ [Next]_vars => GateInv'
  BY NextMoves, MovesKeep
<1> QED BY <1>1, <1>2, PTL DEF Spec

\* The service's own turns, wakes, drains and shutdown never make two turns run together.
THEOREM ServiceGateExclusive == Spec => []GateExclusive
<1>1. GateInv => GateExclusive
  BY GateAlone DEF GateExclusive, Gate!GateExclusive, Gate!Running
<1> QED BY <1>1, GateStays, PTL

-----------------------------------------------------------------------------
(* Types.                                                                    *)

Promises == {"publication", "cards", "cycle", "ungated", "lanes"}

LEMMA PromisesAre == DOMAIN Resolved = Promises
BY DEF Resolved, Promises

\* What the service keeps, and what a waiting drain keeps.
ServiceTyped ==
  /\ passes \subseteq 0..Lanes /\ ungated \in {"none", "waiting", "running"}
  /\ worker \in {"pause", "recover", "intake", "publish", "done"}
  /\ publication \in {"none", "requested", "queued"}
  /\ {cards, search} \subseteq {"idle", "scheduled", "active"}
  /\ {cardsWanted, searchWanted} \subseteq BOOLEAN
  /\ seen \cup published \cup lost \subseteq decided /\ decided \subseteq Approvals
  /\ indexed \cup building \subseteq published
  /\ closing \in {"no", "grace", "loop", "tail", "lanes", "rest", "closed"}
DrainTyped ==
  /\ drain \in [at : {"off", "gather", "gate", "search"}, unresolved : SUBSET Promises, again : BOOLEAN]
  /\ owed \subseteq Approvals \cup 0..Lanes

LEMMA RequestsTyped ==
  ASSUME ServiceTyped
  PROVE  /\ RequestSearch => search' \in {"idle", "scheduled", "active"} /\ searchWanted' \in BOOLEAN
         /\ RequestCards => cards' \in {"idle", "scheduled", "active"} /\ cardsWanted' \in BOOLEAN
BY DEF ServiceTyped, RequestSearch, RequestCards, Closing

LEMMA CycleTyped == ServiceTyped /\ Cycle => ServiceTyped'
<1> SUFFICES ASSUME ServiceTyped, Cycle PROVE ServiceTyped'
  OBVIOUS
<1> USE DEF lanes, wakes
<1>1. CASE CycleStarts
  BY <1>1 DEF CycleStarts, Asks, Reads, PublicationAtStart, ServiceTyped
<1>2. ASSUME CycleEnds PROVE {worker'} \subseteq {"pause", "done"} /\ {cards', search'} \subseteq {"idle", "scheduled", "active"}
                             /\ {cardsWanted', searchWanted'} \subseteq BOOLEAN
  BY <1>2, RequestsTyped DEF CycleEnds, RequestBoth, ServiceTyped
<1>3. CASE CycleRecovered
  <2>1. /\ {worker'} \subseteq {"pause", "done", "intake"} /\ {cards', search'} \subseteq {"idle", "scheduled", "active"}
        /\ {cardsWanted', searchWanted'} \subseteq BOOLEAN
    BY <1>2, <1>3 DEF CycleRecovered, ServiceTyped
  <2> QED
    BY <1>3, <2>1 DEF CycleRecovered, Appends, ServiceTyped
<1>4. CASE CycleIntake
  <2>1. passes' \subseteq 0..Lanes
    BY <1>4, LanesInNat DEF CycleIntake, TopUp, LaneIds, ServiceTyped
  <2> QED
    BY <1>4, <2>1 DEF CycleIntake, TopUp, Asks, Reads, PublicationAtStart, ServiceTyped
<1>5. CASE CycleIntakeFails
  BY <1>2, <1>5 DEF CycleIntakeFails, records, ServiceTyped
<1>6. CASE CyclePublished
  BY <1>2, <1>6 DEF CyclePublished, Appends, ServiceTyped
<1>7. CASE CycleRefused \/ LoopEnds
  BY <1>7 DEF CycleRefused, LoopEnds, records, ServiceTyped
<1> QED
  BY <1>1, <1>3, <1>4, <1>5, <1>6, <1>7 DEF Cycle

LEMMA WakesTyped == ServiceTyped /\ Wakes => ServiceTyped'
<1> SUFFICES ASSUME ServiceTyped, Wakes PROVE ServiceTyped'
  OBVIOUS
<1> USE DEF lanes, wakes
<1>1. CASE PublicationAsks
  BY <1>1 DEF PublicationAsks, Asks, Reads, PublicationAtStart, ServiceTyped
<1>2. CASE PublicationEnds
  <2>1. {cards', search'} \subseteq {"idle", "scheduled", "active"} /\ {cardsWanted', searchWanted'} \subseteq BOOLEAN
    BY <1>2, RequestsTyped DEF PublicationEnds, RequestBoth
  <2> QED
    BY <1>2, <2>1 DEF PublicationEnds, Appends, ServiceTyped
<1>3. CASE PublicationRefused
  <2>1. {cards', search'} \subseteq {"idle", "scheduled", "active"} /\ {cardsWanted', searchWanted'} \subseteq BOOLEAN
    BY <1>3, RequestsTyped DEF PublicationRefused, RequestBoth
  <2> QED
    BY <1>3, <2>1 DEF PublicationRefused, records, ServiceTyped
<1>4. CASE SearchStarts
  BY <1>4 DEF SearchStarts, ServiceTyped
<1>5. CASE SearchEnds
  <2>1. search' \in {"idle", "scheduled"} /\ searchWanted' \in BOOLEAN
    BY <1>5 DEF SearchEnds, SearchAfter
  <2> QED
    BY <1>5, <2>1 DEF SearchEnds, ServiceTyped
<1>6. CASE CardsStart \/ CardsEnd
  BY <1>6 DEF CardsStart, CardsEnd, records, ServiceTyped, Closing
<1> QED
  BY <1>1, <1>2, <1>3, <1>4, <1>5, <1>6 DEF Wakes

LEMMA LanesTyped == ServiceTyped /\ LanesRun => ServiceTyped'
<1> SUFFICES ASSUME ServiceTyped, LanesRun PROVE ServiceTyped'
  OBVIOUS
<1>1. CASE LaneSettles
  BY <1>1, RequestsTyped DEF LaneSettles, records, ServiceTyped
<1>2. CASE LaneRefills
  <2>1. passes' \subseteq 0..Lanes
    BY <1>2, LanesInNat DEF LaneRefills, TopUp, LaneIds, ServiceTyped
  <2> QED
    BY <1>2, <2>1 DEF LaneRefills, TopUp, wakes, records, ServiceTyped
<1>3. CASE UngatedCalled \/ UngatedStarts \/ UngatedEnds
  <2>1. Targeted \in 0..Lanes
    BY LanesInNat DEF Targeted
  <2>2. passes' \subseteq passes \cup {Targeted}
    BY <1>3 DEF UngatedCalled, UngatedStarts, UngatedEnds
  <2>3. ungated' \in {"none", "waiting", "running"}
    BY <1>3 DEF UngatedCalled, UngatedStarts, UngatedEnds
  <2> QED
    BY <1>3, <2>1, <2>2, <2>3 DEF UngatedCalled, UngatedStarts, UngatedEnds, wakes, records, ServiceTyped
<1> QED
  BY <1>1, <1>2, <1>3 DEF LanesRun

LEMMA CloseTyped == ServiceTyped /\ (Close \/ GraceEnds \/ CloseWaited) => ServiceTyped'
<1> SUFFICES ASSUME ServiceTyped, Close \/ GraceEnds \/ CloseWaited PROVE ServiceTyped'
  OBVIOUS
<1>1. CASE Close
  BY <1>1 DEF Close, lanes, records, ServiceTyped
<1>2. CASE GraceEnds
  BY <1>2 DEF GraceEnds, lanes, wakes, records, ServiceTyped
<1>3. CASE CloseWaited
  <2>1. closing \in {"loop", "tail", "lanes", "rest"}
    BY <1>3 DEF CloseWaited, Settled
  <2>2. closing' \in {"tail", "lanes", "rest", "closed"}
    BY <1>3, <2>1 DEF CloseWaited, ClosesAfter
  <2> QED
    BY <1>3, <2>2 DEF CloseWaited, lanes, wakes, records, ServiceTyped
<1> QED
  BY <1>1, <1>2, <1>3

LEMMA ServiceTypedStep == ServiceTyped /\ [Next]_vars => ServiceTyped'
<1> SUFFICES ASSUME ServiceTyped, [Next]_vars PROVE ServiceTyped'
  OBVIOUS
<1>1. CASE \E op \in Publishing \cup {"barrier"} : TurnStarts(op)
  BY <1>1 DEF TurnStarts, Reads, PublicationAtStart, lanes, wakes, ServiceTyped
<1>2. CASE \E a \in Approvals : Decide(a)
  BY <1>2 DEF Decide, RequestPublication, lanes, wakes, ServiceTyped
<1>3. CASE UNCHANGED vars
  BY <1>3 DEF vars, lanes, wakes, records, ServiceTyped
<1>4. CASE Drain
  BY <1>4 DEF Drain, lanes, wakes, records, ServiceTyped
<1> QED
  BY <1>1, <1>2, <1>3, <1>4, CycleTyped, WakesTyped, LanesTyped, CloseTyped DEF Next, Service

LEMMA DrainTypedStep == ServiceTyped /\ DrainTyped /\ [Next]_vars => DrainTyped'
<1> SUFFICES ASSUME ServiceTyped, DrainTyped, [Next]_vars PROVE DrainTyped'
  OBVIOUS
<1>1. CASE DrainEnds
  BY <1>1 DEF DrainEnds, DrainTyped
<1>2. CASE DrainWatches /\ ~DrainEnds
  <2>1. owed' \subseteq owed
    BY <1>2 DEF DrainWatches
  <2>2. CASE UNCHANGED drain
    BY <2>1, <2>2 DEF DrainTyped
  <2>3. CASE drain' # drain
    <3> DEFINE left == {x \in drain.unresolved \ Replaced : ~Resolved'[x]}
    <3> DEFINE more == drain.again \/ Replaced # {}
    <3>1. drain' = [drain EXCEPT !.unresolved = left, !.again = more]
      BY <1>2, <2>3 DEF DrainWatches
    <3>2. left \subseteq drain.unresolved /\ more \in BOOLEAN
      BY DEF DrainTyped
    <3> HIDE DEF left, more
    <3> QED
      BY <2>1, <3>1, <3>2 DEF DrainTyped
  <2> QED
    BY <2>2, <2>3
<1>3. CASE Looks /\ owed' \subseteq Approvals \cup 0..Lanes
  <2> DEFINE left == {x \in DOMAIN Resolved : ~Resolved[x]}
  <2>1. drain' = [at |-> "gather", unresolved |-> left, again |-> FALSE]
    BY <1>3 DEF Looks
  <2>2. left \subseteq Promises
    BY PromisesAre
  <2> HIDE DEF left
  <2> QED
    BY <1>3, <2>1, <2>2 DEF DrainTyped
<1>4. CASE Drain
  <2>1. CASE DrainCalled
    <3>1. owed' \subseteq Approvals \cup 0..Lanes
      BY <2>1 DEF DrainCalled, ServiceTyped
    <3> QED
      BY <1>3, <2>1, <3>1 DEF DrainCalled
  <2>2. CASE DrainLooksAgain
    BY <1>3, <2>2 DEF DrainLooksAgain, DrainTyped
  <2>3. CASE DrainAsks \/ DrainTurnEnds
    BY <2>3 DEF DrainAsks, DrainTurnEnds, DrainTyped
  <2> QED
    BY <1>1, <1>4, <2>1, <2>2, <2>3 DEF Drain, DrainReturns, DrainRejects
<1>5. CASE UNCHANGED vars
  BY <1>5 DEF vars, DrainTyped
<1> QED
  BY <1>1, <1>2, <1>4, <1>5 DEF Next

\* Every value the service keeps stays in its range, and the records nest:
\* indexed ones are published, published and lost ones decided.
THEOREM ServiceStaysTyped == Spec => []TypeOK
<1>1. Init => ServiceTyped /\ DrainTyped
  <2>1. Init => ServiceTyped
    BY DEF Init, ServiceTyped
  <2>2. Init => DrainTyped
    BY DEF Init, DrainTyped
  <2> QED
    BY <2>1, <2>2
<1>2. GateInv /\ ServiceTyped /\ DrainTyped => TypeOK
  BY PromisesAre DEF GateInv, Gate!Turns, ServiceTyped, DrainTyped, TypeOK
<1> QED
  BY <1>1, <1>2, GateStays, ServiceTypedStep, DrainTypedStep, PTL DEF Spec

-----------------------------------------------------------------------------
(* close().  Each of its waits stays true once it is over: the loop does not *)
(* come back, the aborted worker takes no turn, and nothing else starts.     *)

QuietInv ==
  /\ closing \in {"tail", "lanes", "rest", "closed"} => worker = "done"
  /\ closing \in {"lanes", "rest", "closed"} => chain = <<>>
  /\ closing \in {"rest", "closed"} => passes = {}
  /\ closing = "closed" => search = "idle" /\ cards = "idle"

\* Without the flag, which an empty chain has not, an aborted gate takes no turn.
LEMMA EmptyStays ==
  ASSUME GateInv, chain = <<>>, Aborted, GateMoves
  PROVE  chain' = <<>>
<1>1. ~exclusiveActive
  BY DEF GateInv
<1>2. Gate!Running = {}
  BY DEF Gate!Running
<1>3. CASE UNCHANGED gate
  BY <1>3 DEF gate
<1>4. ASSUME NEW op \in Publishing \cup {"barrier"}, Gate!RunExclusive(op) PROVE chain' = <<>>
  BY <1>1, <1>4 DEF Gate!RunExclusive
<1>5. ASSUME NEW op \in Publishing \cup {"barrier"}, Gate!StartTurn(op) \/ Gate!EndTurn(op) \/ Gate!RefuseTurn(op)
      PROVE  FALSE
  BY <1>2, <1>5, Zenon DEF Gate!StartTurn, Gate!EndTurn, Gate!RefuseTurn, Gate!MayStart
<1> QED
  BY <1>3, <1>4, <1>5 DEF GateMoves

LEMMA QuietStep ==
  TypeOK /\ GateInv /\ QuietInv /\ [Next]_vars => QuietInv'
<1> SUFFICES ASSUME TypeOK, GateInv, QuietInv, [Next]_vars PROVE QuietInv'
  OBVIOUS
<1>1. CASE closing' # closing
  <2>1. Close \/ GraceEnds \/ CloseWaited
    <3>1. ~UNCHANGED vars /\ ~Drain
      BY <1>1 DEF vars, Drain
    <3>2. ~Cycle
      BY <1>1 DEF Cycle, CycleStarts, CycleRecovered, CycleIntake, CycleIntakeFails, CyclePublished, CycleRefused, LoopEnds
    <3>3. ~Wakes
      BY <1>1 DEF Wakes, PublicationAsks, PublicationEnds, PublicationRefused, SearchStarts, SearchEnds, CardsStart, CardsEnd
    <3>4. ~LanesRun /\ ~(\E a \in Approvals : Decide(a)) /\ ~(\E op \in Publishing \cup {"barrier"} : TurnStarts(op))
      BY <1>1 DEF LanesRun, LaneSettles, LaneRefills, UngatedCalled, UngatedStarts, UngatedEnds, Decide, TurnStarts
    <3> QED
      BY <3>1, <3>2, <3>3, <3>4 DEF Next, Service
  <2>2. CASE Close \/ GraceEnds
    BY <2>2 DEF Close, GraceEnds, QuietInv
  <2>3. CASE CloseWaited
    <3>1. /\ closing = "loop"  => closing' = "tail"   /\ worker = "done"
          /\ closing = "tail"  => closing' = "lanes"  /\ chain = <<>>
          /\ closing = "lanes" => closing' = "rest"   /\ passes = {}
          /\ closing = "rest"  => closing' = "closed" /\ search = "idle" /\ cards = "idle"
      <4>1. closing' = ClosesAfter[closing] /\ Settled[closing]
        BY <2>3 DEF CloseWaited
      <4>2. /\ ClosesAfter["loop"] = "tail" /\ ClosesAfter["tail"] = "lanes"
            /\ ClosesAfter["lanes"] = "rest" /\ ClosesAfter["rest"] = "closed"
        BY DEF ClosesAfter
      <4>3. /\ Settled["loop"] = (worker = "done") /\ Settled["tail"] = (chain = <<>>)
            /\ Settled["lanes"] = (passes = {})
            /\ Settled["rest"] = (search = "idle" /\ cards = "idle" /\ ungated = "none")
        BY DEF Settled
      <4> QED
        BY <4>1, <4>2, <4>3, Zenon
    <3>2. closing \in {"loop", "tail", "lanes", "rest"} /\ UNCHANGED <<worker, chain, passes, search, cards>>
      BY <2>3 DEF CloseWaited, Settled, lanes, gate, wakes
    <3> QED
      BY <3>1, <3>2 DEF QuietInv
  <2> QED
    BY <2>1, <2>2, <2>3
<1>2. CASE closing' = closing /\ Closing
  <2>1. closing \in {"tail", "lanes", "rest", "closed"} => worker' = worker
    <3> SUFFICES ASSUME closing \in {"tail", "lanes", "rest", "closed"} PROVE worker' = "done" /\ worker = "done"
      OBVIOUS
    <3>1. worker = "done" /\ Aborted
      BY DEF QuietInv, Aborted
    <3>2. ~Cycle
      BY <1>2, <3>1 DEF Cycle, CycleStarts, CycleRecovered, CycleIntake, CycleIntakeFails, CyclePublished, CycleRefused, LoopEnds
    <3>3. UNCHANGED worker
      BY <3>2 DEF Next, Service, Wakes, LanesRun, Drain, vars, TurnStarts, Decide, Close, GraceEnds, CloseWaited,
             PublicationAsks, PublicationEnds, PublicationRefused, SearchStarts, SearchEnds, CardsStart, CardsEnd,
             LaneSettles, LaneRefills, UngatedCalled, UngatedStarts, UngatedEnds
    <3> QED
      BY <3>1, <3>3
  <2>2. closing \in {"lanes", "rest", "closed"} => chain' = <<>>
    <3> SUFFICES ASSUME closing \in {"lanes", "rest", "closed"} PROVE chain' = <<>>
      OBVIOUS
    <3>1. chain = <<>> /\ Aborted
      BY DEF QuietInv, Aborted
    <3> QED
      BY <3>1, NextMoves, EmptyStays
  <2>3. passes = {} => passes' = {}
    <3> SUFFICES ASSUME passes = {}, passes' # {} PROVE FALSE
      OBVIOUS
    <3>1. ~UNCHANGED vars /\ ~Drain
      BY DEF vars, Drain, lanes
    <3>2. ~Cycle
      BY <1>2 DEF Cycle, CycleStarts, CycleRecovered, CycleIntake, CycleIntakeFails, CyclePublished, CycleRefused, LoopEnds, lanes, TopUp
    <3>3. ~Wakes
      BY DEF Wakes, PublicationAsks, PublicationEnds, PublicationRefused, SearchStarts, SearchEnds, CardsStart, CardsEnd, lanes
    <3>4. ~LanesRun
      BY <1>2 DEF LanesRun, LaneSettles, LaneRefills, UngatedCalled, UngatedStarts, UngatedEnds, TopUp
    <3>5. ~(Close \/ GraceEnds \/ CloseWaited \/ (\E a \in Approvals : Decide(a)) \/ (\E op \in Publishing \cup {"barrier"} : TurnStarts(op)))
      BY DEF Close, GraceEnds, CloseWaited, Decide, TurnStarts, lanes
    <3> QED
      BY <3>1, <3>2, <3>3, <3>4, <3>5 DEF Next, Service
  <2>4. search = "idle" => search' = "idle"
    <3>1. RequestSearch \/ UNCHANGED search \/ SearchStarts \/ SearchEnds \/ Close
      BY DEF Next, Service, Drain, vars, wakes, Cycle, CycleStarts, CycleRecovered, CycleIntake, CycleIntakeFails,
             CyclePublished, CycleRefused, LoopEnds, CycleEnds, RequestBoth, Wakes, PublicationAsks, PublicationEnds,
             PublicationRefused, CardsStart, CardsEnd, LanesRun, LaneSettles, LaneRefills, UngatedCalled,
             UngatedStarts, UngatedEnds, Decide, TurnStarts, GraceEnds, CloseWaited
    <3> QED
      BY <1>2, <3>1 DEF RequestSearch, SearchStarts, SearchEnds, Close
  <2>5. cards = "idle" => cards' = "idle"
    <3>1. RequestCards \/ UNCHANGED cards \/ CardsStart \/ CardsEnd \/ Close
      BY DEF Next, Service, Drain, vars, wakes, Cycle, CycleStarts, CycleRecovered, CycleIntake, CycleIntakeFails,
             CyclePublished, CycleRefused, LoopEnds, CycleEnds, RequestBoth, Wakes, PublicationAsks, PublicationEnds,
             PublicationRefused, SearchStarts, SearchEnds, LanesRun, LaneSettles, LaneRefills, UngatedCalled,
             UngatedStarts, UngatedEnds, Decide, TurnStarts, GraceEnds, CloseWaited
    <3> QED
      BY <1>2, <3>1 DEF RequestCards, CardsStart, CardsEnd, Close
  <2> QED
    BY <1>2, <2>1, <2>2, <2>3, <2>4, <2>5 DEF QuietInv
<1>3. CASE closing' = closing /\ ~Closing
  BY <1>3 DEF QuietInv, Closing
<1> QED
  BY <1>1, <1>2, <1>3

\* Nothing that uses the database handles runs once they are closed.
THEOREM ClosesQuietly == Spec => []ClosedQuiet
<1>1. Init => QuietInv
  BY DEF Init, QuietInv
<1>2. QuietInv => ClosedQuiet
  BY DEF QuietInv, ClosedQuiet, Gate!Running
<1> QED
  BY <1>1, <1>2, QuietStep, GateStays, ServiceStaysTyped, PTL DEF Spec

-----------------------------------------------------------------------------
(* Wakes.  An unpublished approval waits for the turn of its own request,    *)
(* which alone reads it for certain: a turn of the cycle may fail and leave  *)
(* it.  An indexed approval is among those the running build read.           *)

TurnComes(a) == publication # "none" \/ (a \in seen /\ Runs("request"))

BuildsOn == search = "active" => indexed \subseteq building

Comes(a) == IF a \in published THEN a \in indexed \/ SearchComes(a) ELSE TurnComes(a)

WakeInv == BuildsOn /\ (~Closing => \A a \in decided \ lost : Comes(a))

\* What the gate's operations do to the turn of the request.
LEMMA TurnKept ==
  ASSUME GateInv, NEW op \in Publishing \cup {"barrier"}, Runs("request")
  PROVE  /\ Gate!RunExclusive(op) => Runs("request")'
         /\ ~Gate!StartTurn(op)
         /\ Gate!EndTurn(op) => op = "request"
BY RequestRuns, StartRuns, EndRuns

LEMMA TurnBegins ==
  ASSUME GateInv, Gate!StartTurn("request") \/ (Gate!RunExclusive("request") /\ Gate!StartsAtOnce)
  PROVE  Runs("request")'
<1>1. "request" \in Publishing \cup {"barrier"}
  BY DEF Publishing
<1> QED
  BY <1>1, RequestRuns, StartRuns

LEMMA TurnLeft ==
  ASSUME UNCHANGED chain
  PROVE  Runs("request") => Runs("request")'
BY DEF Runs

LEMMA BuildsStep == TypeOK /\ BuildsOn /\ [Next]_vars => BuildsOn'
<1> SUFFICES ASSUME TypeOK, BuildsOn, [Next]_vars PROVE BuildsOn'
  OBVIOUS
<1>1. \/ SearchStarts \/ SearchEnds
      \/ UNCHANGED <<building, indexed>> /\ (search' = search \/ search' # "active")
  BY DEF Next, Service, Drain, vars, wakes, records, Cycle, CycleStarts, CycleRecovered, CycleIntake, CycleIntakeFails,
         CyclePublished, CycleRefused, LoopEnds, CycleEnds, RequestBoth, RequestSearch, Wakes, PublicationAsks,
         PublicationEnds, PublicationRefused, CardsStart, CardsEnd, LanesRun, LaneSettles, LaneRefills,
         UngatedCalled, UngatedStarts, UngatedEnds, Decide, TurnStarts, Close, GraceEnds, CloseWaited
<1>2. CASE SearchStarts
  BY <1>2 DEF SearchStarts, BuildsOn, TypeOK
<1>3. CASE SearchEnds
  BY <1>3 DEF SearchEnds, SearchAfter, BuildsOn
<1> QED
  BY <1>1, <1>2, <1>3 DEF BuildsOn

\* A turn is asked for, or starts, and nothing was appended meanwhile.
LEMMA AsksComes ==
  ASSUME TypeOK, GateInv, NEW op \in Publishing, NEW waiting, Asks(op, waiting),
         waiting = publication \/ (waiting # "none" /\ op = "request"),
         NEW a \in decided \ lost, TurnComes(a), op = "request" => publication # "none"
  PROVE  TurnComes(a)'
<1>1. Gate!RunExclusive(op) /\ (Runs("request") => Runs("request")')
  BY TurnKept DEF Asks
<1>2. CASE Gate!StartsAtOnce
  <2>1. seen' = decided /\ publication' = PublicationAtStart(op)
    BY <1>2 DEF Asks, Reads
  <2>2. op = "request" => Runs("request")'
    BY <1>1, <1>2, TurnBegins
  <2> QED
    BY <1>1, <2>1, <2>2 DEF PublicationAtStart, TurnComes
<1>3. CASE ~Gate!StartsAtOnce
  <2>1. UNCHANGED seen /\ publication' = waiting
    BY <1>3 DEF Asks
  <2> QED
    BY <1>1, <2>1 DEF TurnComes
<1> QED
  BY <1>2, <1>3

LEMMA CycleComes ==
  ASSUME TypeOK, GateInv, Cycle, ~Closing', ~Closing, \A a \in decided \ lost : Comes(a),
         NEW a \in decided' \ lost'
  PROVE  Comes(a)'
<1>1. ~Aborted /\ a \in decided \ lost /\ Comes(a) /\ UNCHANGED <<indexed, building>> /\ published \subseteq published'
  BY DEF Aborted, Closing, Cycle, CycleStarts, CycleRecovered, CycleIntake, CycleIntakeFails, CyclePublished,
         CycleRefused, LoopEnds, Appends, records, Gate!RefuseTurn
<1>2. CASE CycleStarts \/ CycleIntake
  <2>1. PICK op \in Publishing \ {"request"} : Asks(op, publication)
    BY <1>2 DEF CycleStarts, CycleIntake, Publishing
  <2>2. worker' \notin {"pause", "done"} /\ UNCHANGED published
    BY <1>2 DEF CycleStarts, CycleIntake
  <2>3. TurnComes(a) => TurnComes(a)'
    BY <1>1, <2>1, AsksComes
  <2> QED
    BY <1>1, <2>2, <2>3 DEF Comes, SearchComes
<1>3. ASSUME CycleEnds PROVE searchWanted'
  BY <1>1, <1>3 DEF CycleEnds, RequestBoth, RequestSearch
<1>4. CASE CycleRecovered \/ CyclePublished
  <2>1. SearchComes(a)'
    BY <1>3, <1>4 DEF CycleRecovered, CyclePublished, SearchComes
  <2>2. UNCHANGED publication /\ ~Runs("request")
    BY <1>4, TurnKept DEF CycleRecovered, CyclePublished, Publishing
  <2> QED
    BY <1>1, <2>1, <2>2 DEF Comes, TurnComes
<1>5. CASE CycleIntakeFails
  <2>1. SearchComes(a)' /\ UNCHANGED <<publication, published, seen, chain>>
    BY <1>3, <1>5 DEF CycleIntakeFails, SearchComes, records, gate
  <2> QED
    BY <1>1, <2>1, TurnLeft DEF Comes, TurnComes
<1>6. ~CycleRefused /\ ~LoopEnds
  BY <1>1 DEF CycleRefused, LoopEnds, Gate!RefuseTurn
<1> QED
  BY <1>2, <1>4, <1>5, <1>6 DEF Cycle

LEMMA WakesCome ==
  ASSUME TypeOK, GateInv, BuildsOn, Wakes, ~Closing', ~Closing, \A a \in decided \ lost : Comes(a),
         NEW a \in decided' \ lost'
  PROVE  Comes(a)'
<1> USE DEF wakes
<1>1. CASE PublicationAsks
  <2>1. a \in decided \ lost /\ Comes(a) /\ UNCHANGED <<published, indexed, SearchComes(a)>>
    BY <1>1 DEF PublicationAsks, SearchComes
  <2>2. TurnComes(a) => TurnComes(a)'
    BY <1>1, <2>1, AsksComes DEF PublicationAsks, Publishing
  <2> QED
    BY <2>1, <2>2 DEF Comes
<1>2. CASE PublicationEnds
  <2>1. searchWanted' /\ UNCHANGED <<publication, decided, indexed>> /\ lost' = lost \cup (seen \ published')
    BY <1>2 DEF PublicationEnds, RequestBoth, RequestSearch
  <2>2. a \in published' => Comes(a)'
    BY <2>1 DEF Comes, SearchComes
  <2>3. a \notin published' => publication # "none"
    <3>1. a \notin published' => a \notin published /\ a \notin seen
      BY <1>2, <2>1 DEF PublicationEnds, Appends
    <3> QED
      BY <2>1, <3>1 DEF Comes, TurnComes
  <2> QED
    BY <2>1, <2>2, <2>3 DEF Comes, TurnComes
<1>3. CASE SearchStarts
  <2>1. /\ a \in decided \ lost /\ Comes(a) /\ UNCHANGED <<published, seen, publication, chain>>
        /\ search' = "active" /\ building' = published
    BY <1>3 DEF SearchStarts, gate
  <2> QED
    BY <2>1, TurnLeft DEF Comes, TurnComes, SearchComes
<1>4. CASE SearchEnds
  <2>1. UNCHANGED <<published, decided, seen, publication, chain, worker>> /\ search = "active"
    BY <1>4 DEF SearchEnds, gate
  <2>2. CASE a \notin published
    <3>1. a \in decided \ lost
      BY <1>4, <2>1, <2>2 DEF SearchEnds, TypeOK
    <3> QED
      BY <2>1, <2>2, <3>1, TurnLeft DEF Comes, TurnComes
  <2>3. CASE a \in published
    <3>1. CASE indexed' = building /\ lost' = lost \ building /\ search' = SearchAfter(FALSE)
      <4>1. a \in building \/ a \in decided \ lost
        BY <2>1, <3>1
      <4>2. a \in building \/ searchWanted \/ worker \notin {"pause", "done"}
        BY <2>1, <2>3, <4>1 DEF Comes, SearchComes, BuildsOn
      <4>3. searchWanted => searchWanted'
        BY <1>4, <3>1 DEF SearchEnds, SearchAfter
      <4> QED
        BY <2>1, <2>3, <3>1, <4>2, <4>3 DEF Comes, SearchComes
    <3>2. CASE lost' = lost \cup (building \ indexed) /\ UNCHANGED indexed /\ search' = SearchAfter(FALSE)
      <4>1. a \in decided \ lost /\ (a \in building => a \in indexed)
        BY <2>1, <3>2
      <4>2. searchWanted => searchWanted'
        BY <1>4, <3>2 DEF SearchEnds, SearchAfter
      <4> QED
        BY <2>1, <2>3, <3>2, <4>1, <4>2 DEF Comes, SearchComes
    <3>3. CASE building # published /\ UNCHANGED <<indexed, lost>> /\ search' = SearchAfter(~Closing)
      <4>1. searchWanted'
        BY <1>4, <3>3 DEF SearchEnds, SearchAfter
      <4> QED
        BY <2>1, <2>3, <4>1 DEF Comes, SearchComes
    <3> QED
      BY <1>4, <3>1, <3>2, <3>3 DEF SearchEnds
  <2> QED
    BY <2>2, <2>3
<1>5. CASE CardsStart \/ CardsEnd
  <2>1. a \in decided \ lost /\ Comes(a) /\ UNCHANGED <<published, indexed, seen, publication, chain, SearchComes(a)>>
    BY <1>5 DEF CardsStart, CardsEnd, gate, records, SearchComes
  <2> QED
    BY <2>1, TurnLeft DEF Comes, TurnComes
<1>6. ~PublicationRefused
  BY DEF PublicationRefused, Gate!RefuseTurn, Aborted, Closing
<1> QED
  BY <1>1, <1>2, <1>3, <1>4, <1>5, <1>6 DEF Wakes

LEMMA WakeStep ==
  TypeOK /\ GateInv /\ WakeInv /\ [Next]_vars => WakeInv'
<1> SUFFICES ASSUME TypeOK, GateInv, WakeInv, [Next]_vars, ~Closing', NEW a \in decided' \ lost'
             PROVE  Comes(a)'
  BY BuildsStep DEF WakeInv
<1>1. ~Closing /\ BuildsOn /\ \A b \in decided \ lost : Comes(b)
  <2>1. ~(Close \/ GraceEnds \/ CloseWaited)
    <3>1. closing \in {"loop", "tail", "lanes", "rest"} => ClosesAfter[closing] # "no"
      BY DEF ClosesAfter
    <3>2. CloseWaited => closing \in {"loop", "tail", "lanes", "rest"} /\ closing' = ClosesAfter[closing]
      BY DEF CloseWaited, Settled
    <3> QED
      BY <3>1, <3>2 DEF Close, GraceEnds, Closing
  <2>2. UNCHANGED closing
    BY <2>1 DEF Next, Service, Drain, vars, Cycle, CycleStarts, CycleRecovered, CycleIntake, CycleIntakeFails,
           CyclePublished, CycleRefused, LoopEnds, Wakes, PublicationAsks, PublicationEnds, PublicationRefused,
           SearchStarts, SearchEnds, CardsStart, CardsEnd, LanesRun, LaneSettles, LaneRefills, UngatedCalled,
           UngatedStarts, UngatedEnds, Decide, TurnStarts
  <2>3. ~Closing
    BY <2>2 DEF Closing
  <2> QED
    BY <2>3 DEF WakeInv
<1>2. CASE Cycle \/ Wakes
  BY <1>1, <1>2, CycleComes, WakesCome
<1>3. ASSUME UNCHANGED <<publication, seen, published, indexed, building, decided, lost, worker, search, searchWanted>>,
             Runs("request") => Runs("request")'
      PROVE  Comes(a)'
  BY <1>1, <1>3 DEF Comes, TurnComes, SearchComes
<1>4. ASSUME NEW op \in Publishing \cup {"barrier"}, TurnStarts(op) PROVE Comes(a)'
  <2>1. a \in decided \ lost /\ Comes(a) /\ UNCHANGED <<published, indexed, SearchComes(a)>>
    BY <1>1, <1>4 DEF TurnStarts, wakes, SearchComes
  <2>2. Gate!StartTurn(op) /\ ~Runs("request")
    BY <1>4, TurnKept DEF TurnStarts
  <2>3. TurnComes(a) => TurnComes(a)'
    <3>1. CASE op = "request"
      BY <1>4, <2>1, <2>2, <3>1, TurnBegins DEF TurnStarts, Reads, Publishing, TurnComes
    <3>2. CASE op # "request"
      BY <1>4, <2>2, <3>2 DEF TurnStarts, PublicationAtStart, TurnComes
    <3> QED
      BY <3>1, <3>2
  <2> QED
    BY <2>1, <2>3 DEF Comes
<1>5. CASE LanesRun
  BY <1>3, <1>5, TurnLeft
  DEF LanesRun, LaneSettles, LaneRefills, UngatedCalled, UngatedStarts, UngatedEnds, gate, wakes, records
<1>6. ASSUME NEW b \in Approvals, Decide(b) PROVE Comes(a)'
  <2>1. /\ UNCHANGED <<seen, published, indexed, lost, chain, SearchComes(a)>>
        /\ publication # "none" => publication' # "none"
    BY <1>1, <1>6 DEF Decide, RequestPublication, gate, wakes, SearchComes
  <2>2. CASE a = b
    BY <1>1, <1>6, <2>1, <2>2 DEF Decide, RequestPublication, Comes, TurnComes, TypeOK
  <2>3. CASE a # b
    <3>1. Comes(a)
      BY <1>1, <1>6, <2>3 DEF Decide
    <3> QED
      BY <2>1, <3>1, TurnLeft DEF Comes, TurnComes
  <2> QED
    BY <2>2, <2>3
<1>7. CASE Drain
  <2>1. UNCHANGED <<publication, seen, published, indexed, building, decided, lost, worker, search, searchWanted>>
    BY <1>7 DEF Drain, wakes, records
  <2>2. Runs("request") => Runs("request")'
    <3>1. CASE DrainAsks
      BY <3>1, TurnKept DEF DrainAsks
    <3>2. CASE DrainTurnEnds
      <4>1. ~Gate!RefuseTurn("barrier")
        BY <1>1 DEF Gate!RefuseTurn, Aborted, Closing
      <4> QED
        BY <3>2, <4>1, TurnKept DEF DrainTurnEnds
    <3>3. CASE DrainCalled \/ DrainLooksAgain \/ DrainReturns \/ DrainRejects
      BY <3>3, TurnLeft DEF DrainCalled, DrainLooksAgain, DrainReturns, DrainRejects, gate
    <3> QED
      BY <1>7, <3>1, <3>2, <3>3 DEF Drain
  <2> QED
    BY <1>3, <2>1, <2>2
<1>8. CASE UNCHANGED vars
  BY <1>3, <1>8, TurnLeft DEF vars, gate, wakes, records
<1>9. ~(Close \/ GraceEnds \/ CloseWaited)
  BY <1>1 DEF Close, GraceEnds, CloseWaited, Settled, Closing
<1> QED
  BY <1>2, <1>4, <1>5, <1>6, <1>7, <1>8, <1>9 DEF Next, Service

LEMMA WakeStays == Spec => []WakeInv
<1>1. Init => WakeInv
  BY DEF Init, WakeInv, BuildsOn
<1> QED
  BY <1>1, WakeStep, GateStays, ServiceStaysTyped, PTL DEF Spec

\* Until close, no decided approval is forgotten between the database, the record
\* log and the search generation.
THEOREM WakesAreKept == Spec => []NoLostWake
<1>1. GateInv /\ WakeInv => NoLostWake
  <2>1. GateInv /\ Runs("request") => \E i \in Gate!Running : chain[i].op \in Publishing
    BY RunsRuns DEF Gate!Running, Publishing
  <2> QED
    BY <2>1 DEF WakeInv, Comes, TurnComes, NoLostWake, PublicationComes
<1> QED
  BY <1>1, WakeStays, GateStays, PTL

-----------------------------------------------------------------------------
(* drain().  A promise it waits for is resolved, still among the unresolved  *)
(* ones, or was replaced, in which case drain() looks again.  What it owes   *)
(* is on its way, by NoLostWake's invariant, or a pass that its promise of   *)
(* the lanes covers.                                                         *)

Waited == {"publication", "cycle"}

DrainInv ==
  /\ Draining => ~Closing
  /\ Draining /\ ~drain.again => \A x \in Waited : ~Resolved[x] => drain.at = "gather" /\ x \in drain.unresolved
  /\ drain.at = "off" => owed = {}
  /\ \A o \in owed :
       \/ o \in decided \ (indexed \cup lost)
       \/ o \in passes /\ drain.at = "gather" /\ "lanes" \in drain.unresolved
  /\ searchWanted => search # "idle"

ResolvedMeans ==
  /\ Resolved["publication"] <=> publication = "none" /\ Gate!TurnsOf("request") = {}
  /\ Resolved["cycle"] <=> worker \in {"pause", "done"}
  /\ Resolved["lanes"] <=> passes = {}

LEMMA ResolvedIs == ResolvedMeans /\ ResolvedMeans'
BY DEF ResolvedMeans, Resolved

\* Only its own request puts a turn of an operation into the chain.
LEMMA NoTurnStays ==
  ASSUME GateInv, NEW wanted, Gate!TurnsOf(wanted) = {}, NEW op \in Publishing \cup {"barrier"},
         \/ Gate!RunExclusive(op) /\ op # wanted
         \/ Gate!StartTurn(op) \/ Gate!EndTurn(op) \/ Gate!RefuseTurn(op)
  PROVE  Gate!TurnsOf(wanted)' = {}
<1> SUFFICES ASSUME NEW k \in DOMAIN chain', chain'[k].op = wanted PROVE FALSE
  BY DEF Gate!TurnsOf
<1>1. /\ chain \in Seq(Gate!Turns) /\ DOMAIN chain = 1..Len(chain) /\ Len(chain) \in Nat
      /\ \A i \in 1..Len(chain) : chain[i].op # wanted
  BY LenProperties DEF GateInv, Gate!TurnsOf
<1>2. CASE Gate!RunExclusive(op) /\ op # wanted
  <2> DEFINE turn == Gate!Turn(op, Gate!StartsAtOnce)
  <2>1. turn \in Gate!Turns /\ turn.op = op
    BY DEF Gate!Turn, Gate!Turns, Gate!StartsAtOnce, GateInv
  <2> HIDE DEF turn
  <2>2. chain' = Append(chain, turn) \/ chain' = chain
    BY <1>2 DEF Gate!RunExclusive, turn
  <2>3. chain' = Append(chain, turn)
    BY <1>1, <2>2
  <2>4. /\ Append(chain, turn) \in Seq(Gate!Turns) /\ Len(Append(chain, turn)) = Len(chain) + 1
        /\ \A i \in 1..Len(chain) : Append(chain, turn)[i] = chain[i]
        /\ Append(chain, turn)[Len(chain) + 1] = turn
    BY <1>1, <2>1, AppendProperties
  <2>5. k \in 1..(Len(chain) + 1)
    BY <2>3, <2>4, LenProperties
  <2> QED
    BY <1>1, <1>2, <2>1, <2>3, <2>4, <2>5
<1>3. CASE Gate!StartTurn(op)
  <2>1. chain' = [chain EXCEPT ![1] = [chain[1] EXCEPT !.started = TRUE]] /\ chain # <<>>
    BY <1>3 DEF Gate!StartTurn, Gate!MayStart
  <2>2. 1 \in 1..Len(chain) /\ chain[1] \in Gate!Turns
    BY <1>1, <2>1, EmptySeq, ElementOfSeq
  <2>3. k \in 1..Len(chain) /\ chain'[k].op = chain[k].op
    BY <1>1, <2>1, <2>2 DEF Gate!Turns
  <2> QED
    BY <1>1, <2>3
<1>4. CASE chain # <<>> /\ Gate!Leave(1)
  <2>1. k \in 1..(Len(chain) - 1) /\ chain'[k] = chain[k + 1]
    BY <1>4, LeaveIsTail, LenProperties
  <2>2. k + 1 \in 1..Len(chain)
    BY <1>1, <2>1
  <2> QED
    BY <1>1, <2>1, <2>2
<1>5. CASE Gate!EndTurn(op)
  <2>1. PICK i \in Gate!Running : Gate!Leave(i)
    BY <1>5 DEF Gate!EndTurn
  <2>2. i = 1 /\ chain # <<>>
    BY <2>1, EmptySeq, LenProperties DEF Gate!Running, GateInv
  <2> QED BY <1>4, <2>1, <2>2
<1>6. CASE Gate!RefuseTurn(op)
  BY <1>4, <1>6 DEF Gate!RefuseTurn, Gate!MayStart
<1> QED
  BY <1>2, <1>3, <1>5, <1>6

\* The service asks for a request's turn only for a wake that was requested.
LEMMA OnlyWakesRequest ==
  ASSUME GateInv, [Next]_vars, Gate!TurnsOf("request") = {}, publication # "requested"
  PROVE  Gate!TurnsOf("request")' = {}
<1>1. CASE UNCHANGED chain
  BY <1>1 DEF Gate!TurnsOf
<1>2. ASSUME NEW op \in Publishing \cup {"barrier"},
             \/ Gate!RunExclusive(op) /\ op # "request"
             \/ Gate!StartTurn(op) \/ Gate!EndTurn(op) \/ Gate!RefuseTurn(op)
      PROVE  Gate!TurnsOf("request")' = {}
  BY <1>2, NoTurnStays
<1> HIDE DEF Gate!TurnsOf
<1> USE DEF Publishing
<1>3. CASE Cycle
  <2>1. CASE CycleStarts
    BY <1>2, <2>1 DEF CycleStarts, Asks
  <2>2. CASE CycleRecovered
    BY <1>2, <2>2 DEF CycleRecovered
  <2>3. CASE CycleIntake
    BY <1>2, <2>3 DEF CycleIntake, Asks
  <2>4. CASE CyclePublished
    BY <1>2, <2>4 DEF CyclePublished
  <2>5. CASE CycleRefused
    BY <1>2, <2>5 DEF CycleRefused
  <2>6. CASE CycleIntakeFails \/ LoopEnds
    BY <1>1, <2>6 DEF CycleIntakeFails, LoopEnds, gate
  <2> QED
    BY <1>3, <2>1, <2>2, <2>3, <2>4, <2>5, <2>6 DEF Cycle
<1>4. CASE Wakes
  <2>1. ~PublicationAsks
    BY DEF PublicationAsks
  <2>2. CASE PublicationEnds
    BY <1>2, <2>2 DEF PublicationEnds
  <2>3. CASE PublicationRefused
    BY <1>2, <2>3 DEF PublicationRefused
  <2>4. CASE SearchStarts \/ SearchEnds \/ CardsStart \/ CardsEnd
    BY <1>1, <2>4 DEF SearchStarts, SearchEnds, CardsStart, CardsEnd, gate
  <2> QED
    BY <1>4, <2>1, <2>2, <2>3, <2>4 DEF Wakes
<1>5. CASE Drain
  <2>1. CASE DrainAsks
    BY <1>2, <2>1 DEF DrainAsks
  <2>2. CASE DrainTurnEnds
    BY <1>2, <2>2 DEF DrainTurnEnds
  <2>3. CASE DrainCalled \/ DrainLooksAgain \/ DrainReturns \/ DrainRejects
    BY <1>1, <2>3 DEF DrainCalled, DrainLooksAgain, DrainReturns, DrainRejects, gate
  <2> QED
    BY <1>5, <2>1, <2>2, <2>3 DEF Drain
<1>6. CASE \E op \in Publishing \cup {"barrier"} : TurnStarts(op)
  BY <1>2, <1>6 DEF TurnStarts
<1>7. CASE LanesRun \/ (\E a \in Approvals : Decide(a)) \/ Close \/ GraceEnds \/ CloseWaited \/ UNCHANGED vars
  BY <1>1, <1>7 DEF LanesRun, LaneSettles, LaneRefills, UngatedCalled, UngatedStarts, UngatedEnds, Decide,
         Close, GraceEnds, CloseWaited, vars, gate
<1> QED
  BY <1>3, <1>4, <1>5, <1>6, <1>7 DEF Next, Service

\* A promise that was resolved and no longer is was replaced.
LEMMA ReplacedWhenLost ==
  ASSUME TypeOK, GateInv, [Next]_vars, NEW x \in Waited, Resolved[x], ~Resolved'[x]
  PROVE  x \in Replaced /\ ~Drain /\ ~UNCHANGED vars
<1>1. CASE x = "publication"
  <2>1. publication = "none" /\ Gate!TurnsOf("request") = {}
    BY <1>1, ResolvedIs DEF ResolvedMeans
  <2>2. Gate!TurnsOf("request")' = {}
    BY <2>1, OnlyWakesRequest
  <2>3. publication' # "none"
    BY <1>1, <2>2, ResolvedIs DEF ResolvedMeans
  <2> QED
    BY <1>1, <2>1, <2>3 DEF Replaced, Drain, vars
<1>2. CASE x = "cycle"
  <2>1. worker \in {"pause", "done"} /\ worker' \notin {"pause", "done"}
    BY <1>2, ResolvedIs DEF ResolvedMeans
  <2>2. CycleStarts
    <3>1. Cycle
      BY <2>1 DEF Next, Service, Wakes, LanesRun, Drain, vars, TurnStarts, Decide, Close, GraceEnds, CloseWaited,
             PublicationAsks, PublicationEnds, PublicationRefused, SearchStarts, SearchEnds, CardsStart, CardsEnd,
             LaneSettles, LaneRefills, UngatedCalled, UngatedStarts, UngatedEnds
    <3> QED
      BY <2>1, <3>1 DEF Cycle, CycleRecovered, CycleIntake, CycleIntakeFails, CyclePublished, CycleRefused, LoopEnds
  <2>3. worker = "pause" /\ worker' = "recover"
    BY <2>2 DEF CycleStarts
  <2> QED
    BY <1>2, <2>1, <2>3 DEF Replaced, Drain, vars
<1> QED
  BY <1>1, <1>2 DEF Waited

\* The search task is scheduled as long as a build is wanted.
LEMMA WantedStep ==
  TypeOK /\ (searchWanted => search # "idle") /\ [Next]_vars => (searchWanted' => search' # "idle")
<1> SUFFICES ASSUME TypeOK, searchWanted => search # "idle", [Next]_vars PROVE searchWanted' => search' # "idle"
  OBVIOUS
<1>1. RequestSearch \/ UNCHANGED <<search, searchWanted>> \/ SearchStarts \/ SearchEnds \/ Close
  BY DEF Next, Service, Drain, vars, wakes, Cycle, CycleStarts, CycleRecovered, CycleIntake, CycleIntakeFails,
         CyclePublished, CycleRefused, LoopEnds, CycleEnds, RequestBoth, Wakes, PublicationAsks, PublicationEnds,
         PublicationRefused, CardsStart, CardsEnd, LanesRun, LaneSettles, LaneRefills, UngatedCalled,
         UngatedStarts, UngatedEnds, Decide, TurnStarts, GraceEnds, CloseWaited
<1>2. CASE RequestSearch
  BY <1>2 DEF RequestSearch, TypeOK
<1>3. CASE SearchStarts \/ SearchEnds \/ Close
  BY <1>3 DEF SearchStarts, SearchEnds, Close
<1> QED
  BY <1>1, <1>2, <1>3

\* A step of the others: what was replaced makes drain() look again, what it still
\* waits for stays, and of what it owes only what is over leaves.
LEMMA WatchStep ==
  ASSUME TypeOK, GateInv, DrainInv, Service, DrainWatches
  PROVE  DrainInv'
<1>1. CASE DrainEnds
  BY <1>1, WantedStep DEF DrainEnds, DrainInv, Draining, Next
<1>2. CASE ~Closing' /\ ~Draining
  <2>1. UNCHANGED <<drain, owed>> /\ owed = {} /\ drain.at = "off"
    BY <1>2 DEF DrainWatches, DrainInv, Draining
  <2> QED
    BY <2>1, WantedStep DEF DrainInv, Draining, Next
<1>3. CASE ~Closing' /\ Draining
  <2> DEFINE left == {x \in drain.unresolved \ Replaced : ~Resolved'[x]}
  <2> DEFINE more == drain.again \/ Replaced # {}
  <2>1. /\ drain' = [drain EXCEPT !.unresolved = left, !.again = more]
        /\ owed' = owed \ (indexed' \cup lost' \cup ((0..Lanes) \ passes'))
    BY <1>3 DEF DrainWatches
  <2>2. drain \in [at : {"off", "gather", "gate", "search"}, unresolved : SUBSET DOMAIN Resolved, again : BOOLEAN]
    BY DEF TypeOK
  <2> HIDE DEF left, more
  <2>3. drain'.at = drain.at /\ drain'.unresolved = left /\ drain'.again = more
    BY <2>1, <2>2
  <2> USE DEF left, more
  <2>4. ASSUME ~drain'.again, NEW x \in Waited, ~Resolved'[x]
        PROVE  drain'.at = "gather" /\ x \in drain'.unresolved
    <3>1. ~drain.again /\ Replaced = {}
      BY <2>3, <2>4
    <3>2. ~Resolved[x]
      BY <2>4, <3>1, ReplacedWhenLost DEF Next
    <3>3. drain.at = "gather" /\ x \in drain.unresolved
      BY <1>3, <3>1, <3>2 DEF DrainInv
    <3> QED
      BY <2>3, <2>4, <3>1, <3>3
  <2>5. ASSUME NEW o \in owed'
        PROVE  \/ o \in decided' \ (indexed' \cup lost')
               \/ o \in passes' /\ drain'.at = "gather" /\ "lanes" \in drain'.unresolved
    <3>1. o \in owed /\ o \notin indexed' \cup lost' /\ o \notin (0..Lanes) \ passes'
      BY <2>1, <2>5
    <3>2. CASE o \in decided
      <4>1. decided \subseteq decided'
        BY DEF Service, Wakes, LanesRun, TurnStarts, Decide, Close, GraceEnds, CloseWaited, records, Cycle,
               CycleStarts, CycleRecovered, CycleIntake, CycleIntakeFails, CyclePublished, CycleRefused, LoopEnds,
               PublicationAsks, PublicationEnds, PublicationRefused, SearchStarts, SearchEnds, CardsStart, CardsEnd,
               LaneSettles, LaneRefills, UngatedCalled, UngatedStarts, UngatedEnds
      <4> QED
        BY <3>1, <3>2, <4>1
    <3>3. CASE o \in passes /\ drain.at = "gather" /\ "lanes" \in drain.unresolved
      <4>1. o \in passes'
        BY <3>1, <3>3 DEF TypeOK
      <4>2. ~Resolved'["lanes"]
        BY <4>1, ResolvedIs DEF ResolvedMeans
      <4>3. "lanes" \notin Replaced
        BY DEF Replaced
      <4> QED
        BY <2>3, <3>3, <4>1, <4>2, <4>3
    <3> QED
      BY <3>1, <3>2, <3>3 DEF DrainInv
  <2>6. Draining' /\ drain'.at # "off"
    BY <1>3, <2>3 DEF Draining
  <2> QED
    BY <1>3, <2>4, <2>5, <2>6, WantedStep DEF DrainInv, Next
<1> QED
  BY <1>1, <1>2, <1>3 DEF DrainWatches

\* What drain() takes when it looks at the promises.
LEMMA LooksRight ==
  ASSUME Looks
  PROVE  /\ drain'.at = "gather" /\ ~drain'.again
         /\ \A x \in Promises : ~Resolved[x] => x \in drain'.unresolved
<1> DEFINE left == {x \in DOMAIN Resolved : ~Resolved[x]}
<1>1. drain' = [at |-> "gather", unresolved |-> left, again |-> FALSE]
  BY DEF Looks
<1>2. \A x \in Promises : ~Resolved[x] => x \in left
  BY PromisesAre
<1> HIDE DEF left
<1> QED
  BY <1>1, <1>2

\* drain()'s own steps: nothing else moves.
LEMMA DrainStep ==
  ASSUME TypeOK, GateInv, DrainInv, Drain
  PROVE  DrainInv'
<1>1. UNCHANGED <<passes, worker, publication, search, searchWanted, decided, indexed, lost, closing>>
  BY DEF Drain, lanes, wakes, records
<1>2. drain \in [at : {"off", "gather", "gate", "search"}, unresolved : SUBSET DOMAIN Resolved, again : BOOLEAN]
  BY DEF TypeOK
<1>3. \A x \in Waited : ~Resolved'[x] => ~Resolved[x]
  BY ReplacedWhenLost DEF Next
<1>4. UNCHANGED Closing /\ (searchWanted' => search' # "idle")
  BY <1>1 DEF Closing, DrainInv
<1>5. CASE DrainEnds
  BY <1>4, <1>5 DEF DrainEnds, DrainInv, Draining
<1>6. CASE DrainCalled \/ DrainLooksAgain
  <2>1. Looks /\ ~Closing
    BY <1>6 DEF DrainCalled, DrainLooksAgain, DrainInv, Draining
  <2>2. \A x \in Waited : ~Resolved'[x] => x \in drain'.unresolved
    BY <1>3, <2>1, LooksRight DEF Waited, Promises
  <2>3. \A o \in owed' : o \in decided \ (indexed \cup lost) \/ o \in passes
    BY <1>6 DEF DrainCalled, DrainLooksAgain, DrainInv
  <2>4. passes # {} => "lanes" \in drain'.unresolved
    BY <2>1, LooksRight, ResolvedIs DEF ResolvedMeans, Promises
  <2> QED
    BY <1>1, <1>4, <2>1, <2>2, <2>3, <2>4, LooksRight DEF DrainInv, Draining
<1>7. CASE DrainAsks
  <2>1. drain'.at = "gate" /\ UNCHANGED <<drain.unresolved, drain.again, owed>>
    BY <1>2, <1>7 DEF DrainAsks
  <2>2. drain.at = "gather" /\ drain.unresolved = {}
    BY <1>7 DEF DrainAsks, Gathered
  <2> QED
    BY <1>1, <1>3, <1>4, <2>1, <2>2 DEF DrainInv, Draining
<1>8. CASE DrainTurnEnds
  <2>1. /\ drain'.at = IF drain.at = "gate" THEN "search" ELSE drain.at
        /\ UNCHANGED <<drain.unresolved, drain.again, owed>>
    BY <1>2, <1>8 DEF DrainTurnEnds
  <2> QED
    BY <1>1, <1>3, <1>4, <2>1 DEF DrainInv, Draining
<1> QED
  BY <1>5, <1>6, <1>7, <1>8 DEF Drain, DrainReturns, DrainRejects

LEMMA DrainStays == Spec => []DrainInv
<1>1. Init => DrainInv
  BY DEF Init, DrainInv, Draining
<1>2. TypeOK /\ GateInv /\ DrainInv /\ [Next]_vars => DrainInv'
  <2> SUFFICES ASSUME TypeOK, GateInv, DrainInv, UNCHANGED vars PROVE DrainInv'
    BY WatchStep, DrainStep DEF Next
  <2>1. \A x \in Waited : ~Resolved'[x] => ~Resolved[x]
    BY ReplacedWhenLost
  <2> QED
    BY <2>1 DEF vars, lanes, wakes, records, DrainInv, Draining, Closing
<1> QED
  BY <1>1, <1>2, GateStays, ServiceStaysTyped, PTL DEF Spec

\* When drain() returns, no publication, cycle or build that a decided approval
\* could still be waiting for is left, so it is indexed or its attempt failed;
\* and the passes that ran when it was called were over before it asked for the gate.
THEOREM DrainIsABarrier == Spec => DrainBarrier
<1>1. TypeOK /\ GateInv /\ WakeInv /\ DrainInv => (DrainReturns => owed = {})
  <2> SUFFICES ASSUME TypeOK, GateInv, WakeInv, DrainInv, DrainReturns, NEW o \in owed PROVE FALSE
    OBVIOUS
  <2>1. drain.at = "search" /\ search = "idle" /\ ~drain.again /\ ~Closing
    BY DEF DrainReturns, DrainInv, Draining
  <2>2. o \in decided \ lost /\ o \notin indexed
    BY <2>1 DEF DrainInv
  <2>3. Resolved["publication"] /\ Resolved["cycle"]
    BY <2>1 DEF DrainInv, Draining, Waited
  <2>4. publication = "none" /\ Gate!TurnsOf("request") = {} /\ worker \in {"pause", "done"}
    BY <2>3, ResolvedIs DEF ResolvedMeans
  <2>5. ~Runs("request")
    BY <2>4, RunsRuns DEF Gate!Running, Gate!TurnsOf
  <2>6. ~searchWanted
    BY <2>1 DEF DrainInv
  <2> QED
    BY <2>1, <2>2, <2>4, <2>5, <2>6 DEF WakeInv, Comes, TurnComes, SearchComes
<1> QED
  BY <1>1, WakeStays, DrainStays, GateStays, ServiceStaysTyped, PTL DEF DrainBarrier

-----------------------------------------------------------------------------
(* The process's gate for model calls and the one for research sessions: for *)
(* any callers, sessions, requests, slots and pauses, the two limiters give  *)
(* out what they have, and an episode of failures pauses background work     *)
(* once.                                                                     *)

\* The size of two sets without a common member.
LEMMA Adds ==
  ASSUME NEW A, NEW B, IsFiniteSet(A), IsFiniteSet(B), A \cap B = {}
  PROVE  IsFiniteSet(A \cup B) /\ Cardinality(A \cup B) = Cardinality(A) + Cardinality(B)
<1>1. Cardinality(A) \in Nat /\ Cardinality(B) \in Nat /\ Cardinality(A \cap B) = 0
  BY FS_EmptySet, FS_CardinalityType
<1>2. IsFiniteSet(A \cup B) /\ Cardinality(A \cup B) = Cardinality(A) + Cardinality(B) - Cardinality(A \cap B)
  BY FS_Union
<1> QED
  BY <1>1, <1>2

Distinct(q) == \A i, j \in 1..Len(q) : q[i] = q[j] => i = j

\* A sequence as a function and as a set.
LEMMA InSeq ==
  ASSUME NEW S, NEW q \in Seq(S)
  PROVE  /\ Len(q) \in Nat /\ DOMAIN q = 1..Len(q) /\ \A i \in 1..Len(q) : q[i] \in S
         /\ ToSet(q) = {q[i] : i \in 1..Len(q)} /\ ToSet(q) \subseteq S
BY LenProperties, ElementOfSeq DEF ToSet

\* What a prefix of a queue of distinct callers leaves.
LEMMA Prefix ==
  ASSUME NEW S, NEW q \in Seq(S), Distinct(q), NEW n \in 0..Len(q)
  PROVE  /\ FirstOf(q, n) \in Seq(S) /\ Without(q, n) \in Seq(S)
         /\ ToSet(FirstOf(q, n)) = {q[i] : i \in 1..n}
         /\ ToSet(Without(q, n)) = {q[i] : i \in (n + 1)..Len(q)}
         /\ Distinct(Without(q, n))
         /\ IsFiniteSet(ToSet(FirstOf(q, n)))
         /\ Cardinality(ToSet(FirstOf(q, n))) = n
<1> DEFINE first == SubSeq(q, 1, n)
<1> DEFINE rest == SubSeq(q, n + 1, Len(q))
<1>1. Len(q) \in Nat /\ n \in Nat /\ n <= Len(q) /\ \A i \in 1..Len(q) : q[i] \in S
  BY InSeq
<1>2. first \in Seq(S) /\ Len(first) = n /\ \A i \in 1..n : first[i] = q[i]
  <2>1. \A i \in 1..n : q[i] \in S
    BY <1>1
  <2>2. /\ first \in Seq(S) /\ Len(first) = IF 1 <= n THEN n - 1 + 1 ELSE 0
        /\ \A i \in 1..(n - 1 + 1) : first[i] = q[1 + i - 1]
    BY <1>1, <2>1, SubSeqProperties
  <2> QED
    BY <1>1, <2>2
<1>3. rest \in Seq(S) /\ Len(rest) = Len(q) - n /\ \A i \in 1..(Len(q) - n) : rest[i] = q[n + i]
  <2>1. \A i \in (n + 1)..Len(q) : q[i] \in S
    BY <1>1
  <2>2. /\ rest \in Seq(S) /\ Len(rest) = IF n + 1 <= Len(q) THEN Len(q) - (n + 1) + 1 ELSE 0
        /\ \A i \in 1..(Len(q) - (n + 1) + 1) : rest[i] = q[(n + 1) + i - 1]
    BY <1>1, <2>1, SubSeqProperties
  <2> QED
    BY <1>1, <2>2
<1> HIDE DEF first, rest
<1>4. ToSet(first) = {q[i] : i \in 1..n}
  BY <1>2, InSeq
<1>5. ToSet(rest) = {q[i] : i \in (n + 1)..Len(q)}
  <2>1. ToSet(rest) = {rest[i] : i \in 1..(Len(q) - n)}
    BY <1>3, InSeq
  <2>2. \A i \in 1..(Len(q) - n) : n + i \in (n + 1)..Len(q)
    BY <1>1
  <2>3. \A k \in (n + 1)..Len(q) : k - n \in 1..(Len(q) - n) /\ n + (k - n) = k
    BY <1>1
  <2>4. \A i \in 1..(Len(q) - n) : rest[i] \in {q[k] : k \in (n + 1)..Len(q)}
    BY <1>3, <2>2
  <2>5. \A k \in (n + 1)..Len(q) : q[k] = rest[k - n]
    BY <1>3, <2>3
  <2>6. \A k \in (n + 1)..Len(q) : q[k] \in {rest[i] : i \in 1..(Len(q) - n)}
    BY <2>3, <2>5
  <2> QED
    BY <2>1, <2>4, <2>6
<1>6. Distinct(rest)
  <2> SUFFICES ASSUME NEW i \in 1..(Len(q) - n), NEW j \in 1..(Len(q) - n), rest[i] = rest[j]
               PROVE  i = j
    BY <1>3 DEF Distinct
  <2>1. n + i \in 1..Len(q) /\ n + j \in 1..Len(q) /\ q[n + i] = q[n + j]
    BY <1>1, <1>3
  <2>2. n + i = n + j
    BY <2>1 DEF Distinct
  <2> QED
    BY <1>1, <2>2
<1>7. IsFiniteSet(ToSet(first)) /\ Cardinality(ToSet(first)) = n
  <2> DEFINE f == [i \in 1..n |-> q[i]]
  <2>1. f \in Bijection(1..n, ToSet(first))
    <3> DEFINE T == ToSet(first)
    <3>1. f \in [1..n -> T]
      BY <1>4
    <3>2. \A i, j \in 1..n : f[i] = f[j] => i = j
      BY <1>1 DEF Distinct
    <3>3. \A t \in T : \E i \in 1..n : f[i] = t
      BY <1>4
    <3> HIDE DEF f, T
    <3>4. f \in Injection(1..n, T) /\ f \in Surjection(1..n, T)
      BY <3>1, <3>2, <3>3 DEF Injection, Surjection, IsInjective
    <3> QED
      BY <3>4 DEF Bijection, T
  <2>2. IsFiniteSet(1..n) /\ Cardinality(1..n) = n
    BY <1>1, FS_Interval
  <2> QED
    BY <2>1, <2>2, FS_Bijection DEF ExistsBijection
<1> QED
  BY <1>2, <1>3, <1>4, <1>5, <1>6, <1>7 DEF FirstOf, Without, first, rest

\* The callers of a queue at the places from a to b.
Places(q, a, b) == {q[i] : i \in a..b}

\* A prefix and what it leaves hold the callers at their places.
LEMMA PrefixSets ==
  ASSUME NEW S, NEW q \in Seq(S), Distinct(q), NEW n \in 0..Len(q)
  PROVE  ToSet(FirstOf(q, n)) = Places(q, 1, n) /\ ToSet(Without(q, n)) = Places(q, n + 1, Len(q))
BY Prefix DEF Places


\* A limiter whose callers are ids.
Limiters(ids) ==
  [queue : [Priorities -> Seq(ids)], admitted : [ids -> Nat \cup {None}],
   active : Nat, background : Nat, cooldown : Nat, left : Nat, pauses : Nat,
   armed : BOOLEAN, under : SUBSET ids]

\* A queue's callers are there once, have its priority and do not run.
QueuesOk(l) ==
  \A p \in Priorities :
    /\ Distinct(l.queue[p])
    /\ \A i \in 1..Len(l.queue[p]) :
         PriorityOf(l.queue[p][i]) = p /\ l.admitted[l.queue[p][i]] = None

\* Who ran when a pause began was admitted before it.
PausesOk(l) ==
  /\ \A c \in Running(l) : l.admitted[c] <= l.pauses
  /\ \A c \in l.under : l.admitted[c] # None /\ l.admitted[c] < l.pauses

\* The counters, of finitely many calls.
SlotsOk(l, limits) == IsFiniteSet(Running(l)) /\ Fits(l, limits)

Sound(l, limits, ids) == l \in Limiters(ids) /\ QueuesOk(l) /\ PausesOk(l) /\ SlotsOk(l, limits)

Slots == [concurrent : Nat, background : Nat]

BackgroundCalls(l) == {c \in Running(l) : PriorityOf(c) = "background"}

\* What the counters say.
LEMMA SlotsSay ==
  ASSUME NEW l, NEW limits
  PROVE  SlotsOk(l, limits) <=>
           /\ IsFiniteSet(Running(l))
           /\ l.active = Cardinality(Running(l)) /\ l.active <= limits.concurrent
           /\ l.background = Cardinality(BackgroundCalls(l)) /\ l.background <= limits.background
BY Zenon DEF SlotsOk, Fits, BackgroundCalls

\* How many pump admits: they wait, and there are slots for them.
LEMMA AdmitsFit ==
  ASSUME NEW ids, NEW l, NEW limits \in Slots, Sound(l, limits, ids)
  PROVE  LET nI == AdmitsInteractive(l, limits)
             nB == AdmitsBackground(l, limits)
         IN /\ nI \in 0..Len(l.queue["interactive"]) /\ nB \in 0..Len(l.queue["background"])
            /\ l.active + nI + nB <= limits.concurrent
            /\ l.background + nB <= limits.background
<1>1. /\ l.active \in Nat /\ l.background \in Nat /\ l.left \in Nat
      /\ l.queue["interactive"] \in Seq(ids) /\ l.queue["background"] \in Seq(ids)
  BY DEF Sound, Limiters, Priorities
<1>2. Len(l.queue["interactive"]) \in Nat /\ Len(l.queue["background"]) \in Nat
  BY <1>1, LenProperties
<1>3. l.active <= limits.concurrent /\ l.background <= limits.background
  BY DEF Sound, SlotsOk, Fits
<1>4. limits.concurrent \in Nat /\ limits.background \in Nat
  BY DEF Slots
<1>5. BackgroundFree(l, limits) \in 0..(limits.background - l.background)
  BY <1>1, <1>3, <1>4 DEF BackgroundFree
<1>6. AdmitsInteractive(l, limits) \in 0..Len(l.queue["interactive"])
      /\ l.active + AdmitsInteractive(l, limits) <= limits.concurrent
  BY <1>1, <1>2, <1>3, <1>4 DEF AdmitsInteractive, Least
<1> DEFINE free == BackgroundFree(l, limits)
<1> DEFINE nI == AdmitsInteractive(l, limits)
<1> DEFINE nB == AdmitsBackground(l, limits)
<1>7. nB = Least(Least(limits.concurrent - l.active - nI, free), Len(l.queue["background"]))
  BY DEF AdmitsBackground
<1> HIDE DEF free, nI, nB
<1>8. nI \in 0..Len(l.queue["interactive"]) /\ l.active + nI <= limits.concurrent
      /\ free \in 0..(limits.background - l.background)
  BY <1>5, <1>6 DEF free, nI
<1>9. nB \in 0..Len(l.queue["background"]) /\ nB <= limits.concurrent - l.active - nI /\ nB <= free
  <2> DEFINE room == limits.concurrent - l.active - nI
             waiting == Len(l.queue["background"])
  <2>1. room \in Nat /\ free \in Nat /\ waiting \in Nat
    BY <1>1, <1>2, <1>3, <1>4, <1>8
  <2> HIDE DEF room, waiting
  <2>2. Least(Least(room, free), waiting) \in 0..waiting
        /\ Least(Least(room, free), waiting) <= room /\ Least(Least(room, free), waiting) <= free
    BY <2>1 DEF Least
  <2>3. nB = Least(Least(room, free), waiting)
    BY <1>7 DEF room, waiting
  <2> QED
    BY <2>2, <2>3 DEF room, waiting
<1>10. l.active + nI + nB <= limits.concurrent /\ l.background + nB <= limits.background
  <2>1. l.active \in Nat /\ l.background \in Nat /\ nI \in Int /\ nB \in Int /\ free \in Int
    BY <1>1, <1>2, <1>4, <1>8, <1>9
  <2>2. l.active + nI + nB <= limits.concurrent
    BY <1>4, <1>9, <2>1
  <2>3. l.background + nB <= limits.background
    BY <1>4, <1>8, <1>9, <2>1
  <2> QED
    BY <2>2, <2>3
<1> QED
  BY <1>8, <1>9, <1>10 DEF nI, nB

\* What pump leaves: who goes waits no more and runs since the latest pause.
LEMMA PumpedIs ==
  ASSUME NEW ids, NEW l, NEW limits \in Slots, Sound(l, limits, ids)
  PROVE  LET m == Pumped(l, limits)
             nI == AdmitsInteractive(l, limits)
             nB == AdmitsBackground(l, limits)
             goes == Goes(l, limits)
         IN /\ m \in Limiters(ids)
            /\ m.queue = [p \in Priorities |-> Without(l.queue[p], Admits(l, limits, p))]
            /\ m.admitted = [c \in ids |-> IF c \in goes THEN l.pauses ELSE l.admitted[c]]
            /\ m.active = l.active + nI + nB /\ m.background = l.background + nB
            /\ m.cooldown = l.cooldown /\ m.left = l.left /\ m.pauses = l.pauses /\ m.under = l.under
            /\ goes = ToSet(FirstOf(l.queue["interactive"], nI))
                        \cup ToSet(FirstOf(l.queue["background"], nB))
<1> DEFINE nI == AdmitsInteractive(l, limits)
<1> DEFINE nB == AdmitsBackground(l, limits)
<1> DEFINE goes == Goes(l, limits)
<1> DEFINE n(p) == Admits(l, limits, p)
<1> DEFINE m == Pumped(l, limits)
<1>1. nI \in 0..Len(l.queue["interactive"]) /\ nB \in 0..Len(l.queue["background"])
  BY AdmitsFit
<1>2. n("interactive") = nI /\ n("background") = nB
  BY DEF Admits
<1>3. \A p \in Priorities :
        /\ l.queue[p] \in Seq(ids) /\ Distinct(l.queue[p])
        /\ n(p) \in 0..Len(l.queue[p])
  BY <1>1, <1>2 DEF Sound, Limiters, QueuesOk, Priorities
<1>4. goes = ToSet(FirstOf(l.queue["interactive"], nI))
               \cup ToSet(FirstOf(l.queue["background"], nB))
  BY <1>2 DEF Goes, Priorities
<1> DEFINE queue == [p \in Priorities |-> Without(l.queue[p], n(p))]
<1> DEFINE admitted == [c \in ids |-> IF c \in goes THEN l.pauses ELSE l.admitted[c]]
<1>5. queue \in [Priorities -> Seq(ids)]
  <2>1. \A p \in Priorities : Without(l.queue[p], n(p)) \in Seq(ids)
    <3> TAKE p \in Priorities
    <3> HIDE DEF n
    <3> QED
      BY <1>3, Prefix
  <2> HIDE DEF n
  <2> QED
    BY <2>1
<1>6. admitted \in [ids -> Nat \cup {None}]
  BY DEF Sound, Limiters
<1>7. l.active + nI + nB \in Nat /\ l.background + nB \in Nat /\ Arms(l, limits) \in BOOLEAN
  BY <1>1, LenProperties DEF Sound, Limiters, Arms
<1>8. DOMAIN l.admitted = ids
  BY DEF Sound, Limiters
<1>9. m = [l EXCEPT !.queue = queue, !.admitted = admitted, !.active = l.active + nI + nB,
                    !.background = l.background + nB, !.armed = Arms(l, limits)]
  <2> HIDE DEF nI, nB
  <2> QED
  BY <1>8, Zenon DEF Pumped, nI, nB
<1> HIDE DEF m, queue, admitted, nI, nB, goes, n
<1>10. /\ m \in Limiters(ids)
       /\ m.queue = queue /\ m.admitted = admitted
       /\ m.active = l.active + nI + nB /\ m.background = l.background + nB
       /\ m.cooldown = l.cooldown /\ m.left = l.left /\ m.pauses = l.pauses /\ m.under = l.under
  BY <1>5, <1>6, <1>7, <1>9 DEF Sound, Limiters
<1> QED
  BY <1>4, <1>10 DEF m, queue, admitted, nI, nB, goes, n


\* What the pause's history and the timer of a limiter do not depend on.
SamePause(l, m) ==
  m.cooldown = l.cooldown /\ m.left = l.left /\ m.pauses = l.pauses /\ m.under = l.under

\* Admitting whoever may go keeps the invariant; no pause begins or changes, and
\* nobody but those who waited is admitted.
LEMMA PumpKeeps ==
  ASSUME NEW ids, NEW l, NEW limits \in Slots, Sound(l, limits, ids),
           None \notin Nat
  PROVE  LET m == Pumped(l, limits)
         IN /\ Sound(m, limits, ids) /\ SamePause(l, m)
            /\ \A c \in ids \ Waiting(l) : m.admitted[c] = l.admitted[c]
<1> DEFINE m == Pumped(l, limits)
<1> DEFINE nI == AdmitsInteractive(l, limits)
<1> DEFINE nB == AdmitsBackground(l, limits)
<1> DEFINE qI == l.queue["interactive"]
<1> DEFINE qB == l.queue["background"]
<1> DEFINE gI == ToSet(FirstOf(qI, nI))
<1> DEFINE gB == ToSet(FirstOf(qB, nB))
<1> HIDE DEF m, nI, nB, qI, qB, gI, gB
<1>1. /\ nI \in 0..Len(qI) /\ nB \in 0..Len(qB)
      /\ l.active + nI + nB <= limits.concurrent
      /\ l.background + nB <= limits.background
  BY AdmitsFit DEF nI, nB, qI, qB
<1>2. /\ m \in Limiters(ids) /\ SamePause(l, m)
      /\ m.queue = [p \in Priorities |-> Without(l.queue[p], Admits(l, limits, p))]
      /\ m.admitted = [c \in ids |-> IF c \in gI \cup gB THEN l.pauses ELSE l.admitted[c]]
      /\ m.active = l.active + nI + nB /\ m.background = l.background + nB
  <2>1. Goes(l, limits) = gI \cup gB
    BY PumpedIs DEF gI, gB, qI, qB, nI, nB
  <2> QED
    BY <2>1, PumpedIs DEF SamePause, m, nI, nB
<1>3. /\ qI \in Seq(ids) /\ qB \in Seq(ids) /\ Distinct(qI) /\ Distinct(qB)
      /\ Len(qI) \in Nat /\ Len(qB) \in Nat
      /\ \A i \in 1..Len(qI) : qI[i] \in ids /\ PriorityOf(qI[i]) = "interactive" /\ l.admitted[qI[i]] = None
      /\ \A i \in 1..Len(qB) : qB[i] \in ids /\ PriorityOf(qB[i]) = "background" /\ l.admitted[qB[i]] = None
  BY InSeq DEF Sound, Limiters, QueuesOk, Priorities, qI, qB
<1>4. m.queue["interactive"] = Without(qI, nI) /\ m.queue["background"] = Without(qB, nB)
  BY <1>2 DEF Admits, Priorities, qI, qB, nI, nB
<1>5. /\ gI = {qI[i] : i \in 1..nI} /\ IsFiniteSet(gI) /\ Cardinality(gI) = nI
      /\ Distinct(m.queue["interactive"]) /\ ToSet(m.queue["interactive"]) = {qI[i] : i \in (nI + 1)..Len(qI)}
      /\ m.queue["interactive"] \in Seq(ids)
  BY <1>1, <1>3, <1>4, Prefix DEF gI
<1>6. /\ gB = {qB[i] : i \in 1..nB} /\ IsFiniteSet(gB) /\ Cardinality(gB) = nB
      /\ Distinct(m.queue["background"]) /\ ToSet(m.queue["background"]) = {qB[i] : i \in (nB + 1)..Len(qB)}
      /\ m.queue["background"] \in Seq(ids)
  BY <1>1, <1>3, <1>4, Prefix DEF gB
<1>7. /\ l.admitted \in [ids -> Nat \cup {None}] /\ l.pauses \in Nat /\ l.active \in Nat /\ l.background \in Nat
      /\ m.admitted \in [ids -> Nat \cup {None}]
  BY <1>2 DEF Sound, Limiters
<1>8. /\ \A c \in gI : c \in ids /\ PriorityOf(c) = "interactive" /\ l.admitted[c] = None
      /\ \A c \in gB : c \in ids /\ PriorityOf(c) = "background" /\ l.admitted[c] = None
  <2>1. \A i \in 1..nI : i \in 1..Len(qI)
    BY <1>1, <1>3
  <2>2. \A i \in 1..nB : i \in 1..Len(qB)
    BY <1>1, <1>3
  <2> QED
    BY <1>3, <1>5, <1>6, <2>1, <2>2
<1>9. /\ Running(m) = Running(l) \cup (gI \cup gB)
      /\ BackgroundCalls(m) = BackgroundCalls(l) \cup gB
      /\ Running(l) \cap (gI \cup gB) = {} /\ BackgroundCalls(l) \cap gB = {} /\ gI \cap gB = {}
  BY <1>2, <1>7, <1>8 DEF Running, BackgroundCalls
<1>10. SlotsOk(m, limits)
  <2>1. /\ IsFiniteSet(Running(l)) /\ l.active = Cardinality(Running(l))
        /\ l.background = Cardinality(BackgroundCalls(l))
    BY SlotsSay DEF Sound
  <2>2. IsFiniteSet(BackgroundCalls(l))
    BY <2>1, FS_Subset DEF BackgroundCalls
  <2>3. IsFiniteSet(gI \cup gB) /\ Cardinality(gI \cup gB) = nI + nB
    BY <1>5, <1>6, <1>9, Adds
  <2>4. /\ IsFiniteSet(Running(m))
        /\ Cardinality(Running(m)) = l.active + (nI + nB)
    <3>1. /\ IsFiniteSet(Running(l) \cup (gI \cup gB))
          /\ Cardinality(Running(l) \cup (gI \cup gB)) = Cardinality(Running(l)) + Cardinality(gI \cup gB)
      BY <1>9, <2>1, <2>3, Adds
    <3> QED
      BY <1>9, <2>1, <2>3, <3>1
  <2>5. Cardinality(BackgroundCalls(m)) = l.background + nB
    <3>1. Cardinality(BackgroundCalls(l) \cup gB) = Cardinality(BackgroundCalls(l)) + Cardinality(gB)
      BY <1>6, <1>9, <2>2, Adds
    <3> QED
      BY <1>6, <1>9, <2>1, <3>1
  <2> QED
    BY <1>1, <1>2, <1>3, <1>7, <2>4, <2>5, SlotsSay
<1>11. QueuesOk(m)
  <2>1. \A i \in (nI + 1)..Len(qI) : i \in 1..Len(qI) /\ qI[i] \notin gI
    BY <1>1, <1>3, <1>5 DEF Distinct
  <2>2. \A i \in (nB + 1)..Len(qB) : i \in 1..Len(qB) /\ qB[i] \notin gB
    BY <1>1, <1>3, <1>6 DEF Distinct
  <2>3. \A c \in ToSet(m.queue["interactive"]) : PriorityOf(c) = "interactive" /\ m.admitted[c] = None
    <3>1. \A i \in (nI + 1)..Len(qI) : qI[i] \notin gB /\ m.admitted[qI[i]] = l.admitted[qI[i]]
      BY <1>2, <1>3, <1>8, <2>1
    <3> QED
      BY <1>3, <1>5, <2>1, <3>1
  <2>4. \A c \in ToSet(m.queue["background"]) : PriorityOf(c) = "background" /\ m.admitted[c] = None
    <3>1. \A i \in (nB + 1)..Len(qB) : qB[i] \notin gI /\ m.admitted[qB[i]] = l.admitted[qB[i]]
      BY <1>2, <1>3, <1>8, <2>2
    <3> QED
      BY <1>3, <1>6, <2>2, <3>1
  <2>5. \A p \in Priorities : m.queue[p] \in Seq(ids) /\ \A i \in 1..Len(m.queue[p]) : m.queue[p][i] \in ToSet(m.queue[p])
    <3>1. \A p \in Priorities : m.queue[p] \in Seq(ids)
      BY <1>5, <1>6 DEF Priorities
    <3> QED
      BY <3>1, InSeq
  <2> QED
    BY <1>5, <1>6, <2>3, <2>4, <2>5 DEF QueuesOk, Priorities
<1>12. PausesOk(m)
  <2>1. PausesOk(l) /\ l.under \in SUBSET ids
    BY DEF Sound, Limiters
  <2> QED
    BY <1>2, <1>7, <1>8, <1>9, <2>1 DEF PausesOk, SamePause, Running
<1>13. \A c \in ids \ Waiting(l) : m.admitted[c] = l.admitted[c]
  <2>1. gI \cup gB \subseteq Waiting(l)
    <3>1. \A i \in 1..Len(qI) : qI[i] \in Waiting(l)
      BY <1>3, InSeq DEF Waiting, qI
    <3>2. \A i \in 1..Len(qB) : qB[i] \in Waiting(l)
      BY <1>3, InSeq DEF Waiting, qB
    <3> QED
      BY <1>1, <1>3, <1>5, <1>6, <3>1, <3>2
  <2> QED
    BY <1>2, <2>1
<1> QED
  BY <1>2, <1>10, <1>11, <1>12, <1>13 DEF Sound, m


\* A queue with one caller taken out of it.
LEMMA TakenOut ==
  ASSUME NEW S, NEW q \in Seq(S), NEW i \in 1..Len(q)
  PROVE  LET r == RemoveAt(q, i)
         IN /\ r \in Seq(S) /\ Len(r) = Len(q) - 1
            /\ \A k \in 1..Len(r) : r[k] = IF k < i THEN q[k] ELSE q[k + 1]
<1> DEFINE first == SubSeq(q, 1, i - 1)
<1> DEFINE rest == SubSeq(q, i + 1, Len(q))
<1>1. Len(q) \in Nat /\ i \in Nat /\ 1 <= i /\ i <= Len(q) /\ \A k \in 1..Len(q) : q[k] \in S
  BY InSeq
<1>2. first \in Seq(S) /\ Len(first) = i - 1 /\ \A k \in 1..(i - 1) : first[k] = q[k]
  <2>1. \A k \in 1..(i - 1) : q[k] \in S
    BY <1>1
  <2>2. /\ first \in Seq(S) /\ Len(first) = IF 1 <= i - 1 THEN (i - 1) - 1 + 1 ELSE 0
        /\ \A k \in 1..((i - 1) - 1 + 1) : first[k] = q[1 + k - 1]
    BY <1>1, <2>1, SubSeqProperties
  <2> QED
    BY <1>1, <2>2
<1>3. rest \in Seq(S) /\ Len(rest) = Len(q) - i /\ \A k \in 1..(Len(q) - i) : rest[k] = q[i + k]
  <2>1. \A k \in (i + 1)..Len(q) : q[k] \in S
    BY <1>1
  <2>2. /\ rest \in Seq(S) /\ Len(rest) = IF i + 1 <= Len(q) THEN Len(q) - (i + 1) + 1 ELSE 0
        /\ \A k \in 1..(Len(q) - (i + 1) + 1) : rest[k] = q[(i + 1) + k - 1]
    BY <1>1, <2>1, SubSeqProperties
  <2> QED
    BY <1>1, <2>2
<1> HIDE DEF first, rest
<1>4. /\ first \o rest \in Seq(S) /\ Len(first \o rest) = Len(first) + Len(rest)
      /\ \A k \in 1..(Len(first) + Len(rest)) :
           (first \o rest)[k] = IF k <= Len(first) THEN first[k] ELSE rest[k - Len(first)]
  BY <1>2, <1>3, ConcatProperties
<1>5. \A k \in 1..(Len(q) - 1) : (first \o rest)[k] = IF k < i THEN q[k] ELSE q[k + 1]
  <2> TAKE k \in 1..(Len(q) - 1)
  <2>1. CASE k < i
    <3>1. k \in 1..(i - 1) /\ k \in 1..(Len(first) + Len(rest)) /\ k <= Len(first)
      BY <1>1, <1>2, <1>3, <2>1
    <3>2. (first \o rest)[k] = first[k]
      BY <1>4, <3>1
    <3>3. first[k] = q[k]
      BY <1>2, <3>1
    <3> QED
      BY <2>1, <3>2, <3>3
  <2>2. CASE k >= i
    <3>1. k - (i - 1) \in 1..(Len(q) - i) /\ i + (k - (i - 1)) = k + 1 /\ ~(k <= i - 1)
      BY <1>1, <2>2
    <3>2. k \in 1..(Len(first) + Len(rest)) /\ Len(first) = i - 1
      BY <1>1, <1>2, <1>3
    <3>3. (first \o rest)[k] = rest[k - (i - 1)]
      BY <1>4, <3>1, <3>2
    <3>4. rest[k - (i - 1)] = q[i + (k - (i - 1))]
      BY <1>3, <3>1
    <3>5. (first \o rest)[k] = q[k + 1]
      BY <3>1, <3>3, <3>4
    <3>6. ~(k < i)
      BY <1>1, <2>2
    <3> QED
      BY <3>5, <3>6
  <2>3. k < i \/ k >= i
    BY <1>1
  <2> QED
    BY <2>1, <2>2, <2>3
<1>6. Len(first \o rest) = Len(q) - 1
  BY <1>1, <1>2, <1>3, <1>4
<1>7. RemoveAt(q, i) = first \o rest
  BY DEF RemoveAt, first, rest
<1> QED
  BY <1>4, <1>5, <1>6, <1>7

\* A caller begins to wait at the end of its queue.
LEMMA QueuedKeeps ==
  ASSUME NEW ids, NEW l, NEW limits, Sound(l, limits, ids),
         NEW c \in ids, PriorityOf(c) \in Priorities,
         c \notin Waiting(l) \cup Running(l)
  PROVE  LET m == [l EXCEPT !.queue[PriorityOf(c)] = Append(@, c)]
         IN Sound(m, limits, ids) /\ SamePause(l, m) /\ m.admitted = l.admitted
<1> DEFINE p == PriorityOf(c)
<1> DEFINE m == [l EXCEPT !.queue[PriorityOf(c)] = Append(@, c)]
<1>1. l \in Limiters(ids) /\ QueuesOk(l) /\ p \in Priorities /\ l.queue[p] \in Seq(ids)
  BY DEF Sound, Limiters
<1>2. /\ Append(l.queue[p], c) \in Seq(ids) /\ Len(Append(l.queue[p], c)) = Len(l.queue[p]) + 1
      /\ Len(l.queue[p]) \in Nat /\ Append(l.queue[p], c)[Len(l.queue[p]) + 1] = c
      /\ \A i \in 1..Len(l.queue[p]) : Append(l.queue[p], c)[i] = l.queue[p][i]
  BY <1>1, AppendProperties, LenProperties
<1>3. /\ m \in Limiters(ids) /\ SamePause(l, m) /\ m.admitted = l.admitted
      /\ m.active = l.active /\ m.background = l.background
      /\ m.queue = [l.queue EXCEPT ![p] = Append(l.queue[p], c)]
  BY <1>1, <1>2 DEF Limiters, SamePause
<1>4. \A i \in 1..Len(l.queue[p]) : l.queue[p][i] # c
  BY <1>1, InSeq DEF Waiting, Priorities
<1>5. l.admitted[c] = None
  BY <1>1 DEF Limiters, Running
<1> HIDE DEF m, p
<1>6. QueuesOk(m)
  <2>1. m.queue[p] = Append(l.queue[p], c) /\ \A r \in Priorities \ {p} : m.queue[r] = l.queue[r]
    BY <1>1, <1>3 DEF Limiters
  <2>2. Distinct(m.queue[p])
    BY <1>1, <1>2, <1>4, <2>1 DEF Distinct, QueuesOk
  <2>3. \A i \in 1..Len(m.queue[p]) : PriorityOf(m.queue[p][i]) = p /\ l.admitted[m.queue[p][i]] = None
    <3>1. \A i \in 1..Len(m.queue[p]) : i = Len(l.queue[p]) + 1 \/ i \in 1..Len(l.queue[p])
      BY <1>2, <2>1
    <3> QED
      BY <1>1, <1>2, <1>5, <2>1, <3>1 DEF QueuesOk, p
  <2> QED
    BY <1>1, <1>3, <2>1, <2>2, <2>3 DEF QueuesOk
<1>7. PausesOk(m) /\ SlotsOk(m, limits)
  <2>1. Running(m) = Running(l) /\ BackgroundCalls(m) = BackgroundCalls(l)
    BY <1>3 DEF Running, BackgroundCalls
  <2>2. PausesOk(l) /\ SlotsOk(l, limits)
    BY DEF Sound
  <2> QED
    BY <1>3, <2>1, <2>2, SlotsSay DEF PausesOk, SamePause
<1> QED
  BY <1>3, <1>6, <1>7 DEF Sound, m


\* A waiting caller is aborted: it is taken out of the one queue it is in.
LEMMA LeftIs ==
  ASSUME NEW ids, NEW l, NEW limits, Sound(l, limits, ids), NEW c \in Waiting(l)
  PROVE  \E p \in Priorities, i \in Nat :
           /\ p = PriorityOf(c) /\ l.queue[p] \in Seq(ids)
           /\ i \in 1..Len(l.queue[p]) /\ l.queue[p][i] = c
           /\ Left(l, c) = [l EXCEPT !.queue = [l.queue EXCEPT ![p] = RemoveAt(l.queue[p], i)]]
<1> DEFINE p == PriorityOf(c)
<1> DEFINE q == l.queue[p]
<1> DEFINE i == CHOOSE k \in DOMAIN q : q[k] = c
<1>1. l \in Limiters(ids) /\ QueuesOk(l)
  BY DEF Sound
<1>2. /\ p \in Priorities /\ q \in Seq(ids)
      /\ i \in 1..Len(q) /\ i \in Nat /\ q[i] = c
  <2>1. \A r1 \in Priorities :
          /\ l.queue[r1] \in Seq(ids) /\ DOMAIN l.queue[r1] = 1..Len(l.queue[r1]) /\ Len(l.queue[r1]) \in Nat
          /\ ToSet(l.queue[r1]) = {l.queue[r1][k] : k \in 1..Len(l.queue[r1])}
    BY <1>1, InSeq DEF Limiters
  <2>2. PICK r1 \in Priorities : c \in ToSet(l.queue[r1])
    BY DEF Waiting, Priorities
  <2>3. PICK k \in 1..Len(l.queue[r1]) : l.queue[r1][k] = c
    BY <2>1, <2>2
  <2>4. p = r1
    BY <1>1, <2>3 DEF QueuesOk
  <2>5. \E j \in DOMAIN q : q[j] = c
    BY <2>1, <2>3, <2>4
  <2>6. i \in DOMAIN q /\ q[i] = c
    BY <2>5
  <2> HIDE DEF i
  <2> QED
    BY <2>1, <2>4, <2>6
<1>3. Left(l, c) = [l EXCEPT !.queue = [l.queue EXCEPT ![p] = RemoveAt(q, i)]]
  BY <1>1 DEF Left, Limiters
<1> HIDE DEF i, p
<1> QED
  BY <1>2, <1>3 DEF p

\* A queue without one of its distinct callers.
LEMMA WithoutOne ==
  ASSUME NEW ids, NEW q \in Seq(ids), Distinct(q), NEW i \in 1..Len(q)
  PROVE  LET r == RemoveAt(q, i)
         IN /\ r \in Seq(ids) /\ Distinct(r) /\ ToSet(r) \subseteq ToSet(q) \ {q[i]}
            /\ \A k \in 1..Len(r) : \E j \in 1..Len(q) : r[k] = q[j]
            /\ r # <<>> => q # <<>>
<1> DEFINE r == RemoveAt(q, i)
<1> DEFINE at(x) == IF x < i THEN x ELSE x + 1
<1>1. Len(q) \in Nat /\ i \in Nat /\ r \in Seq(ids) /\ Len(r) = Len(q) - 1
      /\ \A k \in 1..Len(r) : r[k] = IF k < i THEN q[k] ELSE q[k + 1]
  BY TakenOut, InSeq
<1> HIDE DEF r
<1>2. \A k \in 1..Len(r) : r[k] = q[at(k)] /\ at(k) \in 1..Len(q) /\ at(k) # i
  BY <1>1
<1>3. Distinct(r)
  <2> SUFFICES ASSUME NEW j \in 1..Len(r), NEW k \in 1..Len(r), r[j] = r[k]
               PROVE  j = k
    BY DEF Distinct
  <2>1. at(j) = at(k)
    BY <1>2 DEF Distinct
  <2> QED
    BY <1>1, <2>1
<1> HIDE DEF at
<1>4. \A k \in 1..Len(r) : r[k] # q[i]
  BY <1>1, <1>2 DEF Distinct
<1>5. ToSet(r) \subseteq ToSet(q) \ {q[i]}
  BY <1>1, <1>2, <1>4, InSeq
<1>6. q # <<>>
  BY <1>1, EmptySeq
<1> QED
  BY <1>1, <1>2, <1>3, <1>5, <1>6 DEF r

\* Leaving a queue keeps the invariant.
LEMMA LeftKeeps ==
  ASSUME NEW ids, NEW l, NEW limits, Sound(l, limits, ids), NEW c \in Waiting(l)
  PROVE  LET m == Left(l, c)
         IN Sound(m, limits, ids) /\ SamePause(l, m) /\ m.admitted = l.admitted
<1> DEFINE m == Left(l, c)
<1>1. l \in Limiters(ids) /\ QueuesOk(l)
  BY DEF Sound
<1>2. PICK p \in Priorities, i \in Nat :
        /\ l.queue[p] \in Seq(ids) /\ i \in 1..Len(l.queue[p])
        /\ m = [l EXCEPT !.queue = [l.queue EXCEPT ![p] = RemoveAt(l.queue[p], i)]]
  BY LeftIs
<1> DEFINE q == l.queue[p]
<1> DEFINE r == RemoveAt(q, i)
<1>3. Distinct(q) /\ \A k \in 1..Len(q) : PriorityOf(q[k]) = p /\ l.admitted[q[k]] = None
  BY <1>1 DEF QueuesOk
<1>4. /\ r \in Seq(ids) /\ Distinct(r)
      /\ \A k \in 1..Len(r) : \E j \in 1..Len(q) : r[k] = q[j]
  <2>1. q \in Seq(ids) /\ i \in 1..Len(q) /\ Distinct(q)
    BY <1>2, <1>3
  <2> HIDE DEF q
  <2> QED
    BY <2>1, WithoutOne
<1> HIDE DEF m, r
<1>5. /\ m \in Limiters(ids) /\ SamePause(l, m) /\ m.admitted = l.admitted
      /\ m.active = l.active /\ m.background = l.background
      /\ m.queue = [l.queue EXCEPT ![p] = r]
  BY <1>1, <1>2, <1>4 DEF Limiters, SamePause, r
<1>6. QueuesOk(m)
  <2>1. m.queue[p] = r /\ \A o \in Priorities \ {p} : m.queue[o] = l.queue[o]
    BY <1>1, <1>5 DEF Limiters
  <2>2. \A k \in 1..Len(r) : PriorityOf(r[k]) = p /\ l.admitted[r[k]] = None
    BY <1>3, <1>4
  <2> QED
    BY <1>1, <1>4, <1>5, <2>1, <2>2 DEF QueuesOk
<1>7. PausesOk(m) /\ SlotsOk(m, limits)
  <2>1. Running(m) = Running(l) /\ BackgroundCalls(m) = BackgroundCalls(l)
    BY <1>5 DEF Running, BackgroundCalls
  <2>2. PausesOk(l) /\ SlotsOk(l, limits)
    BY DEF Sound
  <2> QED
    BY <1>5, <2>1, <2>2, SlotsSay DEF PausesOk, SamePause
<1> QED
  BY <1>5, <1>6, <1>7 DEF Sound, m

Pauses == CooldownMin \in Nat /\ CooldownMax \in Nat

\* What an end tells of the provider: a call that ran when a pause began says nothing.
LEMMA ToldKeeps ==
  ASSUME NEW ids, NEW l, NEW limits, Sound(l, limits, ids), Pauses, None \notin Nat,
         NEW c \in Running(l), NEW outcome
  PROVE  LET t == Told(l, c, outcome)
         IN /\ t \in Limiters(ids) /\ PausesOk(t)
            /\ t.queue = l.queue /\ t.admitted = l.admitted /\ t.active = l.active /\ t.background = l.background
            /\ Changes(l, t) => l.left = 0 /\ c \notin l.under
<1> DEFINE t == Told(l, c, outcome)
<1> DEFINE longer == Longer(l.cooldown)
<1> SUFFICES /\ t \in Limiters(ids) /\ PausesOk(t)
             /\ t.queue = l.queue /\ t.admitted = l.admitted /\ t.active = l.active /\ t.background = l.background
             /\ Changes(l, t) => l.left = 0 /\ c \notin l.under
  OBVIOUS
<1> HIDE DEF t, longer
<1>1. l \in Limiters(ids) /\ PausesOk(l)
  BY DEF Sound
<1>2. CASE t = l
  BY <1>1, <1>2 DEF Changes, Limiters
<1>3. CASE Speaks(l, c) /\ t = [l EXCEPT !.cooldown = 0]
  <2>1. /\ t \in Limiters(ids)
        /\ t.queue = l.queue /\ t.admitted = l.admitted /\ t.active = l.active /\ t.background = l.background
        /\ t.left = l.left /\ t.pauses = l.pauses /\ t.under = l.under
    BY <1>1, <1>3 DEF Limiters
  <2>2. l.left = 0 /\ c \notin l.under
    BY <1>1, <1>3 DEF Speaks, PausesOk, Limiters
  <2> QED
    BY <1>1, <2>1, <2>2 DEF PausesOk, Running
<1>4. CASE /\ Speaks(l, c)
           /\ t = [l EXCEPT !.cooldown = longer, !.left = longer,
                            !.pauses = l.pauses + 1, !.under = Running(l)]
  <2>1. longer \in Nat /\ l.pauses + 1 \in Nat
    BY <1>1 DEF longer, Pauses, Limiters, Longer, Least
  <2>2. Running(l) \in SUBSET ids
    BY <1>1 DEF Limiters, Running
  <2>3. /\ t \in Limiters(ids)
        /\ t.queue = l.queue /\ t.admitted = l.admitted /\ t.active = l.active /\ t.background = l.background
        /\ t.pauses = l.pauses + 1 /\ t.under = Running(l)
    BY <1>1, <1>4, <2>1, <2>2 DEF Limiters
  <2>4. l.left = 0 /\ c \notin l.under
    BY <1>1, <1>4 DEF Speaks, PausesOk, Limiters
  <2>5. \A d \in Running(l) : l.admitted[d] \in Nat /\ l.pauses \in Nat
    BY <1>1 DEF Limiters, Running
  <2>6. Running(t) = Running(l)
    BY <2>3 DEF Running
  <2>7. PausesOk(t)
    BY <1>1, <2>3, <2>5, <2>6 DEF PausesOk
  <2> QED
    BY <2>3, <2>4, <2>7
<1>5. t = l \/ (Speaks(l, c) /\ t = [l EXCEPT !.cooldown = 0])
      \/ (Speaks(l, c)
            /\ t = [l EXCEPT !.cooldown = longer, !.left = longer,
                             !.pauses = l.pauses + 1, !.under = Running(l)])
  BY Zenon DEF Told, t, longer
<1> QED
  BY <1>2, <1>3, <1>4, <1>5

\* A call ends and gives its slot back.
LEMMA EndedKeeps ==
  ASSUME NEW ids, NEW l, NEW limits, Sound(l, limits, ids), Pauses, None \notin Nat,
         limits \in Slots,
         NEW c \in Running(l), PriorityOf(c) \in Priorities,
         NEW outcomes, NEW e \in Ended(l, c, outcomes)
  PROVE  /\ Sound(e, limits, ids) /\ c \in ids \ Waiting(e)
         /\ e.admitted[c] = None /\ l.admitted[c] # None
         /\ e.queue = l.queue /\ Running(e) = Running(l) \ {c}
         /\ Changes(l, e) => l.left = 0 /\ c \notin l.under
<1>1. PICK outcome \in outcomes :
        e = [Told(l, c, outcome) EXCEPT
               !.admitted[c] = None, !.under = @ \ {c}, !.active = @ - 1,
               !.background = IF PriorityOf(c) = "background" THEN @ - 1 ELSE @]
  BY Zenon DEF Ended
<1> DEFINE t == Told(l, c, outcome)
<1>2. /\ t \in Limiters(ids) /\ PausesOk(t)
      /\ t.queue = l.queue /\ t.admitted = l.admitted /\ t.active = l.active /\ t.background = l.background
      /\ Changes(l, t) => l.left = 0 /\ c \notin l.under
  BY ToldKeeps
<1>3. /\ l \in Limiters(ids) /\ QueuesOk(l) /\ IsFiniteSet(Running(l))
      /\ l.active = Cardinality(Running(l)) /\ l.active <= limits.concurrent
      /\ l.background = Cardinality(BackgroundCalls(l)) /\ l.background <= limits.background
  BY SlotsSay DEF Sound
<1>4. c \in ids /\ l.admitted[c] # None /\ l.admitted \in [ids -> Nat \cup {None}] /\ l.active \in Nat /\ l.background \in Nat
  BY <1>3 DEF Running, Limiters
<1> DEFINE back == PriorityOf(c) = "background"
<1> HIDE DEF t
<1>5. e = [t EXCEPT !.admitted = [l.admitted EXCEPT ![c] = None], !.under = t.under \ {c},
                    !.active = l.active - 1, !.background = IF back THEN l.background - 1 ELSE l.background]
  BY <1>1, <1>2 DEF t, Limiters
<1>6. /\ IsFiniteSet(Running(l) \ {c}) /\ Cardinality(Running(l) \ {c}) = l.active - 1
      /\ l.active - 1 \in Nat
  <2>1. c \in Running(l) /\ IsFiniteSet(Running(l)) /\ l.active = Cardinality(Running(l))
    BY <1>3
  <2>2. l.active # 0
    BY <2>1, FS_EmptySet
  <2>3. IsFiniteSet(Running(l) \ {c}) /\ Cardinality(Running(l) \ {c}) = l.active - 1
    BY <2>1, FS_RemoveElement
  <2> QED
    BY <1>4, <2>2, <2>3
<1>7. /\ Cardinality(BackgroundCalls(l) \ {c}) = IF back THEN l.background - 1 ELSE l.background
      /\ back => l.background - 1 \in Nat
  <2>1. IsFiniteSet(BackgroundCalls(l)) /\ (c \in BackgroundCalls(l) <=> back)
    BY <1>3, FS_Subset DEF BackgroundCalls
  <2>2. back => l.background # 0
    BY <1>3, <2>1, FS_EmptySet
  <2>3. Cardinality(BackgroundCalls(l) \ {c})
          = IF c \in BackgroundCalls(l) THEN Cardinality(BackgroundCalls(l)) - 1 ELSE Cardinality(BackgroundCalls(l))
    BY <2>1, FS_RemoveElement
  <2> HIDE DEF back
  <2>4. Cardinality(BackgroundCalls(l) \ {c}) = IF back THEN l.background - 1 ELSE l.background
    BY <1>3, <2>1, <2>3
  <2> QED
    BY <1>4, <2>2, <2>4
<1> HIDE DEF back
<1>8. /\ e \in Limiters(ids)
      /\ e.queue = l.queue /\ e.admitted = [l.admitted EXCEPT ![c] = None]
      /\ e.active = l.active - 1 /\ e.background = IF back THEN l.background - 1 ELSE l.background
      /\ e.cooldown = t.cooldown /\ e.left = t.left /\ e.pauses = t.pauses /\ e.under = t.under \ {c}
  BY <1>2, <1>4, <1>5, <1>6, <1>7 DEF Limiters
<1>9. Running(e) = Running(l) \ {c} /\ BackgroundCalls(e) = BackgroundCalls(l) \ {c}
  BY <1>4, <1>8 DEF Running, BackgroundCalls
<1>10. SlotsOk(e, limits)
  <2>1. l.active - 1 <= limits.concurrent /\ (IF back THEN l.background - 1 ELSE l.background) <= limits.background
    BY <1>3, <1>4 DEF Slots
  <2> QED
    BY <1>6, <1>7, <1>8, <1>9, <2>1, SlotsSay
<1>11. QueuesOk(e)
  <2>1. \A p \in Priorities : l.queue[p] \in Seq(ids)
    BY <1>3 DEF Limiters
  <2>2. \A p \in Priorities : \A i \in 1..Len(l.queue[p]) : l.queue[p][i] \in ids /\ l.queue[p][i] # c
    BY <1>3, <1>4, <2>1, InSeq DEF QueuesOk
  <2> QED
    BY <1>3, <1>4, <1>8, <2>2 DEF QueuesOk
<1>12. PausesOk(e)
  BY <1>2, <1>4, <1>8, <1>9 DEF PausesOk, Running
<1>13. c \notin Waiting(e)
  <2>1. \A p \in Priorities : c \notin ToSet(l.queue[p])
    <3>1. \A p \in Priorities : l.queue[p] \in Seq(ids)
      BY <1>3 DEF Limiters
    <3> QED
      BY <1>3, <1>4, <3>1, InSeq DEF QueuesOk
  <2> QED
    BY <1>8, <2>1 DEF Waiting, Priorities
<1>14. Changes(l, e) => Changes(l, t)
  BY <1>8 DEF Changes
<1> QED
  BY <1>2, <1>4, <1>8, <1>9, <1>10, <1>11, <1>12, <1>13, <1>14 DEF Sound


\* Where nothing of a pause changes, nobody has to speak for the provider.
LEMMA NoPause ==
  ASSUME NEW ids, NEW l \in Limiters(ids), NEW m, m.cooldown = l.cooldown, m.left = l.left
  PROVE  OncePerEpisode(l, m)
BY DEF Limiters, OncePerEpisode, Changes

\* The events of a limiter, each with the pump it ends in.

\* A caller arrives.
LEMMA ArrivedKeeps ==
  ASSUME NEW ids, NEW l, NEW limits \in Slots, Sound(l, limits, ids), None \notin Nat,
         NEW c \in ids, PriorityOf(c) \in Priorities,
         c \notin Waiting(l) \cup Running(l)
  PROVE  LET m == Arrived(l, limits, c)
         IN Sound(m, limits, ids) /\ OncePerEpisode(l, m)
<1> DEFINE k == [l EXCEPT !.queue[PriorityOf(c)] = Append(@, c)]
<1>1. Sound(k, limits, ids) /\ SamePause(l, k)
  BY QueuedKeeps
<1> HIDE DEF k
<1>2. Sound(Pumped(k, limits), limits, ids) /\ SamePause(k, Pumped(k, limits))
  BY <1>1, PumpKeeps
<1>3. Arrived(l, limits, c) = Pumped(k, limits)
  BY Zenon DEF Arrived, k
<1>4. l \in Limiters(ids)
  BY DEF Sound
<1> QED
  BY <1>1, <1>2, <1>3, <1>4, NoPause DEF SamePause

\* A caller who waits is aborted.
LEMMA LeavesKeeps ==
  ASSUME NEW ids, NEW l, NEW limits, Sound(l, limits, ids), NEW c \in Waiting(l)
  PROVE  LET m == Left(l, c)
         IN Sound(m, limits, ids) /\ OncePerEpisode(l, m)
<1>1. Sound(Left(l, c), limits, ids) /\ SamePause(l, Left(l, c)) /\ l \in Limiters(ids)
  BY LeftKeeps DEF Sound
<1> QED
  BY <1>1, NoPause DEF SamePause

\* A call ends; if that begins a pause or resets the doubling, it is the call who
\* was admitted since the latest pause and now runs no more.
LEMMA EndsKeeps ==
  ASSUME NEW ids, NEW l, NEW limits \in Slots, Sound(l, limits, ids), Pauses, None \notin Nat,
         NEW c \in Running(l), PriorityOf(c) \in Priorities,
         NEW outcomes, NEW e \in Ended(l, c, outcomes)
  PROVE  LET m == Pumped(e, limits)
         IN Sound(m, limits, ids) /\ OncePerEpisode(l, m)
<1>1. /\ Sound(e, limits, ids) /\ c \in ids \ Waiting(e)
      /\ e.admitted[c] = None /\ l.admitted[c] # None
      /\ Changes(l, e) => l.left = 0 /\ c \notin l.under
  BY EndedKeeps
<1>2. /\ Sound(Pumped(e, limits), limits, ids) /\ SamePause(e, Pumped(e, limits))
      /\ Pumped(e, limits).admitted[c] = e.admitted[c]
  <2>1. Sound(e, limits, ids) => /\ Sound(Pumped(e, limits), limits, ids) /\ SamePause(e, Pumped(e, limits))
                                 /\ \A d \in ids \ Waiting(e) : Pumped(e, limits).admitted[d] = e.admitted[d]
    BY PumpKeeps
  <2> QED
    BY <1>1, <2>1
<1>3. Changes(l, Pumped(e, limits)) => Changes(l, e)
  BY <1>2 DEF SamePause, Changes
<1> QED
  BY <1>1, <1>2, <1>3 DEF OncePerEpisode

\* The timer clears itself.
LEMMA WokenSound ==
  ASSUME NEW ids, NEW l, NEW limits, Sound(l, limits, ids)
  PROVE  LET k == [l EXCEPT !.armed = FALSE]
         IN Sound(k, limits, ids) /\ SamePause(l, k) /\ Waiting(k) = Waiting(l) /\ Running(k) = Running(l)
<1> DEFINE k == [l EXCEPT !.armed = FALSE]
<1>1. l \in Limiters(ids) /\ QueuesOk(l) /\ PausesOk(l) /\ SlotsOk(l, limits)
  BY DEF Sound
<1>2. /\ k \in Limiters(ids) /\ SamePause(l, k) /\ k.queue = l.queue /\ k.admitted = l.admitted
      /\ k.active = l.active /\ k.background = l.background
  BY <1>1 DEF Limiters, SamePause
<1> HIDE DEF k
<1>3. Running(k) = Running(l) /\ BackgroundCalls(k) = BackgroundCalls(l) /\ Waiting(k) = Waiting(l)
  BY <1>2 DEF Running, BackgroundCalls, Waiting
<1>4. QueuesOk(k) /\ PausesOk(k) /\ SlotsOk(k, limits)
  BY <1>1, <1>2, <1>3, SlotsSay DEF QueuesOk, PausesOk, SamePause
<1> QED
  BY <1>2, <1>3, <1>4 DEF Sound, k

\* The timer fires.
LEMMA WokenKeeps ==
  ASSUME NEW ids, NEW l, NEW limits \in Slots, Sound(l, limits, ids), None \notin Nat
  PROVE  LET m == Woken(l, limits)
         IN Sound(m, limits, ids) /\ OncePerEpisode(l, m)
<1> DEFINE k == [l EXCEPT !.armed = FALSE]
<1>1. Sound(k, limits, ids) /\ SamePause(l, k)
  BY WokenSound
<1> HIDE DEF k
<1>2. Sound(Pumped(k, limits), limits, ids) /\ SamePause(k, Pumped(k, limits))
  BY <1>1, PumpKeeps
<1>3. Woken(l, limits) = Pumped(k, limits)
  BY Zenon DEF Woken, k
<1>4. l \in Limiters(ids)
  BY DEF Sound
<1> QED
  BY <1>1, <1>2, <1>3, <1>4, NoPause DEF SamePause

\* Time passes.
LEMMA EarlierKeeps ==
  ASSUME NEW ids, NEW l, NEW limits, Sound(l, limits, ids)
  PROVE  LET m == Earlier(l)
         IN Sound(m, limits, ids) /\ OncePerEpisode(l, m)
<1> DEFINE m == Earlier(l)
<1>1. l \in Limiters(ids) /\ QueuesOk(l) /\ PausesOk(l) /\ SlotsOk(l, limits)
  BY DEF Sound
<1>2. /\ m \in Limiters(ids) /\ m.queue = l.queue /\ m.admitted = l.admitted
      /\ m.active = l.active /\ m.background = l.background /\ m.cooldown = l.cooldown
      /\ m.left <= l.left /\ m.pauses = l.pauses /\ m.under = l.under
  BY <1>1 DEF Limiters, Earlier
<1> SUFFICES Sound(m, limits, ids) /\ OncePerEpisode(l, m)
  OBVIOUS
<1> HIDE DEF m
<1>3. Running(m) = Running(l) /\ BackgroundCalls(m) = BackgroundCalls(l)
  BY <1>2 DEF Running, BackgroundCalls
<1>4. QueuesOk(m) /\ PausesOk(m) /\ SlotsOk(m, limits)
  BY <1>1, <1>2, <1>3, SlotsSay DEF QueuesOk, PausesOk
<1>5. ~Changes(l, m)
  BY <1>1, <1>2 DEF Changes, Limiters
<1> QED
  BY <1>2, <1>4, <1>5 DEF Sound, OncePerEpisode


-----------------------------------------------------------------------------

\* Both limiters, and a session whose settled requests are among those it made:
\* the next one is a caller the process's gate may get.
LimiterInv ==
  /\ Sound(calls, CallLimits, Calls) /\ Sound(sessions, SessionLimits, Sessions)
  /\ made \in [Sessions -> 0..MaxRequests] /\ settled \in [Sessions -> Nat]
  /\ \A s \in Sessions : settled[s] <= made[s]

\* What the limits and the callers' names are.
LEMMA Callers ==
  /\ CallLimits \in Slots /\ SessionLimits \in Slots /\ Pauses /\ None \notin Nat /\ MaxRequests \in Nat
  /\ \A c \in Calls \cup Sessions : PriorityOf(c) \in Priorities
  /\ Plain \subseteq Calls
<1>1. \A c \in Calls \cup Sessions : c \in Plain \cup Sessions \/ c[1] \in Sessions
  BY DEF Calls, Requests
<1>2. \A c \in Calls \cup Sessions : PriorityOf(c) \in Priorities
  BY <1>1, PriorityAssumption DEF PriorityOf
<1> QED
  BY <1>2, LimitsAssumption, NoneAssumption DEF Slots, Pauses, Calls

\* A session's next request is a caller of the process's gate.
LEMMA NextCalls ==
  ASSUME LimiterInv, NEW s \in Sessions, settled[s] < made[s]
  PROVE  /\ NextOf(s) \in Calls
         /\ [settled EXCEPT ![s] = @ + 1] \in [Sessions -> Nat]
         /\ \A r \in Sessions : [settled EXCEPT ![s] = @ + 1][r] <= made[r]
<1>1. settled[s] \in Nat /\ made[s] \in 0..MaxRequests /\ settled[s] + 1 \in 1..MaxRequests
  BY Callers DEF LimiterInv
<1>2. NextOf(s) \in Calls
  BY <1>1 DEF NextOf, Calls, Requests
<1>3. \A r \in Sessions : [settled EXCEPT ![s] = @ + 1][r] = IF r = s THEN settled[s] + 1 ELSE settled[r]
  BY DEF LimiterInv
<1>4. \A r \in Sessions : settled[r] \in Nat /\ made[r] \in Nat /\ settled[r] <= made[r]
  BY Callers DEF LimiterInv
<1> QED
  BY <1>1, <1>2, <1>3, <1>4 DEF LimiterInv

\* A limiter begins with nobody in it.
LEMMA NewLimiter ==
  ASSUME NEW ids, NEW limits \in Slots
  PROVE  Sound(Limiter(ids), limits, ids)
<1> DEFINE l == Limiter(ids)
<1>1. /\ l \in Limiters(ids) /\ l.admitted = [c \in ids |-> None] /\ l.under = {}
      /\ l.active = 0 /\ l.background = 0
      /\ \A p \in Priorities : l.queue[p] = <<>>
  BY DEF Limiter, Limiters
<1> HIDE DEF l
<1>2. Running(l) = {} /\ BackgroundCalls(l) = {}
  BY <1>1 DEF Running, BackgroundCalls
<1>3. QueuesOk(l)
  BY <1>1 DEF QueuesOk, Distinct
<1>4. SlotsOk(l, limits)
  <2>1. IsFiniteSet({}) /\ Cardinality({}) = 0
    BY FS_EmptySet
  <2>2. l.active <= limits.concurrent /\ l.background <= limits.background
    BY <1>1 DEF Slots
  <2>3. IsFiniteSet(Running(l)) /\ l.active = Cardinality(Running(l)) /\ l.background = Cardinality(BackgroundCalls(l))
    BY <1>1, <1>2, <2>1
  <2> QED
    BY <2>2, <2>3, SlotsSay, Zenon
<1> QED
  BY <1>1, <1>2, <1>3, <1>4 DEF Sound, PausesOk, l

\* What a step does to one of the limiters.
Keeps(l, m, limits, ids) == Sound(m, limits, ids) /\ OncePerEpisode(l, m)

\* Each action, with what it does to each limiter and to the counts.
LEMMA LimiterStep ==
  ASSUME LimiterInv, LimiterNext
  PROVE  /\ Keeps(calls, calls', CallLimits, Calls)
         /\ Keeps(sessions, sessions', SessionLimits, Sessions)
         /\ made' \in [Sessions -> 0..MaxRequests] /\ settled' \in [Sessions -> Nat]
         /\ \A s \in Sessions : settled'[s] <= made'[s]
<1> USE DEF Settles
<1> DEFINE CallsKeep == Keeps(calls, calls', CallLimits, Calls)
<1> DEFINE SessionsKeep == Keeps(sessions, sessions', SessionLimits, Sessions)
<1> DEFINE CountsKeep == /\ made' \in [Sessions -> 0..MaxRequests] /\ settled' \in [Sessions -> Nat]
                         /\ \A s \in Sessions : settled'[s] <= made'[s]
<1> SUFFICES CallsKeep /\ SessionsKeep /\ CountsKeep
  OBVIOUS
<1>1. /\ Sound(calls, CallLimits, Calls) /\ Sound(sessions, SessionLimits, Sessions)
      /\ calls \in Limiters(Calls) /\ sessions \in Limiters(Sessions)
  BY DEF LimiterInv, Sound
<1>2. /\ CallLimits \in Slots /\ SessionLimits \in Slots /\ Pauses /\ None \notin Nat /\ MaxRequests \in Nat
      /\ \A c \in Calls \cup Sessions : PriorityOf(c) \in Priorities
      /\ Plain \subseteq Calls
  BY Callers
<1>3. UNCHANGED calls => CallsKeep
  BY <1>1, NoPause DEF Keeps
<1>4. UNCHANGED sessions => SessionsKeep
  BY <1>1, NoPause DEF Keeps
<1>5. UNCHANGED <<made, settled>> => CountsKeep
  BY DEF LimiterInv
<1>6. \A c \in Running(calls) : c \in Calls
  BY <1>1 DEF Running, Limiters
<1>7. \A s \in Running(sessions) : s \in Sessions
  BY <1>1 DEF Running, Limiters
<1> HIDE DEF CallsKeep, SessionsKeep, CountsKeep
<1>8. ASSUME NEW c \in Calls, c \notin Waiting(calls) \cup Running(calls),
             calls' = Arrived(calls, CallLimits, c)
      PROVE  CallsKeep
  BY <1>1, <1>2, <1>8, ArrivedKeeps DEF Keeps, CallsKeep
<1>9. ASSUME NEW c \in Waiting(calls), calls' = Left(calls, c)
      PROVE  CallsKeep
  BY <1>1, <1>9, LeavesKeeps DEF Keeps, CallsKeep
<1>10. ASSUME NEW c \in Running(calls), NEW outcomes, NEW e \in Ended(calls, c, outcomes),
              calls' = Pumped(e, CallLimits)
       PROVE  CallsKeep
  BY <1>1, <1>2, <1>6, <1>10, EndsKeeps DEF Keeps, CallsKeep
<1>11. ASSUME NEW s \in Sessions, settled[s] < made[s], settled' = [settled EXCEPT ![s] = @ + 1], UNCHANGED made
       PROVE  CountsKeep
  BY <1>11, NextCalls DEF CountsKeep, LimiterInv
<1>12. ASSUME NEW c \in Plain, Call(c) \/ CallLeaves(c) \/ CallEnds(c)
       PROVE  CallsKeep /\ SessionsKeep /\ CountsKeep
  <2>1. UNCHANGED <<sessions, made, settled>>
    BY <1>12 DEF Call, CallLeaves, CallEnds
  <2>2. CallsKeep
    <3>1. CASE Call(c)
      BY <1>2, <1>8, <3>1 DEF Call
    <3>2. CASE CallLeaves(c)
      BY <1>9, <3>2 DEF CallLeaves
    <3>3. CASE CallEnds(c)
      BY <1>10, <3>3 DEF CallEnds
    <3> QED
      BY <1>12, <3>1, <3>2, <3>3
  <2> QED
    BY <1>4, <1>5, <2>1, <2>2
<1>13. ASSUME NEW s \in Sessions, Open(s)
       PROVE  CallsKeep /\ SessionsKeep /\ CountsKeep
  <2>1. SessionsKeep
    BY <1>1, <1>2, <1>13, ArrivedKeeps DEF Open, Keeps, SessionsKeep
  <2>2. CountsKeep
    <3>1. made' = [made EXCEPT ![s] = 0] /\ settled' = [settled EXCEPT ![s] = 0]
      BY <1>13 DEF Open
    <3> QED
      BY <1>2, <3>1 DEF CountsKeep, LimiterInv
  <2> QED
    BY <1>3, <1>13, <2>1, <2>2 DEF Open
<1>14. ASSUME NEW s \in Sessions, Request(s)
       PROVE  CallsKeep /\ SessionsKeep /\ CountsKeep
  <2>1. UNCHANGED <<calls, sessions, settled>> /\ made' = [made EXCEPT ![s] = @ + 1] /\ made[s] < MaxRequests
    BY <1>14 DEF Request
  <2>2. CountsKeep
    BY <1>2, <2>1 DEF CountsKeep, LimiterInv
  <2> QED
    BY <1>3, <1>4, <2>1, <2>2
<1>15. ASSUME NEW s \in Sessions, Enter(s)
       PROVE  CallsKeep /\ SessionsKeep /\ CountsKeep
  <2>1. UNCHANGED <<sessions, made>> /\ settled[s] < made[s] /\ NextOf(s) \in Calls
    BY <1>15, NextCalls DEF Enter
  <2>2. CASE s \in aborted
    <3>1. settled' = [settled EXCEPT ![s] = @ + 1] /\ UNCHANGED calls
      BY <1>15, <2>2 DEF Enter
    <3> QED
      BY <1>3, <1>4, <1>11, <2>1, <3>1
  <2>3. CASE s \notin aborted
    <3>1. /\ NextOf(s) \notin Waiting(calls) \cup Running(calls)
          /\ calls' = Arrived(calls, CallLimits, NextOf(s)) /\ UNCHANGED settled
      BY <1>15, <2>3 DEF Enter
    <3> QED
      BY <1>4, <1>5, <1>8, <2>1, <3>1
  <2> QED
    BY <2>2, <2>3
<1>16. ASSUME NEW s \in Sessions, RequestLeaves(s)
       PROVE  CallsKeep /\ SessionsKeep /\ CountsKeep
  BY <1>4, <1>9, <1>11, <1>16 DEF RequestLeaves
<1>17. ASSUME NEW s \in Sessions, RequestEnds(s)
       PROVE  CallsKeep /\ SessionsKeep /\ CountsKeep
  BY <1>4, <1>10, <1>11, <1>17 DEF RequestEnds
<1>18. ASSUME NEW s \in Sessions, AbortSession(s)
       PROVE  CallsKeep /\ SessionsKeep /\ CountsKeep
  <2>1. SessionsKeep
    <3>1. CASE s \in Waiting(sessions)
      <4>1. sessions' = Left(sessions, s)
        BY <1>18, <3>1 DEF AbortSession
      <4> QED
        BY <1>1, <3>1, <4>1, LeavesKeeps DEF Keeps, SessionsKeep
    <3>2. CASE s \notin Waiting(sessions)
      BY <1>4, <1>18, <3>2 DEF AbortSession
    <3> QED
      BY <3>1, <3>2
  <2>2. UNCHANGED made
    BY <1>18 DEF AbortSession
  <2>3. CASE settled[s] < made[s] /\ NextOf(s) \in Waiting(calls)
    <3>1. calls' = Left(calls, NextOf(s)) /\ settled' = [settled EXCEPT ![s] = @ + 1]
      BY <1>18, <2>3 DEF AbortSession
    <3> QED
      BY <1>9, <1>11, <2>1, <2>2, <2>3, <3>1
  <2>4. CASE ~(settled[s] < made[s] /\ NextOf(s) \in Waiting(calls))
    <3>1. UNCHANGED <<calls, settled>>
      BY <1>18, <2>4 DEF AbortSession
    <3> QED
      BY <1>3, <1>5, <2>1, <2>2, <3>1
  <2> QED
    BY <2>3, <2>4
<1>19. ASSUME NEW s \in Sessions, CloseSession(s)
       PROVE  CallsKeep /\ SessionsKeep /\ CountsKeep
  <2>1. UNCHANGED <<calls, made, settled>> /\ s \in Running(sessions)
    BY <1>19 DEF CloseSession
  <2>2. PICK may : \E e \in Ended(sessions, s, may) : sessions' = Pumped(e, SessionLimits)
    BY <1>19 DEF CloseSession
  <2>3. SessionsKeep
    BY <1>1, <1>2, <2>1, <2>2, EndsKeeps DEF Keeps, SessionsKeep
  <2> QED
    BY <1>3, <1>5, <2>1, <2>3
<1>20. CASE Wake
  <2>1. CASE calls' = Woken(calls, CallLimits) /\ UNCHANGED <<sessions, made, settled>>
    BY <1>1, <1>2, <1>4, <1>5, <2>1, WokenKeeps DEF Keeps, CallsKeep
  <2>2. CASE sessions' = Woken(sessions, SessionLimits) /\ UNCHANGED <<calls, made, settled>>
    BY <1>1, <1>2, <1>3, <1>5, <2>2, WokenKeeps DEF Keeps, SessionsKeep
  <2> QED
    BY <1>20, <2>1, <2>2 DEF Wake
<1>21. CASE Tick
  BY <1>1, <1>5, <1>21, EarlierKeeps DEF Tick, Keeps, CallsKeep, SessionsKeep
<1> QED
  BY <1>12, <1>13, <1>14, <1>15, <1>16, <1>17, <1>18, <1>19, <1>20, <1>21 DEF LimiterNext



\* It holds in every state.
LEMMA LimiterStays == LimiterSpec => []LimiterInv
<1>1. LimiterInit => LimiterInv
  BY Callers, NewLimiter DEF LimiterInit, LimiterInv
<1>2. LimiterInv /\ [LimiterNext]_limiterVars => LimiterInv'
  <2> SUFFICES ASSUME LimiterInv, [LimiterNext]_limiterVars
               PROVE  LimiterInv'
    OBVIOUS
  <2>1. CASE LimiterNext
    BY <2>1, LimiterStep DEF LimiterInv, Keeps
  <2>2. CASE UNCHANGED limiterVars
    BY <2>2 DEF LimiterInv, limiterVars
  <2> QED
    BY <2>1, <2>2
<1> QED
  BY <1>1, <1>2, PTL DEF LimiterSpec

\* No mix of arrivals, aborts, ends and pauses leaks a slot or gives one out
\* twice: "active" and "background" count the calls that run, within the limits.
THEOREM SlotsAlwaysFit == LimiterSpec => []SlotsFit
<1>1. LimiterInv => SlotsFit
  BY DEF LimiterInv, Sound, SlotsOk, SlotsFit
<1> QED
  BY <1>1, LimiterStays, PTL

\* A call that ran when a pause began neither begins another one nor ends the
\* doubling (admittedAt === pauses, and the pause is over).
THEOREM EpisodesPauseOnce == LimiterSpec => PausesOnce
<1> DEFINE Once == OncePerEpisode(calls, calls') /\ OncePerEpisode(sessions, sessions')
<1>1. LimiterInv /\ [LimiterNext]_limiterVars => [Once]_limiterVars
  BY LimiterStep DEF Keeps
<1>2. PausesOnce <=> [][Once]_limiterVars
  BY DEF PausesOnce
<1> HIDE DEF Once
<1> QED
  BY <1>1, <1>2, LimiterStays, PTL DEF LimiterSpec

-----------------------------------------------------------------------------

\* Who waits has a reason: an interactive caller that every slot is taken, a
\* background one that all it may have are, or that the timer will wake it.
Prompt(l, limits) ==
  /\ l.queue["interactive"] # <<>> => l.active = limits.concurrent
  /\ l.queue["background"] # <<>> =>
       \/ l.armed
       \/ l.left = 0 /\ (l.active = limits.concurrent \/ l.background = limits.background)

\* A background call is admitted when no interactive one waits and no pause is on.
Yields(l, m) ==
  \A c \in Running(m) \ Running(l) :
    PriorityOf(c) = "background" => m.queue["interactive"] = <<>> /\ m.left = 0

BackgroundYields == [][Yields(calls, calls') /\ Yields(sessions, sessions')]_limiterVars

\* Who may wait and run after a step: "in" may have joined, "out" may not be there.
Moves(l, m, in, out) ==
  /\ Waiting(m) \subseteq (Waiting(l) \ out) \cup in
  /\ Running(m) \subseteq (Running(l) \ out) \cup (Waiting(l) \ out) \cup in

Serves(l, m, limits, in, out) == Prompt(m, limits) /\ Yields(l, m) /\ Moves(l, m, in, out)

\* A queue of which everybody goes is empty.
LEMMA AllGo ==
  ASSUME NEW S, NEW q \in Seq(S), NEW n \in 0..Len(q)
  PROVE  Without(q, n) = <<>> <=> n = Len(q)
<1>1. Len(q) \in Nat /\ \A i \in 1..Len(q) : q[i] \in S
  BY InSeq
<1>2. /\ Without(q, n) \in Seq(S)
      /\ Len(Without(q, n)) = IF n + 1 <= Len(q) THEN Len(q) - (n + 1) + 1 ELSE 0
  <2>1. \A i \in (n + 1)..Len(q) : q[i] \in S
    BY <1>1
  <2> QED
    BY <1>1, <2>1, SubSeqProperties DEF Without
<1>3. Len(Without(q, n)) = 0 <=> n = Len(q)
  BY <1>1, <1>2
<1> QED
  BY <1>2, <1>3, EmptySeq

\* pump leaves nobody waiting without a reason.
LEMMA PumpServes ==
  ASSUME NEW ids, NEW l, NEW limits \in Slots, Sound(l, limits, ids)
  PROVE  Serves(l, Pumped(l, limits), limits, {}, {})
<1> DEFINE m == Pumped(l, limits)
<1> DEFINE nI == AdmitsInteractive(l, limits)
<1> DEFINE nB == AdmitsBackground(l, limits)
<1> DEFINE qI == l.queue["interactive"]
<1> DEFINE qB == l.queue["background"]
<1> SUFFICES Serves(l, m, limits, {}, {})
  OBVIOUS
<1> HIDE DEF m, nI, nB, qI, qB
<1>1. /\ nI \in 0..Len(qI) /\ nB \in 0..Len(qB)
      /\ l.active + nI + nB <= limits.concurrent
      /\ l.background + nB <= limits.background
  BY AdmitsFit DEF nI, nB, qI, qB
<1>2. /\ nI = Least(limits.concurrent - l.active, Len(qI))
      /\ nB = Least(Least(limits.concurrent - l.active - nI, BackgroundFree(l, limits)), Len(qB))
      /\ BackgroundFree(l, limits) = IF l.left > 0 THEN 0 ELSE limits.background - l.background
  BY Zenon DEF AdmitsInteractive, AdmitsBackground, BackgroundFree, nI, nB, qI, qB
<1>3. /\ m.queue["interactive"] = Without(qI, nI) /\ m.queue["background"] = Without(qB, nB)
      /\ m.admitted = [c \in ids |-> IF c \in Goes(l, limits) THEN l.pauses ELSE l.admitted[c]]
      /\ m.active = l.active + nI + nB /\ m.background = l.background + nB /\ m.left = l.left
      /\ Goes(l, limits) = ToSet(FirstOf(qI, nI)) \cup ToSet(FirstOf(qB, nB))
  <2>1. Goes(l, limits) = ToSet(FirstOf(qI, nI)) \cup ToSet(FirstOf(qB, nB))
    BY PumpedIs DEF qI, qB, nI, nB
  <2>2. /\ m \in Limiters(ids) /\ SamePause(l, m)
        /\ m.queue = [p \in Priorities |-> Without(l.queue[p], Admits(l, limits, p))]
        /\ m.admitted = [c \in ids |-> IF c \in Goes(l, limits) THEN l.pauses ELSE l.admitted[c]]
        /\ m.active = l.active + nI + nB /\ m.background = l.background + nB
    BY PumpedIs DEF SamePause, m, nI, nB
  <2>3. m.queue["interactive"] = Without(qI, nI) /\ m.queue["background"] = Without(qB, nB)
    BY <2>2 DEF Admits, Priorities, qI, qB, nI, nB
  <2> QED
    BY <2>1, <2>2, <2>3 DEF SamePause
<1>4. m.armed <=> l.armed \/ (qB # <<>> /\ l.left > 0)
  <2>1. l.armed \in BOOLEAN /\ m.armed = Arms(l, limits)
    BY DEF Sound, Limiters, Pumped, m
  <2> QED
    BY <2>1 DEF Arms, qB
<1>5. /\ qI \in Seq(ids) /\ qB \in Seq(ids) /\ Distinct(qI) /\ Distinct(qB)
      /\ Len(qI) \in Nat /\ Len(qB) \in Nat
      /\ \A i \in 1..Len(qI) : PriorityOf(qI[i]) = "interactive" /\ l.admitted[qI[i]] = None
      /\ l.active \in Nat /\ l.background \in Nat /\ l.left \in Nat
      /\ l.admitted \in [ids -> Nat \cup {None}]
  BY InSeq DEF Sound, Limiters, QueuesOk, Priorities, qI, qB
<1>6. limits.concurrent \in Nat /\ limits.background \in Nat
  BY DEF Slots
<1>7. /\ m.queue["interactive"] = <<>> <=> nI = Len(qI)
      /\ m.queue["background"] = <<>> <=> nB = Len(qB)
  BY <1>1, <1>3, <1>5, AllGo
<1>8. Prompt(m, limits)
  <2>1. nI # Len(qI) => m.active = limits.concurrent
    <3>1. nI = IF limits.concurrent - l.active < Len(qI) THEN limits.concurrent - l.active ELSE Len(qI)
      BY <1>2 DEF Least
    <3> QED
      BY <1>1, <1>3, <1>5, <1>6, <3>1
  <2>2. ASSUME nB # Len(qB), l.left = 0
        PROVE  m.active = limits.concurrent \/ m.background = limits.background
    <3> DEFINE room == limits.concurrent - l.active - nI
               free == limits.background - l.background
    <3>1. room \in Int /\ free \in Int /\ Len(qB) \in Nat
      BY <1>1, <1>5, <1>6
    <3>2. BackgroundFree(l, limits) = free
      BY <1>2, <1>5, <2>2
    <3>3. nB = Least(Least(room, free), Len(qB))
      BY <1>2, <3>2
    <3> HIDE DEF room, free
    <3>4. nB = room \/ nB = free
      BY <2>2, <3>3 DEF Least
    <3> QED
      BY <1>1, <1>3, <1>5, <1>6, <3>4 DEF room, free
  <2>3. nB # Len(qB) => qB # <<>>
    BY <1>1, <1>5, EmptySeq
  <2> QED
    BY <1>3, <1>4, <1>5, <1>7, <2>1, <2>2, <2>3 DEF Prompt
<1>9. /\ ToSet(FirstOf(qI, nI)) = {qI[i] : i \in 1..nI} /\ ToSet(FirstOf(qB, nB)) = {qB[i] : i \in 1..nB}
      /\ ToSet(Without(qI, nI)) = {qI[i] : i \in (nI + 1)..Len(qI)}
      /\ ToSet(Without(qB, nB)) = {qB[i] : i \in (nB + 1)..Len(qB)}
      /\ ToSet(qI) = {qI[i] : i \in 1..Len(qI)} /\ ToSet(qB) = {qB[i] : i \in 1..Len(qB)}
  <2>1. /\ ToSet(FirstOf(qI, nI)) = {qI[i] : i \in 1..nI}
        /\ ToSet(Without(qI, nI)) = {qI[i] : i \in (nI + 1)..Len(qI)}
    <3>1. qI \in Seq(ids) /\ Distinct(qI) /\ nI \in 0..Len(qI)
      BY <1>1, <1>5
    <3>2. ToSet(FirstOf(qI, nI)) = Places(qI, 1, nI) /\ ToSet(Without(qI, nI)) = Places(qI, nI + 1, Len(qI))
      BY <3>1, PrefixSets
    <3> QED
      BY <3>2 DEF Places
  <2>2. /\ ToSet(FirstOf(qB, nB)) = {qB[i] : i \in 1..nB}
        /\ ToSet(Without(qB, nB)) = {qB[i] : i \in (nB + 1)..Len(qB)}
    <3>1. qB \in Seq(ids) /\ Distinct(qB) /\ nB \in 0..Len(qB)
      BY <1>1, <1>5
    <3>2. ToSet(FirstOf(qB, nB)) = Places(qB, 1, nB) /\ ToSet(Without(qB, nB)) = Places(qB, nB + 1, Len(qB))
      BY <3>1, PrefixSets
    <3> QED
      BY <3>2 DEF Places
  <2>3. ToSet(qI) = {qI[i] : i \in 1..Len(qI)} /\ ToSet(qB) = {qB[i] : i \in 1..Len(qB)}
    <3>1. qI \in Seq(ids) /\ qB \in Seq(ids)
      BY <1>5
    <3>2. ToSet(qI) = {qI[i] : i \in 1..Len(qI)}
      BY <3>1, InSeq
    <3>3. ToSet(qB) = {qB[i] : i \in 1..Len(qB)}
      BY <3>1, InSeq
    <3> QED
      BY <3>2, <3>3
  <2> QED
    BY <2>1, <2>2, <2>3
<1>10. Moves(l, m, {}, {})
  <2>1. /\ \A i \in 1..nI : i \in 1..Len(qI)
        /\ \A i \in 1..nB : i \in 1..Len(qB)
        /\ \A i \in (nI + 1)..Len(qI) : i \in 1..Len(qI)
        /\ \A i \in (nB + 1)..Len(qB) : i \in 1..Len(qB)
    BY <1>1, <1>5
  <2>2. Waiting(l) = ToSet(qI) \cup ToSet(qB)
    BY DEF Waiting, qI, qB
  <2>3. Goes(l, limits) \subseteq Waiting(l)
    BY <1>3, <1>9, <2>1, <2>2
  <2>4. Waiting(m) \subseteq Waiting(l)
    BY <1>3, <1>9, <2>1, <2>2 DEF Waiting
  <2>5. Running(m) \subseteq Running(l) \cup Waiting(l)
    BY <1>3, <1>5, <2>3 DEF Running
  <2> QED
    BY <2>4, <2>5 DEF Moves
<1>11. Yields(l, m)
  <2> SUFFICES ASSUME NEW c \in Running(m) \ Running(l), PriorityOf(c) = "background"
               PROVE  m.queue["interactive"] = <<>> /\ m.left = 0
    BY DEF Yields
  <2>1. c \in Goes(l, limits)
    BY <1>3, <1>5 DEF Running
  <2>2. \A i \in 1..nI : PriorityOf(qI[i]) = "interactive"
    <3>1. \A i \in 1..nI : i \in 1..Len(qI)
      BY <1>1, <1>5
    <3> QED
      BY <1>5, <3>1
  <2>3. c \notin ToSet(FirstOf(qI, nI))
    BY <1>9, <2>2
  <2>4. nB > 0
    BY <1>1, <1>3, <1>9, <2>1, <2>3
  <2>5. nI = Len(qI) /\ l.left = 0
    BY <1>1, <1>2, <1>5, <1>6, <2>4 DEF Least
  <2> QED
    BY <1>3, <1>7, <2>5
<1> QED
  BY <1>8, <1>10, <1>11 DEF Serves

\* Nothing done serves as before.
LEMMA SameServes ==
  ASSUME NEW l, NEW limits, Prompt(l, limits)
  PROVE  Serves(l, l, limits, {}, {})
BY DEF Serves, Yields, Moves

\* A caller arrives.
LEMMA ArrivedServes ==
  ASSUME NEW ids, NEW l, NEW limits \in Slots, Sound(l, limits, ids),
         NEW c \in ids, PriorityOf(c) \in Priorities,
         c \notin Waiting(l) \cup Running(l)
  PROVE  Serves(l, Arrived(l, limits, c), limits, {c}, {})
<1> DEFINE p == PriorityOf(c)
<1> DEFINE k == [l EXCEPT !.queue[PriorityOf(c)] = Append(@, c)]
<1>1. Sound(k, limits, ids) /\ k.admitted = l.admitted
  BY QueuedKeeps
<1>2. l \in Limiters(ids) /\ l.queue[p] \in Seq(ids)
  BY DEF Sound, Limiters
<1>3. k.queue = [l.queue EXCEPT ![p] = Append(l.queue[p], c)]
  BY <1>2 DEF Limiters
<1>4. ToSet(Append(l.queue[p], c)) = ToSet(l.queue[p]) \cup {c}
  <2> DEFINE q == l.queue[p]
  <2>1. /\ Append(q, c) \in Seq(ids) /\ Len(Append(q, c)) = Len(q) + 1
        /\ Append(q, c)[Len(q) + 1] = c /\ Len(q) \in Nat
        /\ \A i \in 1..Len(q) : Append(q, c)[i] = q[i]
    BY <1>2, AppendProperties, LenProperties
  <2> HIDE DEF q
  <2>2. ToSet(Append(q, c)) = {Append(q, c)[i] : i \in 1..(Len(q) + 1)}
    <3> DEFINE r == Append(q, c)
    <3>1. r \in Seq(ids) /\ Len(r) = Len(q) + 1
      BY <2>1
    <3> HIDE DEF r
    <3>2. ToSet(r) = {r[i] : i \in 1..Len(r)}
      BY <3>1, InSeq
    <3> QED
      BY <3>1, <3>2 DEF r
  <2>3. ToSet(q) = {q[i] : i \in 1..Len(q)}
    BY <1>2, InSeq DEF q
  <2>4. \A i \in 1..(Len(q) + 1) : i = Len(q) + 1 \/ i \in 1..Len(q)
    BY <2>1
  <2>5. Len(q) + 1 \in 1..(Len(q) + 1) /\ \A i \in 1..Len(q) : i \in 1..(Len(q) + 1)
    BY <2>1
  <2> QED
    BY <2>1, <2>2, <2>3, <2>4, <2>5 DEF q
<1>5. Waiting(k) \subseteq Waiting(l) \cup {c}
  BY <1>2, <1>3, <1>4 DEF Waiting, Limiters, Priorities
<1>6. Running(k) = Running(l)
  BY <1>1 DEF Running
<1>7. Serves(k, Pumped(k, limits), limits, {}, {})
  BY <1>1, PumpServes
<1>8. Arrived(l, limits, c) = Pumped(k, limits)
  BY Zenon DEF Arrived, k
<1> HIDE DEF k
<1> QED
  BY <1>5, <1>6, <1>7, <1>8 DEF Serves, Yields, Moves

\* A caller who waits is aborted: nobody gets a slot, nobody else waits longer.
LEMMA LeavesServes ==
  ASSUME NEW ids, NEW l, NEW limits, Sound(l, limits, ids), Prompt(l, limits), NEW c \in Waiting(l)
  PROVE  Serves(l, Left(l, c), limits, {}, {c})
<1> DEFINE m == Left(l, c)
<1>1. l \in Limiters(ids) /\ QueuesOk(l)
  BY DEF Sound
<1>2. PICK p \in Priorities, i \in Nat :
        /\ p = PriorityOf(c) /\ l.queue[p] \in Seq(ids)
        /\ i \in 1..Len(l.queue[p]) /\ l.queue[p][i] = c
        /\ m = [l EXCEPT !.queue = [l.queue EXCEPT ![p] = RemoveAt(l.queue[p], i)]]
  BY LeftIs
<1> DEFINE q == l.queue[p]
<1> DEFINE r == RemoveAt(q, i)
<1>3. Distinct(q) /\ l.admitted[c] = None
  BY <1>1, <1>2 DEF QueuesOk
<1>4. r \in Seq(ids) /\ ToSet(r) \subseteq ToSet(q) \ {c} /\ (r # <<>> => q # <<>>)
  BY <1>2, <1>3, WithoutOne
<1> HIDE DEF m, r
<1>5. /\ m.admitted = l.admitted /\ m.armed = l.armed /\ m.left = l.left
      /\ m.active = l.active /\ m.background = l.background
      /\ m.queue[p] = r /\ \A o \in Priorities \ {p} : m.queue[o] = l.queue[o]
  BY <1>1, <1>2 DEF Limiters, r
<1>6. Running(m) = Running(l) /\ c \notin Running(l)
  BY <1>3, <1>5 DEF Running
<1>7. \A o \in Priorities \ {p} : c \notin ToSet(l.queue[o])
  <2> TAKE o \in Priorities \ {p}
  <2>1. l.queue[o] \in Seq(ids)
    BY <1>1 DEF Limiters
  <2> QED
    BY <1>1, <1>2, <2>1, InSeq DEF QueuesOk
<1>8. Waiting(m) \subseteq Waiting(l) \ {c}
  BY <1>4, <1>5, <1>7 DEF Waiting, Priorities
<1>9. Prompt(m, limits)
  BY <1>4, <1>5 DEF Prompt, Priorities
<1> QED
  BY <1>6, <1>8, <1>9 DEF Serves, Yields, Moves, m

\* A call ends: it neither waits nor runs any more.
LEMMA EndsServes ==
  ASSUME NEW ids, NEW l, NEW limits \in Slots, Sound(l, limits, ids), Pauses, None \notin Nat,
         NEW c \in Running(l), PriorityOf(c) \in Priorities,
         NEW outcomes, NEW e \in Ended(l, c, outcomes)
  PROVE  Serves(l, Pumped(e, limits), limits, {}, {c})
<1>1. /\ Sound(e, limits, ids) /\ c \notin Waiting(e)
      /\ e.queue = l.queue /\ Running(e) = Running(l) \ {c}
  BY EndedKeeps
<1>2. Waiting(e) = Waiting(l)
  BY <1>1 DEF Waiting
<1>3. Serves(e, Pumped(e, limits), limits, {}, {})
  BY <1>1, PumpServes
<1> QED
  BY <1>1, <1>2, <1>3 DEF Serves, Yields, Moves

\* The timer fires.
LEMMA WokenServes ==
  ASSUME NEW ids, NEW l, NEW limits \in Slots, Sound(l, limits, ids)
  PROVE  Serves(l, Woken(l, limits), limits, {}, {})
<1> DEFINE k == [l EXCEPT !.armed = FALSE]
<1>1. Sound(k, limits, ids) /\ Waiting(k) = Waiting(l) /\ Running(k) = Running(l)
  BY WokenSound
<1>2. Serves(k, Pumped(k, limits), limits, {}, {})
  BY <1>1, PumpServes
<1>3. Woken(l, limits) = Pumped(k, limits)
  BY Zenon DEF Woken, k
<1> HIDE DEF k
<1> QED
  BY <1>1, <1>2, <1>3 DEF Serves, Yields, Moves

\* Time passes: whom a pause held back, its timer wakes.
LEMMA EarlierServes ==
  ASSUME NEW ids, NEW l, NEW limits, Sound(l, limits, ids), Prompt(l, limits)
  PROVE  Serves(l, Earlier(l), limits, {}, {})
<1> DEFINE m == Earlier(l)
<1>1. l \in Limiters(ids)
  BY DEF Sound
<1>2. /\ m.queue = l.queue /\ m.admitted = l.admitted /\ m.armed = l.armed
      /\ m.active = l.active /\ m.background = l.background
      /\ l.left = 0 => m.left = 0
  BY <1>1 DEF Limiters, Earlier
<1> HIDE DEF m
<1>3. Waiting(m) = Waiting(l) /\ Running(m) = Running(l)
  BY <1>2 DEF Waiting, Running
<1> QED
  BY <1>2, <1>3 DEF Serves, Yields, Moves, Prompt, m

-----------------------------------------------------------------------------

\* Of a session's requests only the first that is not settled waits or runs.
InTurn ==
  \A s \in Sessions : \A c \in Requests(s) :
    c \in Waiting(calls) \cup Running(calls) => c = NextOf(s) /\ settled[s] < made[s]

\* Nothing of an aborted session waits at either limiter.
AbortedGone ==
  \A s \in aborted \cap Sessions :
    s \notin Waiting(sessions) /\ \A c \in Requests(s) : c \notin Waiting(calls)

AllPrompt == Prompt(calls, CallLimits) /\ Prompt(sessions, SessionLimits)

TurnsInv == AllPrompt /\ InTurn /\ AbortedGone

\* A caller at the process's gate is a single call or one session's request.
LEMMA Apart ==
  /\ \A s, t \in Sessions : \A c \in Requests(s) : c \in Requests(t) => s = t
  /\ \A c \in Plain, s \in Sessions : c \notin Requests(s)
BY NamesAssumption DEF Requests

\* Where the gate serves and no request joins it, the order of requests stays.
LEMMA OrderStays ==
  ASSUME TurnsInv, NEW in, NEW out, Moves(calls, calls', in, out),
         \A s \in Sessions : in \cap Requests(s) = {},
         UNCHANGED <<made, settled>>
  PROVE  InTurn' /\ \A s \in Sessions : \A c \in Requests(s) : c \notin Waiting(calls) => c \notin Waiting(calls')
BY DEF TurnsInv, InTurn, Moves, NextOf

\* Who went to a limiter, and who left it, with each action.
LEMMA TurnsStep ==
  ASSUME LimiterInv, TurnsInv, LimiterNext
  PROVE  /\ TurnsInv'
         /\ Yields(calls, calls') /\ Yields(sessions, sessions')
<1> DEFINE Both(in, out, inS, outS) ==
      /\ Serves(calls, calls', CallLimits, in, out)
      /\ Serves(sessions, sessions', SessionLimits, inS, outS)
<1> DEFINE Goal == TurnsInv' /\ Yields(calls, calls') /\ Yields(sessions, sessions')
<1> SUFFICES Goal
  OBVIOUS
<1>1. /\ Sound(calls, CallLimits, Calls) /\ Sound(sessions, SessionLimits, Sessions)
      /\ Prompt(calls, CallLimits) /\ Prompt(sessions, SessionLimits)
      /\ calls \in Limiters(Calls) /\ sessions \in Limiters(Sessions)
  BY DEF LimiterInv, Sound, TurnsInv, AllPrompt
<1>2. /\ CallLimits \in Slots /\ SessionLimits \in Slots /\ Pauses /\ None \notin Nat /\ MaxRequests \in Nat
      /\ \A c \in Calls \cup Sessions : PriorityOf(c) \in Priorities
      /\ Plain \subseteq Calls
  BY Callers
<1>3. Running(calls) \subseteq Calls /\ Running(sessions) \subseteq Sessions
  BY <1>1 DEF Running, Limiters
<1>4. UNCHANGED calls => Serves(calls, calls', CallLimits, {}, {})
  BY <1>1, SameServes
<1>5. UNCHANGED sessions => Serves(sessions, sessions', SessionLimits, {}, {})
  BY <1>1, SameServes
<1>6. ASSUME NEW c \in Calls, c \notin Waiting(calls) \cup Running(calls),
             calls' = Arrived(calls, CallLimits, c)
      PROVE  Serves(calls, calls', CallLimits, {c}, {})
  BY <1>1, <1>2, <1>6, ArrivedServes
<1>7. ASSUME NEW c \in Waiting(calls), calls' = Left(calls, c)
      PROVE  Serves(calls, calls', CallLimits, {}, {c})
  BY <1>1, <1>7, LeavesServes
<1>8. ASSUME NEW c \in Running(calls), NEW outcomes, NEW e \in Ended(calls, c, outcomes),
             calls' = Pumped(e, CallLimits)
      PROVE  Serves(calls, calls', CallLimits, {}, {c})
  BY <1>1, <1>2, <1>3, <1>8, EndsServes
<1>9. ASSUME NEW in, NEW out, NEW inS, NEW outS, Both(in, out, inS, outS),
             InTurn', AbortedGone'
      PROVE  Goal
  BY <1>9 DEF Serves, TurnsInv, AllPrompt
<1>10. ASSUME NEW in, NEW out, NEW inS, NEW outS, Both(in, out, inS, outS),
              \A s \in Sessions : in \cap Requests(s) = {}, inS \cap aborted' = {},
              UNCHANGED <<made, settled>>, aborted' \subseteq aborted
       PROVE  Goal
  <2>1. InTurn' /\ \A s \in Sessions : \A c \in Requests(s) : c \notin Waiting(calls) => c \notin Waiting(calls')
    BY <1>10, OrderStays DEF Serves
  <2>2. AbortedGone'
    BY <1>10, <2>1 DEF TurnsInv, AbortedGone, Serves, Moves
  <2> QED
    BY <1>9, <1>10, <2>1, <2>2
<1> HIDE DEF Goal
<1>11. ASSUME NEW c \in Plain, Call(c) \/ CallLeaves(c) \/ CallEnds(c)
       PROVE  Goal
  <2>1. UNCHANGED <<sessions, made, settled, aborted>>
    BY <1>11 DEF Call, CallLeaves, CallEnds
  <2>2. \A s \in Sessions : {c} \cap Requests(s) = {}
    BY Apart
  <2>3. \E in, out : Serves(calls, calls', CallLimits, in, out) /\ in \subseteq {c}
    <3>1. CASE Call(c)
      BY <1>2, <1>6, <3>1 DEF Call
    <3>2. CASE CallLeaves(c)
      <4>1. Serves(calls, calls', CallLimits, {}, {c})
        BY <1>7, <3>2 DEF CallLeaves
      <4> QED
        BY <4>1
    <3>3. CASE CallEnds(c)
      <4>1. Serves(calls, calls', CallLimits, {}, {c})
        BY <1>8, <3>3 DEF CallEnds
      <4> QED
        BY <4>1
    <3> QED
      BY <1>11, <3>1, <3>2, <3>3
  <2>4. \A s \in Sessions : \A in : in \subseteq {c} => in \cap Requests(s) = {}
    BY <2>2
  <2> QED
    BY <1>5, <1>10, <2>1, <2>3, <2>4
<1>12. ASSUME NEW s \in Sessions, Open(s)
       PROVE  Goal
  <2>1. /\ UNCHANGED calls /\ settled[s] = made[s]
        /\ made' = [made EXCEPT ![s] = 0] /\ settled' = [settled EXCEPT ![s] = 0]
        /\ aborted' = aborted \ {s}
    BY <1>12 DEF Open
  <2>2. Serves(sessions, sessions', SessionLimits, {s}, {})
    BY <1>1, <1>2, <1>12, ArrivedServes DEF Open
  <2>3. InTurn'
    <3>1. \A t \in Sessions \ {s} : made'[t] = made[t] /\ settled'[t] = settled[t]
      BY <2>1 DEF LimiterInv
    <3>2. \A c \in Requests(s) : c \notin Waiting(calls) \cup Running(calls)
      <4>1. ~(settled[s] < made[s])
        BY <2>1 DEF LimiterInv
      <4> QED
        BY <4>1 DEF TurnsInv, InTurn
    <3> QED
      BY <2>1, <3>1, <3>2 DEF TurnsInv, InTurn, NextOf
  <2>4. AbortedGone'
    BY <2>1, <2>2 DEF TurnsInv, AbortedGone, Serves, Moves
  <2> QED
    BY <1>4, <1>9, <2>1, <2>2, <2>3, <2>4
<1>13. ASSUME NEW s \in Sessions, Request(s)
       PROVE  Goal
  <2>1. UNCHANGED <<calls, sessions, settled, aborted>> /\ made' = [made EXCEPT ![s] = @ + 1]
    BY <1>13 DEF Request
  <2>2. \A t \in Sessions : settled[t] < made[t] => settled[t] < made'[t]
    BY <1>2, <2>1 DEF LimiterInv
  <2>3. InTurn' /\ AbortedGone'
    BY <2>1, <2>2 DEF TurnsInv, InTurn, AbortedGone, NextOf
  <2> QED
    BY <1>4, <1>5, <1>9, <2>1, <2>3
\* The next request of a session settles, and is gone.
<1>14. ASSUME NEW s \in Sessions, settled[s] < made[s], Settles(s), UNCHANGED made,
              NEW out, Serves(calls, calls', CallLimits, {}, out),
              NextOf(s) \in out \/ NextOf(s) \notin Waiting(calls) \cup Running(calls)
       PROVE  InTurn' /\ \A t \in Sessions : \A c \in Requests(t) : c \in Waiting(calls') => c \in Waiting(calls) /\ t # s
  <2>1. settled' = [settled EXCEPT ![s] = @ + 1] /\ \A t \in Sessions \ {s} : settled'[t] = settled[t]
    BY <1>14 DEF Settles, LimiterInv
  <2>2. \A c \in Requests(s) : c \notin Waiting(calls') \cup Running(calls')
    BY <1>14 DEF TurnsInv, InTurn, Serves, Moves
  <2>3. \A t \in Sessions : \A c \in Requests(t) :
          c \in Waiting(calls') \cup Running(calls') => c \in Waiting(calls) \cup Running(calls) /\ t # s
    BY <1>14, <2>2 DEF Serves, Moves
  <2>4. InTurn'
    BY <1>14, <2>1, <2>3 DEF TurnsInv, InTurn, NextOf
  <2>5. Waiting(calls') \subseteq Waiting(calls)
    BY <1>14 DEF Serves, Moves
  <2> QED
    BY <2>3, <2>4, <2>5
<1>15. ASSUME NEW s \in Sessions, Enter(s)
       PROVE  Goal
  <2>1. /\ UNCHANGED <<sessions, made, aborted>> /\ settled[s] < made[s]
        /\ NextOf(s) \notin Waiting(calls) \cup Running(calls)
    BY <1>15 DEF Enter
  <2>2. CASE s \in aborted
    <3>1. Settles(s) /\ UNCHANGED calls
      BY <1>15, <2>2 DEF Enter
    <3>2. InTurn' /\ AbortedGone'
      BY <1>4, <1>14, <2>1, <3>1 DEF TurnsInv, AbortedGone
    <3> QED
      BY <1>4, <1>5, <1>9, <2>1, <3>1, <3>2
  <2>3. CASE s \notin aborted
    <3>1. calls' = Arrived(calls, CallLimits, NextOf(s)) /\ UNCHANGED settled
      BY <1>15, <2>3 DEF Enter
    <3>2. NextOf(s) \in Calls /\ NextOf(s) \in Requests(s)
      <4>1. NextOf(s) \in Calls
        BY <2>1, NextCalls
      <4>2. settled[s] + 1 \in 1..MaxRequests
        BY <1>2, <2>1 DEF LimiterInv
      <4> QED
        BY <4>1, <4>2 DEF NextOf, Requests
    <3>3. Serves(calls, calls', CallLimits, {NextOf(s)}, {})
      BY <1>6, <2>1, <3>1, <3>2
    <3>4. \A t \in Sessions : NextOf(s) \in Requests(t) => t = s
      BY <3>2, Apart
    <3>5. InTurn'
      BY <2>1, <3>1, <3>3, <3>4 DEF TurnsInv, InTurn, NextOf, Serves, Moves
    <3>6. AbortedGone'
      BY <2>1, <2>3, <3>3, <3>4 DEF TurnsInv, AbortedGone, Serves, Moves
    <3> QED
      BY <1>5, <1>9, <2>1, <3>3, <3>5, <3>6
  <2> QED
    BY <2>2, <2>3
<1>16. ASSUME NEW s \in Sessions, RequestLeaves(s) \/ RequestEnds(s)
       PROVE  Goal
  <2>1. UNCHANGED <<sessions, made, aborted>> /\ settled[s] < made[s] /\ Settles(s)
    BY <1>16 DEF RequestLeaves, RequestEnds
  <2>2. Serves(calls, calls', CallLimits, {}, {NextOf(s)})
    BY <1>7, <1>8, <1>16 DEF RequestLeaves, RequestEnds
  <2>3. InTurn' /\ AbortedGone'
    BY <1>14, <2>1, <2>2 DEF TurnsInv, AbortedGone
  <2> QED
    BY <1>5, <1>9, <2>1, <2>2, <2>3
<1>17. ASSUME NEW s \in Sessions, AbortSession(s)
       PROVE  Goal
  <2>1. aborted' = aborted \cup {s} /\ UNCHANGED made
    BY <1>17 DEF AbortSession
  <2>2. \E out : Serves(sessions, sessions', SessionLimits, {}, out) /\ s \notin Waiting(sessions')
    <3>1. CASE s \in Waiting(sessions)
      <4>1. sessions' = Left(sessions, s)
        BY <1>17, <3>1 DEF AbortSession
      <4>2. Serves(sessions, sessions', SessionLimits, {}, {s})
        BY <1>1, <3>1, <4>1, LeavesServes
      <4> QED
        BY <4>2 DEF Serves, Moves
    <3>2. CASE s \notin Waiting(sessions)
      BY <1>5, <1>17, <3>2 DEF AbortSession
    <3> QED
      BY <3>1, <3>2
  <2>3. /\ InTurn' /\ \E out : Serves(calls, calls', CallLimits, {}, out)
        /\ \A c \in Requests(s) : c \notin Waiting(calls')
    <3>1. CASE settled[s] < made[s] /\ NextOf(s) \in Waiting(calls)
      <4>1. calls' = Left(calls, NextOf(s)) /\ Settles(s)
        BY <1>17, <3>1 DEF AbortSession
      <4>2. Serves(calls, calls', CallLimits, {}, {NextOf(s)})
        BY <1>7, <3>1, <4>1
      <4> QED
        BY <1>14, <2>1, <3>1, <4>1, <4>2
    <3>2. CASE ~(settled[s] < made[s] /\ NextOf(s) \in Waiting(calls))
      <4>1. UNCHANGED <<calls, settled>>
        BY <1>17, <3>2 DEF AbortSession
      <4>2. \A c \in Requests(s) : c \notin Waiting(calls)
        BY <3>2 DEF TurnsInv, InTurn
      <4>3. InTurn'
        BY <2>1, <4>1 DEF TurnsInv, InTurn, NextOf
      <4> QED
        BY <1>4, <4>1, <4>2, <4>3
    <3> QED
      BY <3>1, <3>2
  <2>4. AbortedGone'
    BY <2>1, <2>2, <2>3 DEF TurnsInv, AbortedGone, Serves, Moves
  <2> QED
    BY <1>9, <2>2, <2>3, <2>4
<1>18. ASSUME NEW s \in Sessions, CloseSession(s)
       PROVE  Goal
  <2>1. UNCHANGED <<calls, made, settled, aborted>> /\ s \in Running(sessions)
    BY <1>18 DEF CloseSession
  <2>2. PICK may : \E e \in Ended(sessions, s, may) : sessions' = Pumped(e, SessionLimits)
    BY <1>18 DEF CloseSession
  <2>3. Serves(sessions, sessions', SessionLimits, {}, {s})
    BY <1>1, <1>2, <2>1, <2>2, EndsServes
  <2> QED
    BY <1>4, <1>10, <2>1, <2>3
<1>19. CASE Wake
  <2>1. CASE calls' = Woken(calls, CallLimits) /\ UNCHANGED <<sessions, made, settled, aborted>>
    BY <1>1, <1>2, <1>5, <1>10, <2>1, WokenServes
  <2>2. CASE sessions' = Woken(sessions, SessionLimits) /\ UNCHANGED <<calls, made, settled, aborted>>
    BY <1>1, <1>2, <1>4, <1>10, <2>2, WokenServes
  <2> QED
    BY <1>19, <2>1, <2>2 DEF Wake
<1>20. CASE Tick
  <2>1. Both({}, {}, {}, {})
    BY <1>1, <1>20, EarlierServes DEF Tick
  <2> QED
    BY <1>10, <1>20, <2>1 DEF Tick
<1> QED
  BY <1>11, <1>12, <1>13, <1>15, <1>16, <1>17, <1>18, <1>19, <1>20 DEF LimiterNext

\* It holds in every state.
LEMMA TurnsStay == LimiterSpec => []TurnsInv
<1>1. LimiterInit => TurnsInv
  <2> SUFFICES ASSUME LimiterInit PROVE TurnsInv
    OBVIOUS
  <2>1. /\ \A p \in Priorities : calls.queue[p] = <<>> /\ sessions.queue[p] = <<>>
        /\ calls.admitted = [c \in Calls |-> None]
    BY DEF LimiterInit, Limiter
  <2>2. ToSet(<<>>) = {}
    BY DEF ToSet
  <2>3. Waiting(calls) = {} /\ Waiting(sessions) = {} /\ Running(calls) = {}
    BY <2>1, <2>2 DEF Waiting, Running, Priorities
  <2>4. AllPrompt
    BY <2>1 DEF AllPrompt, Prompt, Priorities
  <2> QED
    BY <2>3, <2>4 DEF TurnsInv, InTurn, AbortedGone
<1>2. LimiterInv /\ TurnsInv /\ [LimiterNext]_limiterVars => TurnsInv'
  <2> SUFFICES ASSUME LimiterInv, TurnsInv, [LimiterNext]_limiterVars
               PROVE  TurnsInv'
    OBVIOUS
  <2>1. CASE LimiterNext
    BY <2>1, TurnsStep
  <2>2. CASE UNCHANGED limiterVars
    BY <2>2 DEF TurnsInv, AllPrompt, InTurn, AbortedGone, NextOf, limiterVars
  <2> QED
    BY <2>1, <2>2
<1> QED
  BY <1>1, <1>2, LimiterStays, PTL DEF LimiterSpec

\* No wakeup is lost: whoever waits for a slot waits because all it may have are
\* taken, or because of a pause whose timer is set. Each event that frees a slot
\* or ends a pause ends in pump.
THEOREM NobodyWaitsIdly == LimiterSpec => []AllPrompt
<1>1. TurnsInv => AllPrompt
  BY DEF TurnsInv
<1> QED
  BY <1>1, TurnsStay, PTL

\* Of each session only the first unsettled request is ever at the gate, so its
\* requests run in the order they were made, and an abort, whenever it comes,
\* leaves nothing of the session waiting (the chain of requests, and the signal
\* read before a request joins and listened to while it waits).
THEOREM RequestsTakeTurns == LimiterSpec => [](InTurn /\ AbortedGone)
<1>1. TurnsInv => InTurn /\ AbortedGone
  BY DEF TurnsInv
<1> QED
  BY <1>1, TurnsStay, PTL

\* No step admits a background call while an interactive one is left waiting, or
\* in a pause (pump).
THEOREM BackgroundComesLast == LimiterSpec => BackgroundYields
<1> DEFINE Both == Yields(calls, calls') /\ Yields(sessions, sessions')
<1>1. LimiterInv /\ TurnsInv /\ [LimiterNext]_limiterVars => [Both]_limiterVars
  BY TurnsStep
<1>2. BackgroundYields <=> [][Both]_limiterVars
  BY DEF BackgroundYields
<1> HIDE DEF Both
<1> QED
  BY <1>1, <1>2, LimiterStays, TurnsStay, PTL DEF LimiterSpec
=============================================================================
