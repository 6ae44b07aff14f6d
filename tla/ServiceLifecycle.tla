--------------------------- MODULE ServiceLifecycle ---------------------------
(***************************************************************************)
(* The Authority process while it serves, drains and closes                *)
(* (organization-authority-service-lifecycle.ts): the worker's cycle, the  *)
(* publication wakes of decided approvals, the search task and the card    *)
(* turns, around the writer gate (WriterGate).  Of the meeting lanes it    *)
(* sees only how many passes run; which ones start is MeetingLanes'        *)
(* subject.  One step is what the event loop runs without awaiting:        *)
(* a continuation that only follows resolved promises belongs to the step  *)
(* that resolved them.  Startup has recovered, validated search and begun  *)
(* to listen; a crash loses all of this state but the decided, published   *)
(* and indexed approvals.                                                  *)
(***************************************************************************)
EXTENDS Naturals, Sequences, FiniteSets

CONSTANTS
  Approvals,  \* approvals the members decide
  Lanes       \* MEETING_LANES, 3 in the code

ASSUME LanesInNat == Lanes \in Nat

VARIABLES
  chain,           \* of WriterGate
  exclusiveActive, \* of WriterGate
  passes,       \* the passes in flight: detached ones in lanes 1..Lanes, the targeted one 0
  ungated,      \* runUngated: none, waiting or running its targeted pass
  worker,       \* where the worker's loop is
  publication,  \* the publication wake: none, requested (its macrotask waits) or queued at the gate
  cards,        \* the card turn: idle, scheduled or active
  cardsWanted,  \* presentationPending
  search,       \* the search task: idle, scheduled or active
  searchWanted, \* its pending wake
  decided,      \* approvals decided, in the Authority's database
  seen,         \* those the running publishing turn read
  published,    \* those in the record log
  building,     \* those the running search build read
  indexed,      \* those in the published search generation
  closing,      \* how far close() has come
  drain,        \* drain(): where it is, the promises it still waits for, and whether to look again
  lost,         \* history: approvals whose requested publication or search build failed
  owed          \* history: what drain() found unfinished when it was called, and still is

Closing == closing # "no"

\* The worker's signal is aborted when the lanes' grace is over.
Aborted == closing \notin {"no", "grace"}

Publishing == {"recover", "publish", "request"}
Gate == INSTANCE WriterGate WITH Operations <- Publishing \cup {"barrier"}, aborted <- Aborted

LaneIds == 1..Lanes
Targeted == 0

lanes == <<passes, ungated>>
gate == <<chain, exclusiveActive>>
wakes == <<cards, cardsWanted, search, searchWanted>>
records == <<decided, seen, published, building, indexed, lost>>
vars == <<lanes, gate, worker, publication, wakes, records, closing, drain, owed>>

Init ==
  /\ chain = <<>> /\ exclusiveActive = FALSE
  /\ passes = {} /\ ungated = "none"
  /\ worker = "pause" /\ publication = "none"
  /\ cards = "idle" /\ cardsWanted = FALSE
  /\ search = "idle" /\ searchWanted = FALSE
  /\ decided = {} /\ seen = {} /\ published = {} /\ building = {} /\ indexed = {} /\ lost = {}
  /\ closing = "no"
  /\ drain = [at |-> "off", unresolved |-> {}, again |-> FALSE] /\ owed = {}

-----------------------------------------------------------------------------
(* Wakes.  Each is one flag and one macrotask; none is taken while closing.  *)

RequestSearch ==
  /\ searchWanted' = (searchWanted \/ ~Closing)
  /\ search' = IF search = "idle" /\ ~Closing THEN "scheduled" ELSE search

RequestCards ==
  /\ cardsWanted' = (cardsWanted \/ ~Closing)
  /\ cards' = IF cards = "idle" /\ ~Closing THEN "scheduled" ELSE cards

RequestBoth == RequestSearch /\ RequestCards

\* A wake requested while one waits for the gate coalesces into that run.
RequestPublication ==
  publication' = IF ~Closing /\ publication = "none" THEN "requested" ELSE publication

-----------------------------------------------------------------------------
(* The writer gate's turns.                                                  *)

Reads(op) == seen' = IF op \in Publishing THEN decided ELSE seen

\* The wake is cleared before its run reads what is decided.
PublicationAtStart(op) == IF op = "request" THEN "none" ELSE publication

\* op's turn is requested, and starts at once if the gate is idle.
Asks(op, waiting) ==
  /\ Gate!RunExclusive(op)
  /\ IF Gate!StartsAtOnce
       THEN Reads(op) /\ publication' = PublicationAtStart(op)
       ELSE UNCHANGED seen /\ publication' = waiting

TurnStarts(op) ==
  /\ Gate!StartTurn(op) /\ Reads(op)
  /\ publication' = PublicationAtStart(op)
  /\ UNCHANGED <<lanes, worker, wakes, decided, published, building, indexed, lost, closing>>

\* A publishing turn appends what it read, or fails at a row or as a whole.
Appends ==
  /\ \E T \in SUBSET seen : published' = published \cup T
  /\ seen' = {}

-----------------------------------------------------------------------------
(* The worker's cycle: recovery and publication in the gate, intake outside. *)

CycleStarts ==
  /\ worker = "pause" /\ ~Aborted /\ ~Closing
  /\ worker' = "recover"
  /\ Asks("recover", publication)
  /\ UNCHANGED <<lanes, wakes, decided, published, building, indexed, lost, closing>>

\* An aborted cycle ends the loop, any other one requests what derives from the records.
CycleEnds ==
  IF Aborted THEN worker' = "done" /\ UNCHANGED wakes
  ELSE worker' = "pause" /\ RequestBoth

CycleRecovered ==
  /\ worker = "recover" /\ Gate!EndTurn("recover")
  /\ Appends
  /\ \/ worker' = "intake" /\ UNCHANGED wakes
     \/ CycleEnds
  /\ UNCHANGED <<lanes, publication, decided, building, indexed, lost, closing>>

\* A top-up starts passes in free lanes, how many depends on what is due.
TopUp ==
  /\ \E S \in SUBSET LaneIds : passes' = IF Closing THEN passes ELSE passes \cup S
  /\ UNCHANGED ungated

\* The notes have been polled; the meeting lanes are filled and left running.
CycleIntake ==
  /\ worker = "intake" /\ ~Aborted
  /\ TopUp
  /\ worker' = "publish"
  /\ Asks("publish", publication)
  /\ UNCHANGED <<wakes, decided, published, building, indexed, lost, closing>>

CycleIntakeFails ==
  /\ worker = "intake"
  /\ CycleEnds
  /\ UNCHANGED <<lanes, gate, publication, records, closing>>

CyclePublished ==
  /\ worker = "publish" /\ Gate!EndTurn("publish")
  /\ Appends
  /\ CycleEnds
  /\ UNCHANGED <<lanes, publication, decided, building, indexed, lost, closing>>

\* The cycle's next turn is refused once the worker is closed.
CycleRefused ==
  /\ worker \in {"recover", "publish"} /\ Gate!RefuseTurn(worker)
  /\ worker' = "done"
  /\ UNCHANGED <<lanes, publication, wakes, records, closing>>

LoopEnds ==
  /\ worker = "pause" /\ Aborted
  /\ worker' = "done"
  /\ UNCHANGED <<lanes, gate, publication, wakes, records, closing>>

Cycle ==
  CycleStarts \/ CycleRecovered \/ CycleIntake \/ CycleIntakeFails \/ CyclePublished \/ CycleRefused \/ LoopEnds

-----------------------------------------------------------------------------
(* The publication of a decision, the search task and the card turns.        *)

\* A decision is durable before it asks for its publication.  One that a request
\* still answered during close() takes asks for nothing, and waits for the next process.
Decide(a) ==
  /\ a \notin decided /\ ~Closing
  /\ decided' = decided \cup {a}
  /\ RequestPublication
  /\ UNCHANGED <<lanes, gate, worker, wakes, seen, published, building, indexed, lost, closing>>

\* The macrotask after the member's answer was written asks for the gate.
PublicationAsks ==
  /\ publication = "requested"
  /\ Asks("request", "queued")
  /\ UNCHANGED <<lanes, worker, wakes, decided, published, building, indexed, lost, closing>>

\* Failed or not, the run wakes search and cards.
PublicationEnds ==
  /\ Gate!EndTurn("request")
  /\ Appends
  /\ lost' = lost \cup (seen \ published')
  /\ RequestBoth
  /\ UNCHANGED <<lanes, worker, publication, decided, building, indexed, closing>>

PublicationRefused ==
  /\ Gate!RefuseTurn("request")
  /\ RequestBoth
  /\ UNCHANGED <<lanes, worker, publication, records, closing>>

SearchStarts ==
  /\ search = "scheduled"
  /\ search' = "active" /\ searchWanted' = FALSE
  /\ building' = published
  /\ UNCHANGED <<lanes, gate, worker, publication, cards, cardsWanted, decided, seen, published, indexed, lost, closing>>

\* Mutant: a wake that came during the run is taken for the run's own.
SearchAfterForgets(again) == IF again THEN "scheduled" ELSE "idle"

\* The task runs again if a wake came, or if its build was superseded.
SearchAfter(again) == IF again \/ searchWanted THEN "scheduled" ELSE "idle"

SearchEnds ==
  /\ search = "active"
  /\ \/ indexed' = building /\ lost' = lost \ building /\ search' = SearchAfter(FALSE)
     \/ lost' = lost \cup (building \ indexed) /\ UNCHANGED indexed /\ search' = SearchAfter(FALSE)
     \/ building # published /\ UNCHANGED <<indexed, lost>> /\ search' = SearchAfter(~Closing)
  /\ searchWanted' = (search' = "scheduled") /\ building' = {}
  /\ UNCHANGED <<lanes, gate, worker, publication, cards, cardsWanted, decided, seen, published, closing>>

CardsStart ==
  /\ cards = "scheduled"
  /\ cards' = "active" /\ cardsWanted' = FALSE
  /\ UNCHANGED <<lanes, gate, worker, publication, search, searchWanted, records, closing>>

\* A page of cards was rendered and there may be more, or there were none or one is uncertain.
CardsEnd ==
  /\ cards = "active"
  /\ \E rendered \in BOOLEAN : cardsWanted' = (~Closing /\ (rendered \/ cardsWanted))
  /\ cards' = IF cardsWanted' THEN "scheduled" ELSE "idle"
  /\ UNCHANGED <<lanes, gate, worker, publication, search, searchWanted, records, closing>>

Wakes ==
  PublicationAsks \/ PublicationEnds \/ PublicationRefused \/ SearchStarts \/ SearchEnds \/ CardsStart \/ CardsEnd

-----------------------------------------------------------------------------
(* The meeting lanes and the targeted pass.                                  *)

\* A settled lane wakes the cards and tops up again a macrotask later, here at any moment.
LaneSettles ==
  /\ \E l \in passes \cap LaneIds : passes' = passes \ {l}
  /\ RequestCards
  /\ UNCHANGED <<ungated, gate, worker, publication, search, searchWanted, records, closing>>

LaneRefills ==
  /\ TopUp
  /\ UNCHANGED <<gate, worker, publication, wakes, records, closing>>

\* The targeted pass waits for a lane on its source, or for shutdown to abort it.
UngatedCalled ==
  /\ ungated = "none" /\ ~Closing
  /\ ungated' = "waiting"
  /\ UNCHANGED <<passes, gate, worker, publication, wakes, records, closing>>

UngatedStarts ==
  /\ ungated = "waiting" /\ ~Closing
  /\ ungated' = "running" /\ passes' = passes \cup {Targeted}
  /\ UNCHANGED <<gate, worker, publication, wakes, records, closing>>

UngatedEnds ==
  /\ ungated = "running" \/ (ungated = "waiting" /\ Closing)
  /\ ungated' = "none" /\ passes' = passes \ {Targeted}
  /\ UNCHANGED <<gate, worker, publication, wakes, records, closing>>

LanesRun == LaneSettles \/ LaneRefills \/ UngatedCalled \/ UngatedStarts \/ UngatedEnds

-----------------------------------------------------------------------------
(* close().                                                                  *)

\* No wake, no lane and no targeted pass starts from now on; what has only been scheduled is dropped.
Close ==
  /\ ~Closing
  /\ closing' = "grace"
  /\ publication' = IF publication = "requested" THEN "none" ELSE publication
  /\ cardsWanted' = FALSE /\ cards' = IF cards = "scheduled" THEN "idle" ELSE cards
  /\ searchWanted' = FALSE /\ search' = IF search = "scheduled" THEN "idle" ELSE search
  /\ UNCHANGED <<lanes, gate, worker, records>>

\* The lanes have finished or their twenty seconds are over: the worker is closed.
GraceEnds ==
  /\ closing = "grace"
  /\ closing' = "loop"
  /\ UNCHANGED <<lanes, gate, worker, publication, wakes, records>>

\* Mutant: the lanes that were cancelled are not waited for.
ClosesAfterGate == [loop |-> "tail", tail |-> "rest", lanes |-> "rest", rest |-> "closed"]

\* What close() waits for, in this order, before it closes the database handles.
ClosesAfter == [loop |-> "tail", tail |-> "lanes", lanes |-> "rest", rest |-> "closed"]

Settled ==
  [loop  |-> worker = "done",
   tail  |-> chain = <<>>,
   lanes |-> passes = {},
   rest  |-> search = "idle" /\ cards = "idle" /\ ungated = "none"]

CloseWaited ==
  /\ closing \in DOMAIN Settled /\ Settled[closing]
  /\ closing' = ClosesAfter[closing]
  /\ UNCHANGED <<lanes, gate, worker, publication, wakes, records>>

-----------------------------------------------------------------------------
(* drain(): a barrier behind the running cycle, the lanes, the card and      *)
(* ungated work and the queued writer and search work.                       *)

Draining == drain.at # "off"

\* Whether the promise drain() took for each of them is resolved: the last
\* requested work is over, or for the lanes none runs at the moment.
Resolved ==
  [publication |-> publication = "none" /\ Gate!TurnsOf("request") = {},
   cards       |-> cards = "idle",
   cycle       |-> worker \in {"pause", "done"},
   ungated     |-> ungated = "none",
   lanes       |-> passes = {}]

\* The promises a step replaces: work requested after the last was over or began to run.
Replaced ==
  (IF publication = "none" /\ publication' # "none" THEN {"publication"} ELSE {}) \cup
  (IF cards = "idle" /\ cards' # "idle" THEN {"cards"} ELSE {}) \cup
  (IF worker = "pause" /\ worker' = "recover" THEN {"cycle"} ELSE {}) \cup
  (IF ungated = "none" /\ ungated' # "none" THEN {"ungated"} ELSE {})

DrainEnds == drain' = [at |-> "off", unresolved |-> {}, again |-> FALSE] /\ owed' = {}

\* drain() takes the promises as they are now.
Looks == drain' = [at |-> "gather", unresolved |-> {x \in DOMAIN Resolved : ~Resolved[x]}, again |-> FALSE]

\* Bound: one caller at a time, whose predecessor's turn is over.
DrainCalled ==
  /\ ~Draining /\ ~Closing /\ Gate!TurnsOf("barrier") = {}
  /\ Looks
  /\ owed' = (decided \ (indexed \cup lost)) \cup passes
  /\ UNCHANGED gate

\* Mutant: the lanes are waited for and nothing else.
GatheredLanes == "lanes" \notin drain.unresolved

Gathered == drain.unresolved = {}

DrainAsks ==
  /\ drain.at = "gather" /\ Gathered
  /\ Gate!RunExclusive("barrier")
  /\ drain' = [drain EXCEPT !.at = "gate"]
  /\ UNCHANGED owed

DrainTurnEnds ==
  /\ Gate!EndTurn("barrier") \/ Gate!RefuseTurn("barrier")
  /\ drain' = IF drain.at = "gate" THEN [drain EXCEPT !.at = "search"] ELSE drain
  /\ UNCHANGED owed

\* It looks again if any promise was replaced meanwhile.
DrainLooksAgain ==
  /\ drain.at = "search" /\ search = "idle" /\ drain.again
  /\ Looks
  /\ UNCHANGED <<gate, owed>>

DrainReturns ==
  /\ drain.at = "search" /\ search = "idle" /\ ~drain.again
  /\ DrainEnds
  /\ UNCHANGED gate

\* The caller's deadline ends the wait, and nothing else.
DrainRejects ==
  /\ Draining
  /\ DrainEnds
  /\ UNCHANGED gate

Drain ==
  /\ DrainCalled \/ DrainAsks \/ DrainTurnEnds \/ DrainLooksAgain \/ DrainReturns \/ DrainRejects
  /\ UNCHANGED <<lanes, worker, publication, wakes, records, closing>>

\* What a step of the others does to a waiting drain, which shutdown rejects.
DrainWatches ==
  IF Closing' THEN DrainEnds
  ELSE IF Draining
    THEN /\ drain' = [drain EXCEPT !.unresolved = {x \in @ \ Replaced : ~Resolved'[x]},
                                   !.again = @ \/ Replaced # {}]
         /\ owed' = owed \ (indexed' \cup lost' \cup ((0..Lanes) \ passes'))
    ELSE UNCHANGED <<drain, owed>>

Service ==
  \/ \E op \in Publishing \cup {"barrier"} : TurnStarts(op)
  \/ Cycle \/ Wakes \/ LanesRun
  \/ \E a \in Approvals : Decide(a)
  \/ Close \/ GraceEnds \/ CloseWaited

Next == (Service /\ DrainWatches) \/ Drain
Spec == Init /\ [][Next]_vars

-----------------------------------------------------------------------------
(* Properties.                                                               *)

TypeOK ==
  /\ chain \in Seq(Gate!Turns) /\ exclusiveActive \in BOOLEAN
  /\ passes \subseteq 0..Lanes /\ ungated \in {"none", "waiting", "running"}
  /\ worker \in {"pause", "recover", "intake", "publish", "done"}
  /\ publication \in {"none", "requested", "queued"}
  /\ {cards, search} \subseteq {"idle", "scheduled", "active"}
  /\ {cardsWanted, searchWanted} \subseteq BOOLEAN
  /\ seen \cup published \cup lost \subseteq decided /\ decided \subseteq Approvals
  /\ indexed \cup building \subseteq published
  /\ closing \in {"no", "grace", "loop", "tail", "lanes", "rest", "closed"}
  /\ drain \in [at : {"off", "gather", "gate", "search"}, unresolved : SUBSET DOMAIN Resolved, again : BOOLEAN]
  /\ owed \subseteq Approvals \cup 0..Lanes

\* The writer gate's promise, for the turns the service asks for.
GateExclusive == Gate!GateExclusive

\* No wake is lost: until close, a decided approval is published or a wake or a
\* turn that will read it is on its way, and a published one is indexed or a
\* build that will read it is on its way; only a failed attempt waits for the
\* next cycle.
PublicationComes(a) ==
  publication # "none" \/ (a \in seen /\ \E i \in Gate!Running : chain[i].op \in Publishing)
SearchComes(a) ==
  searchWanted \/ (search = "active" /\ a \in building) \/ worker \notin {"pause", "done"}
NoLostWake ==
  ~Closing => \A a \in decided \ lost :
    IF a \in published THEN a \in indexed \/ SearchComes(a) ELSE PublicationComes(a)

\* drain() is a barrier: when it returns, every approval decided before the
\* call has been published and indexed, or its attempt failed, and every pass
\* that ran has settled.
DrainBarrier == [][DrainReturns => owed = {}]_vars

\* close() closes the database handles after everything that uses them: no
\* turn, cycle, pass, search build or card turn runs then or starts later.
ClosedQuiet ==
  closing = "closed" =>
    /\ Gate!Running = {} /\ worker = "done" /\ passes = {}
    /\ search # "active" /\ cards # "active"
=============================================================================
