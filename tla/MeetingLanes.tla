----------------------------- MODULE MeetingLanes -----------------------------
(***************************************************************************)
(* Which meeting sources run a pass (person-meeting-runtime-v1.ts).  The   *)
(* periodic cycle and every settled lane start detached passes on due      *)
(* sources, round-robin, until the lanes are full; the staging canary runs *)
(* a targeted pass.  A source waits after a pass, a transient provider     *)
(* failure pauses every start for a minute, and shutdown starts none.      *)
(* What a pass does to a meeting is MeetingProcessing's subject; here a    *)
(* pass takes an import or a watched meeting, or does not.  Time is        *)
(* abstract: a wait may end at any moment, except before a macrotask that  *)
(* is already queued.                                                      *)
(***************************************************************************)
EXTENDS Naturals, FiniteSets

CONSTANTS
  NumSources,  \* sources, numbered in the order of their source keys
  Watched,     \* the sources with a watch
  Grantable,   \* the sources with a parked meeting
  Targets,     \* the sources the staging canary may run
  Lanes,       \* MEETING_LANES, 3 in the code
  MaxImports   \* bound: imports waiting at a source

Sources == 1..NumSources

ASSUME LanesAssumption ==
  /\ NumSources \in Nat \ {0} /\ Lanes \in Nat \ {0} /\ MaxImports \in Nat
  /\ Watched \cup Grantable \cup Targets \subseteq Sources

VARIABLES
  imports,  \* a source's queued imports
  granted,  \* whether an operator granted its parked meeting a retry
  pass,     \* inFlight: the phase of the pass that runs on it
  wait,     \* observed.next: how long after a pass it is not due
  retried,  \* retryAfter: a retry pass of it started less than a minute ago
  after,    \* the last source a top-up started, 0 at first
  paused,   \* whether pausedUntil lies ahead
  refill,   \* a settled lane's top-up waits for its macrotask
  target,   \* the targeted pass: its source, 0 for none, and whether it runs
  stopped,  \* settle(true), and the shutdown signal the targeted pass runs on
  aborted   \* the worker's signal, which the lanes run on

lanesVars == <<imports, granted, pass, wait, retried, after, paused, refill, target, stopped>>

NoTarget == [source |-> 0, runs |-> FALSE]

InFlight == {s \in Sources : pass[s] # "none"}
Targeted(s) == target = [source |-> s, runs |-> TRUE]
SignalAborted(s) == IF Targeted(s) THEN stopped ELSE aborted

\* An operator's grant is tried at most once a minute, so that one that cannot
\* be reserved leaves the source its intake.
RetryReady(s) == granted[s] /\ ~retried[s]

\* Mutant: a grant alone does not make a source due.
HasWorkWithoutRetry(s) == s \in Watched \/ imports[s] > 0

HasWork(s) == s \in Watched \/ imports[s] > 0 \/ RetryReady(s)

Due ==
  IF stopped \/ paused THEN {}
  ELSE {s \in Sources \ InFlight : wait[s] = "due" /\ HasWork(s)}

\* A source's place in the round that begins after the last one started.
Place(s) == (s + NumSources - after - 1) % NumSources

\* Mutant: the lanes are counted before the top-up and not during it.
StartedUncounted == IF aborted \/ Cardinality(InFlight) >= Lanes THEN {} ELSE Due

\* The due sources a top-up reaches before the lanes are full.
Started ==
  IF aborted THEN {}
  ELSE {s \in Due : Cardinality({t \in Due : Place(t) < Place(s)}) + Cardinality(InFlight) < Lanes}

\* Mutant: every round begins at the first source.
LastStartedNone == 0

LastStarted ==
  IF Started = {} THEN after
  ELSE CHOOSE s \in Started : \A t \in Started : Place(t) <= Place(s)

\* A pass decides on entry whether it is a retry, and then defers the next one.
Enters(S) ==
  /\ pass' = [s \in Sources |-> IF s \notin S THEN pass[s] ELSE IF RetryReady(s) THEN "retry" ELSE "pull"]
  /\ retried' = [s \in Sources |-> retried[s] \/ (s \in S /\ RetryReady(s))]

TopUp ==
  /\ Enters(Started)
  /\ after' = LastStarted
  /\ UNCHANGED <<imports, granted, wait, paused, target, stopped>>

\* The periodic cycle tops up, and so does every lane after it has settled.
CycleTopUp == TopUp /\ UNCHANGED refill
Refill == refill /\ refill' = FALSE /\ TopUp

-----------------------------------------------------------------------------
(* One pass.                                                                 *)

\* The pull takes an import first, then a watched meeting if there is a new one.
Pulls(s) ==
  IF imports[s] > 0 THEN {"import"} ELSE IF s \in Watched THEN {"watched", "empty"} ELSE {"empty"}

Pull(s) ==
  /\ pass[s] = "pull"
  /\ \E found \in Pulls(s) : pass' = [pass EXCEPT ![s] = found]
  /\ UNCHANGED <<imports, granted, wait, retried, after, paused, refill, target, stopped>>

\* The entry is removed when the pass settles.  A lane then asks, a macrotask
\* later, for another top-up; a targeted pass does not.
Settles(s, next) ==
  /\ pass' = [pass EXCEPT ![s] = "none"]
  /\ wait' = [wait EXCEPT ![s] = next]
  /\ refill' = (refill \/ ~Targeted(s))
  /\ target' = IF Targeted(s) THEN NoTarget ELSE target
  /\ UNCHANGED <<retried, after, stopped>>

\* A provider that refuses or struggles trips the breaker of the whole runtime.
Trips(trip) == paused' = (paused \/ trip)

\* Mutant: the queue's length of the pull is used when the pass ends.
WaitAtEndStale(s) == IF pass[s] = "import" THEN "soon" ELSE "later"

\* The queue is read again at the end: an import made during the pass does not
\* wait the five minutes of a source without work.
WaitAtEnd(s) == IF imports[s] > 0 THEN "soon" ELSE "later"

\* A meeting was frozen, parked or passed over, and the cursor advanced.
TakesMeeting(s, trip) ==
  /\ \/ pass[s] = "import" /\ imports[s] > 0 /\ imports' = [imports EXCEPT ![s] = @ - 1]
     \/ pass[s] = "watched" /\ UNCHANGED imports
  /\ Settles(s, "due") /\ Trips(trip)
  /\ UNCHANGED granted

\* An automatic retry waits a minute and may trip the breaker.  So does an
\* extraction in flight elsewhere or a lost compare-and-swap, but by the queue.
StaysPut(s, trip) ==
  /\ pass[s] \in {"import", "watched"}
  /\ \/ Settles(s, "soon") /\ Trips(trip)
     \/ ~trip /\ Settles(s, WaitAtEnd(s)) /\ UNCHANGED paused
  /\ UNCHANGED <<imports, granted>>

\* A pull without a meeting may still have advanced the cursor.
FindsNothing(s) ==
  /\ pass[s] = "empty"
  /\ Settles(s, WaitAtEnd(s)) \/ (imports[s] > 0 /\ Settles(s, "due"))
  /\ UNCHANGED <<imports, granted, paused>>

\* A retry that reserved its attempt spent the grant; one that could not keeps it.
Retries(s, spent, trip) ==
  /\ pass[s] = "retry" /\ (trip => spent)
  /\ granted' = [granted EXCEPT ![s] = @ /\ ~spent]
  /\ Settles(s, "due") /\ Trips(trip)
  /\ UNCHANGED imports

\* An error: the source waits a minute, unless nothing is left to try.
Fails(s) ==
  /\ pass[s] # "none" /\ ~SignalAborted(s)
  /\ Settles(s, IF pass[s] = "retry" \/ ~HasWork(s) THEN "due" ELSE "soon")
  /\ UNCHANGED <<imports, granted, paused>>

\* The aborted signal ends a pass, which leaves the source's status alone.
Cancelled(s) ==
  /\ pass[s] # "none" /\ SignalAborted(s)
  /\ Settles(s, wait[s])
  /\ UNCHANGED <<imports, granted, paused>>

PassEnds(s) ==
  \/ \E trip \in BOOLEAN : TakesMeeting(s, trip) \/ StaysPut(s, trip)
  \/ \E spent, trip \in BOOLEAN : Retries(s, spent, trip)
  \/ FindsNothing(s)
  \/ Fails(s)
  \/ Cancelled(s)

-----------------------------------------------------------------------------
(* The targeted pass, the members, the operator and time.                    *)

TargetRequested(s) ==
  /\ target = NoTarget /\ ~stopped
  /\ target' = [source |-> s, runs |-> FALSE]
  /\ UNCHANGED <<imports, granted, pass, wait, retried, after, paused, refill, stopped>>

\* It waits for a pass that already runs on its source.
TargetMayStart == pass[target.source] = "none"

TargetStarts ==
  /\ target # NoTarget /\ ~target.runs /\ ~stopped
  /\ TargetMayStart
  /\ target' = [target EXCEPT !.runs = TRUE]
  /\ Enters({target.source})
  /\ UNCHANGED <<imports, granted, wait, after, paused, refill, stopped>>

TargetRefused ==
  /\ target # NoTarget /\ ~target.runs /\ stopped
  /\ target' = NoTarget
  /\ UNCHANGED <<imports, granted, pass, wait, retried, after, paused, refill, stopped>>

\* An import or its cancellation makes the source due at once.
Import(s) ==
  /\ imports[s] < MaxImports
  /\ imports' = [imports EXCEPT ![s] = @ + 1]
  /\ wait' = [wait EXCEPT ![s] = "due"]
  /\ UNCHANGED <<granted, pass, retried, after, paused, refill, target, stopped>>

CancelImport(s) ==
  /\ imports[s] > 0
  /\ imports' = [imports EXCEPT ![s] = @ - 1]
  /\ wait' = [wait EXCEPT ![s] = "due"]
  /\ UNCHANGED <<granted, pass, retried, after, paused, refill, target, stopped>>

Grant(s) ==
  /\ ~granted[s]
  /\ granted' = [granted EXCEPT ![s] = TRUE]
  /\ UNCHANGED <<imports, pass, wait, retried, after, paused, refill, target, stopped>>

WaitEnds(s) ==
  /\ wait[s] # "due"
  /\ wait' = [wait EXCEPT ![s] = "due"]
  /\ UNCHANGED <<imports, granted, pass, retried, after, paused, refill, target, stopped>>

RetryWaitEnds(s) ==
  /\ retried[s]
  /\ retried' = [retried EXCEPT ![s] = FALSE]
  /\ UNCHANGED <<imports, granted, pass, wait, after, paused, refill, target, stopped>>

PauseEnds ==
  /\ paused
  /\ paused' = FALSE
  /\ UNCHANGED <<imports, granted, pass, wait, retried, after, refill, target, stopped>>

Demand ==
  \/ \E s \in Sources : Import(s) \/ CancelImport(s)
  \/ \E s \in Grantable : Grant(s)
  \/ \E s \in Targets : TargetRequested(s)

\* Every wait is thirty seconds or more, a macrotask runs at once.
TimePasses == ~refill /\ (PauseEnds \/ \E s \in Sources : WaitEnds(s) \/ RetryWaitEnds(s))

LaneStep ==
  \/ Refill \/ TargetStarts \/ TargetRefused
  \/ \E s \in Sources : Pull(s) \/ PassEnds(s)

\* close(): no pass starts any more, and the targeted pass is aborted; the lanes
\* are aborted later, when their grace is over.
Stop ==
  /\ stopped' = TRUE
  /\ UNCHANGED <<imports, granted, pass, wait, retried, after, paused, refill, target, aborted>>

Abort ==
  /\ stopped /\ aborted' = TRUE
  /\ UNCHANGED lanesVars

Init ==
  /\ imports = [s \in Sources |-> 0]
  /\ granted = [s \in Sources |-> FALSE]
  /\ pass    = [s \in Sources |-> "none"]
  /\ wait    = [s \in Sources |-> "due"]
  /\ retried = [s \in Sources |-> FALSE]
  /\ after = 0 /\ paused = FALSE /\ refill = FALSE
  /\ target = NoTarget /\ stopped = FALSE /\ aborted = FALSE

Next ==
  \/ (CycleTopUp \/ LaneStep \/ Demand \/ TimePasses) /\ UNCHANGED aborted
  \/ Stop \/ Abort

vars == <<imports, granted, pass, wait, retried, after, paused, refill, target, stopped, aborted>>
Spec == Init /\ [][Next]_vars

\* The worker's loop keeps topping up, macrotasks run, a pass ends (its
\* provider and model calls have timeouts), and waits end however many
\* macrotasks run meanwhile.  The operator asks for targeted passes and grants
\* retries only so often.
Fairness ==
  /\ WF_vars(CycleTopUp /\ UNCHANGED aborted)
  /\ WF_vars(Refill /\ UNCHANGED aborted)
  /\ WF_vars(TargetStarts /\ UNCHANGED aborted)
  /\ SF_vars(~refill /\ PauseEnds /\ UNCHANGED aborted)
  /\ \A s \in Sources :
       /\ WF_vars((Pull(s) \/ PassEnds(s)) /\ UNCHANGED aborted)
       /\ SF_vars(~refill /\ WaitEnds(s) /\ UNCHANGED aborted)
       /\ SF_vars(~refill /\ RetryWaitEnds(s) /\ UNCHANGED aborted)
LiveSpec ==
  /\ Spec /\ Fairness
  /\ <>[][\A s \in Sources : ~TargetRequested(s) /\ ~Grant(s)]_vars

-----------------------------------------------------------------------------
(* Properties.                                                               *)

TypeOK ==
  /\ imports \in [Sources -> 0..MaxImports]
  /\ granted \in [Sources -> BOOLEAN]
  /\ pass \in [Sources -> {"none", "pull", "import", "watched", "empty", "retry"}]
  /\ wait \in [Sources -> {"due", "soon", "later"}]
  /\ retried \in [Sources -> BOOLEAN]
  /\ after \in 0..NumSources
  /\ target \in [source : 0..NumSources, runs : BOOLEAN]
  /\ {paused, refill, stopped, aborted} \subseteq BOOLEAN

\* topUp fills the lanes and never overfills them, however the cycle's top-up,
\* the settled lanes' and the targeted pass interleave; the targeted pass is
\* one more at most.
LanesBounded ==
  /\ Cardinality({s \in InFlight : ~Targeted(s)}) <= Lanes
  /\ target.runs => pass[target.source] # "none"

\* "A lane and a targeted pass never double-start a source", and what close()
\* relies on: a pass starts only where none runs, and none once shutdown began,
\* whatever top-ups and targeted passes were still waiting.
StartsAlone ==
  [][\A s \in Sources :
       pass'[s] \in {"pull", "retry"} /\ pass'[s] # pass[s] => pass[s] = "none" /\ ~stopped]_vars

\* The five-minute wait is for sources without imports: whatever arrives while
\* a pass runs or a wait lasts, no import sits behind it.
NotIdleWithImports == \A s \in Sources : wait[s] = "later" => imports[s] = 0

\* "One broken grant cannot starve another person's work": a source whose own
\* passes come to go well keeps getting them, whatever the passes of the other
\* sources do and however often they trip the breaker.
Served(s) == \E trip \in BOOLEAN : TakesMeeting(s, trip)
UnspentRetry(s) == pass[s] = "retry" /\ PassEnds(s) /\ granted'[s]
Troubled(s) == pass[s] # "retry" /\ (Fails(s) \/ \E trip \in BOOLEAN : StaysPut(s, trip))
ImportsServed ==
  \A s \in Sources :
    <>[][~Troubled(s) /\ ~UnspentRetry(s)]_vars =>
      []<>(imports[s] = 0 \/ stopped) \/ []<><<Served(s)>>_vars

\* A granted retry is tried although imports keep coming, the source's intake
\* keeps failing and the breaker keeps tripping.
GrantTried == \A s \in Sources : granted[s] ~> (pass[s] = "retry" \/ ~granted[s] \/ stopped)
=============================================================================
