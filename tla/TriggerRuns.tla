----------------------------- MODULE TriggerRuns -----------------------------
(***************************************************************************)
(* The Authority's durable research runs and the checks they leave on the  *)
(* open items.  An approved record queues an impact check in the           *)
(* transaction of its receipt; a person asks for sweeps, which check items *)
(* again.  A person's client starts a pending run; the process claims it   *)
(* under a lease, researches it for minutes outside any transaction, and   *)
(* finishes it, with everything it writes, in one transaction fenced by    *)
(* the lease.  The lease may lapse while its research still runs, and a    *)
(* process that stops leaves its runs running.                             *)
(*                                                                         *)
(* Sweeps of several people may judge one item at the same time.           *)
(***************************************************************************)
EXTENDS Integers, FiniteSets

CONSTANTS
  Impacts, Sweeps,  \* run ids, of approved records and of sweeps
  Actor, Scope,     \* the person a run is of; the scope a sweep is of
  Tokens,           \* lease tokens, each of one attempt at a time
  MaxAttempts,      \* counted attempts of a run before it fails
  MaxRunning,       \* attempts the process researches at once
  MaxTime,          \* bound on the clock
  MaxStops,         \* bound on restarts
  None

Runs == Impacts \cup Sweeps
Checks == [verdict : {"judged", "unreadable"}, at : 0..MaxTime + 1, read : 0..MaxTime]

ASSUME RunsAssumption ==
  /\ IsFiniteSet(Runs) /\ IsFiniteSet(Tokens) /\ Impacts \cap Sweeps = {} /\ None \notin Runs \cup Tokens
  /\ DOMAIN Actor = Runs /\ DOMAIN Scope = Sweeps
ASSUME LimitsAssumption ==
  /\ MaxAttempts \in Nat \ {0} /\ MaxRunning \in 1..Cardinality(Tokens)
  /\ MaxTime \in Nat /\ MaxStops \in Nat
ASSUME NoneAssumption == None \notin Checks

VARIABLES
  run,      \* the stored runs: state, counted attempts, lease token, whether the lease still holds
  attempt,  \* research under way in the process: the run of a token and when a sweep read its items, or None
  closing,  \* the process is closing and has aborted its attempts
  check,    \* the last check of an open item: verdict, its time, and when the item was read; or None
  clock, stops,
  written,  \* history: how often the writes of a run's finish were made
  judged,   \* history: the latest time a judged check that was finished read the item, or -1
  unread    \* history: the latest time an unreadable check was recorded with

vars == <<run, attempt, closing, check, clock, stops, written, judged, unread>>

Row(state, attempts, token, held) == [state |-> state, attempts |-> attempts, token |-> token, held |-> held]

Init ==
  /\ run = [r \in Runs |-> Row("none", 0, None, FALSE)]
  /\ attempt = [t \in Tokens |-> None]
  /\ closing = FALSE /\ check = None /\ clock = 0 /\ stops = 0
  /\ written = [r \in Runs |-> 0] /\ judged = -1 /\ unread = -1

Sets(r, row) == run' = [run EXCEPT ![r] = row]

Unended(r) == run[r].state \in {"pending", "running"}
Live(r) == run[r].state = "running" /\ run[r].held
\* A running run whose lease lapsed reads pending: claim takes it again.
ReadsPending(r) == run[r].state = "pending" \/ (run[r].state = "running" /\ ~run[r].held)

\* A token is used again once its attempt is over: a row left with it is another
\* run's, or is claimed again, so that no attempt can take it for its own.
Free == {t \in Tokens : attempt[t] = None}
Researching == {t \in Tokens : attempt[t] # None}

-----------------------------------------------------------------------------

\* The hook of an approved record; a record whose run exists queues nothing.
EnqueueApprovedRecord(r) ==
  /\ r \in Impacts /\ run[r].state = "none"
  /\ Sets(r, Row("pending", 0, None, FALSE))
  /\ UNCHANGED <<attempt, closing, check, clock, stops, written, judged, unread>>

\* A person's pending or running sweep of the same scope is handed back instead.
EnqueueSweep(r) ==
  /\ r \in Sweeps /\ run[r].state = "none"
  /\ ~\E s \in Sweeps : Actor[s] = Actor[r] /\ Scope[s] = Scope[r] /\ Unended(s)
  /\ Sets(r, Row("pending", 0, None, FALSE))
  /\ UNCHANGED <<attempt, closing, check, clock, stops, written, judged, unread>>

\* Mutant: only the run itself is looked at.
ClaimableAlone(r) ==
  /\ ReadsPending(r)
  /\ r \in Sweeps => ~\E i \in Impacts : Actor[i] = Actor[r] /\ Unended(i)
  /\ Cardinality(Researching) < MaxRunning

\* One live run of a person, and impact checks before sweeps, even one whose
\* lease lapsed and that nobody researches now.
Claimable(r) ==
  /\ ReadsPending(r)
  /\ r \in Sweeps => ~\E i \in Impacts : Actor[i] = Actor[r] /\ Unended(i)
  /\ ~\E s \in Runs \ {r} : Actor[s] = Actor[r] /\ Live(s)
  /\ Cardinality(Researching) < MaxRunning

\* A start claims the run and launches its attempt, all in one turn.
Start(r) ==
  /\ Claimable(r)
  /\ LET t == CHOOSE t \in Free : TRUE
     IN  /\ Sets(r, Row("running", run[r].attempts, t, TRUE))
         /\ attempt' = [attempt EXCEPT ![t] = [run |-> r, at |-> IF r \in Sweeps THEN clock ELSE 0, aborted |-> FALSE]]
  /\ UNCHANGED <<closing, check, clock, stops, written, judged, unread>>

\* Or releases the claim at once, when its diagnostic capture is refused.
StartUncaptured(r) ==
  /\ Claimable(r) /\ Sets(r, Row("pending", run[r].attempts, None, FALSE))
  /\ UNCHANGED <<attempt, closing, check, clock, stops, written, judged, unread>>

Retry(r) ==
  /\ r \in Impacts /\ run[r].state = "failed" /\ Sets(r, Row("pending", 0, None, FALSE))
  /\ UNCHANGED <<attempt, closing, check, clock, stops, written, judged, unread>>

-----------------------------------------------------------------------------
(* The end of an attempt.  What it does to its run is fenced: the run must   *)
(* still be running under this token, and the lease must hold.               *)

Owns(t) == LET r == attempt[t].run IN Live(r) /\ run[r].token = t

Over(t) == attempt' = [attempt EXCEPT ![t] = None]

\* SqliteImpactItemsV1.recordCheck: a judged check replaces an older one, and an
\* unreadable one whenever it was made; a last check's time only moves forward.
Replaces(verdict, at) ==
  \/ check = None
  \/ check.at < at /\ (verdict = "judged" \/ check.verdict = "unreadable")
  \/ verdict = "judged" /\ check.verdict = "unreadable"

\* Mutant: a judged check keeps its own time, although the unreadable one is later.
StampedAsRead(at) == at

Stamped(at) == IF check # None /\ check.at >= at THEN check.at + 1 ELSE at

RecordCheck(verdict, at) ==
  /\ IF Replaces(verdict, at)
     THEN /\ check' = [verdict |-> verdict, at |-> Stamped(at), read |-> at]
          /\ unread' = IF verdict = "unreadable" THEN Stamped(at) ELSE unread
     ELSE UNCHANGED <<check, unread>>
  /\ judged' = IF verdict = "judged" /\ at > judged THEN at ELSE judged

\* Mutant: the writes are made before the fence is asked.
FinishWritesFirst(t) ==
  /\ attempt[t] # None /\ Over(t)
  /\ LET r == attempt[t].run
     IN  /\ written' = [written EXCEPT ![r] = @ + 1]
         /\ IF Owns(t) THEN Sets(r, Row("done", run[r].attempts, None, FALSE)) ELSE UNCHANGED run
  /\ UNCHANGED <<check, judged, unread, closing, clock, stops>>

\* The result and its writes in the transaction that moves the run to done.  A
\* sweep's verdict may be missing, or the item out of its person's sight.  An
\* attempt that no longer owns its run writes nothing.
Finish(t) ==
  /\ attempt[t] # None /\ Over(t)
  /\ LET r == attempt[t].run
     IN  IF ~Owns(t) THEN UNCHANGED <<run, written, check, judged, unread>>
         ELSE /\ Sets(r, Row("done", run[r].attempts, None, FALSE))
              /\ written' = [written EXCEPT ![r] = @ + 1]
              /\ \/ UNCHANGED <<check, judged, unread>>
                 \/ r \in Sweeps /\ \E verdict \in {"judged", "unreadable"} : RecordCheck(verdict, attempt[t].at)
  /\ UNCHANGED <<closing, clock, stops>>

\* An attempt that failed.  One aborted by the process's close leaves its run
\* running; any other settles it if it still owns it.
Settles(t, row) ==
  /\ attempt[t] # None /\ ~attempt[t].aborted /\ Over(t)
  /\ IF Owns(t) THEN Sets(attempt[t].run, row) ELSE UNCHANGED run
  /\ UNCHANGED <<closing, check, clock, stops, written, judged, unread>>

Counted(t) == run[attempt[t].run].attempts

\* The index lags or the access token rotated meanwhile: no attempt is spent.
ReleasesUncounted(t) == attempt[t] # None /\ Settles(t, Row("pending", Counted(t), None, FALSE))

\* Mutant: an attempt that ran out of time is not counted.
ReleasesNever(t) == ReleasesUncounted(t)

\* Timed out, or the provider unavailable: three such attempts fail the run.
ReleasesCounted(t) ==
  /\ attempt[t] # None
  /\ Settles(t, Row(IF Counted(t) + 1 >= MaxAttempts THEN "failed" ELSE "pending", Counted(t) + 1, None, FALSE))

\* No access, or the research failed.
Fails(t) == attempt[t] # None /\ Settles(t, Row("failed", Counted(t), None, FALSE))

Aborted(t) ==
  /\ attempt[t] # None /\ attempt[t].aborted /\ Over(t)
  /\ UNCHANGED <<run, closing, check, clock, stops, written, judged, unread>>

-----------------------------------------------------------------------------
(* Time, and the process.                                                    *)

Lapse(r) ==
  /\ Live(r) /\ Sets(r, [run[r] EXCEPT !.held = FALSE])
  /\ UNCHANGED <<attempt, closing, check, clock, stops, written, judged, unread>>

Tick ==
  /\ clock < MaxTime /\ clock' = clock + 1
  /\ UNCHANGED <<run, attempt, closing, check, stops, written, judged, unread>>

\* Aborts the attempts there are; a request already accepted may still start one.
Close ==
  /\ ~closing /\ stops < MaxStops /\ closing' = TRUE
  /\ attempt' = [t \in Tokens |-> IF attempt[t] = None THEN None ELSE [attempt[t] EXCEPT !.aborted = TRUE]]
  /\ UNCHANGED <<run, check, clock, stops, written, judged, unread>>

\* The process is gone, closed or crashed, and another one runs.
Stop ==
  /\ stops < MaxStops /\ stops' = stops + 1
  /\ attempt' = [t \in Tokens |-> None] /\ closing' = FALSE
  /\ UNCHANGED <<run, check, clock, written, judged, unread>>

Ends(t) == Finish(t) \/ ReleasesCounted(t) \/ Fails(t) \/ Aborted(t)

Next ==
  \/ \E r \in Runs :
       EnqueueApprovedRecord(r) \/ EnqueueSweep(r) \/ Start(r) \/ StartUncaptured(r) \/ Retry(r) \/ Lapse(r)
  \/ \E t \in Tokens : Ends(t) \/ ReleasesUncounted(t)
  \/ Tick \/ Close \/ Stop

Spec == Init /\ [][Next]_vars

\* What a person's desktop starts next when none of their runs is going: an
\* impact check, else a sweep.
ToStart(r) ==
  /\ ReadsPending(r)
  /\ ~\E s \in Runs : Actor[s] = Actor[r] /\ Live(s)
  /\ r \in Impacts \/ ~\E i \in Impacts : Actor[i] = Actor[r] /\ ReadsPending(i)

Drive(r) == ToStart(r) /\ Start(r)

Orphaned(r) == Live(r) /\ ~\E t \in Tokens : attempt[t] # None /\ attempt[t].run = r /\ run[r].token = t

Progress ==
  \/ \E r \in Runs : Drive(r) \/ (Orphaned(r) /\ Lapse(r))
  \/ \E t \in Tokens : Ends(t)
  \/ closing /\ Stop

\* What may go on for ever: the index lags, research outlives its lease, a
\* failed check is retried, a capture is refused.
Disturbance ==
  \/ \E t \in Tokens : ReleasesUncounted(t) /\ ~ReleasesCounted(t)
  \/ \E r \in Runs : Retry(r) \/ StartUncaptured(r) \/ (Lapse(r) /\ ~Orphaned(r))

\* Desktops start pending runs, research ends by its deadline, a closing process
\* exits and the lease of a lost attempt lapses: one of these happens while one
\* can.  From some time on nothing disturbs them.
LiveSpec == Spec /\ WF_vars(Progress) /\ <>[][~Disturbance]_vars

-----------------------------------------------------------------------------
(* Properties. *)

\* Rows are as the table's own checks have them: a lease token exactly while a
\* run is running, and attempts below their bound until it has failed.
TypeOK ==
  /\ \A r \in Runs :
       /\ run[r].state \in {"none", "pending", "running", "done", "failed"}
       /\ run[r].attempts \in 0..MaxAttempts
       /\ run[r].attempts = MaxAttempts => run[r].state = "failed"
       /\ run[r].token \in Tokens \cup {None}
       /\ run[r].state = "running" <=> run[r].token # None
       /\ run[r].held => run[r].state = "running"
  /\ \A t \in Tokens : attempt[t] = None \/ (attempt[t].run \in Runs /\ attempt[t].at \in 0..clock)
  /\ check \in Checks \cup {None}

\* One live run of a person, whatever leases lapsed and whichever attempts of
\* theirs still research a run they lost (SqliteTriggerRunsV1.claim).
OneLiveRun == \A r, s \in Runs : Actor[r] = Actor[s] /\ Live(r) /\ Live(s) => r = s

\* The follow-ups of a run are written exactly once, with its result: never by
\* an attempt that lost its run, never again after a retry, a lapse or a restart
\* (SqliteTriggerRunsV1.finish).
WrittenOnce == \A r \in Runs : written[r] = IF run[r].state = "done" THEN 1 ELSE 0

\* A judged check is never lost to an unreadable one, its time is past every
\* check before it, and it is the latest of the judged checks that sweeps
\* finished, unless an unreadable check was in the way, whose time it then carries
\* plus one (SqliteImpactItemsV1.recordCheck).
VerdictIsNewest ==
  judged >= 0 =>
    /\ check # None /\ check.verdict = "judged" /\ judged <= check.at /\ unread < check.at
    /\ check.read = check.at \/ (check.read < check.at /\ check.at = unread + 1)

\* Every queued run ends, done or failed: a sweep waits behind its person's
\* impact checks and a lost attempt holds its run, but neither for ever.
RunsEnd == []<>(\A r \in Runs : ~Unended(r))
=============================================================================
