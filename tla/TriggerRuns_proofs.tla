-------------------------- MODULE TriggerRuns_proofs --------------------------
(***************************************************************************)
(* For every number of runs, people, attempts and restarts: a person has   *)
(* one live run, a scope one sweep, a run's writes are made once, nothing  *)
(* queued is left to nobody, and the last check of an item is the newest   *)
(* verdict.                                                                *)
(***************************************************************************)
EXTENDS TriggerRuns, FiniteSetTheorems, TLAPS

States == {"none", "pending", "running", "done", "failed"}
Rows == [state : States, attempts : 0..MaxAttempts, token : Tokens \cup {None}, held : BOOLEAN]
Attempts == [run : Runs, at : 0..MaxTime, aborted : BOOLEAN]

\* The functions and their ranges.
Shape ==
  /\ run \in [Runs -> Rows]
  /\ attempt \in [Tokens -> Attempts \cup {None}]
  /\ clock \in 0..MaxTime
  /\ written \in [Runs -> Nat]

\* A row's state says what else is in it.
RowOk(r) ==
  /\ run[r].attempts = MaxAttempts => run[r].state = "failed"
  /\ run[r].state = "running" <=> run[r].token # None
  /\ run[r].held => run[r].state = "running"
RowsOk == \A r \in Runs : RowOk(r)

\* A sweep read its items in the past.
AttemptsOk == \A t \in Tokens : attempt[t] # None => attempt[t].at <= clock

TypedInv == Shape /\ RowsOk /\ AttemptsOk

\* The last check and the two times that are remembered beside it.  An unreadable
\* check is stamped with its own time, so that one bump covers it.
CheckInv ==
  /\ check = None => judged = -1 /\ unread = -1
  /\ check # None =>
       /\ check \in Checks
       /\ check.verdict = "unreadable" => judged = -1 /\ unread = check.at /\ check.at <= clock
       /\ check.verdict = "judged" =>
            /\ judged \in 0..check.at /\ unread \in -1..(check.at - 1)
            /\ check.read = check.at \/ (check.read < check.at /\ check.at = unread + 1)

-----------------------------------------------------------------------------
(* Rows and attempts. *)

LEMMA Limits == MaxAttempts \in Nat \ {0} /\ MaxTime \in Nat /\ None \notin Runs /\ None \notin Tokens
BY RunsAssumption, LimitsAssumption

LEMMA RowShape ==
  ASSUME NEW state \in States, NEW n \in 0..MaxAttempts, NEW token \in Tokens \cup {None}, NEW held \in BOOLEAN
  PROVE  Row(state, n, token, held) \in Rows
BY DEF Row, Rows

\* A run that is set to a sound row.
LEMMA SetsTyped ==
  ASSUME TypedInv, NEW r \in Runs, NEW row \in Rows, Sets(r, row),
         row.attempts = MaxAttempts => row.state = "failed",
         row.state = "running" <=> row.token # None,
         row.held => row.state = "running"
  PROVE  run' \in [Runs -> Rows] /\ RowsOk'
<1>1. run' \in [Runs -> Rows] /\ \A s \in Runs : run'[s] = IF s = r THEN row ELSE run[s]
  BY DEF Sets, TypedInv, Shape
<1>2. RowsOk'
  BY <1>1 DEF RowsOk, RowOk, TypedInv
<1> QED
  BY <1>1, <1>2

LEMMA SetsRow ==
  ASSUME TypedInv, NEW r \in Runs, NEW state \in States \ {"running"}, NEW n \in 0..MaxAttempts,
         n = MaxAttempts => state = "failed", Sets(r, Row(state, n, None, FALSE))
  PROVE  run' \in [Runs -> Rows] /\ RowsOk'
<1> DEFINE row == Row(state, n, None, FALSE)
<1>1. row \in Rows
  BY RowShape
<1>2. row.state = state /\ row.attempts = n /\ row.token = None /\ row.held = FALSE
  BY DEF Row
<1> HIDE DEF row
<1>3. Sets(r, row)
  BY DEF row
<1> QED
  BY <1>1, <1>2, <1>3, SetsTyped

LEMMA AttemptFields ==
  ASSUME TypedInv, NEW t \in Tokens, attempt[t] # None
  PROVE  attempt[t] \in Attempts /\ attempt[t].run \in Runs /\ attempt[t].at \in 0..clock
BY DEF TypedInv, Shape, AttemptsOk, Attempts

\* What a run that is not over says of its attempts.
LEMMA UnendedCounts ==
  ASSUME TypedInv, NEW r \in Runs, run[r].state # "failed"
  PROVE  run[r].attempts \in 0..MaxAttempts /\ run[r].attempts # MaxAttempts
BY DEF TypedInv, Shape, Rows, RowsOk, RowOk

LEMMA TypedStart == Init => TypedInv
<1> SUFFICES ASSUME Init PROVE TypedInv
  OBVIOUS
<1>1. 0 \in 0..MaxAttempts /\ 0 \in 0..MaxTime /\ 0 # MaxAttempts
  BY Limits
<1>2. Row("none", 0, None, FALSE) \in Rows
  BY <1>1, RowShape DEF States
<1>3. Shape
  BY <1>1, <1>2 DEF Init, Shape
<1>4. RowsOk
  BY <1>1 DEF Init, RowsOk, RowOk, Row
<1>5. AttemptsOk
  BY DEF Init, AttemptsOk
<1> QED
  BY <1>3, <1>4, <1>5 DEF TypedInv

LEMMA OverTyped ==
  ASSUME TypedInv, NEW t \in Tokens, Over(t), UNCHANGED clock
  PROVE  attempt' \in [Tokens -> Attempts \cup {None}] /\ AttemptsOk'
BY DEF Over, TypedInv, Shape, AttemptsOk

LEMMA SettlesTyped ==
  ASSUME TypedInv, NEW t \in Tokens, attempt[t] # None, NEW state \in {"pending", "failed"},
         NEW n \in 0..MaxAttempts,
         Owns(t) => (n = MaxAttempts => state = "failed"), Settles(t, Row(state, n, None, FALSE))
  PROVE  TypedInv'
<1>1. attempt[t].run \in Runs /\ UNCHANGED <<clock, written>> /\ Over(t)
  BY AttemptFields DEF Settles
<1>2. run' \in [Runs -> Rows] /\ RowsOk'
  <2>1. CASE Owns(t)
    <3>1. Sets(attempt[t].run, Row(state, n, None, FALSE)) /\ (n = MaxAttempts => state = "failed")
      BY <2>1 DEF Settles
    <3> QED
      BY <1>1, <3>1, SetsRow DEF States
  <2>2. CASE ~Owns(t)
    BY <2>2 DEF Settles, TypedInv, Shape, RowsOk, RowOk
  <2> QED
    BY <2>1, <2>2
<1> QED
  BY <1>1, <1>2, OverTyped DEF TypedInv, Shape

\* A start takes a token that no attempt has.
LEMMA FreeToken ==
  ASSUME NEW r \in Runs, Claimable(r)
  PROVE  (CHOOSE t \in Free : TRUE) \in Tokens
<1>1. IsFiniteSet(Tokens) /\ MaxRunning \in 1..Cardinality(Tokens)
  BY RunsAssumption, LimitsAssumption
<1>2. Cardinality(Tokens) \in Nat
  BY <1>1, FS_CardinalityType
<1>3. Researching # Tokens
  BY <1>1, <1>2 DEF Claimable
<1>4. Free # {}
  BY <1>3 DEF Free, Researching
<1> QED
  BY <1>4 DEF Free

LEMMA StartTyped == ASSUME TypedInv, NEW r \in Runs, Start(r) PROVE TypedInv'
<1> DEFINE t == CHOOSE t \in Free : TRUE
<1> DEFINE begun == [run |-> r, at |-> IF r \in Sweeps THEN clock ELSE 0, aborted |-> FALSE]
<1>1. t \in Tokens
  BY FreeToken DEF Start
<1>2. /\ Sets(r, Row("running", run[r].attempts, t, TRUE)) /\ attempt' = [attempt EXCEPT ![t] = begun]
      /\ UNCHANGED <<clock, written>>
  BY DEF Start
<1>3. run[r].attempts \in 0..MaxAttempts /\ run[r].attempts # MaxAttempts
  BY UnendedCounts DEF Start, Claimable, ReadsPending
<1>4. begun \in Attempts /\ begun.at <= clock
  <2>1. clock \in 0..MaxTime /\ 0 \in 0..MaxTime
    BY Limits DEF TypedInv, Shape
  <2> QED
    BY <2>1 DEF Attempts
<1> HIDE DEF t, begun
<1> DEFINE row == Row("running", run[r].attempts, t, TRUE)
<1>5. row \in Rows
  BY <1>1, <1>3, RowShape DEF States
<1>6. run' \in [Runs -> Rows] /\ RowsOk'
  <2>1. t # None
    BY <1>1, Limits
  <2>2. row.state = "running" /\ row.attempts = run[r].attempts /\ row.token = t
    BY DEF Row
  <2>3. Sets(r, row)
    BY <1>2
  <2> HIDE DEF row
  <2> QED
    BY <1>3, <1>5, <2>1, <2>2, <2>3, SetsTyped
<1>7. attempt' \in [Tokens -> Attempts \cup {None}] /\ AttemptsOk'
  BY <1>1, <1>2, <1>4 DEF TypedInv, Shape, AttemptsOk
<1> QED
  BY <1>2, <1>6, <1>7 DEF TypedInv, Shape

LEMMA RowTyped ==
  ASSUME TypedInv, NEW r \in Runs,
         EnqueueApprovedRecord(r) \/ EnqueueSweep(r) \/ StartUncaptured(r) \/ Retry(r) \/ Lapse(r)
  PROVE  TypedInv'
<1>1. UNCHANGED <<attempt, clock, written>>
  BY DEF EnqueueApprovedRecord, EnqueueSweep, StartUncaptured, Retry, Lapse
<1>2. run' \in [Runs -> Rows] /\ RowsOk'
  <2>1. CASE EnqueueApprovedRecord(r) \/ EnqueueSweep(r) \/ Retry(r)
    <3>1. 0 \in 0..MaxAttempts /\ 0 # MaxAttempts
      BY Limits
    <3>2. Sets(r, Row("pending", 0, None, FALSE))
      BY <2>1 DEF EnqueueApprovedRecord, EnqueueSweep, Retry
    <3> QED
      BY <3>1, <3>2, SetsRow DEF States
  <2>2. CASE StartUncaptured(r)
    <3>1. Sets(r, Row("pending", run[r].attempts, None, FALSE)) /\ run[r].state # "failed"
      BY <2>2 DEF StartUncaptured, Claimable, ReadsPending
    <3> QED
      BY <3>1, UnendedCounts, SetsRow DEF States
  <2>3. CASE Lapse(r)
    <3>1. run' = [run EXCEPT ![r] = [run[r] EXCEPT !.held = FALSE]] /\ run[r] \in Rows /\ RowOk(r)
      BY <2>3 DEF Lapse, Sets, TypedInv, Shape, RowsOk
    <3> QED
      BY <3>1 DEF TypedInv, Shape, Rows, RowsOk, RowOk
  <2> QED
    BY <2>1, <2>2, <2>3
<1> QED
  BY <1>1, <1>2 DEF TypedInv, Shape, AttemptsOk

LEMMA FinishTyped == ASSUME TypedInv, NEW t \in Tokens, Finish(t) PROVE TypedInv'
<1>1. attempt[t].run \in Runs /\ Over(t) /\ UNCHANGED clock
  BY AttemptFields DEF Finish
<1>2. run' \in [Runs -> Rows] /\ RowsOk'
  <2>1. CASE Owns(t)
    <3> DEFINE r == attempt[t].run
    <3>1. Sets(r, Row("done", run[r].attempts, None, FALSE)) /\ run[r].state # "failed" /\ r \in Runs
      BY <1>1, <2>1 DEF Finish, Owns, Live
    <3> HIDE DEF r
    <3> QED
      BY <3>1, UnendedCounts, SetsRow DEF States
  <2>2. CASE ~Owns(t)
    BY <2>2 DEF Finish, TypedInv, Shape, RowsOk, RowOk
  <2> QED
    BY <2>1, <2>2
<1>3. written' \in [Runs -> Nat]
  <2>1. written' = written \/ written' = [written EXCEPT ![attempt[t].run] = @ + 1]
    BY DEF Finish
  <2> QED
    BY <1>1, <2>1 DEF TypedInv, Shape
<1> QED
  BY <1>1, <1>2, <1>3, OverTyped DEF TypedInv, Shape

\* The attempts of a run that is owned, counted once more or not.
LEMMA OwnedCounts ==
  ASSUME TypedInv, NEW t \in Tokens, attempt[t] # None
  PROVE  /\ Counted(t) \in 0..MaxAttempts /\ (Owns(t) => Counted(t) # MaxAttempts)
         /\ Owns(t) => Counted(t) + 1 \in 0..MaxAttempts
<1>1. attempt[t].run \in Runs /\ MaxAttempts \in Nat
  BY AttemptFields, Limits
<1>2. run[attempt[t].run].attempts \in 0..MaxAttempts
  BY <1>1 DEF TypedInv, Shape, Rows
<1>3. Owns(t) => run[attempt[t].run].attempts # MaxAttempts
  BY <1>1, UnendedCounts DEF Owns, Live
<1> QED
  BY <1>1, <1>2, <1>3 DEF Counted

LEMMA ReleaseTyped ==
  ASSUME TypedInv, NEW t \in Tokens, ReleasesUncounted(t) \/ ReleasesCounted(t) \/ Fails(t)
  PROVE  TypedInv'
<1>1. attempt[t] # None
  BY DEF ReleasesUncounted, ReleasesCounted, Fails
<1>2. CASE ReleasesUncounted(t)
  BY <1>1, <1>2, OwnedCounts, SettlesTyped DEF ReleasesUncounted
<1>3. CASE Fails(t)
  BY <1>1, <1>3, OwnedCounts, SettlesTyped DEF Fails
<1>4. CASE ReleasesCounted(t)
  <2> DEFINE state == IF Counted(t) + 1 >= MaxAttempts THEN "failed" ELSE "pending"
  <2>1. Settles(t, Row(state, Counted(t) + 1, None, FALSE)) /\ state \in {"pending", "failed"}
    BY <1>4 DEF ReleasesCounted
  <2>2. CASE Owns(t)
    <3>1. Counted(t) + 1 \in 0..MaxAttempts /\ (Counted(t) + 1 = MaxAttempts => state = "failed")
      BY <1>1, <2>2, OwnedCounts, Limits
    <3> HIDE DEF state
    <3> QED
      BY <1>1, <2>1, <3>1, SettlesTyped
  <2>3. CASE ~Owns(t)
    <3>1. UNCHANGED <<run, clock, written>> /\ Over(t)
      BY <2>1, <2>3 DEF Settles
    <3> QED
      BY <3>1, OverTyped DEF TypedInv, Shape, RowsOk, RowOk
  <2> QED
    BY <2>2, <2>3
<1> QED
  BY <1>2, <1>3, <1>4

LEMMA TypedStep == TypedInv /\ [Next]_vars => TypedInv'
<1> SUFFICES ASSUME TypedInv, [Next]_vars PROVE TypedInv'
  OBVIOUS
<1>1. CASE UNCHANGED vars
  BY <1>1 DEF vars, TypedInv, Shape, RowsOk, RowOk, AttemptsOk
<1>2. ASSUME NEW r \in Runs, Start(r) PROVE TypedInv'
  BY <1>2, StartTyped
<1>3. ASSUME NEW r \in Runs,
             EnqueueApprovedRecord(r) \/ EnqueueSweep(r) \/ StartUncaptured(r) \/ Retry(r) \/ Lapse(r)
      PROVE  TypedInv'
  BY <1>3, RowTyped
<1>4. ASSUME NEW t \in Tokens, Finish(t) PROVE TypedInv'
  BY <1>4, FinishTyped
<1>5. ASSUME NEW t \in Tokens, ReleasesUncounted(t) \/ ReleasesCounted(t) \/ Fails(t) PROVE TypedInv'
  BY <1>5, ReleaseTyped
<1>6. ASSUME NEW t \in Tokens, Aborted(t) PROVE TypedInv'
  <2>1. Over(t) /\ UNCHANGED <<run, clock, written>>
    BY <1>6 DEF Aborted
  <2> QED
    BY <2>1, OverTyped DEF TypedInv, Shape, RowsOk, RowOk
<1>7. CASE Tick
  <2>1. clock' \in 0..MaxTime /\ clock' = clock + 1 /\ UNCHANGED <<run, attempt, written>>
    BY <1>7, Limits DEF Tick, TypedInv, Shape
  <2>2. AttemptsOk'
    BY <2>1, AttemptFields, Limits DEF AttemptsOk, TypedInv, Shape
  <2> QED
    BY <2>1, <2>2 DEF TypedInv, Shape, RowsOk, RowOk
<1>8. CASE Close
  BY <1>8 DEF Close, TypedInv, Shape, RowsOk, RowOk, AttemptsOk, Attempts
<1>9. CASE Stop
  BY <1>9 DEF Stop, TypedInv, Shape, RowsOk, RowOk, AttemptsOk
<1> QED
  BY <1>1, <1>2, <1>3, <1>4, <1>5, <1>6, <1>7, <1>8, <1>9 DEF Next, Ends

\* Rows, attempts and the check of the item are always of the shape the invariant
\* TypedInv describes.
THEOREM Typed == Spec => []TypedInv
<1> QED
  BY TypedStart, TypedStep, PTL DEF Spec

-----------------------------------------------------------------------------
(* One live run of a person. *)

LEMMA SetsOthers ==
  ASSUME TypedInv, NEW r \in Runs, NEW row, Sets(r, row)
  PROVE  \A s \in Runs : run'[s] = IF s = r THEN row ELSE run[s]
BY DEF Sets, TypedInv, Shape

\* Only a start makes a run live.
LEMMA LiveFromStart ==
  ASSUME TypedInv, [Next]_vars, NEW r \in Runs, Live(r)', ~Live(r)
  PROVE  Start(r)
<1>1. PICK s \in Runs : \E row : Sets(s, row) /\ (row.state # "running" \/ ~row.held \/ Start(s))
  <2>1. run' # run
    BY DEF Live
  <2> DEFINE new(state, n) == Row(state, n, None, FALSE)
  <2>2. \A state, n : ~new(state, n).held
    BY DEF Row
  <2>3. ASSUME NEW s \in Runs, EnqueueApprovedRecord(s) \/ EnqueueSweep(s) \/ StartUncaptured(s) \/ Retry(s)
        PROVE  \E row : Sets(s, row) /\ ~row.held
    BY <2>2, <2>3 DEF EnqueueApprovedRecord, EnqueueSweep, StartUncaptured, Retry
  <2>4. ASSUME NEW s \in Runs, Lapse(s) PROVE \E row : Sets(s, row) /\ ~row.held
    <3>1. Sets(s, [run[s] EXCEPT !.held = FALSE]) /\ run[s] \in Rows
      BY <2>4 DEF Lapse, TypedInv, Shape
    <3>2. ~[run[s] EXCEPT !.held = FALSE].held
      BY <3>1 DEF Rows
    <3> QED
      BY <3>1, <3>2
  <2>5. ASSUME NEW s \in Runs, Start(s) PROVE \E row : Sets(s, row)
    BY <2>5 DEF Start
  <2>6. ASSUME NEW t \in Tokens, Ends(t) \/ ReleasesUncounted(t)
        PROVE  \E s \in Runs : \E row : Sets(s, row) /\ ~row.held
    <3>1. attempt[t] # None /\ attempt[t].run \in Runs
      BY <2>6, AttemptFields DEF Ends, Finish, ReleasesCounted, Fails, Aborted, ReleasesUncounted
    <3>2. CASE Finish(t)
      BY <2>1, <2>2, <3>1, <3>2 DEF Finish
    <3>3. CASE ReleasesCounted(t) \/ Fails(t) \/ ReleasesUncounted(t)
      BY <2>1, <2>2, <3>1, <3>3 DEF ReleasesCounted, Fails, ReleasesUncounted, Settles
    <3>4. CASE Aborted(t)
      BY <2>1, <3>4 DEF Aborted
    <3> QED
      BY <2>6, <3>2, <3>3, <3>4 DEF Ends
  <2>7. ~(Tick \/ Close \/ Stop \/ UNCHANGED vars)
    BY <2>1 DEF Tick, Close, Stop, vars
  <2> QED
    BY <2>3, <2>4, <2>5, <2>6, <2>7 DEF Next
<1>2. PICK row : Sets(s, row) /\ (row.state # "running" \/ ~row.held \/ Start(s))
  BY <1>1
<1>3. run'[r] = IF r = s THEN row ELSE run[r]
  BY <1>2, SetsOthers
<1> QED
  BY <1>2, <1>3 DEF Live

LEMMA OneLiveStep == TypedInv /\ OneLiveRun /\ [Next]_vars => OneLiveRun'
<1> SUFFICES ASSUME TypedInv, OneLiveRun, [Next]_vars, NEW r \in Runs, NEW s \in Runs,
                    Actor[r] = Actor[s], Live(r)', Live(s)', r # s
             PROVE  FALSE
  BY DEF OneLiveRun
<1>1. ASSUME NEW a \in Runs, NEW b \in Runs, a # b, Actor[a] = Actor[b], Live(a)', Live(b)', ~Live(a)
      PROVE  FALSE
  <2>1. Start(a) /\ ~Live(b)
    BY <1>1, LiveFromStart DEF Start, Claimable
  <2>2. run'[b] = run[b]
    BY <1>1, <2>1, SetsOthers DEF Start
  <2> QED
    BY <1>1, <2>1, <2>2 DEF Live
<1>2. Live(r) /\ Live(s)
  BY <1>1
<1> QED
  BY <1>2 DEF OneLiveRun

\* A person has one live run, whatever leases lapsed.
THEOREM OneAtATime == Spec => []OneLiveRun
<1>1. Init => OneLiveRun
  BY DEF Init, OneLiveRun, Live, Row
<1> QED
  BY <1>1, Typed, OneLiveStep, PTL DEF Spec

-----------------------------------------------------------------------------
(* What is queued, and who moves it.                                         *)

\* A person's sweeps of one scope that are not over are one.
OneSweepQueued ==
  \A r, s \in Sweeps : Actor[r] = Actor[s] /\ Scope[r] = Scope[s] /\ Unended(r) /\ Unended(s) => r = s

\* While a run is not over, its research goes on, a lost attempt's lease has yet to
\* lapse, or a desktop would start a run and the claim would take it.
SomebodyMoves ==
  (\E r \in Runs : Unended(r)) =>
    \/ Researching # {}
    \/ \E r \in Runs : Orphaned(r)
    \/ \E r \in Runs : ToStart(r) /\ Claimable(r)

\* What a desktop chooses is refused only for want of room.
ChoiceIsClaimed == \A r \in Runs : ToStart(r) => Claimable(r) \/ Cardinality(Researching) >= MaxRunning

\* Only its request makes a sweep one that is not over.
LEMMA QueuedByRequest ==
  ASSUME TypedInv, [Next]_vars, NEW r \in Sweeps, Unended(r)', ~Unended(r)
  PROVE  EnqueueSweep(r)
<1>1. run' # run /\ r \in Runs
  BY DEF Unended, Runs
<1>2. PICK s \in Runs : \E row : Sets(s, row) /\ (Unended(s) \/ s \in Impacts \/ EnqueueSweep(s))
  <2>1. ASSUME NEW s \in Runs, EnqueueApprovedRecord(s) \/ EnqueueSweep(s) \/ Retry(s)
        PROVE  \E row : Sets(s, row) /\ (s \in Impacts \/ EnqueueSweep(s))
    <3>1. CASE EnqueueApprovedRecord(s) \/ Retry(s)
      BY <3>1 DEF EnqueueApprovedRecord, Retry
    <3>2. CASE EnqueueSweep(s)
      <4>1. \E row : Sets(s, row)
        BY <3>2 DEF EnqueueSweep
      <4> QED
        BY <3>2, <4>1
    <3> QED
      BY <2>1, <3>1, <3>2
  <2>2. ASSUME NEW s \in Runs, Start(s) \/ StartUncaptured(s) \/ Lapse(s)
        PROVE  Unended(s) /\ \E row : Sets(s, row)
    BY <2>2 DEF Start, StartUncaptured, Lapse, Claimable, ReadsPending, Unended, Live
  <2>3. ASSUME NEW t \in Tokens, Ends(t) \/ ReleasesUncounted(t)
        PROVE  \E s \in Runs : Unended(s) /\ \E row : Sets(s, row)
    <3>1. attempt[t] # None /\ attempt[t].run \in Runs
      BY <2>3, AttemptFields DEF Ends, Finish, ReleasesCounted, Fails, Aborted, ReleasesUncounted
    <3>2. Owns(t) /\ \E row : Sets(attempt[t].run, row)
      <4>1. CASE Finish(t)
        BY <1>1, <4>1 DEF Finish
      <4>2. CASE ReleasesCounted(t) \/ Fails(t) \/ ReleasesUncounted(t)
        BY <1>1, <4>2 DEF ReleasesCounted, Fails, ReleasesUncounted, Settles
      <4>3. CASE Aborted(t)
        BY <1>1, <4>3 DEF Aborted
      <4> QED
        BY <2>3, <4>1, <4>2, <4>3 DEF Ends
    <3> QED
      BY <3>1, <3>2 DEF Owns, Live, Unended
  <2>4. ~(Tick \/ Close \/ Stop \/ UNCHANGED vars)
    BY <1>1 DEF Tick, Close, Stop, vars
  <2> QED
    BY <2>1, <2>2, <2>3, <2>4 DEF Next
<1>3. run'[r] = run[r] \/ r = s
  BY <1>1, <1>2, SetsOthers
<1>4. r \notin Impacts
  BY RunsAssumption
<1> QED
  BY <1>2, <1>3, <1>4 DEF Unended

LEMMA OneSweepStep == TypedInv /\ OneSweepQueued /\ [Next]_vars => OneSweepQueued'
<1> SUFFICES ASSUME TypedInv, OneSweepQueued, [Next]_vars, NEW r \in Sweeps, NEW s \in Sweeps,
                    Actor[r] = Actor[s], Scope[r] = Scope[s], Unended(r)', Unended(s)', r # s
             PROVE  FALSE
  BY DEF OneSweepQueued
<1>1. ASSUME NEW a \in Sweeps, NEW b \in Sweeps, a # b, Actor[a] = Actor[b], Scope[a] = Scope[b],
             Unended(a)', Unended(b)', ~Unended(a)
      PROVE  FALSE
  <2>1. EnqueueSweep(a) /\ ~Unended(b)
    BY <1>1, QueuedByRequest DEF EnqueueSweep
  <2>2. run'[b] = run[b]
    BY <1>1, <2>1, SetsOthers DEF EnqueueSweep, Runs
  <2> QED
    BY <1>1, <2>1, <2>2 DEF Unended
<1>2. Unended(r) /\ Unended(s)
  BY <1>1
<1> QED
  BY <1>2 DEF OneSweepQueued

\* A person's sweep of a scope is handed back instead of queued again, whatever
\* became of its lease meanwhile (SqliteTriggerRunsV1.enqueueSweep).
THEOREM OneSweepOfAScope == Spec => []OneSweepQueued
<1>1. Init => OneSweepQueued
  BY DEF Init, OneSweepQueued, Unended, Row, Runs
<1> QED
  BY <1>1, Typed, OneSweepStep, PTL DEF Spec

\* A run that is not over reads pending or is live.
LEMMA UnendedReads == \A r : Unended(r) <=> ReadsPending(r) \/ Live(r)
BY DEF Unended, ReadsPending, Live

LEMMA ChoiceFits == TypedInv => ChoiceIsClaimed
<1> SUFFICES ASSUME TypedInv, NEW r \in Runs, ToStart(r), ~(Cardinality(Researching) >= MaxRunning)
             PROVE  Claimable(r)
  BY DEF ChoiceIsClaimed
<1>1. Cardinality(Researching) < MaxRunning
  <2>1. Researching \subseteq Tokens
    BY DEF Researching
  <2>2. Cardinality(Researching) \in Nat /\ Cardinality(Tokens) \in Nat
    BY <2>1, RunsAssumption, FS_Subset, FS_CardinalityType
  <2> QED
    BY <2>2, LimitsAssumption
<1>2. r \in Sweeps => ~\E i \in Impacts : Actor[i] = Actor[r] /\ Unended(i)
  BY UnendedReads, RunsAssumption DEF ToStart, Runs
<1> QED
  BY <1>1, <1>2 DEF Claimable, ToStart

LEMMA MovesFromTyped == TypedInv => SomebodyMoves
<1> SUFFICES ASSUME TypedInv, NEW r \in Runs, Unended(r), Researching = {}, \A s \in Runs : ~Orphaned(s)
             PROVE  \E s \in Runs : ToStart(s) /\ Claimable(s)
  BY DEF SomebodyMoves
<1>1. ~(Cardinality(Researching) >= MaxRunning)
  BY FS_EmptySet, LimitsAssumption, RunsAssumption, FS_CardinalityType
<1>2. \A s \in Runs : ~Live(s)
  BY DEF Orphaned, Researching
<1>3. \E s \in Runs : ToStart(s)
  <2>1. CASE r \in Impacts \/ ~\E i \in Impacts : Actor[i] = Actor[r] /\ ReadsPending(i)
    BY <1>2, <2>1, UnendedReads DEF ToStart
  <2>2. CASE \E i \in Impacts : Actor[i] = Actor[r] /\ ReadsPending(i)
    BY <1>2, <2>2 DEF ToStart, Runs
  <2> QED
    BY <2>1, <2>2
<1> QED
  BY <1>1, <1>3, ChoiceFits DEF ChoiceIsClaimed

\* The desktop's choice of the next run and the server's claim agree, and nothing
\* queued is left to nobody: neither the order of impact checks before sweeps nor a
\* run that lost its attempt holds the others up with no step left that frees them.
THEOREM QueueIsServed == Spec => [](SomebodyMoves /\ ChoiceIsClaimed)
BY Typed, MovesFromTyped, ChoiceFits, PTL

-----------------------------------------------------------------------------
(* The writes of a run.                                                      *)

\* A run whose row is set is not done, and is done only when its writes are made.
LEMMA WrittenStep == TypedInv /\ WrittenOnce /\ [Next]_vars => WrittenOnce'
<1> SUFFICES ASSUME TypedInv, WrittenOnce, [Next]_vars PROVE WrittenOnce'
  OBVIOUS
<1>1. ASSUME NEW r \in Runs, NEW row, Sets(r, row), run[r].state # "done", row.state # "done", UNCHANGED written
      PROVE  WrittenOnce'
  BY <1>1, SetsOthers DEF WrittenOnce
<1>2. ASSUME UNCHANGED <<run, written>> PROVE WrittenOnce'
  BY <1>2 DEF WrittenOnce
<1>3. ASSUME NEW r \in Runs,
             EnqueueApprovedRecord(r) \/ EnqueueSweep(r) \/ StartUncaptured(r) \/ Retry(r) \/ Start(r)
      PROVE  WrittenOnce'
  <2>1. UNCHANGED written /\ run[r].state # "done"
    BY <1>3 DEF EnqueueApprovedRecord, EnqueueSweep, StartUncaptured, Retry, Start, Claimable, ReadsPending
  <2>2. \E row : Sets(r, row) /\ row.state # "done"
    <3>1. CASE Start(r)
      <4> DEFINE row == Row("running", run[r].attempts, CHOOSE t \in Free : TRUE, TRUE)
      <4>1. Sets(r, row)
        BY <3>1 DEF Start
      <4>2. row.state # "done"
        BY DEF Row
      <4> HIDE DEF row
      <4> QED
        BY <4>1, <4>2
    <3>2. CASE ~Start(r)
      <4> DEFINE row(n) == Row("pending", n, None, FALSE)
      <4>1. Sets(r, row(0)) \/ Sets(r, row(run[r].attempts))
        BY <1>3, <3>2 DEF EnqueueApprovedRecord, EnqueueSweep, StartUncaptured, Retry
      <4>2. row(0).state # "done" /\ row(run[r].attempts).state # "done"
        BY DEF Row
      <4> HIDE DEF row
      <4> QED
        BY <4>1, <4>2
    <3> QED
      BY <3>1, <3>2
  <2> QED
    BY <1>1, <2>1, <2>2
<1>4. ASSUME NEW r \in Runs, Lapse(r) PROVE WrittenOnce'
  <2> DEFINE row == [run[r] EXCEPT !.held = FALSE]
  <2>1. Sets(r, row) /\ UNCHANGED written /\ run[r].state = "running" /\ run[r] \in Rows
    BY <1>4 DEF Lapse, Live, TypedInv, Shape
  <2>2. row.state = "running"
    BY <2>1 DEF Rows
  <2> HIDE DEF row
  <2> QED
    BY <1>1, <2>1, <2>2
<1>5. ASSUME NEW t \in Tokens, ReleasesUncounted(t) \/ ReleasesCounted(t) \/ Fails(t) PROVE WrittenOnce'
  <2>1. attempt[t].run \in Runs
    BY <1>5, AttemptFields DEF ReleasesUncounted, ReleasesCounted, Fails
  <2>2. PICK state \in {"pending", "failed"} : \E n : Settles(t, Row(state, n, None, FALSE))
    BY <1>5 DEF ReleasesUncounted, ReleasesCounted, Fails
  <2>3. PICK n : Settles(t, Row(state, n, None, FALSE))
    BY <2>2
  <2>4. UNCHANGED written
    BY <2>3 DEF Settles
  <2>5. CASE Owns(t)
    <3>1. Sets(attempt[t].run, Row(state, n, None, FALSE)) /\ run[attempt[t].run].state # "done"
      BY <2>3, <2>5 DEF Settles, Owns, Live
    <3>2. Row(state, n, None, FALSE).state # "done"
      BY DEF Row
    <3> QED
      BY <1>1, <2>1, <2>4, <3>1, <3>2
  <2>6. CASE ~Owns(t)
    BY <1>2, <2>3, <2>4, <2>6 DEF Settles
  <2> QED
    BY <2>5, <2>6
<1>6. ASSUME NEW t \in Tokens, Finish(t) PROVE WrittenOnce'
  <2> DEFINE r == attempt[t].run
  <2>1. r \in Runs
    BY <1>6, AttemptFields DEF Finish
  <2>2. CASE Owns(t)
    <3>1. /\ Sets(r, Row("done", run[r].attempts, None, FALSE)) /\ run[r].state = "running"
          /\ written' = [written EXCEPT ![r] = @ + 1]
      BY <1>6, <2>2 DEF Finish, Owns, Live
    <3>2. Row("done", run[r].attempts, None, FALSE).state = "done"
      BY DEF Row
    <3> HIDE DEF r
    <3>3. written[r] = 0 /\ written \in [Runs -> Nat]
      BY <2>1, <3>1 DEF WrittenOnce, TypedInv, Shape
    <3>4. \A s \in Runs : run'[s] = IF s = r THEN Row("done", run[r].attempts, None, FALSE) ELSE run[s]
      BY <2>1, <3>1, SetsOthers
    <3>5. \A s \in Runs : written'[s] = IF s = r THEN 1 ELSE written[s]
      BY <3>1, <3>3
    <3> QED
      BY <3>2, <3>4, <3>5 DEF WrittenOnce
  <2>3. CASE ~Owns(t)
    BY <1>2, <1>6, <2>3 DEF Finish
  <2> QED
    BY <2>2, <2>3
<1>7. CASE Tick \/ Close \/ Stop \/ UNCHANGED vars
  BY <1>2, <1>7 DEF Tick, Close, Stop, vars
<1>8. ASSUME NEW t \in Tokens, Aborted(t) PROVE WrittenOnce'
  BY <1>2, <1>8 DEF Aborted
<1> QED
  BY <1>3, <1>4, <1>5, <1>6, <1>7, <1>8 DEF Next, Ends

\* The writes of a run are made once, with its result.
THEOREM OneSetOfWrites == Spec => []WrittenOnce
<1>1. Init => WrittenOnce
  BY DEF Init, WrittenOnce, Row
<1> QED
  BY <1>1, Typed, WrittenStep, PTL DEF Spec

-----------------------------------------------------------------------------
(* The last check.                                                           *)

LEMMA VerdictFromInv == CheckInv => VerdictIsNewest
BY DEF CheckInv, VerdictIsNewest, Checks

LEMMA RecordKeepsVerdict ==
  ASSUME CheckInv, clock \in 0..MaxTime, NEW at \in 0..clock, NEW verdict \in {"judged", "unreadable"},
         RecordCheck(verdict, at), UNCHANGED clock
  PROVE  CheckInv'
<1>1. MaxTime \in Nat
  BY Limits
<1>2. CASE ~Replaces(verdict, at)
  <2>1. /\ UNCHANGED <<check, unread>> /\ check # None /\ check \in Checks
        /\ judged' = IF verdict = "judged" /\ at > judged THEN at ELSE judged
    BY <1>2 DEF RecordCheck, Replaces, CheckInv
  <2>2. verdict = "judged" => check.verdict = "judged" /\ at <= check.at
    BY <1>1, <1>2, <2>1 DEF Replaces, Checks
  <2> QED
    BY <1>1, <2>1, <2>2 DEF CheckInv, Checks
<1>3. CASE Replaces(verdict, at)
  <2> DEFINE stamp == Stamped(at)
  <2>1. /\ check' = [verdict |-> verdict, at |-> stamp, read |-> at]
        /\ unread' = IF verdict = "unreadable" THEN stamp ELSE unread
        /\ judged' = IF verdict = "judged" /\ at > judged THEN at ELSE judged
    BY <1>3 DEF RecordCheck
  <2>2. CASE check = None \/ check.at < at
    <3>1. stamp = at
      BY <1>1, <2>2 DEF Stamped, CheckInv, Checks
    <3> HIDE DEF stamp
    <3>2. (judged < at /\ unread < at) \/ (check = None /\ judged = -1 /\ unread = -1)
      BY <1>1, <2>2 DEF CheckInv, Checks
    <3>3. verdict = "unreadable" => judged = -1
      BY <1>1, <1>3, <2>2 DEF CheckInv, Replaces, Checks
    <3>4. check' \in Checks /\ judged \in Int /\ unread \in Int /\ judged >= -1 /\ unread >= -1
      BY <1>1, <2>1, <3>1 DEF CheckInv, Checks
    <3> QED
      BY <1>1, <2>1, <3>1, <3>2, <3>3, <3>4, NoneAssumption DEF CheckInv
  <2>3. CASE check # None /\ check.at >= at
    <3>1. check.verdict = "unreadable" /\ verdict = "judged" /\ check \in Checks
      BY <1>1, <1>3, <2>3 DEF CheckInv, Replaces, Checks
    <3>2. stamp = check.at + 1 /\ unread = check.at /\ judged = -1 /\ check.at <= clock /\ check.at \in Nat
      BY <1>1, <2>3, <3>1 DEF Stamped, CheckInv, Checks
    <3> HIDE DEF stamp
    <3>3. check' \in Checks /\ unread' = unread /\ judged' = at
      BY <1>1, <2>1, <3>1, <3>2 DEF Checks
    <3> QED
      BY <1>1, <2>1, <2>3, <3>1, <3>2, <3>3, NoneAssumption DEF CheckInv
  <2>4. check = None \/ check.at < at \/ check.at >= at
    BY DEF CheckInv, Checks
  <2> QED
    BY <2>2, <2>3, <2>4
<1> QED
  BY <1>2, <1>3

LEMMA CheckStep == TypedInv /\ CheckInv /\ [Next]_vars => CheckInv'
<1> SUFFICES ASSUME TypedInv, CheckInv, [Next]_vars PROVE CheckInv'
  OBVIOUS
<1>1. clock \in 0..MaxTime /\ MaxTime \in Nat
  BY Limits DEF TypedInv, Shape
<1>2. ASSUME UNCHANGED <<check, judged, unread>>, clock' = clock \/ Tick PROVE CheckInv'
  BY <1>1, <1>2 DEF CheckInv, Tick, Checks
<1>3. ASSUME NEW r \in Runs,
             EnqueueApprovedRecord(r) \/ EnqueueSweep(r) \/ Start(r) \/ StartUncaptured(r) \/ Retry(r) \/ Lapse(r)
      PROVE  CheckInv'
  BY <1>2, <1>3 DEF EnqueueApprovedRecord, EnqueueSweep, Start, StartUncaptured, Retry, Lapse
<1>4. ASSUME NEW t \in Tokens, ReleasesUncounted(t) \/ ReleasesCounted(t) \/ Fails(t) \/ Aborted(t)
      PROVE  CheckInv'
  BY <1>2, <1>4 DEF ReleasesUncounted, ReleasesCounted, Fails, Aborted, Settles
<1>5. ASSUME NEW t \in Tokens, Finish(t) PROVE CheckInv'
  <2>1. attempt[t].at \in 0..clock /\ UNCHANGED clock
    BY <1>5, AttemptFields DEF Finish
  <2>2. \/ UNCHANGED <<check, judged, unread>>
        \/ \E verdict \in {"judged", "unreadable"} : RecordCheck(verdict, attempt[t].at)
    BY <1>5 DEF Finish
  <2> QED
    BY <1>1, <1>2, <2>1, <2>2, RecordKeepsVerdict
<1>6. CASE Tick \/ Close \/ Stop \/ UNCHANGED vars
  BY <1>2, <1>6 DEF Tick, Close, Stop, vars
<1> QED
  BY <1>3, <1>4, <1>5, <1>6 DEF Next, Ends

LEMMA Verdicts == Spec => []CheckInv
<1>1. Init => CheckInv
  BY DEF Init, CheckInv
<1> QED
  BY <1>1, Typed, CheckStep, PTL DEF Spec

\* The last check of an item is the newest verdict.
THEOREM NewestVerdict == Spec => []VerdictIsNewest
<1> QED
  BY Verdicts, VerdictFromInv, PTL

\* Rows and attempts are as the table's checks have them.
THEOREM RowsTyped == Spec => []TypeOK
<1>1. TypedInv /\ CheckInv => TypeOK
  BY AttemptFields DEF TypedInv, CheckInv, Shape, RowsOk, RowOk, TypeOK, Rows, States
<1> QED
  BY <1>1, Typed, Verdicts, PTL
=============================================================================
