-------------------------- MODULE ExtractionLedger --------------------------
(***************************************************************************)
(* The extraction attempt ledger: the durable spend control of paid model  *)
(* calls (sqlite-extraction-attempt-store-v1.ts) together with the         *)
(* protocol its client, the meeting-processing cycle, follows around one   *)
(* provider call (meeting-processing-cycle-v1.ts), and the operator's      *)
(* recovery command (organization-authority-extraction-attempt-cli.ts).    *)
(*                                                                         *)
(* Every operation of the store reads and writes only the latest attempt   *)
(* of a key and whether that attempt carries a retry permission, so those  *)
(* two are the ledger's state; older rows are immutable history.           *)
(***************************************************************************)
EXTENDS Naturals

CONSTANTS
  Keys,         \* attempt keys: an admitted source, a review lineage, a review input
  Workers,      \* passes that extract, in one process or in several
  MaxAttempt,   \* MAX_ATTEMPT, the largest attempt number (2^31 - 1 in the code)
  NoClaim       \* what a worker without a reservation holds

ASSUME MaxAttemptAssumption == MaxAttempt \in Nat \ {0}

Phases == {"calling", "failing", "granting"}
Claims == [key : Keys, attempt : 1..MaxAttempt, phase : Phases]

ASSUME NoClaimAssumption == NoClaim \notin Claims

VARIABLES
  attempt,     \* latest attempt number per key, 0 before the first
  outcome,     \* the latest attempt's outcome
  failure,     \* its failure code, as far as a later poll tells codes apart
  permitted,   \* whether the latest attempt carries a retry permission
  fresh,       \* whether the latest attempt is younger than its lease
  claim,       \* the reservation each worker holds in memory
  billed,      \* history: answers of the provider that were or may have been paid
  unbilled,    \* history: refusals the provider declared unbilled
  automatic,   \* history: permissions the cycle granted to itself
  operator     \* history: permissions an operator granted

store   == <<attempt, outcome, failure, permitted, fresh>>
history == <<billed, unbilled, automatic, operator>>
vars    == <<attempt, outcome, failure, permitted, fresh, claim,
             billed, unbilled, automatic, operator>>

Outcomes == {"none", "pending", "succeeded", "failed"}
Failures == {"none", "cancelled", "other"}

Init ==
  /\ attempt   = [k \in Keys |-> 0]
  /\ outcome   = [k \in Keys |-> "none"]
  /\ failure   = [k \in Keys |-> "none"]
  /\ permitted = [k \in Keys |-> FALSE]
  /\ fresh     = [k \in Keys |-> FALSE]
  /\ claim     = [w \in Workers |-> NoClaim]
  /\ billed    = [k \in Keys |-> 0]
  /\ unbilled  = [k \in Keys |-> 0]
  /\ automatic = [k \in Keys |-> 0]
  /\ operator  = [k \in Keys |-> 0]

Holds(w, k, phase) ==
  /\ claim[w] # NoClaim
  /\ claim[w].key = k
  /\ claim[w].phase = phase

-----------------------------------------------------------------------------
(* The store's operations. *)

\* A mutant for TwoProcesses: any attempt is retried without a permission.
ReservableAlways(k) == attempt[k] # MaxAttempt

\* reserve: a first attempt is free, a later one consumes a permission.
Reservable(k) ==
  attempt[k] = 0 \/ (permitted[k] /\ attempt[k] # MaxAttempt)

\* A mutant for ImportSettles: a pending attempt is in flight for ever.
InFlightForever(k) == outcome[k] = "pending"

\* A blocked reservation of a pending attempt within its lease: in_flight.
InFlight(k) == outcome[k] = "pending" /\ fresh[k]

Reserve(w, k) ==
  /\ claim[w] = NoClaim
  /\ Reservable(k)
  /\ attempt'   = [attempt EXCEPT ![k] = @ + 1]
  /\ outcome'   = [outcome EXCEPT ![k] = "pending"]
  /\ failure'   = [failure EXCEPT ![k] = "none"]
  /\ permitted' = [permitted EXCEPT ![k] = FALSE]
  /\ fresh'     = [fresh EXCEPT ![k] = TRUE]
  /\ claim'     = [claim EXCEPT ![w] =
                     [key |-> k, attempt |-> attempt[k] + 1, phase |-> "calling"]]
  /\ UNCHANGED history

\* complete accepts only the pending latest attempt that nobody may retry yet.
Completable(k, n) ==
  attempt[k] = n /\ outcome[k] = "pending" /\ ~permitted[k]

\* complete by worker w. When the store refuses, it throws and changes nothing.
Complete(w, result, code) ==
  LET k == claim[w].key IN
  /\ IF Completable(k, claim[w].attempt)
       THEN /\ outcome' = [outcome EXCEPT ![k] = result]
            /\ failure' = [failure EXCEPT ![k] = code]
       ELSE UNCHANGED <<outcome, failure>>
  /\ UNCHANGED <<attempt, permitted, fresh>>

\* authorizeRetry answers "conflict", and changes nothing, unless the latest
\* attempt is the expected one and has no permission yet.
Grantable(k, n, result) ==
  attempt[k] = n /\ outcome[k] = result /\ n # MaxAttempt /\ ~permitted[k]

-----------------------------------------------------------------------------
(* The cycle around one provider call. *)

Release(w) == claim' = [claim EXCEPT ![w] = NoClaim]
Move(w, phase) == claim' = [claim EXCEPT ![w].phase = phase]
Bill(k) == billed' = [billed EXCEPT ![k] = @ + 1]

\* The call returned a usable result: the attempt succeeded.
Succeed(w) ==
  /\ \E k \in Keys : Holds(w, k, "calling") /\ Bill(k)
  /\ Complete(w, "succeeded", "none")
  /\ Release(w)
  /\ UNCHANGED <<unbilled, automatic, operator>>

\* The run was aborted during the call: the attempt is closed as cancelled.
Abort(w) ==
  /\ \E k \in Keys : Holds(w, k, "calling") /\ Bill(k)
  /\ Complete(w, "failed", "cancelled")
  /\ Release(w)
  /\ UNCHANGED <<unbilled, automatic, operator>>

\* A mutant: a billed failure of the first attempt is retried for free.
RefuseFirstBilled(w) ==
  /\ \E k \in Keys : Holds(w, k, "calling") /\ Bill(k)
  /\ claim[w].attempt = 1
  /\ Complete(w, "failed", "other")
  /\ Move(w, "granting")
  /\ UNCHANGED <<unbilled, automatic, operator>>

\* An unbilled refusal of the first attempt is closed at once, then granted.
RefuseFirst(w) ==
  /\ \E k \in Keys : /\ Holds(w, k, "calling")
                     /\ unbilled' = [unbilled EXCEPT ![k] = @ + 1]
  /\ claim[w].attempt = 1
  /\ Complete(w, "failed", "other")
  /\ Move(w, "granting")
  /\ UNCHANGED <<billed, automatic, operator>>

\* The one automatic retry of that refusal.
GrantAutomatic(w) ==
  /\ \E k \in Keys :
       /\ Holds(w, k, "granting")
       /\ IF Grantable(k, claim[w].attempt, "failed")
            THEN /\ permitted' = [permitted EXCEPT ![k] = TRUE]
                 /\ automatic' = [automatic EXCEPT ![k] = @ + 1]
            ELSE UNCHANGED <<permitted, automatic>>
  /\ Release(w)
  /\ UNCHANGED <<attempt, outcome, failure, fresh, billed, unbilled, operator>>

\* Any other failure: the revision is parked first, the attempt closed after.
FailBilled(w) ==
  /\ \E k \in Keys : Holds(w, k, "calling") /\ Bill(k)
  /\ Move(w, "failing")
  /\ UNCHANGED <<store, unbilled, automatic, operator>>

FailUnbilled(w) ==
  /\ \E k \in Keys : /\ Holds(w, k, "calling")
                     /\ unbilled' = [unbilled EXCEPT ![k] = @ + 1]
  /\ claim[w].attempt # 1
  /\ Move(w, "failing")
  /\ UNCHANGED <<store, billed, automatic, operator>>

CloseFailed(w) ==
  /\ \E k \in Keys : Holds(w, k, "failing")
  /\ Complete(w, "failed", "other")
  /\ Release(w)
  /\ UNCHANGED history

\* The process dies: the claim is gone, and a call under way may be billed.
Crash(w) ==
  /\ claim[w] # NoClaim
  /\ Release(w)
  /\ IF claim[w].phase = "calling" THEN Bill(claim[w].key) ELSE UNCHANGED billed
  /\ UNCHANGED <<store, unbilled, automatic, operator>>

-----------------------------------------------------------------------------
\* Time: the latest pending attempt outlives EXTRACTION_IN_FLIGHT_MS.
LeaseExpires(k) ==
  /\ InFlight(k)
  /\ fresh' = [fresh EXCEPT ![k] = FALSE]
  /\ UNCHANGED <<attempt, outcome, failure, permitted, claim, history>>

\* A mutant: the command runs beside a live worker.
GrantBesideWorker(k) ==
  /\ attempt[k] > 0
  /\ Grantable(k, attempt[k], outcome[k])
  /\ permitted' = [permitted EXCEPT ![k] = TRUE]
  /\ operator'  = [operator EXCEPT ![k] = @ + 1]
  /\ UNCHANGED <<attempt, outcome, failure, fresh, claim, billed, unbilled, automatic>>

\* The recovery command runs in the stopped, exclusive worker lane: no pass
\* holds a claim. A pending attempt is granted with recover_pending.
GrantOperator(k) ==
  /\ \A w \in Workers : claim[w] = NoClaim
  /\ attempt[k] > 0
  /\ Grantable(k, attempt[k], outcome[k])
  /\ permitted' = [permitted EXCEPT ![k] = TRUE]
  /\ operator'  = [operator EXCEPT ![k] = @ + 1]
  /\ UNCHANGED <<attempt, outcome, failure, fresh, claim, billed, unbilled, automatic>>

Next ==
  \/ \E w \in Workers :
       \/ \E k \in Keys : Reserve(w, k)
       \/ Succeed(w) \/ Abort(w) \/ RefuseFirst(w) \/ GrantAutomatic(w)
       \/ FailBilled(w) \/ FailUnbilled(w) \/ CloseFailed(w)
       \/ Crash(w)
  \/ \E k \in Keys : LeaseExpires(k) \/ GrantOperator(k)

Spec == Init /\ [][Next]_vars

-----------------------------------------------------------------------------
(* Properties. *)

\* The ledger's variables hold rows the schema's CHECKs admit, and a worker
\* holds at most one reservation.
TypeOK ==
  /\ attempt   \in [Keys -> 0..MaxAttempt]
  /\ outcome   \in [Keys -> Outcomes]
  /\ failure   \in [Keys -> Failures]
  /\ permitted \in [Keys -> BOOLEAN]
  /\ fresh     \in [Keys -> BOOLEAN]
  /\ claim     \in [Workers -> Claims \cup {NoClaim}]
  /\ billed    \in [Keys -> Nat]
  /\ unbilled  \in [Keys -> Nat]
  /\ automatic \in [Keys -> Nat]
  /\ operator  \in [Keys -> Nat]

Live(k) == IF \E w \in Workers : Holds(w, k, "calling") THEN 1 ELSE 0

\* The spend bound the ledger exists for: for one review input, the calls that
\* were or may yet be paid for never exceed one plus the grants of an operator,
\* across crashes, concurrent passes, expired leases and automatic retries.
SpendWithinGrants ==
  \A k \in Keys : billed[k] + Live(k) <= 1 + operator[k]

\* No two passes ever pay for the same review input at the same time.
OneCallPerKey ==
  \A v, w \in Workers, k \in Keys :
    Holds(v, k, "calling") /\ Holds(w, k, "calling") => v = w

\* A worker's late complete is never refused: while it holds a claim, the
\* ledger's latest attempt is the one it reserved, and nobody may retry it.
\* So the result of a call that was paid for is always recorded.
ClaimStaysLatest ==
  \A w \in Workers : claim[w] # NoClaim =>
    /\ attempt[claim[w].key] = claim[w].attempt
    /\ ~permitted[claim[w].key]
    /\ claim[w].phase \in {"calling", "failing"} =>
         Completable(claim[w].key, claim[w].attempt)
=============================================================================
