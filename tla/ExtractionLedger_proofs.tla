----------------------- MODULE ExtractionLedger_proofs -----------------------
(***************************************************************************)
(* Proofs that the extraction ledger and the protocol around one provider  *)
(* call keep the spend bound, for every set of keys and workers and every  *)
(* MaxAttempt.  The inductive invariant IndInv counts attempts twice: by   *)
(* what became of their calls, and by what paid for them.                  *)
(***************************************************************************)
EXTENDS ExtractionLedger, TLAPS

\* A claim names the latest attempt of its key, still open while the call or
\* its parking is under way, and just closed when its grant is.
ClaimOK(w) ==
  claim[w] # NoClaim =>
    LET k == claim[w].key IN
    /\ attempt[k] = claim[w].attempt
    /\ ~permitted[k]
    /\ claim[w].phase \in {"calling", "failing"} => outcome[k] = "pending"
    /\ claim[w].phase = "granting" =>
         outcome[k] = "failed" /\ claim[w].attempt = 1 /\ unbilled[k] > 0

ClaimInv == \A w \in Workers : ClaimOK(w)

\* A key is claimed by one worker at most.
ClaimUnique ==
  \A v, w \in Workers :
    claim[v] # NoClaim /\ claim[w] # NoClaim /\ claim[v].key = claim[w].key
      => v = w

\* Every attempt is a paid call, an unbilled one, or the call under way.
Accounting ==
  \A k \in Keys : attempt[k] = billed[k] + unbilled[k] + Live(k)

\* Every attempt after the first consumed a permission, and the one the latest
\* attempt carries is still unused.
Budget ==
  \A k \in Keys :
    attempt[k] + (IF permitted[k] THEN 1 ELSE 0) <= 1 + automatic[k] + operator[k]

\* The cycle grants itself one permission per key, after an unbilled refusal.
AutomaticOnce ==
  \A k \in Keys :
    /\ automatic[k] <= 1
    /\ automatic[k] = 1 => unbilled[k] > 0 /\ (permitted[k] \/ attempt[k] > 1)

IndInv == /\ TypeOK
          /\ ClaimInv
          /\ ClaimUnique
          /\ Accounting
          /\ Budget
          /\ AutomaticOnce

-----------------------------------------------------------------------------
(* How one worker's claim changes the number of calls under way. *)

\* A claim that is not a call on key j, before or after, leaves j's calls alone.
LEMMA LiveFrame ==
  ASSUME TypeOK, NEW w \in Workers, NEW c, claim' = [claim EXCEPT ![w] = c],
         NEW j, ~Holds(w, j, "calling"),
         ~(c # NoClaim /\ c.key = j /\ c.phase = "calling")
  PROVE  Live(j)' = Live(j)
<1>1. \A v \in Workers : Holds(v, j, "calling")' <=> Holds(v, j, "calling")
  BY DEF TypeOK, Holds
<1>2. QED
  BY <1>1 DEF Live

\* A new call on a key makes it the key's call under way.
LEMMA LiveOn ==
  ASSUME TypeOK, NEW w \in Workers, NEW c, claim' = [claim EXCEPT ![w] = c],
         NEW k, c # NoClaim, c.key = k, c.phase = "calling"
  PROVE  Live(k)' = 1
<1>1. Holds(w, k, "calling")'
  BY DEF TypeOK, Holds
<1>2. QED
  BY <1>1 DEF Live

\* A call that ends was the key's only one.
LEMMA LiveOff ==
  ASSUME TypeOK, ClaimUnique, NEW w \in Workers, NEW c,
         claim' = [claim EXCEPT ![w] = c],
         NEW k, Holds(w, k, "calling"),
         ~(c # NoClaim /\ c.key = k /\ c.phase = "calling")
  PROVE  Live(k) = 1 /\ Live(k)' = 0
<1>1. Live(k) = 1
  BY DEF Live
<1>2. ASSUME NEW v \in Workers, Holds(v, k, "calling")' PROVE FALSE
  <2>1. CASE v = w
    BY <1>2, <2>1 DEF TypeOK, Holds
  <2>2. CASE v # w
    BY <1>2, <2>2 DEF TypeOK, Holds, ClaimUnique
  <2>3. QED
    BY <2>1, <2>2
<1>3. QED
  BY <1>1, <1>2 DEF Live

\* The claim a worker holds, by the fields the actions read.
LEMMA ClaimFields ==
  ASSUME TypeOK, NEW w \in Workers, claim[w] # NoClaim
  PROVE  /\ claim[w].key \in Keys
         /\ claim[w].attempt \in 1..MaxAttempt
         /\ claim[w].phase \in Phases
         /\ claim[w] = [key |-> claim[w].key, attempt |-> claim[w].attempt,
                        phase |-> claim[w].phase]
BY DEF TypeOK, Claims

\* A claim survives a step that leaves it and its key's row alone.
LEMMA ClaimFrame ==
  ASSUME TypeOK, NEW v \in Workers, ClaimOK(v), claim'[v] = claim[v],
         claim[v] # NoClaim => LET k == claim[v].key IN
           /\ attempt'[k] = attempt[k] /\ permitted'[k] = permitted[k]
           /\ outcome'[k] = outcome[k] /\ unbilled'[k] >= unbilled[k],
         unbilled' \in [Keys -> Nat]
  PROVE  ClaimOK(v)'
<1>1. CASE claim[v] = NoClaim
  BY <1>1 DEF ClaimOK
<1>2. CASE claim[v] # NoClaim
  BY <1>2, ClaimFields DEF ClaimOK, TypeOK
<1>3. QED
  BY <1>1, <1>2

-----------------------------------------------------------------------------
(* One lemma per kind of step that changes a claim. *)

\* A reservation opens the key's only call.
LEMMA ReserveStep ==
  ASSUME IndInv, NEW w \in Workers, NEW k \in Keys, Reserve(w, k)
  PROVE  IndInv'
<1> DEFINE c == [key |-> k, attempt |-> attempt[k] + 1, phase |-> "calling"]
<1>a. attempt[k] + 1 \in 1..MaxAttempt
  BY MaxAttemptAssumption DEF IndInv, TypeOK, Reserve, Reservable
<1>b. c \in Claims
  BY <1>a DEF Claims, Phases
<1>1. /\ claim' = [claim EXCEPT ![w] = c] /\ c # NoClaim /\ c \in Claims
      /\ claim[w] = NoClaim /\ attempt[k] + 1 \in 1..MaxAttempt
  BY <1>a, <1>b, NoClaimAssumption DEF Reserve
<1>2. TypeOK'
  BY <1>1 DEF IndInv, TypeOK, Reserve, Outcomes, Failures, history
<1>3. \A v \in Workers : claim[v] # NoClaim => claim[v].key # k
  \* A claim on k would make attempt[k] positive and unpermitted.
  BY DEF IndInv, ClaimInv, ClaimOK, Reserve, Reservable, TypeOK, Claims
<1>4. ClaimInv'
  <2>1. ClaimOK(w)'
    BY <1>1 DEF IndInv, ClaimOK, Reserve, TypeOK
  <2>2. ASSUME NEW v \in Workers, v # w PROVE ClaimOK(v)'
    <3>1. TypeOK /\ ClaimOK(v) /\ claim'[v] = claim[v] /\ unbilled' \in [Keys -> Nat]
      BY <1>1, <1>2, <2>2 DEF IndInv, ClaimInv, TypeOK
    <3>2. ASSUME claim[v] # NoClaim
          PROVE  LET j == claim[v].key IN
                   /\ attempt'[j] = attempt[j] /\ permitted'[j] = permitted[j]
                   /\ outcome'[j] = outcome[j] /\ unbilled'[j] >= unbilled[j]
      <4>1. claim[v].key \in Keys /\ claim[v].key # k
        BY <1>3, <3>1, <3>2, ClaimFields
      <4>2. unbilled' = unbilled
        BY DEF Reserve, history
      <4>3. \A j \in Keys : unbilled[j] \in Nat
        BY <3>1 DEF TypeOK
      <4>4. QED
        BY <3>1, <4>1, <4>2, <4>3 DEF Reserve, TypeOK
    <3>3. QED
      BY <3>1, <3>2, ClaimFrame
  <2>3. QED
    BY <2>1, <2>2 DEF ClaimInv
<1>5. ClaimUnique'
  BY <1>1, <1>3 DEF IndInv, ClaimUnique, TypeOK
<1>6. Accounting'
  <2>. c.key = k /\ c.phase = "calling" /\ TypeOK
    BY DEF IndInv
  <2>. HIDE DEF c
  <2>1. Live(k)' = 1
    BY <1>1, LiveOn
  <2>2. Live(k) = 0
    BY <1>3 DEF Live, Holds
  <2>3. ASSUME NEW j \in Keys, j # k PROVE Live(j)' = Live(j)
    <3>1. ~Holds(w, j, "calling") /\ ~(c # NoClaim /\ c.key = j /\ c.phase = "calling")
      BY <1>1, <2>3 DEF Holds
    <3>2. QED
      BY <1>1, <3>1, LiveFrame
  <2>4. QED
    BY <2>1, <2>2, <2>3 DEF IndInv, Accounting, Reserve, TypeOK, history
<1>7. Budget'
  BY DEF IndInv, Budget, Reserve, Reservable, TypeOK, history
<1>8. AutomaticOnce'
  <2>1. ASSUME NEW j \in Keys, automatic[j] = 1 PROVE attempt[j] > 0
    BY <2>1 DEF IndInv, AutomaticOnce, Accounting, TypeOK, Live
  <2>2. QED
    BY <2>1 DEF IndInv, AutomaticOnce, Reserve, Reservable, TypeOK, history
<1>9. QED
  BY <1>2, <1>4, <1>5, <1>6, <1>7, <1>8 DEF IndInv

\* The accounting when the call on k ends and is counted once.
LEMMA CallEnds ==
  ASSUME IndInv, NEW w \in Workers, NEW k \in Keys, NEW c,
         Holds(w, k, "calling"), claim' = [claim EXCEPT ![w] = c],
         ~(c # NoClaim /\ c.phase = "calling"),
         attempt' = attempt,
         \/ /\ billed' = [billed EXCEPT ![k] = @ + 1]
            /\ unbilled' = unbilled
         \/ /\ unbilled' = [unbilled EXCEPT ![k] = @ + 1]
            /\ billed' = billed
  PROVE  Accounting'
<1>. TypeOK /\ ClaimUnique /\ Accounting
  BY DEF IndInv
<1>1. Live(k) = 1 /\ Live(k)' = 0
  BY LiveOff
<1>2. ASSUME NEW j \in Keys, j # k PROVE Live(j)' = Live(j)
  <2>1. ~Holds(w, j, "calling")
    BY <1>2 DEF Holds
  <2>2. QED
    BY <2>1, LiveFrame
<1>3. QED
  BY <1>1, <1>2 DEF Accounting, TypeOK

\* A call that ends and is closed in the same step (Succeed and Abort).
LEMMA CloseStep ==
  ASSUME IndInv, NEW w \in Workers, NEW k \in Keys,
         NEW result \in Outcomes, NEW code \in Failures,
         Holds(w, k, "calling"), Bill(k), Complete(w, result, code), Release(w),
         UNCHANGED <<unbilled, automatic, operator>>
  PROVE  IndInv'
<1>1. TypeOK'
  BY DEF IndInv, TypeOK, Bill, Complete, Release, Holds
<1>2. claim' = [claim EXCEPT ![w] = NoClaim] /\ claim[w] # NoClaim /\ claim[w].key = k
  BY DEF Release, Holds
<1>3. ASSUME NEW v \in Workers, claim'[v] # NoClaim
      PROVE  v # w /\ claim'[v] = claim[v] /\ claim[v].key # k
  BY <1>2, <1>3 DEF IndInv, TypeOK, ClaimUnique
<1>4. ClaimInv'
  <2>1. ASSUME NEW v \in Workers, claim'[v] # NoClaim PROVE ClaimOK(v)'
    BY <1>1, <1>2, <1>3, <2>1, ClaimFrame, ClaimFields
       DEF IndInv, ClaimInv, Complete, TypeOK
  <2>2. QED
    BY <2>1 DEF ClaimInv, ClaimOK
<1>5. ClaimUnique'
  BY <1>3 DEF IndInv, ClaimUnique
<1>6. Accounting'
  BY <1>2, CallEnds DEF Complete, Bill
<1>7. Budget' /\ AutomaticOnce'
  BY DEF IndInv, Budget, AutomaticOnce, Complete, TypeOK
<1>8. QED
  BY <1>1, <1>4, <1>5, <1>6, <1>7 DEF IndInv

\* A failed call that is parked before it is closed (FailBilled, FailUnbilled).
LEMMA ParkStep ==
  ASSUME IndInv, NEW w \in Workers, NEW k \in Keys,
         Holds(w, k, "calling"), Move(w, "failing"),
         \/ Bill(k) /\ unbilled' = unbilled
         \/ unbilled' = [unbilled EXCEPT ![k] = @ + 1] /\ billed' = billed,
         UNCHANGED <<store, automatic, operator>>
  PROVE  IndInv'
<1> DEFINE c == [claim[w] EXCEPT !.phase = "failing"]
<1>1. /\ claim' = [claim EXCEPT ![w] = c] /\ claim[w] # NoClaim /\ claim[w].key = k
      /\ c \in Claims /\ c # NoClaim /\ c.key = k
      /\ c.attempt = claim[w].attempt /\ c.phase = "failing"
  BY ClaimFields, NoClaimAssumption DEF IndInv, Move, Holds, Claims, Phases, TypeOK
<1>. HIDE DEF c
<1>2. TypeOK'
  BY <1>1 DEF IndInv, TypeOK, store, Bill
<1>3. ClaimInv'
  <2>1. ClaimOK(w)'
    BY <1>1 DEF IndInv, ClaimInv, ClaimOK, store, Holds, TypeOK
  <2>2. ASSUME NEW v \in Workers, v # w PROVE ClaimOK(v)'
    BY <1>1, <1>2, <2>2, ClaimFrame, ClaimFields
       DEF IndInv, ClaimInv, store, TypeOK, Bill
  <2>3. QED
    BY <2>1, <2>2 DEF ClaimInv
<1>4. ClaimUnique'
  BY <1>1 DEF IndInv, TypeOK, ClaimUnique
<1>5. Accounting'
  BY <1>1, CallEnds DEF store, Bill
<1>6. Budget' /\ AutomaticOnce'
  BY DEF IndInv, Budget, AutomaticOnce, store, TypeOK
<1>7. QED
  BY <1>2, <1>3, <1>4, <1>5, <1>6 DEF IndInv

\* An unbilled refusal of the first attempt is closed and awaits its grant.
LEMMA RefuseFirstStep ==
  ASSUME IndInv, NEW w \in Workers, RefuseFirst(w)
  PROVE  IndInv'
<1> DEFINE c == [claim[w] EXCEPT !.phase = "granting"]
<1>1. PICK k \in Keys : /\ Holds(w, k, "calling")
                        /\ unbilled' = [unbilled EXCEPT ![k] = @ + 1]
  BY DEF RefuseFirst
<1>2. /\ claim' = [claim EXCEPT ![w] = c] /\ claim[w] # NoClaim /\ claim[w].key = k
      /\ c \in Claims /\ c # NoClaim /\ c.key = k
      /\ c.attempt = claim[w].attempt /\ c.attempt = 1 /\ c.phase = "granting"
  BY <1>1, ClaimFields, NoClaimAssumption
     DEF IndInv, RefuseFirst, Move, Holds, Claims, Phases, TypeOK
<1>. HIDE DEF c
<1>3. Completable(k, claim[w].attempt)
  BY <1>1, <1>2 DEF IndInv, ClaimInv, ClaimOK, Holds, Completable
<1>4. TypeOK'
  BY <1>1, <1>2 DEF IndInv, TypeOK, RefuseFirst, Complete, Outcomes, Failures
<1>5. \A v \in Workers : v # w /\ claim[v] # NoClaim => claim[v].key # k
  BY <1>2 DEF IndInv, ClaimUnique
<1>6. ClaimInv'
  <2>1. ClaimOK(w)'
    BY <1>1, <1>2, <1>3
       DEF IndInv, ClaimInv, ClaimOK, RefuseFirst, Complete, Completable, TypeOK
  <2>2. ASSUME NEW v \in Workers, v # w PROVE ClaimOK(v)'
    BY <1>1, <1>2, <1>4, <1>5, <2>2, ClaimFrame, ClaimFields
       DEF IndInv, ClaimInv, RefuseFirst, Complete, TypeOK
  <2>3. QED
    BY <2>1, <2>2 DEF ClaimInv
<1>7. ClaimUnique'
  BY <1>2 DEF IndInv, TypeOK, ClaimUnique
<1>8. Accounting'
  BY <1>1, <1>2, CallEnds DEF RefuseFirst, Complete
<1>9. Budget' /\ AutomaticOnce'
  BY <1>1 DEF IndInv, Budget, AutomaticOnce, RefuseFirst, Complete, TypeOK
<1>10. QED
  BY <1>4, <1>6, <1>7, <1>8, <1>9 DEF IndInv

\* The automatic grant of an unbilled first refusal, the key's only one.
LEMMA GrantAutomaticStep ==
  ASSUME IndInv, NEW w \in Workers, GrantAutomatic(w)
  PROVE  IndInv'
<1>1. PICK k \in Keys :
        /\ Holds(w, k, "granting")
        /\ IF Grantable(k, claim[w].attempt, "failed")
             THEN /\ permitted' = [permitted EXCEPT ![k] = TRUE]
                  /\ automatic' = [automatic EXCEPT ![k] = @ + 1]
             ELSE UNCHANGED <<permitted, automatic>>
  BY DEF GrantAutomatic
<1>2. /\ claim' = [claim EXCEPT ![w] = NoClaim]
      /\ claim[w] # NoClaim /\ claim[w].key = k
  BY <1>1 DEF GrantAutomatic, Release, Holds
<1>3. TypeOK'
  <2>1. permitted' \in [Keys -> BOOLEAN] /\ automatic' \in [Keys -> Nat]
    <3>1. CASE Grantable(k, claim[w].attempt, "failed")
      <4>1. /\ permitted' = [permitted EXCEPT ![k] = TRUE]
            /\ automatic' = [automatic EXCEPT ![k] = @ + 1]
        BY <1>1, <3>1
      <4>2. permitted \in [Keys -> BOOLEAN] /\ automatic \in [Keys -> Nat]
        BY DEF IndInv, TypeOK
      <4>3. QED
        BY <4>1, <4>2
    <3>2. CASE ~Grantable(k, claim[w].attempt, "failed")
      BY <1>1, <3>2 DEF IndInv, TypeOK
    <3>3. QED
      BY <3>1, <3>2
  <2>2. claim' \in [Workers -> Claims \cup {NoClaim}]
    BY <1>2 DEF IndInv, TypeOK
  <2>3. QED
    BY <2>1, <2>2 DEF IndInv, TypeOK, GrantAutomatic
<1>4. ASSUME NEW v \in Workers, claim'[v] # NoClaim
      PROVE  v # w /\ claim'[v] = claim[v] /\ claim[v].key # k
  BY <1>2, <1>4 DEF IndInv, TypeOK, ClaimUnique
<1>5. ClaimInv'
  <2>1. ASSUME NEW v \in Workers, claim'[v] # NoClaim PROVE ClaimOK(v)'
    BY <1>1, <1>3, <1>4, <2>1, ClaimFrame, ClaimFields
       DEF IndInv, ClaimInv, GrantAutomatic, TypeOK
  <2>2. QED
    BY <2>1 DEF ClaimInv, ClaimOK
<1>6. ClaimUnique'
  BY <1>4 DEF IndInv, ClaimUnique
<1>7. Accounting'
  <2>1. ASSUME NEW j \in Keys PROVE Live(j)' = Live(j)
    BY <1>1, <1>2, LiveFrame DEF IndInv, Holds
  <2>2. QED
    BY <2>1 DEF IndInv, Accounting, GrantAutomatic
<1>8. Budget'
  BY <1>1 DEF IndInv, Budget, GrantAutomatic, Grantable, TypeOK
<1>9. AutomaticOnce'
  \* Had the key been granted before, its first attempt would not be latest.
  BY <1>1, <1>2 DEF IndInv, AutomaticOnce, ClaimInv, ClaimOK, GrantAutomatic,
                   Grantable, Holds, TypeOK
<1>10. QED
  BY <1>3, <1>5, <1>6, <1>7, <1>8, <1>9 DEF IndInv

\* Closing an attempt whose revision is parked.
LEMMA CloseFailedStep ==
  ASSUME IndInv, NEW w \in Workers, CloseFailed(w)
  PROVE  IndInv'
<1>1. PICK k \in Keys : Holds(w, k, "failing")
  BY DEF CloseFailed
<1>2. /\ claim' = [claim EXCEPT ![w] = NoClaim]
      /\ claim[w] # NoClaim /\ claim[w].key = k
  BY <1>1 DEF CloseFailed, Release, Holds
<1>3. TypeOK'
  BY <1>2 DEF IndInv, TypeOK, CloseFailed, Complete, Outcomes, Failures, history
<1>4. ASSUME NEW v \in Workers, claim'[v] # NoClaim
      PROVE  v # w /\ claim'[v] = claim[v] /\ claim[v].key # k
  BY <1>2, <1>4 DEF IndInv, TypeOK, ClaimUnique
<1>5. ClaimInv'
  <2>1. ASSUME NEW v \in Workers, claim'[v] # NoClaim PROVE ClaimOK(v)'
    <3>1. /\ TypeOK /\ ClaimOK(v) /\ claim[v].key \in Keys /\ claim[v].key # k
          /\ claim'[v] = claim[v]
      BY <1>4, <2>1, ClaimFields DEF IndInv, ClaimInv
    <3>2. unbilled' = unbilled /\ attempt' = attempt /\ permitted' = permitted
      BY DEF CloseFailed, Complete, history
    <3>3. outcome'[claim[v].key] = outcome[claim[v].key]
      BY <1>2, <3>1 DEF CloseFailed, Complete, TypeOK
    <3>4. QED
      BY <1>3, <3>1, <3>2, <3>3, ClaimFrame DEF TypeOK
  <2>2. QED
    BY <2>1 DEF ClaimInv, ClaimOK
<1>6. ClaimUnique'
  BY <1>4 DEF IndInv, ClaimUnique
<1>7. Accounting'
  <2>1. ASSUME NEW j \in Keys PROVE Live(j)' = Live(j)
    BY <1>1, <1>2, LiveFrame DEF IndInv, Holds
  <2>2. QED
    BY <2>1 DEF IndInv, Accounting, CloseFailed, Complete, history
<1>8. Budget' /\ AutomaticOnce'
  BY DEF IndInv, Budget, AutomaticOnce, CloseFailed, Complete, history
<1>9. QED
  BY <1>3, <1>5, <1>6, <1>7, <1>8 DEF IndInv

\* A crash drops the claim and leaves the row for the next poll.
LEMMA CrashStep ==
  ASSUME IndInv, NEW w \in Workers, Crash(w)
  PROVE  IndInv'
<1>1. PICK k \in Keys : claim[w] # NoClaim /\ claim[w].key = k
  BY ClaimFields DEF IndInv, Crash
<1>2. claim' = [claim EXCEPT ![w] = NoClaim]
  BY DEF Crash, Release
<1>3. TypeOK'
  BY <1>1, <1>2 DEF IndInv, TypeOK, Crash, Bill, store
<1>4. ASSUME NEW v \in Workers, claim'[v] # NoClaim
      PROVE  v # w /\ claim'[v] = claim[v]
  BY <1>2, <1>4 DEF IndInv, TypeOK
<1>5. ClaimInv'
  BY <1>3, <1>4, ClaimFrame, ClaimFields
     DEF IndInv, ClaimInv, ClaimOK, Crash, store, TypeOK
<1>6. ClaimUnique'
  BY <1>4 DEF IndInv, ClaimUnique
<1>7. Accounting'
  <2>1. CASE claim[w].phase = "calling"
    BY <1>1, <1>2, <2>1, CallEnds DEF Crash, Bill, store, Holds
  <2>2. CASE claim[w].phase # "calling"
    <3>1. ASSUME NEW j \in Keys PROVE Live(j)' = Live(j)
      BY <1>1, <1>2, <2>2, LiveFrame DEF IndInv, Holds
    <3>2. QED
      BY <2>2, <3>1 DEF IndInv, Accounting, Crash, store
  <2>3. QED
    BY <2>1, <2>2
<1>8. Budget' /\ AutomaticOnce'
  BY DEF IndInv, Budget, AutomaticOnce, Crash, store
<1>9. QED
  BY <1>3, <1>5, <1>6, <1>7, <1>8 DEF IndInv

\* An operator's grant raises the budget by the one permission it gives.
LEMMA GrantOperatorStep ==
  ASSUME IndInv, NEW k \in Keys, GrantOperator(k)
  PROVE  IndInv'
<1>1. TypeOK'
  BY DEF IndInv, TypeOK, GrantOperator
<1>2. \A v \in Workers : claim'[v] = NoClaim
  BY DEF GrantOperator
<1>3. ClaimInv' /\ ClaimUnique'
  BY <1>2 DEF ClaimInv, ClaimOK, ClaimUnique
<1>4. Accounting'
  BY DEF IndInv, Accounting, GrantOperator, Live, Holds
<1>5. Budget' /\ AutomaticOnce'
  BY DEF IndInv, Budget, AutomaticOnce, GrantOperator, Grantable, TypeOK
<1>6. QED
  BY <1>1, <1>3, <1>4, <1>5 DEF IndInv

-----------------------------------------------------------------------------
(* The invariant is inductive, and implies what the runs check. *)

\* A state with no attempts, no claims and no permissions.
LEMMA IndInvInit == Init => IndInv
<1>. SUFFICES ASSUME Init PROVE IndInv
  OBVIOUS
<1>1. TypeOK
  BY MaxAttemptAssumption DEF Init, TypeOK, Outcomes, Failures
<1>2. ClaimInv /\ ClaimUnique
  BY DEF Init, ClaimInv, ClaimOK, ClaimUnique
<1>3. Accounting
  <2>1. \A k \in Keys : Live(k) = 0
    BY DEF Init, Live, Holds
  <2>2. ASSUME NEW k \in Keys PROVE attempt[k] = billed[k] + unbilled[k] + Live(k)
    <3>1. attempt[k] = 0 /\ billed[k] = 0 /\ unbilled[k] = 0 /\ Live(k) = 0
      BY <2>1 DEF Init
    <3>2. QED
      BY <3>1
  <2>3. QED
    BY <2>2 DEF Accounting
<1>4. Budget /\ AutomaticOnce
  BY DEF Init, Budget, AutomaticOnce
<1>5. QED
  BY <1>1, <1>2, <1>3, <1>4 DEF IndInv

\* Every action of the ledger's protocol keeps the invariant.
LEMMA IndInvNext == IndInv /\ [Next]_vars => IndInv'
<1>. SUFFICES ASSUME IndInv, [Next]_vars PROVE IndInv'
  OBVIOUS
<1>1. ASSUME NEW w \in Workers, NEW k \in Keys, Reserve(w, k) PROVE IndInv'
  BY <1>1, ReserveStep
<1>2. ASSUME NEW w \in Workers, Succeed(w) PROVE IndInv'
  BY <1>2, CloseStep DEF Succeed, Outcomes, Failures
<1>3. ASSUME NEW w \in Workers, Abort(w) PROVE IndInv'
  BY <1>3, CloseStep DEF Abort, Outcomes, Failures
<1>4. ASSUME NEW w \in Workers, RefuseFirst(w) PROVE IndInv'
  BY <1>4, RefuseFirstStep
<1>5. ASSUME NEW w \in Workers, GrantAutomatic(w) PROVE IndInv'
  BY <1>5, GrantAutomaticStep
<1>6. ASSUME NEW w \in Workers, FailBilled(w) PROVE IndInv'
  BY <1>6, ParkStep DEF FailBilled
<1>7. ASSUME NEW w \in Workers, FailUnbilled(w) PROVE IndInv'
  BY <1>7, ParkStep DEF FailUnbilled
<1>8. ASSUME NEW w \in Workers, CloseFailed(w) PROVE IndInv'
  BY <1>8, CloseFailedStep
<1>9. ASSUME NEW w \in Workers, Crash(w) PROVE IndInv'
  BY <1>9, CrashStep
<1>10. ASSUME NEW k \in Keys, LeaseExpires(k) PROVE IndInv'
  <2>1. TypeOK'
    BY <1>10 DEF IndInv, TypeOK, LeaseExpires, history
  <2>2. QED
    BY <1>10, <2>1 DEF IndInv, ClaimInv, ClaimOK, ClaimUnique, Accounting,
                       Budget, AutomaticOnce, Live, Holds, LeaseExpires, history
<1>11. ASSUME NEW k \in Keys, GrantOperator(k) PROVE IndInv'
  BY <1>11, GrantOperatorStep
<1>12. CASE UNCHANGED vars
  BY <1>12 DEF vars, IndInv, TypeOK, ClaimInv, ClaimOK, ClaimUnique, Accounting,
               Budget, AutomaticOnce, Live, Holds
<1>13. QED
  BY <1>1, <1>2, <1>3, <1>4, <1>5, <1>6, <1>7, <1>8, <1>9, <1>10, <1>11, <1>12
     DEF Next

\* The inductive invariant holds in every behaviour.
LEMMA IndInvAlways == Spec => []IndInv
BY IndInvInit, IndInvNext, PTL DEF Spec

\* The ledger's rows and the workers' claims keep their types.
THEOREM LedgerTypes == Spec => []TypeOK
<1>1. IndInv => TypeOK
  BY DEF IndInv
<1>2. QED
  BY <1>1, IndInvAlways, PTL

\* For every review input the calls that were or may yet be billed never
\* exceed one plus the permissions an operator granted: a crash, an expired
\* lease, a concurrent pass or the automatic retry never adds a paid call.
THEOREM LedgerSpendBound == Spec => []SpendWithinGrants
<1>1. IndInv => SpendWithinGrants
  <2>. SUFFICES ASSUME IndInv, NEW k \in Keys
                PROVE  billed[k] + Live(k) <= 1 + operator[k]
    BY DEF SpendWithinGrants
  <2>1. /\ billed[k] \in Nat /\ unbilled[k] \in Nat /\ automatic[k] \in Nat
        /\ operator[k] \in Nat /\ attempt[k] \in Nat /\ Live(k) \in Nat
    BY DEF IndInv, TypeOK, Live
  <2>2. attempt[k] = billed[k] + unbilled[k] + Live(k)
    BY DEF IndInv, Accounting
  <2>3. attempt[k] <= 1 + automatic[k] + operator[k]
    BY <2>1 DEF IndInv, Budget, TypeOK
  <2>4. automatic[k] <= unbilled[k]
    BY <2>1 DEF IndInv, AutomaticOnce
  <2>5. QED
    BY <2>1, <2>2, <2>3, <2>4
<1>2. QED
  BY <1>1, IndInvAlways, PTL

\* No two passes, in one process or in several, pay for one review input at
\* the same time.
THEOREM LedgerOneCall == Spec => []OneCallPerKey
<1>1. IndInv => OneCallPerKey
  BY DEF IndInv, ClaimUnique, OneCallPerKey, Holds
<1>2. QED
  BY <1>1, IndInvAlways, PTL

\* The completion of a call that was paid for is never refused by the store.
THEOREM LedgerClaimLatest == Spec => []ClaimStaysLatest
<1>1. IndInv => ClaimStaysLatest
  BY DEF IndInv, ClaimInv, ClaimOK, ClaimStaysLatest, Completable
<1>2. QED
  BY <1>1, IndInvAlways, PTL
=============================================================================
