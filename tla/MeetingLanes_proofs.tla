-------------------------- MODULE MeetingLanes_proofs --------------------------
(***************************************************************************)
(* For any number of sources and lanes: the lanes are never overfilled,    *)
(* a pass starts alone and before shutdown, no import waits like an idle   *)
(* source, no lane stays empty while a source is due, and the turn of one  *)
(* that is due comes nearer with every start.  The top-up counts its       *)
(* starts by a source's place in the round; places differ, so the sources  *)
(* before the last one started are at least all the others that were.      *)
(***************************************************************************)
EXTENDS MeetingLanes, FiniteSetTheorems, NaturalsInduction, WellFoundedInduction, TLAPS

PassPhases == {"none", "pull", "import", "watched", "empty", "retry"}

\* The sources that a lane runs.
LanesUsed == {s \in InFlight : ~Targeted(s)}

-----------------------------------------------------------------------------
(* The round. *)

LEMMA Small == ASSUME NEW n \in Nat \ {0}, NEW x \in 0..(n - 1) PROVE x % n = x
OBVIOUS

LEMMA Wrapped == ASSUME NEW n \in Nat \ {0}, NEW x \in n..(2 * n - 1) PROVE x % n = x - n
OBVIOUS

\* The place of s in the round that begins after a.
LEMMA PlaceAfter ==
  ASSUME NEW s \in Sources, NEW a \in 0..NumSources
  PROVE  LET place == (s + NumSources - a - 1) % NumSources
         IN  /\ place \in 0..(NumSources - 1)
             /\ place = s + NumSources - a - 1 \/ place = s - a - 1
<1> DEFINE x == s + NumSources - a - 1
<1>1. NumSources \in Nat \ {0} /\ s \in 1..NumSources
  BY LanesAssumption DEF Sources
<1>2. x \in 0..(NumSources - 1) \/ x \in NumSources..(2 * NumSources - 1)
  BY <1>1
<1>3. x - NumSources = s - a - 1
  BY <1>1
<1> HIDE DEF x
<1>4. CASE x \in 0..(NumSources - 1)
  <2>1. x % NumSources = x
    BY <1>1, <1>4, Small
  <2> QED
    BY <1>4, <2>1 DEF x
<1>5. CASE x \in NumSources..(2 * NumSources - 1)
  <2>1. x % NumSources = x - NumSources
    BY <1>1, <1>5, Wrapped
  <2>2. x - NumSources \in 0..(NumSources - 1)
    BY <1>1, <1>5
  <2>3. x % NumSources \in 0..(NumSources - 1) /\ x % NumSources = s - a - 1
    BY <1>3, <2>1, <2>2
  <2> QED
    BY <2>3 DEF x
<1> QED
  BY <1>2, <1>4, <1>5

LEMMA PlaceValue ==
  ASSUME NEW s \in Sources, after \in 0..NumSources
  PROVE  /\ Place(s) \in 0..(NumSources - 1)
         /\ Place(s) = s + NumSources - after - 1 \/ Place(s) = s - after - 1
BY PlaceAfter DEF Place

LEMMA PlacesDiffer ==
  ASSUME NEW s \in Sources, NEW t \in Sources, after \in 0..NumSources, Place(s) = Place(t)
  PROVE  s = t
<1>1. NumSources \in Nat \ {0} /\ s \in 1..NumSources /\ t \in 1..NumSources
  BY LanesAssumption DEF Sources
<1>2. /\ Place(s) = s + NumSources - after - 1 \/ Place(s) = s - after - 1
      /\ Place(t) = t + NumSources - after - 1 \/ Place(t) = t - after - 1
  BY PlaceValue
<1> QED
  BY <1>1, <1>2

LEMMA LeastNatural ==
  ASSUME NEW T, T \subseteq Nat, T # {}
  PROVE  \E x \in T : \A y \in T : x <= y
<1>1. PICK x \in T : \A y \in T : ~(<<y, x>> \in OpToRel(<, Nat))
  BY NatLessThanWellFounded, WFMin
<1>2. SUFFICES ASSUME NEW y \in T PROVE x <= y
  OBVIOUS
<1>3. x \in Nat /\ y \in Nat
  OBVIOUS
<1>4. y < x => <<y, x>> \in OpToRel(<, Nat)
  BY <1>3, Zenon DEF OpToRel
<1>5. ~(y < x)
  BY <1>1, <1>4, Zenon
<1> QED
  BY <1>3, <1>5

\* One of them is last in the round.
LEMMA HasLast ==
  ASSUME NEW S, S \subseteq Sources, S # {}, after \in 0..NumSources
  PROVE  \E s \in S : \A t \in S : Place(t) <= Place(s)
<1> DEFINE left == {NumSources - Place(s) : s \in S}
<1>1. \A s \in S : Place(s) \in 0..(NumSources - 1)
  BY PlaceValue
<1>2. NumSources \in Nat \ {0}
  BY LanesAssumption
<1>3. left \subseteq Nat /\ left # {}
  BY <1>1, <1>2
<1>4. PICK x \in left : \A y \in left : x <= y
  BY <1>3, LeastNatural
<1>5. PICK s \in S : x = NumSources - Place(s)
  BY <1>4
<1>6. \A t \in S : NumSources - Place(s) <= NumSources - Place(t)
  BY <1>4, <1>5
<1> QED
  BY <1>1, <1>2, <1>6

LEMMA StartedAreDue == Started \subseteq Due /\ Due \subseteq Sources \ InFlight
BY DEF Started, Due

LEMMA FiniteSources ==
  /\ IsFiniteSet(Sources)
  /\ \A S : S \subseteq Sources => IsFiniteSet(S) /\ Cardinality(S) \in Nat
<1>1. IsFiniteSet(Sources)
  BY LanesAssumption, FS_Interval DEF Sources
<1> QED
  BY <1>1, FS_Subset, FS_CardinalityType

\* A top-up that starts anything leaves no more than `lanes` in flight.
LEMMA StartedFit ==
  ASSUME after \in 0..NumSources, Started # {}
  PROVE  Cardinality(InFlight \cup Started) <= Lanes
<1>1. Started \subseteq Due /\ Due \subseteq Sources /\ InFlight \subseteq Sources /\ InFlight \cap Started = {}
  BY StartedAreDue DEF InFlight
<1>2. PICK s \in Started : \A t \in Started : Place(t) <= Place(s)
  BY <1>1, HasLast
<1> DEFINE before == {t \in Due : Place(t) < Place(s)}
<1>3. Cardinality(before) + Cardinality(InFlight) < Lanes
  BY <1>2 DEF Started
<1>4. Started \ {s} \subseteq before
  <2> SUFFICES ASSUME NEW t \in Started, t # s PROVE Place(t) < Place(s)
    BY <1>1
  <2>1. Place(t) <= Place(s) /\ Place(t) # Place(s)
    BY <1>1, <1>2, PlacesDiffer
  <2>2. Place(t) \in Int /\ Place(s) \in Int
    BY <1>1, PlaceValue
  <2> QED
    BY <2>1, <2>2
<1>5. before \subseteq Sources
  BY <1>1
<1> HIDE DEF before
<1>6. /\ IsFiniteSet(Started) /\ IsFiniteSet(before) /\ IsFiniteSet(InFlight)
      /\ Cardinality(Started) \in Nat /\ Cardinality(before) \in Nat /\ Cardinality(InFlight) \in Nat
  BY <1>1, <1>5, FiniteSources
<1>7. Cardinality(Started \ {s}) <= Cardinality(before)
  BY <1>4, <1>6, FS_Subset
<1>8. Cardinality(Started \ {s}) = Cardinality(Started) - 1
  BY <1>2, <1>6, FS_RemoveElement
<1>9. Cardinality(InFlight \cup Started) = Cardinality(InFlight) + Cardinality(Started) - Cardinality({})
  BY <1>1, <1>6, FS_Union
<1>10. Cardinality({}) = 0 /\ Lanes \in Nat
  BY FS_EmptySet, LanesAssumption
<1> QED
  BY <1>3, <1>6, <1>7, <1>8, <1>9, <1>10

-----------------------------------------------------------------------------
(* Types.                                                                    *)

LEMMA TypedStart == Init => TypeOK
<1> SUFFICES ASSUME Init PROVE TypeOK
  OBVIOUS
<1>1. 0 \in 0..MaxImports /\ 0 \in 0..NumSources
  BY LanesAssumption
<1> QED
  BY <1>1 DEF Init, TypeOK, NoTarget

LEMMA EntersTyped ==
  ASSUME NEW S, Enters(S), TypeOK
  PROVE  pass' \in [Sources -> PassPhases] /\ retried' \in [Sources -> BOOLEAN]
BY DEF Enters, TypeOK, PassPhases, RetryReady

LEMMA TopUpTyped == TypeOK /\ TopUp /\ refill' \in BOOLEAN /\ UNCHANGED aborted => TypeOK'
<1> SUFFICES ASSUME TypeOK, TopUp, refill' \in BOOLEAN, UNCHANGED aborted PROVE TypeOK'
  OBVIOUS
<1>1. after' \in 0..NumSources
  <2>1. CASE Started = {}
    BY <2>1 DEF TopUp, LastStarted, TypeOK
  <2>2. CASE Started # {}
    <3>1. Started \subseteq Sources /\ after \in 0..NumSources
      BY StartedAreDue DEF TypeOK
    <3>2. \E s \in Started : \A t \in Started : Place(t) <= Place(s)
      BY <2>2, <3>1, HasLast
    <3>3. LastStarted \in Started
      BY <2>2, <3>2 DEF LastStarted
    <3>4. Sources \subseteq 0..NumSources
      BY LanesAssumption DEF Sources
    <3> QED
      BY <3>1, <3>3, <3>4 DEF TopUp
  <2> QED
    BY <2>1, <2>2
<1> QED
  BY <1>1, EntersTyped DEF TopUp, TypeOK, PassPhases

LEMMA SettlesTyped ==
  ASSUME TypeOK, NEW s \in Sources, NEW next \in {"due", "soon", "later"}, Settles(s, next),
         imports' \in [Sources -> 0..MaxImports], granted' \in [Sources -> BOOLEAN], paused' \in BOOLEAN,
         UNCHANGED aborted
  PROVE  TypeOK'
<1>1. target' \in [source : 0..NumSources, runs : BOOLEAN]
  <2>1. 0 \in 0..NumSources
    BY LanesAssumption
  <2> QED
    BY <2>1 DEF Settles, NoTarget, TypeOK
<1> QED
  BY <1>1 DEF Settles, TypeOK

LEMMA PassEndsTyped == ASSUME TypeOK, NEW s \in Sources, PassEnds(s), UNCHANGED aborted PROVE TypeOK'
<1>1. WaitAtEnd(s) \in {"soon", "later"} /\ wait[s] \in {"due", "soon", "later"}
  BY DEF WaitAtEnd, TypeOK
<1>2. paused \in BOOLEAN /\ granted \in [Sources -> BOOLEAN] /\ imports \in [Sources -> 0..MaxImports] /\ MaxImports \in Nat
  BY LanesAssumption DEF TypeOK
<1>3. ASSUME NEW trip \in BOOLEAN, TakesMeeting(s, trip) PROVE TypeOK'
  <2>1. imports' \in [Sources -> 0..MaxImports]
    BY <1>2, <1>3 DEF TakesMeeting
  <2> QED
    BY <1>2, <1>3, <2>1, SettlesTyped DEF TakesMeeting, Trips
<1>4. ASSUME NEW trip \in BOOLEAN, StaysPut(s, trip) PROVE TypeOK'
  BY <1>1, <1>2, <1>4, SettlesTyped DEF StaysPut, Trips
<1>5. ASSUME NEW spent \in BOOLEAN, NEW trip \in BOOLEAN, Retries(s, spent, trip) PROVE TypeOK'
  <2>1. granted' \in [Sources -> BOOLEAN]
    BY <1>2, <1>5 DEF Retries
  <2> QED
    BY <1>2, <1>5, <2>1, SettlesTyped DEF Retries, Trips
<1>6. CASE FindsNothing(s)
  BY <1>1, <1>2, <1>6, SettlesTyped DEF FindsNothing
<1>7. CASE Fails(s)
  <2>1. \E next \in {"due", "soon"} : Settles(s, next)
    BY <1>7 DEF Fails
  <2> QED
    BY <1>2, <1>7, <2>1, SettlesTyped DEF Fails
<1>8. CASE Cancelled(s)
  BY <1>1, <1>2, <1>8, SettlesTyped DEF Cancelled
<1> QED
  BY <1>3, <1>4, <1>5, <1>6, <1>7, <1>8 DEF PassEnds

LEMMA LaneStepTyped == TypeOK /\ LaneStep /\ UNCHANGED aborted => TypeOK'
<1> SUFFICES ASSUME TypeOK, LaneStep, UNCHANGED aborted PROVE TypeOK'
  OBVIOUS
<1>1. CASE Refill
  BY <1>1, TopUpTyped DEF Refill
<1>2. CASE TargetStarts
  <2>1. target' \in [source : 0..NumSources, runs : BOOLEAN]
    BY <1>2 DEF TargetStarts, TypeOK
  <2> QED
    BY <1>2, <2>1, EntersTyped DEF TargetStarts, TypeOK, PassPhases
<1>3. CASE TargetRefused
  <2>1. NoTarget \in [source : 0..NumSources, runs : BOOLEAN]
    BY LanesAssumption DEF NoTarget
  <2> QED
    BY <1>3, <2>1 DEF TargetRefused, TypeOK
<1>4. ASSUME NEW s \in Sources, Pull(s) PROVE TypeOK'
  <2>1. PICK found \in {"import", "watched", "empty"} : pass' = [pass EXCEPT ![s] = found]
    BY <1>4 DEF Pull, Pulls
  <2> QED
    BY <1>4, <2>1 DEF Pull, TypeOK
<1>5. ASSUME NEW s \in Sources, PassEnds(s) PROVE TypeOK'
  BY <1>5, PassEndsTyped
<1> QED
  BY <1>1, <1>2, <1>3, <1>4, <1>5 DEF LaneStep

LEMMA DemandTyped == TypeOK /\ Demand /\ UNCHANGED aborted => TypeOK'
<1> SUFFICES ASSUME TypeOK, Demand, UNCHANGED aborted PROVE TypeOK'
  OBVIOUS
<1>1. MaxImports \in Nat /\ Targets \subseteq Sources /\ Sources \subseteq 0..NumSources
  BY LanesAssumption DEF Sources
<1>2. ASSUME NEW s \in Sources, Import(s) \/ CancelImport(s) PROVE TypeOK'
  <2>1. imports' \in [Sources -> 0..MaxImports]
    BY <1>1, <1>2 DEF Import, CancelImport, TypeOK
  <2>2. wait' \in [Sources -> {"due", "soon", "later"}]
    BY <1>2 DEF Import, CancelImport, TypeOK
  <2> QED
    BY <1>2, <2>1, <2>2 DEF Import, CancelImport, TypeOK
<1>3. ASSUME NEW s \in Grantable, Grant(s) PROVE TypeOK'
  BY <1>3 DEF Grant, TypeOK
<1>4. ASSUME NEW s \in Targets, TargetRequested(s) PROVE TypeOK'
  BY <1>1, <1>4 DEF TargetRequested, TypeOK
<1> QED
  BY <1>2, <1>3, <1>4 DEF Demand

LEMMA TypedStep == TypeOK /\ [Next]_vars => TypeOK'
<1> SUFFICES ASSUME TypeOK, [Next]_vars PROVE TypeOK'
  OBVIOUS
<1>1. CASE CycleTopUp /\ UNCHANGED aborted
  BY <1>1, TopUpTyped DEF CycleTopUp, TypeOK
<1>2. CASE TimePasses /\ UNCHANGED aborted
  BY <1>2 DEF TimePasses, PauseEnds, WaitEnds, RetryWaitEnds, TypeOK
<1>3. CASE Stop \/ Abort
  BY <1>3 DEF Stop, Abort, lanesVars, TypeOK
<1>4. CASE UNCHANGED vars
  BY <1>4 DEF vars, TypeOK
<1> QED
  BY <1>1, <1>2, <1>3, <1>4, LaneStepTyped, DemandTyped DEF Next

\* Every value stays in its range; the last source started is one of them.
THEOREM LanesTyped == Spec => []TypeOK
<1> QED
  BY TypedStart, TypedStep, PTL DEF Spec
-----------------------------------------------------------------------------
(* The lanes.  A top-up that starts anything leaves its starts and what was  *)
(* in flight within the lanes; every other step can only free one, since the *)
(* targeted pass is not counted while it runs and runs until it settles.     *)

TargetInFlight ==
  /\ target = NoTarget \/ target.source \in Sources
  /\ target.runs => target.source \in Sources /\ pass[target.source] # "none"

LanesInv == TypeOK /\ TargetInFlight /\ Cardinality(LanesUsed) <= Lanes

LEMMA LanesStart == Init => LanesInv
<1> SUFFICES ASSUME Init PROVE LanesInv
  OBVIOUS
<1>1. TargetInFlight
  BY DEF Init, TargetInFlight, NoTarget
<1>2. LanesUsed = {}
  BY DEF Init, LanesUsed, InFlight
<1>3. Cardinality({}) = 0 /\ Lanes \in Nat
  BY FS_EmptySet, LanesAssumption
<1> QED
  BY <1>1, <1>2, <1>3, TypedStart DEF LanesInv

LEMMA SettlesFrees ==
  ASSUME TypeOK, TargetInFlight, NEW s \in Sources, NEW next, Settles(s, next)
  PROVE  TargetInFlight' /\ LanesUsed' \subseteq LanesUsed
<1>1. \A t \in Sources : pass'[t] = IF t = s THEN "none" ELSE pass[t]
  BY DEF Settles, TypeOK
<1>2. InFlight' \subseteq InFlight \ {s}
  BY <1>1 DEF InFlight
<1>3. CASE Targeted(s)
  <2>1. target' = NoTarget /\ \A t \in Sources \ {s} : ~Targeted(t)
    BY <1>3 DEF Settles, Targeted
  <2>2. ~NoTarget.runs
    BY DEF NoTarget
  <2> QED
    BY <1>2, <2>1, <2>2 DEF LanesUsed, TargetInFlight, InFlight
<1>4. CASE ~Targeted(s)
  <2>1. target' = target
    BY <1>4 DEF Settles
  <2>2. target.runs => target.source # s
    BY <1>4 DEF TypeOK, Targeted
  <2>3. TargetInFlight'
    BY <1>1, <2>1, <2>2 DEF TargetInFlight
  <2>4. LanesUsed' \subseteq LanesUsed
    BY <1>2, <2>1 DEF LanesUsed, Targeted
  <2> QED
    BY <2>3, <2>4
<1> QED
  BY <1>3, <1>4

LEMMA PassEndsFrees ==
  ASSUME TypeOK, TargetInFlight, NEW s \in Sources, PassEnds(s)
  PROVE  TargetInFlight' /\ LanesUsed' \subseteq LanesUsed
<1>1. \E next : Settles(s, next)
  BY Zenon DEF PassEnds, TakesMeeting, StaysPut, Retries, FindsNothing, Fails, Cancelled
<1> QED
  BY <1>1, SettlesFrees

LEMMA TopUpFills ==
  ASSUME TypeOK, TargetInFlight, TopUp
  PROVE  /\ TargetInFlight'
         /\ LanesUsed' \subseteq LanesUsed \cup Started
<1>1. /\ target' = target
      /\ \A t \in Sources : pass'[t] # "none" => t \in Started \/ pass'[t] = pass[t]
      /\ \A t \in Sources : pass[t] # "none" => pass'[t] # "none"
  BY DEF TopUp, Enters, TypeOK
<1> QED
  BY <1>1 DEF TargetInFlight, LanesUsed, InFlight, Targeted

LEMMA TargetStartsApart ==
  ASSUME TypeOK, TargetInFlight, TargetStarts
  PROVE  TargetInFlight' /\ LanesUsed' \subseteq LanesUsed
<1>1. /\ target.source \in Sources /\ ~target.runs
      /\ target' = [source |-> target.source, runs |-> TRUE]
  BY DEF TargetStarts, TargetInFlight, TypeOK
<1>2. \A t \in Sources : pass'[t] = IF t = target.source THEN pass'[t] ELSE pass[t]
  BY DEF TargetStarts, Enters, TypeOK
<1>3. pass'[target.source] # "none"
  BY <1>1 DEF TargetStarts, Enters, TypeOK
<1>4. TargetInFlight'
  BY <1>1, <1>3 DEF TargetInFlight
<1>5. \A t \in Sources : ~Targeted(t)
  BY <1>1 DEF Targeted
<1> QED
  BY <1>1, <1>2, <1>4, <1>5 DEF LanesUsed, InFlight, Targeted

LEMMA LaneSteps ==
  ASSUME TypeOK, TargetInFlight, [Next]_vars
  PROVE  /\ TargetInFlight'
         /\ LanesUsed' \subseteq LanesUsed \cup Started
<1>1. CASE CycleTopUp \/ Refill
  BY <1>1, TopUpFills DEF CycleTopUp, Refill
<1>2. CASE TargetStarts
  BY <1>2, TargetStartsApart
<1>3. CASE TargetRefused
  <2>1. ~NoTarget.runs /\ target' = NoTarget /\ pass' = pass
    BY <1>3 DEF TargetRefused, NoTarget
  <2>2. \A t \in Sources : ~Targeted(t)
    BY <1>3 DEF TargetRefused, Targeted
  <2> QED
    BY <2>1, <2>2 DEF TargetInFlight, LanesUsed, InFlight
<1>4. ASSUME NEW s \in Sources, Pull(s) PROVE TargetInFlight' /\ LanesUsed' \subseteq LanesUsed
  <2>1. target' = target /\ \A t \in Sources : pass'[t] # "none" <=> pass[t] # "none"
    BY <1>4 DEF Pull, Pulls, TypeOK
  <2> QED
    BY <2>1 DEF TargetInFlight, LanesUsed, InFlight, Targeted
<1>5. ASSUME NEW s \in Sources, PassEnds(s) PROVE TargetInFlight' /\ LanesUsed' \subseteq LanesUsed
  BY <1>5, PassEndsFrees
<1>6. ASSUME NEW s \in Targets, TargetRequested(s) PROVE TargetInFlight' /\ LanesUsed' \subseteq LanesUsed
  <2>1. s \in Sources /\ target' = [source |-> s, runs |-> FALSE] /\ pass' = pass /\ target = NoTarget
    BY <1>6, LanesAssumption DEF TargetRequested
  <2>2. \A t \in Sources : ~Targeted(t)
    BY <2>1 DEF Targeted, NoTarget
  <2> QED
    BY <2>1, <2>2 DEF TargetInFlight, LanesUsed, InFlight
<1>7. CASE UNCHANGED <<pass, target>>
  BY <1>7 DEF TargetInFlight, LanesUsed, InFlight, Targeted
<1>8. ASSUME NEW s \in Sources, Import(s) \/ CancelImport(s) PROVE UNCHANGED <<pass, target>>
  BY <1>8 DEF Import, CancelImport
<1>9. ASSUME NEW s \in Grantable, Grant(s) PROVE UNCHANGED <<pass, target>>
  BY <1>9 DEF Grant
<1>10. CASE TimePasses
  <2>1. UNCHANGED <<pass, target>>
    BY <1>10 DEF TimePasses, PauseEnds, WaitEnds, RetryWaitEnds
  <2> QED
    BY <1>7, <2>1
<1>11. CASE Stop \/ Abort
  <2>1. UNCHANGED <<pass, target>>
    BY <1>11 DEF Stop, Abort, lanesVars
  <2> QED
    BY <1>7, <2>1
<1>12. CASE UNCHANGED vars
  <2>1. UNCHANGED <<pass, target>>
    BY <1>12 DEF vars
  <2> QED
    BY <1>7, <2>1
<1>13. CASE Demand
  BY <1>6, <1>7, <1>8, <1>9, <1>13 DEF Demand
<1>14. CASE LaneStep
  BY <1>1, <1>2, <1>3, <1>4, <1>5, <1>14 DEF LaneStep
<1> QED
  BY <1>1, <1>10, <1>11, <1>12, <1>13, <1>14 DEF Next

LEMMA LanesStay == LanesInv /\ [Next]_vars => LanesInv'
<1> SUFFICES ASSUME LanesInv, [Next]_vars PROVE LanesInv'
  OBVIOUS
<1>1. TypeOK' /\ TargetInFlight' /\ LanesUsed' \subseteq LanesUsed \cup Started
  BY TypedStep, LaneSteps DEF LanesInv
<1>2. LanesUsed \subseteq InFlight /\ InFlight \subseteq Sources /\ Started \subseteq Sources
  BY StartedAreDue DEF LanesUsed, InFlight
<1>3. Lanes \in Nat
  BY LanesAssumption
<1>4. CASE Started = {}
  <2>1. LanesUsed' \subseteq LanesUsed
    BY <1>1, <1>4
  <2> HIDE DEF LanesUsed
  <2>2. Cardinality(LanesUsed') <= Cardinality(LanesUsed)
    BY <1>2, <2>1, FiniteSources, FS_Subset
  <2>3. Cardinality(LanesUsed) \in Nat /\ Cardinality(LanesUsed') \in Nat
    BY <1>2, <2>1, FiniteSources
  <2> QED
    BY <1>1, <1>3, <2>2, <2>3 DEF LanesInv
<1>5. CASE Started # {}
  <2>1. LanesUsed' \subseteq InFlight \cup Started /\ InFlight \cup Started \subseteq Sources
    BY <1>1, <1>2
  <2>2. Cardinality(InFlight \cup Started) <= Lanes
    BY <1>5, StartedFit DEF LanesInv, TypeOK
  <2>3. Cardinality(LanesUsed') <= Cardinality(InFlight \cup Started)
    BY <2>1, FiniteSources, FS_Subset
  <2>4. Cardinality(LanesUsed') \in Nat /\ Cardinality(InFlight \cup Started) \in Nat
    BY <2>1, FiniteSources
  <2> QED
    BY <1>1, <1>3, <2>2, <2>3, <2>4 DEF LanesInv
<1> QED
  BY <1>4, <1>5

\* topUp never overfills the lanes, for any number of sources and of lanes,
\* and the targeted pass is the one that may run besides.
THEOREM LanesNeverOverfilled == Spec => []LanesBounded
<1>1. LanesInv => LanesBounded
  BY DEF LanesInv, LanesUsed, LanesBounded, TargetInFlight
<1> QED
  BY <1>1, LanesStart, LanesStay, PTL DEF Spec

-----------------------------------------------------------------------------
(* Starts and waits.                                                         *)

LEMMA TopUpStartsAlone ==
  ASSUME TypeOK, TopUp, NEW s \in Sources, pass'[s] # pass[s]
  PROVE  pass[s] = "none" /\ ~stopped
<1>1. s \in Started
  BY DEF TopUp, Enters, TypeOK
<1> QED
  BY <1>1 DEF Started, Due, InFlight

LEMMA StartStep ==
  ASSUME TypeOK, [Next]_vars, NEW s \in Sources, pass'[s] \in {"pull", "retry"}, pass'[s] # pass[s]
  PROVE  pass[s] = "none" /\ ~stopped
<1>1. CASE CycleTopUp \/ Refill
  BY <1>1, TopUpStartsAlone DEF CycleTopUp, Refill
<1>2. CASE TargetStarts
  BY <1>2 DEF TargetStarts, TargetMayStart, Enters, TypeOK
<1>3. ASSUME NEW t \in Sources, Pull(t) PROVE FALSE
  <2>1. PICK found \in {"import", "watched", "empty"} : pass' = [pass EXCEPT ![t] = found]
    BY <1>3 DEF Pull, Pulls
  <2> QED
    BY <2>1 DEF TypeOK
<1>4. ASSUME NEW t \in Sources, PassEnds(t) PROVE FALSE
  <2>1. \E next : Settles(t, next)
    BY <1>4, Zenon DEF PassEnds, TakesMeeting, StaysPut, Retries, FindsNothing, Fails, Cancelled
  <2>2. pass' = [pass EXCEPT ![t] = "none"]
    BY <2>1 DEF Settles
  <2> QED
    BY <2>2 DEF TypeOK
<1>5. CASE TargetRefused
  BY <1>5 DEF TargetRefused
<1>6. CASE Demand
  BY <1>6 DEF Demand, Import, CancelImport, Grant, TargetRequested
<1>7. CASE TimePasses
  BY <1>7 DEF TimePasses, PauseEnds, WaitEnds, RetryWaitEnds
<1>8. CASE Stop \/ Abort \/ UNCHANGED vars
  BY <1>8 DEF Stop, Abort, lanesVars, vars
<1>9. CASE LaneStep
  BY <1>1, <1>2, <1>3, <1>4, <1>5, <1>9 DEF LaneStep
<1> QED
  BY <1>1, <1>6, <1>7, <1>8, <1>9 DEF Next

\* A pass starts only where none runs and before shutdown, whichever of the
\* cycle, a settled lane and the targeted pass starts it.
THEOREM PassesStartAlone == Spec => StartsAlone
<1>1. TypeOK /\ [Next]_vars =>
        [\A s \in Sources :
           pass'[s] \in {"pull", "retry"} /\ pass'[s] # pass[s] => pass[s] = "none" /\ ~stopped]_vars
  BY StartStep
<1> QED
  BY <1>1, LanesTyped, PTL DEF Spec, StartsAlone

LEMMA NotIdleStep == TypeOK /\ NotIdleWithImports /\ [Next]_vars => NotIdleWithImports'
<1> SUFFICES ASSUME TypeOK, NotIdleWithImports, [Next]_vars PROVE NotIdleWithImports'
  OBVIOUS
<1>1. CASE UNCHANGED <<imports, wait>>
  BY <1>1 DEF NotIdleWithImports
<1>2. CASE CycleTopUp \/ Refill \/ TargetStarts \/ TargetRefused
  BY <1>1, <1>2 DEF CycleTopUp, Refill, TopUp, TargetStarts, TargetRefused
<1>3. ASSUME NEW s \in Sources, Pull(s) PROVE NotIdleWithImports'
  BY <1>1, <1>3 DEF Pull
<1>4. ASSUME NEW s \in Sources, PassEnds(s) PROVE NotIdleWithImports'
  <2>1. ASSUME NEW trip, TakesMeeting(s, trip) PROVE NotIdleWithImports'
    <3>1. \A t \in Sources : t # s => imports'[t] = imports[t] /\ wait'[t] = wait[t]
      BY <2>1 DEF TakesMeeting, Settles, TypeOK
    <3>2. wait'[s] = "due"
      BY <2>1 DEF TakesMeeting, Settles, TypeOK
    <3> QED
      BY <3>1, <3>2 DEF NotIdleWithImports
  <2>2. ASSUME imports' = imports,
               NEW next, Settles(s, next), next = "later" => imports[s] = 0
        PROVE  NotIdleWithImports'
    BY <2>2 DEF Settles, TypeOK, NotIdleWithImports
  <2>3. WaitAtEnd(s) = "later" => imports[s] = 0
    BY DEF WaitAtEnd, TypeOK
  <2>4. ASSUME NEW trip, StaysPut(s, trip) PROVE NotIdleWithImports'
    BY <2>2, <2>3, <2>4 DEF StaysPut
  <2>5. ASSUME NEW spent, NEW trip, Retries(s, spent, trip) PROVE NotIdleWithImports'
    BY <2>2, <2>5 DEF Retries
  <2>6. CASE FindsNothing(s)
    BY <2>2, <2>3, <2>6 DEF FindsNothing
  <2>7. CASE Fails(s)
    BY <2>2, <2>7 DEF Fails
  <2>8. CASE Cancelled(s)
    BY <2>2, <2>8 DEF Cancelled, NotIdleWithImports
  <2> QED
    BY <1>4, <2>1, <2>4, <2>5, <2>6, <2>7, <2>8 DEF PassEnds
<1>5. ASSUME NEW s \in Sources, Import(s) \/ CancelImport(s) PROVE NotIdleWithImports'
  <2>1. wait'[s] = "due" /\ \A t \in Sources : t # s => imports'[t] = imports[t] /\ wait'[t] = wait[t]
    BY <1>5 DEF Import, CancelImport, TypeOK
  <2> QED
    BY <2>1 DEF NotIdleWithImports
<1>6. ASSUME NEW s, Grant(s) \/ TargetRequested(s) PROVE NotIdleWithImports'
  BY <1>1, <1>6 DEF Grant, TargetRequested
<1>7. CASE TimePasses
  <2>1. \A t \in Sources : imports'[t] = imports[t] /\ (wait'[t] = wait[t] \/ wait'[t] = "due")
    BY <1>7 DEF TimePasses, PauseEnds, WaitEnds, RetryWaitEnds, TypeOK
  <2> QED
    BY <2>1 DEF NotIdleWithImports
<1>8. CASE Stop \/ Abort \/ UNCHANGED vars
  BY <1>1, <1>8 DEF Stop, Abort, lanesVars, vars
<1>9. CASE Demand
  BY <1>5, <1>6, <1>9 DEF Demand
<1>10. CASE LaneStep
  BY <1>2, <1>3, <1>4, <1>10 DEF LaneStep
<1> QED
  BY <1>2, <1>7, <1>8, <1>9, <1>10 DEF Next

\* No import waits out the five minutes of a source without work, whatever
\* arrives or is cancelled while a pass runs.
THEOREM ImportsWaitShortly == Spec => []NotIdleWithImports
<1>1. Init => NotIdleWithImports
  BY DEF Init, NotIdleWithImports
<1> QED
  BY <1>1, NotIdleStep, LanesTyped, PTL DEF Spec

-----------------------------------------------------------------------------
(* Turns.  What ImportsServed rests on: a top-up leaves no lane empty that a *)
(* due source could have, and those it passes over come nearer.              *)

Before(s) == {t \in Due : Place(t) < Place(s)}

LEMMA Counted ==
  /\ IsFiniteSet(Started) /\ Cardinality(Started) \in Nat
  /\ IsFiniteSet(InFlight) /\ Cardinality(InFlight) \in Nat
  /\ \A s : IsFiniteSet(Before(s)) /\ Cardinality(Before(s)) \in Nat
  /\ Lanes \in Nat
<1>1. Started \subseteq Sources /\ InFlight \subseteq Sources /\ \A s : Before(s) \subseteq Sources
  BY StartedAreDue DEF InFlight, Before
<1> QED
  BY <1>1, FiniteSources, LanesAssumption

\* A source is passed over because the lanes are full before its turn.
LEMMA PassedOver ==
  ASSUME ~aborted, NEW s \in Due \ Started
  PROVE  Cardinality(Before(s)) + Cardinality(InFlight) >= Lanes
<1>1. ~(Cardinality(Before(s)) + Cardinality(InFlight) < Lanes)
  BY DEF Started, Before
<1> QED
  BY <1>1, Counted

\* Whatever is started has its turn before it.
LEMMA StartedBefore ==
  ASSUME after \in 0..NumSources, NEW s \in Due \ Started, NEW t \in Started
  PROVE  Place(t) < Place(s)
<1>1. s \in Sources /\ t \in Sources /\ ~aborted
  BY StartedAreDue DEF Started
<1>2. Place(s) \in Int /\ Place(t) \in Int /\ \A u \in Due : Place(u) \in Int
  BY <1>1, StartedAreDue, PlaceValue
<1> SUFFICES ASSUME Place(s) <= Place(t) PROVE FALSE
  BY <1>2
<1>3. Before(s) \subseteq Before(t)
  BY <1>2 DEF Before
<1>4. Cardinality(Before(s)) <= Cardinality(Before(t))
  BY <1>3, Counted, FS_Subset
<1>5. Cardinality(Before(t)) + Cardinality(InFlight) < Lanes
  BY DEF Started, Before
<1> QED
  BY <1>1, <1>4, <1>5, PassedOver, Counted

\* As many sources are started as have places up to the last of them, at most.
LEMMA StartedUpTo ==
  ASSUME after \in 0..NumSources, NEW last \in Started, \A t \in Started : Place(t) <= Place(last)
  PROVE  Cardinality(Started) <= Place(last) + 1
<1> DEFINE place == [t \in Started |-> Place(t)]
<1>1. \A t \in Started : t \in Sources /\ Place(t) \in 0..(NumSources - 1)
  BY StartedAreDue, PlaceValue
<1>2. Place(last) \in Nat /\ \A t \in Started : Place(t) \in 0..Place(last)
  BY <1>1, LanesAssumption
<1>3. place \in Injection(Started, 0..Place(last))
  BY <1>1, <1>2, PlacesDiffer DEF Injection, IsInjective
<1>4. IsFiniteSet(0..Place(last)) /\ Cardinality(0..Place(last)) = Place(last) + 1
  BY <1>2, FS_Interval
<1>5. Cardinality(Started) <= Cardinality(0..Place(last))
  BY <1>3, <1>4, FS_Injection
<1> QED
  BY <1>4, <1>5

LEMMA TurnsNear ==
  ASSUME TypeOK, TopUp, NEW s \in Due \ Started
  PROVE  Place(s)' + Cardinality(Started) <= Place(s)
<1>1. after \in 0..NumSources /\ s \in Sources /\ after' = LastStarted
  BY StartedAreDue DEF TypeOK, TopUp
<1>2. Place(s) \in 0..(NumSources - 1) /\ NumSources \in Nat \ {0}
  BY <1>1, PlaceValue, LanesAssumption
<1>3. CASE Started = {}
  <2>1. after' = after /\ Cardinality(Started) = 0
    BY <1>1, <1>3, FS_EmptySet DEF LastStarted
  <2>2. Place(s)' = Place(s)
    BY <2>1 DEF Place
  <2> QED
    BY <1>2, <2>1, <2>2
<1>4. CASE Started # {}
  <2>1. \E l \in Started : \A t \in Started : Place(t) <= Place(l)
    BY <1>1, <1>4, StartedAreDue, HasLast
  <2>2. PICK last \in Started : last = after' /\ \A t \in Started : Place(t) <= Place(last)
    BY <1>1, <1>4, <2>1 DEF LastStarted
  <2>3. last \in 1..NumSources /\ s \in 1..NumSources /\ last \in Sources
    BY <1>1, StartedAreDue DEF Sources
  <2>4. Place(last) < Place(s) /\ Cardinality(Started) <= Place(last) + 1
    BY <1>1, <2>2, StartedBefore, StartedUpTo
  <2>5. /\ Place(s)' \in 0..(NumSources - 1)
        /\ Place(s)' = s + NumSources - last - 1 \/ Place(s)' = s - last - 1
    <3>1. Place(s)' = (s + NumSources - last - 1) % NumSources
      BY <2>2 DEF Place
    <3> QED
      BY <1>1, <1>2, <2>3, <3>1, PlaceAfter
  <2>6. /\ Place(s) = s + NumSources - after - 1 \/ Place(s) = s - after - 1
        /\ Place(last) = last + NumSources - after - 1 \/ Place(last) = last - after - 1
        /\ Place(last) \in 0..(NumSources - 1)
    BY <1>1, <2>3, PlaceValue
  <2>7. Place(s)' = Place(s) - Place(last) - 1
    BY <1>1, <1>2, <2>3, <2>4, <2>5, <2>6
  <2> QED
    BY <1>2, <2>4, <2>6, <2>7, Counted
<1> QED
  BY <1>3, <1>4

\* Every source that is due when a top-up begins is started by it or nearer to
\* its turn by as many places as others are started; nothing else moves the round.
\* So while a source is due, top-ups start at most NumSources - 1 others before
\* they start it.
TurnComes ==
  [][/\ CycleTopUp \/ Refill => \A s \in Due \ Started : Place(s)' + Cardinality(Started) <= Place(s)
     /\ ~CycleTopUp /\ ~Refill => UNCHANGED after]_vars

THEOREM EveryTurnComesNearer == Spec => TurnComes
<1>1. ASSUME TypeOK, [Next]_vars
      PROVE  /\ CycleTopUp \/ Refill => \A s \in Due \ Started : Place(s)' + Cardinality(Started) <= Place(s)
             /\ ~CycleTopUp /\ ~Refill => UNCHANGED after
  <2>1. CycleTopUp \/ Refill => TopUp
    BY DEF CycleTopUp, Refill
  <2>2. SUFFICES ASSUME ~CycleTopUp, ~Refill PROVE UNCHANGED after
    BY <1>1, <2>1, TurnsNear
  <2>3. ASSUME NEW s \in Sources, PassEnds(s) PROVE UNCHANGED after
    BY <2>3 DEF PassEnds, TakesMeeting, StaysPut, Retries, FindsNothing, Fails, Cancelled, Settles
  <2>4. CASE TargetStarts \/ TargetRefused \/ \E s \in Sources : Pull(s)
    BY <2>4 DEF TargetStarts, TargetRefused, Pull
  <2>5. CASE Demand \/ TimePasses
    BY <2>5 DEF Demand, Import, CancelImport, Grant, TargetRequested, TimePasses, PauseEnds, WaitEnds, RetryWaitEnds
  <2>6. CASE Stop \/ Abort \/ UNCHANGED vars
    BY <2>6 DEF Stop, Abort, lanesVars, vars
  <2> QED
    BY <1>1, <2>2, <2>3, <2>4, <2>5, <2>6 DEF Next, LaneStep
<1>2. TypeOK /\ [Next]_vars =>
        [/\ CycleTopUp \/ Refill => \A s \in Due \ Started : Place(s)' + Cardinality(Started) <= Place(s)
         /\ ~CycleTopUp /\ ~Refill => UNCHANGED after]_vars
  BY <1>1
<1> QED
  BY <1>2, LanesTyped, PTL DEF Spec, TurnComes

\* The first of those that a top-up passes over.
LEMMA HasFirst ==
  ASSUME NEW S, S \subseteq Sources, S # {}, after \in 0..NumSources
  PROVE  \E s \in S : \A t \in S : Place(s) <= Place(t)
<1> DEFINE places == {Place(s) : s \in S}
<1>1. \A s \in S : Place(s) \in Nat
  BY PlaceValue, LanesAssumption
<1>2. places \subseteq Nat /\ places # {}
  BY <1>1
<1>3. PICK x \in places : \A y \in places : x <= y
  BY <1>2, LeastNatural
<1> QED
  BY <1>3

LEMMA LanesFill ==
  ASSUME TypeOK, TopUp, ~aborted, Due' # {}
  PROVE  Cardinality(InFlight') >= Lanes
<1>1. /\ after \in 0..NumSources /\ Started \subseteq Due /\ Due \subseteq Sources /\ InFlight \subseteq Sources
      /\ InFlight \cap Started = {}
  BY StartedAreDue DEF TypeOK, InFlight
<1>2. InFlight' = InFlight \cup Started
  BY <1>1 DEF InFlight, TopUp, Enters, TypeOK
<1>3. Due' \subseteq Due \ Started
  <2> SUFFICES ASSUME NEW s \in Due' PROVE s \in Due \ Started
    OBVIOUS
  <2>1. s \in Sources /\ s \notin InFlight' /\ ~stopped /\ ~paused /\ wait[s] = "due" /\ HasWork(s)'
    BY DEF Due, TopUp
  <2>2. s \notin InFlight /\ s \notin Started
    BY <1>2, <2>1
  <2>3. retried'[s] = retried[s]
    BY <2>1, <2>2 DEF TopUp, Enters, TypeOK
  <2>4. HasWork(s)
    BY <2>1, <2>3 DEF HasWork, RetryReady, TopUp
  <2> QED
    BY <2>1, <2>2, <2>4 DEF Due
<1>4. PICK s \in Due \ Started : \A t \in Due \ Started : Place(s) <= Place(t)
  BY <1>1, <1>3, HasFirst
<1>5. Before(s) \subseteq Started
  <2>1. \A t \in Due : Place(t) \in Int
    BY <1>1, PlaceValue
  <2> QED
    BY <1>4, <2>1 DEF Before
<1>6. Cardinality(Before(s)) <= Cardinality(Started)
  BY <1>5, Counted, FS_Subset
<1>7. Cardinality(InFlight') = Cardinality(InFlight) + Cardinality(Started) - Cardinality({})
  BY <1>1, <1>2, Counted, FS_Union
<1> QED
  BY <1>6, <1>7, PassedOver, Counted, FS_EmptySet

\* After a top-up no source is due, or every lane is taken: no source with work
\* waits beside an empty lane, whichever of the cycle and the settled lanes asks.
FillsLanes == [][(CycleTopUp \/ Refill) /\ ~aborted => Due' = {} \/ Cardinality(InFlight') >= Lanes]_vars

THEOREM NoLaneStaysEmpty == Spec => FillsLanes
<1>1. TypeOK /\ [Next]_vars =>
        [(CycleTopUp \/ Refill) /\ ~aborted => Due' = {} \/ Cardinality(InFlight') >= Lanes]_vars
  BY LanesFill DEF CycleTopUp, Refill
<1> QED
  BY <1>1, LanesTyped, PTL DEF Spec, FillsLanes
=============================================================================
