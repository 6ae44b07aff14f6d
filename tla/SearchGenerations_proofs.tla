----------------------- MODULE SearchGenerations_proofs -----------------------
(***************************************************************************)
(* For every number of records, releases, faults, kills and power losses:  *)
(* the pointer, and the one a power loss may bring back, name generations  *)
(* that a power loss leaves in place, a publication names the head the log *)
(* has, and each reconciliation that gets through leaves search answering. *)
(***************************************************************************)
EXTENDS SearchGenerations, TLAPS

\* What the process points to is in the directory; a pointer may only dangle
\* while the process is down, and then a power loss settled it.
Pointed(g) == g # None => Visible(g) \/ (phase = "down" /\ pointerDisk = pointer)

\* The generation under construction.
Constructed ==
  /\ phase \in {"flush", "prepare", "fence"} => Visible(Target)
  /\ phase \in {"prepare", "fence"} => Kept(Target)

\* An entry that is not flushed is the one being built, or was forgotten.
Remembered ==
  \A g \in Generations : dir[g] = "entering" => g \in forgotten \/ (phase = "flush" /\ g = Target)

\* No generation is removed before the commit that replaced it is flushed.
SyncedFirst == phase \in {"retire", "retired"} => pointerDisk = pointer

CompleteInv ==
  /\ PointerComplete /\ Pointed(pointer) /\ Pointed(pointerDisk)
  /\ Constructed /\ Remembered /\ SyncedFirst

-----------------------------------------------------------------------------
(* Types. *)

LEMMA Bounds == {MaxHead, Ceiling, MaxFaults, MaxKills, MaxLosses} \subseteq Nat
BY GenerationsAssumption

LEMMA NoneIsNoGeneration == None \notin Generations
BY GenerationsAssumption

LEMMA TargetTyped == TypeOK => Target \in Generations
<1> SUFFICES ASSUME TypeOK PROVE captured \in 0..MaxHead /\ contract \in Contracts
  BY DEF Target, Generations
<1> QED
  BY Bounds DEF TypeOK

LEMMA FlushedTyped == Flushed \in [Generations -> {"absent", "present", "entering", "leaving"}]
BY DEF Flushed

\* The types of what any step of the process leaves alone.
LEMMA TypedStart == Init => TypeOK
<1> SUFFICES ASSUME Init PROVE TypeOK
  OBVIOUS
<1>1. 0 \in 0..MaxHead /\ 0 \in 0..MaxFaults /\ 0 \in 0..MaxKills /\ 0 \in 0..MaxLosses /\ 0 \in 0..0
  BY Bounds
<1>2. dir \in [Generations -> {"absent", "present", "entering", "leaving"}]
  BY DEF Init
<1> QED
  BY <1>1, <1>2 DEF Init, TypeOK, Phases

LEMMA TypedStep == TypeOK /\ [Next]_vars => TypeOK'
<1> SUFFICES ASSUME TypeOK, [Next]_vars PROVE TypeOK'
  OBVIOUS
<1> USE DEF counters, Ends
<1>1. CASE UNCHANGED vars
  BY <1>1 DEF vars, TypeOK
<1>2. CASE Current \/ Superseded \/ Drop \/ Rewarm \/ Capture
  <2>1. pointer \in Generations \cup {None} /\ log \in 0..log
    BY Bounds DEF TypeOK
  <2> QED
    BY <1>2, <2>1 DEF Current, Superseded, Drop, Rewarm, Capture, TypeOK, Phases
<1>3. CASE Refuse \/ Begin \/ AllRetired
  BY <1>3 DEF Refuse, Begin, AllRetired, TypeOK, Phases
<1>4. CASE Build
  BY <1>4 DEF Build, TypeOK, Phases
<1>5. CASE Flush \/ Retired
  BY <1>5, FlushedTyped DEF Flush, Retired, TypeOK, Phases
<1>6. CASE Prepare \/ Publish \/ Sync
  BY <1>6, TargetTyped DEF Prepare, Publish, Sync, TypeOK, Phases
<1>7. ASSUME NEW g \in Generations, Retire(g) PROVE TypeOK'
  BY <1>7 DEF Retire, TypeOK, Phases
<1>8. ASSUME NEW c \in Contracts, Start(c) PROVE TypeOK'
  BY <1>8 DEF Start, TypeOK, Phases
<1>9. CASE RetireFails
  <2>1. faults + 1 \in 0..MaxFaults
    BY <1>9, Bounds DEF RetireFails, TypeOK
  <2> QED
    BY <1>9, <2>1 DEF RetireFails, TypeOK, Phases
<1>10. CASE Append
  <2>1. log + 1 \in 0..MaxHead /\ captured \in 0..(log + 1)
    BY <1>10, Bounds DEF Append, TypeOK
  <2> QED
    BY <1>10, <2>1 DEF Append, TypeOK, Phases
<1>11. CASE OtherCommit
  BY <1>11 DEF OtherCommit, TypeOK
<1>12. CASE Fail
  <2>1. faults + 1 \in 0..MaxFaults
    BY <1>12, Bounds DEF Fail, TypeOK
  <2>2. phase' = "idle" => serving
    BY <1>12 DEF Fail
  <2>3. phase' = "down" => handle' = None
    BY <1>12 DEF Fail
  <2>4. forgotten' \in SUBSET Generations /\ phase' \in Phases
    BY <1>12 DEF Fail, Unflushed, Phases
  <2> QED
    BY <1>12, <2>1, <2>2, <2>3, <2>4 DEF Fail, TypeOK
<1>13. CASE Kill
  <2>1. kills + 1 \in 0..MaxKills
    BY <1>13, Bounds DEF Kill, TypeOK
  <2> QED
    BY <1>13, <2>1 DEF Kill, Unflushed, TypeOK, Phases
<1>14. CASE PowerLoss
  <2>1. losses + 1 \in 0..MaxLosses
    BY <1>14, Bounds DEF PowerLoss, TypeOK
  <2>2. dir' \in [Generations -> {"absent", "present", "entering", "leaving"}]
    BY <1>14 DEF PowerLoss
  <2>3. forgotten' \in SUBSET Generations
    BY <1>14 DEF PowerLoss, TypeOK
  <2>4. {pointer', pointerDisk', handle'} \subseteq Generations \cup {None}
    BY <1>14 DEF PowerLoss, TypeOK
  <2> QED
    BY <1>14, <2>1, <2>2, <2>3, <2>4 DEF PowerLoss, TypeOK, Phases
<1> QED
  BY <1>1, <1>2, <1>3, <1>4, <1>5, <1>6, <1>7, <1>8, <1>9, <1>10, <1>11, <1>12, <1>13, <1>14
  DEF Next, Step

\* Every value stays in its range; a process that is down holds no rows.
THEOREM Typed == Spec => []TypeOK
<1> QED
  BY TypedStart, TypedStep, PTL DEF Spec

-----------------------------------------------------------------------------
(* The pointer's generations stay.                                           *)

\* After a flush what is visible is on disk, and nothing else is there.
LEMMA FlushKeeps ==
  ASSUME NEW g \in Generations, dir' = Flushed
  PROVE  (Visible(g) => Visible(g)' /\ dir'[g] = "present") /\ dir'[g] # "entering"
BY DEF Flushed, Visible

\* While the process runs, both pointers are visible.
LEMMA UpIsVisible ==
  ASSUME CompleteInv, phase # "down"
  PROVE  (pointer # None => Visible(pointer)) /\ (pointerDisk # None => Visible(pointerDisk))
BY DEF CompleteInv, Pointed

\* A visible entry that is on disk unless it was forgotten.
LEMMA VisibleIsKept ==
  ASSUME CompleteInv, NEW g \in Generations, Visible(g), phase # "flush"
  PROVE  Kept(g)
BY DEF CompleteInv, Remembered, Visible, Kept

LEMMA CompleteStart == Init => CompleteInv
BY DEF Init, CompleteInv, PointerComplete, Kept, Pointed, Constructed, Remembered, SyncedFirst

\* A flush of the directory, whoever asks for it.
LEMMA FlushComplete ==
  ASSUME TypeOK, CompleteInv, phase \in {"flush", "retired"}, dir' = Flushed, forgotten' = {},
         UNCHANGED <<pointer, pointerDisk, captured, contract>>,
         phase' = (IF phase = "flush" THEN "prepare" ELSE "retire")
  PROVE  CompleteInv'
<1>1. Pointed(pointer)' /\ Pointed(pointerDisk)' /\ Kept(pointer)' /\ Kept(pointerDisk)'
  <2>1. ASSUME NEW g \in {pointer, pointerDisk}, g # None
        PROVE  Visible(g)' /\ dir'[g] = "present"
    <3>1. g \in Generations /\ Visible(g)
      BY <2>1, UpIsVisible DEF TypeOK
    <3> QED
      BY <3>1, FlushKeeps
  <2> QED
    BY <2>1 DEF Pointed, Kept
<1>2. Constructed'
  <2>1. CASE phase = "flush"
    <3>1. Target \in Generations /\ Visible(Target) /\ UNCHANGED Target
      BY <2>1, TargetTyped DEF CompleteInv, Constructed, Target
    <3> QED
      BY <3>1, FlushKeeps DEF Constructed, Kept
  <2>2. CASE phase = "retired"
    BY <2>2 DEF Constructed
  <2> QED
    BY <2>1, <2>2
<1>3. Remembered'
  BY FlushKeeps DEF Remembered
<1>4. SyncedFirst'
  BY DEF CompleteInv, SyncedFirst
<1> QED
  BY <1>1, <1>2, <1>3, <1>4 DEF CompleteInv, PointerComplete

\* A step that leaves the directory, the pointers and the build alone, and starts
\* none of the phases that promise something.
LEMMA QuietComplete ==
  ASSUME CompleteInv, UNCHANGED <<dir, pointer, pointerDisk, forgotten>>,
         phase' \in {"down", "idle", "check", "build"} \/ UNCHANGED <<phase, captured, contract>>,
         phase = "down" /\ phase' # "down" => Accepts,
         phase # "flush" \/ UNCHANGED phase
  PROVE  CompleteInv'
<1>1. PointerComplete'
  BY DEF CompleteInv, PointerComplete, Kept
<1>2. Pointed(pointer)' /\ Pointed(pointerDisk)'
  BY DEF CompleteInv, Pointed, Visible, Accepts
<1>3. Constructed'
  BY DEF CompleteInv, Constructed, Target, Visible, Kept
<1>4. Remembered'
  BY DEF CompleteInv, Remembered, Target
<1>5. SyncedFirst'
  BY DEF CompleteInv, SyncedFirst
<1> QED
  BY <1>1, <1>2, <1>3, <1>4, <1>5 DEF CompleteInv

LEMMA BuildComplete == TypeOK /\ CompleteInv /\ Build => CompleteInv'
<1> SUFFICES ASSUME TypeOK, CompleteInv, Build PROVE CompleteInv'
  OBVIOUS
<1>1. Target \in Generations /\ UNCHANGED Target /\ phase = "build" /\ dir \in [Generations -> {"absent", "present", "entering", "leaving"}]
  BY TargetTyped DEF Build, Target, TypeOK
<1>2. CASE Visible(Target)
  <2>1. phase' = "prepare" /\ UNCHANGED <<dir, pointer, pointerDisk, forgotten>>
    BY <1>2 DEF Build
  <2>2. Kept(Target)
    BY <1>1, <1>2, VisibleIsKept
  <2>3. Constructed'
    BY <1>1, <1>2, <2>1, <2>2 DEF Constructed, Visible, Kept
  <2>4. PointerComplete' /\ Pointed(pointer)' /\ Pointed(pointerDisk)'
    BY <1>1, <2>1 DEF CompleteInv, PointerComplete, Pointed, Kept, Visible
  <2>5. Remembered' /\ SyncedFirst'
    BY <1>1, <2>1 DEF CompleteInv, Remembered, SyncedFirst
  <2> QED
    BY <2>3, <2>4, <2>5 DEF CompleteInv
<1>3. CASE ~Visible(Target)
  <2>1. /\ phase' = "flush" /\ UNCHANGED <<pointer, pointerDisk, forgotten>>
        /\ \A g \in Generations : dir'[g] = IF g = Target THEN "entering" ELSE dir[g]
    BY <1>1, <1>3 DEF Build
  <2>2. pointer # Target /\ pointerDisk # Target
    BY <1>1, <1>3, UpIsVisible, NoneIsNoGeneration
  <2>3. pointer \in Generations \cup {None} /\ pointerDisk \in Generations \cup {None}
    BY DEF TypeOK
  <2>4. PointerComplete' /\ Pointed(pointer)' /\ Pointed(pointerDisk)'
    BY <1>1, <2>1, <2>2, <2>3 DEF CompleteInv, PointerComplete, Pointed, Kept, Visible
  <2>5. Constructed'
    BY <1>1, <2>1 DEF Constructed, Visible
  <2>6. Remembered'
    BY <1>1, <2>1 DEF CompleteInv, Remembered
  <2>7. SyncedFirst'
    BY <2>1 DEF SyncedFirst
  <2> QED
    BY <2>4, <2>5, <2>6, <2>7 DEF CompleteInv
<1> QED
  BY <1>2, <1>3

LEMMA PublishComplete ==
  TypeOK /\ CompleteInv /\ (Prepare \/ Publish \/ Sync) => CompleteInv'
<1> SUFFICES ASSUME TypeOK, CompleteInv, Prepare \/ Publish \/ Sync PROVE CompleteInv'
  OBVIOUS
<1>1. UNCHANGED <<dir, forgotten, Target>> /\ phase \in {"prepare", "fence", "sync"}
  BY DEF Prepare, Publish, Sync, Target
<1>2. Remembered'
  BY <1>1 DEF CompleteInv, Remembered
<1>3. CASE Prepare
  BY <1>1, <1>2, <1>3
  DEF Prepare, CompleteInv, PointerComplete, Pointed, Kept, Visible, Constructed, SyncedFirst
<1>4. CASE Publish
  <2>1. Kept(Target) /\ Visible(Target) /\ phase # "down"
    BY <1>4 DEF Publish, CompleteInv, Constructed
  <2> QED
    BY <1>1, <1>2, <1>4, <2>1
    DEF Publish, CompleteInv, PointerComplete, Pointed, Kept, Visible, Constructed, SyncedFirst
<1>5. CASE Sync
  BY <1>1, <1>2, <1>5
  DEF Sync, CompleteInv, PointerComplete, Pointed, Kept, Visible, Constructed, SyncedFirst
<1> QED
  BY <1>3, <1>4, <1>5

\* Only what neither pointer names is removed.
LEMMA RetireComplete ==
  ASSUME TypeOK, CompleteInv, NEW g \in Generations, Retire(g)
  PROVE  CompleteInv'
<1>1. /\ phase = "retire" /\ phase' = "retired" /\ UNCHANGED <<pointer, pointerDisk>>
      /\ g # pointer /\ g # pointerDisk /\ forgotten' = forgotten \ {g}
      /\ \A h \in Generations : dir'[h] = IF h = g THEN "leaving" ELSE dir[h]
  BY DEF Retire, TypeOK, CompleteInv, SyncedFirst
<1>2. pointer \in Generations \cup {None} /\ pointerDisk \in Generations \cup {None}
  BY DEF TypeOK
<1>3. PointerComplete' /\ Pointed(pointer)' /\ Pointed(pointerDisk)'
  BY <1>1, <1>2 DEF CompleteInv, PointerComplete, Pointed, Kept, Visible
<1>4. Constructed' /\ SyncedFirst'
  BY <1>1 DEF CompleteInv, Constructed, SyncedFirst
<1>5. Remembered'
  BY <1>1 DEF CompleteInv, Remembered
<1> QED
  BY <1>3, <1>4, <1>5 DEF CompleteInv

\* A failure or a kill remembers what it left unflushed.
LEMMA StopComplete == TypeOK /\ CompleteInv /\ (Fail \/ Kill) => CompleteInv'
<1> SUFFICES ASSUME TypeOK, CompleteInv, Fail \/ Kill PROVE CompleteInv'
  OBVIOUS
<1>1. /\ UNCHANGED <<dir, pointer, pointerDisk>> /\ forgotten' = Unflushed
      /\ phase # "down" /\ phase' \in {"idle", "down"}
  BY DEF Fail, Kill
<1>2. pointer \in Generations \cup {None} /\ pointerDisk \in Generations \cup {None}
  BY DEF TypeOK
<1>3. PointerComplete' /\ Pointed(pointer)' /\ Pointed(pointerDisk)'
  BY <1>1, <1>2, UpIsVisible DEF PointerComplete, Pointed, Kept, Visible, Unflushed
<1>4. Constructed' /\ SyncedFirst'
  BY <1>1 DEF Constructed, SyncedFirst
<1>5. Remembered'
  BY <1>1 DEF Remembered, Unflushed
<1> QED
  BY <1>3, <1>4, <1>5 DEF CompleteInv

\* A power loss settles what was not flushed; the pointer it brings back is kept.
LEMMA LossComplete == TypeOK /\ CompleteInv /\ PowerLoss => CompleteInv'
<1> SUFFICES ASSUME TypeOK, CompleteInv, PowerLoss PROVE CompleteInv'
  OBVIOUS
<1>1. /\ phase' = "down" /\ pointer' \in {pointer, pointerDisk} /\ pointerDisk' = pointer'
      /\ dir' \in [Generations -> {"absent", "present"}]
      /\ \A g \in Generations : dir[g] \in {"absent", "present"} => dir'[g] = dir[g]
      /\ forgotten' = {g \in forgotten : dir'[g] = "absent"}
  BY DEF PowerLoss
<1>2. pointer' \in Generations \cup {None} /\ Kept(pointer)  /\ Kept(pointerDisk)
  BY <1>1 DEF TypeOK, CompleteInv, PointerComplete
<1>3. PointerComplete' /\ Pointed(pointer)' /\ Pointed(pointerDisk)'
  BY <1>1, <1>2 DEF PointerComplete, Pointed, Kept
<1>4. Constructed' /\ SyncedFirst'
  BY <1>1 DEF Constructed, SyncedFirst
<1>5. Remembered'
  BY <1>1 DEF Remembered
<1> QED
  BY <1>3, <1>4, <1>5 DEF CompleteInv

LEMMA CompleteStep == TypeOK /\ CompleteInv /\ [Next]_vars => CompleteInv'
<1> SUFFICES ASSUME TypeOK, CompleteInv, [Next]_vars PROVE CompleteInv'
  OBVIOUS
<1>1. CASE UNCHANGED vars \/ Append \/ Drop \/ Rewarm
  BY <1>1, QuietComplete DEF vars, Append, Drop, Rewarm, counters
<1>2. CASE Begin \/ Current \/ Capture \/ Refuse \/ Superseded \/ AllRetired \/ RetireFails
  BY <1>2, QuietComplete DEF Begin, Current, Capture, Refuse, Superseded, AllRetired, RetireFails, Ends, counters
<1>3. ASSUME NEW c \in Contracts, Start(c) PROVE CompleteInv'
  BY <1>3, QuietComplete DEF Start
<1>4. CASE Build
  BY <1>4, BuildComplete
<1>5. CASE Flush \/ Retired
  BY <1>5, FlushComplete DEF Flush, Retired
<1>6. CASE Prepare \/ Publish \/ Sync
  BY <1>6, PublishComplete
<1>7. ASSUME NEW g \in Generations, Retire(g) PROVE CompleteInv'
  BY <1>7, RetireComplete
<1>8. CASE OtherCommit
  BY <1>8 DEF OtherCommit, CompleteInv, PointerComplete, Pointed, Kept, Visible, Constructed, Target, Remembered, SyncedFirst
<1>9. CASE Fail \/ Kill
  BY <1>9, StopComplete
<1>10. CASE PowerLoss
  BY <1>10, LossComplete
<1> QED
  BY <1>1, <1>2, <1>3, <1>4, <1>5, <1>6, <1>7, <1>8, <1>9, <1>10 DEF Next, Step

\* Every phase of a reconciliation, cut off at any step, leaves what CompleteInv
\* says: the pointers complete and what is about to be pointed to as well.
THEOREM Completed == Spec => []CompleteInv
<1> QED
  BY TypedStart, TypedStep, CompleteStart, CompleteStep, PTL DEF Spec

\* Only a kill or a failed step prevents a flush.
Undisturbed == faults = 0 /\ kills = 0
NothingForgotten == Undisturbed => forgotten = {}

LEMMA ForgetsOnlyDisturbed == TypeOK /\ NothingForgotten /\ [Next]_vars => NothingForgotten'
<1> SUFFICES ASSUME TypeOK, NothingForgotten, [Next]_vars PROVE NothingForgotten'
  OBVIOUS
<1> USE DEF NothingForgotten, Undisturbed, counters
<1>1. faults + 1 # 0 /\ kills + 1 # 0
  BY Bounds DEF TypeOK
<1>2. CASE Fail \/ Kill \/ RetireFails
  BY <1>1, <1>2 DEF Fail, Kill, RetireFails
<1>3. CASE PowerLoss
  BY <1>3 DEF PowerLoss
<1>4. CASE Step
  BY <1>4 DEF Step, Current, Capture, Refuse, Build, Flush, Prepare, Superseded, Publish, Sync, Retire, Retired, AllRetired
<1>5. CASE Begin \/ (\E c \in Contracts : Start(c)) \/ Drop \/ Rewarm \/ Append \/ OtherCommit \/ UNCHANGED vars
  BY <1>5 DEF Begin, Start, Drop, Rewarm, Append, OtherCommit, vars
<1> QED
  BY <1>2, <1>3, <1>4, <1>5 DEF Next

\* The generations a start may find the pointer at are there to stay.
PointedAreThere == \A g \in {pointer, pointerDisk} \ {None} : dir[g] = "present"

\* No pointer that can come back loses its files, excepted those whose flush a
\* kill or a failed step prevented; power losses, at any step and however many,
\* need no exception by themselves.
THEOREM AlwaysComplete == Spec => [](PointerComplete /\ (faults = 0 /\ kills = 0 => PointedAreThere))
<1>1. Init => NothingForgotten
  BY DEF Init, NothingForgotten
<1>2. CompleteInv /\ NothingForgotten => PointerComplete /\ (faults = 0 /\ kills = 0 => PointedAreThere)
  BY DEF CompleteInv, PointerComplete, Kept, NothingForgotten, Undisturbed, PointedAreThere
<1> QED
  BY <1>1, <1>2, ForgetsOnlyDisturbed, Typed, Completed, PTL DEF Spec

\* A process is refused at startup only for a generation that was never flushed.
THEOREM StartsAgain == Spec => [](pointer \notin forgotten => Accepts)
<1>1. TypeOK /\ CompleteInv => (pointer \notin forgotten => Accepts)
  BY DEF CompleteInv, PointerComplete, Kept, Accepts, Visible
<1> QED
  BY <1>1, Typed, Completed, PTL

\* What is published is the log's head, however long the build took.
THEOREM PublishesTheHead == Spec => FencedHead
<1>1. [Next]_vars => [pointer' # pointer => pointer' = pointerDisk \/ pointer'.head = log]_vars
  <2> SUFFICES ASSUME [Next]_vars, pointer' # pointer
               PROVE  pointer' = pointerDisk \/ pointer'.head = log
    OBVIOUS
  <2>1. Publish \/ PowerLoss
    BY DEF Next, Step, vars, Current, Capture, Refuse, Build, Flush, Prepare, Superseded, Sync,
           Retire, Retired, AllRetired, Begin, Start, RetireFails, Drop, Rewarm, Append,
           OtherCommit, Fail, Kill
  <2> QED
    BY <2>1 DEF Publish, PowerLoss, Target
<1> QED
  BY <1>1, PTL DEF Spec, FencedHead

-----------------------------------------------------------------------------
(* When search answers.                                                      *)

\* Pointers never run ahead of the log; what a reconciliation builds is newer than
\* what this release had; what it published is in the handle until it ends.
ServedInv ==
  /\ \A g \in {pointer, pointerDisk} : g # None => g.head <= log
  /\ phase \in {"build", "flush", "prepare", "fence"} /\ Fits(pointer) => pointer.head < captured
  /\ phase = "fence" => handle = Target
  /\ phase \in {"sync", "retire", "retired"} => pointer = Target /\ handle = Target

\* A reconciliation that ends without failing leaves search answering at the head,
\* unless its head is over the ceiling or a record was appended since it was read;
\* so does one whose deletions failed.
RoundServes ==
  [][(Step \/ RetireFails) /\ phase' = "idle" => Searchable' \/ captured > Ceiling \/ log # captured]_vars

\* Only a record, a failed step or the end of the process takes search away again:
\* no build, no deletion and no read of a person does.
SearchStays == [][Searchable /\ ~Searchable' => log' # log \/ Fail \/ phase' = "down"]_vars

LEMMA Heads ==
  ASSUME TypeOK
  PROVE  /\ log \in Nat /\ captured \in Nat /\ captured <= log
         /\ \A g \in {pointer, pointerDisk} : g # None => g.head \in Nat /\ g.contract \in Contracts
  BY Bounds DEF TypeOK, Generations

LEMMA ServedStep == TypeOK /\ ServedInv /\ [Next]_vars => ServedInv'
<1> SUFFICES ASSUME TypeOK, ServedInv, [Next]_vars PROVE ServedInv'
  OBVIOUS
<1> USE Heads DEF counters, Ends, ServedInv, Fits, Target
<1>1. CASE UNCHANGED vars
  BY <1>1 DEF vars
<1>2. CASE Current \/ Superseded \/ Drop \/ Rewarm \/ Refuse \/ Begin \/ AllRetired \/ RetireFails
  BY <1>2 DEF Current, Superseded, Drop, Rewarm, Refuse, Begin, AllRetired, RetireFails
<1>3. CASE Capture
  BY <1>3 DEF Capture, IsCurrent
<1>4. CASE Build \/ Flush \/ Prepare
  BY <1>4 DEF Build, Flush, Prepare
<1>5. CASE Publish
  BY <1>5 DEF Publish
<1>6. CASE Sync \/ Retired \/ (\E g \in Generations : Retire(g))
  BY <1>6 DEF Sync, Retired, Retire
<1>7. CASE (\E c \in Contracts : Start(c)) \/ Fail \/ Kill \/ PowerLoss
  BY <1>7 DEF Start, Fail, Kill, PowerLoss
<1>8. CASE Append \/ OtherCommit
  BY <1>8 DEF Append, OtherCommit
<1> QED
  BY <1>1, <1>2, <1>3, <1>4, <1>5, <1>6, <1>7, <1>8 DEF Next, Step

LEMMA Served == Spec => []ServedInv
<1>1. Init => ServedInv
  BY DEF Init, ServedInv
<1> QED
  BY <1>1, Typed, ServedStep, PTL DEF Spec

\* Each reconciliation that gets through serves the head it read. SearchReturns
\* rests on it.
THEOREM EachRoundServes == Spec => RoundServes
<1>1. ASSUME TypeOK, ServedInv
      PROVE  (Step \/ RetireFails) /\ phase' = "idle" => Searchable' \/ captured > Ceiling \/ log # captured
  <2> SUFFICES ASSUME Step \/ RetireFails, phase' = "idle", log = captured, ~(captured > Ceiling)
               PROVE  Searchable'
    OBVIOUS
  <2>1. Current \/ AllRetired \/ RetireFails
    BY DEF Step, Capture, Refuse, Build, Flush, Prepare, Superseded, Publish, Sync, Retire, Retired
  <2>2. CASE Current
    BY <2>2 DEF Current, Ends, Searchable, IsCurrent, Fits
  <2>3. CASE AllRetired \/ RetireFails
    <3>1. pointer = Target /\ handle = Target /\ Target # None
      BY <1>1, <2>3, TargetTyped, NoneIsNoGeneration DEF ServedInv, AllRetired, RetireFails
    <3>2. IsCurrent(pointer)
      BY <3>1 DEF IsCurrent, Fits, Target
    <3> QED
      BY <2>3, <3>1, <3>2 DEF AllRetired, RetireFails, Ends, Searchable, IsCurrent, Fits
  <2> QED
    BY <2>1, <2>2, <2>3
<1> QED
  BY <1>1, Typed, Served, PTL DEF Spec, RoundServes

\* Search that answers goes on to answer.
THEOREM SearchGoesOn == Spec => SearchStays
<1>1. ASSUME TypeOK, ServedInv, [Next]_vars
      PROVE  Searchable /\ ~Searchable' => log' # log \/ Fail \/ phase' = "down"
  <2> SUFFICES ASSUME Searchable, log' = log, ~Fail, phase' # "down" PROVE Searchable'
    OBVIOUS
  <2> USE DEF Searchable, IsCurrent, Fits, Ends, counters
  <2>1. ~(Append \/ Kill \/ PowerLoss)
    <3>1. log + 1 # log
      BY <1>1, Heads
    <3>2. ~Append
      BY <3>1 DEF Append
    <3> QED
      BY <3>2 DEF Kill, PowerLoss
  <2>2. phase \notin {"build", "flush", "prepare", "fence"}
    BY <1>1, Heads DEF ServedInv
  <2>3. ~(Refuse \/ Build \/ Flush \/ Prepare \/ Superseded \/ Publish \/ Capture \/ Drop)
    BY <2>2 DEF Refuse, Build, Flush, Prepare, Superseded, Publish, Capture, Drop
  <2>4. ~\E c \in Contracts : Start(c)
    BY <1>1, NoneIsNoGeneration DEF TypeOK, Start
  <2>5. CASE Current \/ Rewarm \/ Begin \/ OtherCommit \/ UNCHANGED vars
    BY <2>5 DEF Current, Rewarm, Begin, OtherCommit, vars
  <2>6. CASE Sync \/ Retired \/ AllRetired \/ RetireFails \/ \E g \in Generations : Retire(g)
    BY <2>6 DEF Sync, Retired, AllRetired, RetireFails, Retire
  <2> QED
    BY <1>1, <2>1, <2>3, <2>4, <2>5, <2>6 DEF Next, Step
<1> QED
  BY <1>1, Typed, Served, PTL DEF Spec, SearchStays
===============================================================================
