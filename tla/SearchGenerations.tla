-------------------------- MODULE SearchGenerations --------------------------
(***************************************************************************)
(* The search index the Authority serves: immutable generations in a       *)
(* directory, the database row that points to the active one, and the      *)
(* handle in which the process keeps its validated rows.                   *)
(*                                                                         *)
(* A reconciliation builds the generation of the record log's head beside  *)
(* the directory, renames it in, validates it into the handle, points to   *)
(* it and deletes the others.  No other turn of the process runs in        *)
(* between, but records may be appended by another process, and the        *)
(* process may be killed or the machine lose power at every step.  A power *)
(* loss undoes, entry by entry, what no fsync of the directory followed,   *)
(* and may undo the last commit of the pointer (a rollback journal's       *)
(* unlink).  At startup a guard refuses a pointer to a missing generation. *)
(***************************************************************************)
EXTENDS Naturals

CONSTANTS
  Contracts,  \* retrieval contracts, one of each release that may run
  MaxHead,    \* bound on the records appended
  Ceiling,    \* a build of more records is refused by the admission budget
  MaxFaults, MaxKills, MaxLosses,  \* bounds on failed steps, kills and power losses
  None

Generations == [head : 0..MaxHead, contract : Contracts]

ASSUME GenerationsAssumption ==
  /\ None \notin Generations \cup Contracts
  /\ {MaxHead, Ceiling, MaxFaults, MaxKills, MaxLosses} \subseteq Nat

VARIABLES
  log,          \* head of the record log
  dir,          \* a generation's entry: "absent" or "present" on disk as well, or
                \* "entering" or "leaving": renamed, and not yet flushed
  pointer,      \* the active generation, or None
  pointerDisk,  \* the active generation that a power loss may bring back
  handle,       \* the generation whose rows the process holds, or None
  contract,     \* of the release that runs
  phase,        \* step of the reconciliation, "idle" between two, or "down"
  captured,     \* the head it builds
  serving,      \* startup is over
  forgotten,    \* history: entries whose flush a kill or a failure prevented
  faults, kills, losses

vars == <<log, dir, pointer, pointerDisk, handle, contract, phase, captured, serving,
          forgotten, faults, kills, losses>>
counters == <<faults, kills, losses>>

Init ==
  /\ log = 0 /\ dir = [g \in Generations |-> "absent"]
  /\ pointer = None /\ pointerDisk = None /\ handle = None
  /\ contract \in Contracts /\ phase = "down" /\ captured = 0 /\ serving = FALSE
  /\ forgotten = {} /\ faults = 0 /\ kills = 0 /\ losses = 0

\* What the process finds in the directory.
Visible(g) == dir[g] \in {"present", "entering"}

\* fsync of the directory.
Flushed == [g \in Generations |-> IF Visible(g) THEN "present" ELSE "absent"]

Target == [head |-> captured, contract |-> contract]

Fits(g) == g # None /\ g.contract = contract
IsCurrent(g) == Fits(g) /\ g.head = log

-----------------------------------------------------------------------------
(* Startup and the reconciliation.                                           *)

\* verifyStateLineageBeforeOpen, of the pointer and the directory.
Accepts == pointer # None => Visible(pointer)

Start(c) ==
  /\ phase = "down" /\ Accepts
  /\ phase' = "check" /\ serving' = FALSE /\ handle' = None /\ contract' = c
  /\ UNCHANGED <<log, dir, pointer, pointerDisk, captured, forgotten, counters>>

Begin ==
  /\ phase = "idle" /\ phase' = "check"
  /\ UNCHANGED <<log, dir, pointer, pointerDisk, handle, contract, captured, serving, forgotten, counters>>

Ends == phase' = "idle" /\ serving' = TRUE

\* Mutant: a current pointer needs no validation.
CurrentUnwarmed ==
  /\ phase = "check" /\ IsCurrent(pointer)
  /\ UNCHANGED handle /\ Ends
  /\ UNCHANGED <<log, dir, pointer, pointerDisk, contract, captured, forgotten, counters>>

\* The pointer names the head already: its files are validated into the handle,
\* unless the handle holds them.
Current ==
  /\ phase = "check" /\ IsCurrent(pointer)
  /\ handle' = pointer /\ Ends
  /\ UNCHANGED <<log, dir, pointer, pointerDisk, contract, captured, forgotten, counters>>

Capture ==
  /\ phase = "check" /\ ~IsCurrent(pointer)
  /\ phase' = "build" /\ captured' = log
  /\ UNCHANGED <<log, dir, pointer, pointerDisk, handle, contract, serving, forgotten, counters>>

\* Over the admission budget: no file is touched, and startup goes on.
Refuse ==
  /\ phase = "build" /\ captured > Ceiling /\ Ends
  /\ UNCHANGED <<log, dir, pointer, pointerDisk, handle, contract, captured, forgotten, counters>>

\* The complete generation is renamed into the directory; one that is there
\* already is the same, and is taken as it is.
Build ==
  /\ phase = "build" /\ captured <= Ceiling
  /\ IF Visible(Target) THEN phase' = "prepare" /\ UNCHANGED dir
                        ELSE phase' = "flush" /\ dir' = [dir EXCEPT ![Target] = "entering"]
  /\ UNCHANGED <<log, pointer, pointerDisk, handle, contract, captured, serving, forgotten, counters>>

Flush ==
  /\ phase = "flush" /\ phase' = "prepare" /\ dir' = Flushed /\ forgotten' = {}
  /\ UNCHANGED <<log, pointer, pointerDisk, handle, contract, captured, serving, counters>>

Prepare ==
  /\ phase = "prepare" /\ phase' = "fence" /\ handle' = Target
  /\ UNCHANGED <<log, dir, pointer, pointerDisk, contract, captured, serving, forgotten, counters>>

\* A record was appended since the capture.
Superseded ==
  /\ phase = "fence" /\ log # captured /\ handle' = None /\ Ends
  /\ UNCHANGED <<log, dir, pointer, pointerDisk, contract, captured, forgotten, counters>>

\* Mutant: the head is not read again.
PublishUnfenced ==
  /\ phase = "fence" /\ phase' = "sync"
  /\ pointer' = Target /\ pointerDisk' = pointer
  /\ UNCHANGED <<log, dir, handle, contract, captured, serving, forgotten, counters>>

\* The commit flushes its journal's directory first, and so the commit before it.
Publish ==
  /\ phase = "fence" /\ log = captured /\ phase' = "sync"
  /\ pointer' = Target /\ pointerDisk' = pointer
  /\ UNCHANGED <<log, dir, handle, contract, captured, serving, forgotten, counters>>

-----------------------------------------------------------------------------
(* Deleting what the publication replaced.  A failure of it is only reported. *)

\* Mutant: the other generations go before the commit is flushed.
SyncUnflushed ==
  /\ phase = "sync" /\ phase' = "retire"
  /\ UNCHANGED <<log, dir, pointer, pointerDisk, handle, contract, captured, serving, forgotten, counters>>

Sync ==
  /\ phase = "sync" /\ phase' = "retire" /\ pointerDisk' = pointer
  /\ UNCHANGED <<log, dir, pointer, handle, contract, captured, serving, forgotten, counters>>

Retire(g) ==
  /\ phase = "retire" /\ Visible(g) /\ g # pointer
  /\ phase' = "retired" /\ dir' = [dir EXCEPT ![g] = "leaving"] /\ forgotten' = forgotten \ {g}
  /\ UNCHANGED <<log, pointer, pointerDisk, handle, contract, captured, serving, counters>>

Retired ==
  /\ phase = "retired" /\ phase' = "retire" /\ dir' = Flushed /\ forgotten' = {}
  /\ UNCHANGED <<log, pointer, pointerDisk, handle, contract, captured, serving, counters>>

AllRetired ==
  /\ phase = "retire" /\ ~(\E g \in Generations : Visible(g) /\ g # pointer) /\ Ends
  /\ UNCHANGED <<log, dir, pointer, pointerDisk, handle, contract, captured, forgotten, counters>>

RetireFails ==
  /\ phase \in {"sync", "retire", "retired"} /\ Ends /\ faults < MaxFaults /\ faults' = faults + 1
  /\ UNCHANGED <<log, dir, pointer, pointerDisk, handle, contract, captured, forgotten, kills, losses>>

-----------------------------------------------------------------------------
(* Reads of a person.  An answer takes the handle's rows, if they are the    *)
(* pointer's.                                                                *)

\* A search that finds no pointer of this release drops the handle.
Drop ==
  /\ phase = "idle" /\ ~Fits(pointer) /\ handle' = None
  /\ UNCHANGED <<log, dir, pointer, pointerDisk, contract, phase, captured, serving, forgotten, counters>>

\* The list of a generation behind the log validates it again if need be.
Rewarm ==
  /\ phase = "idle" /\ Fits(pointer) /\ pointer.head # log /\ Visible(pointer) /\ handle' = pointer
  /\ UNCHANGED <<log, dir, pointer, pointerDisk, contract, phase, captured, serving, forgotten, counters>>

-----------------------------------------------------------------------------
(* What else happens.                                                        *)

Append ==
  /\ log < MaxHead /\ log' = log + 1
  /\ UNCHANGED <<dir, pointer, pointerDisk, handle, contract, phase, captured, serving, forgotten, counters>>

\* Another transaction commits, and flushes the database's directory.
OtherCommit ==
  /\ pointerDisk' = pointer
  /\ UNCHANGED <<log, dir, pointer, handle, contract, phase, captured, serving, forgotten, counters>>

Unflushed == {g \in Generations : dir[g] = "entering"}

\* A step fails, a snapshot that captured another head than was read included.  A
\* failed startup is the end of the process; a failed validation leaves the handle
\* empty.
Fail ==
  /\ phase \in {"check", "build", "flush", "prepare", "fence"} /\ faults < MaxFaults
  /\ phase' = (IF serving THEN "idle" ELSE "down")
  /\ \/ handle' = None
     \/ serving /\ phase # "prepare" /\ UNCHANGED handle
  /\ forgotten' = Unflushed /\ faults' = faults + 1
  /\ UNCHANGED <<log, dir, pointer, pointerDisk, contract, captured, serving, kills, losses>>

Kill ==
  /\ phase # "down" /\ phase' = "down" /\ handle' = None
  /\ forgotten' = Unflushed /\ kills < MaxKills /\ kills' = kills + 1
  /\ UNCHANGED <<log, dir, pointer, pointerDisk, contract, captured, serving, faults, losses>>

PowerLoss ==
  /\ losses < MaxLosses /\ losses' = losses + 1
  /\ phase' = "down" /\ handle' = None
  /\ pointer' \in {pointer, pointerDisk} /\ pointerDisk' = pointer'
  /\ dir' \in {d \in [Generations -> {"absent", "present"}] :
                 \A g \in Generations : dir[g] \in {"absent", "present"} => d[g] = dir[g]}
  /\ forgotten' = {g \in forgotten : dir'[g] = "absent"}
  /\ UNCHANGED <<log, contract, captured, serving, faults, kills>>

Step ==
  \/ Current \/ Capture \/ Refuse \/ Build \/ Flush \/ Prepare \/ Superseded \/ Publish
  \/ Sync \/ (\E g \in Generations : Retire(g)) \/ Retired \/ AllRetired

Next ==
  \/ Step \/ Begin \/ (\E c \in Contracts : Start(c))
  \/ RetireFails \/ Drop \/ Rewarm \/ Append \/ OtherCommit \/ Fail \/ Kill \/ PowerLoss

Spec == Init /\ [][Next]_vars

Searchable == serving /\ IsCurrent(pointer) /\ handle = pointer

\* A service that is down is started again, and the search task runs again after
\* every append and at every cycle; a step of a reconciliation follows the last.
LiveSpec ==
  /\ Spec
  /\ WF_vars(Step) /\ WF_vars(\E c \in Contracts : Start(c)) /\ WF_vars(~Searchable /\ Begin)

-----------------------------------------------------------------------------
(* Properties. *)

Phases == {"down", "idle", "check", "build", "flush", "prepare", "fence", "sync", "retire", "retired"}

\* The types; the handle is empty while the process is down, and a process that
\* is idle serves.
TypeOK ==
  /\ log \in 0..MaxHead /\ captured \in 0..log
  /\ dir \in [Generations -> {"absent", "present", "entering", "leaving"}]
  /\ {pointer, pointerDisk, handle} \subseteq Generations \cup {None}
  /\ contract \in Contracts /\ phase \in Phases /\ serving \in BOOLEAN
  /\ forgotten \in SUBSET Generations
  /\ faults \in 0..MaxFaults /\ kills \in 0..MaxKills /\ losses \in 0..MaxLosses
  /\ phase = "down" => handle = None
  /\ phase = "idle" => serving

Kept(g) == g # None /\ g \notin forgotten => dir[g] = "present"

\* The pointer, and the one a power loss may bring back, name complete generations
\* that a power loss leaves in place, so the guard never refuses to start: through
\* crashes in staging, rename, pointer commit and deletion.  Excepted is a
\* generation whose flush a kill or a failure prevented and that a later build took
\* as it was (NeverDangling is the property without the exception).
PointerComplete == Kept(pointer) /\ Kept(pointerDisk)

\* "Crashes throughout staging, rename, and pointer commit leave either the prior
\* pointer or one complete new pointer"
\* (readable-search-minimum-v1-source-readiness-matrix.md:72).  The code breaks it:
\* a build that finds its generation in the directory points to it without a
\* flush, though a process killed before may have left it unflushed.
NeverDangling == pointer # None => Visible(pointer)

\* A publication names the head the log has at that moment, however many records
\* another process appended while it was built; otherwise only a power loss moves
\* the pointer, back to the one before (ReadableSearchGenerationReconcilerV1).
FencedHead == [][pointer' # pointer => pointer' = pointerDisk \/ pointer'.head = log]_vars

\* Once records, faults and crashes stop, searches are answered at the head,
\* unless the log is over the ceiling or the guard refuses to start.
SearchReturns == <>[](Searchable \/ log > Ceiling \/ ~Accepts)
=============================================================================
