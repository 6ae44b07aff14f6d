------------------------------ MODULE WriterGate ------------------------------
(***************************************************************************)
(* The one in-process writer gate of SerializedMeetingProcessingWorker     *)
(* (serialized-meeting-processing-worker.ts).  There is no lock: each turn *)
(* is chained on the promise of the one queued before it (tail), and a     *)
(* flag says whether a chain exists.  An idle gate starts a turn on its    *)
(* caller's stack.  A turn that starts after the worker's signal is        *)
(* aborted throws without running.                                         *)
(***************************************************************************)
EXTENDS Naturals, Sequences

CONSTANT Operations   \* what a turn may run

VARIABLES
  chain,            \* turns that have not completed, in the order they were requested
  exclusiveActive,  \* whether a new turn is chained on the tail
  aborted           \* the worker's signal

gateVars == <<chain, exclusiveActive>>

GateInit == chain = <<>> /\ exclusiveActive = FALSE

Turn(op, started) == [op |-> op, started |-> started]
Turns == [op : Operations, started : BOOLEAN]

\* The turns of op; a turn is running from its start to its completion.
TurnsOf(op) == {i \in DOMAIN chain : chain[i].op = op}
Running == {i \in DOMAIN chain : chain[i].started}

\* Whether a turn requested now runs before its caller continues.
StartsAtOnce == ~exclusiveActive /\ ~aborted

\* One operation asks for its turn.
RunExclusive(op) ==
  /\ exclusiveActive' = (exclusiveActive \/ ~aborted)
  /\ chain' = IF exclusiveActive \/ ~aborted
              THEN Append(chain, Turn(op, StartsAtOnce))
              ELSE chain

\* Mutant: any completion lowers the flag, not only the tail's.
LeavesIdleAlways(i) == TRUE

\* The completion of the tail leaves no chain.
LeavesIdle(i) == i = Len(chain)

Leave(i) ==
  /\ chain' = SubSeq(chain, 1, i - 1) \o SubSeq(chain, i + 1, Len(chain))
  /\ exclusiveActive' = IF LeavesIdle(i) THEN FALSE ELSE exclusiveActive

\* The turn before the first one has completed.
MayStart(op) == chain # <<>> /\ chain[1].op = op /\ ~chain[1].started

StartTurn(op) ==
  /\ MayStart(op) /\ ~aborted
  /\ chain' = [chain EXCEPT ![1].started = TRUE]
  /\ UNCHANGED exclusiveActive

RefuseTurn(op) == MayStart(op) /\ aborted /\ Leave(1)

\* A running turn of op settles, with a value or an error.
EndTurn(op) == \E i \in Running : chain[i].op = op /\ Leave(i)

\* runExclusive's "one at a time": no two turns run together, although nothing
\* locks and every turn may be requested while another one completes.
GateExclusive == \A i, j \in Running : i = j
=============================================================================
