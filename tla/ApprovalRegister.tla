--------------------------- MODULE ApprovalRegister ---------------------------
(***************************************************************************)
(* What the approval core promises of one meeting proposal, whatever       *)
(* surface decides it and however often its publication crashes: one final *)
(* decision, one record per chosen destination and only of an approval,    *)
(* and published exactly when all its records are in the log.              *)
(***************************************************************************)
CONSTANTS Proposals, Groups

VARIABLES
  outcome,   \* where each proposal stands
  audience,  \* the destinations an approval chose
  records    \* records in the organization's log, by proposal and destination

vars == <<outcome, audience, records>>

Init ==
  /\ outcome  = [p \in Proposals |-> "queued"]
  /\ audience = [p \in Proposals |-> {}]
  /\ records  = {}

Move(p, from, to) ==
  outcome[p] \in from /\ outcome' = [outcome EXCEPT ![p] = to]

\* The proposal is frozen and shown to its reviewer.
Open(p) == Move(p, {"queued"}, "open") /\ UNCHANGED <<audience, records>>

\* A later revision of its meeting replaces an undecided proposal.
Withdraw(p) == Move(p, {"queued", "open"}, "withdrawn") /\ UNCHANGED <<audience, records>>

Reject(p) == Move(p, {"open"}, "rejected") /\ UNCHANGED <<audience, records>>

Approve(p, G) ==
  /\ Move(p, {"open"}, "approved")
  /\ audience' = [audience EXCEPT ![p] = G]
  /\ UNCHANGED records

Record(p, g) ==
  /\ outcome[p] = "approved" /\ g \in audience[p]
  /\ <<p, g>> \notin records
  /\ records' = records \cup {<<p, g>>}
  /\ UNCHANGED <<outcome, audience>>

Publish(p) ==
  /\ {p} \X audience[p] \subseteq records
  /\ Move(p, {"approved"}, "published")
  /\ UNCHANGED <<audience, records>>

Next ==
  \E p \in Proposals :
    \/ Open(p) \/ Withdraw(p) \/ Reject(p) \/ Publish(p)
    \/ \E G \in (SUBSET Groups) \ {{}} : Approve(p, G)
    \/ \E g \in Groups : Record(p, g)

Spec == Init /\ [][Next]_vars
=============================================================================
