------------------------ MODULE MCModelCallLimiter ------------------------
(* An instance of ModelCallLimiter for TLC. *)
EXTENDS ModelCallLimiter

CONSTANTS note, sweep, question

OneNote == {note}
TwoSessions == {sweep, question}
PriorityOfEach == [c \in {note, sweep, question} |-> IF c = question THEN "interactive" ELSE "background"]
TwoSlots == [concurrent |-> 2, background |-> 1]
OneSlot == [concurrent |-> 1, background |-> 1]
=============================================================================
