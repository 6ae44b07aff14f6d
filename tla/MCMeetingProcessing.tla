------------------------- MODULE MCMeetingProcessing -------------------------
(* Instances of MeetingProcessing for TLC. *)
EXTENDS MeetingProcessing

CONSTANTS m1, m2, p1, p2, x, d1, d2, d0

OneMeeting == {m1}
TwoMeetings == {m1, m2}
OnePass == {p1}
TwoPasses == {p1, p2}
OneProject == {x}
NoProject == {}
OneResult == {d0}
TwoResults == {d0, d1}

OneContent == <<"r1">>
OneInput == [r \in {"r1"} |-> "i"]

\* An edit of fields extraction does not read, one of what it reads, and the
\* first content again.
EditedAndUndone == <<"r1", "r2", "r3", "r1">>
InputOfEdits == [r \in {"r1", "r2", "r3"} |-> IF r = "r3" THEN "j" ELSE "i"]

\* The watch changes only while a meeting's contents have one input.
WatchChangesEarly == setting.rev > 0 => \A m \in Meetings : edits[m] <= 2
=============================================================================
