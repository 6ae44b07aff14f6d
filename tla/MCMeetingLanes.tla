---------------------------- MODULE MCMeetingLanes ----------------------------
(* Instances of MeetingLanes for TLC. *)
EXTENDS MeetingLanes

FirstWatched == {1}
SecondOnly == {2}
=============================================================================
