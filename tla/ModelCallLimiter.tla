--------------------------- MODULE ModelCallLimiter ---------------------------
(***************************************************************************)
(* The process's gate for model calls and the one for research sessions:   *)
(* two limiters of the same kind, one inside the other.  A caller of       *)
(* either waits for a slot; interactive ones go first and may use every    *)
(* slot, background ones only some, and none while the provider struggles. *)
(* A session holds a session slot and makes requests, one at a time, each  *)
(* of which waits for a call slot.                                         *)
(*                                                                         *)
(* Everything a limiter does for one event (an arrival, an abort, the end  *)
(* of a call, its timer) runs without an await, so each event is one step. *)
(***************************************************************************)
EXTENDS Naturals, Sequences, FiniteSets, SequencesExt

CONSTANTS
  Plain,          \* callers of single calls: extraction, notes, Ask
  Sessions,       \* research and writer sessions
  Priority,       \* "interactive" or "background", of each of them
  MaxRequests,    \* bound: requests of a session
  CallLimits, SessionLimits,   \* slots: [concurrent |-> n, background |-> n]
  CooldownMin, CooldownMax,    \* ticks of the first and of the longest pause
  MaxPauses,      \* bound: pauses begun at both limiters
  None

Priorities == {"interactive", "background"}

ASSUME LimitsAssumption ==
  /\ {CallLimits, SessionLimits} \subseteq [concurrent : Nat, background : Nat]
  /\ {CooldownMin, CooldownMax, MaxRequests, MaxPauses} \subseteq Nat
ASSUME PriorityAssumption == Priority \in [Plain \cup Sessions -> Priorities]
ASSUME NoneAssumption == None \notin Nat

Requests(s) == {s} \X (1..MaxRequests)
Calls == Plain \cup UNION {Requests(s) : s \in Sessions}
\* Single calls and requests are named apart.
ASSUME NamesAssumption == \A s \in Sessions : Plain \cap Requests(s) = {}
\* A session's requests have the priority of the session.
PriorityOf(c) == IF c \in Plain \cup Sessions THEN Priority[c] ELSE Priority[c[1]]

VARIABLES
  calls, sessions,  \* the two limiters
  made, settled,    \* requests of a session made so far, and settled; the next one waits for those before it
  aborted           \* sessions whose signal is aborted

limiterVars == <<calls, sessions, made, settled, aborted>>

-----------------------------------------------------------------------------
(* A limiter. "admitted" holds the pauses begun when a running call was      *)
(* admitted, "left" the ticks until pausedUntil, "armed" whether the timer   *)
(* is set; "under" is a history: the calls that ran when a pause began.      *)

Limiter(ids) ==
  [queue    |-> [p \in Priorities |-> <<>>],
   admitted |-> [c \in ids |-> None],
   active |-> 0, background |-> 0,
   cooldown |-> 0, left |-> 0, pauses |-> 0, armed |-> FALSE,
   under |-> {}]

Waiting(l) == ToSet(l.queue["interactive"]) \cup ToSet(l.queue["background"])
Running(l) == {c \in DOMAIN l.admitted : l.admitted[c] # None}

Least(a, b) == IF a < b THEN a ELSE b
FirstOf(q, n) == SubSeq(q, 1, n)
Without(q, n) == SubSeq(q, n + 1, Len(q))

\* Background callers who wait in a pause are woken when it is over.
Arms(l, limits) == l.armed \/ (l.queue["background"] # <<>> /\ l.left > 0)

\* Mutant: the background calls under way do not count.
BackgroundFreeAlways(l, limits) == IF l.left > 0 THEN 0 ELSE limits.background

\* Background slots that are free, none in a pause.
BackgroundFree(l, limits) == IF l.left > 0 THEN 0 ELSE limits.background - l.background

\* How many of a queue pump admits: the waiting interactive calls first, then
\* background ones.
AdmitsInteractive(l, limits) == Least(limits.concurrent - l.active, Len(l.queue["interactive"]))
AdmitsBackground(l, limits) ==
  Least(Least(limits.concurrent - l.active - AdmitsInteractive(l, limits), BackgroundFree(l, limits)),
        Len(l.queue["background"]))
Admits(l, limits, p) == IF p = "interactive" THEN AdmitsInteractive(l, limits) ELSE AdmitsBackground(l, limits)
Goes(l, limits) == UNION {ToSet(FirstOf(l.queue[p], Admits(l, limits, p))) : p \in Priorities}

\* In a pause no background call goes, so what the timer is set for is known beforehand.
Pumped(l, limits) ==
  [l EXCEPT !.queue = [p \in Priorities |-> Without(l.queue[p], Admits(l, limits, p))],
            !.admitted = [c \in DOMAIN l.admitted |-> IF c \in Goes(l, limits) THEN l.pauses ELSE l.admitted[c]],
            !.active = @ + AdmitsInteractive(l, limits) + AdmitsBackground(l, limits),
            !.background = @ + AdmitsBackground(l, limits),
            !.armed = Arms(l, limits)]

Arrived(l, limits, c) == Pumped([l EXCEPT !.queue[PriorityOf(c)] = Append(@, c)], limits)

\* The abort listener of a caller who waits.
Left(l, c) == [l EXCEPT !.queue[PriorityOf(c)] = RemoveAt(@, CHOOSE i \in DOMAIN @ : @[i] = c)]

\* Mutant: any call's end speaks for the provider.
SpeaksAlways(l, c) == l.left = 0

\* A call speaks for the provider when it was admitted since the latest pause
\* began and that pause is over.
Speaks(l, c) == l.admitted[c] = l.pauses /\ l.left = 0

Longer(cooldown) == IF cooldown = 0 THEN CooldownMin ELSE Least(2 * cooldown, CooldownMax)

\* What an ended call tells: its success ends the doubling, its transient
\* failure begins a pause.
Told(l, c, outcome) ==
  IF ~Speaks(l, c) \/ outcome = "failure" THEN l
  ELSE IF outcome = "value" THEN [l EXCEPT !.cooldown = 0]
  ELSE [l EXCEPT !.cooldown = Longer(@), !.left = Longer(l.cooldown), !.pauses = @ + 1,
                 !.under = Running(l)]

\* The limiters an end of c may leave, before anybody is admitted.
Ended(l, c, outcomes) ==
  {[Told(l, c, outcome) EXCEPT
      !.admitted[c] = None, !.under = @ \ {c}, !.active = @ - 1,
      !.background = IF PriorityOf(c) = "background" THEN @ - 1 ELSE @] : outcome \in outcomes}

\* Mutant: the timer only clears itself.
WokenOnly(l, limits) == [l EXCEPT !.armed = FALSE]

\* The timer may fire a little early or late: then it is set again.
Woken(l, limits) == Pumped([l EXCEPT !.armed = FALSE], limits)

Outcomes == {"value", "failure"} \cup (IF calls.pauses + sessions.pauses < MaxPauses THEN {"transient"} ELSE {})

-----------------------------------------------------------------------------
LimiterInit ==
  /\ calls = Limiter(Calls) /\ sessions = Limiter(Sessions)
  /\ made = [s \in Sessions |-> 0] /\ settled = [s \in Sessions |-> 0]
  /\ aborted = {}

(* Single calls. *)

Call(c) ==
  /\ c \notin Waiting(calls) \cup Running(calls)
  /\ calls' = Arrived(calls, CallLimits, c)
  /\ UNCHANGED <<sessions, made, settled, aborted>>

\* The caller's signal is aborted while it waits.
CallLeaves(c) ==
  /\ c \in Waiting(calls)
  /\ calls' = Left(calls, c)
  /\ UNCHANGED <<sessions, made, settled, aborted>>

CallEnds(c) ==
  /\ c \in Running(calls)
  /\ UNCHANGED <<sessions, made, settled, aborted>>
  /\ \E ended \in Ended(calls, c, Outcomes) : calls' = Pumped(ended, CallLimits)

(* Sessions. *)

\* A session begins to wait; its name is used again once nothing of it is left.
Open(s) ==
  /\ s \notin Waiting(sessions) \cup Running(sessions) /\ settled[s] = made[s]
  /\ sessions' = Arrived(sessions, SessionLimits, s)
  /\ made' = [made EXCEPT ![s] = 0] /\ settled' = [settled EXCEPT ![s] = 0]
  /\ aborted' = aborted \ {s}
  /\ UNCHANGED calls

\* The next request of s that is not settled.
NextOf(s) == <<s, settled[s] + 1>>
Settles(s) == settled' = [settled EXCEPT ![s] = @ + 1]

\* The session's program makes a request, perhaps before the one before it ended.
Request(s) ==
  /\ s \in Running(sessions) /\ made[s] < MaxRequests
  /\ made' = [made EXCEPT ![s] = @ + 1]
  /\ UNCHANGED <<calls, sessions, settled, aborted>>

\* The requests before it are settled: it waits for a call slot, unless its
\* session was aborted.
Enter(s) ==
  /\ settled[s] < made[s] /\ NextOf(s) \notin Waiting(calls) \cup Running(calls)
  /\ IF s \in aborted THEN Settles(s) /\ UNCHANGED calls
     ELSE calls' = Arrived(calls, CallLimits, NextOf(s)) /\ UNCHANGED settled
  /\ UNCHANGED <<sessions, made, aborted>>

\* A writer's request expires while it waits.
RequestLeaves(s) ==
  /\ settled[s] < made[s] /\ NextOf(s) \in Waiting(calls)
  /\ calls' = Left(calls, NextOf(s))
  /\ Settles(s)
  /\ UNCHANGED <<sessions, made, aborted>>

RequestEnds(s) ==
  /\ settled[s] < made[s] /\ NextOf(s) \in Running(calls)
  /\ Settles(s)
  /\ UNCHANGED <<sessions, made, aborted>>
  /\ \E ended \in Ended(calls, NextOf(s), Outcomes) : calls' = Pumped(ended, CallLimits)

\* One signal for both limiters.
AbortSession(s) ==
  /\ s \notin aborted /\ (s \in Waiting(sessions) \cup Running(sessions) \/ settled[s] < made[s])
  /\ aborted' = aborted \cup {s}
  /\ sessions' = IF s \in Waiting(sessions) THEN Left(sessions, s) ELSE sessions
  /\ IF settled[s] < made[s] /\ NextOf(s) \in Waiting(calls)
       THEN calls' = Left(calls, NextOf(s)) /\ Settles(s)
       ELSE UNCHANGED <<calls, settled>>
  /\ UNCHANGED made

\* The session's program is done with its requests, or fails before that and
\* leaves them behind.
CloseSession(s) ==
  /\ s \in Running(sessions)
  /\ UNCHANGED <<calls, made, settled, aborted>>
  /\ LET may == IF settled[s] = made[s] THEN Outcomes ELSE Outcomes \ {"value"}
     IN \E ended \in Ended(sessions, s, may) : sessions' = Pumped(ended, SessionLimits)

CloseDone(s) == settled[s] = made[s] /\ CloseSession(s)

(* Time. *)

Wake ==
  \/ calls.armed /\ calls' = Woken(calls, CallLimits) /\ UNCHANGED <<sessions, made, settled, aborted>>
  \/ sessions.armed /\ sessions' = Woken(sessions, SessionLimits) /\ UNCHANGED <<calls, made, settled, aborted>>

Earlier(l) == IF l.left = 0 THEN l ELSE [l EXCEPT !.left = @ - 1]

Tick ==
  /\ calls.left + sessions.left > 0
  /\ calls' = Earlier(calls) /\ sessions' = Earlier(sessions)
  /\ UNCHANGED <<made, settled, aborted>>

LimiterNext ==
  \/ \E c \in Plain : Call(c) \/ CallLeaves(c) \/ CallEnds(c)
  \/ \E s \in Sessions : \/ Open(s) \/ Request(s) \/ Enter(s) \/ RequestLeaves(s) \/ RequestEnds(s)
                         \/ AbortSession(s) \/ CloseSession(s)
  \/ Wake \/ Tick

LimiterSpec == LimiterInit /\ [][LimiterNext]_limiterVars

Present(c) == c \in Waiting(calls) \cup Running(calls) \cup Waiting(sessions) \cup Running(sessions)

\* Callers behind whom others may wait for ever, by design, if they never stop.
InteractiveComes ==
  \E c \in Plain \cup Sessions : Priority[c] = "interactive" /\ ~Present(c) /\ Present(c)'

\* What a session does by itself; one of the three at a time.
GoesOn(s) == Enter(s) \/ RequestEnds(s) \/ CloseDone(s)

\* Calls end, a session whose requests are settled ends, a settled request lets
\* the next one wait, timers fire and time passes; interactive demand pauses.
LiveSpec ==
  /\ LimiterSpec
  /\ \A c \in Plain : WF_limiterVars(CallEnds(c))
  /\ \A s \in Sessions : WF_limiterVars(GoesOn(s))
  /\ WF_limiterVars(Wake) /\ WF_limiterVars(Tick)
  /\ <>[][~InteractiveComes]_limiterVars

-----------------------------------------------------------------------------
(* Properties. *)

\* No slot leaks and none is used twice, whatever mix of ends, failures and
\* aborts came: each counter is the number of calls that run, within its limit.
Fits(l, limits) ==
  /\ l.active = Cardinality(Running(l)) /\ l.active <= limits.concurrent
  /\ l.background = Cardinality({c \in Running(l) : PriorityOf(c) = "background"})
  /\ l.background <= limits.background
SlotsFit == Fits(calls, CallLimits) /\ Fits(sessions, SessionLimits)

\* A pause is one episode's: calls that ran when it began neither lengthen nor
\* shorten it, nor change how long the next one is.
Changes(l, m) == m.cooldown # l.cooldown \/ m.left > l.left
OncePerEpisode(l, m) ==
  Changes(l, m) => l.left = 0 /\ \E c \in Running(l) \ l.under : m.admitted[c] # l.admitted[c]
PausesOnce ==
  [][OncePerEpisode(calls, calls') /\ OncePerEpisode(sessions, sessions')]_limiterVars

\* Nobody waits for ever: sessions that hold their slots while their requests
\* wait for calls' slots do not block each other, and no pause outlasts its timer.
AllServed ==
  /\ \A c \in Calls : []<>(c \notin Waiting(calls))
  /\ \A s \in Sessions : []<>(s \notin Waiting(sessions))
=============================================================================
