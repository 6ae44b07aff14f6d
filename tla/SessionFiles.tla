---------------------------- MODULE SessionFiles ----------------------------
(***************************************************************************)
(* The Person session of one private directory, as its client processes    *)
(* (desktop, CLI, SDK) and the Authority see it.  A client keeps the       *)
(* session in `live`, sets it aside as `refreshing` under the claim        *)
(* `refresh_claim` to rotate it, or as `logging_out` under `logout_claim`  *)
(* to end it.  No process is told what the others do: they meet in these   *)
(* files, one call of the file system at a time, and through the entries   *)
(* of the operations directory, by which a refresh waits for the requests  *)
(* that use the access credential it will revoke.                          *)
(*                                                                         *)
(* A token stands for the credential pair of one rotation of one session   *)
(* family.  The Authority accepts a refresh only of the pair it issued     *)
(* last, and revokes the whole family when an older one is submitted.      *)
(***************************************************************************)
EXTENDS Integers

CONSTANTS
  Clients,      \* operations in flight, each in a process of its own
  Does,         \* what each client is used for
  MaxFamilies,  \* bound on sign-ins, the one at the start included
  MaxRotation,  \* bound on the rotations of a family
  MaxCrashes,   \* bound on crashes
  None

Operations == {"read", "refresh", "status", "signin", "signout"}

Families == 1..MaxFamilies
Tokens == [family : Families, rotation : 0..MaxRotation]

ASSUME ClientsAssumption ==
  /\ None \notin Clients
  /\ Does \in [Clients -> SUBSET Operations]
ASSUME BoundsAssumption ==
  MaxFamilies \in Nat \ {0} /\ MaxRotation \in Nat /\ MaxCrashes \in Nat
ASSUME NoneAssumption == None \notin Tokens /\ None \notin 0..MaxRotation

VARIABLES
  live, refreshing,    \* a token or None: the session's own file, and the one set aside
  claim,               \* refresh_claim: the client whose id it holds, or None
  leaving, logout,     \* logging_out (a token or None) and whether logout_claim exists
  entries,             \* the operations directory: entries of running operations
  left,                \* kinds of entries of crashed processes nothing can prove gone yet
  client,              \* what each client does, with what it holds in memory
  issued, ended,       \* Authority: rotation last issued per family; families revoked
  replayed,            \* history: families revoked because an old token was submitted
  cleared,             \* history: clients whose entry a sign-in or sign-out removed
  overtaken,           \* history: clients past which a sign-in came between two of their calls
  crossed,             \* history: whether one of those then took another client's session
  crashes              \* crashes so far

files == <<live, refreshing, claim, leaving, logout>>
coordination == <<entries, left, cleared>>
authority == <<issued, ended, replayed>>
history == <<overtaken, crossed, crashes>>
vars == <<files, coordination, client, authority, history>>

Resting == [op |-> "none", pc |-> "idle", token |-> None, renewed |-> FALSE]

At(p, pc) == client[p].pc = pc
NewFamily == {f \in Families : issued[f] = None /\ \A g \in Families : g < f => issued[g] # None}

Init ==
  /\ live = [family |-> 1, rotation |-> 0]
  /\ refreshing = None /\ claim = None /\ leaving = None /\ logout = FALSE
  /\ entries = {} /\ left = {}
  /\ client = [p \in Clients |-> Resting]
  /\ issued = [f \in Families |-> IF f = 1 THEN 0 ELSE None]
  /\ ended = {} /\ replayed = {} /\ cleared = {}
  /\ overtaken = {} /\ crossed = FALSE /\ crashes = 0

-----------------------------------------------------------------------------
(* Steps of one client.                                                      *)

Goes(p, pc) == client' = [client EXCEPT ![p].pc = pc]
Holds(p, pc, t) == client' = [client EXCEPT ![p].pc = pc, ![p].token = t]
Rests(p) == client' = [client EXCEPT ![p] = Resting]

Begins(p, op, pc) ==
  /\ At(p, "idle") /\ op \in Does[p]
  /\ client' = [client EXCEPT ![p].op = op, ![p].pc = pc]

Present == live # None \/ claim # None

\* What a listing finds: entries of running clients, and those of crashed ones
\* whose process cannot be proved gone.
Found(kind) == kind \in left \/ \E p \in Clients : <<p, kind>> \in entries
FoundBeside(p, kind) == kind \in left \/ \E q \in Clients \ {p} : <<q, kind>> \in entries

Own(p) == {<<p, kind>> : kind \in {"read", "refresh"}}
Enters(p, kind) == entries' = entries \cup {<<p, kind>>} /\ cleared' = cleared \ {p} /\ UNCHANGED left
Leaves(p) == entries' = entries \ Own(p) /\ cleared' = cleared \ {p} /\ UNCHANGED left

\* Signing in or out removes every entry, whoever made it.
ClearsOperations ==
  /\ entries' = {} /\ left' = {}
  /\ cleared' = cleared \cup {p \in Clients : entries \cap Own(p) # {}}

\* Clients whose next call of the file system relies on what their last one
\* found: between the rename and the read of what it moved, or between the
\* check of the claim and the link. A session made live then overtakes them: a
\* sign-in's, or that of a client overtaken itself.
BetweenCalls == {q \in Clients : client[q].pc \in {"opening aside", "linking", "relinking"}}
Overtakes(p) ==
  overtaken' = IF At(p, "installing") \/ p \in overtaken THEN (overtaken \cup BetweenCalls) \ {p}
                                                         ELSE overtaken \ {p}

\* It then takes the session that lies aside for the one it set aside itself.
Crosses(p) == crossed' = (crossed \/ (p \in overtaken /\ refreshing # client[p].token))

-----------------------------------------------------------------------------
(* PersonSessionOperations.read and withSession: a request under a read      *)
(* entry, after one refresh if its access credential expires too soon.       *)

ReadBegins(p) ==
  /\ Present /\ Begins(p, "read", "listing")
  /\ UNCHANGED <<files, coordination, authority, history>>

\* Waits while a refresh is intended, then enters.
ReadLists(p) ==
  /\ At(p, "listing") /\ ~Found("refresh") /\ Goes(p, "entering")
  /\ UNCHANGED <<files, coordination, authority, history>>

ReadEnters(p) ==
  /\ At(p, "entering")
  /\ Enters(p, "read") /\ Goes(p, "entered")
  /\ UNCHANGED <<files, authority, history>>

\* Mutant: it does not look again after it registered.
ReadYieldsNever == FALSE

\* "Register before checking again": an intent made meanwhile goes first.
ReadYields == Found("refresh")

ReadRechecks(p) ==
  /\ At(p, "entered")
  /\ IF ReadYields THEN Leaves(p) /\ Goes(p, "listing")
                   ELSE Goes(p, "reading") /\ UNCHANGED coordination
  /\ UNCHANGED <<files, authority, history>>

\* `echo person status` and the checks around a request read the store beside
\* the operations directory.
StatusBegins(p) ==
  /\ Begins(p, "status", "reading")
  /\ UNCHANGED <<files, coordination, authority, history>>

Fails(p) ==
  /\ Rests(p) /\ Leaves(p) /\ overtaken' = overtaken \ {p}
  /\ UNCHANGED <<files, authority, crossed, crashes>>

\* A live session beside a claim and a session set aside is a refresh that
\* ended: the reader removes what is left of it, one file after another.
\* A claim alone, or a sign-out's, is one that was interrupted.
Readable == live # None /\ claim = None /\ ~logout
Finished == live # None /\ claim # None /\ refreshing # None

HasSession(p, t) ==
  IF client[p].op = "read" THEN Holds(p, "deciding", t) /\ UNCHANGED coordination
                           ELSE Rests(p) /\ Leaves(p)

StoreRead(p) ==
  /\ At(p, "reading")
  /\ \/ Readable /\ HasSession(p, live) /\ UNCHANGED <<files, authority, history>>
     \/ Finished /\ Goes(p, "opening") /\ UNCHANGED <<files, coordination, authority, history>>
     \/ ~Readable /\ ~Finished /\ Fails(p)

StoreOpened(p) ==
  /\ At(p, "opening")
  /\ IF live = None THEN Fails(p)
     ELSE Holds(p, "tidying refreshing", live) /\ UNCHANGED <<files, coordination, authority, history>>

TidyRefreshing(p) ==
  /\ At(p, "tidying refreshing")
  /\ refreshing' = None /\ Goes(p, "tidying claim")
  /\ UNCHANGED <<live, claim, leaving, logout, coordination, authority, history>>

TidyClaim(p) ==
  /\ At(p, "tidying claim")
  /\ claim' = None /\ Goes(p, "tidying leaving")
  /\ UNCHANGED <<live, refreshing, leaving, logout, coordination, authority, history>>

TidyLeaving(p) ==
  /\ At(p, "tidying leaving")
  /\ leaving' = None /\ logout' = FALSE /\ HasSession(p, client[p].token)
  /\ UNCHANGED <<live, refreshing, claim, authority, history>>

\* Enough of the access credential's lifetime is left, or one refresh gets more.
RequestSent(p) ==
  /\ At(p, "deciding") /\ Goes(p, "requesting")
  /\ UNCHANGED <<files, coordination, authority, history>>

\* Mutant: the read entry is kept while the refresh waits for reads.
ExpiresSoonHolding(p) ==
  /\ At(p, "deciding") /\ ~client[p].renewed /\ Holds(p, "renewing", None)
  /\ UNCHANGED <<files, coordination, authority, history>>

ExpiresSoon(p) ==
  /\ At(p, "deciding") /\ Leaves(p)
  /\ IF client[p].renewed THEN Rests(p) ELSE Holds(p, "renewing", None)
  /\ UNCHANGED <<files, authority, history>>

RequestEnds(p) ==
  /\ At(p, "requesting") /\ Rests(p) /\ Leaves(p)
  /\ UNCHANGED <<files, authority, history>>

-----------------------------------------------------------------------------
(* PersonSessionOperations.refresh with the store's claim.                   *)

\* Asked for on its own, or by a read that gave up its entry ("Never wait for
\* a refresh while holding our own read lease").
RefreshBegins(p) ==
  /\ Present
  /\ \/ Begins(p, "refresh", "intending")
     \/ At(p, "renewing") /\ Goes(p, "intending")
  /\ Enters(p, "refresh")
  /\ UNCHANGED <<files, authority, history>>

RenewalRefused(p) ==
  /\ At(p, "renewing") /\ ~Present /\ Fails(p)

\* Registers again when its entry was cleared, and waits for every read.
Intends(p) ==
  /\ At(p, "intending")
  /\ IF <<p, "refresh">> \notin entries
     THEN Enters(p, "refresh") /\ UNCHANGED client
     ELSE ~Found("read") /\ Goes(p, "claiming") /\ UNCHANGED coordination
  /\ UNCHANGED <<files, authority, history>>

Claims(p) ==
  /\ At(p, "claiming")
  /\ IF claim = None THEN claim' = p /\ Goes(p, "moving")
                     ELSE UNCHANGED claim /\ Goes(p, "busy")
  /\ UNCHANGED <<live, refreshing, leaving, logout, coordination, authority, history>>

\* Another refresh has the claim.  It is waited for if it has an entry;
\* otherwise it died, and the session needs a sign-in.
FindsBusy(p) ==
  /\ At(p, "busy")
  /\ IF FoundBeside(p, "refresh")
     THEN Goes(p, "intending") /\ UNCHANGED <<files, coordination, authority, history>>
     ELSE Fails(p)

\* Mutant: the credential is copied, and live stays while the refresh runs.
MovesCopy(p) ==
  /\ At(p, "moving") /\ live # None
  /\ refreshing' = live /\ Holds(p, "opening aside", live)
  /\ UNCHANGED <<live, claim, leaving, logout, coordination, authority, history>>

\* The credential is set aside by a rename, which one process at most can win.
\* (Its token here is history: no client knows what it moved before it reads it.)
Moves(p) ==
  /\ At(p, "moving")
  /\ IF live # None
     THEN refreshing' = live /\ live' = None /\ Holds(p, "opening aside", live)
     ELSE UNCHANGED <<live, refreshing>> /\ Goes(p, "unclaiming")
  /\ UNCHANGED <<claim, leaving, logout, coordination, authority, history>>

\* Whatever lies aside by then.
OpensAside(p) ==
  /\ At(p, "opening aside")
  /\ IF refreshing = None THEN Fails(p)
     ELSE /\ Holds(p, "sending", refreshing) /\ Crosses(p) /\ overtaken' = overtaken \ {p}
          /\ UNCHANGED <<files, coordination, authority, crashes>>

\* The Authority's answer to a submitted token: one write transaction.
Current(t) == t.family \notin ended /\ t.rotation = issued[t.family]
Rotated(t) == [t EXCEPT !.rotation = t.rotation + 1]

Rotates(t) ==
  /\ Current(t) /\ t.rotation < MaxRotation
  /\ issued' = [issued EXCEPT ![t.family] = t.rotation + 1]
  /\ UNCHANGED <<ended, replayed>>

Refuses(t) ==
  /\ ~Current(t)
  /\ replayed' = IF t.family \in ended THEN replayed ELSE replayed \cup {t.family}
  /\ ended' = ended \cup {t.family} /\ UNCHANGED issued

\* A membership, binding or credential that ended meanwhile ends the family.
Expires(t) ==
  /\ Current(t) /\ ended' = ended \cup {t.family} /\ UNCHANGED <<issued, replayed>>

\* Mutant: a session whose refresh was not answered is put back.
UnansweredKept(p) ==
  /\ At(p, "sending")
  /\ Rotates(client[p].token) \/ Refuses(client[p].token) \/ UNCHANGED authority
  /\ Goes(p, "restoring")
  /\ UNCHANGED <<files, coordination, history>>

\* Submitted: answered with the next pair, answered with a refusal, or not
\* answered, in which case the Authority may have rotated all the same.
Answered(p) ==
  /\ At(p, "sending") /\ Rotates(client[p].token) /\ Goes(p, "completing")
  /\ UNCHANGED <<files, coordination, history>>

Unanswered(p) ==
  /\ At(p, "sending")
  /\ Rotates(client[p].token) \/ Refuses(client[p].token) \/ Expires(client[p].token) \/ UNCHANGED authority
  /\ Goes(p, "dropping")
  /\ UNCHANGED <<files, coordination, history>>

\* Nothing left this machine.
Unsent(p) ==
  /\ At(p, "sending") /\ Goes(p, "restoring")
  /\ UNCHANGED <<files, coordination, authority, history>>

\* The claim is still this client's, beside the session it set aside and none live.
Owns(p) == live = None /\ claim = p /\ refreshing = client[p].token

Continues(p, pc) == IF Owns(p) THEN Goes(p, pc) /\ UNCHANGED coordination ELSE Rests(p) /\ Leaves(p)

Completes(p) ==
  /\ At(p, "completing") /\ Continues(p, "linking")
  /\ UNCHANGED <<files, authority, history>>

\* Both links are exclusive: they never replace a session installed meanwhile.
Links(p) ==
  /\ At(p, "linking")
  /\ IF live # None THEN Fails(p)
     ELSE /\ live' = Rotated(client[p].token) /\ Goes(p, "checking claim") /\ Overtakes(p)
          /\ UNCHANGED <<refreshing, claim, leaving, logout, coordination, authority, crossed, crashes>>

Restores(p) ==
  /\ At(p, "restoring") /\ Continues(p, "relinking")
  /\ UNCHANGED <<files, authority, history>>

Relinks(p) ==
  /\ At(p, "relinking")
  /\ IF live # None \/ refreshing = None THEN Fails(p)
     ELSE /\ live' = refreshing /\ Crosses(p) /\ Overtakes(p)
          /\ client' = [client EXCEPT ![p].pc = "checking claim", ![p].op = "refresh"]
          /\ UNCHANGED <<refreshing, claim, leaving, logout, coordination, authority, crashes>>

\* Any other failure leaves the store signed out.
Drops(p) ==
  /\ At(p, "dropping")
  /\ IF Owns(p) THEN client' = [client EXCEPT ![p].pc = "checking claim", ![p].op = "refresh"] /\ UNCHANGED coordination
                ELSE Rests(p) /\ Leaves(p)
  /\ UNCHANGED <<files, authority, history>>

\* A refresh that ended for a read goes back to it; any other is over.
RefreshDone(p) ==
  /\ Leaves(p)
  /\ IF client[p].op = "read"
     THEN client' = [client EXCEPT ![p].pc = "listing", ![p].token = None, ![p].renewed = TRUE]
     ELSE Rests(p)

\* Removes this refresh's claim and session set aside, unless another process
\* has claimed since.
ChecksClaim(p) ==
  /\ At(p, "checking claim")
  /\ IF claim = p THEN Goes(p, "removing aside") /\ UNCHANGED coordination ELSE RefreshDone(p)
  /\ UNCHANGED <<files, authority, history>>

RemovesAside(p) ==
  /\ At(p, "removing aside") /\ refreshing' = None /\ Goes(p, "removing claim")
  /\ UNCHANGED <<live, claim, leaving, logout, coordination, authority, history>>

RemovesClaim(p) ==
  /\ At(p, "removing claim") /\ claim' = None /\ RefreshDone(p)
  /\ UNCHANGED <<live, refreshing, leaving, logout, authority, history>>

\* Nothing was left to set aside: the claim must not outlive the attempt.
Unclaims(p) ==
  /\ At(p, "unclaiming")
  /\ IF claim = p THEN Goes(p, "removing own") /\ UNCHANGED <<files, coordination, authority, history>> ELSE Fails(p)

RemovesOwn(p) ==
  /\ At(p, "removing own") /\ claim' = None /\ Rests(p) /\ Leaves(p)
  /\ UNCHANGED <<live, refreshing, leaving, logout, authority, history>>

-----------------------------------------------------------------------------
(* Signing in and out.                                                       *)

\* A sign-in starts in the browser, from a store without a readable session.
SignInBegins(p) ==
  /\ ~Readable /\ ~Finished
  /\ Begins(p, "signin", "in browser")
  /\ UNCHANGED <<files, coordination, authority, history>>

\* "Before the new session exists, so no operation on it loses its entry."
SignInClears(p) ==
  /\ At(p, "in browser") /\ NewFamily # {}
  /\ ClearsOperations /\ Goes(p, "installing")
  /\ UNCHANGED <<files, authority, history>>

\* The new family's session replaces whatever is live, at any time.
SignInInstalls(p) ==
  /\ At(p, "installing") /\ Overtakes(p)
  /\ \E f \in NewFamily :
       /\ issued' = [issued EXCEPT ![f] = 0]
       /\ live' = [family |-> f, rotation |-> 0]
       /\ Holds(p, "tidying refreshing", live')
  /\ UNCHANGED <<refreshing, claim, leaving, logout, coordination, ended, replayed, crossed, crashes>>

SignOutClaims(p) ==
  /\ ~logout /\ logout' = TRUE
  /\ Begins(p, "signout", "leaving")
  /\ UNCHANGED <<live, refreshing, claim, leaving, coordination, authority, history>>

\* A session set aside by a refresh cannot be signed out, and the claim stays.
SignOutMoves(p) ==
  /\ At(p, "leaving")
  /\ IF live = None THEN Rests(p) /\ UNCHANGED <<live, leaving>>
     ELSE /\ leaving' = live /\ live' = None
          /\ Holds(p, "revoking", live)
  /\ UNCHANGED <<refreshing, claim, logout, coordination, authority, history>>

\* The Authority ends the family, or is not reached; either way the local
\* session goes.
SignOutRevokes(p) ==
  /\ At(p, "revoking")
  /\ ended' \in {ended, ended \cup {client[p].token.family}}
  /\ Goes(p, "finishing")
  /\ UNCHANGED <<files, coordination, issued, replayed, history>>

SignOutForgets(p) ==
  /\ At(p, "finishing")
  /\ leaving' = None /\ logout' = FALSE /\ Goes(p, "clearing")
  /\ UNCHANGED <<live, refreshing, claim, coordination, authority, history>>

SignOutClears(p) ==
  /\ At(p, "clearing") /\ ClearsOperations /\ Rests(p)
  /\ UNCHANGED <<files, authority, history>>

-----------------------------------------------------------------------------
(* Crashes.  A dead process's entry counts for nobody once its process is    *)
(* known to be gone; where its number may be another's, or may not be asked  *)
(* about, the entry stays until nobody has renewed it for ten minutes.       *)

Crash(p) ==
  /\ ~At(p, "idle") /\ Rests(p)
  /\ crashes < MaxCrashes /\ crashes' = crashes + 1 /\ overtaken' = overtaken \ {p} /\ UNCHANGED crossed
  /\ entries' = entries \ Own(p) /\ cleared' = cleared \ {p}
  /\ left' \in {left, left \cup {kind \in {"read", "refresh"} : <<p, kind>> \in entries}}
  /\ UNCHANGED <<files, authority>>

EntryAges(kind) ==
  /\ kind \in left /\ left' = left \ {kind}
  /\ UNCHANGED <<files, entries, cleared, client, authority, history>>

-----------------------------------------------------------------------------

\* A waiting operation is cancelled, or its deadline of eleven minutes passes.
GivesUp(p) == (At(p, "listing") \/ At(p, "intending")) /\ Fails(p)

Starts(p) == ReadBegins(p) \/ StatusBegins(p) \/ SignInBegins(p) \/ SignOutClaims(p)

ReadStep(p) ==
  \/ ReadLists(p) \/ ReadEnters(p) \/ ReadRechecks(p) \/ StoreRead(p) \/ StoreOpened(p)
  \/ TidyRefreshing(p) \/ TidyClaim(p) \/ TidyLeaving(p)
  \/ RequestSent(p) \/ ExpiresSoon(p) \/ RequestEnds(p)

RefreshStep(p) ==
  \/ RenewalRefused(p) \/ Intends(p) \/ Claims(p) \/ FindsBusy(p)
  \/ Moves(p) \/ OpensAside(p) \/ Answered(p) \/ Unanswered(p) \/ Unsent(p)
  \/ Completes(p) \/ Links(p) \/ Restores(p) \/ Relinks(p) \/ Drops(p)
  \/ ChecksClaim(p) \/ RemovesAside(p) \/ RemovesClaim(p) \/ Unclaims(p) \/ RemovesOwn(p)

SignStep(p) ==
  \/ SignInClears(p) \/ SignInInstalls(p)
  \/ SignOutMoves(p) \/ SignOutRevokes(p) \/ SignOutForgets(p) \/ SignOutClears(p)

Next ==
  \/ \E p \in Clients :
       \/ Starts(p) \/ RefreshBegins(p) \/ ReadStep(p) \/ RefreshStep(p) \/ SignStep(p)
       \/ GivesUp(p) \/ Crash(p)
  \/ \E kind \in {"read", "refresh"} : EntryAges(kind)

Spec == Init /\ [][Next]_vars

\* Clients run, requests and refreshes have timeouts, entries age.  Access
\* credentials do not expire at every request, and processes stop crashing.
\* Nothing is assumed of the deadline of a wait.
LiveSpec ==
  /\ Spec
  /\ \A p \in Clients :
       WF_vars(ReadStep(p) \/ RefreshStep(p) \/ (At(p, "renewing") /\ RefreshBegins(p)))
  /\ \A kind \in {"read", "refresh"} : WF_vars(EntryAges(kind))
  /\ <>[][\A p \in Clients : ~(At(p, "idle") /\ RefreshBegins(p)) /\ ~ExpiresSoon(p)]_vars

-----------------------------------------------------------------------------
(* Properties. *)

Positions ==
  {"idle", "listing", "entering", "entered", "reading", "opening", "tidying refreshing", "tidying claim",
   "tidying leaving", "deciding", "requesting", "renewing", "intending",
   "claiming", "busy", "moving", "opening aside", "sending", "completing", "linking", "restoring",
   "relinking", "dropping", "checking claim", "removing aside", "removing claim", "unclaiming",
   "removing own", "in browser", "installing", "leaving", "revoking", "finishing", "clearing"}

\* Where a client holds the token it read, set aside, submits, submitted or puts back.
Holding == {"tidying refreshing", "tidying claim", "tidying leaving", "deciding", "requesting", "opening aside",
            "sending", "completing", "linking", "restoring", "relinking", "dropping", "revoking"}

\* Where a client was answered with the pair after the one it holds.
Renewing == {"completing", "linking"}

ClientTypes == [op : Operations \cup {"none"}, pc : Positions, token : Tokens \cup {None}, renewed : BOOLEAN]

\* The files hold sessions the Authority issued, the directory entries of
\* clients, and nobody submits a session it does not hold.
FilesOK ==
  /\ live \in Tokens \cup {None} /\ refreshing \in Tokens \cup {None} /\ leaving \in Tokens \cup {None}
  /\ claim \in Clients \cup {None} /\ logout \in BOOLEAN

EntriesOK ==
  /\ entries \subseteq Clients \X {"read", "refresh"} /\ left \subseteq {"read", "refresh"}
  /\ cleared \subseteq Clients

ClientsOK ==
  /\ client \in [Clients -> ClientTypes]
  /\ \A p \in Clients :
       /\ client[p].pc \in Holding => client[p].token # None
       /\ client[p].pc \in Renewing => client[p].token.rotation < MaxRotation

AuthorityOK ==
  /\ issued \in [Families -> (0..MaxRotation) \cup {None}]
  /\ ended \subseteq Families /\ replayed \subseteq ended

HistoryOK == overtaken \subseteq Clients /\ crossed \in BOOLEAN /\ crashes \in 0..MaxCrashes

TypeOK == FilesOK /\ EntriesOK /\ ClientsOK /\ AuthorityOK /\ HistoryOK

\* "A token already submitted is never replayed" (session-operations.ts:173):
\* the Authority never ends a family because a used token was submitted
\* (personIdentitySessions.refresh).  The code breaks it: a refresh that a
\* sign-in overtook between its rename and its read may read the session another
\* refresh has set aside since, and both submit it.
NeverReplayed == replayed = {}

\* The live session is the one the Authority issued last for its family.
LiveIsCurrent == live # None => live.rotation = issued[live.family]

\* That is the only way: however processes crash, answers are lost, sign-ins fall
\* between any two calls and clients meet in the directory, a used token is
\* submitted only after an overtaken client took another's session.
ReplayTakesCrossing == ~crossed => NeverReplayed

\* Nor does a late completion, past any sign-in, or a restored claim make a used
\* token live again, unless a client took another's session so.
StaleTakesCrossing == ~crossed => LiveIsCurrent

\* "Publication cannot replace a newer explicit login" (ADR-0002): nobody links
\* the session of an older sign-in while that of a newer one is being refreshed.
\* The code breaks it: the claim is checked before the link, and a sign-in and
\* its own refresh fit between.
NewerLoginStands == live # None /\ refreshing # None => live.family >= refreshing.family

\* A rotation never revokes the access credential of a request under way: the
\* refresh waits for its entry, or the request for the refresh's, unless
\* signing in or out cleared one of them.
RequestsKeepAccess ==
  [][\A p, q \in Clients :
       /\ At(p, "requesting") /\ At(q, "sending")
       /\ client[p].token = client[q].token
       /\ issued'[client[p].token.family] # issued[client[p].token.family]
       => {p, q} \cap cleared # {}]_vars

\* No operation waits for ever, deadline aside: entries of crashed processes
\* age, a refresh goes before requests that come after it, and no two
\* operations wait for each other, unless a claim was left by a crash, after
\* which two refreshes do until their deadline.
Waiting(p) == client[p].pc \in {"listing", "entering", "entered", "renewing", "intending", "claiming", "busy"}

Owning == {"moving", "opening aside", "sending", "completing", "linking", "restoring", "relinking",
           "dropping", "checking claim", "removing aside", "removing claim", "unclaiming", "removing own"}

Orphaned == claim # None /\ client[claim].pc \notin Owning

WaitsEnd == \A p \in Clients : Waiting(p) ~> ~Waiting(p) \/ Orphaned
=============================================================================
