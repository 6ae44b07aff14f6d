------------------------ MODULE SessionFiles_proofs ------------------------
(***************************************************************************)
(* Proofs about SessionFiles, for any clients, families and rotations: no  *)
(* used refresh token is ever live or submitted unless a refresh took      *)
(* another one's session after a sign-in overtook it, and no rotation      *)
(* revokes the access credential of a request under way.                   *)
(***************************************************************************)
EXTENDS SessionFiles, TLAPS

-----------------------------------------------------------------------------
(* Types.  The moves of a client and the changes of the directory keep them. *)

LEMMA GoesTypes ==
  ASSUME ClientsOK, NEW p \in Clients, NEW pc \in Positions, Goes(p, pc),
         pc \in Holding => client[p].token # None,
         pc \in Renewing => client[p].token.rotation < MaxRotation
  PROVE  ClientsOK'
BY DEF ClientsOK, Goes, ClientTypes

LEMMA HoldsTypes ==
  ASSUME ClientsOK, NEW p \in Clients, NEW pc \in Positions, NEW t \in Tokens \cup {None}, Holds(p, pc, t),
         pc \in Holding => t # None, pc \notin Renewing
  PROVE  ClientsOK'
BY DEF ClientsOK, Holds, ClientTypes

LEMMA RestsTypes ==
  ASSUME ClientsOK, NEW p \in Clients, Rests(p)
  PROVE  ClientsOK'
BY DEF ClientsOK, Rests, Resting, ClientTypes, Positions, Holding, Renewing

\* A client that takes a row of the right type which holds no token.
LEMMA RowTypes ==
  ASSUME ClientsOK, NEW p \in Clients, NEW row \in ClientTypes, row.pc \in Positions \ Holding,
         client' = [client EXCEPT ![p] = row]
  PROVE  ClientsOK'
<1>1. client \in [Clients -> ClientTypes]
  BY DEF ClientsOK
<1>2. client' \in [Clients -> ClientTypes]
  BY <1>1
<1>3. row.pc \notin Holding /\ row.pc \notin Renewing
  BY DEF Holding, Renewing
<1>4. ASSUME NEW r \in Clients
      PROVE  /\ client'[r].pc \in Holding => client'[r].token # None
             /\ client'[r].pc \in Renewing => client'[r].token.rotation < MaxRotation
  <2>1. CASE r = p
    BY <1>1, <1>3, <2>1
  <2>2. CASE r # p
    <3>1. client'[r] = client[r]
      BY <1>1, <2>2
    <3> QED
      BY <3>1 DEF ClientsOK
  <2> QED
    BY <2>1, <2>2
<1> QED
  BY <1>2, <1>4 DEF ClientsOK

LEMMA EndsTypes ==
  ASSUME ClientsOK, NEW p \in Clients, NEW op \in Operations, NEW pc \in Positions \ Holding,
         client' = [client EXCEPT ![p].pc = pc, ![p].op = op]
  PROVE  ClientsOK'
<1> DEFINE row == [client[p] EXCEPT !.pc = pc, !.op = op]
<1>1. client[p] \in ClientTypes
  BY DEF ClientsOK
<1>2. row \in ClientTypes /\ row.pc = pc
  BY <1>1 DEF ClientTypes
<1>3. client' = [client EXCEPT ![p] = row]
  OBVIOUS
<1> HIDE DEF row
<1> QED
  BY <1>2, <1>3, RowTypes

LEMMA BeginsTypes ==
  ASSUME ClientsOK, NEW p \in Clients, NEW op \in Operations, NEW pc \in Positions \ Holding, Begins(p, op, pc)
  PROVE  ClientsOK'
<1> DEFINE row == [client[p] EXCEPT !.op = op, !.pc = pc]
<1>1. client[p] \in ClientTypes
  BY DEF ClientsOK
<1>2. row \in ClientTypes /\ row.pc = pc
  BY <1>1 DEF ClientTypes
<1>3. client' = [client EXCEPT ![p] = row]
  BY DEF Begins
<1> HIDE DEF row
<1> QED
  BY <1>2, <1>3, RowTypes

LEMMA ReturnsTypes ==
  ASSUME ClientsOK, NEW p \in Clients, NEW pc \in Positions \ Holding,
         client' = [client EXCEPT ![p].pc = pc, ![p].token = None, ![p].renewed = TRUE]
  PROVE  ClientsOK'
<1> DEFINE row == [client[p] EXCEPT !.pc = pc, !.token = None, !.renewed = TRUE]
<1>1. client[p] \in ClientTypes
  BY DEF ClientsOK
<1>2. row \in ClientTypes /\ row.pc = pc
  BY <1>1 DEF ClientTypes
<1>3. client' = [client EXCEPT ![p] = row]
  OBVIOUS
<1> HIDE DEF row
<1> QED
  BY <1>2, <1>3, RowTypes

LEMMA EntersTypes ==
  ASSUME EntriesOK, NEW p \in Clients, NEW kind \in {"read", "refresh"}, Enters(p, kind)
  PROVE  EntriesOK'
BY DEF EntriesOK, Enters

LEMMA LeavesTypes ==
  ASSUME EntriesOK, NEW p \in Clients, Leaves(p)
  PROVE  EntriesOK'
BY DEF EntriesOK, Leaves

LEMMA ClearsTypes ==
  ASSUME EntriesOK, ClearsOperations
  PROVE  EntriesOK'
BY DEF EntriesOK, ClearsOperations

LEMMA Ranges == 1 \in Families /\ 0 \in 0..MaxRotation /\ 0 \in 0..MaxCrashes
BY BoundsAssumption DEF Families

LEMMA RotatedTypes ==
  ASSUME NEW t \in Tokens, t.rotation < MaxRotation
  PROVE  Rotated(t) \in Tokens
<1>1. t.rotation + 1 \in 0..MaxRotation
  BY BoundsAssumption DEF Tokens
<1> QED BY <1>1 DEF Rotated, Tokens

LEMMA InitTypes == Init => TypeOK
<1> SUFFICES ASSUME Init PROVE TypeOK
  OBVIOUS
<1>1. 1 \in Families /\ 0 \in 0..MaxRotation /\ 0 \in 0..MaxCrashes
  BY Ranges
<1>2. FilesOK
  BY <1>1 DEF Init, FilesOK, Tokens
<1>3. EntriesOK
  BY DEF Init, EntriesOK
<1>4. ClientsOK
  BY DEF Init, ClientsOK, ClientTypes, Resting, Positions, Holding, Renewing
<1>5. AuthorityOK
  BY <1>1 DEF Init, AuthorityOK
<1> QED BY <1>1, <1>2, <1>3, <1>4, <1>5 DEF Init, TypeOK, HistoryOK

\* Positions a client may go to without holding a token.
LEMMA Names ==
  /\ {"listing", "entering", "entered", "reading", "opening",
      "renewing", "intending", "claiming", "busy", "moving",
      "checking claim", "removing aside", "removing claim", "unclaiming", "removing own", "in browser",
      "installing", "leaving", "finishing", "clearing"} \subseteq Positions \ Holding
  /\ Holding \subseteq Positions /\ Renewing = {"completing", "linking"} /\ Renewing \subseteq Holding
BY DEF Positions, Holding, Renewing

LEMMA SessionTypes ==
  ASSUME ClientsOK, EntriesOK, NEW p \in Clients, NEW t \in Tokens, HasSession(p, t)
  PROVE  ClientsOK' /\ EntriesOK'
<1> USE NoneAssumption
<1>1. CASE client[p].op = "read"
  <2>1. "deciding" \in Positions
    BY DEF Positions
  <2>2. Holds(p, "deciding", t) /\ EntriesOK'
    BY <1>1 DEF HasSession, coordination, EntriesOK
  <2> QED BY <2>1, <2>2, HoldsTypes, Names
<1>2. CASE client[p].op # "read"
  BY <1>2, RestsTypes, LeavesTypes DEF HasSession
<1> QED BY <1>1, <1>2

LEMMA DoneTypes ==
  ASSUME ClientsOK, EntriesOK, NEW p \in Clients, RefreshDone(p)
  PROVE  ClientsOK' /\ EntriesOK'
<1>1. "listing" \in Positions \ Holding
  BY Names
<1>2. ClientsOK'
  <2>1. CASE client[p].op = "read"
    BY <1>1, <2>1, ReturnsTypes DEF RefreshDone
  <2>2. CASE client[p].op # "read"
    BY <2>2, RestsTypes DEF RefreshDone
  <2> QED BY <2>1, <2>2
<1> QED BY <1>2, LeavesTypes DEF RefreshDone

\* The Authority's answers keep its own state well formed.
LEMMA AnswerTypes ==
  ASSUME AuthorityOK, NEW t \in Tokens, Rotates(t) \/ Refuses(t) \/ Expires(t) \/ UNCHANGED authority
  PROVE  AuthorityOK'
<1> USE BoundsAssumption DEF AuthorityOK
<1>0. t.family \in Families /\ t.rotation \in 0..MaxRotation
  BY DEF Tokens
<1>1. CASE Rotates(t)
  <2>1. t.rotation + 1 \in 0..MaxRotation
    BY <1>0, <1>1 DEF Rotates
  <2> QED BY <1>0, <1>1, <2>1 DEF Rotates
<1>2. CASE Refuses(t)
  BY <1>0, <1>2 DEF Refuses
<1>3. CASE Expires(t)
  BY <1>0, <1>3 DEF Expires
<1>4. CASE UNCHANGED authority
  BY <1>4 DEF authority
<1> QED BY <1>1, <1>2, <1>3, <1>4

LEMMA FailsTypes ==
  ASSUME TypeOK, NEW p \in Clients, Fails(p)
  PROVE  TypeOK'
BY RestsTypes, LeavesTypes DEF TypeOK, HistoryOK, Fails, FilesOK, AuthorityOK, files, authority

LEMMA StartTypes ==
  ASSUME TypeOK, NEW p \in Clients, Starts(p) \/ RefreshBegins(p) \/ GivesUp(p)
  PROVE  TypeOK'
<1> USE Names DEF TypeOK, HistoryOK, history, Operations, files, coordination, authority, FilesOK, EntriesOK, AuthorityOK
<1>1. CASE ReadBegins(p)
  BY <1>1, BeginsTypes DEF ReadBegins
<1>2. CASE StatusBegins(p)
  BY <1>2, BeginsTypes DEF StatusBegins
<1>3. CASE SignInBegins(p)
  BY <1>3, BeginsTypes DEF SignInBegins
<1>4. CASE SignOutClaims(p)
  BY <1>4, BeginsTypes DEF SignOutClaims
<1>5. CASE RefreshBegins(p)
  <2>1. ClientsOK'
    BY <1>5, BeginsTypes, GoesTypes DEF RefreshBegins
  <2> QED BY <1>5, <2>1, EntersTypes DEF RefreshBegins
<1>6. CASE GivesUp(p)
  BY <1>6, FailsTypes DEF GivesUp
<1> QED BY <1>1, <1>2, <1>3, <1>4, <1>5, <1>6 DEF Starts

LEMMA ReadTypes ==
  ASSUME TypeOK, NEW p \in Clients, ReadStep(p)
  PROVE  TypeOK'
<1> USE Names, NoneAssumption DEF TypeOK, HistoryOK, history, files, coordination, authority, FilesOK, EntriesOK, AuthorityOK
<1> DEFINE held == client[p].pc \in Holding => client[p].token \in Tokens
<1>0. held /\ client[p].token \in Tokens \cup {None}
  BY DEF ClientsOK, ClientTypes
<1>1. CASE ReadLists(p)
  BY <1>1, GoesTypes DEF ReadLists
<1>2. CASE ReadEnters(p)
  BY <1>2, GoesTypes, EntersTypes DEF ReadEnters
<1>3. CASE ReadRechecks(p)
  BY <1>3, GoesTypes, LeavesTypes DEF ReadRechecks
<1>4. CASE StoreRead(p)
  BY <1>4, GoesTypes, SessionTypes, FailsTypes DEF StoreRead, Readable
<1>5. CASE StoreOpened(p)
  <2>1. CASE Fails(p)
    BY <2>1, FailsTypes
  <2>2. CASE live # None /\ Holds(p, "tidying refreshing", live) /\ UNCHANGED <<files, coordination, authority, history>>
    <3>1. "tidying refreshing" \in Positions /\ "tidying refreshing" \notin Renewing
      BY DEF Positions, Renewing
    <3>2. ClientsOK'
      BY <2>2, <3>1, HoldsTypes
    <3> QED
      BY <2>2, <3>2
  <2> QED
    BY <1>5, <2>1, <2>2, Zenon DEF StoreOpened
<1>6. CASE TidyRefreshing(p)
  BY <1>0, <1>6, GoesTypes DEF TidyRefreshing, Holding, At
<1>7. CASE TidyClaim(p)
  BY <1>0, <1>7, GoesTypes DEF TidyClaim, Holding, At
<1>8. CASE TidyLeaving(p)
  BY <1>0, <1>8, SessionTypes DEF TidyLeaving, Holding, At
<1>9. CASE RequestSent(p)
  BY <1>0, <1>9, GoesTypes DEF RequestSent, Holding, At
<1>10. CASE ExpiresSoon(p)
  BY <1>10, HoldsTypes, RestsTypes, LeavesTypes DEF ExpiresSoon
<1>11. CASE RequestEnds(p)
  BY <1>11, RestsTypes, LeavesTypes DEF RequestEnds
<1> QED BY <1>1, <1>2, <1>3, <1>4, <1>5, <1>6, <1>7, <1>8, <1>9, <1>10, <1>11 DEF ReadStep

LEMMA RefreshTypes ==
  ASSUME TypeOK, NEW p \in Clients, RefreshStep(p)
  PROVE  TypeOK'
<1> USE Names, NoneAssumption DEF TypeOK, HistoryOK, history, files, coordination
<1> DEFINE held == client[p].pc \in Holding => client[p].token \in Tokens
<1>0. held /\ client[p].token \in Tokens \cup {None}
  BY DEF ClientsOK, ClientTypes
<1>1. CASE RenewalRefused(p)
  BY <1>1, FailsTypes DEF RenewalRefused
<1>2. CASE Intends(p)
  <2>1. ClientsOK' /\ EntriesOK'
    BY <1>2, GoesTypes, EntersTypes DEF Intends, ClientsOK, EntriesOK
  <2> QED BY <1>2, <2>1 DEF Intends, FilesOK, AuthorityOK, authority
<1>3. CASE Claims(p)
  <2>1. ClientsOK'
    BY <1>3, GoesTypes DEF Claims
  <2> QED BY <1>3, <2>1 DEF Claims, FilesOK, EntriesOK, AuthorityOK, authority
<1>4. CASE FindsBusy(p)
  BY <1>4, GoesTypes, FailsTypes DEF FindsBusy, FilesOK, EntriesOK, AuthorityOK, authority
<1>5. CASE Moves(p)
  <2>1. ClientsOK'
    BY <1>5, GoesTypes, HoldsTypes DEF Moves, Positions, FilesOK
  <2> QED BY <1>5, <2>1 DEF Moves, FilesOK, EntriesOK, AuthorityOK, authority
<1>6. CASE OpensAside(p)
  <2>1. CASE refreshing = None
    BY <1>6, <2>1, FailsTypes DEF OpensAside
  <2>2. CASE refreshing # None
    <3>1. ClientsOK'
      BY <1>6, <2>2, HoldsTypes DEF OpensAside, Positions, FilesOK
    <3> QED BY <1>6, <2>2, <3>1 DEF OpensAside, Crosses, FilesOK, EntriesOK, AuthorityOK, authority
  <2> QED BY <2>1, <2>2
<1>7. CASE Answered(p)
  <2>1. client[p].token \in Tokens /\ client[p].token.rotation < MaxRotation
    BY <1>0, <1>7 DEF Answered, Rotates, Holding, At
  <2>2. ClientsOK'
    BY <1>7, <2>1, GoesTypes DEF Answered
  <2>3. AuthorityOK'
    BY <1>7, <2>1, AnswerTypes DEF Answered
  <2> QED BY <1>7, <2>2, <2>3 DEF Answered, FilesOK, EntriesOK
<1>8. CASE Unanswered(p)
  <2>1. client[p].token \in Tokens
    BY <1>0, <1>8 DEF Unanswered, Holding, At
  <2>2. ClientsOK'
    BY <1>8, <2>1, GoesTypes DEF Unanswered, Holding
  <2>3. AuthorityOK'
    BY <1>8, <2>1, AnswerTypes DEF Unanswered
  <2> QED BY <1>8, <2>2, <2>3 DEF Unanswered, FilesOK, EntriesOK
<1>9. CASE Unsent(p)
  <2>1. ClientsOK'
    BY <1>0, <1>9, GoesTypes DEF Unsent, Holding, At
  <2> QED BY <1>9, <2>1 DEF Unsent, FilesOK, EntriesOK, AuthorityOK, authority
<1>10. CASE Completes(p) \/ Restores(p)
  <2>1. client[p].token # None /\ (At(p, "completing") => client[p].token.rotation < MaxRotation)
    BY <1>0, <1>10 DEF Completes, Restores, ClientsOK, Holding, At
  <2>2. ClientsOK' /\ EntriesOK'
    BY <1>10, <2>1, GoesTypes, RestsTypes, LeavesTypes DEF Completes, Restores, Continues, At, EntriesOK, Holding
  <2> QED BY <1>10, <2>2 DEF Completes, Restores, FilesOK, AuthorityOK, authority
<1>11. CASE Drops(p)
  <2>1. ClientsOK' /\ EntriesOK'
    BY <1>11, EndsTypes, RestsTypes, LeavesTypes DEF Drops, Operations, EntriesOK
  <2> QED BY <1>11, <2>1 DEF Drops, FilesOK, AuthorityOK, authority
<1>12. CASE Links(p)
  <2>1. CASE live # None
    BY <1>12, <2>1, FailsTypes DEF Links
  <2>2. CASE live = None
    <3>1. client[p].token \in Tokens /\ client[p].token.rotation < MaxRotation
      BY <1>0, <1>12 DEF Links, ClientsOK, Holding, At
    <3>2. Rotated(client[p].token) \in Tokens
      BY <3>1, RotatedTypes
    <3>3. ClientsOK'
      BY <1>12, <2>2, GoesTypes DEF Links
    <3> QED BY <1>12, <2>2, <3>2, <3>3 DEF Links, Overtakes, BetweenCalls, FilesOK, EntriesOK, AuthorityOK, authority
  <2> QED BY <2>1, <2>2
<1>13. CASE Relinks(p)
  <2>1. CASE live # None \/ refreshing = None
    BY <1>13, <2>1, FailsTypes DEF Relinks
  <2>2. CASE ~(live # None \/ refreshing = None)
    <3>1. ClientsOK'
      BY <1>13, <2>2, EndsTypes DEF Relinks, Operations
    <3> QED BY <1>13, <2>2, <3>1 DEF Relinks, Overtakes, Crosses, BetweenCalls, FilesOK, EntriesOK, AuthorityOK, authority
  <2> QED BY <2>1, <2>2
<1>14. CASE ChecksClaim(p)
  <2>1. ClientsOK' /\ EntriesOK'
    BY <1>14, GoesTypes, DoneTypes DEF ChecksClaim, EntriesOK
  <2> QED BY <1>14, <2>1 DEF ChecksClaim, FilesOK, AuthorityOK, authority
<1>15. CASE RemovesAside(p)
  <2>1. ClientsOK'
    BY <1>15, GoesTypes DEF RemovesAside
  <2> QED BY <1>15, <2>1 DEF RemovesAside, FilesOK, EntriesOK, AuthorityOK, authority
<1>16. CASE RemovesClaim(p)
  <2>1. ClientsOK' /\ EntriesOK'
    BY <1>16, DoneTypes DEF RemovesClaim
  <2> QED BY <1>16, <2>1 DEF RemovesClaim, FilesOK, AuthorityOK, authority
<1>17. CASE Unclaims(p)
  BY <1>17, GoesTypes, FailsTypes DEF Unclaims, FilesOK, EntriesOK, AuthorityOK, authority
<1>18. CASE RemovesOwn(p)
  BY <1>18, RestsTypes, LeavesTypes DEF RemovesOwn, FilesOK, AuthorityOK, authority
<1> QED BY <1>1, <1>2, <1>3, <1>4, <1>5, <1>6, <1>7, <1>8, <1>9, <1>10, <1>11, <1>12, <1>13, <1>14, <1>15, <1>16, <1>17, <1>18 DEF RefreshStep

LEMMA SignTypes ==
  ASSUME TypeOK, NEW p \in Clients, SignStep(p)
  PROVE  TypeOK'
<1> USE Names, NoneAssumption DEF TypeOK, HistoryOK, history, coordination
<1>0. client[p].pc \in Holding => client[p].token \in Tokens
  BY DEF ClientsOK, ClientTypes
<1>1. CASE SignInClears(p)
  <2>1. ClientsOK' /\ EntriesOK'
    BY <1>1, GoesTypes, ClearsTypes DEF SignInClears
  <2> QED BY <1>1, <2>1 DEF SignInClears, files, authority, FilesOK, AuthorityOK
<1>2. CASE SignInInstalls(p)
  <2>1. 0 \in 0..MaxRotation
    BY Ranges
  <2>2. PICK f \in NewFamily : /\ issued' = [issued EXCEPT ![f] = 0]
                               /\ live' = [family |-> f, rotation |-> 0]
                               /\ Holds(p, "tidying refreshing", live')
    BY <1>2 DEF SignInInstalls
  <2>3. live' \in Tokens
    BY <2>1, <2>2 DEF NewFamily, Tokens
  <2>4. ClientsOK'
    BY <2>2, <2>3, HoldsTypes DEF Positions
  <2>5. AuthorityOK'
    BY <1>2, <2>1, <2>2 DEF SignInInstalls, NewFamily, AuthorityOK
  <2> QED BY <1>2, <2>3, <2>4, <2>5 DEF SignInInstalls, Overtakes, BetweenCalls, FilesOK, EntriesOK
<1>3. CASE SignOutMoves(p)
  <2>1. ClientsOK'
    BY <1>3, HoldsTypes, RestsTypes DEF SignOutMoves, FilesOK, Positions
  <2> QED BY <1>3, <2>1 DEF SignOutMoves, authority, FilesOK, EntriesOK, AuthorityOK
<1>4. CASE SignOutRevokes(p)
  <2>1. ClientsOK'
    BY <1>4, GoesTypes DEF SignOutRevokes
  <2>2. AuthorityOK'
    BY <1>0, <1>4 DEF SignOutRevokes, AuthorityOK, At, Tokens, Holding
  <2> QED BY <1>4, <2>1, <2>2 DEF SignOutRevokes, files, FilesOK, EntriesOK
<1>5. CASE SignOutForgets(p)
  <2>1. ClientsOK'
    BY <1>5, GoesTypes DEF SignOutForgets
  <2> QED BY <1>5, <2>1 DEF SignOutForgets, authority, FilesOK, EntriesOK, AuthorityOK
<1>6. CASE SignOutClears(p)
  BY <1>6, RestsTypes, ClearsTypes DEF SignOutClears, files, authority, FilesOK, AuthorityOK
<1> QED BY <1>1, <1>2, <1>3, <1>4, <1>5, <1>6 DEF SignStep

\* The last two actions, and the theorem: whatever clients there are, the files
\* hold what they should and no client is without a session it needs.
LEMMA OtherTypes ==
  ASSUME TypeOK, (\E p \in Clients : Crash(p)) \/ (\E kind \in {"read", "refresh"} : EntryAges(kind))
  PROVE  TypeOK'
<1>1. CASE \E p \in Clients : Crash(p)
  <2>1. PICK p \in Clients : Crash(p)
    BY <1>1
  <2>2. ClientsOK'
    BY <2>1, RestsTypes DEF Crash, TypeOK
  <2>3. HistoryOK'
    BY <2>1, BoundsAssumption DEF Crash, TypeOK, HistoryOK
  <2>4. left' \subseteq {"read", "refresh"}
    BY <2>1 DEF Crash, TypeOK, EntriesOK
  <2>5. EntriesOK'
    BY <2>1, <2>4 DEF Crash, TypeOK, EntriesOK
  <2> QED BY <2>1, <2>2, <2>3, <2>5 DEF Crash, TypeOK, FilesOK, AuthorityOK, files, authority
<1>2. CASE \E kind \in {"read", "refresh"} : EntryAges(kind)
  BY <1>2 DEF EntryAges, TypeOK, HistoryOK, history, FilesOK, EntriesOK, ClientsOK, AuthorityOK, files, authority
<1> QED BY <1>1, <1>2

LEMMA NextTypes == TypeOK /\ [Next]_vars => TypeOK'
<1> SUFFICES ASSUME TypeOK, [Next]_vars PROVE TypeOK'
  OBVIOUS
<1>1. CASE UNCHANGED vars
  BY <1>1 DEF vars, files, coordination, authority, history, TypeOK, HistoryOK, FilesOK, EntriesOK, ClientsOK, AuthorityOK
<1>2. CASE \E p \in Clients : Starts(p) \/ RefreshBegins(p) \/ GivesUp(p) \/ ReadStep(p) \/ RefreshStep(p) \/ SignStep(p)
  BY <1>2, StartTypes, ReadTypes, RefreshTypes, SignTypes
<1>3. CASE (\E p \in Clients : Crash(p)) \/ (\E kind \in {"read", "refresh"} : EntryAges(kind))
  BY <1>3, OtherTypes
<1> QED BY <1>1, <1>2, <1>3 DEF Next

\* The files and the clients keep their types: what is live or set aside is a
\* pair the Authority issued, and a client that submits holds one.
THEOREM Typed == Spec => []TypeOK
BY InitTypes, NextTypes, PTL DEF Spec

-----------------------------------------------------------------------------
(* No used token comes back.  The inductive invariant is about the tokens    *)
(* that clients are about to submit or to make live again: each is the last  *)
(* its family was issued, none is live, and no two clients keep the same.    *)
(* It holds until an overtaken client takes a session that is not the one it *)
(* set aside.  The claim is no part of the argument: renames and exclusive   *)
(* links are.                                                                *)

\* Between two calls of the file system that rely on each other.
Window == {"opening aside", "linking", "relinking"}
Keeping == Window \cup {"sending", "restoring", "completing"}

Keeps(p, t) ==
  \/ client[p].pc \in {"opening aside", "sending", "restoring", "relinking"} /\ t = client[p].token
  \/ client[p].pc \in Renewing /\ t = Rotated(client[p].token)

KeptAreCurrent ==
  \A p \in Clients, t \in Tokens : Keeps(p, t) => t # live /\ issued[t.family] = t.rotation

KeptOnce == \A p, q \in Clients, t \in Tokens : Keeps(p, t) /\ Keeps(q, t) => p = q

\* A client no sign-in came past between its two calls: what its first call
\* found still stands.
Fresh(p) == client[p].pc \in Window /\ p \notin overtaken

OneBetweenCalls ==
  /\ \A p \in Clients : Fresh(p) => live = None
  /\ \A p, q \in Clients : Fresh(p) /\ Fresh(q) => p = q

AsideIsOwn == \A p \in Clients : Fresh(p) => refreshing \in {None, client[p].token}

KeptInv == LiveIsCurrent /\ NeverReplayed /\ KeptAreCurrent /\ KeptOnce /\ OneBetweenCalls /\ AsideIsOwn

\* A step that puts nothing into the files and leaves every client where it
\* was or away from the positions above: most steps.
QuietFiles == live' \in {live, None} /\ refreshing' \in {refreshing, None} /\ UNCHANGED <<issued, replayed>>
QuietClients == \A q \in Clients : client'[q] = client[q] \/ client'[q].pc \notin Keeping
StillOvertaken == \A q \in Clients \cap overtaken : q \in overtaken' \/ client'[q].pc \notin Window

LEMMA QuietStep ==
  ASSUME TypeOK, KeptInv, QuietFiles, QuietClients, StillOvertaken
  PROVE  KeptInv'
<1> USE DEF KeptInv, Keeping, Window, Renewing
<1>1. \A q \in Clients : client'[q].pc \in Keeping => client'[q] = client[q]
  BY DEF QuietClients
<1>2. \A q \in Clients, t \in Tokens : Keeps(q, t)' => Keeps(q, t)
  BY <1>1, NoneAssumption DEF Keeps, QuietFiles
<1>3. KeptAreCurrent'
  BY <1>2, NoneAssumption DEF KeptAreCurrent, QuietFiles
<1>4. KeptOnce'
  BY <1>2 DEF KeptOnce
<1>0. \A q \in Clients : Fresh(q)' => Fresh(q) /\ client'[q] = client[q]
  BY <1>1 DEF Fresh, StillOvertaken
<1>5. OneBetweenCalls'
  BY <1>0 DEF OneBetweenCalls, QuietFiles
<1>6. AsideIsOwn'
  BY <1>0 DEF AsideIsOwn, QuietFiles
<1>7. LiveIsCurrent' /\ NeverReplayed'
  BY DEF LiveIsCurrent, NeverReplayed, QuietFiles
<1> QED BY <1>3, <1>4, <1>5, <1>6, <1>7

LEMMA QuietMoves ==
  ASSUME ClientsOK, NEW p \in Clients
  PROVE  /\ \A pc \in Positions \ Keeping : Goes(p, pc) => QuietClients
         /\ \A pc \in Positions \ Keeping : \A t \in Tokens \cup {None} : Holds(p, pc, t) => QuietClients
         /\ \A pc \in Positions \ Keeping : \A op \in Operations : Begins(p, op, pc) => QuietClients
         /\ \A pc \in Positions \ Keeping : \A op \in Operations :
              client' = [client EXCEPT ![p].pc = pc, ![p].op = op] => QuietClients
         /\ \A pc \in Positions \ Keeping :
              client' = [client EXCEPT ![p].pc = pc, ![p].token = None, ![p].renewed = TRUE] => QuietClients
         /\ Rests(p) => QuietClients
         /\ UNCHANGED client => QuietClients
<1> USE DEF QuietClients, ClientsOK, ClientTypes
<1>1. \A pc \in Positions \ Keeping : Goes(p, pc) => QuietClients
  BY DEF Goes
<1>2. \A pc \in Positions \ Keeping : \A t \in Tokens \cup {None} : Holds(p, pc, t) => QuietClients
  BY DEF Holds
<1>3. \A pc \in Positions \ Keeping : \A op \in Operations : Begins(p, op, pc) => QuietClients
  BY DEF Begins
<1>4. Rests(p) => QuietClients
  BY DEF Rests, Resting, Keeping, Window
<1>5. UNCHANGED client => QuietClients
  OBVIOUS
<1>6. \A pc \in Positions \ Keeping : \A op \in Operations :
        client' = [client EXCEPT ![p].pc = pc, ![p].op = op] => QuietClients
  OBVIOUS
<1>7. \A pc \in Positions \ Keeping :
        client' = [client EXCEPT ![p].pc = pc, ![p].token = None, ![p].renewed = TRUE] => QuietClients
  OBVIOUS
<1> QED BY <1>1, <1>2, <1>3, <1>4, <1>5, <1>6, <1>7

LEMMA QuietNames ==
  {"listing", "entering", "entered", "reading", "opening", "tidying refreshing", "tidying claim", "tidying leaving",
   "deciding", "requesting", "renewing", "intending", "claiming", "busy", "moving", "dropping",
   "checking claim", "removing aside", "removing claim", "unclaiming", "removing own", "in browser",
   "installing", "leaving", "revoking", "finishing", "clearing"} \subseteq Positions \ Keeping
BY DEF Positions, Keeping, Window

LEMMA SessionQuiet ==
  ASSUME TypeOK, NEW p \in Clients, NEW t \in Tokens, HasSession(p, t)
  PROVE  QuietClients
BY QuietMoves, QuietNames DEF HasSession, TypeOK

LEMMA FailsQuiet ==
  ASSUME TypeOK, NEW p \in Clients, Fails(p)
  PROVE  QuietClients /\ QuietFiles /\ StillOvertaken
BY QuietMoves DEF Fails, Rests, Resting, Window, StillOvertaken, TypeOK, ClientsOK, QuietFiles, files, authority

LEMMA StartQuiet ==
  ASSUME TypeOK, NEW p \in Clients, Starts(p) \/ RefreshBegins(p) \/ GivesUp(p)
  PROVE  QuietClients /\ QuietFiles /\ StillOvertaken
<1> USE QuietNames, QuietMoves DEF TypeOK, StillOvertaken, history, QuietFiles, Operations, files, authority
<1>1. CASE ReadBegins(p) \/ StatusBegins(p) \/ SignInBegins(p)
  BY <1>1 DEF ReadBegins, StatusBegins, SignInBegins
<1>2. CASE SignOutClaims(p)
  BY <1>2 DEF SignOutClaims
<1>3. CASE RefreshBegins(p)
  BY <1>3 DEF RefreshBegins
<1>4. CASE GivesUp(p)
  BY <1>4, FailsQuiet DEF GivesUp
<1> QED BY <1>1, <1>2, <1>3, <1>4 DEF Starts

LEMMA ReadQuiet ==
  ASSUME TypeOK, NEW p \in Clients, ReadStep(p)
  PROVE  QuietClients /\ QuietFiles /\ StillOvertaken
<1> USE QuietNames, QuietMoves, NoneAssumption DEF TypeOK, FilesOK, StillOvertaken, history, QuietFiles, files, authority
<1>1. CASE ReadLists(p) \/ ReadEnters(p) \/ ReadRechecks(p)
  BY <1>1 DEF ReadLists, ReadEnters, ReadRechecks
<1>2. CASE StoreRead(p)
  BY <1>2, SessionQuiet, FailsQuiet DEF StoreRead, Readable
<1>3. CASE StoreOpened(p)
  BY <1>3, FailsQuiet DEF StoreOpened
<1>4. CASE TidyRefreshing(p) \/ TidyClaim(p)
  BY <1>4 DEF TidyRefreshing, TidyClaim
<1>5. CASE TidyLeaving(p)
  <2>1. client[p].token \in Tokens
    BY <1>5 DEF TidyLeaving, ClientsOK, ClientTypes, Holding, At
  <2> QED BY <1>5, <2>1, SessionQuiet DEF TidyLeaving
<1>6. CASE RequestSent(p) \/ ExpiresSoon(p) \/ RequestEnds(p)
  BY <1>6 DEF RequestSent, ExpiresSoon, RequestEnds
<1> QED BY <1>1, <1>2, <1>3, <1>4, <1>5, <1>6 DEF ReadStep

LEMMA RefreshQuiet ==
  ASSUME TypeOK, NEW p \in Clients,
         \/ RenewalRefused(p) \/ Intends(p) \/ Claims(p) \/ FindsBusy(p) \/ Drops(p)
         \/ ChecksClaim(p) \/ RemovesAside(p) \/ RemovesClaim(p) \/ Unclaims(p) \/ RemovesOwn(p)
  PROVE  QuietClients /\ QuietFiles /\ StillOvertaken
<1> USE QuietNames, QuietMoves DEF TypeOK, StillOvertaken, history, QuietFiles, files, authority
<1>1. CASE RenewalRefused(p) \/ Intends(p) \/ Claims(p) \/ FindsBusy(p)
  BY <1>1, FailsQuiet DEF RenewalRefused, Intends, Claims, FindsBusy
<1>2. ASSUME RefreshDone(p) PROVE QuietClients
  <2>1. CASE client[p].op = "read"
    BY <1>2, <2>1 DEF RefreshDone
  <2>2. CASE client[p].op # "read"
    BY <1>2, <2>2 DEF RefreshDone
  <2> QED BY <2>1, <2>2
<1>3. CASE Drops(p)
  <2>1. CASE Owns(p)
    BY <1>3, <2>1 DEF Drops, Operations
  <2>2. CASE ~Owns(p)
    BY <1>3, <2>2 DEF Drops
  <2> QED BY <1>3, <2>1, <2>2 DEF Drops
<1>4. CASE ChecksClaim(p) \/ RemovesAside(p) \/ RemovesClaim(p)
  BY <1>2, <1>4 DEF ChecksClaim, RemovesAside, RemovesClaim
<1>5. CASE Unclaims(p) \/ RemovesOwn(p)
  BY <1>5, FailsQuiet DEF Unclaims, RemovesOwn
<1> QED BY <1>1, <1>3, <1>4, <1>5

LEMMA SignQuiet ==
  ASSUME TypeOK, NEW p \in Clients, SignStep(p), ~SignInInstalls(p)
  PROVE  QuietClients /\ QuietFiles /\ StillOvertaken
<1> USE QuietNames, QuietMoves DEF TypeOK, FilesOK, StillOvertaken, history, QuietFiles, files, authority
<1>1. CASE SignInClears(p) \/ SignOutClears(p)
  BY <1>1 DEF SignInClears, SignOutClears
<1>2. CASE SignOutMoves(p)
  BY <1>2 DEF SignOutMoves
<1>3. CASE SignOutRevokes(p) \/ SignOutForgets(p)
  BY <1>3 DEF SignOutRevokes, SignOutForgets
<1> QED BY <1>1, <1>2, <1>3 DEF SignStep

LEMMA OtherQuiet ==
  ASSUME TypeOK, (\E p \in Clients : Crash(p)) \/ (\E kind \in {"read", "refresh"} : EntryAges(kind))
  PROVE  QuietClients /\ QuietFiles /\ StillOvertaken
<1>1. ASSUME NEW p \in Clients, Crash(p)
      PROVE  QuietClients /\ QuietFiles /\ StillOvertaken
  <2>1. QuietClients /\ QuietFiles
    BY <1>1, QuietMoves DEF Crash, TypeOK, QuietFiles, files, authority
  <2>2. StillOvertaken
    BY <1>1 DEF Crash, Rests, Resting, Window, StillOvertaken, TypeOK, ClientsOK
  <2> QED BY <2>1, <2>2
<1>2. CASE \E kind \in {"read", "refresh"} : EntryAges(kind)
  BY <1>2 DEF EntryAges, QuietClients, QuietFiles, StillOvertaken, history, files, authority
<1> QED BY <1>1, <1>2

\* What a client's step does to it and leaves of the others.
LEMMA Moved ==
  ASSUME ClientsOK, NEW p \in Clients, NEW pc \in Positions
  PROVE  /\ Goes(p, pc) => /\ client'[p].pc = pc /\ client'[p].token = client[p].token
                           /\ \A q \in Clients \ {p} : client'[q] = client[q]
         /\ \A t \in Tokens : Holds(p, pc, t) => /\ client'[p].pc = pc /\ client'[p].token = t
                                                /\ \A q \in Clients \ {p} : client'[q] = client[q]
BY DEF Goes, Holds, ClientsOK, ClientTypes

\* A client with the claim moves the live session aside: it was kept by nobody.
LEMMA MovesKeeps ==
  ASSUME TypeOK, KeptInv, NEW p \in Clients, Moves(p)
  PROVE  KeptInv'
<1> USE DEF KeptInv, TypeOK, authority, history
<1>1. CASE live = None
  BY <1>1, QuietMoves, QuietNames, QuietStep DEF Moves, QuietFiles, StillOvertaken
<1>2. CASE live # None
  <2>1. live \in Tokens /\ refreshing' = live /\ live' = None /\ UNCHANGED <<issued, replayed, overtaken>>
    BY <1>2 DEF Moves, FilesOK
  <2>2. /\ client'[p].pc = "opening aside" /\ client'[p].token = live
        /\ \A q \in Clients \ {p} : client'[q] = client[q]
    BY <1>2, <2>1, Moved DEF Moves, Positions
  <2>3. \A q \in Clients : ~Fresh(q)
    BY <1>2 DEF OneBetweenCalls
  <2>4. \A q \in Clients, t \in Tokens : Keeps(q, t)' => IF q = p THEN t = live ELSE Keeps(q, t)
    BY <2>1, <2>2 DEF Keeps, Renewing
  <2>5. \A q \in Clients : ~Keeps(q, live)
    BY <2>1 DEF KeptAreCurrent
  <2>6. KeptAreCurrent'
    BY <2>1, <2>4, NoneAssumption DEF KeptAreCurrent, LiveIsCurrent
  <2>7. KeptOnce'
    BY <2>4, <2>5 DEF KeptOnce
  <2>8. OneBetweenCalls' /\ AsideIsOwn'
    BY <2>1, <2>2, <2>3 DEF OneBetweenCalls, AsideIsOwn, Fresh
  <2>9. LiveIsCurrent' /\ NeverReplayed'
    BY <2>1 DEF LiveIsCurrent, NeverReplayed
  <2> QED BY <2>6, <2>7, <2>8, <2>9
<1> QED BY <1>1, <1>2

\* It then reads what it moved, or crosses.
LEMMA OpensKeeps ==
  ASSUME TypeOK, KeptInv, NEW p \in Clients, OpensAside(p), ~crossed'
  PROVE  KeptInv'
<1> USE DEF KeptInv, TypeOK, authority, files
<1>1. CASE refreshing = None
  BY <1>1, FailsQuiet, QuietStep DEF OpensAside
<1>2. CASE refreshing # None
  <2>1. /\ refreshing \in Tokens /\ client[p].pc = "opening aside"
        /\ overtaken' = overtaken \ {p} /\ UNCHANGED <<live, refreshing, issued, replayed>>
    BY <1>2 DEF OpensAside, FilesOK, At
  <2>2. refreshing = client[p].token
    <3>1. CASE p \in overtaken
      BY <1>2, <3>1 DEF OpensAside, Crosses
    <3>2. CASE p \notin overtaken
      BY <1>2, <2>1, <3>2 DEF AsideIsOwn, Fresh, Window
    <3> QED BY <3>1, <3>2
  <2>3. /\ client'[p].pc = "sending" /\ client'[p].token = client[p].token
        /\ \A q \in Clients \ {p} : client'[q] = client[q]
    <3>1. Holds(p, "sending", refreshing) /\ "sending" \in Positions
      BY <1>2 DEF OpensAside, Positions
    <3> QED BY <2>1, <2>2, <3>1, Moved
  <2>4. \A q \in Clients, t \in Tokens : Keeps(q, t)' => Keeps(q, t)
    BY <2>1, <2>3 DEF Keeps, Renewing
  <2>5. KeptAreCurrent' /\ KeptOnce'
    BY <2>1, <2>4 DEF KeptAreCurrent, KeptOnce
  <2>6. OneBetweenCalls' /\ AsideIsOwn'
    BY <2>1, <2>3 DEF OneBetweenCalls, AsideIsOwn, Fresh, Window
  <2>7. LiveIsCurrent' /\ NeverReplayed'
    BY <2>1 DEF LiveIsCurrent, NeverReplayed
  <2> QED BY <2>5, <2>6, <2>7
<1> QED BY <1>1, <1>2

\* The Authority's answer: a rotation is of the submitted token's family only,
\* in which nothing else is live or kept, and a current token is not refused
\* as replayed.
LEMMA RotationKeeps ==
  ASSUME TypeOK, KeptInv, NEW p \in Clients, At(p, "sending"), NEW t \in Tokens, t = client[p].token, Rotates(t)
  PROVE  /\ issued'[t.family] = t.rotation + 1
         /\ \A u \in Tokens : issued[u.family] = u.rotation /\ u # t => issued'[u.family] = u.rotation
         /\ replayed' = replayed
<1>1. t.family \in Families /\ issued \in [Families -> (0..MaxRotation) \cup {None}]
  BY DEF Tokens, TypeOK, AuthorityOK
<1>2. issued'[t.family] = t.rotation + 1 /\ replayed' = replayed
  BY <1>1 DEF Rotates
<1>3. ASSUME NEW u \in Tokens, issued[u.family] = u.rotation, u # t
      PROVE  issued'[u.family] = u.rotation
  <2>1. u.family # t.family
    BY <1>3 DEF Rotates, Current, Tokens
  <2> QED BY <1>1, <1>3, <2>1 DEF Rotates, Tokens
<1> QED BY <1>2, <1>3

LEMMA AnsweredKeeps ==
  ASSUME TypeOK, KeptInv, NEW p \in Clients, Answered(p)
  PROVE  KeptInv'
<1> USE DEF KeptInv, TypeOK, files, history
<1> DEFINE t == client[p].token
<1>1. t \in Tokens /\ At(p, "sending") /\ Rotates(t) /\ UNCHANGED <<live, refreshing, overtaken>>
  BY DEF Answered, ClientsOK, ClientTypes, Holding, At
<1>2. Keeps(p, t) /\ Rotated(t) \in Tokens /\ t # live
  BY <1>1, RotatedTypes DEF Keeps, Rotates, KeptAreCurrent, At
<1>3. /\ client'[p].pc = "completing" /\ client'[p].token = t
      /\ \A q \in Clients \ {p} : client'[q] = client[q]
  BY Moved DEF Answered, Positions
<1>4. \A q \in Clients, u \in Tokens : Keeps(q, u)' => IF q = p THEN u = Rotated(t) ELSE Keeps(q, u) /\ u # t
  BY <1>1, <1>2, <1>3 DEF Keeps, Renewing, KeptOnce
<1> HIDE DEF t
<1>5. /\ issued'[t.family] = t.rotation + 1 /\ replayed' = replayed
      /\ \A u \in Tokens : issued[u.family] = u.rotation /\ u # t => issued'[u.family] = u.rotation
  BY <1>1, RotationKeeps DEF t
<1>6. LiveIsCurrent'
  BY <1>1, <1>2, <1>5 DEF LiveIsCurrent, FilesOK
<1>7. Rotated(t).family = t.family /\ Rotated(t).rotation = t.rotation + 1
  BY <1>1 DEF Rotated, Tokens
<1>8. \A u \in Tokens : issued[u.family] = u.rotation /\ u # t => u # Rotated(t)
  BY <1>1, <1>7 DEF Rotates, Current, Tokens
<1>9. KeptAreCurrent'
  <2>1. Rotated(t) # live
    BY <1>1, <1>2, <1>8, NoneAssumption DEF LiveIsCurrent, FilesOK
  <2> QED BY <1>1, <1>4, <1>5, <1>7, <2>1 DEF KeptAreCurrent
<1>10. KeptOnce'
  BY <1>4, <1>8 DEF KeptOnce, KeptAreCurrent
<1>11. OneBetweenCalls' /\ AsideIsOwn'
  BY <1>1, <1>3 DEF OneBetweenCalls, AsideIsOwn, Fresh, Window
<1> QED BY <1>5, <1>6, <1>9, <1>10, <1>11 DEF NeverReplayed

LEMMA UnansweredKeeps ==
  ASSUME TypeOK, KeptInv, NEW p \in Clients, Unanswered(p)
  PROVE  KeptInv'
<1> USE DEF KeptInv, TypeOK, files, history
<1> DEFINE t == client[p].token
<1>1. t \in Tokens /\ At(p, "sending") /\ UNCHANGED <<live, refreshing, overtaken>>
  BY DEF Unanswered, ClientsOK, ClientTypes, Holding, At
<1>2. Keeps(p, t) /\ issued[t.family] = t.rotation /\ t # live
  BY <1>1 DEF Keeps, KeptAreCurrent, At
<1>3. QuietClients
  BY QuietMoves, QuietNames DEF Unanswered
<1>4. CASE ~Rotates(t)
  <2>1. UNCHANGED <<issued, replayed>>
    BY <1>2, <1>4 DEF Unanswered, Refuses, Expires, Current, authority
  <2> QED BY <1>1, <1>3, <2>1, QuietStep DEF QuietFiles, StillOvertaken
<1>5. CASE Rotates(t)
  <2>1. client'[p].pc = "dropping" /\ \A q \in Clients \ {p} : client'[q] = client[q]
    BY Moved DEF Unanswered, Positions
  <2>2. \A q \in Clients, u \in Tokens : Keeps(q, u)' => Keeps(q, u) /\ u # t
    BY <1>1, <1>2, <2>1 DEF Keeps, Renewing, KeptOnce
  <2> HIDE DEF t
  <2>3. /\ replayed' = replayed
        /\ \A u \in Tokens : issued[u.family] = u.rotation /\ u # t => issued'[u.family] = u.rotation
    BY <1>1, <1>5, RotationKeeps DEF t
  <2>4. KeptAreCurrent' /\ KeptOnce'
    BY <1>1, <2>2, <2>3 DEF KeptAreCurrent, KeptOnce
  <2>5. LiveIsCurrent' /\ NeverReplayed'
    BY <1>1, <1>2, <2>3 DEF LiveIsCurrent, NeverReplayed, FilesOK
  <2>6. OneBetweenCalls' /\ AsideIsOwn'
    BY <1>1, <2>1 DEF OneBetweenCalls, AsideIsOwn, Fresh, Window
  <2> QED BY <2>4, <2>5, <2>6
<1> QED BY <1>4, <1>5

LEMMA UnsentKeeps ==
  ASSUME TypeOK, KeptInv, NEW p \in Clients, Unsent(p)
  PROVE  KeptInv'
<1> USE DEF KeptInv, TypeOK, files, authority, history
<1>1. UNCHANGED <<live, refreshing, issued, replayed, overtaken>> /\ client[p].pc = "sending"
  BY DEF Unsent, At
<1>2. /\ client'[p].pc = "restoring" /\ client'[p].token = client[p].token
      /\ \A q \in Clients \ {p} : client'[q] = client[q]
  BY Moved DEF Unsent, Positions
<1>3. \A q \in Clients, t \in Tokens : Keeps(q, t)' => Keeps(q, t)
  BY <1>1, <1>2 DEF Keeps, Renewing
<1>4. KeptAreCurrent' /\ KeptOnce' /\ LiveIsCurrent' /\ NeverReplayed'
  BY <1>1, <1>3 DEF KeptAreCurrent, KeptOnce, LiveIsCurrent, NeverReplayed
<1>5. OneBetweenCalls' /\ AsideIsOwn'
  BY <1>1, <1>2 DEF OneBetweenCalls, AsideIsOwn, Fresh, Window
<1> QED BY <1>4, <1>5

\* A client that owns its claim finds nobody else between two calls but overtaken
\* ones: any other has set the same token aside, and no two clients keep one.
LEMMA ContinuesKeeps ==
  ASSUME TypeOK, KeptInv, NEW p \in Clients, Completes(p) \/ Restores(p)
  PROVE  KeptInv'
<1> USE DEF KeptInv, TypeOK, files, authority, history
<1> DEFINE t == client[p].token
<1>1. CASE ~Owns(p)
  BY <1>1, QuietMoves, QuietStep DEF Completes, Restores, Continues, QuietFiles, StillOvertaken
<1>2. CASE Owns(p)
  <2>1. /\ t \in Tokens /\ live = None /\ refreshing = t
        /\ UNCHANGED <<live, refreshing, issued, replayed, overtaken>>
    BY <1>2 DEF Owns, Completes, Restores, ClientsOK, ClientTypes, Holding, At
  <2>2. /\ \/ client[p].pc = "completing" /\ client'[p].pc = "linking"
           \/ client[p].pc = "restoring" /\ client'[p].pc = "relinking"
        /\ client'[p].token = t /\ \A q \in Clients \ {p} : client'[q] = client[q]
    BY <1>2, Moved DEF Completes, Restores, Continues, Positions, At
  <2>3. \A q \in Clients, u \in Tokens : Keeps(q, u)' => Keeps(q, u)
    BY <2>1, <2>2 DEF Keeps, Renewing
  <2>4. \A q \in Clients \ {p} : ~Fresh(q)
    <3> SUFFICES ASSUME NEW q \in Clients \ {p}, Fresh(q) PROVE FALSE
      OBVIOUS
    <3>1. client[q].pc \in Window /\ client[q].token = t
      BY <2>1, NoneAssumption DEF AsideIsOwn, Fresh
    <3>2. Keeps(q, t) \/ (client[q].pc = "linking" /\ Keeps(q, Rotated(t)))
      BY <2>1, <3>1 DEF Keeps, Window, Renewing
    <3>3. Keeps(p, t) \/ (client[p].pc = "completing" /\ Keeps(p, Rotated(t)))
      BY <2>2 DEF Keeps, Renewing
    <3>4. client[p].pc = "completing" \/ client[q].pc = "linking" => Rotated(t) \in Tokens
      BY <2>1, <3>1, RotatedTypes DEF ClientsOK, Renewing
    <3>5. ~(Keeps(p, t) /\ Keeps(q, t)) /\ ~(Rotated(t) \in Tokens /\ Keeps(p, Rotated(t)) /\ Keeps(q, Rotated(t)))
      BY <2>1 DEF KeptOnce
    <3>6. Rotated(t).family = t.family /\ Rotated(t).rotation = t.rotation + 1 /\ t.rotation \in Nat
      BY <2>1 DEF Rotated, Tokens
    <3>7. \A r, s \in Clients : ~(Rotated(t) \in Tokens /\ Keeps(r, t) /\ Keeps(s, Rotated(t)))
      <4> SUFFICES ASSUME NEW r \in Clients, NEW u \in Clients, Rotated(t) \in Tokens, Keeps(r, t), Keeps(u, Rotated(t)) PROVE FALSE
        OBVIOUS
      <4>1. issued[t.family] = t.rotation /\ issued[t.family] = t.rotation + 1
        BY <2>1, <3>6 DEF KeptAreCurrent
      <4> QED BY <3>6, <4>1
    <3> QED BY <3>2, <3>3, <3>4, <3>5, <3>7
  <2>5. KeptAreCurrent' /\ KeptOnce' /\ LiveIsCurrent' /\ NeverReplayed'
    BY <2>1, <2>3 DEF KeptAreCurrent, KeptOnce, LiveIsCurrent, NeverReplayed
  <2>6. OneBetweenCalls' /\ AsideIsOwn'
    BY <2>1, <2>2, <2>4 DEF OneBetweenCalls, AsideIsOwn, Fresh
  <2> QED BY <2>5, <2>6
<1> QED BY <1>1, <1>2

\* A link makes live what its client kept, which it keeps no longer; whoever else
\* is between two calls is overtaken.
LEMMA LinkKeeps ==
  ASSUME TypeOK, KeptInv, NEW p \in Clients, client[p].pc \in {"linking", "relinking"}, live = None,
         NEW t \in Tokens, Keeps(p, t), live' = t, UNCHANGED <<refreshing, issued, replayed>>, Overtakes(p),
         client'[p].pc = "checking claim", \A q \in Clients \ {p} : client'[q] = client[q]
  PROVE  KeptInv'
<1> USE DEF KeptInv
<1>1. \A q \in Clients, u \in Tokens : Keeps(q, u)' => Keeps(q, u) /\ u # t
  BY DEF Keeps, Renewing, KeptOnce
<1>2. KeptAreCurrent' /\ KeptOnce'
  BY <1>1 DEF KeptAreCurrent, KeptOnce
<1>3. LiveIsCurrent' /\ NeverReplayed'
  BY DEF LiveIsCurrent, NeverReplayed, KeptAreCurrent
<1>4. \A q \in Clients : ~Fresh(q)'
  <2> SUFFICES ASSUME NEW q \in Clients, Fresh(q)' PROVE FALSE
    OBVIOUS
  <2>1. q # p /\ client[q].pc \in Window /\ q \notin overtaken'
    BY DEF Fresh, Window
  <2>2. CASE p \in overtaken
    BY <2>1, <2>2 DEF Overtakes, BetweenCalls, Window
  <2>3. CASE p \notin overtaken
    BY <2>1, <2>3 DEF Overtakes, At, OneBetweenCalls, Fresh, Window
  <2> QED BY <2>2, <2>3
<1>5. OneBetweenCalls' /\ AsideIsOwn'
  BY <1>4 DEF OneBetweenCalls, AsideIsOwn
<1> QED BY <1>2, <1>3, <1>5

LEMMA LinksKeeps ==
  ASSUME TypeOK, KeptInv, NEW p \in Clients, Links(p) \/ Relinks(p), ~crossed'
  PROVE  KeptInv'
<1> USE DEF KeptInv, TypeOK, files, authority
<1> DEFINE t == client[p].token
<1>0. t \in Tokens /\ client[p].pc \in {"linking", "relinking"}
  BY DEF Links, Relinks, ClientsOK, ClientTypes, Holding, At
<1>1. CASE Links(p) /\ live = None
  <2>1. Rotated(t) \in Tokens /\ Keeps(p, Rotated(t))
    BY <1>0, <1>1, RotatedTypes DEF Links, Keeps, ClientsOK, Renewing, At
  <2>2. client'[p].pc = "checking claim" /\ \A q \in Clients \ {p} : client'[q] = client[q]
    BY <1>1, Moved DEF Links, Positions
  <2>3. live' = Rotated(t) /\ Overtakes(p) /\ UNCHANGED <<refreshing, issued, replayed>>
    BY <1>1 DEF Links
  <2> QED BY <1>0, <1>1, <2>1, <2>2, <2>3, LinkKeeps
<1>2. CASE Relinks(p) /\ live = None /\ refreshing # None
  <2>0. refreshing = t
    <3>1. CASE p \in overtaken
      BY <1>2, <3>1 DEF Relinks, Crosses
    <3>2. CASE p \notin overtaken
      BY <1>0, <1>2, <3>2 DEF AsideIsOwn, Fresh, Window
    <3> QED BY <3>1, <3>2
  <2>1. refreshing = t /\ Keeps(p, t)
    BY <1>2, <2>0 DEF Relinks, Keeps, At
  <2>2. client' = [client EXCEPT ![p].pc = "checking claim", ![p].op = "refresh"]
    BY <1>2 DEF Relinks
  <2>3. client'[p].pc = "checking claim" /\ \A q \in Clients \ {p} : client'[q] = client[q]
    BY <2>2 DEF ClientsOK, ClientTypes
  <2>4. live' = t /\ Overtakes(p) /\ UNCHANGED <<refreshing, issued, replayed>>
    BY <1>2, <2>1 DEF Relinks
  <2> QED BY <1>0, <1>2, <2>1, <2>3, <2>4, LinkKeeps
<1>3. CASE Fails(p)
  BY <1>3, FailsQuiet, QuietStep
<1> QED BY <1>1, <1>2, <1>3 DEF Links, Relinks

\* A sign-in installs the first pair of a family that had none, and overtakes
\* whoever is between two calls.
LEMMA InstallKeeps ==
  ASSUME TypeOK, KeptInv, NEW p \in Clients, SignInInstalls(p)
  PROVE  KeptInv'
<1> USE NoneAssumption DEF KeptInv, TypeOK
<1>1. PICK f \in NewFamily : /\ issued' = [issued EXCEPT ![f] = 0]
                             /\ live' = [family |-> f, rotation |-> 0]
                             /\ Holds(p, "tidying refreshing", live')
  BY DEF SignInInstalls
<1>2. f \in Families /\ issued[f] = None /\ live' \in Tokens
  BY <1>1, Ranges DEF NewFamily, Tokens
<1>3. client'[p].pc = "tidying refreshing" /\ \A q \in Clients \ {p} : client'[q] = client[q]
  BY <1>1, <1>2, Moved DEF Positions
<1>4. \A q \in Clients : ~Fresh(q)'
  BY <1>3 DEF SignInInstalls, Overtakes, BetweenCalls, Fresh, Window
<1>5. UNCHANGED <<refreshing, replayed>>
  BY DEF SignInInstalls
<1>6. \A q \in Clients, t \in Tokens : Keeps(q, t)' => Keeps(q, t)
  BY <1>3, <1>5 DEF Keeps, Renewing
<1>7. ASSUME NEW t \in Tokens, issued[t.family] = t.rotation
      PROVE  issued'[t.family] = t.rotation /\ t # live'
  <2>1. t.family # f
    BY <1>2, <1>7 DEF Tokens
  <2>2. issued'[t.family] = issued[t.family]
    BY <1>1, <1>2, <2>1 DEF AuthorityOK, Tokens
  <2>3. live'.family = f
    BY <1>1
  <2>4. t # live'
    BY <2>1, <2>3
  <2> QED BY <1>7, <2>2, <2>4
<1>8. KeptAreCurrent' /\ KeptOnce'
  BY <1>6, <1>7 DEF KeptAreCurrent, KeptOnce
<1>9. LiveIsCurrent'
  BY <1>1, <1>2 DEF LiveIsCurrent, AuthorityOK
<1> QED BY <1>4, <1>5, <1>8, <1>9 DEF NeverReplayed, OneBetweenCalls, AsideIsOwn

LEMMA InitKeeps == Init => KeptInv
<1> SUFFICES ASSUME Init PROVE KeptInv
  OBVIOUS
<1>1. \A p \in Clients : client[p].pc = "idle"
  BY DEF Init, Resting
<1>2. LiveIsCurrent /\ NeverReplayed
  BY Ranges DEF Init, LiveIsCurrent, NeverReplayed
<1> QED BY <1>1, <1>2 DEF KeptInv, KeptAreCurrent, KeptOnce, OneBetweenCalls, AsideIsOwn, Fresh, Keeps, Renewing, Window

LEMMA NextKeeps == TypeOK /\ KeptInv /\ [Next]_vars /\ ~crossed' => KeptInv'
<1> SUFFICES ASSUME TypeOK, KeptInv, [Next]_vars, ~crossed' PROVE KeptInv'
  OBVIOUS
<1>1. CASE UNCHANGED vars
  BY <1>1, QuietStep DEF vars, files, authority, history, QuietFiles, QuietClients, StillOvertaken
<1>2. ASSUME NEW p \in Clients, Starts(p) \/ RefreshBegins(p) \/ GivesUp(p) \/ ReadStep(p)
      PROVE  KeptInv'
  BY <1>2, StartQuiet, ReadQuiet, QuietStep
<1>3. ASSUME NEW p \in Clients, RefreshStep(p)
      PROVE  KeptInv'
  BY <1>3, RefreshQuiet, QuietStep, MovesKeeps, OpensKeeps, AnsweredKeeps, UnansweredKeeps, UnsentKeeps,
     ContinuesKeeps, LinksKeeps DEF RefreshStep
<1>4. ASSUME NEW p \in Clients, SignStep(p)
      PROVE  KeptInv'
  BY <1>4, SignQuiet, QuietStep, InstallKeeps
<1>5. CASE (\E p \in Clients : Crash(p)) \/ (\E kind \in {"read", "refresh"} : EntryAges(kind))
  BY <1>5, OtherQuiet, QuietStep
<1> QED BY <1>1, <1>2, <1>3, <1>4, <1>5 DEF Next

\* What happened stays so.
LEMMA CrossedStays == TypeOK /\ [Next]_vars /\ crossed => crossed'
<1> USE DEF history, Fails
<1>1. ASSUME NEW p \in Clients, Starts(p) \/ RefreshBegins(p) \/ GivesUp(p) \/ Crash(p), crossed
      PROVE  crossed'
  BY <1>1 DEF Starts, ReadBegins, StatusBegins, SignInBegins, SignOutClaims, RefreshBegins, GivesUp, Crash
<1>2. ASSUME NEW p \in Clients, ReadStep(p), crossed
      PROVE  crossed'
  BY <1>2 DEF ReadStep, ReadLists, ReadEnters, ReadRechecks, StoreRead, StoreOpened, TidyRefreshing, TidyClaim,
     TidyLeaving, RequestSent, ExpiresSoon, RequestEnds
<1>3. ASSUME NEW p \in Clients, RefreshStep(p), crossed
      PROVE  crossed'
  BY <1>3 DEF RefreshStep, RenewalRefused, Intends, Claims, FindsBusy, Moves, OpensAside, Answered, Unanswered,
     Unsent, Completes, Links, Restores, Relinks, Drops, ChecksClaim, RemovesAside, RemovesClaim, Unclaims,
     RemovesOwn, Crosses
<1>4. ASSUME NEW p \in Clients, SignStep(p), crossed
      PROVE  crossed'
  BY <1>4 DEF SignStep, SignInClears, SignInInstalls, SignOutMoves, SignOutRevokes, SignOutForgets, SignOutClears
<1>5. ASSUME NEW kind \in {"read", "refresh"}, EntryAges(kind), crossed
      PROVE  crossed'
  BY <1>5 DEF EntryAges
<1> QED BY <1>1, <1>2, <1>3, <1>4, <1>5 DEF Next, vars

KeptUntilCrossed == ~crossed => KeptInv

\* Until an overtaken client takes another's session, KeptInv holds: what may
\* still be submitted is current, and one process has it, however many sign-ins
\* fall between the calls of a refresh.
THEOREM Kept == Spec => []KeptUntilCrossed
<1>1. Init => KeptUntilCrossed
  BY InitKeeps DEF KeptUntilCrossed
<1>2. TypeOK /\ KeptUntilCrossed /\ [Next]_vars => KeptUntilCrossed'
  BY NextKeeps, CrossedStays DEF KeptUntilCrossed
<1> QED BY <1>1, <1>2, Typed, PTL DEF Spec

\* A used token is submitted in one way only: refresh claims, crashes,
\* unanswered refreshes, sign-ins and sign-outs of any number of processes never
\* make the Authority revoke a family as replayed, unless a client that a sign-in
\* overtook between two calls took another's session for its own.
THEOREM SafeFromReplay == Spec => []ReplayTakesCrossing
<1>1. KeptUntilCrossed => ReplayTakesCrossing
  BY DEF KeptUntilCrossed, KeptInv, ReplayTakesCrossing
<1> QED BY <1>1, Kept, PTL

\* And until then the live session is always the last its family was issued,
\* also when a sign-in falls between the check of a claim and the link.
THEOREM LiveStaysCurrent == Spec => []StaleTakesCrossing
<1>1. KeptUntilCrossed => StaleTakesCrossing
  BY DEF KeptUntilCrossed, KeptInv, StaleTakesCrossing
<1> QED BY <1>1, Kept, PTL

-----------------------------------------------------------------------------
(* Requests keep their credential.  A read looks for refreshes once more     *)
(* after it entered, a refresh for reads after it entered: of two that rely  *)
(* on their entries, one missed the other's because it was cleared.          *)

\* Where a reading client has its entry, and where it relies on it: from the
\* second look for a refresh on.
ReadEntered == {"entered", "reading", "opening", "tidying refreshing", "tidying claim", "tidying leaving",
                "deciding", "requesting"}
Reads(p) == client[p].op = "read" /\ client[p].pc \in ReadEntered \ {"entered"}

\* The same for a refresh, which relies on its entry once it has waited for reads.
RefreshEntered == {"intending", "claiming", "busy", "moving", "opening aside", "sending", "completing", "linking",
                   "restoring", "relinking", "dropping", "checking claim", "removing aside", "removing claim",
                   "unclaiming", "removing own"}
Refreshes(p) == client[p].pc \in RefreshEntered \ {"intending"}

Entered(p, kind) == <<p, kind>> \in entries \/ p \in cleared

Registered(p) ==
  /\ client[p].op = "read" /\ client[p].pc \in ReadEntered => Entered(p, "read")
  /\ client[p].pc \in RefreshEntered => Entered(p, "refresh")
  /\ client[p].pc \in {"deciding", "requesting"} => client[p].op = "read"
  /\ client[p].pc \in {"in browser", "installing"} => client[p].op # "read"

\* A read and a refresh that both rely on their entries have not both kept them.
Apart == \A p, q \in Clients : Reads(p) /\ Refreshes(q) => {p, q} \cap cleared # {}

AccessInv == (\A p \in Clients : Registered(p)) /\ Apart

\* Where a step takes its client, and that it leaves the others alone.
Shift(p, pc, op) ==
  /\ client'[p].pc = pc /\ client'[p].op = op
  /\ \A q \in Clients \ {p} : client'[q] = client[q]

LEMMA Shifts ==
  ASSUME ClientsOK, NEW p \in Clients, NEW pc \in Positions
  PROVE  /\ Goes(p, pc) => Shift(p, pc, client[p].op)
         /\ \A t \in Tokens \cup {None} : Holds(p, pc, t) => Shift(p, pc, client[p].op)
         /\ \A op \in Operations : Begins(p, op, pc) => Shift(p, pc, op)
         /\ \A op \in Operations : client' = [client EXCEPT ![p].pc = pc, ![p].op = op] => Shift(p, pc, op)
         /\ client' = [client EXCEPT ![p].pc = pc, ![p].token = None, ![p].renewed = TRUE]
              => Shift(p, pc, client[p].op)
         /\ Rests(p) => Shift(p, "idle", "none")
         /\ UNCHANGED client => Shift(p, client[p].pc, client[p].op)
BY DEF Goes, Holds, Begins, Rests, Resting, Shift, ClientsOK, ClientTypes

\* What a step of p may do to the directory.
Withdraws(p) == entries' = entries \ Own(p) /\ cleared' = cleared \ {p}
EntriesMove(p) ==
  UNCHANGED coordination \/ ClearsOperations \/ Withdraws(p) \/ \E kind \in {"read", "refresh"} : Enters(p, kind)

LEMMA OthersEntries ==
  ASSUME NEW p \in Clients, NEW q \in Clients \ {p}, EntriesMove(p)
  PROVE  /\ q \in cleared => q \in cleared'
         /\ \A kind \in {"read", "refresh"} : Entered(q, kind) => Entered(q, kind)'
<1>1. q \in cleared => q \in cleared'
  BY DEF EntriesMove, coordination, ClearsOperations, Withdraws, Enters
<1>2. ASSUME NEW kind \in {"read", "refresh"}, <<q, kind>> \in entries PROVE <<q, kind>> \in entries' \/ q \in cleared'
  <2>1. <<q, kind>> \in Own(q) /\ <<q, kind>> \notin Own(p)
    BY <1>2 DEF Own
  <2> QED
    BY <1>2, <2>1 DEF EntriesMove, coordination, ClearsOperations, Withdraws, Enters
<1> QED
  BY <1>1, <1>2 DEF Entered

\* A step keeps the invariant if its client is registered after it, and relies
\* on its entry only where no other one relies on one that it has kept.
LEMMA AccessStep ==
  ASSUME AccessInv, NEW p \in Clients, NEW pc, NEW op, Shift(p, pc, op), EntriesMove(p), Registered(p)',
         Reads(p)'     => \A q \in Clients \ {p} : Refreshes(q) => p \in cleared' \/ q \in cleared,
         Refreshes(p)' => \A q \in Clients \ {p} : Reads(q)     => p \in cleared' \/ q \in cleared
  PROVE  AccessInv'
<1>1. ASSUME NEW q \in Clients \ {p} PROVE Registered(q)'
  <2>1. client'[q] = client[q] /\ Registered(q)
    BY DEF Shift, AccessInv
  <2>2. \A kind \in {"read", "refresh"} : Entered(q, kind) => Entered(q, kind)'
    BY OthersEntries
  <2> QED
    BY <2>1, <2>2 DEF Registered
<1>2. ~(Reads(p)' /\ Refreshes(p)')
  BY DEF Reads, Refreshes, ReadEntered, RefreshEntered
<1>3. \A q \in Clients \ {p} : (Reads(q)' => Reads(q)) /\ (Refreshes(q)' => Refreshes(q)) /\ (q \in cleared => q \in cleared')
  BY OthersEntries DEF Shift, Reads, Refreshes
<1>4. Apart'
  <2> SUFFICES ASSUME NEW q \in Clients, NEW r \in Clients, Reads(q)', Refreshes(r)'
               PROVE  q \in cleared' \/ r \in cleared'
    BY DEF Apart
  <2>1. CASE q = p
    BY <1>2, <1>3, <2>1
  <2>2. CASE r = p
    BY <1>2, <1>3, <2>2
  <2>3. CASE q # p /\ r # p
    BY <1>3, <2>3 DEF AccessInv, Apart
  <2> QED BY <2>1, <2>2, <2>3
<1> QED
  BY <1>1, <1>4 DEF AccessInv

\* Where a client may go under the entry it has.
SameEntry(p, pc, op) ==
  /\ op = "read" /\ pc \in ReadEntered => Reads(p)
  /\ pc \in RefreshEntered => Refreshes(p)
  /\ pc \in {"deciding", "requesting"} => op = "read"
  /\ pc \in {"in browser", "installing"} => op # "read"

NoEntry(pc, op) ==
  /\ pc \notin RefreshEntered \cup {"deciding", "requesting", "in browser", "installing"}
  /\ ~(op = "read" /\ pc \in ReadEntered)

LEMMA StaysApart ==
  ASSUME AccessInv, NEW p \in Clients, NEW pc, NEW op, Shift(p, pc, op), SameEntry(p, pc, op),
         UNCHANGED coordination \/ ClearsOperations
  PROVE  AccessInv'
<1>1. \A kind \in {"read", "refresh"} : Entered(p, kind) => Entered(p, kind)'
  <2>1. \A kind \in {"read", "refresh"} : <<p, kind>> \in Own(p)
    BY DEF Own
  <2> QED
    BY <2>1 DEF Entered, coordination, ClearsOperations
<1>2. Registered(p)'
  BY <1>1 DEF Registered, SameEntry, Shift, Reads, Refreshes, AccessInv
<1>3. (Reads(p)' => Reads(p)) /\ (Refreshes(p)' => Refreshes(p)) /\ (p \in cleared => p \in cleared')
  BY DEF SameEntry, Shift, Reads, Refreshes, coordination, ClearsOperations
<1>4. EntriesMove(p)
  BY DEF EntriesMove
<1>5. Apart
  BY DEF AccessInv
<1> QED
  BY <1>2, <1>3, <1>4, <1>5, AccessStep DEF Apart

LEMMA LeavesApart ==
  ASSUME AccessInv, NEW p \in Clients, NEW pc, NEW op, Shift(p, pc, op), NoEntry(pc, op),
         Withdraws(p) \/ UNCHANGED coordination \/ ClearsOperations
  PROVE  AccessInv'
<1>1. Registered(p)' /\ ~Reads(p)' /\ ~Refreshes(p)'
  BY DEF Registered, Reads, Refreshes, NoEntry, Shift
<1>2. EntriesMove(p)
  BY DEF EntriesMove
<1> QED
  BY <1>1, <1>2, AccessStep

LEMMA EntersApart ==
  ASSUME AccessInv, NEW p \in Clients, NEW op,
         \/ Enters(p, "read") /\ Shift(p, "entered", op)
         \/ Enters(p, "refresh") /\ Shift(p, "intending", op)
  PROVE  AccessInv'
<1>1. Registered(p)' /\ ~Reads(p)' /\ ~Refreshes(p)'
  BY DEF Registered, Entered, Enters, Reads, Refreshes, ReadEntered, RefreshEntered, Shift
<1>2. EntriesMove(p)
  BY DEF EntriesMove
<1> QED
  BY <1>1, <1>2, AccessStep

LEMMA AccessPlaces ==
  /\ ReadEntered \cup RefreshEntered \subseteq Positions
  /\ {"idle", "listing", "entering", "renewing", "in browser", "installing", "leaving", "revoking",
      "finishing", "clearing"} \subseteq Positions \ (ReadEntered \cup RefreshEntered)
  /\ ReadEntered \cap RefreshEntered = {}
BY DEF Positions, ReadEntered, RefreshEntered

LEMMA FailsApart ==
  ASSUME ClientsOK, AccessInv, NEW p \in Clients, Rests(p), Leaves(p) \/ UNCHANGED coordination \/ ClearsOperations
  PROVE  AccessInv'
<1>1. Shift(p, "idle", "none") /\ NoEntry("idle", "none")
  BY Shifts, AccessPlaces DEF NoEntry, RefreshEntered
<1> QED
  BY <1>1, LeavesApart DEF Leaves, Withdraws

LEMMA StartApart ==
  ASSUME TypeOK, AccessInv, NEW p \in Clients, Starts(p) \/ RefreshBegins(p) \/ GivesUp(p)
  PROVE  AccessInv'
<1> USE AccessPlaces DEF TypeOK, Operations
<1>1. CASE Starts(p)
  <2>1. PICK pc \in Positions, op \in Operations : Shift(p, pc, op) /\ (NoEntry(pc, op) \/ SameEntry(p, pc, op))
    BY <1>1, Shifts DEF Starts, ReadBegins, StatusBegins, SignInBegins, SignOutClaims, NoEntry, SameEntry,
       ReadEntered, RefreshEntered
  <2>2. UNCHANGED coordination
    BY <1>1 DEF Starts, ReadBegins, StatusBegins, SignInBegins, SignOutClaims
  <2> QED
    BY <2>1, <2>2, LeavesApart, StaysApart
<1>2. CASE RefreshBegins(p)
  <2>1. \E op : Shift(p, "intending", op)
    BY <1>2, Shifts DEF RefreshBegins, RefreshEntered
  <2> QED
    BY <1>2, <2>1, EntersApart DEF RefreshBegins
<1>3. CASE GivesUp(p)
  BY <1>3, FailsApart DEF GivesUp, Fails
<1> QED
  BY <1>1, <1>2, <1>3

\* A client that goes on at the same entry, by its position alone.
LEMMA GoesApart ==
  ASSUME TypeOK, AccessInv, NEW p \in Clients, NEW pc \in Positions,
         Goes(p, pc) \/ (\E t \in Tokens \cup {None} : Holds(p, pc, t)),
         SameEntry(p, pc, client[p].op), UNCHANGED coordination \/ ClearsOperations
  PROVE  AccessInv'
<1>1. Shift(p, pc, client[p].op)
  BY Shifts DEF TypeOK
<1> QED
  BY <1>1, StaysApart

LEMMA SessionApart ==
  ASSUME TypeOK, AccessInv, NEW p \in Clients, NEW t \in Tokens, HasSession(p, t), client[p].pc \in ReadEntered \ {"entered"}
  PROVE  AccessInv'
<1>1. CASE client[p].op = "read"
  <2>1. SameEntry(p, "deciding", client[p].op) /\ "deciding" \in Positions
    BY <1>1, AccessPlaces DEF SameEntry, Reads, RefreshEntered, ReadEntered
  <2> QED
    BY <1>1, <2>1, GoesApart DEF HasSession
<1>2. CASE client[p].op # "read"
  BY <1>2, FailsApart DEF HasSession, TypeOK
<1> QED
  BY <1>1, <1>2

LEMMA ReadApart ==
  ASSUME TypeOK, AccessInv, NEW p \in Clients, ReadStep(p)
  PROVE  AccessInv'
<1> USE AccessPlaces DEF TypeOK, At
<1>1. CASE ReadLists(p)
  <2>1. SameEntry(p, "entering", client[p].op)
    BY DEF SameEntry
  <2> QED
    BY <1>1, <2>1, GoesApart DEF ReadLists
<1>2. CASE ReadEnters(p)
  <2>1. Shift(p, "entered", client[p].op)
    BY <1>2, Shifts DEF ReadEnters, ReadEntered
  <2> QED
    BY <1>2, <2>1, EntersApart DEF ReadEnters
<1>3. CASE ReadRechecks(p)
  <2>1. CASE ReadYields
    <3>1. Shift(p, "listing", client[p].op) /\ NoEntry("listing", client[p].op)
      BY <1>3, <2>1, Shifts DEF ReadRechecks, NoEntry
    <3> QED
      BY <1>3, <2>1, <3>1, LeavesApart DEF ReadRechecks, Leaves, Withdraws
  <2>2. CASE ~ReadYields
    <3>1. Shift(p, "reading", client[p].op) /\ UNCHANGED coordination /\ client[p].pc = "entered"
      BY <1>3, <2>2, Shifts DEF ReadRechecks, ReadEntered
    <3>2. Registered(p)' /\ ~Refreshes(p)'
      BY <3>1 DEF AccessInv, Registered, Entered, Refreshes, Shift, ReadEntered, RefreshEntered, coordination
    <3>3. \A q \in Clients : <<q, "refresh">> \notin entries
      BY <2>2 DEF ReadYields, Found
    <3>4. \A q \in Clients : Refreshes(q) => q \in cleared
      BY <3>3 DEF AccessInv, Registered, Entered, Refreshes
    <3> QED
      BY <3>1, <3>2, <3>4, AccessStep DEF EntriesMove
  <2> QED BY <2>1, <2>2
<1>4. CASE StoreRead(p)
  <2>1. client[p].pc = "reading"
    BY <1>4 DEF StoreRead
  <2>2. CASE Goes(p, "opening") /\ UNCHANGED coordination
    <3>1. SameEntry(p, "opening", client[p].op)
      BY <2>1 DEF SameEntry, Reads, ReadEntered, RefreshEntered
    <3> QED
      BY <2>2, <3>1, GoesApart DEF ReadEntered
  <2>3. CASE Readable /\ HasSession(p, live)
    BY <2>1, <2>3, SessionApart DEF Readable, FilesOK, ReadEntered
  <2> QED
    BY <1>4, <2>2, <2>3, FailsApart DEF StoreRead, Fails
<1>5. CASE StoreOpened(p)
  <2>1. SameEntry(p, "tidying refreshing", client[p].op)
    BY <1>5 DEF StoreOpened, SameEntry, Reads, ReadEntered, RefreshEntered
  <2>2. (Holds(p, "tidying refreshing", live) /\ UNCHANGED coordination) \/ Fails(p)
    BY <1>5 DEF StoreOpened
  <2> QED
    BY <2>1, <2>2, GoesApart, FailsApart DEF Fails, FilesOK, ReadEntered
<1>6. CASE TidyRefreshing(p) \/ TidyClaim(p)
  <2>1. PICK pc \in {"tidying claim", "tidying leaving"} : Goes(p, pc) /\ UNCHANGED coordination
    BY <1>6 DEF TidyRefreshing, TidyClaim
  <2>2. SameEntry(p, pc, client[p].op)
    BY <1>6, <2>1 DEF TidyRefreshing, TidyClaim, SameEntry, Reads, ReadEntered, RefreshEntered
  <2> QED
    BY <2>1, <2>2, GoesApart DEF ReadEntered
<1>7. CASE TidyLeaving(p)
  <2>1. client[p].token \in Tokens /\ client[p].pc \in ReadEntered \ {"entered"}
    BY <1>7 DEF TidyLeaving, ClientsOK, ClientTypes, Holding, ReadEntered
  <2> QED
    BY <1>7, <2>1, SessionApart DEF TidyLeaving
<1>8. CASE RequestSent(p)
  <2>1. SameEntry(p, "requesting", client[p].op)
    BY <1>8 DEF RequestSent, SameEntry, Reads, ReadEntered, RefreshEntered, AccessInv, Registered
  <2> QED
    BY <1>8, <2>1, GoesApart DEF RequestSent, ReadEntered
<1>9. CASE ExpiresSoon(p)
  <2>1. Shift(p, "renewing", client[p].op) \/ Rests(p)
    BY <1>9, Shifts DEF ExpiresSoon
  <2>2. NoEntry("renewing", client[p].op) /\ Leaves(p)
    BY <1>9 DEF NoEntry, ExpiresSoon
  <2> QED
    BY <2>1, <2>2, LeavesApart, FailsApart DEF Leaves, Withdraws
<1>10. CASE RequestEnds(p)
  BY <1>10, FailsApart DEF RequestEnds
<1> QED
  BY <1>1, <1>2, <1>3, <1>4, <1>5, <1>6, <1>7, <1>8, <1>9, <1>10 DEF ReadStep

\* A refresh that goes on, by its position alone, whatever is done with the claim.
LEMMA RefreshGoes ==
  ASSUME TypeOK, AccessInv, NEW p \in Clients, Refreshes(p), NEW pc \in RefreshEntered, UNCHANGED coordination,
         \/ Goes(p, pc) \/ (\E t \in Tokens \cup {None} : Holds(p, pc, t))
         \/ client' = [client EXCEPT ![p].pc = pc, ![p].op = "refresh"]
  PROVE  AccessInv'
<1>1. \E op : Shift(p, pc, op)
  BY Shifts, AccessPlaces DEF TypeOK, Operations
<1>2. \A op : SameEntry(p, pc, op)
  BY AccessPlaces DEF SameEntry, ReadEntered, RefreshEntered
<1> QED
  BY <1>1, <1>2, StaysApart

LEMMA DoneApart ==
  ASSUME TypeOK, AccessInv, NEW p \in Clients, RefreshDone(p)
  PROVE  AccessInv'
<1>1. CASE client[p].op = "read"
  <2>1. Shift(p, "listing", client[p].op) /\ NoEntry("listing", client[p].op)
    BY <1>1, Shifts, AccessPlaces DEF RefreshDone, NoEntry, TypeOK
  <2> QED
    BY <2>1, LeavesApart DEF RefreshDone, Leaves, Withdraws
<1>2. CASE client[p].op # "read"
  BY <1>2, FailsApart DEF RefreshDone, TypeOK
<1> QED
  BY <1>1, <1>2

LEMMA RefreshApart ==
  ASSUME TypeOK, AccessInv, NEW p \in Clients, RefreshStep(p)
  PROVE  AccessInv'
<1> USE AccessPlaces DEF TypeOK, At
<1>1. CASE RenewalRefused(p) \/ RemovesOwn(p)
  BY <1>1, FailsApart DEF RenewalRefused, RemovesOwn, Fails
<1>2. CASE Intends(p)
  <2>1. CASE <<p, "refresh">> \notin entries
    <3>1. Shift(p, "intending", client[p].op)
      BY <1>2, <2>1, Shifts DEF Intends, RefreshEntered
    <3> QED
      BY <1>2, <2>1, <3>1, EntersApart DEF Intends
  <2>2. CASE <<p, "refresh">> \in entries
    <3>1. Shift(p, "claiming", client[p].op) /\ UNCHANGED coordination /\ client[p].pc = "intending"
      BY <1>2, <2>2, Shifts DEF Intends, RefreshEntered
    <3>2. Registered(p)' /\ ~Reads(p)'
      BY <2>2, <3>1 DEF Registered, Entered, Reads, Shift, ReadEntered, RefreshEntered, coordination
    <3>3. \A q \in Clients : <<q, "read">> \notin entries
      BY <1>2, <2>2 DEF Intends, Found
    <3>4. \A q \in Clients : Reads(q) => q \in cleared
      BY <3>3 DEF AccessInv, Registered, Entered, Reads
    <3> QED
      BY <3>1, <3>2, <3>4, AccessStep DEF EntriesMove
  <2> QED BY <2>1, <2>2
<1>3. CASE Claims(p)
  <2>1. Refreshes(p) /\ {"moving", "busy"} \subseteq RefreshEntered
    BY <1>3 DEF Claims, Refreshes, RefreshEntered
  <2> QED
    BY <1>3, <2>1, RefreshGoes DEF Claims
<1>4. CASE FindsBusy(p)
  <2>1. Refreshes(p) /\ "intending" \in RefreshEntered
    BY <1>4 DEF FindsBusy, Refreshes, RefreshEntered
  <2> QED
    BY <1>4, <2>1, RefreshGoes, FailsApart DEF FindsBusy, Fails
<1>5. CASE Moves(p)
  <2>1. Refreshes(p) /\ {"opening aside", "unclaiming"} \subseteq RefreshEntered
    BY <1>5 DEF Moves, Refreshes, RefreshEntered
  <2> QED
    BY <1>5, <2>1, RefreshGoes DEF Moves, FilesOK
<1>6. CASE OpensAside(p)
  <2>1. Refreshes(p) /\ "sending" \in RefreshEntered
    BY <1>6 DEF OpensAside, Refreshes, RefreshEntered
  <2> QED
    BY <1>6, <2>1, RefreshGoes, FailsApart DEF OpensAside, Fails, FilesOK
<1>7. CASE Answered(p) \/ Unanswered(p) \/ Unsent(p)
  <2>1. Refreshes(p) /\ {"completing", "dropping", "restoring"} \subseteq RefreshEntered
    BY <1>7 DEF Answered, Unanswered, Unsent, Refreshes, RefreshEntered
  <2> QED
    BY <1>7, <2>1, RefreshGoes DEF Answered, Unanswered, Unsent
<1>8. CASE Completes(p) \/ Restores(p)
  <2>1. Refreshes(p) /\ {"linking", "relinking"} \subseteq RefreshEntered
    BY <1>8 DEF Completes, Restores, Refreshes, RefreshEntered
  <2> QED
    BY <1>8, <2>1, RefreshGoes, FailsApart DEF Completes, Restores, Continues
<1>9. CASE Links(p) \/ Relinks(p) \/ Drops(p)
  <2>1. Refreshes(p) /\ "checking claim" \in RefreshEntered
    BY <1>9 DEF Links, Relinks, Drops, Refreshes, RefreshEntered
  <2> QED
    BY <1>9, <2>1, RefreshGoes, FailsApart DEF Links, Relinks, Drops, Fails
<1>10. CASE ChecksClaim(p) \/ RemovesAside(p) \/ RemovesClaim(p)
  <2>1. Refreshes(p) /\ {"removing aside", "removing claim"} \subseteq RefreshEntered
    BY <1>10 DEF ChecksClaim, RemovesAside, RemovesClaim, Refreshes, RefreshEntered
  <2> QED
    BY <1>10, <2>1, RefreshGoes, DoneApart DEF ChecksClaim, RemovesAside, RemovesClaim
<1>11. CASE Unclaims(p)
  <2>1. Refreshes(p) /\ "removing own" \in RefreshEntered
    BY <1>11 DEF Unclaims, Refreshes, RefreshEntered
  <2> QED
    BY <1>11, <2>1, RefreshGoes, FailsApart DEF Unclaims, Fails
<1> QED
  BY <1>1, <1>2, <1>3, <1>4, <1>5, <1>6, <1>7, <1>8, <1>9, <1>10, <1>11 DEF RefreshStep

LEMMA SignApart ==
  ASSUME TypeOK, AccessInv, NEW p \in Clients, SignStep(p)
  PROVE  AccessInv'
<1> USE AccessPlaces DEF TypeOK, At
<1>1. CASE SignInClears(p)
  <2>1. SameEntry(p, "installing", client[p].op)
    BY <1>1 DEF SignInClears, SameEntry, AccessInv, Registered
  <2> QED
    BY <1>1, <2>1, GoesApart DEF SignInClears
<1>2. CASE SignInInstalls(p)
  <2>1. Holds(p, "tidying refreshing", live') /\ live' \in Tokens /\ UNCHANGED coordination
    <3>1. PICK f \in NewFamily : live' = [family |-> f, rotation |-> 0] /\ Holds(p, "tidying refreshing", live')
      BY <1>2 DEF SignInInstalls
    <3> QED
      BY <1>2, <3>1, Ranges DEF SignInInstalls, NewFamily, Tokens
  <2>2. SameEntry(p, "tidying refreshing", client[p].op)
    BY <1>2 DEF SignInInstalls, SameEntry, AccessInv, Registered, RefreshEntered
  <2> QED
    BY <2>1, <2>2, GoesApart DEF ReadEntered
<1>3. CASE SignOutMoves(p)
  <2>1. SameEntry(p, "revoking", client[p].op)
    BY DEF SameEntry
  <2> QED
    BY <1>3, <2>1, GoesApart, FailsApart DEF SignOutMoves, FilesOK
<1>4. CASE SignOutRevokes(p) \/ SignOutForgets(p)
  <2>1. SameEntry(p, "finishing", client[p].op) /\ SameEntry(p, "clearing", client[p].op)
    BY DEF SameEntry
  <2> QED
    BY <1>4, <2>1, GoesApart DEF SignOutRevokes, SignOutForgets
<1>5. CASE SignOutClears(p)
  BY <1>5, FailsApart DEF SignOutClears
<1> QED
  BY <1>1, <1>2, <1>3, <1>4, <1>5 DEF SignStep

LEMMA OtherApart ==
  ASSUME TypeOK, AccessInv, (\E p \in Clients : Crash(p)) \/ (\E kind \in {"read", "refresh"} : EntryAges(kind)) \/ UNCHANGED vars
  PROVE  AccessInv'
<1>1. ASSUME NEW p \in Clients, Crash(p) PROVE AccessInv'
  <2>1. Shift(p, "idle", "none") /\ NoEntry("idle", "none") /\ Withdraws(p)
    BY <1>1, Shifts, AccessPlaces DEF Crash, Withdraws, NoEntry, TypeOK
  <2> QED
    BY <2>1, LeavesApart
<1>2. CASE UNCHANGED <<client, entries, cleared>>
  BY <1>2 DEF AccessInv, Apart, Registered, Reads, Refreshes, Entered
<1> QED
  BY <1>1, <1>2 DEF EntryAges, vars, coordination

LEMMA AccessStays == Spec => []AccessInv
<1>1. Init => AccessInv
  <2> SUFFICES ASSUME Init PROVE AccessInv
    OBVIOUS
  <2>1. \A p \in Clients : client[p].op = "none" /\ client[p].pc = "idle"
    BY DEF Init, Resting
  <2> QED
    BY <2>1 DEF AccessInv, Apart, Registered, Reads, Refreshes, ReadEntered, RefreshEntered
<1>2. TypeOK /\ AccessInv /\ [Next]_vars => AccessInv'
  BY StartApart, ReadApart, RefreshApart, SignApart, OtherApart DEF Next
<1> QED
  BY <1>1, <1>2, Typed, PTL DEF Spec

\* A request and a submitted refresh token meet only after a sign-in or a sign-out
\* cleared an entry, so no rotation revokes the credential of a request under way.
\* Sign-ins may fall anywhere: the entries need no claim and no rename.
THEOREM RequestsKeepTheirs == Spec => RequestsKeepAccess
<1>1. AccessInv => \A p, q \in Clients : At(p, "requesting") /\ At(q, "sending") => {p, q} \cap cleared # {}
  <2> SUFFICES ASSUME AccessInv, NEW p \in Clients, NEW q \in Clients, At(p, "requesting"), At(q, "sending")
               PROVE  {p, q} \cap cleared # {}
    OBVIOUS
  <2>1. Reads(p) /\ Refreshes(q)
    BY DEF AccessInv, Registered, Reads, Refreshes, ReadEntered, RefreshEntered, At
  <2> QED
    BY <2>1 DEF AccessInv, Apart
<1>2. AccessInv =>
        \A p, q \in Clients :
          /\ At(p, "requesting") /\ At(q, "sending")
          /\ client[p].token = client[q].token
          /\ issued'[client[p].token.family] # issued[client[p].token.family]
          => {p, q} \cap cleared # {}
  BY <1>1
<1> QED
  BY <1>2, AccessStays, PTL DEF RequestsKeepAccess

-----------------------------------------------------------------------------
(* No circle of waits.  Whoever has an entry is where its operation makes    *)
(* one: a request gives its entry up before it waits for a refresh.          *)

ReadsFirst == {"listing", "entering", "entered"}

Owner(p) ==
  /\ <<p, "read">> \in entries => client[p].op = "read" /\ client[p].pc \in ReadEntered
  /\ <<p, "refresh">> \in entries => client[p].pc \in RefreshEntered
  /\ client[p].pc \in ReadsFirst => client[p].op = "read"

OwnedInv == \A p \in Clients : Owner(p)

LEMMA OwnedStep ==
  ASSUME OwnedInv, NEW p \in Clients, NEW pc, NEW op, Shift(p, pc, op), EntriesMove(p), Owner(p)'
  PROVE  OwnedInv'
<1> SUFFICES ASSUME NEW q \in Clients \ {p} PROVE Owner(q)'
  BY DEF OwnedInv
<1>1. client'[q] = client[q] /\ Owner(q)
  BY DEF Shift, OwnedInv
<1>2. \A kind \in {"read", "refresh"} : <<q, kind>> \in entries' => <<q, kind>> \in entries
  BY DEF EntriesMove, coordination, ClearsOperations, Withdraws, Enters
<1> QED
  BY <1>1, <1>2 DEF Owner

\* Where a client may go with the entries it has.
WithEntries(p, pc, op) ==
  /\ client[p].op = "read" /\ client[p].pc \in ReadEntered => op = "read" /\ pc \in ReadEntered
  /\ client[p].pc \in RefreshEntered => pc \in RefreshEntered
  /\ pc \in ReadsFirst => op = "read"

LEMMA StaysOwned ==
  ASSUME OwnedInv, NEW p \in Clients, NEW pc, NEW op, Shift(p, pc, op), WithEntries(p, pc, op),
         UNCHANGED coordination \/ ClearsOperations
  PROVE  OwnedInv'
<1>1. \A kind \in {"read", "refresh"} : <<p, kind>> \in entries' => <<p, kind>> \in entries
  BY DEF coordination, ClearsOperations
<1>2. Owner(p)'
  BY <1>1 DEF OwnedInv, Owner, WithEntries, Shift
<1> QED
  BY <1>2, OwnedStep DEF EntriesMove

LEMMA LeavesOwned ==
  ASSUME OwnedInv, NEW p \in Clients, NEW pc, NEW op, Shift(p, pc, op), pc \in ReadsFirst => op = "read", Withdraws(p)
  PROVE  OwnedInv'
<1>1. \A kind \in {"read", "refresh"} : <<p, kind>> \notin entries'
  BY DEF Withdraws, Own
<1>2. Owner(p)'
  BY <1>1 DEF Owner, Shift
<1> QED
  BY <1>2, OwnedStep DEF EntriesMove

LEMMA FailsOwned ==
  ASSUME ClientsOK, OwnedInv, NEW p \in Clients, Rests(p), Leaves(p) \/ Withdraws(p)
  PROVE  OwnedInv'
<1>1. Shift(p, "idle", "none") /\ "idle" \notin ReadsFirst
  BY Shifts, AccessPlaces DEF ReadsFirst
<1> QED
  BY <1>1, LeavesOwned DEF Leaves, Withdraws

\* A client that goes on, by its position alone.
LEMMA GoesOwned ==
  ASSUME ClientsOK, OwnedInv, NEW p \in Clients, NEW pc \in Positions,
         Goes(p, pc) \/ (\E t \in Tokens \cup {None} : Holds(p, pc, t)),
         WithEntries(p, pc, client[p].op), UNCHANGED coordination \/ ClearsOperations
  PROVE  OwnedInv'
BY Shifts, StaysOwned

LEMMA StartOwned ==
  ASSUME TypeOK, OwnedInv, NEW p \in Clients, Starts(p) \/ RefreshBegins(p) \/ GivesUp(p)
  PROVE  OwnedInv'
<1> USE AccessPlaces DEF TypeOK, At
<1>1. CASE Starts(p)
  <2>1. client[p].pc = "idle" /\ UNCHANGED coordination
    BY <1>1 DEF Starts, ReadBegins, StatusBegins, SignInBegins, SignOutClaims, Begins
  <2>2. PICK pc \in Positions, op \in Operations : Shift(p, pc, op) /\ (pc \in ReadsFirst => op = "read")
    BY <1>1, Shifts DEF Starts, ReadBegins, StatusBegins, SignInBegins, SignOutClaims, ReadsFirst, ReadEntered, Operations
  <2>3. WithEntries(p, pc, op)
    BY <2>1, <2>2 DEF WithEntries
  <2> QED
    BY <2>1, <2>2, <2>3, StaysOwned
<1>2. CASE RefreshBegins(p)
  <2>1. PICK op : Shift(p, "intending", op)
    BY <1>2, Shifts DEF RefreshBegins, RefreshEntered, Operations
  <2>2. <<p, "read">> \notin entries /\ Enters(p, "refresh")
    BY <1>2 DEF RefreshBegins, Begins, OwnedInv, Owner
  <2>3. Owner(p)'
    BY <2>1, <2>2 DEF Owner, Shift, Enters, ReadsFirst, RefreshEntered
  <2> QED
    BY <2>1, <2>2, <2>3, OwnedStep DEF EntriesMove
<1>3. CASE GivesUp(p)
  BY <1>3, FailsOwned DEF GivesUp, Fails
<1> QED
  BY <1>1, <1>2, <1>3

LEMMA SessionOwned ==
  ASSUME TypeOK, OwnedInv, NEW p \in Clients, NEW t \in Tokens, HasSession(p, t), client[p].pc \in ReadEntered
  PROVE  OwnedInv'
<1>1. CASE client[p].op = "read"
  <2>1. WithEntries(p, "deciding", client[p].op) /\ "deciding" \in Positions
    BY <1>1, AccessPlaces DEF WithEntries, RefreshEntered, ReadEntered
  <2> QED
    BY <1>1, <2>1, GoesOwned DEF HasSession, TypeOK
<1>2. CASE client[p].op # "read"
  BY <1>2, FailsOwned DEF HasSession, TypeOK
<1> QED
  BY <1>1, <1>2

LEMMA ReadOwned ==
  ASSUME TypeOK, OwnedInv, NEW p \in Clients, ReadStep(p)
  PROVE  OwnedInv'
<1> USE AccessPlaces DEF TypeOK, At
<1>1. CASE ReadLists(p)
  <2>1. client[p].pc = "listing" /\ client[p].op = "read"
    BY <1>1 DEF ReadLists, OwnedInv, Owner, ReadsFirst
  <2>2. WithEntries(p, "entering", client[p].op)
    BY <2>1 DEF WithEntries
  <2> QED
    BY <1>1, <2>2, GoesOwned DEF ReadLists
<1>2. CASE ReadEnters(p)
  <2>1. Shift(p, "entered", client[p].op) /\ client[p].op = "read" /\ <<p, "refresh">> \notin entries
    BY <1>2, Shifts DEF ReadEnters, ReadEntered, OwnedInv, Owner, ReadsFirst
  <2>2. Owner(p)'
    BY <1>2, <2>1 DEF ReadEnters, Enters, Owner, Shift, ReadEntered
  <2> QED
    BY <1>2, <2>1, <2>2, OwnedStep DEF ReadEnters, EntriesMove
<1>3. CASE ReadRechecks(p)
  <2>1. client[p].pc = "entered" /\ client[p].op = "read"
    BY <1>3 DEF ReadRechecks, OwnedInv, Owner, ReadsFirst
  <2>2. CASE ReadYields
    <3>1. Shift(p, "listing", client[p].op) /\ Withdraws(p)
      BY <1>3, <2>2, Shifts DEF ReadRechecks, Leaves, Withdraws
    <3> QED
      BY <2>1, <3>1, LeavesOwned
  <2>3. CASE ~ReadYields
    <3>1. WithEntries(p, "reading", client[p].op)
      BY <2>1 DEF WithEntries, ReadEntered, ReadsFirst, RefreshEntered
    <3> QED
      BY <1>3, <2>3, <3>1, GoesOwned DEF ReadRechecks, ReadEntered
  <2> QED BY <2>2, <2>3
<1>4. CASE StoreRead(p)
  <2>1. client[p].pc = "reading"
    BY <1>4 DEF StoreRead
  <2>2. CASE Goes(p, "opening") /\ UNCHANGED coordination
    <3>1. WithEntries(p, "opening", client[p].op)
      BY <2>1 DEF WithEntries, ReadEntered, RefreshEntered, ReadsFirst
    <3> QED
      BY <2>2, <3>1, GoesOwned DEF ReadEntered
  <2>3. CASE Readable /\ HasSession(p, live)
    BY <2>1, <2>3, SessionOwned DEF Readable, FilesOK, ReadEntered
  <2> QED
    BY <1>4, <2>2, <2>3, FailsOwned DEF StoreRead, Fails
<1>5. CASE StoreOpened(p)
  <2>1. WithEntries(p, "tidying refreshing", client[p].op)
    BY <1>5 DEF StoreOpened, WithEntries, ReadEntered, RefreshEntered, ReadsFirst
  <2>2. (Holds(p, "tidying refreshing", live) /\ UNCHANGED coordination) \/ Fails(p)
    BY <1>5 DEF StoreOpened
  <2> QED
    BY <2>1, <2>2, GoesOwned, FailsOwned DEF Fails, FilesOK, ReadEntered
<1>6. CASE TidyRefreshing(p) \/ TidyClaim(p)
  <2>1. PICK pc \in {"tidying claim", "tidying leaving"} : Goes(p, pc) /\ UNCHANGED coordination
    BY <1>6 DEF TidyRefreshing, TidyClaim
  <2>2. WithEntries(p, pc, client[p].op)
    BY <1>6, <2>1 DEF TidyRefreshing, TidyClaim, WithEntries, ReadEntered, RefreshEntered, ReadsFirst
  <2> QED
    BY <2>1, <2>2, GoesOwned DEF ReadEntered
<1>7. CASE TidyLeaving(p)
  <2>1. client[p].token \in Tokens /\ client[p].pc \in ReadEntered
    BY <1>7 DEF TidyLeaving, ClientsOK, ClientTypes, Holding, ReadEntered
  <2> QED
    BY <1>7, <2>1, SessionOwned DEF TidyLeaving
<1>8. CASE RequestSent(p)
  <2>1. WithEntries(p, "requesting", client[p].op)
    BY <1>8 DEF RequestSent, WithEntries, ReadEntered, RefreshEntered, ReadsFirst
  <2> QED
    BY <1>8, <2>1, GoesOwned DEF RequestSent, ReadEntered
<1>9. CASE ExpiresSoon(p)
  <2>1. Shift(p, "renewing", client[p].op) \/ Rests(p)
    BY <1>9, Shifts DEF ExpiresSoon
  <2>2. "renewing" \notin ReadsFirst /\ Leaves(p)
    BY <1>9 DEF ReadsFirst, ExpiresSoon
  <2> QED
    BY <2>1, <2>2, LeavesOwned, FailsOwned DEF Leaves, Withdraws
<1>10. CASE RequestEnds(p)
  BY <1>10, FailsOwned DEF RequestEnds
<1> QED
  BY <1>1, <1>2, <1>3, <1>4, <1>5, <1>6, <1>7, <1>8, <1>9, <1>10 DEF ReadStep

\* A refresh that goes on, by its position alone.
LEMMA RefreshGoesOwned ==
  ASSUME TypeOK, OwnedInv, NEW p \in Clients, client[p].pc \in RefreshEntered, NEW pc \in RefreshEntered, UNCHANGED coordination,
         \/ Goes(p, pc) \/ (\E t \in Tokens \cup {None} : Holds(p, pc, t))
         \/ client' = [client EXCEPT ![p].pc = pc, ![p].op = "refresh"]
  PROVE  OwnedInv'
<1>1. PICK op : Shift(p, pc, op)
  BY Shifts, AccessPlaces DEF TypeOK, Operations
<1>2. WithEntries(p, pc, op)
  BY AccessPlaces DEF WithEntries, ReadEntered, RefreshEntered, ReadsFirst
<1> QED
  BY <1>1, <1>2, StaysOwned

LEMMA DoneOwned ==
  ASSUME TypeOK, OwnedInv, NEW p \in Clients, RefreshDone(p)
  PROVE  OwnedInv'
<1>1. CASE client[p].op = "read"
  <2>1. Shift(p, "listing", client[p].op)
    BY <1>1, Shifts, AccessPlaces DEF RefreshDone, TypeOK
  <2> QED
    BY <1>1, <2>1, LeavesOwned DEF RefreshDone, Leaves, Withdraws
<1>2. CASE client[p].op # "read"
  BY <1>2, FailsOwned DEF RefreshDone, TypeOK
<1> QED
  BY <1>1, <1>2

LEMMA RefreshOwned ==
  ASSUME TypeOK, OwnedInv, NEW p \in Clients, RefreshStep(p)
  PROVE  OwnedInv'
<1> USE AccessPlaces DEF TypeOK, At
<1>1. CASE RenewalRefused(p) \/ RemovesOwn(p)
  BY <1>1, FailsOwned DEF RenewalRefused, RemovesOwn, Fails
<1>2. CASE Intends(p)
  <2>1. CASE <<p, "refresh">> \notin entries
    <3>1. Shift(p, "intending", client[p].op) /\ <<p, "read">> \notin entries /\ Enters(p, "refresh")
      BY <1>2, <2>1, Shifts DEF Intends, RefreshEntered, ReadEntered, OwnedInv, Owner
    <3>2. Owner(p)'
      BY <3>1 DEF Owner, Shift, Enters, ReadsFirst, RefreshEntered
    <3> QED
      BY <3>1, <3>2, OwnedStep DEF EntriesMove
  <2>2. CASE <<p, "refresh">> \in entries
    <3>1. {"intending", "claiming"} \subseteq RefreshEntered
      BY DEF RefreshEntered
    <3> QED
      BY <1>2, <2>2, <3>1, RefreshGoesOwned DEF Intends
  <2> QED BY <2>1, <2>2
<1>3. CASE Claims(p)
  <2>1. {"claiming", "moving", "busy"} \subseteq RefreshEntered
    BY DEF RefreshEntered
  <2> QED
    BY <1>3, <2>1, RefreshGoesOwned DEF Claims
<1>4. CASE FindsBusy(p)
  <2>1. {"busy", "intending"} \subseteq RefreshEntered
    BY DEF RefreshEntered
  <2> QED
    BY <1>4, <2>1, RefreshGoesOwned, FailsOwned DEF FindsBusy, Fails
<1>5. CASE Moves(p)
  <2>1. {"moving", "opening aside", "unclaiming"} \subseteq RefreshEntered
    BY DEF RefreshEntered
  <2> QED
    BY <1>5, <2>1, RefreshGoesOwned DEF Moves, FilesOK
<1>6. CASE OpensAside(p)
  <2>1. {"opening aside", "sending"} \subseteq RefreshEntered
    BY DEF RefreshEntered
  <2> QED
    BY <1>6, <2>1, RefreshGoesOwned, FailsOwned DEF OpensAside, Fails, FilesOK
<1>7. CASE Answered(p) \/ Unanswered(p) \/ Unsent(p)
  <2>1. {"sending", "completing", "dropping", "restoring"} \subseteq RefreshEntered
    BY DEF RefreshEntered
  <2> QED
    BY <1>7, <2>1, RefreshGoesOwned DEF Answered, Unanswered, Unsent
<1>8. CASE Completes(p) \/ Restores(p)
  <2>1. {"completing", "linking", "restoring", "relinking"} \subseteq RefreshEntered
    BY DEF RefreshEntered
  <2> QED
    BY <1>8, <2>1, RefreshGoesOwned, FailsOwned DEF Completes, Restores, Continues
<1>9. CASE Links(p) \/ Relinks(p) \/ Drops(p)
  <2>1. {"linking", "relinking", "dropping", "checking claim"} \subseteq RefreshEntered
    BY DEF RefreshEntered
  <2> QED
    BY <1>9, <2>1, RefreshGoesOwned, FailsOwned DEF Links, Relinks, Drops, Fails
<1>10. CASE ChecksClaim(p) \/ RemovesAside(p) \/ RemovesClaim(p)
  <2>1. {"checking claim", "removing aside", "removing claim"} \subseteq RefreshEntered
    BY DEF RefreshEntered
  <2> QED
    BY <1>10, <2>1, RefreshGoesOwned, DoneOwned DEF ChecksClaim, RemovesAside, RemovesClaim
<1>11. CASE Unclaims(p)
  <2>1. {"unclaiming", "removing own"} \subseteq RefreshEntered
    BY DEF RefreshEntered
  <2> QED
    BY <1>11, <2>1, RefreshGoesOwned, FailsOwned DEF Unclaims, Fails
<1> QED
  BY <1>1, <1>2, <1>3, <1>4, <1>5, <1>6, <1>7, <1>8, <1>9, <1>10, <1>11 DEF RefreshStep

LEMMA SignOwned ==
  ASSUME TypeOK, OwnedInv, NEW p \in Clients, SignStep(p)
  PROVE  OwnedInv'
<1> USE AccessPlaces DEF TypeOK, At
<1> DEFINE signing == {"in browser", "installing", "leaving", "revoking", "finishing", "clearing"}
           ends == {"tidying refreshing", "idle"}
<1>1. client[p].pc \in signing
  BY DEF SignStep, SignInClears, SignInInstalls, SignOutMoves, SignOutRevokes, SignOutForgets, SignOutClears
<1>2. UNCHANGED coordination \/ ClearsOperations
  BY DEF SignStep, SignInClears, SignInInstalls, SignOutMoves, SignOutRevokes, SignOutForgets, SignOutClears
<1>3. PICK pc \in signing \cup ends : \E op : Shift(p, pc, op)
  <2>1. CASE SignInClears(p)
    BY <2>1, Shifts DEF SignInClears
  <2>2. CASE SignInInstalls(p)
    <3>1. \E t \in Tokens : Holds(p, "tidying refreshing", t)
      BY <2>2, Ranges DEF SignInInstalls, NewFamily, Tokens
    <3> QED
      BY <3>1, Shifts DEF ReadEntered
  <2>3. CASE SignOutMoves(p)
    BY <2>3, Shifts DEF SignOutMoves, FilesOK
  <2>4. CASE SignOutRevokes(p) \/ SignOutForgets(p)
    BY <2>4, Shifts DEF SignOutRevokes, SignOutForgets
  <2>5. CASE SignOutClears(p)
    BY <2>5, Shifts DEF SignOutClears
  <2> QED
    BY <2>1, <2>2, <2>3, <2>4, <2>5 DEF SignStep
<1>4. PICK op : Shift(p, pc, op)
  BY <1>3
<1>5. WithEntries(p, pc, op)
  BY <1>1, <1>4 DEF WithEntries, ReadsFirst, ReadEntered, RefreshEntered
<1> QED
  BY <1>2, <1>4, <1>5, StaysOwned

LEMMA OtherOwned ==
  ASSUME TypeOK, OwnedInv, (\E p \in Clients : Crash(p)) \/ (\E kind \in {"read", "refresh"} : EntryAges(kind)) \/ UNCHANGED vars
  PROVE  OwnedInv'
<1>1. ASSUME NEW p \in Clients, Crash(p) PROVE OwnedInv'
  BY <1>1, FailsOwned DEF Crash, Withdraws, TypeOK
<1>2. CASE UNCHANGED <<client, entries>>
  BY <1>2 DEF OwnedInv, Owner
<1> QED
  BY <1>1, <1>2 DEF EntryAges, vars, coordination

\* Every entry of a client in the directory stands for a step of an operation
\* that makes one: no way out of a read or a refresh forgets it.
THEOREM EntriesHaveOwners == Spec => []OwnedInv
<1>1. Init => OwnedInv
  <2> SUFFICES ASSUME Init PROVE OwnedInv
    OBVIOUS
  <2>1. \A p \in Clients : client[p].pc = "idle"
    BY DEF Init, Resting
  <2> QED
    BY <2>1 DEF Init, OwnedInv, Owner, ReadsFirst
<1>2. TypeOK /\ OwnedInv /\ [Next]_vars => OwnedInv'
  BY StartOwned, ReadOwned, RefreshOwned, SignOwned, OtherOwned DEF Next
<1> QED
  BY <1>1, <1>2, Typed, PTL DEF Spec

\* The clients whose entries keep p waiting: a request waits for refreshes, a
\* refresh that has its entry for requests.
InTheWay(p) ==
  {q \in Clients : \/ At(p, "listing") /\ <<q, "refresh">> \in entries
                   \/ At(p, "intending") /\ <<p, "refresh">> \in entries /\ <<q, "read">> \in entries}

WaitsAreShort ==
  \A p \in Clients : \A q \in InTheWay(p) :
    ~At(q, "idle") /\ \A r \in InTheWay(q) : ~At(r, "idle") /\ InTheWay(r) = {}

\* Waits for entries never form a circle: a request may wait for a refresh and
\* that for another request, which waits for nobody, and nobody waits for the
\* entry of a client that is done. WaitsEnd rests on it.
THEOREM NobodyWaitsInACircle == Spec => []WaitsAreShort
<1>1. OwnedInv => WaitsAreShort
  <2> SUFFICES ASSUME OwnedInv, NEW p \in Clients, NEW q \in InTheWay(p)
               PROVE  ~At(q, "idle") /\ \A r \in InTheWay(q) : ~At(r, "idle") /\ InTheWay(r) = {}
    BY DEF WaitsAreShort
  <2>1. ASSUME NEW r \in Clients, NEW s \in InTheWay(r)
        PROVE  /\ client[s].pc \in ReadEntered \cup RefreshEntered
               /\ At(r, "intending") => InTheWay(s) = {}
    BY DEF InTheWay, OwnedInv, Owner, At, ReadEntered, RefreshEntered
  <2>2. ASSUME NEW r \in Clients, client[r].pc \in ReadEntered \cup RefreshEntered
        PROVE  ~At(r, "idle") /\ ~At(r, "listing") /\ (InTheWay(r) # {} => At(r, "intending"))
    BY <2>2 DEF InTheWay, At, ReadEntered, RefreshEntered
  <2>3. \A r \in Clients : InTheWay(r) \subseteq Clients
    BY DEF InTheWay
  <2> QED
    BY <2>1, <2>2, <2>3
<1> QED
  BY <1>1, EntriesHaveOwners, PTL
=============================================================================
