--------------------------- MODULE OnboardingProofs ---------------------------
(***************************************************************************)
(* Theorems about Onboarding for any emails, any number of applications,   *)
(* overlapping requests and crashes.                                       *)
(*                                                                         *)
(* Each request knows something of the row it works on, and no two work on *)
(* the same one where they must not (Apart): so a step changes no row that *)
(* another request relies on.  What they do to one application is then a   *)
(* course of PilotCase.                                                    *)
(***************************************************************************)
EXTENDS Onboarding, TLAPS

\* The row of a pilot request that a transaction of r has locked.
Holds(r, a) ==
  \/ request[r].pc = "insert" /\ request[r].old = a
  \/ request[r].pc \in {"locked", "commit"} /\ request[r].app = a

Carrying == {"audit", "notify", "record", "respond"}
Creating == {"replace", "insert"}
Entering == {"taken", "register", "registered"}

DecisionShown(a) == delivery[a][1] = "DECIDED" \/ a \in raced

Told(a) ==
  /\ a \in audited
  /\ grant[a] \notin {"none", "existing"} => a \in reached

\* What is true of the row a request works on: its own new one is unused, the one it
\* replaces or decides on is pending, the one it has decided on is on its way to be
\* audited and recorded.
CreatingKnows(r) ==
  /\ request[r].pc \in Creating => application[request[r].app] = Unused
  /\ request[r].pc = "insert" /\ request[r].old # None =>
       application[request[r].old].state = "PENDING"
  /\ request[r].pc \in {"receipt", "receipted"}
     /\ application[request[r].app].state \in Decided => request[r].app \in raced

DecidingKnows(r) ==
  /\ request[r].pc = "commit" /\ request[r].decision = "DECLINED" => request[r].give = "none"
  /\ request[r].pc \in Carrying =>
       /\ application[request[r].app].state \in Decided
       /\ request[r].give # "open" => grant[request[r].app] \in {"none", "existing"}
       /\ request[r].pc # "audit" => request[r].app \in audited
       /\ request[r].pc = "respond" => DecisionShown(request[r].app)

EnteringKnows(r) ==
  /\ request[r].pc \in Entering /\ request[r].app # None =>
       grant[request[r].app] \notin {"none", "existing"}
  /\ request[r].pc = "registered" => identities[request[r].email] = 0

\* No two requests create the same row, hold the same one, or insert the same identity.
Apart(r, q) ==
  /\ request[r].pc \in Creating => request[q].app # request[r].app
  /\ \A a \in Applications : ~(Holds(r, a) /\ Holds(q, a))
  /\ {request[r].pc, request[q].pc} = {"registered"} => request[r].email # request[q].email

\* What an application has come to.
Consistent(a) ==
  /\ application[a].state # "none" => application[a].email # None
  /\ application[a].state # "APPROVED" => grant[a] = "none"
  /\ grant[a] = "spent" <=> owner[a] # None

\* What a decision owes, while some request still carries it out or once it is done.
Owed(a) ==
  crashes = 0 /\ application[a].state \in Decided =>
    Deciding(a) \/ (Told(a) /\ DecisionShown(a))

IInv ==
  /\ TypeOK
  /\ \A r \in Requests : CreatingKnows(r) /\ DecidingKnows(r) /\ EnteringKnows(r)
  /\ \A r, q \in Requests : r # q => Apart(r, q)
  /\ \A a \in Applications : Consistent(a) /\ Owed(a)
  /\ OneAccountPerEmail

----------------------------------------------------------------------------
(* The local state of a request.                                           *)

\* RequestsKnow, of one request.
Knows(r) ==
  /\ request[r].pc = "idle" => request[r] = IdleRequest
  /\ request[r].pc # "idle" => request[r].email # None
  /\ request[r].pc \notin {"idle", "register", "registered"} => request[r].app # None
  /\ request[r].pc \in {"locked", "commit"} =>
       /\ request[r].decision # None
       /\ application[request[r].app].state = "PENDING"

Informed(r) == Knows(r) /\ CreatingKnows(r) /\ DecidingKnows(r) /\ EnteringKnows(r)

Typed ==
  /\ application \in [Applications -> Application]
  /\ grant \in [Applications -> Grant]
  /\ owner \in [Applications -> Emails \cup {None}]
  /\ identities \in [Emails -> Nat]
  /\ delivery \in [Applications -> Delivery]
  /\ audited \subseteq Applications /\ reached \subseteq Applications /\ raced \subseteq Applications
  /\ request \in [Requests -> RequestState]
  /\ crashes \in Nat

LEMMA Parts ==
  IInv <=> /\ Typed
           /\ \A r \in Requests : Informed(r)
           /\ \A r, q \in Requests : r # q => Apart(r, q)
           /\ \A a \in Applications : Consistent(a) /\ Owed(a)
           /\ OneAccountPerEmail
BY DEF IInv, Typed, TypeOK, RequestsKnow, Informed, Knows

LEMMA IdleType ==
  /\ IdleRequest \in RequestState /\ IdleRequest.pc = "idle" /\ IdleRequest.app = None
  /\ IdleRequest.old = None /\ IdleRequest.email = None
BY DEF IdleRequest, RequestState

\* A step of one request leaves the others' local states alone.
Alone(r) ==
  /\ request' \in [Requests -> RequestState]
  /\ \A q \in Requests \ {r} : request'[q] = request[q]

\* It goes on with the same row.
Moves(r, pc) ==
  /\ Alone(r)
  /\ request'[r].pc = pc
  /\ request'[r].app = request[r].app /\ request'[r].email = request[r].email
  /\ request'[r].decision = request[r].decision

Ends(r) == Alone(r) /\ request'[r] = IdleRequest

PcSet == {"idle", "replace", "insert", "receipt", "receipted",
          "locked", "commit", "audit", "notify", "record", "respond",
          "taken", "register", "registered"}

LEMMA GotoMoves ==
  ASSUME Typed, NEW r \in Requests, NEW pc \in PcSet, Goto(r, pc)
  PROVE  /\ Moves(r, pc) /\ request'[r].give = request[r].give
         /\ request'[r].old = request[r].old
<1>1. request[r] \in RequestState
  BY DEF Typed
<1>2. request' = [request EXCEPT ![r] = [request[r] EXCEPT !.pc = pc]]
  BY DEF Goto, Typed
<1>3. [request[r] EXCEPT !.pc = pc] \in RequestState
  BY <1>1 DEF RequestState, PcSet
<1> QED
  BY <1>1, <1>2, <1>3 DEF Moves, Alone, Typed, RequestState

LEMMA FinishedEnds ==
  ASSUME Typed, NEW r \in Requests, Finished(r) PROVE Ends(r)
BY IdleType DEF Finished, Ends, Alone, Typed

LEMMA PutAlone ==
  ASSUME Typed, NEW r \in Requests, NEW x \in RequestState, request' = [request EXCEPT ![r] = x]
  PROVE  Alone(r) /\ request'[r] = x
BY DEF Alone, Typed

\* What is left to show of a step of r.
LEMMA Assemble ==
  ASSUME IInv, NEW r \in Requests, Alone(r), Typed',
         Informed(r)', \A q \in Requests \ {r} : Informed(q)',
         \A q \in Requests \ {r} : Apart(r, q)' /\ Apart(q, r)',
         \A a \in Applications : Consistent(a)' /\ Owed(a)',
         OneAccountPerEmail'
  PROVE  IInv'
<1>1. \A q \in Requests : Informed(q)'
  OBVIOUS
<1>2. ASSUME NEW q \in Requests, NEW s \in Requests, q # s PROVE Apart(q, s)'
  <2>1. CASE q # r /\ s # r
    <3>1. request'[q] = request[q] /\ request'[s] = request[s] /\ Apart(q, s)
      BY <1>2, <2>1 DEF Alone, IInv
    <3> QED
      BY <3>1 DEF Apart, Holds
  <2>2. CASE q = r \/ s = r
    BY <1>2, <2>2
  <2> QED
    BY <2>1, <2>2
<1> QED
  BY <1>1, <1>2 DEF IInv, Typed, TypeOK, RequestsKnow, Informed, Knows

LEMMA ApartSymmetric ==
  ASSUME NEW r \in Requests, NEW q \in Requests, Apart(r, q), request[q].pc \notin Creating
  PROVE  Apart(q, r)
BY DEF Apart

LEMMA EndsApart ==
  ASSUME IInv, NEW r \in Requests, Ends(r)
  PROVE  \A q \in Requests \ {r} : Apart(r, q)' /\ Apart(q, r)'
<1> SUFFICES ASSUME NEW q \in Requests \ {r} PROVE Apart(r, q)' /\ Apart(q, r)'
  OBVIOUS
<1>1. request'[q] = request[q] /\ request'[r].pc = "idle" /\ request'[r].app = None
      /\ request'[r].old = None
  BY IdleType DEF Ends, Alone
<1>2. Apart(q, r) /\ Informed(q)
  BY Parts
<1>3. request[q].pc \in Creating => request[q].app # None
  BY <1>2 DEF Informed, Knows, Creating
<1> QED
  BY <1>1, <1>2, <1>3 DEF Apart, Holds, Creating

\* A request that goes on keeps apart if it takes nothing new.
LEMMA MovesApart ==
  ASSUME IInv, NEW r \in Requests, NEW pc, Moves(r, pc),
         pc \in Creating => request[r].pc \in Creating,
         pc = "insert" => request[r].pc = "insert" /\ request'[r].old = request[r].old,
         pc \in {"locked", "commit"} => request[r].pc \in {"locked", "commit"},
         pc = "registered" => request[r].pc = "registered"
  PROVE  \A q \in Requests \ {r} : Apart(r, q)' /\ Apart(q, r)'
<1> SUFFICES ASSUME NEW q \in Requests \ {r} PROVE Apart(r, q)' /\ Apart(q, r)'
  OBVIOUS
<1>1. /\ request'[q] = request[q] /\ request'[r].pc = pc
      /\ request'[r].app = request[r].app /\ request'[r].email = request[r].email
  BY DEF Moves, Alone
<1>2. Apart(q, r) /\ Apart(r, q)
  BY Parts
<1>3. \A a \in Applications : Holds(r, a)' => Holds(r, a)
  BY <1>1 DEF Holds
<1>4. \A a \in Applications : Holds(q, a)' <=> Holds(q, a)
  BY <1>1 DEF Holds
<1> QED
  BY <1>1, <1>2, <1>3, <1>4 DEF Apart, Creating

\* A decision that is being carried out stays so unless the step ends it.
LEMMA DecidingKept ==
  ASSUME NEW r \in Requests, Alone(r), NEW a \in Applications,
         request[r].pc \in Carrying =>
           request'[r].pc \in Carrying /\ request'[r].app = request[r].app,
         Deciding(a)
  PROVE  Deciding(a)'
BY DEF Alone, Deciding, Carrying

\* Where no row changes: the other requests know what they knew, and what is consistent
\* stays so.
LEMMA QuietRest ==
  ASSUME IInv, NEW r \in Requests, Alone(r), UNCHANGED <<application, setups, notices, crashes>>,
         request[r].pc \notin Carrying
  PROVE  /\ Typed' /\ OneAccountPerEmail'
         /\ \A q \in Requests \ {r} : Informed(q)'
         /\ \A a \in Applications : Consistent(a)' /\ Owed(a)'
<1>1. /\ UNCHANGED <<application, grant, owner, identities>>
      /\ UNCHANGED <<delivery, audited, reached, raced, crashes>>
  BY DEF setups, notices
<1>2. Typed' /\ OneAccountPerEmail'
  BY <1>1, Parts DEF Typed, OneAccountPerEmail, Alone
<1>3. ASSUME NEW q \in Requests \ {r} PROVE Informed(q)'
  <2>1. Informed(q) /\ request'[q] = request[q]
    BY Parts DEF Alone
  <2> QED
    BY <1>1, <2>1 DEF Informed, Knows, CreatingKnows, DecidingKnows, EnteringKnows, DecisionShown
<1>4. ASSUME NEW a \in Applications PROVE Consistent(a)' /\ Owed(a)'
  <2>1. Consistent(a) /\ Owed(a)
    BY Parts
  <2>2. Deciding(a) => Deciding(a)'
    BY DecidingKept
  <2> QED
    BY <1>1, <2>1, <2>2 DEF Consistent, Owed, Told, DecisionShown
<1> QED
  BY <1>2, <1>3, <1>4

LEMMA EndsInformed ==
  ASSUME NEW r \in Requests, Ends(r) PROVE Informed(r)'
<1>1. request'[r] = IdleRequest /\ request'[r].pc = "idle"
  BY IdleType DEF Ends
<1> QED
  BY <1>1 DEF Informed, Knows, CreatingKnows, DecidingKnows, EnteringKnows,
     Creating, Carrying, Entering

\* A quiet step needs no more than what its own request knows, and that it keeps apart.
LEMMA Quiet ==
  ASSUME IInv, NEW r \in Requests, Alone(r), UNCHANGED <<application, setups, notices, crashes>>,
         request[r].pc \notin Carrying, Informed(r)',
         \A q \in Requests \ {r} : Apart(r, q)' /\ Apart(q, r)'
  PROVE  IInv'
BY QuietRest, Assemble

LEMMA QuietEnds ==
  ASSUME IInv, NEW r \in Requests, Ends(r), UNCHANGED <<application, setups, notices, crashes>>,
         request[r].pc \notin Carrying
  PROVE  IInv'
BY Quiet, EndsApart, EndsInformed DEF Ends

----------------------------------------------------------------------------
(* Requests that change no row.                                            *)

LEMMA CreateStartStep ==
  ASSUME IInv, NEW r \in Requests, CreateStart(r) PROVE IInv'
<1>1. PICK e \in Emails, a \in Applications, old \in Applications \cup {None} :
        /\ application[a] = Unused
        /\ \A q \in Requests : request[q].app # a
        /\ request' = [request EXCEPT ![r] = [IdleRequest EXCEPT
             !.pc = "replace", !.app = a, !.email = e, !.old = old]]
  BY DEF CreateStart, Pending
<1> DEFINE x == [IdleRequest EXCEPT !.pc = "replace", !.app = a, !.email = e, !.old = old]
<1>2. x \in RequestState /\ x.pc = "replace" /\ x.app = a /\ x.email = e
  BY DEF IdleRequest, RequestState
<1> HIDE DEF x
<1>3. Alone(r) /\ request'[r] = x
  BY <1>1, <1>2, PutAlone, Parts DEF x
<1>4. UNCHANGED <<application, setups, notices, crashes>> /\ request[r].pc = "idle"
  BY DEF CreateStart
<1>5. a # None /\ e # None
  BY NoneIsNothing
<1>6. Informed(r)'
  BY <1>1, <1>2, <1>3, <1>4, <1>5 DEF Informed, Knows, CreatingKnows, DecidingKnows,
     EnteringKnows, Creating, Carrying, Entering
<1>7. ASSUME NEW q \in Requests \ {r} PROVE Apart(r, q)' /\ Apart(q, r)'
  <2>1. request'[q] = request[q] /\ request[q].app # a
    BY <1>1, <1>3 DEF Alone
  <2> QED
    BY <1>2, <1>3, <2>1 DEF Apart, Holds, Creating
<1> QED
  BY <1>3, <1>4, <1>6, <1>7, Quiet DEF Carrying

LEMMA CreateReplaceStep ==
  ASSUME IInv, NEW r \in Requests, CreateReplace(r) PROVE IInv'
<1>1. request[r] \in RequestState /\ request[r].pc = "replace" /\ Informed(r)
  BY Parts DEF Typed, CreateReplace
<1>2. PICK old \in Applications \cup {None} :
        /\ request' = [request EXCEPT ![r] = [request[r] EXCEPT !.pc = "insert", !.old = old]]
        /\ old # None => application[old].state = "PENDING" /\ ~RequestRowLocked(old)
  <2>1. request[r].old \in Applications \cup {None}
    BY <1>1 DEF RequestState
  <2> QED
    BY <2>1, Parts DEF CreateReplace, Typed
<1> DEFINE x == [request[r] EXCEPT !.pc = "insert", !.old = old]
<1>3. /\ x \in RequestState /\ x.pc = "insert" /\ x.old = old
      /\ x.app = request[r].app /\ x.email = request[r].email
  BY <1>1 DEF RequestState
<1> HIDE DEF x
<1>4. Alone(r) /\ request'[r] = x
  BY <1>2, <1>3, PutAlone, Parts DEF x
<1>5. UNCHANGED <<application, setups, notices, crashes>>
  BY DEF CreateReplace
<1>6. Informed(r)'
  BY <1>1, <1>2, <1>3, <1>4, <1>5 DEF Informed, Knows, CreatingKnows, DecidingKnows,
     EnteringKnows, Creating, Carrying, Entering
<1>7. ASSUME NEW q \in Requests \ {r} PROVE Apart(r, q)' /\ Apart(q, r)'
  <2>1. request'[q] = request[q] /\ Apart(r, q) /\ Apart(q, r)
    BY <1>4, Parts DEF Alone
  <2>2. \A a \in Applications : Holds(r, a)' => ~Holds(q, a)
    BY <1>2, <1>3, <1>4, NoneIsNothing DEF Holds, RequestRowLocked
  <2>3. \A a \in Applications : Holds(q, a)' => Holds(q, a)
    BY <2>1 DEF Holds
  <2> QED
    BY <1>1, <1>3, <1>4, <2>1, <2>2, <2>3 DEF Apart, Creating
<1> QED
  BY <1>1, <1>4, <1>5, <1>6, <1>7, Quiet DEF Carrying

LEMMA ReceiptMailedStep ==
  ASSUME IInv, NEW r \in Requests, ReceiptMailed(r) PROVE IInv'
<1>1. request[r] \in RequestState /\ request[r].pc = "receipt" /\ Informed(r)
  BY Parts DEF Typed, ReceiptMailed
<1>2. PICK sent \in BOOLEAN :
        request' = [request EXCEPT ![r] = [request[r] EXCEPT !.pc = "receipted", !.sent = sent]]
  BY Parts DEF ReceiptMailed, Typed
<1> DEFINE x == [request[r] EXCEPT !.pc = "receipted", !.sent = sent]
<1>3. /\ x \in RequestState /\ x.pc = "receipted" /\ x.decision = request[r].decision
      /\ x.app = request[r].app /\ x.email = request[r].email
  BY <1>1 DEF RequestState
<1> HIDE DEF x
<1>4. Moves(r, "receipted")
  BY <1>2, <1>3, PutAlone, Parts DEF x, Moves
<1>5. UNCHANGED <<application, setups, notices, crashes>>
  BY DEF ReceiptMailed
<1>6. Informed(r)'
  BY <1>1, <1>4, <1>5 DEF Informed, Knows, CreatingKnows, DecidingKnows,
     EnteringKnows, Creating, Carrying, Entering, Moves, notices
<1>7. \A q \in Requests \ {r} : Apart(r, q)' /\ Apart(q, r)'
  BY <1>4, MovesApart DEF Creating
<1> QED
  BY <1>1, <1>4, <1>5, <1>6, <1>7, Quiet DEF Carrying, Moves

LEMMA DecideLockStep ==
  ASSUME IInv, NEW r \in Requests, DecideLock(r) PROVE IInv'
<1>1. PICK a \in Applications, decision \in Decided :
        /\ application[a].state = "PENDING" /\ ~RequestRowLocked(a)
        /\ request' = [request EXCEPT ![r] = [IdleRequest EXCEPT !.pc = "locked",
             !.app = a, !.email = application[a].email, !.decision = decision]]
  BY DEF DecideLock
<1> DEFINE x == [IdleRequest EXCEPT !.pc = "locked",
                  !.app = a, !.email = application[a].email, !.decision = decision]
<1>2. application[a].email \in Emails \cup {None} /\ application[a].email # None
  BY <1>1, Parts DEF Typed, Application, Consistent
<1>3. x \in RequestState /\ x.pc = "locked" /\ x.app = a /\ x.email # None /\ x.decision = decision
  BY <1>2 DEF IdleRequest, RequestState
<1> HIDE DEF x
<1>4. Alone(r) /\ request'[r] = x
  BY <1>1, <1>3, PutAlone, Parts DEF x
<1>5. UNCHANGED <<application, setups, notices, crashes>> /\ request[r].pc = "idle"
  BY DEF DecideLock
<1>6. decision # None /\ a # None
  BY NoneIsNothing DEF Decided
<1>7. Informed(r)'
  BY <1>1, <1>3, <1>4, <1>5, <1>6 DEF Informed, Knows, CreatingKnows, DecidingKnows,
     EnteringKnows, Creating, Carrying, Entering
<1>8. ASSUME NEW q \in Requests \ {r} PROVE Apart(r, q)' /\ Apart(q, r)'
  <2>1. request'[q] = request[q] /\ Informed(q)
    BY <1>4, Parts DEF Alone
  <2>2. \A b \in Applications : Holds(r, b)' => ~Holds(q, b)
    BY <1>1, <1>3, <1>4 DEF Holds, RequestRowLocked
  <2>3. \A b \in Applications : Holds(q, b)' => Holds(q, b)
    BY <2>1 DEF Holds
  <2>4. request[q].pc \in Creating => request[q].app # a
    BY <1>1, <2>1 DEF Informed, CreatingKnows, Unused
  <2> QED
    BY <1>3, <1>4, <2>1, <2>2, <2>3, <2>4 DEF Apart, Creating
<1> QED
  BY <1>4, <1>5, <1>7, <1>8, Quiet DEF Carrying

LEMMA DecideReadStep ==
  ASSUME IInv, NEW r \in Requests, DecideRead(r) PROVE IInv'
<1>1. request[r] \in RequestState /\ request[r].pc = "locked" /\ Informed(r)
  BY Parts DEF Typed, DecideRead
<1>2. PICK give \in {"none", "existing", "open"} :
        /\ request' = [request EXCEPT ![r] = [request[r] EXCEPT !.pc = "commit", !.give = give]]
        /\ request[r].decision = "DECLINED" => give = "none"
  BY Parts DEF DecideRead, Typed
<1> DEFINE x == [request[r] EXCEPT !.pc = "commit", !.give = give]
<1>3. /\ x \in RequestState /\ x.pc = "commit" /\ x.decision = request[r].decision
      /\ x.app = request[r].app /\ x.email = request[r].email /\ x.give = give
  BY <1>1 DEF RequestState
<1> HIDE DEF x
<1>4. Moves(r, "commit") /\ request'[r].give = give
  BY <1>2, <1>3, PutAlone, Parts DEF x, Moves
<1>5. UNCHANGED <<application, setups, notices, crashes>>
  BY DEF DecideRead
<1>6. Informed(r)'
  BY <1>1, <1>2, <1>4, <1>5 DEF Informed, Knows, CreatingKnows, DecidingKnows,
     EnteringKnows, Creating, Carrying, Entering, Moves
<1>7. \A q \in Requests \ {r} : Apart(r, q)' /\ Apart(q, r)'
  BY <1>1, <1>4, MovesApart DEF Creating
<1> QED
  BY <1>1, <1>4, <1>5, <1>6, <1>7, Quiet DEF Carrying, Moves

LEMMA SetupLockStep ==
  ASSUME IInv, NEW r \in Requests, SetupLock(r) PROVE IInv'
<1>1. PICK a \in reached :
        /\ grant[a] = "open"
        /\ request' = [request EXCEPT ![r] = [IdleRequest EXCEPT !.pc = "taken",
             !.app = a, !.email = application[a].email]]
  BY DEF SetupLock
<1> DEFINE x == [IdleRequest EXCEPT !.pc = "taken", !.app = a, !.email = application[a].email]
<1>2. /\ a \in Applications /\ application[a].state = "APPROVED"
      /\ application[a].email \in Emails \cup {None} /\ application[a].email # None
  BY <1>1, Parts DEF Typed, Application, Consistent
<1>3. x \in RequestState /\ x.pc = "taken" /\ x.app = a /\ x.email # None
  BY <1>2 DEF IdleRequest, RequestState
<1> HIDE DEF x
<1>4. Alone(r) /\ request'[r] = x
  BY <1>1, <1>3, PutAlone, Parts DEF x
<1>5. UNCHANGED <<application, setups, notices, crashes>> /\ request[r].pc = "idle"
  BY DEF SetupLock
<1>6. a # None
  BY <1>2, NoneIsNothing
<1>7. Informed(r)'
  BY <1>1, <1>3, <1>4, <1>5, <1>6 DEF Informed, Knows, CreatingKnows, DecidingKnows,
     EnteringKnows, Creating, Carrying, Entering, setups
<1>8. ASSUME NEW q \in Requests \ {r} PROVE Apart(r, q)' /\ Apart(q, r)'
  <2>1. request'[q] = request[q] /\ Informed(q)
    BY <1>4, Parts DEF Alone
  <2>2. request[q].pc \in Creating => request[q].app # a
    BY <1>2, <2>1 DEF Informed, CreatingKnows, Unused
  <2> QED
    BY <1>3, <1>4, <2>1, <2>2 DEF Apart, Creating, Holds
<1> QED
  BY <1>4, <1>5, <1>7, <1>8, Quiet DEF Carrying

LEMMA SetupCheckStep ==
  ASSUME IInv, NEW r \in Requests, SetupCheck(r) PROVE IInv'
<1>1. request[r].pc = "taken" /\ Informed(r) /\ Typed
  BY Parts DEF SetupCheck
<1>2. UNCHANGED <<application, setups, notices, crashes>>
  BY DEF SetupCheck
<1>3. CASE Registered(request[r].email)
  <2>1. Finished(r)
    BY <1>3, <1>1 DEF SetupCheck, Finished, Typed
  <2> QED
    BY <1>1, <1>2, <2>1, FinishedEnds, QuietEnds DEF Carrying
<1>4. CASE ~Registered(request[r].email)
  <2>1. Goto(r, "register")
    BY <1>4, <1>1 DEF SetupCheck, Goto, Typed
  <2>2. Moves(r, "register")
    BY <1>1, <2>1, GotoMoves DEF PcSet
  <2>3. Informed(r)'
    BY <1>1, <1>2, <2>2 DEF Informed, Knows, CreatingKnows, DecidingKnows,
       EnteringKnows, Creating, Carrying, Entering, Moves, setups
  <2>4. \A q \in Requests \ {r} : Apart(r, q)' /\ Apart(q, r)'
    BY <2>2, MovesApart DEF Creating
  <2> QED
    BY <1>1, <1>2, <2>2, <2>3, <2>4, Quiet DEF Carrying, Moves
<1> QED
  BY <1>3, <1>4

LEMMA SignUpCheckStep ==
  ASSUME IInv, NEW r \in Requests, SignUpCheck(r) PROVE IInv'
<1>1. PICK e \in Emails :
        request' = [request EXCEPT ![r] = [IdleRequest EXCEPT !.pc = "register", !.email = e]]
  BY DEF SignUpCheck
<1> DEFINE x == [IdleRequest EXCEPT !.pc = "register", !.email = e]
<1>2. e # None
  BY NoneIsNothing
<1>3. x \in RequestState /\ x.pc = "register" /\ x.app = None /\ x.email # None
  BY <1>2 DEF IdleRequest, RequestState
<1> HIDE DEF x
<1>4. Alone(r) /\ request'[r] = x
  BY <1>1, <1>3, PutAlone, Parts DEF x
<1>5. UNCHANGED <<application, setups, notices, crashes>> /\ request[r].pc = "idle"
  BY DEF SignUpCheck
<1>6. Informed(r)'
  BY <1>3, <1>4, <1>5 DEF Informed, Knows, CreatingKnows, DecidingKnows,
     EnteringKnows, Creating, Carrying, Entering
<1>7. ASSUME NEW q \in Requests \ {r} PROVE Apart(r, q)' /\ Apart(q, r)'
  <2>1. request'[q] = request[q] /\ Informed(q)
    BY <1>4, Parts DEF Alone
  <2>2. request[q].pc \in Creating => request[q].app # None
    BY <2>1 DEF Informed, Knows, Creating
  <2> QED
    BY <1>3, <1>4, <2>1, <2>2 DEF Apart, Creating, Holds
<1> QED
  BY <1>4, <1>5, <1>6, <1>7, Quiet DEF Carrying

LEMMA RegisterStep ==
  ASSUME IInv, NEW r \in Requests, Register(r) PROVE IInv'
<1>1. /\ request[r].pc = "register" /\ Informed(r) /\ Typed
      /\ request[r] \in RequestState /\ ~IdentityLocked(request[r].email)
  BY Parts DEF Register, Typed
<1>2. UNCHANGED <<application, setups, notices, crashes>>
  BY DEF Register
<1>3. CASE Registered(request[r].email)
  <2>1. Finished(r)
    BY <1>3 DEF Register
  <2> QED
    BY <1>1, <1>2, <2>1, FinishedEnds, QuietEnds DEF Carrying
<1>4. CASE ~Registered(request[r].email)
  <2>1. Moves(r, "registered")
    BY <1>1, <1>4, GotoMoves DEF PcSet, Register
  <2>2. identities[request[r].email] = 0
    <3>1. request[r].email \in Emails
      BY <1>1 DEF RequestState, Informed, Knows
    <3>2. identities[request[r].email] \in Nat
      BY <1>1, <3>1 DEF Typed
    <3> QED
      BY <1>4, <3>2 DEF Registered
  <2>3. Informed(r)'
    BY <1>1, <1>2, <2>1, <2>2 DEF Informed, Knows, CreatingKnows, DecidingKnows,
       EnteringKnows, Creating, Carrying, Entering, Moves, setups
  <2>4. ASSUME NEW q \in Requests \ {r} PROVE Apart(r, q)' /\ Apart(q, r)'
    <3>1. request'[q] = request[q] /\ Apart(r, q) /\ Apart(q, r)
      BY <2>1, Parts DEF Alone, Moves
    <3>2. request[q].pc = "registered" => request[q].email # request[r].email
      BY <1>1 DEF IdentityLocked
    <3> QED
      BY <2>1, <3>1, <3>2 DEF Apart, Creating, Holds, Moves
  <2> QED
    BY <1>1, <1>2, <2>1, <2>3, <2>4, Quiet DEF Carrying, Moves
<1> QED
  BY <1>3, <1>4

LEMMA CreateAbortsStep ==
  ASSUME IInv, NEW r \in Requests, CreateAborts(r) PROVE IInv'
<1>1. request[r].pc \notin Carrying /\ Typed /\ Finished(r)
  BY Parts DEF CreateAborts, Carrying
<1> QED
  BY <1>1, FinishedEnds, QuietEnds DEF CreateAborts

\* After a crash nothing is owed.
LEMMA CrashStep ==
  ASSUME IInv, NEW r \in Requests, Crash(r) PROVE IInv'
<1>1. Ends(r) /\ Typed
  BY Parts, FinishedEnds DEF Crash
<1>2. /\ UNCHANGED <<application, grant, owner, identities>>
      /\ UNCHANGED <<delivery, audited, reached, raced>>
  BY DEF Crash, setups, notices
<1>3. crashes' \in Nat /\ crashes' # 0
  BY <1>1 DEF Crash, Typed
<1>4. Typed'
  BY <1>1, <1>2, <1>3 DEF Typed, Ends, Alone
<1>5. ASSUME NEW q \in Requests \ {r} PROVE Informed(q)'
  <2>1. Informed(q) /\ request'[q] = request[q]
    BY <1>1, Parts DEF Ends, Alone
  <2> QED
    BY <1>2, <2>1 DEF Informed, Knows, CreatingKnows, DecidingKnows, EnteringKnows, DecisionShown
<1>6. \A a \in Applications : Consistent(a)' /\ Owed(a)'
  BY <1>2, <1>3, Parts DEF Consistent, Owed
<1>7. OneAccountPerEmail'
  BY <1>2, Parts DEF OneAccountPerEmail
<1> QED
  BY <1>1, <1>4, <1>5, <1>6, <1>7, EndsApart, EndsInformed, Assemble DEF Ends

----------------------------------------------------------------------------
(* Requests that write.                                                    *)

LEMMA RowOf ==
  ASSUME IInv, NEW r \in Requests
  PROVE  /\ request[r] \in RequestState
         /\ request[r].pc \notin {"idle", "register", "registered"} =>
              request[r].app \in Applications
         /\ request[r].pc # "idle" => request[r].email \in Emails
         /\ request[r].pc \in {"locked", "commit"} => request[r].decision \in Decided
BY Parts DEF Typed, RequestState, Informed, Knows

LEMMA CreateCommitStep ==
  ASSUME IInv, NEW r \in Requests, CreateCommit(r) PROVE IInv'
<1>1. /\ request[r].pc = "insert" /\ Informed(r) /\ Typed /\ Goto(r, "receipt")
      /\ request[r].app \in Applications /\ request[r].email \in Emails
      /\ UNCHANGED <<grant, owner, identities>>
      /\ UNCHANGED <<delivery, audited, reached, raced, crashes>>
  BY Parts, RowOf DEF CreateCommit, setups, notices
<1>2. Moves(r, "receipt") /\ request'[r].give = request[r].give
      /\ request'[r].old = request[r].old
  BY <1>1, GotoMoves DEF PcSet
<1>3. PICK a \in Applications : a = request[r].app
  BY <1>1
<1>4. PICK old \in Applications \cup {None} : old = request[r].old
  BY RowOf DEF RequestState
<1>5. /\ application[a] = Unused
      /\ old # None => application[old].state = "PENDING"
  BY <1>1, <1>3, <1>4 DEF Informed, CreatingKnows, Creating
<1>6. application' = [b \in Applications |->
        IF b = a THEN [state |-> "PENDING", email |-> request[r].email]
        ELSE IF b = old THEN [application[b] EXCEPT !.state = "REPLACED"]
        ELSE application[b]]
  BY <1>3, <1>4 DEF CreateCommit
<1>7. application' \in [Applications -> Application]
  BY <1>1, <1>6 DEF Typed, Application
<1>8. /\ application'[a].state = "PENDING" /\ application'[a].email # None
      /\ \A b \in Applications \ {a, old} : application'[b] = application[b]
      /\ old # None /\ old # a =>
           application'[old].state = "REPLACED" /\ application'[old].email = application[old].email
  BY <1>1, <1>6, NoneIsNothing DEF Typed, Application
<1>9. Typed'
  BY <1>1, <1>2, <1>7 DEF Typed, Moves, Alone
<1>10. Informed(r)'
  BY <1>1, <1>2, <1>3, <1>8 DEF Informed, Knows, CreatingKnows, DecidingKnows, EnteringKnows,
     Creating, Carrying, Entering, Moves, Decided
<1>11. ASSUME NEW b \in Applications
       PROVE  /\ application'[b].state \in Decided <=> application[b].state \in Decided
              /\ Consistent(b)'
  <2>1. Consistent(b) /\ b # None
    BY Parts, NoneIsNothing
  <2>2. CASE b = a
    BY <1>1, <1>5, <1>8, <2>1, <2>2 DEF Consistent, Unused, Decided
  <2>3. CASE b = old /\ b # a
    BY <1>1, <1>5, <1>8, <2>1, <2>3 DEF Consistent, Decided
  <2>4. CASE b \notin {a, old}
    BY <1>1, <1>8, <2>1, <2>4 DEF Consistent, Decided
  <2> QED
    BY <2>2, <2>3, <2>4
<1>12. ASSUME NEW q \in Requests \ {r} PROVE Informed(q)'
  <2>1. Informed(q) /\ request'[q] = request[q] /\ Apart(r, q) /\ Apart(q, r)
    BY <1>2, Parts DEF Moves, Alone
  <2>2. request[q].app # a
    BY <1>1, <1>3, <2>1 DEF Apart, Creating
  <2>3. ASSUME NEW b \in Applications, Holds(q, b) PROVE b # old
    BY <1>1, <1>4, <2>1, <2>3 DEF Apart, Holds
  <2>4. Knows(q)'
    <3>1. CASE request[q].pc \in {"locked", "commit"}
      <4>1. request[q].app \in Applications /\ Holds(q, request[q].app)
        BY <3>1, RowOf DEF Holds
      <4>2. application'[request[q].app] = application[request[q].app]
        BY <1>8, <2>2, <2>3, <4>1
      <4> QED
        BY <2>1, <4>2 DEF Informed, Knows
    <3>2. CASE request[q].pc \notin {"locked", "commit"}
      BY <2>1, <3>2 DEF Informed, Knows
    <3> QED
      BY <3>1, <3>2
  <2>5. request[q].pc \in Creating => application'[request[q].app] = Unused
    <3>1. ASSUME request[q].pc \in Creating PROVE application'[request[q].app] = Unused
      <4>1. request[q].app \in Applications /\ application[request[q].app] = Unused
        BY <2>1, <3>1, RowOf DEF Informed, CreatingKnows, Creating
      <4>2. request[q].app # old
        BY <1>5, <4>1, NoneIsNothing DEF Unused
      <4> QED
        BY <1>8, <2>2, <4>1, <4>2
    <3> QED
      BY <3>1
  <2>6. request[q].pc = "insert" /\ request[q].old # None =>
          application'[request[q].old].state = "PENDING"
    <3>1. ASSUME request[q].pc = "insert", request[q].old # None
          PROVE  application'[request[q].old].state = "PENDING"
      <4>1. request[q].old \in Applications /\ Holds(q, request[q].old)
        BY <3>1, RowOf DEF RequestState, Holds
      <4>2. application[request[q].old].state = "PENDING"
        BY <2>1, <3>1 DEF Informed, CreatingKnows
      <4>3. request[q].old # old /\ request[q].old # a
        BY <1>5, <2>3, <4>1, <4>2 DEF Unused
      <4> QED
        BY <1>8, <4>1, <4>2, <4>3
    <3> QED
      BY <3>1
  <2>7. \A b \in Applications :
          application'[b].state \in Decided <=> application[b].state \in Decided
    BY <1>11
  <2>8. CreatingKnows(q)'
    <3>1. request[q].pc \in {"receipt", "receipted"} => request[q].app \in Applications
      BY RowOf
    <3> QED
      BY <1>1, <2>1, <2>5, <2>6, <2>7, <3>1 DEF Informed, CreatingKnows
  <2>9. DecidingKnows(q)'
    <3>1. request[q].pc \in Carrying => request[q].app \in Applications
      BY RowOf DEF Carrying
    <3> QED
      BY <1>1, <2>1, <2>7, <3>1 DEF Informed, DecidingKnows, DecisionShown
  <2>10. EnteringKnows(q)'
    BY <1>1, <2>1 DEF Informed, EnteringKnows
  <2> QED
    BY <2>4, <2>8, <2>9, <2>10 DEF Informed
<1>13. \A q \in Requests \ {r} : Apart(r, q)' /\ Apart(q, r)'
  BY <1>2, MovesApart DEF Creating
<1>14. ASSUME NEW b \in Applications PROVE Consistent(b)' /\ Owed(b)'
  <2>1. Consistent(b) /\ Owed(b)
    BY Parts
  <2>2. Consistent(b)'
    BY <1>11
  <2>3. Deciding(b) => Deciding(b)'
    BY <1>1, <1>2, DecidingKept DEF Carrying, Moves
  <2>4. application'[b].state \in Decided => application[b].state \in Decided
    BY <1>11
  <2> QED
    BY <1>1, <2>1, <2>2, <2>3, <2>4 DEF Owed, Told, DecisionShown
<1>15. OneAccountPerEmail'
  BY <1>1, Parts DEF OneAccountPerEmail
<1> QED
  BY <1>2, <1>9, <1>10, <1>12, <1>13, <1>14, <1>15, Assemble DEF Moves

LEMMA DecideCommitStep ==
  ASSUME IInv, NEW r \in Requests, DecideCommit(r) PROVE IInv'
<1>1. /\ request[r].pc = "commit" /\ Informed(r) /\ Typed /\ Goto(r, "audit")
      /\ request[r] \in RequestState
      /\ request[r].app \in Applications /\ request[r].decision \in Decided
      /\ UNCHANGED <<owner, identities, delivery, audited, reached, crashes>>
  BY Parts, RowOf DEF DecideCommit
<1>2. Moves(r, "audit") /\ request'[r].give = request[r].give
  BY <1>1, GotoMoves DEF PcSet
<1>3. PICK a \in Applications : a = request[r].app
  BY <1>1
<1>4. application[a].state = "PENDING"
  BY <1>1, <1>3 DEF Informed, Knows
<1>5. /\ application' = [application EXCEPT ![a].state = request[r].decision]
      /\ grant' = [grant EXCEPT ![a] = request[r].give]
      /\ raced' = IF Receiving(a) THEN raced \cup {a} ELSE raced
  BY <1>3 DEF DecideCommit
<1>6. /\ application'[a].state = request[r].decision
      /\ application'[a].email = application[a].email
      /\ grant'[a] = request[r].give
      /\ \A b \in Applications \ {a} : application'[b] = application[b] /\ grant'[b] = grant[b]
      /\ raced \subseteq raced' /\ (Receiving(a) => a \in raced')
  BY <1>1, <1>5 DEF Typed, Application
<1>7. Typed'
  <2>1. request[r].give \in Grant
    BY <1>1 DEF RequestState, Grant
  <2>2. application' \in [Applications -> Application] /\ grant' \in [Applications -> Grant]
    BY <1>1, <1>5, <2>1 DEF Typed, Application, Decided
  <2> QED
    BY <1>1, <1>2, <1>5, <2>2 DEF Typed, Moves, Alone
<1>8. Informed(r)'
  <2>1. request[r].give \in {"none", "existing", "open"}
    BY <1>1 DEF RequestState
  <2> QED
    BY <1>1, <1>2, <1>3, <1>6, <2>1 DEF Informed, Knows, CreatingKnows, DecidingKnows, EnteringKnows,
     Creating, Carrying, Entering, Moves, Decided
<1>9. ASSUME NEW q \in Requests \ {r} PROVE Informed(q)'
  <2>1. Informed(q) /\ request'[q] = request[q] /\ Apart(r, q) /\ Apart(q, r)
    BY <1>2, Parts DEF Moves, Alone
  <2>2. ~Holds(q, a)
    BY <1>1, <1>3, <2>1 DEF Apart, Holds
  <2>3. Consistent(a) /\ grant[a] = "none"
    BY <1>4, Parts DEF Consistent
  <2>4. Knows(q)'
    BY <1>6, <2>1, <2>2, RowOf DEF Informed, Knows, Holds
  <2>5. CreatingKnows(q)'
    <3>1. request[q].pc \in Creating => request[q].app \in Applications \ {a}
      BY <1>4, <2>1, RowOf DEF Informed, CreatingKnows, Creating, Unused
    <3>2. request[q].pc = "insert" /\ request[q].old # None => request[q].old \in Applications \ {a}
      BY <2>2, RowOf DEF RequestState, Holds
    <3>3. request[q].pc \in {"receipt", "receipted"} =>
            request[q].app \in Applications /\ (request[q].app = a => Receiving(a))
      BY RowOf DEF Receiving
    <3> QED
      BY <1>6, <2>1, <3>1, <3>2, <3>3 DEF Informed, CreatingKnows
  <2>6. DecidingKnows(q)'
    <3>1. request[q].pc \in Carrying => request[q].app \in Applications \ {a}
      BY <1>4, <2>1, RowOf DEF Informed, DecidingKnows, Carrying, Decided
    <3> QED
      BY <1>1, <1>6, <2>1, <3>1 DEF Informed, DecidingKnows, DecisionShown
  <2>7. EnteringKnows(q)'
    <3>1. request[q].pc \in Entering /\ request[q].app # None => request[q].app \in Applications \ {a}
      BY <2>1, <2>3, RowOf DEF RequestState, Informed, EnteringKnows
    <3> QED
      BY <1>1, <1>6, <2>1, <3>1 DEF Informed, EnteringKnows
  <2> QED
    BY <2>4, <2>5, <2>6, <2>7 DEF Informed
<1>10. \A q \in Requests \ {r} : Apart(r, q)' /\ Apart(q, r)'
  BY <1>2, MovesApart DEF Creating
<1>11. ASSUME NEW b \in Applications PROVE Consistent(b)' /\ Owed(b)'
  <2>1. Consistent(b) /\ Owed(b)
    BY Parts
  <2>2. CASE b = a
    <3>1. grant[a] = "none" /\ application[a].email # None /\ owner[a] = None
      BY <1>4, <2>1, <2>2, <1>1 DEF Consistent
    <3>2. request[r].give \in {"none", "existing", "open"}
      BY <1>1 DEF RequestState
    <3>3. request[r].decision = "DECLINED" => request[r].give = "none"
      BY <1>1 DEF Informed, DecidingKnows
    <3>4. Consistent(b)'
      BY <1>1, <1>6, <2>2, <3>1, <3>2, <3>3 DEF Consistent, Decided
    <3>5. Deciding(b)'
      BY <1>2, <1>3, <2>2 DEF Deciding, Moves
    <3> QED
      BY <3>4, <3>5 DEF Owed
  <2>3. CASE b # a
    <3>1. Consistent(b)'
      BY <1>1, <1>6, <2>1, <2>3 DEF Consistent
    <3>2. Deciding(b) => Deciding(b)'
      BY <1>1, <1>2, DecidingKept DEF Carrying, Moves
    <3> QED
      BY <1>1, <1>6, <2>1, <2>3, <3>1, <3>2 DEF Owed, Told, DecisionShown
  <2> QED
    BY <2>2, <2>3
<1>12. OneAccountPerEmail'
  BY <1>1, Parts DEF OneAccountPerEmail
<1> QED
  BY <1>2, <1>7, <1>8, <1>9, <1>10, <1>11, <1>12, Assemble DEF Moves

\* A step that carries a decision further: its row, with what is known of it, grows.
LEMMA CarryStep ==
  ASSUME IInv, NEW r \in Requests, NEW pc, Moves(r, pc), request'[r].give = request[r].give,
         request[r].pc \in Carrying, pc \in Carrying,
         UNCHANGED <<application, grant, owner, identities, raced, crashes>>, Typed',
         audited \subseteq audited', reached \subseteq reached',
         pc # "audit" => request[r].app \in audited',
         \A b \in Applications : DecisionShown(b) => DecisionShown(b)',
         pc = "respond" => DecisionShown(request[r].app)'
  PROVE  IInv'
<1>1. Informed(r)'
  BY Parts DEF Informed, Knows, CreatingKnows, DecidingKnows, EnteringKnows,
     Creating, Carrying, Entering, Moves
<1>2. ASSUME NEW q \in Requests \ {r} PROVE Informed(q)'
  <2>1. Informed(q) /\ request'[q] = request[q]
    BY Parts DEF Moves, Alone
  <2>2. request[q].pc = "respond" => request[q].app \in Applications
    BY RowOf
  <2> QED
    BY <2>1, <2>2 DEF Informed, Knows, CreatingKnows, DecidingKnows, EnteringKnows
<1>3. \A q \in Requests \ {r} : Apart(r, q)' /\ Apart(q, r)'
  BY MovesApart DEF Creating, Carrying
<1>4. ASSUME NEW b \in Applications PROVE Consistent(b)' /\ Owed(b)'
  <2>1. Consistent(b) /\ Owed(b)
    BY Parts
  <2>2. Deciding(b) => Deciding(b)'
    BY DecidingKept DEF Moves
  <2> QED
    BY <2>1, <2>2 DEF Consistent, Owed, Told
<1>5. OneAccountPerEmail'
  BY Parts DEF OneAccountPerEmail
<1> QED
  BY <1>1, <1>2, <1>3, <1>4, <1>5, Assemble DEF Moves

LEMMA DecideAuditStep ==
  ASSUME IInv, NEW r \in Requests, DecideAudit(r) PROVE IInv'
<1>1. /\ request[r].pc = "audit" /\ Typed /\ Goto(r, "notify")
      /\ request[r].app \in Applications /\ audited' = audited \cup {request[r].app}
      /\ UNCHANGED <<application, grant, owner, identities>>
      /\ UNCHANGED <<delivery, reached, raced, crashes>>
  BY Parts, RowOf DEF DecideAudit, setups
<1>2. Moves(r, "notify") /\ request'[r].give = request[r].give
  BY <1>1, GotoMoves DEF PcSet
<1>3. Typed'
  BY <1>1, <1>2 DEF Typed, Moves, Alone
<1> QED
  BY <1>1, <1>2, <1>3, CarryStep DEF Carrying, DecisionShown

LEMMA DecideMailedStep ==
  ASSUME IInv, NEW r \in Requests, DecideMailed(r) PROVE IInv'
<1>1. /\ request[r].pc = "notify" /\ Typed /\ Informed(r) /\ request[r] \in RequestState
      /\ request[r].app \in Applications
      /\ UNCHANGED <<application, grant, owner, identities>>
      /\ UNCHANGED <<delivery, audited, raced, crashes>>
  BY Parts, RowOf DEF DecideMailed, setups
<1>2. PICK sent \in BOOLEAN :
        /\ reached' \in {reached, reached \cup {request[r].app}}
        /\ request' = [request EXCEPT ![r] = [request[r] EXCEPT !.pc = "record", !.sent = sent]]
  BY <1>1 DEF DecideMailed, Typed
<1> DEFINE x == [request[r] EXCEPT !.pc = "record", !.sent = sent]
<1>3. /\ x \in RequestState /\ x.pc = "record" /\ x.decision = request[r].decision
      /\ x.app = request[r].app /\ x.email = request[r].email /\ x.give = request[r].give
  BY <1>1 DEF RequestState
<1> HIDE DEF x
<1>4. Moves(r, "record") /\ request'[r].give = request[r].give
  BY <1>1, <1>2, <1>3, PutAlone DEF x, Moves
<1>5. Typed'
  BY <1>1, <1>2, <1>4 DEF Typed, Moves, Alone
<1>6. request[r].app \in audited /\ reached \subseteq reached'
  BY <1>1, <1>2 DEF Informed, DecidingKnows, Carrying
<1> QED
  BY <1>1, <1>4, <1>5, <1>6, CarryStep DEF Carrying, DecisionShown

LEMMA DeliveryWritten ==
  ASSUME Typed, NEW a \in Applications, NEW kind \in {"RECEIVED", "DECIDED"}, NEW sent \in BOOLEAN,
         delivery' = [delivery EXCEPT ![a] = <<kind, sent>>]
  PROVE  /\ delivery' \in [Applications -> Delivery]
         /\ delivery'[a][1] = kind /\ \A b \in Applications \ {a} : delivery'[b] = delivery[b]
<1>1. <<kind, sent>> \in Delivery /\ <<kind, sent>>[1] = kind
  BY DEF Delivery
<1> QED
  BY <1>1 DEF Typed

LEMMA DecideRecordedStep ==
  ASSUME IInv, NEW r \in Requests, DecideRecorded(r) PROVE IInv'
<1>1. /\ request[r].pc = "record" /\ Typed /\ Informed(r) /\ Goto(r, "respond")
      /\ request[r].app \in Applications /\ request[r].sent \in BOOLEAN
      /\ delivery' = [delivery EXCEPT ![request[r].app] = <<"DECIDED", request[r].sent>>]
      /\ UNCHANGED <<application, grant, owner, identities>>
      /\ UNCHANGED <<audited, reached, raced, crashes>>
  BY Parts, RowOf DEF DecideRecorded, setups, RequestState
<1>2. Moves(r, "respond") /\ request'[r].give = request[r].give
  BY <1>1, GotoMoves DEF PcSet
<1>3. /\ delivery' \in [Applications -> Delivery] /\ delivery'[request[r].app][1] = "DECIDED"
      /\ \A b \in Applications \ {request[r].app} : delivery'[b] = delivery[b]
  BY <1>1, DeliveryWritten
<1>4. Typed'
  BY <1>1, <1>2, <1>3 DEF Typed, Moves, Alone
<1>5. \A b \in Applications : DecisionShown(b) => DecisionShown(b)'
  BY <1>1, <1>3 DEF DecisionShown
<1>6. request[r].app \in audited /\ DecisionShown(request[r].app)'
  BY <1>1, <1>2, <1>3 DEF Informed, DecidingKnows, Carrying, DecisionShown, Moves
<1> QED
  BY <1>1, <1>2, <1>4, <1>5, <1>6, CarryStep DEF Carrying

LEMMA DecideAnsweredStep ==
  ASSUME IInv, NEW r \in Requests, DecideAnswered(r) PROVE IInv'
<1>1. /\ request[r].pc = "respond" /\ Typed /\ Informed(r) /\ Finished(r)
      /\ request[r].app \in Applications
      /\ reached' = IF HasLink(r) THEN reached \cup {request[r].app} ELSE reached
      /\ UNCHANGED <<application, grant, owner, identities>>
      /\ UNCHANGED <<delivery, audited, raced, crashes>>
  BY Parts, RowOf DEF DecideAnswered, setups
<1>2. Ends(r)
  BY <1>1, FinishedEnds
<1>3. Typed' /\ reached \subseteq reached'
  BY <1>1, <1>2 DEF Typed, Ends, Alone
<1>4. ASSUME NEW q \in Requests \ {r} PROVE Informed(q)'
  <2>1. Informed(q) /\ request'[q] = request[q]
    BY <1>2, Parts DEF Ends, Alone
  <2> QED
    BY <1>1, <2>1 DEF Informed, Knows, CreatingKnows, DecidingKnows, EnteringKnows, DecisionShown
<1>5. ASSUME NEW b \in Applications PROVE Consistent(b)' /\ Owed(b)'
  <2>1. Consistent(b) /\ Owed(b)
    BY Parts
  <2>2. CASE b = request[r].app
    <3>1. Told(b)' /\ DecisionShown(b)'
      BY <1>1, <2>2 DEF Informed, DecidingKnows, Carrying, HasLink, Told, DecisionShown
    <3> QED
      BY <1>1, <2>1, <3>1 DEF Consistent, Owed
  <2>3. CASE b # request[r].app
    <3>1. Deciding(b) => Deciding(b)'
      BY <1>2, <2>3 DEF Deciding, Ends, Alone
    <3> QED
      BY <1>1, <1>3, <2>1, <3>1 DEF Consistent, Owed, Told, DecisionShown
  <2> QED
    BY <2>2, <2>3
<1>6. OneAccountPerEmail'
  BY <1>1, Parts DEF OneAccountPerEmail
<1> QED
  BY <1>2, <1>3, <1>4, <1>5, <1>6, EndsApart, EndsInformed, Assemble DEF Ends

LEMMA ReceiptRecordedStep ==
  ASSUME IInv, NEW r \in Requests, ReceiptRecorded(r) PROVE IInv'
<1>1. /\ request[r].pc = "receipted" /\ Typed /\ Informed(r) /\ Finished(r)
      /\ request[r].app \in Applications /\ request[r].sent \in BOOLEAN
      /\ delivery' = [delivery EXCEPT ![request[r].app] = <<"RECEIVED", request[r].sent>>]
      /\ UNCHANGED <<application, grant, owner, identities>>
      /\ UNCHANGED <<audited, reached, raced, crashes>>
  BY Parts, RowOf DEF ReceiptRecorded, setups, RequestState
<1>2. Ends(r)
  BY <1>1, FinishedEnds
<1>3. /\ delivery' \in [Applications -> Delivery]
      /\ \A b \in Applications \ {request[r].app} : delivery'[b] = delivery[b]
  BY <1>1, DeliveryWritten
<1>4. Typed'
  BY <1>1, <1>2, <1>3 DEF Typed, Ends, Alone
<1>5. \A b \in Applications :
        application[b].state \in Decided /\ DecisionShown(b) => DecisionShown(b)'
  BY <1>1, <1>3 DEF DecisionShown, Informed, CreatingKnows
<1>6. ASSUME NEW q \in Requests \ {r} PROVE Informed(q)'
  <2>1. Informed(q) /\ request'[q] = request[q]
    BY <1>2, Parts DEF Ends, Alone
  <2>2. request[q].pc \in Carrying => request[q].app \in Applications
    BY RowOf DEF Carrying
  <2> QED
    BY <1>1, <1>5, <2>1, <2>2 DEF Informed, Knows, CreatingKnows, DecidingKnows, EnteringKnows
<1>7. ASSUME NEW b \in Applications PROVE Consistent(b)' /\ Owed(b)'
  <2>1. Consistent(b) /\ Owed(b)
    BY Parts
  <2>2. Deciding(b) => Deciding(b)'
    BY <1>1, <1>2, DecidingKept DEF Carrying, Ends
  <2> QED
    BY <1>1, <1>5, <2>1, <2>2 DEF Consistent, Owed, Told
<1>8. OneAccountPerEmail'
  BY <1>1, Parts DEF OneAccountPerEmail
<1> QED
  BY <1>2, <1>4, <1>6, <1>7, <1>8, EndsApart, EndsInformed, Assemble DEF Ends

----------------------------------------------------------------------------
(* Accounts and workspaces.                                                *)

\* A grant changes only from open, or by the request that has taken it, to something that
\* was approved: what is known of the others, and what is owed, stays.
LEMMA GrantStep ==
  ASSUME IInv, NEW a \in Applications, grant[a] \notin {"none", "existing"},
         NEW g \in {"spent", "expired"}, grant' = [grant EXCEPT ![a] = g],
         UNCHANGED <<application, delivery, audited, reached, raced, crashes>>
  PROVE  /\ \A q \in Requests : request'[q] = request[q] /\ UNCHANGED identities => Informed(q)'
         /\ \A q \in Requests : /\ request'[q] = request[q]
                                /\ request[q].pc = "registered" =>
                                     identities'[request[q].email] = identities[request[q].email]
                                => Informed(q)'
         /\ \A b \in Applications : (Deciding(b) => Deciding(b)') => Owed(b)'
         /\ grant' \in [Applications -> Grant]
         /\ grant'[a] = g /\ \A b \in Applications \ {a} : grant'[b] = grant[b]
<1>1. /\ grant' \in [Applications -> Grant] /\ grant'[a] = g
      /\ \A b \in Applications \ {a} : grant'[b] = grant[b]
  BY Parts DEF Typed, Grant
<1>2. \A b \in Applications : grant[b] \in {"none", "existing"} <=> grant'[b] \in {"none", "existing"}
  BY <1>1
<1>3. ASSUME NEW q \in Requests, request'[q] = request[q],
             request[q].pc = "registered" =>
               identities'[request[q].email] = identities[request[q].email]
      PROVE  Informed(q)'
  <2>1. Informed(q)
    BY Parts
  <2>2. request[q].pc \in Carrying => request[q].app \in Applications
    BY RowOf DEF Carrying
  <2>3. request[q].pc \in Entering /\ request[q].app # None => request[q].app \in Applications
    BY RowOf DEF RequestState
  <2> QED
    BY <1>2, <1>3, <2>1, <2>2, <2>3
       DEF Informed, Knows, CreatingKnows, DecidingKnows, EnteringKnows, DecisionShown
<1>4. ASSUME NEW b \in Applications, Deciding(b) => Deciding(b)' PROVE Owed(b)'
  <2>1. Owed(b)
    BY Parts
  <2> QED
    BY <1>2, <1>4, <2>1 DEF Owed, Told, DecisionShown
<1> QED
  BY <1>1, <1>3, <1>4

LEMMA ExpireStep ==
  ASSUME IInv, NEW a \in Applications, Expire(a) PROVE IInv'
<1>1. /\ Typed /\ grant[a] = "open" /\ grant' = [grant EXCEPT ![a] = "expired"]
      /\ UNCHANGED <<application, owner, identities, request, crashes>>
      /\ UNCHANGED <<delivery, audited, reached, raced>>
  BY Parts DEF Expire, notices
<1>2. /\ \A q \in Requests : Informed(q)'
      /\ \A b \in Applications : (Deciding(b) => Deciding(b)') => Owed(b)'
      /\ grant' \in [Applications -> Grant]
      /\ grant'[a] = "expired" /\ \A b \in Applications \ {a} : grant'[b] = grant[b]
  BY <1>1, GrantStep
<1>3. \A b \in Applications : Deciding(b) => Deciding(b)'
  BY <1>1 DEF Deciding
<1>4. ASSUME NEW b \in Applications PROVE Consistent(b)'
  <2>1. Consistent(b) /\ (b = a => application[b].state = "APPROVED")
    BY <1>1, Parts DEF Consistent
  <2> QED
    BY <1>1, <1>2, <2>1 DEF Consistent
<1>5. \A r, q \in Requests : r # q => Apart(r, q)'
  BY <1>1, Parts DEF Apart, Holds
<1>6. Typed' /\ OneAccountPerEmail'
  BY <1>1, <1>2, Parts DEF Typed, OneAccountPerEmail
<1> QED
  BY <1>2, <1>3, <1>4, <1>5, <1>6 DEF IInv, Typed, TypeOK, RequestsKnow, Informed, Knows

LEMMA TeamAcceptStep ==
  ASSUME IInv, TeamAccept PROVE IInv'
<1>1. PICK a \in reached, e \in Emails :
        /\ grant[a] = "open" /\ grant' = [grant EXCEPT ![a] = "spent"]
        /\ owner' = [owner EXCEPT ![a] = e]
        /\ UNCHANGED <<application, identities, notices, request, crashes>>
  BY DEF TeamAccept
<1>2. /\ Typed /\ a \in Applications /\ e # None
      /\ UNCHANGED <<delivery, audited, reached, raced>>
  BY <1>1, Parts, NoneIsNothing DEF Typed, notices
<1>3. /\ \A q \in Requests : Informed(q)'
      /\ \A b \in Applications : (Deciding(b) => Deciding(b)') => Owed(b)'
      /\ grant' \in [Applications -> Grant]
      /\ grant'[a] = "spent" /\ \A b \in Applications \ {a} : grant'[b] = grant[b]
  BY <1>1, <1>2, GrantStep
<1>4. /\ owner' \in [Applications -> Emails \cup {None}]
      /\ owner'[a] = e /\ \A b \in Applications \ {a} : owner'[b] = owner[b]
  BY <1>1, <1>2 DEF Typed
<1>5. \A b \in Applications : Deciding(b) => Deciding(b)'
  BY <1>1 DEF Deciding
<1>6. ASSUME NEW b \in Applications PROVE Consistent(b)'
  <2>1. Consistent(b) /\ (b = a => application[b].state = "APPROVED")
    BY <1>1, <1>2, Parts DEF Consistent
  <2> QED
    BY <1>1, <1>2, <1>3, <1>4, <2>1 DEF Consistent
<1>7. \A r, q \in Requests : r # q => Apart(r, q)'
  BY <1>1, Parts DEF Apart, Holds
<1>8. Typed' /\ OneAccountPerEmail'
  BY <1>1, <1>2, <1>3, <1>4, Parts DEF Typed, OneAccountPerEmail
<1> QED
  BY <1>3, <1>5, <1>6, <1>7, <1>8 DEF IInv, Typed, TypeOK, RequestsKnow, Informed, Knows

\* The identity that a request inserts is the first of its email.
LEMMA IdentityInserted ==
  ASSUME IInv, NEW r \in Requests, request[r].pc = "registered", Ends(r),
         identities' = [identities EXCEPT ![request[r].email] = @ + 1]
  PROVE  /\ identities' \in [Emails -> Nat] /\ OneAccountPerEmail'
         /\ \A q \in Requests \ {r} : request[q].pc = "registered" =>
              identities'[request[q].email] = identities[request[q].email]
<1>1. PICK e \in Emails : e = request[r].email
  BY RowOf
<1>2. identities[e] = 0 /\ identities \in [Emails -> Nat]
  BY <1>1, Parts DEF Informed, EnteringKnows, Typed
<1>3. /\ identities' \in [Emails -> Nat] /\ identities'[e] = 1
      /\ \A f \in Emails \ {e} : identities'[f] = identities[f]
  BY <1>1, <1>2
<1>4. OneAccountPerEmail'
  BY <1>3, Parts DEF OneAccountPerEmail
<1>5. ASSUME NEW q \in Requests \ {r}, request[q].pc = "registered"
      PROVE  identities'[request[q].email] = identities[request[q].email]
  <2>1. request[q].email # e /\ request[q].email \in Emails
    BY <1>1, <1>5, Parts, RowOf DEF Apart
  <2> QED
    BY <1>3, <2>1
<1> QED
  BY <1>3, <1>4, <1>5

LEMMA SetupCommitStep ==
  ASSUME IInv, NEW r \in Requests, SetupCommit(r) PROVE IInv'
<1>1. /\ Typed /\ Informed(r) /\ request[r].pc = "registered" /\ request[r].app # None
      /\ identities' = [identities EXCEPT ![request[r].email] = @ + 1]
      /\ owner' = [owner EXCEPT ![request[r].app] = request[r].email]
      /\ grant' = [grant EXCEPT ![request[r].app] = "spent"]
      /\ UNCHANGED <<application, crashes>> /\ UNCHANGED <<delivery, audited, reached, raced>>
  BY Parts DEF SetupCommit, notices
<1>2. Ends(r)
  BY <1>1, FinishedEnds DEF SetupCommit
<1>3. PICK a \in Applications : a = request[r].app
  BY <1>1, RowOf DEF RequestState
<1>4. PICK e \in Emails : e = request[r].email
  BY <1>1, RowOf
<1>5. e # None /\ grant[a] \notin {"none", "existing"}
  BY <1>1, <1>3, NoneIsNothing DEF Informed, EnteringKnows, Entering
<1>6. /\ identities' \in [Emails -> Nat] /\ OneAccountPerEmail'
      /\ \A q \in Requests \ {r} : request[q].pc = "registered" =>
           identities'[request[q].email] = identities[request[q].email]
  BY <1>1, <1>2, IdentityInserted
<1>7. grant' = [grant EXCEPT ![a] = "spent"] /\ owner' = [owner EXCEPT ![a] = e]
  BY <1>1, <1>3, <1>4
<1>8. /\ \A q \in Requests : /\ request'[q] = request[q]
                             /\ request[q].pc = "registered" =>
                                  identities'[request[q].email] = identities[request[q].email]
                             => Informed(q)'
      /\ \A b \in Applications : (Deciding(b) => Deciding(b)') => Owed(b)'
      /\ grant' \in [Applications -> Grant]
      /\ grant'[a] = "spent" /\ \A b \in Applications \ {a} : grant'[b] = grant[b]
  BY <1>1, <1>5, <1>7, GrantStep
<1>9. \A q \in Requests \ {r} : Informed(q)'
  BY <1>2, <1>6, <1>8 DEF Ends, Alone
<1>10. /\ owner' \in [Applications -> Emails \cup {None}]
       /\ owner'[a] = e /\ \A b \in Applications \ {a} : owner'[b] = owner[b]
  BY <1>1, <1>7 DEF Typed
<1>11. \A b \in Applications : Deciding(b) => Deciding(b)'
  BY <1>1, <1>2, DecidingKept DEF Carrying, Ends
<1>12. ASSUME NEW b \in Applications PROVE Consistent(b)'
  <2>1. Consistent(b) /\ (b = a => application[b].state = "APPROVED")
    BY <1>5, Parts DEF Consistent
  <2> QED
    BY <1>1, <1>5, <1>8, <1>10, <2>1 DEF Consistent
<1>13. Typed'
  BY <1>1, <1>2, <1>6, <1>8, <1>10 DEF Typed, Ends, Alone
<1> QED
  BY <1>2, <1>6, <1>8, <1>9, <1>11, <1>12, <1>13, EndsApart, EndsInformed, Assemble DEF Ends

LEMMA SignUpCommitStep ==
  ASSUME IInv, NEW r \in Requests, SignUpCommit(r) PROVE IInv'
<1>1. /\ Typed /\ request[r].pc = "registered"
      /\ identities' = [identities EXCEPT ![request[r].email] = @ + 1]
      /\ UNCHANGED <<application, grant, owner, crashes>>
      /\ UNCHANGED <<delivery, audited, reached, raced>>
  BY Parts DEF SignUpCommit, notices
<1>2. Ends(r)
  BY <1>1, FinishedEnds DEF SignUpCommit
<1>3. /\ identities' \in [Emails -> Nat] /\ OneAccountPerEmail'
      /\ \A q \in Requests \ {r} : request[q].pc = "registered" =>
           identities'[request[q].email] = identities[request[q].email]
  BY <1>1, <1>2, IdentityInserted
<1>4. Typed'
  BY <1>1, <1>2, <1>3 DEF Typed, Ends, Alone
<1>5. ASSUME NEW q \in Requests \ {r} PROVE Informed(q)'
  <2>1. Informed(q) /\ request'[q] = request[q]
    BY <1>2, Parts DEF Ends, Alone
  <2> QED
    BY <1>1, <1>3, <2>1
       DEF Informed, Knows, CreatingKnows, DecidingKnows, EnteringKnows, DecisionShown
<1>6. ASSUME NEW b \in Applications PROVE Consistent(b)' /\ Owed(b)'
  <2>1. Consistent(b) /\ Owed(b)
    BY Parts
  <2>2. Deciding(b) => Deciding(b)'
    BY <1>1, <1>2, DecidingKept DEF Carrying, Ends
  <2> QED
    BY <1>1, <2>1, <2>2 DEF Consistent, Owed, Told, DecisionShown
<1> QED
  BY <1>2, <1>3, <1>4, <1>5, <1>6, EndsApart, EndsInformed, Assemble DEF Ends

----------------------------------------------------------------------------
(* Theorems.                                                               *)

LEMMA InitIInv == Init => IInv
<1> SUFFICES ASSUME Init PROVE IInv
  OBVIOUS
<1>1. Typed
  BY IdleType, BoundsAssumption DEF Init, Typed, Application, Unused, Grant, Delivery
<1>2. \A r \in Requests : request[r] = IdleRequest /\ request[r].pc = "idle"
  BY IdleType DEF Init
<1>3. \A r \in Requests : Informed(r)
  BY <1>2 DEF Informed, Knows, CreatingKnows, DecidingKnows, EnteringKnows,
     Creating, Carrying, Entering
<1>4. \A r, q \in Requests : r # q => Apart(r, q)
  BY <1>2 DEF Apart, Holds, Creating
<1>5. \A a \in Applications : Consistent(a) /\ Owed(a)
  BY DEF Init, Consistent, Owed, Unused, Decided
<1>6. OneAccountPerEmail
  <2> SUFFICES ASSUME NEW e \in Emails PROVE identities[e] <= 1
    BY DEF OneAccountPerEmail
  <2>1. identities[e] = 0
    BY DEF Init
  <2> QED
    BY <2>1
<1> QED
  BY <1>1, <1>3, <1>4, <1>5, <1>6, Parts

LEMMA StutterIInv == ASSUME IInv, UNCHANGED vars PROVE IInv'
<1>1. /\ UNCHANGED <<application, grant, owner, identities, request>>
      /\ UNCHANGED <<delivery, audited, reached, raced, crashes>>
  BY DEF vars, setups, notices
<1>2. \A r \in Requests : Informed(r)'
  BY <1>1, Parts
     DEF Informed, Knows, CreatingKnows, DecidingKnows, EnteringKnows, DecisionShown
<1>3. \A r, q \in Requests : r # q => Apart(r, q)'
  BY <1>1, Parts DEF Apart, Holds
<1>4. \A a \in Applications : Consistent(a)' /\ Owed(a)'
  BY <1>1, Parts DEF Consistent, Owed, Told, DecisionShown, Deciding
<1>5. Typed' /\ OneAccountPerEmail'
  BY <1>1, Parts DEF Typed, OneAccountPerEmail
<1> QED
  BY <1>2, <1>3, <1>4, <1>5 DEF IInv, Typed, TypeOK, RequestsKnow, Informed, Knows

LEMMA StepIInv == ASSUME IInv, [Next]_vars PROVE IInv'
<1>1. ASSUME NEW r \in Requests, Start(r) PROVE IInv'
  BY <1>1, CreateStartStep, DecideLockStep, SetupLockStep, SignUpCheckStep DEF Start
<1>2. ASSUME NEW r \in Requests, Continue(r) PROVE IInv'
  BY <1>2, CreateReplaceStep, CreateAbortsStep, CreateCommitStep, ReceiptMailedStep,
     ReceiptRecordedStep, DecideReadStep, DecideCommitStep, DecideAuditStep, DecideMailedStep,
     DecideRecordedStep, DecideAnsweredStep, SetupCheckStep, RegisterStep, SetupCommitStep,
     SignUpCommitStep DEF Continue
<1>3. ASSUME NEW r \in Requests, Crash(r) PROVE IInv'
  BY <1>3, CrashStep
<1> QED
  BY <1>1, <1>2, <1>3, ExpireStep, TeamAcceptStep, StutterIInv DEF Next

\* What every request knows of its row, that requests keep apart and what is owed holds
\* throughout, however requests of the routes overlap and wherever they die.
THEOREM Invariant == Spec => []IInv
BY InitIInv, StepIInv, PTL DEF Spec

\* Every variable keeps its type, and every request has read what its next statement uses.
THEOREM TypeCorrect == Spec => []TypeOK
<1>1. IInv => TypeOK
  BY DEF IInv
<1> QED
  BY <1>1, Invariant, PTL

\* No email gets a second account, whatever setups and sign-ups overlap.
THEOREM AccountsUnique == Spec => []OneAccountPerEmail
<1>1. IInv => OneAccountPerEmail
  BY DEF IInv
<1> QED
  BY <1>1, Invariant, PTL

\* A setup link is used up exactly when its workspace has an owner: the account, the
\* membership and the spent invitation are committed together.
THEOREM SetupsSpentWithOwner == Spec => []SpentWithOwner
<1>1. IInv => SpentWithOwner
  BY DEF IInv, Consistent, SpentWithOwner
<1> QED
  BY <1>1, Invariant, PTL

\* Without a crash a decision that nobody carries out any more is audited, and its link
\* has reached somebody.
THEOREM DecisionsCarried == Spec => []DecisionCarriedThrough
<1>1. IInv => DecisionCarriedThrough
  BY DEF IInv, Owed, Told, DecisionCarriedThrough
<1> QED
  BY <1>1, Invariant, PTL

\* Without a crash such a decision shows in the queue's delivery, unless it raced its
\* request's receipt.
THEOREM DecisionsShown == Spec => []DeliveryOfDecision
<1>1. IInv => DeliveryOfDecision
  BY DEF IInv, Owed, DecisionShown, DeliveryOfDecision
<1> QED
  BY <1>1, Invariant, PTL

\* Rows that are pending afterwards were so before, but for the one a request inserts.
LEMMA PendingKept ==
  ASSUME IInv, [Next]_vars, \A r \in Requests : ~CreateCommit(r)
  PROVE  \A a \in Applications :
           application'[a] # application[a] =>
             application[a].state = "PENDING" /\ application'[a].state # "PENDING"
<1>1. CASE \E r \in Requests : DecideCommit(r)
  <2>1. PICK r \in Requests : DecideCommit(r)
    BY <1>1
  <2>2. /\ request[r] \in RequestState /\ request[r].pc = "commit"
        /\ request[r].app # None /\ request[r].decision # None
        /\ application[request[r].app].state = "PENDING"
        /\ application \in [Applications -> Application]
    BY <2>1, Parts DEF DecideCommit, Informed, Knows, Typed
  <2>3. PICK a \in Applications : a = request[r].app
    BY <2>2 DEF RequestState
  <2>4. application' = [application EXCEPT ![a].state = request[r].decision]
    BY <2>1, <2>3 DEF DecideCommit
  <2>5. request[r].decision \in Decided
    BY <2>2 DEF RequestState
  <2>6. application'[a].state # "PENDING"
    BY <2>2, <2>4, <2>5 DEF Application, Decided
  <2>7. \A b \in Applications \ {a} : application'[b] = application[b]
    BY <2>2, <2>4
  <2> QED
    BY <2>2, <2>3, <2>6, <2>7
<1>2. CASE \A r \in Requests : ~DecideCommit(r)
  <2>1. ASSUME NEW r \in Requests, Continue(r) PROVE UNCHANGED application
    BY <1>2, <2>1 DEF Continue, CreateReplace, CreateAborts, ReceiptMailed, ReceiptRecorded,
       DecideRead, DecideAudit, DecideMailed, DecideRecorded, DecideAnswered, SetupCheck,
       Register, SetupCommit, SignUpCommit
  <2>2. ASSUME NEW r \in Requests, Start(r) \/ Crash(r) PROVE UNCHANGED application
    BY <2>2 DEF Start, CreateStart, DecideLock, SetupLock, SignUpCheck, Crash
  <2> QED
    BY <2>1, <2>2 DEF Next, vars, Expire, TeamAccept
<1> QED
  BY <1>1, <1>2

\* What a commit of a new request does to the rows.
LEMMA RowsCreated ==
  ASSUME IInv, NEW r \in Requests, CreateCommit(r)
  PROVE  \E b \in Applications :
           /\ application[b] = Unused
           /\ application'[b] = [state |-> "PENDING", email |-> request[r].email]
           /\ Pending(request[r].email) \subseteq {request[r].old}
           /\ \A a \in Applications \ {b} : application'[a] # application[a] =>
                a = request[r].old /\ application[a].state = "PENDING"
           /\ \A a \in Applications \ {b} :
                /\ application'[a].state = "PENDING" => application'[a] = application[a]
                /\ application'[a].state = "PENDING" => a # request[r].old
<1>1. /\ request[r] \in RequestState /\ request[r].pc = "insert" /\ request[r].app # None
      /\ application \in [Applications -> Application]
      /\ application[request[r].app] = Unused
      /\ request[r].old # None => application[request[r].old].state = "PENDING"
  BY Parts DEF CreateCommit, Informed, Knows, CreatingKnows, Typed, Creating
<1>2. PICK b \in Applications : b = request[r].app
  BY <1>1 DEF RequestState
<1>3. application' = [a \in Applications |->
         IF a = b THEN [state |-> "PENDING", email |-> request[r].email]
         ELSE IF a = request[r].old THEN [application[a] EXCEPT !.state = "REPLACED"]
         ELSE application[a]]
  BY <1>2 DEF CreateCommit
<1>4. Pending(request[r].email) \subseteq {request[r].old}
  BY DEF CreateCommit, OtherPending
<1>5. \A a \in Applications \ {b} : a # request[r].old => application'[a] = application[a]
  BY <1>3
<1>6. \A a \in Applications \ {b} : a = request[r].old =>
         application[a].state = "PENDING" /\ application'[a].state = "REPLACED"
  BY <1>1, <1>3, NoneIsNothing DEF Application
<1>7. application'[b] = [state |-> "PENDING", email |-> request[r].email]
  BY <1>3
<1> QED
  BY <1>1, <1>2, <1>4, <1>5, <1>6, <1>7

LEMMA OneOpenStep == ASSUME IInv, OneOpenRequest, [Next]_vars PROVE OneOpenRequest'
<1>1. CASE \E r \in Requests : CreateCommit(r)
  <2>1. PICK r \in Requests : CreateCommit(r)
    BY <1>1
  <2>2. PICK b \in Applications :
           /\ application'[b] = [state |-> "PENDING", email |-> request[r].email]
           /\ Pending(request[r].email) \subseteq {request[r].old}
           /\ \A a \in Applications \ {b} :
                /\ application'[a].state = "PENDING" => application'[a] = application[a]
                /\ application'[a].state = "PENDING" => a # request[r].old
    BY <2>1, RowsCreated
  <2>3. ASSUME NEW e \in Emails, NEW a \in Pending(e)', a # b
        PROVE  a \in Pending(e) /\ e # request[r].email
    <3>1. a \in Applications /\ application'[a] = [state |-> "PENDING", email |-> e]
      BY DEF Pending
    <3>2. application'[a].state = "PENDING"
      BY <3>1
    <3> QED
      BY <2>2, <2>3, <3>1, <3>2 DEF Pending
  <2>4. ASSUME NEW e \in Emails, b \in Pending(e)' PROVE e = request[r].email
    <3>1. application'[b] = [state |-> "PENDING", email |-> e]
      BY <2>4 DEF Pending
    <3> QED
      BY <2>2, <3>1
  <2> QED
    BY <2>3, <2>4 DEF OneOpenRequest
<1>2. CASE \A r \in Requests : ~CreateCommit(r)
  <2>1. ASSUME NEW e \in Emails, NEW a \in Pending(e)' PROVE a \in Pending(e)
    <3>1. a \in Applications /\ application'[a] = [state |-> "PENDING", email |-> e]
      BY DEF Pending
    <3>2. application'[a].state = "PENDING"
      BY <3>1
    <3>3. application'[a] = application[a]
      BY <1>2, <3>1, <3>2, PendingKept
    <3> QED
      BY <3>1, <3>3 DEF Pending
  <2> QED
    BY <2>1 DEF OneOpenRequest
<1> QED
  BY <1>1, <1>2

\* An email never has two pilot requests open, whatever is sent twice or decided on
\* meanwhile.
THEOREM OneOpen == Spec => []OneOpenRequest
<1>1. Init => OneOpenRequest
  <2>1. Init => \A a \in Applications : application[a].state = "none"
    BY DEF Init, Unused
  <2> QED
    BY <2>1 DEF OneOpenRequest, Pending
<1> QED
  BY <1>1, OneOpenStep, Invariant, PTL DEF Spec

LEMMA DecidedStays ==
  ASSUME IInv, [Next]_vars
  PROVE  \A a \in Applications : application[a].state \in Decided =>
           application'[a] = application[a]
<1>1. CASE \E r \in Requests : CreateCommit(r)
  <2>1. PICK r \in Requests : CreateCommit(r)
    BY <1>1
  <2>2. PICK b \in Applications :
           /\ application[b] = Unused
           /\ \A a \in Applications \ {b} : application'[a] # application[a] =>
                application[a].state = "PENDING"
    BY <2>1, RowsCreated
  <2> QED
    BY <2>2 DEF Decided, Unused
<1>2. CASE \A r \in Requests : ~CreateCommit(r)
  BY <1>2, PendingKept DEF Decided
<1> QED
  BY <1>1, <1>2

\* A decision on a pilot request is final: the lock of the row decides between two
\* administrators, and a later request of the same email deletes pending rows only.
THEOREM DecidedOnce == Spec => DecisionsFinal
BY DecidedStays, Invariant, PTL DEF Spec, DecisionsFinal

----------------------------------------------------------------------------
(* What a course of PilotCase sees of the requests: who carries out a      *)
(* decision, and who has yet to record a receipt; and of each of these, as *)
(* of who has taken a link, there is one at a time.                        *)

Receipts == {"receipt", "receipted"}
Duties == {Carrying, Receipts, Entering}

\* A request r is at work on application a, in one of the ways of which no two may be.
Bound(r, duty, a) == request[r].pc \in duty /\ request[r].app = a

Sole(r, q) ==
  \A duty \in Duties, a \in Applications : ~(Bound(r, duty, a) /\ Bound(q, duty, a))

\* What it gives or takes is there to be given or taken.
Entitled(r) ==
  /\ request[r].pc = "commit" /\ request[r].decision = "APPROVED" => request[r].give # "none"
  /\ \A a \in Applications :
       /\ Bound(r, Carrying, a) /\ request[r].give = "open" => grant[a] \notin {"none", "existing"}
       /\ Bound(r, Entering, a) => grant[a] \in {"open", "expired"} /\ a \in reached

CaseInv ==
  /\ \A r \in Requests : Entitled(r)
  /\ \A r, q \in Requests : r # q => Sole(r, q)
  /\ \A a \in raced : application[a].state \in Decided

LEMMA Duty == Carrying \in Duties /\ Receipts \in Duties /\ Entering \in Duties
BY DEF Duties

LEMMA BoundsOf ==
  ASSUME NEW a \in Applications
  PROVE  /\ Deciding(a) <=> \E r \in Requests : Bound(r, Carrying, a)
         /\ Receiving(a) <=> \E r \in Requests : Bound(r, Receipts, a)
         /\ InvitationLocked(a) <=> \E r \in Requests : Bound(r, Entering, a)
BY DEF Deciding, Receiving, InvitationLocked, Bound, Carrying, Receipts, Entering

LEMMA BoundsAfter ==
  ASSUME NEW a \in Applications
  PROVE  /\ Deciding(a)' <=> \E r \in Requests : Bound(r, Carrying, a)'
         /\ Receiving(a)' <=> \E r \in Requests : Bound(r, Receipts, a)'
BY DEF Deciding, Receiving, Bound, Carrying, Receipts

LEMMA EndsBound ==
  ASSUME NEW r \in Requests, Ends(r), NEW duty \in Duties, NEW a \in Applications
  PROVE  ~Bound(r, duty, a)'
BY IdleType DEF Ends, Bound, Duties, Carrying, Receipts, Entering

LEMMA EndsEntitled == ASSUME NEW r \in Requests, Ends(r) PROVE Entitled(r)'
<1>1. request'[r].pc = "idle"
  BY IdleType DEF Ends
<1> QED
  BY <1>1 DEF Entitled, Bound, Carrying, Entering

\* Requests that take on nothing others are at work on are still apart.
LEMMA SoleStep ==
  ASSUME CaseInv, NEW r \in Requests, Alone(r),
         \A duty \in Duties, a \in Applications : Bound(r, duty, a)' =>
           \A q \in Requests \ {r} : ~Bound(q, duty, a)
  PROVE  \A p, q \in Requests : p # q => Sole(p, q)'
<1> SUFFICES ASSUME NEW p \in Requests, NEW q \in Requests, p # q,
                    NEW duty \in Duties, NEW a \in Applications,
                    Bound(p, duty, a)', Bound(q, duty, a)'
             PROVE  FALSE
  BY DEF Sole
<1>1. \A s \in Requests \ {r} : Bound(s, duty, a)' => Bound(s, duty, a)
  BY DEF Alone, Bound
<1>2. ~(Bound(p, duty, a) /\ Bound(q, duty, a))
  BY DEF CaseInv, Sole
<1> QED
  BY <1>1, <1>2

\* Who does what it did is alone with it.
LEMMA SoleBound ==
  ASSUME CaseInv, NEW r \in Requests, NEW duty \in Duties, NEW a \in Applications, Bound(r, duty, a)
  PROVE  \A q \in Requests \ {r} : ~Bound(q, duty, a)
BY DEF CaseInv, Sole

LEMMA OthersEntitled ==
  ASSUME CaseInv, NEW r \in Requests, Alone(r), UNCHANGED grant, reached \subseteq reached'
  PROVE  \A q \in Requests \ {r} : Entitled(q)'
BY DEF CaseInv, Entitled, Alone, Bound

LEMMA SameDuties ==
  ASSUME NEW r \in Requests, Alone(r), NEW a \in Applications
  PROVE  /\ (Bound(r, Carrying, a)' <=> Bound(r, Carrying, a)) => (Deciding(a)' <=> Deciding(a))
         /\ (Bound(r, Receipts, a)' <=> Bound(r, Receipts, a)) => (Receiving(a)' <=> Receiving(a))
<1>1. \A q \in Requests \ {r}, duty \in Duties : Bound(q, duty, a)' <=> Bound(q, duty, a)
  BY DEF Alone, Bound
<1> QED
  BY <1>1, BoundsOf, BoundsAfter, Duty

\* What is true or false of an application, as values.
LEMMA TruthValues ==
  ASSUME NEW a \in Applications
  PROVE  /\ Deciding(a) \in BOOLEAN /\ Receiving(a) \in BOOLEAN
         /\ Deciding(a)' \in BOOLEAN /\ Receiving(a)' \in BOOLEAN
         /\ (Deciding(a)' <=> Deciding(a)) => Deciding(a)' = Deciding(a)
         /\ (Receiving(a)' <=> Receiving(a)) => Receiving(a)' = Receiving(a)
         /\ (a \in audited' <=> a \in audited) => (a \in audited)' = (a \in audited)
         /\ (a \in reached' <=> a \in reached) => (a \in reached)' = (a \in reached)
         /\ (a \in raced' <=> a \in raced) => (a \in raced)' = (a \in raced)
<1>1. /\ Deciding(a) \in BOOLEAN /\ Receiving(a) \in BOOLEAN
      /\ Deciding(a)' \in BOOLEAN /\ Receiving(a)' \in BOOLEAN
  BY Zenon DEF Deciding, Receiving
<1>2. /\ (Deciding(a)' <=> Deciding(a)) => Deciding(a)' = Deciding(a)
      /\ (Receiving(a)' <=> Receiving(a)) => Receiving(a)' = Receiving(a)
  BY <1>1, Zenon
<1> QED
  BY <1>1, <1>2

\* The case of an application that a step does not touch.
LEMMA SameCase ==
  ASSUME NEW a \in Applications,
         application'[a] = application[a], grant'[a] = grant[a], owner'[a] = owner[a],
         delivery'[a] = delivery[a], UNCHANGED crashes,
         a \in audited' <=> a \in audited, a \in reached' <=> a \in reached,
         a \in raced' <=> a \in raced,
         Deciding(a)' <=> Deciding(a), Receiving(a)' <=> Receiving(a)
  PROVE  UNCHANGED Case(a)!case
<1>1. /\ (a \in audited)' = (a \in audited) /\ (a \in reached)' = (a \in reached)
      /\ (a \in raced)' = (a \in raced)
      /\ Deciding(a)' = Deciding(a) /\ Receiving(a)' = Receiving(a)
  BY TruthValues
<1>2. (crashes > 0)' = (crashes > 0)
  OBVIOUS
<1> QED
  BY <1>1, <1>2, Zenon DEF Case!case

\* A step of r that changes no row, and neither begins nor ends what a case sees.
LEMMA QuietCase ==
  ASSUME CaseInv, NEW r \in Requests, Alone(r),
         UNCHANGED <<application, grant, owner, delivery>>,
         UNCHANGED <<audited, reached, raced, crashes>>,
         \A a \in Applications, duty \in {Carrying, Receipts} :
           Bound(r, duty, a)' <=> Bound(r, duty, a),
         \A a \in Applications, q \in Requests \ {r} :
           Bound(r, Entering, a)' => ~Bound(q, Entering, a),
         Entitled(r)'
  PROVE  CaseInv' /\ \A a \in Applications : UNCHANGED Case(a)!case
<1>1. ASSUME NEW a \in Applications PROVE UNCHANGED Case(a)!case
  <2>1. (Deciding(a)' <=> Deciding(a)) /\ (Receiving(a)' <=> Receiving(a))
    BY SameDuties
  <2> QED
    BY <2>1, SameCase
<1>2. \A q \in Requests : Entitled(q)'
  BY OthersEntitled
<1>3. \A duty \in Duties, a \in Applications : Bound(r, duty, a)' =>
        \A q \in Requests \ {r} : ~Bound(q, duty, a)
  BY SoleBound DEF Duties
<1>4. \A p, q \in Requests : p # q => Sole(p, q)'
  BY <1>3, SoleStep
<1>5. \A a \in raced' : application'[a].state \in Decided
  BY DEF CaseInv
<1> QED
  BY <1>1, <1>2, <1>4, <1>5 DEF CaseInv

LEMMA FreeCase ==
  ASSUME CaseInv, NEW r \in Requests, Alone(r),
         UNCHANGED <<application, setups, notices, crashes>>,
         request[r].pc \notin Carrying \cup Receipts,
         request'[r].pc \notin Carrying \cup Receipts \cup Entering \cup {"commit"}
  PROVE  CaseInv' /\ \A a \in Applications : UNCHANGED Case(a)!case
<1>1. /\ UNCHANGED <<application, grant, owner, delivery>>
      /\ UNCHANGED <<audited, reached, raced, crashes>>
  BY DEF setups, notices
<1>2. Entitled(r)'
  BY DEF Entitled, Bound
<1> QED
  BY <1>1, <1>2, QuietCase DEF Bound

LEMMA QuietEndsCase ==
  ASSUME CaseInv, NEW r \in Requests, Ends(r),
         UNCHANGED <<application, grant, owner, delivery>>,
         UNCHANGED <<audited, reached, raced, crashes>>,
         request[r].pc \notin Carrying \cup Receipts
  PROVE  CaseInv' /\ \A a \in Applications : UNCHANGED Case(a)!case
<1>1. \A a \in Applications, duty \in Duties : ~Bound(r, duty, a)'
  BY EndsBound
<1>2. Entitled(r)'
  BY EndsEntitled
<1> QED
  BY <1>1, <1>2, QuietCase, Duty DEF Bound, Ends

\* What a request puts in its local state when it begins.
LEMMA BegunAlone ==
  ASSUME IInv, NEW r \in Requests, CreateStart(r) \/ DecideLock(r) \/ SetupLock(r) \/ SignUpCheck(r)
  PROVE  /\ Alone(r) /\ request[r].pc = "idle"
         /\ UNCHANGED <<application, setups, notices, crashes>>
         /\ CreateStart(r) => request'[r].pc = "replace"
         /\ DecideLock(r) => request'[r].pc = "locked"
         /\ SignUpCheck(r) => request'[r].pc = "register" /\ request'[r].app = None
         /\ SetupLock(r) => \E a \in Applications :
              /\ request'[r].pc = "taken" /\ request'[r].app = a
              /\ grant[a] = "open" /\ a \in reached /\ ~InvitationLocked(a)
<1>1. Typed
  BY Parts
<1>2. IdleRequest \in RequestState
  BY IdleType
<1>3. ASSUME CreateStart(r)
      PROVE  Alone(r) /\ request'[r].pc = "replace"
  <2>1. PICK e \in Emails, a \in Applications, old \in Applications \cup {None} :
          request' = [request EXCEPT ![r] = [IdleRequest EXCEPT
             !.pc = "replace", !.app = a, !.email = e, !.old = old]]
    BY <1>3 DEF CreateStart, Pending
  <2> DEFINE x == [IdleRequest EXCEPT !.pc = "replace", !.app = a, !.email = e, !.old = old]
  <2>2. x \in RequestState /\ x.pc = "replace"
    BY DEF IdleRequest, RequestState
  <2> HIDE DEF x
  <2> QED
    BY <1>1, <2>1, <2>2, PutAlone DEF x
<1>4. ASSUME DecideLock(r) PROVE Alone(r) /\ request'[r].pc = "locked"
  <2>1. PICK a \in Applications, decision \in Decided :
          request' = [request EXCEPT ![r] = [IdleRequest EXCEPT !.pc = "locked",
             !.app = a, !.email = application[a].email, !.decision = decision]]
    BY <1>4 DEF DecideLock
  <2> DEFINE x == [IdleRequest EXCEPT !.pc = "locked",
                     !.app = a, !.email = application[a].email, !.decision = decision]
  <2>2. x \in RequestState /\ x.pc = "locked"
    BY <1>1 DEF IdleRequest, RequestState, Typed, Application
  <2> HIDE DEF x
  <2> QED
    BY <1>1, <2>1, <2>2, PutAlone DEF x
<1>5. ASSUME SignUpCheck(r)
      PROVE  Alone(r) /\ request'[r].pc = "register" /\ request'[r].app = None
  <2>1. PICK e \in Emails :
          request' = [request EXCEPT ![r] = [IdleRequest EXCEPT !.pc = "register", !.email = e]]
    BY <1>5 DEF SignUpCheck
  <2> DEFINE x == [IdleRequest EXCEPT !.pc = "register", !.email = e]
  <2>2. x \in RequestState /\ x.pc = "register" /\ x.app = None
    BY DEF IdleRequest, RequestState
  <2> HIDE DEF x
  <2> QED
    BY <1>1, <2>1, <2>2, PutAlone DEF x
<1>6. ASSUME SetupLock(r)
      PROVE  \E a \in Applications :
               /\ Alone(r) /\ request'[r].pc = "taken" /\ request'[r].app = a
               /\ grant[a] = "open" /\ a \in reached /\ ~InvitationLocked(a)
  <2>1. PICK a \in reached :
          /\ grant[a] = "open" /\ ~InvitationLocked(a)
          /\ request' = [request EXCEPT ![r] = [IdleRequest EXCEPT !.pc = "taken",
             !.app = a, !.email = application[a].email]]
    BY <1>6 DEF SetupLock
  <2> DEFINE x == [IdleRequest EXCEPT !.pc = "taken", !.app = a, !.email = application[a].email]
  <2>2. a \in Applications
    BY <1>1 DEF Typed
  <2>3. x \in RequestState /\ x.pc = "taken" /\ x.app = a
    BY <1>1, <2>2 DEF IdleRequest, RequestState, Typed, Application
  <2> HIDE DEF x
  <2> QED
    BY <1>1, <2>1, <2>2, <2>3, PutAlone DEF x
<1>7. request[r].pc = "idle" /\ UNCHANGED <<application, setups, notices, crashes>>
  BY DEF CreateStart, DecideLock, SetupLock, SignUpCheck
<1> QED
  BY <1>3, <1>4, <1>5, <1>6, <1>7

LEMMA StartCase ==
  ASSUME IInv, CaseInv, NEW r \in Requests, Start(r)
  PROVE  CaseInv' /\ \A a \in Applications : UNCHANGED Case(a)!case
<1>1. Alone(r) /\ request[r].pc = "idle" /\ UNCHANGED <<application, setups, notices, crashes>>
  BY BegunAlone DEF Start
<1>2. request[r].pc \notin Carrying \cup Receipts
  BY <1>1 DEF Carrying, Receipts
<1>3. CASE CreateStart(r) \/ DecideLock(r)
  <2>1. request'[r].pc \in {"replace", "locked"}
    BY <1>3, BegunAlone
  <2>2. request'[r].pc \notin Carrying \cup Receipts \cup Entering \cup {"commit"}
    BY <2>1 DEF Carrying, Receipts, Entering
  <2> QED
    BY <1>1, <1>2, <2>2, FreeCase
<1>4. CASE SignUpCheck(r) \/ SetupLock(r)
  <2>1. /\ UNCHANGED <<application, grant, owner, delivery>>
        /\ UNCHANGED <<audited, reached, raced, crashes>>
    BY <1>1 DEF setups, notices
  <2>2. request'[r].pc \in {"register", "taken"}
    BY <1>4, BegunAlone
  <2>3. \A a \in Applications : Bound(r, Entering, a)' =>
          grant[a] = "open" /\ a \in reached /\ ~InvitationLocked(a)
    BY <1>4, BegunAlone, NoneIsNothing DEF Bound
  <2>4. request'[r].pc \notin Carrying \cup Receipts
    BY <2>2 DEF Carrying, Receipts
  <2>5. Entitled(r)'
    BY <2>1, <2>2, <2>3, <2>4 DEF Entitled, Bound
  <2>6. \A a \in Applications, q \in Requests \ {r} :
          Bound(r, Entering, a)' => ~Bound(q, Entering, a)
    BY <2>3, BoundsOf
  <2> QED
    BY <1>1, <1>2, <2>1, <2>4, <2>5, <2>6, QuietCase DEF Bound
<1> QED
  BY <1>3, <1>4 DEF Start

LEMMA CreateReplaceCase ==
  ASSUME IInv, CaseInv, NEW r \in Requests, CreateReplace(r)
  PROVE  CaseInv' /\ \A a \in Applications : UNCHANGED Case(a)!case
<1>1. request[r] \in RequestState /\ request[r].pc = "replace"
  BY Parts DEF Typed, CreateReplace
<1>2. PICK old \in Applications \cup {None} :
        request' = [request EXCEPT ![r] = [request[r] EXCEPT !.pc = "insert", !.old = old]]
  <2>1. request[r].old \in Applications \cup {None}
    BY <1>1 DEF RequestState
  <2> QED
    BY <2>1, Parts DEF CreateReplace, Typed
<1> DEFINE x == [request[r] EXCEPT !.pc = "insert", !.old = old]
<1>3. x \in RequestState /\ x.pc = "insert"
  BY <1>1 DEF RequestState
<1> HIDE DEF x
<1>4. Alone(r) /\ request'[r].pc = "insert"
  BY <1>2, <1>3, PutAlone, Parts DEF x
<1> QED
  BY <1>1, <1>4, FreeCase DEF CreateReplace, Carrying, Receipts, Entering

LEMMA CreateAbortsCase ==
  ASSUME IInv, CaseInv, NEW r \in Requests, CreateAborts(r)
  PROVE  CaseInv' /\ \A a \in Applications : UNCHANGED Case(a)!case
<1>1. Ends(r) /\ request[r].pc = "insert"
  BY Parts, FinishedEnds DEF CreateAborts
<1> QED
  BY <1>1, QuietEndsCase DEF CreateAborts, Carrying, Receipts, setups, notices

LEMMA ReceiptMailedCase ==
  ASSUME IInv, CaseInv, NEW r \in Requests, ReceiptMailed(r)
  PROVE  CaseInv' /\ \A a \in Applications : UNCHANGED Case(a)!case
<1>1. request[r] \in RequestState /\ request[r].pc = "receipt"
  BY Parts DEF Typed, ReceiptMailed
<1>2. PICK sent \in BOOLEAN :
        request' = [request EXCEPT ![r] = [request[r] EXCEPT !.pc = "receipted", !.sent = sent]]
  BY Parts DEF ReceiptMailed, Typed
<1> DEFINE x == [request[r] EXCEPT !.pc = "receipted", !.sent = sent]
<1>3. x \in RequestState /\ x.pc = "receipted" /\ x.app = request[r].app
  BY <1>1 DEF RequestState
<1> HIDE DEF x
<1>4. Alone(r) /\ request'[r].pc = "receipted" /\ request'[r].app = request[r].app
  BY <1>2, <1>3, PutAlone, Parts DEF x
<1>5. /\ UNCHANGED <<application, grant, owner, delivery>>
      /\ UNCHANGED <<audited, reached, raced, crashes>>
  BY DEF ReceiptMailed, setups, notices
<1>6. Entitled(r)'
  BY <1>4 DEF Entitled, Bound, Carrying, Entering
<1>7. \A a \in Applications, duty \in {Carrying, Receipts} : Bound(r, duty, a)' <=> Bound(r, duty, a)
  BY <1>1, <1>4 DEF Bound, Carrying, Receipts
<1>8. \A a \in Applications : ~Bound(r, Entering, a)'
  BY <1>4 DEF Bound, Entering
<1> QED
  BY <1>4, <1>5, <1>6, <1>7, <1>8, QuietCase

LEMMA DecideReadCase ==
  ASSUME IInv, CaseInv, NEW r \in Requests, DecideRead(r)
  PROVE  CaseInv' /\ \A a \in Applications : UNCHANGED Case(a)!case
<1>1. request[r] \in RequestState /\ request[r].pc = "locked"
  BY Parts DEF Typed, DecideRead
<1>2. PICK give \in {"none", "existing", "open"} :
        /\ request' = [request EXCEPT ![r] = [request[r] EXCEPT !.pc = "commit", !.give = give]]
        /\ request[r].decision = "APPROVED" => give # "none"
  BY Parts DEF DecideRead, Typed
<1> DEFINE x == [request[r] EXCEPT !.pc = "commit", !.give = give]
<1>3. x \in RequestState /\ x.pc = "commit" /\ x.decision = request[r].decision /\ x.give = give
  BY <1>1 DEF RequestState
<1> HIDE DEF x
<1>4. Alone(r) /\ request'[r] = x
  BY <1>2, <1>3, PutAlone, Parts DEF x
<1>5. /\ UNCHANGED <<application, grant, owner, delivery>>
      /\ UNCHANGED <<audited, reached, raced, crashes>>
  BY DEF DecideRead, setups, notices
<1>6. Entitled(r)'
  BY <1>2, <1>3, <1>4 DEF Entitled, Bound, Carrying, Entering
<1>7. \A a \in Applications, duty \in {Carrying, Receipts} : Bound(r, duty, a)' <=> Bound(r, duty, a)
  BY <1>1, <1>3, <1>4 DEF Bound, Carrying, Receipts
<1>8. \A a \in Applications : ~Bound(r, Entering, a)'
  BY <1>3, <1>4 DEF Bound, Entering
<1> QED
  BY <1>4, <1>5, <1>6, <1>7, <1>8, QuietCase

\* A request that goes on with the invitation it has taken.
LEMMA EnterCase ==
  ASSUME CaseInv, NEW r \in Requests, NEW pc \in Entering, Moves(r, pc),
         request[r].pc \in Entering, UNCHANGED <<application, setups, notices, crashes>>
  PROVE  CaseInv' /\ \A a \in Applications : UNCHANGED Case(a)!case
<1>1. /\ UNCHANGED <<application, grant, owner, delivery>>
      /\ UNCHANGED <<audited, reached, raced, crashes>>
  BY DEF setups, notices
<1>2. /\ request'[r].pc = pc /\ pc \notin Carrying \cup Receipts \cup {"commit"}
      /\ request[r].pc \notin Carrying \cup Receipts /\ Alone(r)
  BY DEF Moves, Entering, Carrying, Receipts
<1>3. \A a \in Applications : Bound(r, Entering, a)' => Bound(r, Entering, a)
  BY DEF Moves, Bound
<1>4. Entitled(r)'
  BY <1>1, <1>2, <1>3 DEF CaseInv, Entitled, Bound
<1>5. \A a \in Applications, q \in Requests \ {r} :
        Bound(r, Entering, a)' => ~Bound(q, Entering, a)
  BY <1>3, SoleBound, Duty
<1> QED
  BY <1>1, <1>2, <1>4, <1>5, QuietCase DEF Bound

LEMMA SetupCheckCase ==
  ASSUME IInv, CaseInv, NEW r \in Requests, SetupCheck(r)
  PROVE  CaseInv' /\ \A a \in Applications : UNCHANGED Case(a)!case
<1>1. request[r].pc = "taken" /\ Typed
  BY Parts DEF SetupCheck
<1>2. UNCHANGED <<application, setups, notices, crashes>>
  BY DEF SetupCheck
<1>3. CASE Registered(request[r].email)
  <2>1. Finished(r)
    BY <1>3, <1>1 DEF SetupCheck, Finished, Typed
  <2> QED
    BY <1>1, <1>2, <2>1, FinishedEnds, QuietEndsCase DEF Carrying, Receipts, setups, notices
<1>4. CASE ~Registered(request[r].email)
  <2>1. Goto(r, "register")
    BY <1>4, <1>1 DEF SetupCheck, Goto, Typed
  <2> QED
    BY <1>1, <1>2, <2>1, GotoMoves, EnterCase DEF PcSet, Entering
<1> QED
  BY <1>3, <1>4

LEMMA RegisterCase ==
  ASSUME IInv, CaseInv, NEW r \in Requests, Register(r)
  PROVE  CaseInv' /\ \A a \in Applications : UNCHANGED Case(a)!case
<1>1. request[r].pc = "register" /\ Typed
  BY Parts DEF Register
<1>2. UNCHANGED <<application, setups, notices, crashes>>
  BY DEF Register
<1>3. CASE Registered(request[r].email)
  <2>1. Finished(r)
    BY <1>3 DEF Register
  <2> QED
    BY <1>1, <1>2, <2>1, FinishedEnds, QuietEndsCase DEF Carrying, Receipts, setups, notices
<1>4. CASE ~Registered(request[r].email)
  <2>1. Goto(r, "registered")
    BY <1>4 DEF Register
  <2> QED
    BY <1>1, <1>2, <2>1, GotoMoves, EnterCase DEF PcSet, Entering
<1> QED
  BY <1>3, <1>4

LEMMA SignUpCommitCase ==
  ASSUME IInv, CaseInv, NEW r \in Requests, SignUpCommit(r)
  PROVE  CaseInv' /\ \A a \in Applications : UNCHANGED Case(a)!case
<1>1. Ends(r) /\ request[r].pc = "registered"
  BY Parts, FinishedEnds DEF SignUpCommit
<1> QED
  BY <1>1, QuietEndsCase DEF SignUpCommit, Carrying, Receipts, notices

----------------------------------------------------------------------------
(* Requests that carry a decision out.                                     *)

\* A request that goes on carrying out the decision it has made.
LEMMA CarryCase ==
  ASSUME CaseInv, NEW r \in Requests, NEW pc \in Carrying, Moves(r, pc),
         request'[r].give = request[r].give, request[r].pc \in Carrying,
         UNCHANGED <<application, grant, raced>>, reached \subseteq reached'
  PROVE  /\ CaseInv'
         /\ \A a \in Applications : Deciding(a)' = Deciding(a) /\ Receiving(a)' = Receiving(a)
<1>1. /\ pc \notin Receipts \cup Entering \cup {"commit"} /\ request[r].pc \notin Receipts
      /\ Alone(r) /\ request'[r].pc = pc /\ request'[r].app = request[r].app
  BY DEF Moves, Carrying, Receipts, Entering
<1>2. \A a \in Applications : /\ Bound(r, Carrying, a)' <=> Bound(r, Carrying, a)
                              /\ Bound(r, Receipts, a)' <=> Bound(r, Receipts, a)
                              /\ ~Bound(r, Entering, a)'
  BY <1>1 DEF Bound
<1>3. \A p, q \in Requests : p # q => Sole(p, q)'
  BY <1>1, <1>2, SoleStep, SoleBound DEF Duties
<1>4. Entitled(r)'
  BY <1>1, <1>2 DEF CaseInv, Entitled, Bound
<1>5. \A q \in Requests : Entitled(q)'
  BY <1>1, <1>4, OthersEntitled
<1>6. \A a \in raced' : application'[a].state \in Decided
  BY DEF CaseInv
<1>7. \A a \in Applications : Deciding(a)' = Deciding(a) /\ Receiving(a)' = Receiving(a)
  BY <1>1, <1>2, SameDuties, TruthValues
<1> QED
  BY <1>3, <1>5, <1>6, <1>7 DEF CaseInv

LEMMA DecideAuditCase ==
  ASSUME IInv, CaseInv, NEW r \in Requests, DecideAudit(r)
  PROVE  CaseInv' /\ \A a \in Applications : Case(a)!Audit \/ UNCHANGED Case(a)!case
<1>1. /\ request[r].pc = "audit" /\ Typed /\ Goto(r, "notify")
      /\ request[r].app \in Applications /\ audited' = audited \cup {request[r].app}
      /\ UNCHANGED <<application, grant, owner, identities>>
      /\ UNCHANGED <<delivery, reached, raced, crashes>>
  BY Parts, RowOf DEF DecideAudit, setups
<1>2. Moves(r, "notify") /\ request'[r].give = request[r].give
  BY <1>1, GotoMoves DEF PcSet
<1>3. /\ CaseInv'
      /\ \A a \in Applications : Deciding(a)' = Deciding(a) /\ Receiving(a)' = Receiving(a)
  BY <1>1, <1>2, CarryCase DEF Carrying
<1>4. ASSUME NEW a \in Applications PROVE Case(a)!Audit \/ UNCHANGED Case(a)!case
  <2>1. CASE a # request[r].app
    BY <1>1, <1>3, <2>1, SameCase
  <2>2. CASE a = request[r].app
    <3>1. Deciding(a)
      BY <1>1, <2>2 DEF Deciding
    <3>2. (a \in audited)' = TRUE
      BY <1>1, <2>2
    <3>3. (crashes > 0)' = (crashes > 0)
      BY <1>1
    <3>4. (a \in reached)' = (a \in reached) /\ (a \in raced)' = (a \in raced)
      BY <1>1
    <3> QED
      BY <1>1, <1>3, <3>1, <3>2, <3>3, <3>4, Zenon DEF Case!Audit
  <2> QED
    BY <2>1, <2>2
<1> QED
  BY <1>3, <1>4

LEMMA DecideMailedCase ==
  ASSUME IInv, CaseInv, NEW r \in Requests, DecideMailed(r)
  PROVE  CaseInv' /\ \A a \in Applications : Case(a)!HandOut \/ UNCHANGED Case(a)!case
<1>1. /\ request[r].pc = "notify" /\ Typed /\ Informed(r) /\ request[r] \in RequestState
      /\ request[r].app \in Applications
      /\ UNCHANGED <<application, grant, owner, identities>>
      /\ UNCHANGED <<delivery, audited, raced, crashes>>
  BY Parts, RowOf DEF DecideMailed, setups
<1>2. PICK sent \in BOOLEAN :
        /\ \/ reached' = reached
           \/ HasLink(r) /\ reached' = reached \cup {request[r].app}
        /\ request' = [request EXCEPT ![r] = [request[r] EXCEPT !.pc = "record", !.sent = sent]]
  BY <1>1 DEF DecideMailed, Typed
<1> DEFINE x == [request[r] EXCEPT !.pc = "record", !.sent = sent]
<1>3. /\ x \in RequestState /\ x.pc = "record" /\ x.decision = request[r].decision
      /\ x.app = request[r].app /\ x.email = request[r].email /\ x.give = request[r].give
  BY <1>1 DEF RequestState
<1> HIDE DEF x
<1>4. Moves(r, "record") /\ request'[r].give = request[r].give
  BY <1>1, <1>2, <1>3, PutAlone DEF x, Moves
<1>5. /\ CaseInv'
      /\ \A a \in Applications : Deciding(a)' = Deciding(a) /\ Receiving(a)' = Receiving(a)
  BY <1>1, <1>2, <1>4, CarryCase DEF Carrying
<1>6. ASSUME NEW a \in Applications PROVE Case(a)!HandOut \/ UNCHANGED Case(a)!case
  <2>1. CASE a # request[r].app \/ reached' = reached
    <3>1. a \in reached' <=> a \in reached
      BY <1>2, <2>1
    <3> QED
      BY <1>1, <1>5, <3>1, SameCase
  <2>2. CASE a = request[r].app /\ reached' # reached
    <3>1. Deciding(a)
      BY <1>1, <2>2 DEF Deciding
    <3>2. a \in audited
      BY <1>1, <2>2 DEF Informed, DecidingKnows, Carrying
    <3>3. Case(a)!HasLink
      BY <1>1, <1>2, <2>2 DEF CaseInv, Entitled, Bound, Carrying, HasLink, Case!HasLink
    <3>4. (a \in reached)' = TRUE
      BY <1>2, <2>2
    <3>5. (crashes > 0)' = (crashes > 0)
      BY <1>1
    <3>6. (a \in audited)' = (a \in audited) /\ (a \in raced)' = (a \in raced)
      BY <1>1
    <3> QED
      BY <1>1, <1>5, <3>1, <3>2, <3>3, <3>4, <3>5, <3>6, Zenon DEF Case!HandOut
  <2> QED
    BY <2>1, <2>2
<1> QED
  BY <1>5, <1>6

LEMMA DecideRecordedCase ==
  ASSUME IInv, CaseInv, NEW r \in Requests, DecideRecorded(r)
  PROVE  CaseInv' /\ \A a \in Applications : Case(a)!Notify \/ UNCHANGED Case(a)!case
<1>1. /\ request[r].pc = "record" /\ Typed /\ Informed(r) /\ Goto(r, "respond")
      /\ request[r].app \in Applications /\ request[r].sent \in BOOLEAN
      /\ delivery' = [delivery EXCEPT ![request[r].app] = <<"DECIDED", request[r].sent>>]
      /\ UNCHANGED <<application, grant, owner, identities>>
      /\ UNCHANGED <<audited, reached, raced, crashes>>
  BY Parts, RowOf DEF DecideRecorded, setups, RequestState
<1>2. Moves(r, "respond") /\ request'[r].give = request[r].give
  BY <1>1, GotoMoves DEF PcSet
<1>3. /\ CaseInv'
      /\ \A a \in Applications : Deciding(a)' = Deciding(a) /\ Receiving(a)' = Receiving(a)
  BY <1>1, <1>2, CarryCase DEF Carrying
<1>4. ASSUME NEW a \in Applications PROVE Case(a)!Notify \/ UNCHANGED Case(a)!case
  <2>1. CASE a # request[r].app
    <3>1. delivery'[a] = delivery[a]
      BY <1>1, <2>1 DEF Typed
    <3> QED
      BY <1>1, <1>3, <3>1, SameCase
  <2>2. CASE a = request[r].app
    <3>1. Deciding(a)
      BY <1>1, <2>2 DEF Deciding
    <3>2. a \in audited
      BY <1>1, <2>2 DEF Informed, DecidingKnows, Carrying
    <3>3. delivery'[a] = <<"DECIDED", request[r].sent>>
      BY <1>1, <2>2 DEF Typed
    <3>4. \E sent \in BOOLEAN : delivery[a]' = <<"DECIDED", sent>>
      BY <1>1, <3>3
    <3>5. (crashes > 0)' = (crashes > 0)
      BY <1>1
    <3>6. /\ (a \in audited)' = (a \in audited) /\ (a \in raced)' = (a \in raced)
          /\ (a \in reached)' = (a \in reached)
      BY <1>1
    <3> QED
      BY <1>1, <1>3, <3>1, <3>2, <3>4, <3>5, <3>6, Zenon DEF Case!Notify
  <2> QED
    BY <2>1, <2>2
<1> QED
  BY <1>3, <1>4

LEMMA EndInv ==
  ASSUME CaseInv, NEW r \in Requests, Ends(r),
         UNCHANGED <<application, grant, raced>>, reached \subseteq reached'
  PROVE  CaseInv'
<1>1. Alone(r) /\ \A a \in Applications, duty \in Duties : ~Bound(r, duty, a)'
  BY EndsBound DEF Ends
<1>2. \A q \in Requests : Entitled(q)'
  BY <1>1, OthersEntitled, EndsEntitled
<1>3. \A p, q \in Requests : p # q => Sole(p, q)'
  BY <1>1, SoleStep
<1>4. \A a \in raced' : application'[a].state \in Decided
  BY DEF CaseInv
<1> QED
  BY <1>2, <1>3, <1>4 DEF CaseInv

\* What a request leaves when it is over: of its own application nobody does any more what
\* it did.
LEMMA EndDuties ==
  ASSUME CaseInv, NEW r \in Requests, Ends(r), NEW a \in Applications
  PROVE  /\ Deciding(a)' = (Deciding(a) /\ ~Bound(r, Carrying, a))
         /\ Receiving(a)' = (Receiving(a) /\ ~Bound(r, Receipts, a))
<1>1. \A q \in Requests \ {r}, duty \in Duties : Bound(q, duty, a)' <=> Bound(q, duty, a)
  BY DEF Ends, Alone, Bound
<1>2. \A duty \in Duties : ~Bound(r, duty, a)'
  BY EndsBound
<1>3. \A duty \in Duties : Bound(r, duty, a) => \A q \in Requests \ {r} : ~Bound(q, duty, a)
  BY SoleBound
<1>4. /\ Deciding(a)' <=> (Deciding(a) /\ ~Bound(r, Carrying, a))
      /\ Receiving(a)' <=> (Receiving(a) /\ ~Bound(r, Receipts, a))
  BY <1>1, <1>2, <1>3, BoundsOf, BoundsAfter, Duty
<1> QED
  BY <1>4, TruthValues

LEMMA DecideAnsweredCase ==
  ASSUME IInv, CaseInv, NEW r \in Requests, DecideAnswered(r)
  PROVE  CaseInv' /\ \A a \in Applications : Case(a)!Finish \/ UNCHANGED Case(a)!case
<1>1. /\ request[r].pc = "respond" /\ Typed /\ Informed(r) /\ Finished(r)
      /\ request[r] \in RequestState /\ request[r].app \in Applications
      /\ reached' = IF HasLink(r) THEN reached \cup {request[r].app} ELSE reached
      /\ UNCHANGED <<application, grant, owner, identities>>
      /\ UNCHANGED <<delivery, audited, raced, crashes>>
  BY Parts, RowOf DEF DecideAnswered, setups
<1>2. Ends(r) /\ reached \subseteq reached'
  BY <1>1, FinishedEnds
<1>3. CaseInv'
  BY <1>1, <1>2, EndInv
<1>4. ASSUME NEW a \in Applications PROVE Case(a)!Finish \/ UNCHANGED Case(a)!case
  <2>1. Receiving(a)' = Receiving(a)
    <3>1. ~Bound(r, Receipts, a)
      BY <1>1 DEF Bound, Receipts
    <3> QED
      BY <1>2, <3>1, EndDuties, TruthValues
  <2>2. CASE a # request[r].app
    <3>1. Deciding(a)' = Deciding(a) /\ (a \in reached' <=> a \in reached)
      BY <1>1, <1>2, <2>2, EndDuties, TruthValues DEF Bound
    <3> QED
      BY <1>1, <2>1, <3>1, SameCase
  <2>3. CASE a = request[r].app
    <3>1. Bound(r, Carrying, a)
      BY <1>1, <2>3 DEF Bound, Carrying
    <3>2. Deciding(a) /\ Deciding(a)' = FALSE
      BY <1>2, <3>1, EndDuties, BoundsOf
    <3>3. a \in audited /\ (delivery[a][1] = "DECIDED" \/ a \in raced)
      BY <1>1, <2>3 DEF Informed, DecidingKnows, Carrying, DecisionShown
    <3>4. (a \in reached)' = (a \in reached \/ Case(a)!HasLink)
      <4>1. HasLink(r) <=> Case(a)!HasLink
        BY <1>1, <2>3, <3>1 DEF CaseInv, Entitled, Informed, DecidingKnows, Carrying, HasLink,
           Case!HasLink
      <4>2. a \in reached' <=> a \in reached \/ HasLink(r)
        BY <1>1, <2>3
      <4> QED
        BY <4>1, <4>2
    <3>5. (crashes > 0)' = (crashes > 0)
      BY <1>1
    <3>6. (a \in audited)' = (a \in audited) /\ (a \in raced)' = (a \in raced)
      BY <1>1
    <3> QED
      BY <1>1, <2>1, <3>2, <3>3, <3>4, <3>5, <3>6, Zenon DEF Case!Finish
  <2> QED
    BY <2>2, <2>3
<1> QED
  BY <1>3, <1>4

LEMMA ReceiptRecordedCase ==
  ASSUME IInv, CaseInv, NEW r \in Requests, ReceiptRecorded(r)
  PROVE  CaseInv' /\ \A a \in Applications : Case(a)!Receipt \/ UNCHANGED Case(a)!case
<1>1. /\ request[r].pc = "receipted" /\ Typed /\ Finished(r)
      /\ request[r].app \in Applications /\ request[r].sent \in BOOLEAN
      /\ delivery' = [delivery EXCEPT ![request[r].app] = <<"RECEIVED", request[r].sent>>]
      /\ UNCHANGED <<application, grant, owner, identities>>
      /\ UNCHANGED <<audited, reached, raced, crashes>>
  BY Parts, RowOf DEF ReceiptRecorded, setups, RequestState
<1>2. Ends(r)
  BY <1>1, FinishedEnds
<1>3. CaseInv'
  BY <1>1, <1>2, EndInv
<1>4. ASSUME NEW a \in Applications PROVE Case(a)!Receipt \/ UNCHANGED Case(a)!case
  <2>1. Deciding(a)' = Deciding(a)
    <3>1. ~Bound(r, Carrying, a)
      BY <1>1 DEF Bound, Carrying
    <3> QED
      BY <1>2, <3>1, EndDuties, TruthValues
  <2>2. CASE a # request[r].app
    <3>1. Receiving(a)' = Receiving(a) /\ delivery'[a] = delivery[a]
      BY <1>1, <1>2, <2>2, EndDuties, TruthValues DEF Bound, Typed
    <3> QED
      BY <1>1, <2>1, <3>1, SameCase
  <2>3. CASE a = request[r].app
    <3>1. Bound(r, Receipts, a)
      BY <1>1, <2>3 DEF Bound, Receipts
    <3>2. Receiving(a) /\ Receiving(a)' = FALSE
      BY <1>2, <3>1, EndDuties, BoundsOf
    <3>3. delivery'[a] = <<"RECEIVED", request[r].sent>>
      BY <1>1, <2>3 DEF Typed
    <3>4. \E sent \in BOOLEAN : delivery[a]' = <<"RECEIVED", sent>>
      BY <1>1, <3>3
    <3>5. (crashes > 0)' = (crashes > 0)
      BY <1>1
    <3>6. /\ (a \in audited)' = (a \in audited) /\ (a \in raced)' = (a \in raced)
          /\ (a \in reached)' = (a \in reached)
      BY <1>1
    <3> QED
      BY <1>1, <2>1, <3>2, <3>4, <3>5, <3>6, Zenon DEF Case!Receipt
  <2> QED
    BY <2>2, <2>3
<1> QED
  BY <1>3, <1>4

LEMMA CrashCase ==
  ASSUME IInv, CaseInv, NEW r \in Requests, Crash(r)
  PROVE  CaseInv' /\ \A a \in Applications : Case(a)!Die
<1>1. Ends(r) /\ Typed
  BY Parts, FinishedEnds DEF Crash
<1>2. /\ UNCHANGED <<application, grant, owner, identities>>
      /\ UNCHANGED <<delivery, audited, reached, raced>>
  BY DEF Crash, setups, notices
<1>3. (crashes > 0)' = TRUE
  BY <1>1 DEF Crash, Typed
<1>4. CaseInv'
  BY <1>1, <1>2, EndInv
<1>5. ASSUME NEW a \in Applications PROVE Case(a)!Die
  <2>1. Deciding(a)' \in {Deciding(a), FALSE} /\ Receiving(a)' \in {Receiving(a), FALSE}
    <3>1. /\ Deciding(a)' <=> (Deciding(a) /\ ~Bound(r, Carrying, a))
          /\ Receiving(a)' <=> (Receiving(a) /\ ~Bound(r, Receipts, a))
      BY <1>1, EndDuties
    <3> QED
      BY <3>1, TruthValues
  <2>2. /\ (a \in audited)' = (a \in audited) /\ (a \in raced)' = (a \in raced)
        /\ (a \in reached)' = (a \in reached)
    BY <1>2
  <2> QED
    BY <1>2, <1>3, <2>1, <2>2, Zenon DEF Case!Die
<1> QED
  BY <1>4, <1>5

----------------------------------------------------------------------------
(* Accounts and workspaces.                                                *)

LEMMA ExpireCase ==
  ASSUME IInv, CaseInv, NEW x \in Applications, Expire(x)
  PROVE  CaseInv' /\ \A a \in Applications : Case(a)!Expire \/ UNCHANGED Case(a)!case
<1>1. /\ Typed /\ grant[x] = "open" /\ grant' = [grant EXCEPT ![x] = "expired"]
      /\ UNCHANGED <<application, owner, identities, request, crashes>>
      /\ UNCHANGED <<delivery, audited, reached, raced>>
  BY Parts DEF Expire, notices
<1>2. grant'[x] = "expired" /\ \A a \in Applications \ {x} : grant'[a] = grant[a]
  BY <1>1 DEF Typed
<1>3. CaseInv'
  <2>1. \A r \in Requests : Entitled(r)'
    BY <1>1, <1>2 DEF CaseInv, Entitled, Bound
  <2>2. \A r, q \in Requests : r # q => Sole(r, q)'
    BY <1>1 DEF CaseInv, Sole, Bound
  <2> QED
    BY <1>1, <2>1, <2>2 DEF CaseInv
<1>4. ASSUME NEW a \in Applications PROVE Case(a)!Expire \/ UNCHANGED Case(a)!case
  <2>1. Deciding(a)' = Deciding(a) /\ Receiving(a)' = Receiving(a)
    BY <1>1, Zenon DEF Deciding, Receiving
  <2>2. CASE a # x
    BY <1>1, <1>2, <2>1, <2>2, SameCase
  <2>3. CASE a = x
    <3>1. grant[a]' = "expired"
      BY <1>2, <2>3
    <3>2. (crashes > 0)' = (crashes > 0)
      BY <1>1
    <3>3. /\ (a \in audited)' = (a \in audited) /\ (a \in raced)' = (a \in raced)
          /\ (a \in reached)' = (a \in reached)
      BY <1>1
    <3> QED
      BY <1>1, <2>1, <2>3, <3>1, <3>2, <3>3, Zenon DEF Case!Expire
  <2> QED
    BY <2>2, <2>3
<1> QED
  BY <1>3, <1>4

\* An owner comes in with a link that nobody else is using: others lose nothing of theirs.
LEMMA OwnCase ==
  ASSUME IInv, NEW x \in Applications, NEW e \in Emails,
         x \in reached, grant[x] \in {"open", "expired"},
         grant' = [grant EXCEPT ![x] = "spent"], owner' = [owner EXCEPT ![x] = e],
         UNCHANGED <<application, crashes>>, UNCHANGED <<delivery, audited, reached, raced>>,
         \A a \in Applications : Deciding(a)' = Deciding(a) /\ Receiving(a)' = Receiving(a)
  PROVE  \A a \in Applications : Case(a)!Own \/ UNCHANGED Case(a)!case
<1>1. Typed /\ Consistent(x)
  BY Parts
<1>2. /\ grant'[x] = "spent" /\ owner'[x] = e /\ owner[x] = None
      /\ \A a \in Applications \ {x} : grant'[a] = grant[a] /\ owner'[a] = owner[a]
  BY <1>1 DEF Typed, Consistent
<1> SUFFICES ASSUME NEW a \in Applications PROVE Case(a)!Own \/ UNCHANGED Case(a)!case
  OBVIOUS
<1>3. CASE a # x
  BY <1>2, <1>3, SameCase
<1>4. CASE a = x
  <2>1. grant[a]' = "spent" /\ owner[a]' \in Emails
    BY <1>2, <1>4
  <2>2. (crashes > 0)' = (crashes > 0)
    OBVIOUS
  <2>3. /\ (a \in audited)' = (a \in audited) /\ (a \in raced)' = (a \in raced)
        /\ (a \in reached)' = (a \in reached)
    OBVIOUS
  <2> QED
    BY <1>2, <1>4, <2>1, <2>2, <2>3, Zenon DEF Case!Own
<1> QED
  BY <1>3, <1>4

\* Whoever is not using the link keeps what it is entitled to.
LEMMA SpentEntitled ==
  ASSUME Typed, NEW x \in Applications, grant' = [grant EXCEPT ![x] = "spent"], UNCHANGED reached,
         NEW q \in Requests, Entitled(q), request'[q] = request[q], ~Bound(q, Entering, x)
  PROVE  Entitled(q)'
<1>1. grant'[x] = "spent" /\ \A a \in Applications \ {x} : grant'[a] = grant[a]
  BY DEF Typed
<1>2. ASSUME NEW a \in Applications
      PROVE  /\ Bound(q, Carrying, a)' /\ request'[q].give = "open" =>
                  grant'[a] \notin {"none", "existing"}
             /\ Bound(q, Entering, a)' => grant'[a] \in {"open", "expired"} /\ a \in reached'
  BY <1>1 DEF Entitled, Bound
<1> QED
  BY <1>2 DEF Entitled, Bound

LEMMA SetupCommitCase ==
  ASSUME IInv, CaseInv, NEW r \in Requests, SetupCommit(r)
  PROVE  CaseInv' /\ \A a \in Applications : Case(a)!Own \/ UNCHANGED Case(a)!case
<1>1. /\ Typed /\ Ends(r) /\ request[r].pc = "registered" /\ request[r].app # None
      /\ UNCHANGED <<application, crashes>> /\ UNCHANGED <<delivery, audited, reached, raced>>
  BY Parts, FinishedEnds DEF SetupCommit, notices
<1>2. PICK x \in Applications : x = request[r].app
  BY <1>1, RowOf DEF RequestState
<1>3. PICK e \in Emails : e = request[r].email
  BY <1>1, RowOf
<1>4. grant' = [grant EXCEPT ![x] = "spent"] /\ owner' = [owner EXCEPT ![x] = e]
  BY <1>2, <1>3 DEF SetupCommit
<1>5. Bound(r, Entering, x)
  BY <1>1, <1>2 DEF Bound, Entering
<1>6. grant[x] \in {"open", "expired"} /\ x \in reached
  BY <1>5 DEF CaseInv, Entitled
<1>7. \A a \in Applications : Deciding(a)' = Deciding(a) /\ Receiving(a)' = Receiving(a)
  <2>1. \A a \in Applications : ~Bound(r, Carrying, a) /\ ~Bound(r, Receipts, a)
    BY <1>1 DEF Bound, Carrying, Receipts
  <2> QED
    BY <1>1, <2>1, EndDuties, TruthValues
<1>8. CaseInv'
  <2>1. ASSUME NEW q \in Requests \ {r} PROVE Entitled(q)'
    <3>1. Entitled(q) /\ request'[q] = request[q] /\ ~Bound(q, Entering, x)
      BY <1>1, <1>5, SoleBound, Duty DEF CaseInv, Ends, Alone
    <3> QED
      BY <1>1, <1>4, <3>1, SpentEntitled
  <2>2. \A q \in Requests : Entitled(q)'
    BY <1>1, <2>1, EndsEntitled
  <2>3. \A p, q \in Requests : p # q => Sole(p, q)'
    BY <1>1, SoleStep, EndsBound DEF Ends
  <2> QED
    BY <1>1, <2>2, <2>3 DEF CaseInv
<1> QED
  BY <1>1, <1>4, <1>6, <1>7, <1>8, OwnCase

LEMMA TeamAcceptCase ==
  ASSUME IInv, CaseInv, TeamAccept
  PROVE  CaseInv' /\ \A a \in Applications : Case(a)!Own \/ UNCHANGED Case(a)!case
<1>1. PICK x \in reached, e \in Emails :
        /\ grant[x] = "open" /\ ~InvitationLocked(x)
        /\ grant' = [grant EXCEPT ![x] = "spent"] /\ owner' = [owner EXCEPT ![x] = e]
        /\ UNCHANGED <<application, identities, notices, request, crashes>>
  BY DEF TeamAccept
<1>2. Typed /\ x \in Applications /\ UNCHANGED <<delivery, audited, reached, raced>>
  BY <1>1, Parts DEF Typed, notices
<1>3. \A a \in Applications : Deciding(a)' = Deciding(a) /\ Receiving(a)' = Receiving(a)
  BY <1>1, Zenon DEF Deciding, Receiving
<1>4. CaseInv'
  <2>1. ASSUME NEW q \in Requests PROVE Entitled(q)'
    <3>1. Entitled(q) /\ request'[q] = request[q] /\ ~Bound(q, Entering, x)
      BY <1>1, <1>2, BoundsOf DEF CaseInv
    <3> QED
      BY <1>1, <1>2, <3>1, SpentEntitled
  <2>2. \A r, q \in Requests : r # q => Sole(r, q)'
    BY <1>1 DEF CaseInv, Sole, Bound
  <2> QED
    BY <1>1, <1>2, <2>1, <2>2 DEF CaseInv
<1> QED
  BY <1>1, <1>2, <1>3, <1>4, OwnCase

----------------------------------------------------------------------------
(* The commits of a pilot request and of the decision on it.               *)

LEMMA CreateCommitCase ==
  ASSUME IInv, CaseInv, NEW r \in Requests, CreateCommit(r)
  PROVE  /\ CaseInv'
         /\ \A a \in Applications :
              Case(a)!Submit \/ Case(a)!Replace \/ UNCHANGED Case(a)!case
<1>1. /\ request[r].pc = "insert" /\ Informed(r) /\ Typed /\ Goto(r, "receipt")
      /\ request[r].app \in Applications /\ request[r].email \in Emails
      /\ UNCHANGED <<grant, owner, identities>>
      /\ UNCHANGED <<delivery, audited, reached, raced, crashes>>
  BY Parts, RowOf DEF CreateCommit, setups, notices
<1>2. Moves(r, "receipt")
  BY <1>1, GotoMoves DEF PcSet
<1>3. PICK x \in Applications : x = request[r].app
  BY <1>1
<1>4. PICK old \in Applications \cup {None} : old = request[r].old
  BY RowOf DEF RequestState
<1>5. /\ application[x] = Unused
      /\ old # None => application[old].state = "PENDING"
  BY <1>1, <1>3, <1>4 DEF Informed, CreatingKnows, Creating
<1>6. application' = [b \in Applications |->
        IF b = x THEN [state |-> "PENDING", email |-> request[r].email]
        ELSE IF b = old THEN [application[b] EXCEPT !.state = "REPLACED"]
        ELSE application[b]]
  BY <1>3, <1>4 DEF CreateCommit
<1>7. /\ application'[x].state = "PENDING" /\ application'[x].email = request[r].email
      /\ \A b \in Applications \ {x, old} : application'[b] = application[b]
      /\ old # None => /\ old # x /\ application'[old].state = "REPLACED"
                       /\ application'[old].email = application[old].email
  BY <1>1, <1>5, <1>6, NoneIsNothing DEF Typed, Application, Unused
<1>8. /\ Alone(r) /\ request'[r].pc = "receipt" /\ request'[r].app = x
      /\ \A a \in Applications, duty \in Duties :
           /\ ~Bound(r, duty, a)
           /\ Bound(r, duty, a)' <=> duty = Receipts /\ a = x
  <2>1. /\ Alone(r) /\ request'[r].pc = "receipt" /\ request'[r].app = x
    BY <1>2, <1>3 DEF Moves
  <2>2. \A duty \in Duties : request[r].pc \notin duty
    BY <1>1 DEF Duties, Carrying, Receipts, Entering
  <2>3. \A duty \in Duties : "receipt" \in duty <=> duty = Receipts
    BY DEF Duties, Carrying, Receipts, Entering
  <2> QED
    BY <2>1, <2>2, <2>3 DEF Bound
<1>9. \A q \in Requests \ {r} : request[q].app # x
  BY <1>1, <1>3, Parts DEF Apart, Creating
<1>10. CaseInv'
  <2>1. \A p, q \in Requests : p # q => Sole(p, q)'
    <3>1. \A duty \in Duties, a \in Applications : Bound(r, duty, a)' =>
            \A q \in Requests \ {r} : ~Bound(q, duty, a)
      BY <1>8, <1>9 DEF Bound
    <3> QED
      BY <1>8, <3>1, SoleStep
  <2>2. Entitled(r)'
    BY <1>8 DEF Entitled, Bound, Carrying, Entering
  <2>3. \A q \in Requests : Entitled(q)'
    BY <1>1, <1>8, <2>2, OthersEntitled
  <2>4. ASSUME NEW a \in raced' PROVE application'[a].state \in Decided
    <3>1. a \in Applications /\ application[a].state \in Decided
      BY <1>1 DEF CaseInv, Typed
    <3>2. a \notin {x, old}
      BY <1>5, <3>1, NoneIsNothing DEF Unused, Decided
    <3> QED
      BY <1>7, <3>1, <3>2
  <2> QED
    BY <2>1, <2>3, <2>4 DEF CaseInv
<1>11. ASSUME NEW a \in Applications
       PROVE  Case(a)!Submit \/ Case(a)!Replace \/ UNCHANGED Case(a)!case
  <2>1. Deciding(a)' = Deciding(a)
    <3>1. Bound(r, Carrying, a)' <=> Bound(r, Carrying, a)
      BY <1>8 DEF Bound, Carrying, Receipts, Duties
    <3> QED
      BY <1>8, <3>1, SameDuties, TruthValues
  <2>2. a # x => Receiving(a)' = Receiving(a)
    BY <1>8, SameDuties, TruthValues, Duty
  <2>3. (crashes > 0)' = (crashes > 0)
    BY <1>1
  <2>4. /\ (a \in audited)' = (a \in audited) /\ (a \in raced)' = (a \in raced)
        /\ (a \in reached)' = (a \in reached)
    BY <1>1
  <2>5. CASE a \notin {x, old}
    BY <1>1, <1>7, <2>1, <2>2, <2>5, SameCase
  <2>6. CASE a = x
    <3>1. application[a].state = "none"
      BY <1>5, <2>6 DEF Unused
    <3>2. application[a].state' = "PENDING" /\ application[a].email' \in Emails
      BY <1>1, <1>7, <2>6
    <3>3. Receiving(a)' = TRUE
      BY <1>8, <2>6, Duty, BoundsAfter, TruthValues
    <3> QED
      BY <1>1, <2>1, <2>3, <2>4, <3>1, <3>2, <3>3, Zenon DEF Case!Submit
  <2>7. CASE a = old /\ a # x
    <3>1. application[a].state = "PENDING" /\ application[a].state' = "REPLACED"
          /\ application[a].email' = application[a].email
      BY <1>5, <1>7, <2>7, NoneIsNothing
    <3> QED
      BY <1>1, <2>1, <2>2, <2>3, <2>4, <2>7, <3>1, Zenon DEF Case!Replace
  <2> QED
    BY <2>5, <2>6, <2>7
<1> QED
  BY <1>10, <1>11

LEMMA DecideCommitCase ==
  ASSUME IInv, CaseInv, NEW r \in Requests, DecideCommit(r)
  PROVE  CaseInv' /\ \A a \in Applications : Case(a)!Decide \/ UNCHANGED Case(a)!case
<1>1. /\ request[r].pc = "commit" /\ Informed(r) /\ Entitled(r) /\ Typed /\ Goto(r, "audit")
      /\ request[r] \in RequestState
      /\ request[r].app \in Applications /\ request[r].decision \in Decided
      /\ UNCHANGED <<owner, identities, delivery, audited, reached, crashes>>
  BY Parts, RowOf DEF DecideCommit, CaseInv
<1>2. Moves(r, "audit") /\ request'[r].give = request[r].give
  BY <1>1, GotoMoves DEF PcSet
<1>3. PICK x \in Applications : x = request[r].app
  BY <1>1
<1>4. application[x].state = "PENDING" /\ grant[x] = "none" /\ x \notin raced
  BY <1>1, <1>3, Parts DEF Informed, Knows, Consistent, CaseInv, Decided
<1>5. /\ application' = [application EXCEPT ![x].state = request[r].decision]
      /\ grant' = [grant EXCEPT ![x] = request[r].give]
      /\ raced' = IF Receiving(x) THEN raced \cup {x} ELSE raced
  BY <1>3 DEF DecideCommit
<1>6. /\ application'[x].state = request[r].decision
      /\ application'[x].email = application[x].email
      /\ grant'[x] = request[r].give
      /\ \A b \in Applications \ {x} : application'[b] = application[b] /\ grant'[b] = grant[b]
  BY <1>1, <1>5 DEF Typed, Application
<1>7. /\ Alone(r) /\ request'[r].pc = "audit" /\ request'[r].app = x
      /\ \A a \in Applications, duty \in Duties :
           /\ ~Bound(r, duty, a)
           /\ Bound(r, duty, a)' <=> duty = Carrying /\ a = x
  <2>1. /\ Alone(r) /\ request'[r].pc = "audit" /\ request'[r].app = x
    BY <1>2, <1>3 DEF Moves
  <2>2. \A duty \in Duties : request[r].pc \notin duty
    BY <1>1 DEF Duties, Carrying, Receipts, Entering
  <2>3. \A duty \in Duties : "audit" \in duty <=> duty = Carrying
    BY DEF Duties, Carrying, Receipts, Entering
  <2> QED
    BY <2>1, <2>2, <2>3 DEF Bound
<1>8. \A q \in Requests : ~Bound(q, Carrying, x) /\ ~Bound(q, Entering, x)
  <2> SUFFICES ASSUME NEW q \in Requests PROVE ~Bound(q, Carrying, x) /\ ~Bound(q, Entering, x)
    OBVIOUS
  <2>1. Informed(q) /\ Entitled(q)
    BY Parts DEF CaseInv
  <2> QED
    BY <1>4, <2>1 DEF Informed, DecidingKnows, Entitled, Bound, Decided
<1>9. CaseInv'
  <2>1. \A p, q \in Requests : p # q => Sole(p, q)'
    BY <1>7, <1>8, SoleStep
  <2>2. Entitled(r)'
    <3>1. \A a \in Applications : /\ Bound(r, Carrying, a)' => a = x
                                  /\ ~Bound(r, Entering, a)'
      BY <1>7, Duty DEF Carrying, Entering
    <3> QED
      BY <1>2, <1>6, <1>7, <3>1 DEF Entitled
  <2>3. ASSUME NEW q \in Requests \ {r} PROVE Entitled(q)'
    <3>1. Entitled(q) /\ request'[q] = request[q]
      BY <1>7 DEF CaseInv, Alone
    <3> QED
      BY <1>1, <1>6, <1>8, <3>1 DEF Entitled, Bound
  <2>4. ASSUME NEW a \in raced' PROVE application'[a].state \in Decided
    <3>1. a = x \/ (a \in Applications \ {x} /\ application[a].state \in Decided)
      BY <1>1, <1>5 DEF CaseInv, Typed
    <3> QED
      BY <1>1, <1>6, <3>1
  <2> QED
    BY <2>1, <2>2, <2>3, <2>4 DEF CaseInv
<1>10. ASSUME NEW a \in Applications PROVE Case(a)!Decide \/ UNCHANGED Case(a)!case
  <2>1. Receiving(a)' = Receiving(a)
    <3>1. Bound(r, Receipts, a)' <=> Bound(r, Receipts, a)
      BY <1>7 DEF Bound, Carrying, Receipts, Duties
    <3> QED
      BY <1>7, <3>1, SameDuties, TruthValues
  <2>2. CASE a # x
    <3>1. Deciding(a)' = Deciding(a) /\ (a \in raced' <=> a \in raced)
      BY <1>5, <1>7, <2>2, SameDuties, TruthValues, Duty
    <3> QED
      BY <1>1, <1>6, <2>1, <2>2, <3>1, SameCase
  <2>3. CASE a = x
    <3>1. ~Deciding(a) /\ Deciding(a)' = TRUE
      BY <1>7, <1>8, <2>3, Duty, BoundsOf, BoundsAfter, TruthValues
    <3>2. (a \in raced)' = Receiving(a)
      <4>1. a \in raced' <=> Receiving(a)
        BY <1>4, <1>5, <2>3
      <4> QED
        BY <4>1, TruthValues
    <3>3. \/ application[a].state' = "DECLINED" /\ grant[a]' = "none"
          \/ application[a].state' = "APPROVED" /\ grant[a]' \in {"existing", "open"}
      <4>1. request[r].give \in {"none", "existing", "open"}
        BY <1>1 DEF RequestState
      <4> QED
        BY <1>1, <1>6, <2>3, <4>1 DEF Informed, DecidingKnows, Entitled, Decided
    <3>4. (crashes > 0)' = (crashes > 0)
      BY <1>1
    <3>5. (a \in audited)' = (a \in audited) /\ (a \in reached)' = (a \in reached)
      BY <1>1
    <3>6. application[a].email' = application[a].email /\ application[a].state = "PENDING"
      BY <1>4, <1>6, <2>3
    <3> QED
      BY <1>1, <2>1, <3>1, <3>2, <3>3, <3>4, <3>5, <3>6, Zenon DEF Case!Decide
  <2> QED
    BY <2>2, <2>3
<1> QED
  BY <1>9, <1>10

----------------------------------------------------------------------------
(* Every application takes a course that PilotCase allows.                 *)

LEMMA CaseInit == Init => CaseInv /\ \A a \in Applications : Case(a)!Init
<1> SUFFICES ASSUME Init PROVE CaseInv /\ \A a \in Applications : Case(a)!Init
  OBVIOUS
<1>1. \A r \in Requests : request[r].pc = "idle"
  BY IdleType DEF Init
<1>2. \A r \in Requests, duty \in Duties : request[r].pc \notin duty
  BY <1>1 DEF Duties, Carrying, Receipts, Entering
<1>3. \A r \in Requests : Entitled(r)
  BY <1>1, <1>2, Duty DEF Entitled, Bound
<1>4. \A r, q \in Requests : r # q => Sole(r, q)
  BY <1>2 DEF Sole, Bound
<1>5. CaseInv
  BY <1>3, <1>4 DEF CaseInv, Init
<1>6. ASSUME NEW a \in Applications PROVE Case(a)!Init
  <2>1. ~Deciding(a) /\ ~Receiving(a)
    BY <1>2, Duty, BoundsOf DEF Bound
  <2>2. application[a].state = "none" /\ application[a].email = None /\ grant[a] = "none"
        /\ owner[a] = None /\ delivery[a] = <<"none", FALSE>>
    BY DEF Init, Unused
  <2>3. ~(crashes > 0) /\ a \notin audited /\ a \notin reached /\ a \notin raced
    BY DEF Init
  <2> QED
    BY <2>1, <2>2, <2>3 DEF Case!Init
<1> QED
  BY <1>5, <1>6

LEMMA StutterCase ==
  ASSUME CaseInv, UNCHANGED vars
  PROVE  CaseInv' /\ \A a \in Applications : UNCHANGED Case(a)!case
<1>1. /\ UNCHANGED <<application, grant, owner, identities, request>>
      /\ UNCHANGED <<delivery, audited, reached, raced, crashes>>
  BY DEF vars, setups, notices
<1>2. CaseInv'
  <2>1. \A r \in Requests : Entitled(r)'
    BY <1>1 DEF CaseInv, Entitled, Bound
  <2>2. \A r, q \in Requests : r # q => Sole(r, q)'
    BY <1>1 DEF CaseInv, Sole, Bound
  <2> QED
    BY <1>1, <2>1, <2>2 DEF CaseInv
<1>3. ASSUME NEW a \in Applications PROVE UNCHANGED Case(a)!case
  <2>1. Deciding(a)' = Deciding(a) /\ Receiving(a)' = Receiving(a)
    BY <1>1, Zenon DEF Deciding, Receiving
  <2> QED
    BY <1>1, <2>1, SameCase
<1> QED
  BY <1>2, <1>3

LEMMA CaseStep ==
  ASSUME IInv, CaseInv, [Next]_vars
  PROVE  CaseInv' /\ \A a \in Applications : [Case(a)!Next]_(Case(a)!case)
<1>1. ASSUME NEW r \in Requests, Start(r)
      PROVE  CaseInv' /\ \A a \in Applications : [Case(a)!Next]_(Case(a)!case)
  BY <1>1, StartCase
<1>2. ASSUME NEW r \in Requests,
             CreateReplace(r) \/ CreateAborts(r) \/ ReceiptMailed(r) \/ DecideRead(r)
               \/ SetupCheck(r) \/ Register(r) \/ SignUpCommit(r)
      PROVE  CaseInv' /\ \A a \in Applications : [Case(a)!Next]_(Case(a)!case)
  BY <1>2, CreateReplaceCase, CreateAbortsCase, ReceiptMailedCase, DecideReadCase, SetupCheckCase,
     RegisterCase, SignUpCommitCase
<1>3. ASSUME NEW r \in Requests,
             CreateCommit(r) \/ ReceiptRecorded(r) \/ DecideCommit(r) \/ DecideAudit(r)
               \/ DecideMailed(r) \/ DecideRecorded(r) \/ DecideAnswered(r) \/ SetupCommit(r)
               \/ Crash(r)
      PROVE  CaseInv' /\ \A a \in Applications : [Case(a)!Next]_(Case(a)!case)
  BY <1>3, CreateCommitCase, ReceiptRecordedCase, DecideCommitCase, DecideAuditCase,
     DecideMailedCase, DecideRecordedCase, DecideAnsweredCase, SetupCommitCase, CrashCase
     DEF Case!Next
<1>4. ASSUME (\E x \in Applications : Expire(x)) \/ TeamAccept
      PROVE  CaseInv' /\ \A a \in Applications : [Case(a)!Next]_(Case(a)!case)
  BY <1>4, ExpireCase, TeamAcceptCase DEF Case!Next
<1>5. ASSUME UNCHANGED vars
      PROVE  CaseInv' /\ \A a \in Applications : [Case(a)!Next]_(Case(a)!case)
  BY <1>5, StutterCase
<1> QED
  BY <1>1, <1>2, <1>3, <1>4, <1>5 DEF Next, Continue

\* Nobody else carries out the same decision, records the same receipt or uses the same link,
\* and whoever hands out a link has one.
LEMMA CaseInvariant == Spec => [](IInv /\ CaseInv)
<1>1. Init => CaseInv
  BY CaseInit
<1>2. IInv /\ CaseInv /\ [Next]_vars => CaseInv'
  BY CaseStep
<1> QED
  BY <1>1, <1>2, Invariant, PTL DEF Spec

\* Whatever requests, decisions and setups overlap, and wherever they die, every pilot request
\* takes a course that PilotCase allows: it is decided once, its link is handed out by who
\* carries the decision out and used once, and nothing is left undone but by who has died.
THEOREM CasesAsPromised == Spec => EachCase
<1>1. Init => \A a \in Applications : Case(a)!Init
  BY CaseInit
<1>2. IInv /\ CaseInv /\ [Next]_vars =>
        [\A a \in Applications : [Case(a)!Next]_(Case(a)!case)]_vars
  BY CaseStep
<1> QED
  BY <1>1, <1>2, CaseInvariant, PTL DEF Spec, EachCase

\* So each application by itself refines PilotCase.
THEOREM EachRefinesCase == Spec => \A a \in Applications : Case(a)!Spec
<1> SUFFICES ASSUME NEW a \in Applications PROVE Spec => Case(a)!Spec
  OBVIOUS
<1>1. Init => Case(a)!Init
  BY CaseInit
<1>2. IInv /\ CaseInv /\ [Next]_vars => [Case(a)!Next]_(Case(a)!case)
  BY CaseStep
<1> QED
  BY <1>1, <1>2, CaseInvariant, PTL DEF Spec, Case!Spec
=============================================================================
