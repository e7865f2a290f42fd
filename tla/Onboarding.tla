------------------------------ MODULE Onboarding ------------------------------
(***************************************************************************)
(* From a visitor's pilot request to the owner of a workspace: the request *)
(* (create_request), an administrator's decision and its delivery          *)
(* (decide_pilot_request), and the account set up with the link that an    *)
(* approval hands out (accept_setup_invitation).                           *)
(*                                                                         *)
(* The decision is one transaction.  What follows it, the audit row, the   *)
(* mail, the record of the mail and the answer with the link, are steps of *)
(* their own, and the link itself is nowhere but in that request: the      *)
(* database keeps a hash.                                                  *)
(***************************************************************************)
EXTENDS Naturals

CONSTANTS
  Emails,
  Applications,  \* bound: pilot requests ever stored; each may get a workspace and a link
  Requests,      \* concurrent HTTP requests
  MaxCrashes,    \* bound: requests that die
  None

ASSUME BoundsAssumption == MaxCrashes \in Nat
ASSUME NoneIsNothing == None \notin Emails \cup Applications \cup {"APPROVED", "DECLINED"}

VARIABLES
  application,  \* pilot_request
  grant,        \* what an approval gave: the workspace and the setup invitation
  owner,        \* the owner of the workspace created for an application
  identities,   \* identity rows per email
  delivery,     \* the notification_delivery the administrators' queue shows
  audited,      \* applications with a DECIDE_PILOT_REQUEST audit row
  request,      \* local state of each request
  reached,      \* history: applications whose link was mailed or shown
  raced,        \* history: applications decided before their receipt was recorded
  crashes       \* requests that have died so far

setups   == <<grant, owner, identities>>
notices  == <<delivery, audited, reached, raced>>
vars     == <<application, setups, notices, request, crashes>>

\* "REPLACED" rows were deleted by a later request of the same email.
Application == [state : {"none", "PENDING", "REPLACED", "APPROVED", "DECLINED"},
                email : Emails \cup {None}]

Unused == [state |-> "none", email |-> None]

Decided == {"APPROVED", "DECLINED"}

\* "existing": the person had an account, whose workspace left the sandbox.
Grant == {"none", "existing", "open", "spent", "expired"}

Delivery == {<<"none", FALSE>>} \cup ({"RECEIVED", "DECIDED"} \X BOOLEAN)

RequestState ==
  [pc : {"idle", "replace", "insert", "receipt", "receipted",
         "locked", "commit", "audit", "notify", "record", "respond",
         "taken", "register", "registered"},
   app : Applications \cup {None},
   email : Emails \cup {None},
   old : Applications \cup {None},       \* the row its DELETE found
   decision : Decided \cup {None},
   give : {"none", "existing", "open"},  \* read from identity
   sent : BOOLEAN]

IdleRequest == [pc |-> "idle", app |-> None, email |-> None, old |-> None,
                decision |-> None, give |-> "none", sent |-> FALSE]

Init ==
  /\ application = [a \in Applications |-> Unused]
  /\ grant = [a \in Applications |-> "none"]
  /\ owner = [a \in Applications |-> None]
  /\ identities = [e \in Emails |-> 0]
  /\ delivery = [a \in Applications |-> <<"none", FALSE>>]
  /\ audited = {} /\ reached = {} /\ raced = {}
  /\ request = [r \in Requests |-> IdleRequest]
  /\ crashes = 0

Pending(e) == {a \in Applications : application[a] = [state |-> "PENDING", email |-> e]}

Registered(e) == identities[e] > 0

\* Row locks of transactions that have not been committed: a request being replaced
\* or decided, and an invitation being accepted.
RequestRowLocked(a) ==
  \E r \in Requests : \/ request[r].pc = "insert" /\ request[r].old = a
                      \/ request[r].pc \in {"locked", "commit"} /\ request[r].app = a

InvitationLocked(a) ==
  \E r \in Requests : request[r].pc \in {"taken", "register", "registered"} /\ request[r].app = a

\* The key of an identity row that has not been committed.
IdentityLocked(e) == \E r \in Requests : request[r].pc = "registered" /\ request[r].email = e

Goto(r, pc) == request' = [request EXCEPT ![r].pc = pc]

Finished(r) == request' = [request EXCEPT ![r] = IdleRequest]

----------------------------------------------------------------------------
(* create_pilot_request.                                                   *)

\* BEGIN and the DELETE of a pending request, as far as its snapshot of the rows; the
\* new row's uuid is of this request from here on.
CreateStart(r) ==
  /\ request[r].pc = "idle"
  /\ \E e \in Emails, a \in Applications :
       /\ application[a] = Unused
       /\ \A q \in Requests : request[q].app # a
       /\ \E old \in IF Pending(e) = {} THEN {None} ELSE Pending(e) :
            request' = [request EXCEPT ![r] = [IdleRequest EXCEPT
              !.pc = "replace", !.app = a, !.email = e, !.old = old]]
  /\ UNCHANGED <<application, setups, notices, crashes>>

\* It waits for whoever has the row and deletes it if it is pending still.
CreateReplace(r) ==
  /\ request[r].pc = "replace"
  /\ LET old == request[r].old IN
     /\ old = None \/ ~RequestRowLocked(old)
     /\ request' = [request EXCEPT ![r].pc = "insert",
          ![r].old = IF old # None /\ application[old].state = "PENDING" THEN old ELSE None]
  /\ UNCHANGED <<application, setups, notices, crashes>>

OtherPending(r) == Pending(request[r].email) \ {request[r].old}

\* pilot_request_one_open_per_email: another request was faster, nothing catches it.
CreateAborts(r) ==
  /\ request[r].pc = "insert"
  /\ OtherPending(r) # {}
  /\ Finished(r)
  /\ UNCHANGED <<application, setups, notices, crashes>>

\* Mutant: without the unique index.
CreateUnindexed(r) ==
  /\ request[r].pc = "insert"
  /\ application' = [a \in Applications |->
       IF a = request[r].app THEN [state |-> "PENDING", email |-> request[r].email]
       ELSE IF a = request[r].old THEN [application[a] EXCEPT !.state = "REPLACED"]
       ELSE application[a]]
  /\ Goto(r, "receipt")
  /\ UNCHANGED <<setups, notices, crashes>>

\* INSERT and COMMIT.
CreateCommit(r) ==
  /\ request[r].pc = "insert"
  /\ OtherPending(r) = {}
  /\ application' = [a \in Applications |->
       IF a = request[r].app THEN [state |-> "PENDING", email |-> request[r].email]
       ELSE IF a = request[r].old THEN [application[a] EXCEPT !.state = "REPLACED"]
       ELSE application[a]]
  /\ Goto(r, "receipt")
  /\ UNCHANGED <<setups, notices, crashes>>

Receiving(a) == \E r \in Requests : request[r].pc \in {"receipt", "receipted"} /\ request[r].app = a

\* The mail that says the request was received: a failure is a result like another.
ReceiptMailed(r) ==
  /\ request[r].pc = "receipt"
  /\ \E sent \in BOOLEAN :
       request' = [request EXCEPT ![r].pc = "receipted", ![r].sent = sent]
  /\ UNCHANGED <<application, setups, notices, crashes>>

ReceiptRecorded(r) ==
  /\ request[r].pc = "receipted"
  /\ delivery' = [delivery EXCEPT ![request[r].app] = <<"RECEIVED", request[r].sent>>]
  /\ Finished(r)
  /\ UNCHANGED <<application, setups, audited, reached, raced, crashes>>

----------------------------------------------------------------------------
(* decide_pilot_request.                                                   *)

\* Mutant: SELECT without FOR UPDATE.
DecideLockMutant(r) ==
  /\ request[r].pc = "idle"
  /\ \E a \in Applications, decision \in Decided :
       /\ application[a].state = "PENDING"
       /\ request' = [request EXCEPT ![r] = [IdleRequest EXCEPT !.pc = "locked",
            !.app = a, !.email = application[a].email, !.decision = decision]]
  /\ UNCHANGED <<application, setups, notices, crashes>>

\* SELECT ... WHERE status = 'PENDING' FOR UPDATE; without a row it is a 409.
DecideLock(r) ==
  /\ request[r].pc = "idle"
  /\ \E a \in Applications, decision \in Decided :
       /\ application[a].state = "PENDING" /\ ~RequestRowLocked(a)
       /\ request' = [request EXCEPT ![r] = [IdleRequest EXCEPT !.pc = "locked",
            !.app = a, !.email = application[a].email, !.decision = decision]]
  /\ UNCHANGED <<application, setups, notices, crashes>>

\* An approval looks the email up: has the person an account?
DecideRead(r) ==
  /\ request[r].pc = "locked"
  /\ request' = [request EXCEPT ![r].pc = "commit", ![r].give =
       IF request[r].decision = "DECLINED" THEN "none"
       ELSE IF Registered(request[r].email) THEN "existing" ELSE "open"]
  /\ UNCHANGED <<application, setups, notices, crashes>>

\* The workspace and the invitation, or the existing workspace, the status, COMMIT.
DecideCommit(r) ==
  /\ request[r].pc = "commit"
  /\ LET a == request[r].app IN
     /\ application' = [application EXCEPT ![a].state = request[r].decision]
     /\ grant' = [grant EXCEPT ![a] = request[r].give]
     /\ raced' = IF Receiving(a) THEN raced \cup {a} ELSE raced
  /\ Goto(r, "audit")
  /\ UNCHANGED <<owner, identities, delivery, audited, reached, crashes>>

DecideAudit(r) ==
  /\ request[r].pc = "audit"
  /\ audited' = audited \cup {request[r].app}
  /\ Goto(r, "notify")
  /\ UNCHANGED <<application, setups, delivery, reached, raced, crashes>>

HasLink(r) == request[r].give = "open"

\* A mail reported as FAILED may have arrived; none is sent without SMTP.
DecideMailed(r) ==
  /\ request[r].pc = "notify"
  /\ \E sent, arrived \in BOOLEAN :
       /\ sent => arrived
       /\ reached' = IF arrived /\ HasLink(r) THEN reached \cup {request[r].app} ELSE reached
       /\ request' = [request EXCEPT ![r].pc = "record", ![r].sent = sent]
  /\ UNCHANGED <<application, setups, delivery, audited, raced, crashes>>

\* Mutant: only a mail that was sent is recorded.
DecideRecordedMutant(r) ==
  /\ request[r].pc = "record"
  /\ delivery' = IF request[r].sent
                 THEN [delivery EXCEPT ![request[r].app] = <<"DECIDED", TRUE>>] ELSE delivery
  /\ Goto(r, "respond")
  /\ UNCHANGED <<application, setups, audited, reached, raced, crashes>>

DecideRecorded(r) ==
  /\ request[r].pc = "record"
  /\ delivery' = [delivery EXCEPT ![request[r].app] = <<"DECIDED", request[r].sent>>]
  /\ Goto(r, "respond")
  /\ UNCHANGED <<application, setups, audited, reached, raced, crashes>>

\* Mutant: the answer leaves the link out.
DecideAnsweredMutant(r) ==
  /\ request[r].pc = "respond"
  /\ Finished(r)
  /\ UNCHANGED <<application, setups, notices, crashes>>

\* The answer shows the administrator the link, mailed or not.
DecideAnswered(r) ==
  /\ request[r].pc = "respond"
  /\ reached' = IF HasLink(r) THEN reached \cup {request[r].app} ELSE reached
  /\ Finished(r)
  /\ UNCHANGED <<application, setups, delivery, audited, raced, crashes>>

----------------------------------------------------------------------------
(* Accounts: accept_setup_invitation, sign_up_with_email.                  *)

Expire(a) ==
  /\ grant[a] = "open"
  /\ grant' = [grant EXCEPT ![a] = "expired"]
  /\ UNCHANGED <<application, owner, identities, notices, request, crashes>>

\* SELECT ... FOR UPDATE of the invitation; without a row it is a 409.
SetupLock(r) ==
  /\ request[r].pc = "idle"
  /\ \E a \in reached :
       /\ grant[a] = "open" /\ ~InvitationLocked(a)
       /\ request' = [request EXCEPT ![r] = [IdleRequest EXCEPT !.pc = "taken",
            !.app = a, !.email = application[a].email]]
  /\ UNCHANGED <<application, setups, notices, crashes>>

\* register_invited_email: 409 when the email has an account.
SetupCheck(r) ==
  /\ request[r].pc = "taken"
  /\ request' = [request EXCEPT ![r] =
       IF Registered(request[r].email) THEN IdleRequest ELSE [@ EXCEPT !.pc = "register"]]
  /\ UNCHANGED <<application, setups, notices, crashes>>

\* Open sign-up, where the deployment allows it, finds the email free.
SignUpCheck(r) ==
  /\ request[r].pc = "idle"
  /\ \E e \in Emails :
       /\ ~Registered(e)
       /\ request' = [request EXCEPT ![r] = [IdleRequest EXCEPT !.pc = "register", !.email = e]]
  /\ UNCHANGED <<application, setups, notices, crashes>>

\* Mutant: without the primary key of identity.
RegisterUnindexed(r) ==
  /\ request[r].pc = "register"
  /\ Goto(r, "registered")
  /\ UNCHANGED <<application, setups, notices, crashes>>

\* The INSERT into identity waits for one of the same key, and fails if that was
\* committed: nothing catches it.
Register(r) ==
  /\ request[r].pc = "register"
  /\ ~IdentityLocked(request[r].email)
  /\ IF Registered(request[r].email) THEN Finished(r) ELSE Goto(r, "registered")
  /\ UNCHANGED <<application, setups, notices, crashes>>

\* Mutant: the membership is left to a request that follows.
SetupCommitMutant(r) ==
  /\ request[r].pc = "registered" /\ request[r].app # None
  /\ identities' = [identities EXCEPT ![request[r].email] = @ + 1]
  /\ grant' = [grant EXCEPT ![request[r].app] = "spent"]
  /\ Finished(r)
  /\ UNCHANGED <<application, owner, notices, crashes>>

\* Account, session, membership and the spent invitation together.
SetupCommit(r) ==
  /\ request[r].pc = "registered" /\ request[r].app # None
  /\ identities' = [identities EXCEPT ![request[r].email] = @ + 1]
  /\ owner' = [owner EXCEPT ![request[r].app] = request[r].email]
  /\ grant' = [grant EXCEPT ![request[r].app] = "spent"]
  /\ Finished(r)
  /\ UNCHANGED <<application, notices, crashes>>

\* The account of a sign-up owns a workspace of its own, not one of these.
SignUpCommit(r) ==
  /\ request[r].pc = "registered" /\ request[r].app = None
  /\ identities' = [identities EXCEPT ![request[r].email] = @ + 1]
  /\ Finished(r)
  /\ UNCHANGED <<application, grant, owner, notices, crashes>>

\* accept_invitation of the team routes takes any open invitation, also these: who is
\* signed in joins with its role.
TeamAccept ==
  \E a \in reached, e \in Emails :
    /\ grant[a] = "open" /\ ~InvitationLocked(a) /\ Registered(e)
    /\ owner' = [owner EXCEPT ![a] = e]
    /\ grant' = [grant EXCEPT ![a] = "spent"]
    /\ UNCHANGED <<application, identities, notices, request, crashes>>

----------------------------------------------------------------------------

\* A request that dies takes its open transaction with it.
Crash(r) ==
  /\ crashes < MaxCrashes
  /\ crashes' = crashes + 1
  /\ request[r].pc # "idle"
  /\ Finished(r)
  /\ UNCHANGED <<application, setups, notices>>

Continue(r) ==
  \/ CreateReplace(r) \/ CreateAborts(r) \/ CreateCommit(r) \/ ReceiptMailed(r) \/ ReceiptRecorded(r)
  \/ DecideRead(r) \/ DecideCommit(r) \/ DecideAudit(r)
  \/ DecideMailed(r) \/ DecideRecorded(r) \/ DecideAnswered(r)
  \/ SetupCheck(r) \/ Register(r) \/ SetupCommit(r) \/ SignUpCommit(r)

Start(r) == CreateStart(r) \/ DecideLock(r) \/ SetupLock(r) \/ SignUpCheck(r)

Next ==
  \/ \E r \in Requests : Start(r) \/ Continue(r) \/ Crash(r)
  \/ \E a \in Applications : Expire(a)
  \/ TeamAccept

Spec == Init /\ [][Next]_vars

----------------------------------------------------------------------------
(* Properties.                                                             *)

Deciding(a) ==
  \E r \in Requests : /\ request[r].app = a
                      /\ request[r].pc \in {"audit", "notify", "record", "respond"}

\* What a request must know at each of its steps.
RequestsKnow ==
  \A r \in Requests :
    /\ request[r].pc = "idle" => request[r] = IdleRequest
    /\ request[r].pc # "idle" => request[r].email # None
    /\ request[r].pc \notin {"idle", "register", "registered"} => request[r].app # None
    /\ request[r].pc \in {"locked", "commit"} =>
         /\ request[r].decision # None
         /\ application[request[r].app].state = "PENDING"

TypeOK ==
  /\ application \in [Applications -> Application]
  /\ grant \in [Applications -> Grant]
  /\ owner \in [Applications -> Emails \cup {None}]
  /\ identities \in [Emails -> Nat]
  /\ delivery \in [Applications -> Delivery]
  /\ audited \subseteq Applications /\ reached \subseteq Applications /\ raced \subseteq Applications
  /\ request \in [Requests -> RequestState]
  /\ RequestsKnow
  /\ crashes \in Nat

\* One open request per email (migration 008), also when the same form is sent twice at
\* once or while an administrator decides on the earlier one.
OneOpenRequest == \A e \in Emails : \A a, b \in Pending(e) : a = b

\* A decision is final: no second administrator and no later request of the same
\* email overwrites or deletes one.
DecisionsFinal ==
  [][\A a \in Applications : application[a].state \in Decided =>
       application'[a] = application[a]]_vars

\* An email has one account, whatever setups and sign-ups overlap.
OneAccountPerEmail == \A e \in Emails : identities[e] <= 1

\* A setup link is used up exactly when the workspace has got its owner, also if the
\* person is refused, the request dies, or the link is followed twice.
SpentWithOwner == \A a \in Applications : grant[a] = "spent" <=> owner[a] # None

\* What is left of an application when the requests at work on it are not looked at.
Case(a) == INSTANCE PilotCase WITH
  state <- application[a].state, email <- application[a].email, grant <- grant[a],
  owner <- owner[a], audited <- a \in audited, reached <- a \in reached,
  delivery <- delivery[a], carrying <- Deciding(a), receiving <- Receiving(a),
  late <- a \in raced, died <- crashes > 0

\* Whatever requests, decisions and setups overlap, and wherever they die, what becomes of
\* a pilot request is a course that PilotCase allows.
EachCase ==
  /\ \A a \in Applications : Case(a)!Init
  /\ [][\A a \in Applications : [Case(a)!Next]_(Case(a)!case)]_vars

\* "SMTP failure does not rollback approval and returns manual link"
\* (test_pilot_onboarding.py): without a crash every decision is audited, and every
\* setup link has reached somebody once its request is over.
DecisionCarriedThrough ==
  crashes = 0 => \A a \in Applications : application[a].state \in Decided /\ ~Deciding(a) =>
    /\ a \in audited
    /\ grant[a] \notin {"none", "existing"} => a \in reached

\* The queue shows how the decision's mail fared, not the earlier receipt's, unless the
\* receipt was still on its way when the decision was made.
DeliveryOfDecision ==
  crashes = 0 => \A a \in Applications : application[a].state \in Decided /\ ~Deciding(a) =>
    delivery[a][1] = "DECIDED" \/ a \in raced
=============================================================================
