------------------------------- MODULE Accounts -------------------------------
(***************************************************************************)
(* Accounts, the identities that lead to them and their sessions           *)
(* (auth/repository.py, api/auth.py), and the revocation of sessions by a  *)
(* platform administrator (api/admin.py).                                  *)
(*                                                                         *)
(* The first sign-in with an identity creates its account, in one          *)
(* transaction: the look-up sees the database of its own moment, and the   *)
(* unique (provider, provider_id) stops the later of two.  The capability  *)
(* of a platform administrator is a column that a sign-in sets from the    *)
(* settings of the process, nothing else does.  Clerk's signing keys are   *)
(* cached by the process and change at Clerk's.                            *)
(***************************************************************************)
EXTENDS Naturals, FiniteSets

CONSTANTS
  Emails,
  Subjects,      \* Clerk users
  Telegrams,     \* Telegram users
  PrimaryEmail,  \* the addresses a Clerk user may have as primary, or None
  MaxAccounts,   \* bound: accounts ever created
  MaxSessions,   \* bound: live sessions of an account
  MaxKeys,       \* bound: signing keys Clerk ever uses
  Requests,      \* concurrent HTTP requests
  None

ASSUME BoundsAssumption == MaxAccounts \in Nat /\ MaxSessions \in Nat /\ MaxKeys \in Nat \ {0}
ASSUME PrimaryEmailAssumption == PrimaryEmail \in [Subjects -> SUBSET (Emails \cup {None})]
ASSUME NoneIsNothing == None \notin Nat \cup Emails \cup Subjects \cup Telegrams

VARIABLES
  created,    \* number of accounts; they are 1 .. created
  identity,   \* the account behind each identity, or None
  admins,     \* accounts with is_platform_admin set
  sessions,   \* number of live sessions per account
  allowlist,  \* PLATFORM_ADMIN_EMAILS of the running process
  signing,    \* the number of the key Clerk signs with and serves
  cached,     \* the key set in _jwks_cache, or None when absent or too old
  request     \* local state of each request

vars == <<created, identity, admins, sessions, allowlist, signing, cached, request>>

rows == <<created, identity, admins, sessions>>
keys == <<signing, cached>>

\* The three providers have names of their own: no value of one is one of another.
Identities == Emails \cup Subjects \cup Telegrams

Accounts == 1 .. MaxAccounts

RequestState ==
  [pc : {"idle", "keys", "fetched", "refetch", "refetched", "refused", "email",
         "read", "enter", "register", "reconcile", "issue", "revoke", "delete"},
   id : Identities \cup {None},         \* who signs in
   email : Emails \cup {None},          \* the address that goes to the allowlist
   account : Accounts \cup {None},      \* what the look-up found
   kid : 0 .. MaxKeys,                  \* the key the Clerk token is signed with
   answer : 0 .. MaxKeys,               \* the key set in the answer of Clerk
   door : {"customer", "admin"}]

IdleRequest == [pc |-> "idle", id |-> None, email |-> None, account |-> None,
                kid |-> 0, answer |-> 0, door |-> "customer"]

Init ==
  /\ created = 0
  /\ identity = [i \in Identities |-> None]
  /\ admins = {}
  /\ sessions = [a \in Accounts |-> 0]
  /\ allowlist \in SUBSET Emails
  /\ signing = 1
  /\ cached = None
  /\ request = [r \in Requests |-> IdleRequest]

Finished(r) == request' = [request EXCEPT ![r] = IdleRequest]

GoTo(r, pc) == request' = [request EXCEPT ![r].pc = pc]

----------------------------------------------------------------------------
(* What every way to sign in ends with.                                    *)

\* Mutant: the role is granted but never taken away.
ReconciledMutant(a, e) == IF e \in allowlist THEN admins \cup {a} ELSE admins

\* _sync_platform_admin.
Reconciled(a, e) == IF e \in allowlist THEN admins \cup {a} ELSE admins \ {a}

\* _issue_session.
Issue(a) ==
  /\ sessions[a] < MaxSessions
  /\ sessions' = [sessions EXCEPT ![a] = @ + 1]

\* Mutant: without the index, what was committed meanwhile is overtaken.
InsertIdentityMutant(i, a) == identity' = [identity EXCEPT ![i] = a]

\* The INSERT waits for whoever inserts the same row, and fails if that is committed.
InsertIdentity(i, a) ==
  /\ identity[i] = None
  /\ identity' = [identity EXCEPT ![i] = a]

\* The account found, or the next one, with its sandbox and its membership.
AccountOf(r) == IF request[r].account = None THEN created + 1 ELSE request[r].account

\* Mutant: the account itself is not inserted.
CreateIfNewMutant(r) == UNCHANGED created

CreateIfNew(r) ==
  \/ request[r].account # None /\ UNCHANGED created
  \/ /\ request[r].account = None
     /\ created < MaxAccounts
     /\ created' = created + 1

----------------------------------------------------------------------------
(* Email and password.                                                     *)

\* sign_up_with_email, BEGIN and the look-up; an account that exists is a 409.
SignUpRead(r) ==
  /\ request[r].pc = "idle"
  /\ \E e \in Emails :
       /\ identity[e] = None
       /\ request' = [request EXCEPT ![r] = [@ EXCEPT !.pc = "register", !.id = e, !.email = e]]
  /\ UNCHANGED <<rows, allowlist, keys>>

\* sign_in_with_email: the row and its password are read.
SignInRead(r) ==
  /\ request[r].pc = "idle"
  /\ \E e \in Emails :
       /\ identity[e] # None
       /\ request' = [request EXCEPT ![r] = [@ EXCEPT
            !.pc = "reconcile", !.id = e, !.email = e, !.account = identity[e]]]
  /\ UNCHANGED <<rows, allowlist, keys>>

\* The UPDATE and the INSERT of the session are committed one by one.
SignInReconcile(r) ==
  /\ request[r].pc = "reconcile"
  /\ admins' = Reconciled(request[r].account, request[r].email)
  /\ GoTo(r, "issue")
  /\ UNCHANGED <<created, identity, sessions, allowlist, keys>>

SignInIssue(r) ==
  /\ request[r].pc = "issue"
  /\ Issue(request[r].account)
  /\ Finished(r)
  /\ UNCHANGED <<created, identity, admins, allowlist, keys>>

----------------------------------------------------------------------------
(* Telegram, after the payload was verified.                               *)

\* An identity that is there leads to its account; any other is to be inserted.
AfterLookUp(i) == IF identity[i] = None THEN "register" ELSE "enter"

TelegramRead(r) ==
  /\ request[r].pc = "idle"
  /\ \E t \in Telegrams :
       request' = [request EXCEPT ![r] = [@ EXCEPT
         !.pc = AfterLookUp(t), !.id = t, !.account = identity[t]]]
  /\ UNCHANGED <<rows, allowlist, keys>>

----------------------------------------------------------------------------
(* Clerk, through the customers' or the administrators' exchange.          *)

\* A token Clerk has just signed.
ClerkArrives(r) ==
  /\ request[r].pc = "idle"
  /\ \E s \in Subjects, door \in {"customer", "admin"} :
       request' = [request EXCEPT ![r] = [@ EXCEPT
         !.pc = "keys", !.id = s, !.kid = signing, !.door = door]]
  /\ UNCHANGED <<rows, allowlist, keys>>

\* The answer was true when Clerk gave it, and is used when it arrives.
ClerkServes(r, next) ==
  request' = [request EXCEPT ![r] = [@ EXCEPT !.pc = next, !.answer = signing]]

\* The token is looked at with a key set: it is valid, or what comes next is told.
VerifyWith(r, key, otherwise) ==
  request' = [request EXCEPT ![r] = [@ EXCEPT
    !.pc = IF key = request[r].kid THEN "email" ELSE otherwise,
    !.kid = IF key = request[r].kid THEN 0 ELSE request[r].kid,
    !.answer = 0]]

\* _clerk_jwk_set without refresh: the cache, or a request of Clerk.
LookUpKeys(r) ==
  /\ request[r].pc = "keys"
  /\ \/ cached = None /\ ClerkServes(r, "fetched")
     \/ cached # None /\ VerifyWith(r, cached, "refetch")
  /\ UNCHANGED <<rows, allowlist, keys>>

\* What arrives last is what is cached.
KeysArrive(r) ==
  /\ request[r].pc = "fetched"
  /\ cached' = request[r].answer
  /\ VerifyWith(r, request[r].answer, "refetch")
  /\ UNCHANGED <<rows, allowlist, signing>>

\* Mutant: the refresh is answered from the cache.
RefreshKeysMutant(r) ==
  /\ request[r].pc = "refetch"
  /\ request' = [request EXCEPT ![r] = [@ EXCEPT
       !.pc = "refetched", !.answer = IF cached = None THEN signing ELSE cached]]
  /\ UNCHANGED <<rows, allowlist, keys>>

\* "Clerk rotated its keys since the cache was filled."
RefreshKeys(r) ==
  /\ request[r].pc = "refetch"
  /\ ClerkServes(r, "refetched")
  /\ UNCHANGED <<rows, allowlist, keys>>

RefreshArrives(r) ==
  /\ request[r].pc = "refetched"
  /\ cached' = request[r].answer
  /\ VerifyWith(r, request[r].answer, "refused")
  /\ UNCHANGED <<rows, allowlist, signing>>

\* The answer is a 401.
Refuse(r) ==
  /\ request[r].pc = "refused"
  /\ Finished(r)
  /\ UNCHANGED <<rows, allowlist, keys>>

\* _primary_clerk_email, and the allowlist at the administrators' door (a 403).
ResolveEmail(r) ==
  /\ request[r].pc = "email"
  /\ \E e \in PrimaryEmail[request[r].id] :
       IF request[r].door = "admin" /\ e \notin allowlist
         THEN Finished(r)
         ELSE request' = [request EXCEPT ![r] = [@ EXCEPT
                !.pc = "read", !.email = e, !.door = "customer"]]
  /\ UNCHANGED <<rows, allowlist, keys>>

\* sign_in_with_clerk, BEGIN and the look-ups: the identity, else the account of the
\* email, which is linked.
ClerkRead(r) ==
  /\ request[r].pc = "read"
  /\ LET s == request[r].id
         e == request[r].email
     IN  request' = [request EXCEPT ![r] = [@ EXCEPT
           !.pc = AfterLookUp(s),
           !.account =
           IF identity[s] # None THEN identity[s]
           ELSE IF e # None THEN identity[e] ELSE None]]
  /\ UNCHANGED <<rows, allowlist, keys>>

----------------------------------------------------------------------------
(* COMMIT of the three transactions.                                       *)

ReconciledUnlessTelegram(r) ==
  admins' = IF request[r].id \in Telegrams THEN admins
            ELSE Reconciled(AccountOf(r), request[r].email)

Enter(r) ==
  /\ request[r].pc = "enter"
  /\ ReconciledUnlessTelegram(r)
  /\ Issue(request[r].account)
  /\ Finished(r)
  /\ UNCHANGED <<created, identity, allowlist, keys>>

Register(r) ==
  /\ request[r].pc = "register"
  /\ CreateIfNew(r)
  /\ InsertIdentity(request[r].id, AccountOf(r))
  /\ ReconciledUnlessTelegram(r)
  /\ Issue(AccountOf(r))
  /\ Finished(r)
  /\ UNCHANGED <<allowlist, keys>>

----------------------------------------------------------------------------
(* Sessions.                                                               *)

\* user_for_token does not see a session after its 30 days, nor one that signed out.
Expire(a) ==
  /\ sessions[a] > 0
  /\ sessions' = [sessions EXCEPT ![a] = @ - 1]
  /\ UNCHANGED <<created, identity, admins, allowlist, keys, request>>

\* require_platform_admin, when a request comes to revoke_admin_sessions.
AdmitRevocation(r) ==
  /\ request[r].pc = "idle"
  /\ \E caller \in admins : sessions[caller] > 0
  /\ \E a \in 1 .. created :
       request' = [request EXCEPT ![r] = [@ EXCEPT !.pc = "revoke", !.account = a]]
  /\ UNCHANGED <<rows, allowlist, keys>>

\* Only an account that is an administrator's, or 404.
CheckAdministrator(r) ==
  /\ request[r].pc = "revoke"
  /\ IF request[r].account \in admins THEN GoTo(r, "delete") ELSE Finished(r)
  /\ UNCHANGED <<rows, allowlist, keys>>

RevokeSessions(r) ==
  /\ request[r].pc = "delete"
  /\ sessions' = [sessions EXCEPT ![request[r].account] = 0]
  /\ Finished(r)
  /\ UNCHANGED <<created, identity, admins, allowlist, keys>>

----------------------------------------------------------------------------
(* The surroundings.                                                       *)

\* A unique violation, an answer of Clerk's that is an error, a client that is gone:
\* an open transaction is rolled back.
Fail(r) ==
  /\ request[r].pc \notin {"idle", "refused"}
  /\ Finished(r)
  /\ UNCHANGED <<rows, allowlist, keys>>

RotateKeys ==
  /\ signing < MaxKeys
  /\ signing' = signing + 1
  /\ UNCHANGED <<rows, allowlist, cached, request>>

\* _JWKS_TTL_SECONDS.
CacheAges ==
  /\ cached # None
  /\ cached' = None
  /\ UNCHANGED <<rows, allowlist, signing, request>>

\* A new process: another allowlist perhaps, no cache and none of the old requests.
Redeploy ==
  /\ allowlist' \in SUBSET Emails
  /\ cached' = None
  /\ request' = [r \in Requests |-> IdleRequest]
  /\ UNCHANGED <<rows, signing>>

RequestStep(r) ==
  \/ SignUpRead(r) \/ SignInRead(r) \/ SignInReconcile(r) \/ SignInIssue(r)
  \/ TelegramRead(r)
  \/ ClerkArrives(r) \/ LookUpKeys(r) \/ KeysArrive(r) \/ RefreshKeys(r)
  \/ RefreshArrives(r) \/ Refuse(r) \/ ResolveEmail(r) \/ ClerkRead(r)
  \/ Enter(r) \/ Register(r)
  \/ AdmitRevocation(r) \/ CheckAdministrator(r) \/ RevokeSessions(r)
  \/ Fail(r)

Next ==
  \/ \E r \in Requests : RequestStep(r)
  \/ \E a \in Accounts : Expire(a)
  \/ RotateKeys \/ CacheAges \/ Redeploy

\* Time passes: every session expires.  Nobody has to send a request or finish one.
Fairness == \A a \in Accounts : WF_vars(Expire(a))

Spec == Init /\ [][Next]_vars /\ Fairness

----------------------------------------------------------------------------
(* Properties.                                                             *)

\* What a request needs to know at each of its steps.
RequestsKnow ==
  \A r \in Requests :
    /\ request[r].pc \in {"reconcile", "issue", "revoke", "delete"} =>
         request[r].account \in 1 .. created
    /\ request[r].pc \in {"keys", "fetched", "refetch", "refetched", "refused",
                          "email", "read"} => request[r].id \in Subjects
    /\ request[r].pc \in {"enter", "register"} => request[r].id \in Identities
    /\ request[r].pc = "enter" => request[r].account \in 1 .. created
    /\ request[r].pc = "register" => request[r].account \in 1 .. created \cup {None}

TypeOK ==
  /\ created \in 0 .. MaxAccounts
  /\ identity \in [Identities -> 1 .. created \cup {None}]
  /\ admins \subseteq 1 .. created
  /\ sessions \in [Accounts -> 0 .. MaxSessions]
  /\ allowlist \subseteq Emails
  /\ signing \in 1 .. MaxKeys
  /\ cached \in 1 .. MaxKeys \cup {None}
  /\ request \in [Requests -> RequestState]
  /\ RequestsKnow

\* Two first sign-ins of one person at once, from two windows or through Clerk while an
\* email signs up, leave no account that no identity leads to: nobody is signed in to
\* an account, with its workspace, that they cannot sign in to again.
EveryAccountReachable ==
  \A a \in 1 .. created : \E i \in Identities : identity[i] = a

\* "Clerk rotated its keys since the cache was filled" (api/auth.py): a token is refused
\* for its key only when Clerk has retired that key, in whatever order the answers of
\* overlapping requests arrive and fill the cache.
CurrentKeyAccepted ==
  \A r \in Requests : request[r].pc = "refused" => request[r].kid < signing

\* "Reconciled on every sign-in so removing an address from the allowlist actually takes
\* the role away, rather than leaving it granted forever" (_sync_platform_admin): when
\* the allowlist is emptied for good, no session acts as an administrator for ever.
RemovalTakesTheRole ==
  <>[](allowlist = {}) => <>[](\A a \in admins : sessions[a] = 0)
=============================================================================
