---------------------------- MODULE AccountsProofs ----------------------------
(***************************************************************************)
(* Theorems about Accounts for any people, requests and bounds.            *)
(*                                                                         *)
(* What an overlapping request carries across its awaits is put next to    *)
(* the rows and the keys in Knows: the account it found exists, and the    *)
(* key of its token is no newer than the answer it waits for, which is no  *)
(* newer than the key Clerk signs with.                                    *)
(***************************************************************************)
EXTENDS Accounts, TLAPS

\* What the local state x of a request says of n accounts and of the key number k.
Knows(x, n, k) ==
  /\ x.pc = "idle" => x.account = None
  /\ x.pc \in {"reconcile", "issue", "revoke", "delete", "enter"} => x.account \in 1 .. n
  /\ x.pc = "register" => x.account \in 1 .. n \cup {None}
  /\ x.pc \in {"keys", "fetched", "refetch", "refetched", "refused", "email", "read"} =>
       x.id \in Subjects
  /\ x.pc \in {"enter", "register"} => x.id \in Identities
  /\ x.pc \in {"keys", "fetched", "refetch", "refetched"} => x.kid <= k
  /\ x.pc \in {"fetched", "refetched"} => x.answer \in 1 .. k /\ x.kid <= x.answer
  /\ x.pc = "refused" => x.kid < k

Known == \A r \in Requests : Knows(request[r], created, signing)

\* No answer was newer than the key Clerk signs with.
KeysOK == signing \in 1 .. MaxKeys /\ cached \in 1 .. signing \cup {None}

IInv == TypeOK /\ Known /\ KeysOK /\ EveryAccountReachable

----------------------------------------------------------------------------
(* What a step has to keep.                                                *)

\* The part of the types that is not about requests.
RowsOK ==
  /\ created \in 0 .. MaxAccounts
  /\ identity \in [Identities -> 1 .. created \cup {None}]
  /\ admins \subseteq 1 .. created
  /\ sessions \in [Accounts -> 0 .. MaxSessions]
  /\ allowlist \subseteq Emails

RequestsOK == request \in [Requests -> RequestState] /\ Known

\* The three parts are the invariant.
LEMMA Parts ==
  RowsOK /\ KeysOK /\ RequestsOK /\ EveryAccountReachable <=> IInv
BY BoundsAssumption DEF RowsOK, KeysOK, RequestsOK, IInv, TypeOK, RequestsKnow, Known, Knows

\* More accounts and newer keys unsay nothing.
LEMMA KnowsGrows ==
  ASSUME NEW x \in RequestState, NEW m \in Nat, NEW n \in Nat, NEW k \in Nat, NEW l \in Nat,
         m <= n, k <= l, Knows(x, m, k)
  PROVE  Knows(x, n, l)
BY DEF Knows, RequestState

\* The idle local state knows nothing.
LEMMA Idle ==
  ASSUME NEW n \in Nat, NEW k \in Nat
  PROVE  IdleRequest \in RequestState /\ Knows(IdleRequest, n, k)
BY BoundsAssumption DEF IdleRequest, RequestState, Knows

\* A step of one request.
LEMMA Put ==
  ASSUME IInv, NEW r \in Requests, NEW x \in RequestState,
         request' = [request EXCEPT ![r] = x],
         created' \in Nat, created <= created', signing' = signing,
         Knows(x, created', signing')
  PROVE  RequestsOK'
<1>1. request' \in [Requests -> RequestState]
  BY DEF IInv, TypeOK
<1>2. created \in Nat /\ signing \in Nat
  BY BoundsAssumption DEF IInv, TypeOK
<1>3. ASSUME NEW q \in Requests PROVE Knows(request'[q], created', signing')
  <2>1. CASE q = r
    BY <2>1 DEF IInv, TypeOK
  <2>2. CASE q # r
    <3>1. request'[q] = request[q] /\ request[q] \in RequestState
      BY <2>2 DEF IInv, TypeOK
    <3>2. Knows(request[q], created, signing)
      BY DEF IInv, Known
    <3> QED
      BY <1>2, <3>1, <3>2, KnowsGrows
  <2> QED
    BY <2>1, <2>2
<1> QED
  BY <1>1, <1>3 DEF RequestsOK, Known

\* The end of a request.
LEMMA FinishedOK ==
  ASSUME IInv, NEW r \in Requests, Finished(r),
         created' \in Nat, created <= created', signing' = signing
  PROVE  RequestsOK'
<1>1. signing \in Nat
  BY BoundsAssumption DEF IInv, TypeOK
<1>2. IdleRequest \in RequestState /\ Knows(IdleRequest, created', signing')
  BY <1>1, Idle
<1> QED
  BY <1>2, Put DEF Finished

\* A step that writes nothing but the local state of a request.
LEMMA LocalStep ==
  ASSUME IInv, UNCHANGED <<rows, allowlist>>, KeysOK', RequestsOK'
  PROVE  IInv'
<1>1. RowsOK' /\ EveryAccountReachable'
  BY DEF IInv, TypeOK, RowsOK, EveryAccountReachable, rows
<1> QED
  BY <1>1, Parts, PTL

----------------------------------------------------------------------------
(* Looking up.                                                             *)

\* The local state of a request has its type, whatever its step.
LEMMA LocalTypes ==
  ASSUME IInv, NEW r \in Requests
  PROVE  /\ request[r] \in RequestState /\ Knows(request[r], created, signing)
         /\ created \in Nat /\ signing \in 1 .. MaxKeys /\ signing \in Nat
         /\ 1 .. created \subseteq Accounts /\ 0 \in 0 .. MaxKeys
         /\ cached \in 1 .. signing \cup {None}
         /\ \A i \in Identities : identity[i] \in 1 .. created \cup {None}
BY BoundsAssumption DEF IInv, TypeOK, Known, KeysOK, Accounts

\* A step that changes the local state of one request and nothing else.
LEMMA OneRequest ==
  ASSUME IInv, NEW r \in Requests, NEW x \in RequestState,
         request' = [request EXCEPT ![r] = x], Knows(x, created, signing),
         UNCHANGED <<rows, allowlist, keys>>
  PROVE  IInv'
<1>1. created' = created /\ signing' = signing /\ cached' = cached /\ created \in Nat
  BY LocalTypes DEF rows, keys
<1>2. KeysOK'
  BY <1>1 DEF IInv, KeysOK
<1>3. created' \in Nat /\ created <= created' /\ Knows(x, created', signing')
  BY <1>1
<1>4. RequestsOK'
  BY <1>1, <1>3, Put
<1> QED
  BY <1>2, <1>4, LocalStep

\* sign_up_with_email starts.
LEMMA SignUpReadKeeps ==
  ASSUME IInv, NEW r \in Requests, SignUpRead(r)
  PROVE  IInv'
<1>1. PICK e \in Emails : request' = [request EXCEPT ![r] =
        [@ EXCEPT !.pc = "register", !.id = e, !.email = e]]
  BY DEF SignUpRead
<1> DEFINE x == [request[r] EXCEPT !.pc = "register", !.id = e, !.email = e]
<1>2. x \in RequestState /\ Knows(x, created, signing)
  BY LocalTypes DEF RequestState, Knows, Identities, SignUpRead
<1> QED
  BY <1>1, <1>2, OneRequest DEF SignUpRead

\* sign_in_with_email starts.
LEMMA SignInReadKeeps ==
  ASSUME IInv, NEW r \in Requests, SignInRead(r)
  PROVE  IInv'
<1>1. PICK e \in Emails :
        /\ identity[e] # None
        /\ request' = [request EXCEPT ![r] = [@ EXCEPT
             !.pc = "reconcile", !.id = e, !.email = e, !.account = identity[e]]]
  BY DEF SignInRead
<1> DEFINE x == [request[r] EXCEPT
             !.pc = "reconcile", !.id = e, !.email = e, !.account = identity[e]]
<1>2. e \in Identities /\ identity[e] \in 1 .. created
  BY <1>1, LocalTypes DEF Identities
<1>3. x \in RequestState /\ Knows(x, created, signing)
  BY <1>2, LocalTypes DEF RequestState, Knows
<1> QED
  BY <1>1, <1>3, OneRequest DEF SignInRead

\* sign_in_with_telegram starts.
LEMMA TelegramReadKeeps ==
  ASSUME IInv, NEW r \in Requests, TelegramRead(r)
  PROVE  IInv'
<1>1. PICK t \in Telegrams :
        request' = [request EXCEPT ![r] = [@ EXCEPT
          !.pc = AfterLookUp(t), !.id = t, !.account = identity[t]]]
  BY DEF TelegramRead
<1> DEFINE x == [request[r] EXCEPT
          !.pc = AfterLookUp(t), !.id = t, !.account = identity[t]]
<1>2. /\ t \in Identities /\ identity[t] \in 1 .. created \cup {None}
      /\ AfterLookUp(t) \in {"enter", "register"}
      /\ AfterLookUp(t) = "enter" => identity[t] \in 1 .. created
  BY LocalTypes DEF Identities, AfterLookUp
<1>3. x \in RequestState /\ Knows(x, created, signing)
  BY <1>2, LocalTypes DEF RequestState, Knows
<1> QED
  BY <1>1, <1>3, OneRequest DEF TelegramRead

\* sign_in_with_clerk looks up.
LEMMA ClerkReadKeeps ==
  ASSUME IInv, NEW r \in Requests, ClerkRead(r)
  PROVE  IInv'
<1> DEFINE s == request[r].id
           e == request[r].email
           a == IF identity[s] # None THEN identity[s]
                ELSE IF e # None THEN identity[e] ELSE None
           x == [request[r] EXCEPT !.pc = AfterLookUp(s), !.account = a]
<1>1. request' = [request EXCEPT ![r] = x]
  BY DEF ClerkRead
<1>2. s \in Identities /\ e \in Emails \cup {None} /\ Emails \subseteq Identities
  BY LocalTypes DEF ClerkRead, Knows, Identities, RequestState
<1>3. /\ a \in 1 .. created \cup {None}
      /\ AfterLookUp(s) \in {"enter", "register"}
      /\ AfterLookUp(s) = "enter" => a \in 1 .. created
  BY <1>2, LocalTypes DEF AfterLookUp
<1>4. x \in RequestState /\ Knows(x, created, signing)
  <2> HIDE DEF s, e, a
  <2>1. x \in RequestState
    BY <1>3, LocalTypes DEF RequestState
  <2>2. x.pc = AfterLookUp(s) /\ x.id = request[r].id /\ x.account = a
    BY LocalTypes DEF RequestState
  <2> QED
    BY <1>2, <1>3, <2>1, <2>2 DEF Knows, s
<1> HIDE DEF x
<1> QED
  BY <1>1, <1>4, OneRequest DEF ClerkRead

\* A request to revoke sessions is admitted, and finds an administrator or not.
LEMMA RevocationReadsKeep ==
  ASSUME IInv, NEW r \in Requests, AdmitRevocation(r) \/ CheckAdministrator(r)
  PROVE  IInv'
<1>1. CASE AdmitRevocation(r)
  <2>1. PICK a \in 1 .. created :
          request' = [request EXCEPT ![r] = [@ EXCEPT !.pc = "revoke", !.account = a]]
    BY <1>1 DEF AdmitRevocation
  <2> DEFINE x == [request[r] EXCEPT !.pc = "revoke", !.account = a]
  <2>2. x \in RequestState /\ Knows(x, created, signing)
    BY LocalTypes DEF RequestState, Knows
  <2> QED
    BY <1>1, <2>1, <2>2, OneRequest DEF AdmitRevocation
<1>2. CASE CheckAdministrator(r)
  <2> DEFINE x == [request[r] EXCEPT !.pc = "delete"]
  <2>1. x \in RequestState /\ Knows(x, created, signing)
    BY <1>2, LocalTypes DEF RequestState, Knows, CheckAdministrator
  <2>2. IdleRequest \in RequestState /\ Knows(IdleRequest, created, signing)
    BY LocalTypes, Idle
  <2>3. request' = [request EXCEPT ![r] = x] \/ request' = [request EXCEPT ![r] = IdleRequest]
    BY <1>2 DEF CheckAdministrator, GoTo, Finished
  <2>4. UNCHANGED <<rows, allowlist, keys>>
    BY <1>2 DEF CheckAdministrator
  <2> HIDE DEF x
  <2> QED
    BY <2>1, <2>2, <2>3, <2>4, OneRequest
<1> QED
  BY <1>1, <1>2

\* A request that is answered or given up.
LEMMA EndKeeps ==
  ASSUME IInv, NEW r \in Requests, Refuse(r) \/ Fail(r)
  PROVE  IInv'
<1>1. IdleRequest \in RequestState /\ Knows(IdleRequest, created, signing)
  BY LocalTypes, Idle
<1>2. request' = [request EXCEPT ![r] = IdleRequest] /\ UNCHANGED <<rows, allowlist, keys>>
  BY DEF Refuse, Fail, Finished
<1> QED
  BY <1>1, <1>2, OneRequest

----------------------------------------------------------------------------
(* Clerk's keys.                                                           *)

\* A token arrives that Clerk has just signed.
LEMMA ClerkArrivesKeeps ==
  ASSUME IInv, NEW r \in Requests, ClerkArrives(r)
  PROVE  IInv'
<1>1. PICK s \in Subjects, door \in {"customer", "admin"} :
        request' = [request EXCEPT ![r] = [@ EXCEPT
          !.pc = "keys", !.id = s, !.kid = signing, !.door = door]]
  BY DEF ClerkArrives
<1> DEFINE x == [request[r] EXCEPT
          !.pc = "keys", !.id = s, !.kid = signing, !.door = door]
<1>2. s \in Identities /\ signing \in 0 .. MaxKeys
  BY LocalTypes, BoundsAssumption DEF Identities
<1>3. x \in RequestState
  BY <1>2, LocalTypes DEF RequestState
<1>4. x.pc = "keys" /\ x.id = s /\ x.kid = signing
  BY LocalTypes DEF RequestState
<1> HIDE DEF x
<1>5. Knows(x, created, signing)
  BY <1>2, <1>4, LocalTypes DEF Knows
<1> QED
  BY <1>1, <1>3, <1>5, OneRequest DEF ClerkArrives, x

\* An answer is on its way: it holds the key Clerk signs with.
LEMMA ServedKnows ==
  ASSUME IInv, NEW r \in Requests, NEW next \in {"fetched", "refetched"},
         request[r].pc \in {"keys", "refetch"}
  PROVE  LET x == [request[r] EXCEPT !.pc = next, !.answer = signing]
         IN  x \in RequestState /\ Knows(x, created, signing)
<1>1. signing \in 0 .. MaxKeys /\ signing \in 1 .. signing
  BY LocalTypes, BoundsAssumption
<1> QED
  BY <1>1, LocalTypes DEF RequestState, Knows

\* A key set is used: it is the key of the token, or no newer and not it.
LEMMA VerifiedKnows ==
  ASSUME IInv, NEW r \in Requests, NEW key \in 1 .. signing,
         NEW otherwise \in {"refetch", "refused"},
         request[r].pc \in {"keys", "fetched", "refetched"},
         otherwise = "refused" => request[r].kid <= key
  PROVE  LET x == [request[r] EXCEPT
                     !.pc = IF key = request[r].kid THEN "email" ELSE otherwise,
                     !.kid = IF key = request[r].kid THEN 0 ELSE request[r].kid, !.answer = 0]
         IN  x \in RequestState /\ Knows(x, created, signing)
<1> DEFINE x == [request[r] EXCEPT
                   !.pc = IF key = request[r].kid THEN "email" ELSE otherwise,
                   !.kid = IF key = request[r].kid THEN 0 ELSE request[r].kid, !.answer = 0]
<1>1. /\ x \in RequestState
      /\ x.id = request[r].id /\ x.pc \in {"email", "refetch", "refused"}
      /\ x.pc # "email" => x.pc = otherwise /\ x.kid = request[r].kid /\ key # request[r].kid
  BY LocalTypes DEF RequestState
<1>2. request[r].id \in Subjects /\ request[r].kid <= signing /\ request[r].kid \in Nat
  BY LocalTypes, BoundsAssumption DEF Knows, RequestState
<1>3. x.pc = "refused" => x.kid < signing
  BY <1>1, <1>2, LocalTypes
<1> HIDE DEF x
<1>4. Knows(x, created, signing)
  BY <1>1, <1>2, <1>3 DEF Knows
<1> QED
  BY <1>1, <1>4 DEF x

\* The steps of the look-up that leave the cache alone.
LEMMA KeyRequestsKeep ==
  ASSUME IInv, NEW r \in Requests,
         LookUpKeys(r) \/ RefreshKeys(r)
  PROVE  IInv'
<1>1. UNCHANGED <<rows, allowlist, keys>>
  BY DEF LookUpKeys, RefreshKeys
<1>2. CASE \E next \in {"fetched", "refetched"} :
             request[r].pc \in {"keys", "refetch"} /\ ClerkServes(r, next)
  BY <1>1, <1>2, ServedKnows, OneRequest DEF ClerkServes
<1>3. CASE /\ request[r].pc = "keys" /\ cached # None
           /\ VerifyWith(r, cached, "refetch")
  <2>1. cached \in 1 .. signing
    BY <1>3, LocalTypes
  <2> DEFINE x == [request[r] EXCEPT
                     !.pc = IF cached = request[r].kid THEN "email" ELSE "refetch",
                     !.kid = IF cached = request[r].kid THEN 0 ELSE request[r].kid, !.answer = 0]
  <2>2. request' = [request EXCEPT ![r] = x]
    BY <1>3 DEF VerifyWith
  <2>3. x \in RequestState /\ Knows(x, created, signing)
    BY <1>3, <2>1, VerifiedKnows
  <2> HIDE DEF x
  <2> QED
    BY <1>1, <2>2, <2>3, OneRequest
<1> QED
  BY <1>2, <1>3 DEF LookUpKeys, RefreshKeys

\* An answer arrives, is cached and used.
LEMMA ArrivalKeeps ==
  ASSUME IInv, NEW r \in Requests, KeysArrive(r) \/ RefreshArrives(r)
  PROVE  IInv'
<1> DEFINE key == request[r].answer
<1>1. UNCHANGED <<rows, allowlist, signing>> /\ cached' = key
  BY DEF KeysArrive, RefreshArrives
<1>2. PICK otherwise \in {"refetch", "refused"} : VerifyWith(r, key, otherwise)
  BY DEF KeysArrive, RefreshArrives
<1>3. key \in 1 .. signing /\ request[r].kid <= key /\ request[r].pc \in {"fetched", "refetched"}
  BY LocalTypes DEF KeysArrive, RefreshArrives, Knows
<1> DEFINE x == [request[r] EXCEPT
                   !.pc = IF key = request[r].kid THEN "email" ELSE otherwise,
                   !.kid = IF key = request[r].kid THEN 0 ELSE request[r].kid, !.answer = 0]
<1>4. request' = [request EXCEPT ![r] = x]
  BY <1>2 DEF VerifyWith
<1>5. x \in RequestState /\ Knows(x, created, signing)
  <2> HIDE DEF key
  <2> QED
    BY <1>3, VerifiedKnows
<1>6. created' = created /\ signing' = signing /\ created \in Nat
  BY <1>1, LocalTypes DEF rows
<1>7. KeysOK'
  BY <1>1, <1>3, <1>6 DEF IInv, KeysOK
<1> HIDE DEF x
<1>8. created' \in Nat /\ created <= created' /\ Knows(x, created', signing')
  BY <1>5, <1>6
<1>9. RequestsOK'
  BY <1>4, <1>5, <1>6, <1>8, Put
<1> QED
  BY <1>1, <1>7, <1>9, LocalStep

\* The address is known, and the administrators' door may be closed to it.
LEMMA ResolveEmailKeeps ==
  ASSUME IInv, NEW r \in Requests, ResolveEmail(r)
  PROVE  IInv'
<1>1. request[r].id \in Subjects
  BY LocalTypes DEF ResolveEmail, Knows
<1>2. PICK e \in PrimaryEmail[request[r].id] :
        IF request[r].door = "admin" /\ e \notin allowlist
          THEN Finished(r)
          ELSE request' = [request EXCEPT ![r] = [@ EXCEPT
                 !.pc = "read", !.email = e, !.door = "customer"]]
  BY DEF ResolveEmail
<1> DEFINE x == [request[r] EXCEPT !.pc = "read", !.email = e, !.door = "customer"]
<1>3. e \in Emails \cup {None}
  BY <1>1, PrimaryEmailAssumption
<1>4. x \in RequestState /\ x.pc = "read" /\ x.id = request[r].id
  BY <1>3, LocalTypes DEF RequestState
<1>5. IdleRequest \in RequestState /\ Knows(IdleRequest, created, signing)
  BY LocalTypes, Idle
<1>6. request' = [request EXCEPT ![r] = x] \/ request' = [request EXCEPT ![r] = IdleRequest]
  BY <1>2 DEF Finished
<1>7. UNCHANGED <<rows, allowlist, keys>>
  BY DEF ResolveEmail
<1> HIDE DEF x
<1>8. Knows(x, created, signing)
  BY <1>1, <1>4 DEF Knows
<1> QED
  BY <1>4, <1>5, <1>6, <1>7, <1>8, OneRequest

----------------------------------------------------------------------------
(* What writes rows.                                                       *)

\* A request of a known account that ends, or goes on to issue its session.
LEMMA RowStep ==
  ASSUME IInv, RowsOK', EveryAccountReachable', RequestsOK', UNCHANGED keys
  PROVE  IInv'
<1>1. KeysOK'
  BY DEF IInv, KeysOK, keys
<1> QED
  BY <1>1, Parts, PTL

\* The role of an account that exists may be set either way.
LEMMA ReconciledType ==
  ASSUME IInv, NEW n \in Nat, created <= n, NEW a \in 1 .. n, NEW e
  PROVE  Reconciled(a, e) \subseteq 1 .. n
BY DEF IInv, TypeOK, Reconciled

\* A session more.
LEMMA IssueType ==
  ASSUME IInv, NEW a \in Accounts, Issue(a)
  PROVE  sessions' \in [Accounts -> 0 .. MaxSessions]
BY BoundsAssumption DEF IInv, TypeOK, Issue

\* The allowlist decides on the role of the account that was found.
LEMMA SignInReconcileKeeps ==
  ASSUME IInv, NEW r \in Requests, SignInReconcile(r)
  PROVE  IInv'
<1> DEFINE x == [request[r] EXCEPT !.pc = "issue"]
<1>1. /\ request' = [request EXCEPT ![r] = x]
      /\ UNCHANGED <<created, identity, sessions, allowlist, keys>>
      /\ admins' = Reconciled(request[r].account, request[r].email)
      /\ request[r].account \in 1 .. created
  BY LocalTypes DEF SignInReconcile, GoTo, Knows
<1>2. x \in RequestState /\ Knows(x, created, signing)
  BY LocalTypes DEF RequestState, Knows, SignInReconcile
<1>3. created \in Nat /\ created' = created /\ signing' = signing
  BY <1>1, LocalTypes DEF keys
<1>4. RowsOK'
  BY <1>1, <1>3, ReconciledType DEF IInv, TypeOK, RowsOK
<1>5. EveryAccountReachable'
  BY <1>1 DEF IInv, EveryAccountReachable
<1> HIDE DEF x
<1>6. created' \in Nat /\ created <= created' /\ Knows(x, created', signing')
  BY <1>2, <1>3
<1>7. RequestsOK'
  BY <1>1, <1>2, <1>3, <1>6, Put
<1> QED
  BY <1>1, <1>4, <1>5, <1>7, RowStep

\* The ends of requests for an account that was found.
LEMMA SignedInKeeps ==
  ASSUME IInv, NEW r \in Requests, SignInIssue(r) \/ Enter(r) \/ RevokeSessions(r)
  PROVE  IInv'
<1>1. /\ Finished(r) /\ UNCHANGED <<created, identity, allowlist, keys>>
      /\ request[r].account \in 1 .. created /\ request[r].account \in Accounts
  BY LocalTypes DEF SignInIssue, Enter, RevokeSessions, Knows
<1>2. created \in Nat /\ created' = created /\ signing' = signing
  BY <1>1, LocalTypes DEF keys
<1>3. admins' \subseteq 1 .. created
  <2>1. CASE UNCHANGED admins
    BY <2>1 DEF IInv, TypeOK
  <2>2. CASE Enter(r)
    <3>1. request[r].account # None
      BY <1>1, NoneIsNothing, <1>2
    <3>2. AccountOf(r) = request[r].account
      BY <3>1 DEF AccountOf
    <3> QED
      BY <1>1, <1>2, <2>1, <2>2, <3>2, ReconciledType DEF Enter, ReconciledUnlessTelegram
  <2> QED
    BY <2>1, <2>2 DEF SignInIssue, RevokeSessions
<1>4. sessions' \in [Accounts -> 0 .. MaxSessions]
  <2>1. CASE Issue(request[r].account)
    BY <1>1, <2>1, IssueType
  <2>2. CASE RevokeSessions(r)
    <3>1. sessions \in [Accounts -> 0 .. MaxSessions] /\ 0 \in 0 .. MaxSessions
      BY BoundsAssumption DEF IInv, TypeOK
    <3>2. sessions' = [sessions EXCEPT ![request[r].account] = 0]
      BY <2>2 DEF RevokeSessions
    <3> QED
      BY <3>1, <3>2
  <2> QED
    BY <2>1, <2>2 DEF SignInIssue, Enter
<1>5. RowsOK'
  BY <1>1, <1>2, <1>3, <1>4 DEF IInv, TypeOK, RowsOK
<1>6. EveryAccountReachable'
  BY <1>1 DEF IInv, EveryAccountReachable
<1>7. created' \in Nat /\ created <= created'
  BY <1>2
<1>8. RequestsOK'
  BY <1>1, <1>2, <1>7, FinishedOK
<1> QED
  BY <1>1, <1>5, <1>6, <1>8, RowStep

\* A first sign-in commits: its account, if it is new, and its identity.
LEMMA RegisterKeeps ==
  ASSUME IInv, NEW r \in Requests, Register(r)
  PROVE  IInv'
<1> DEFINE i == request[r].id
           a == AccountOf(r)
<1>1. /\ Finished(r) /\ UNCHANGED <<allowlist, keys>>
      /\ i \in Identities /\ identity[i] = None /\ identity' = [identity EXCEPT ![i] = a]
      /\ request[r].account \in 1 .. created \cup {None}
  BY LocalTypes DEF Register, InsertIdentity, Knows
<1>2. created \in Nat /\ created' \in Nat /\ created <= created' /\ signing' = signing
  BY <1>1, LocalTypes DEF Register, CreateIfNew, keys
<1>3. /\ created' \in 0 .. MaxAccounts /\ a \in 1 .. created'
      /\ \A b \in 1 .. created' : b = a \/ b \in 1 .. created
  <2>1. created \in 0 .. MaxAccounts /\ MaxAccounts \in Nat
    BY BoundsAssumption DEF IInv, TypeOK
  <2>2. CASE request[r].account # None
    BY <1>1, <2>1, <2>2 DEF Register, CreateIfNew, AccountOf
  <2>3. CASE request[r].account = None
    BY <1>2, <2>1, <2>3 DEF Register, CreateIfNew, AccountOf
  <2> QED
    BY <2>2, <2>3
<1>4. admins' \subseteq 1 .. created'
  <2>1. admins \subseteq 1 .. created'
    BY <1>2 DEF IInv, TypeOK
  <2> QED
    BY <1>2, <1>3, <2>1, ReconciledType DEF Register, ReconciledUnlessTelegram
<1>5. sessions' \in [Accounts -> 0 .. MaxSessions]
  <2>1. a \in Accounts
    BY <1>2, <1>3, BoundsAssumption DEF Accounts
  <2> QED
    BY <2>1, IssueType DEF Register
<1>6. identity' \in [Identities -> 1 .. created' \cup {None}]
  <2>1. identity \in [Identities -> 1 .. created \cup {None}]
    BY DEF IInv, TypeOK
  <2>2. 1 .. created \subseteq 1 .. created'
    BY <1>2
  <2>3. identity \in [Identities -> 1 .. created' \cup {None}]
    BY <2>1, <2>2
  <2> HIDE DEF i, a
  <2> QED
    BY <1>1, <1>3, <2>3
<1>7. RowsOK'
  BY <1>1, <1>3, <1>4, <1>5, <1>6 DEF IInv, TypeOK, RowsOK
<1>8. EveryAccountReachable'
  <2> SUFFICES ASSUME NEW b \in 1 .. created'
               PROVE  \E j \in Identities : identity'[j] = b
    BY DEF EveryAccountReachable
  <2>1. identity \in [Identities -> 1 .. created \cup {None}]
    BY DEF IInv, TypeOK
  <2>2. CASE b = a
    BY <1>1, <2>1, <2>2
  <2>3. CASE b \in 1 .. created
    <3>1. PICK j \in Identities : identity[j] = b
      BY <2>3 DEF IInv, EveryAccountReachable
    <3>2. b # None
      BY <1>2, <2>3, NoneIsNothing
    <3>3. identity'[j] = b
      BY <1>1, <2>1, <3>1, <3>2
    <3> QED
      BY <3>3
  <2> QED
    BY <1>3, <2>2, <2>3
<1>9. RequestsOK'
  BY <1>1, <1>2, FinishedOK
<1> QED
  BY <1>1, <1>7, <1>8, <1>9, RowStep

\* A session ends.
LEMMA ExpireKeeps ==
  ASSUME IInv, NEW a \in Accounts, Expire(a)
  PROVE  IInv'
<1>1. sessions' \in [Accounts -> 0 .. MaxSessions]
  BY BoundsAssumption DEF IInv, TypeOK, Expire
<1>2. UNCHANGED <<created, identity, admins, allowlist, keys, request>> /\ UNCHANGED signing
  BY DEF Expire, keys
<1>3. RowsOK'
  BY <1>1, <1>2 DEF IInv, TypeOK, RowsOK
<1>4. EveryAccountReachable'
  BY <1>2 DEF IInv, EveryAccountReachable
<1>5. RequestsOK'
  BY <1>2 DEF IInv, TypeOK, RequestsOK, Known
<1> QED
  BY <1>2, <1>3, <1>4, <1>5, RowStep

----------------------------------------------------------------------------
(* The surroundings, and every step.                                       *)

\* Clerk signs with another key: what was asked for before is older.
LEMMA RotateKeysKeeps ==
  ASSUME IInv, RotateKeys
  PROVE  IInv'
<1>1. signing \in Nat /\ signing' \in 1 .. MaxKeys /\ signing <= signing' /\ created \in Nat
  BY LocalTypes, BoundsAssumption DEF RotateKeys, IInv, TypeOK
<1>2. UNCHANGED <<rows, allowlist, cached, request>> /\ created' = created
  BY DEF RotateKeys, rows
<1>3. KeysOK'
  BY <1>1, <1>2 DEF IInv, KeysOK
<1>4. ASSUME NEW r \in Requests PROVE Knows(request[r], created, signing')
  <2>1. request[r] \in RequestState /\ Knows(request[r], created, signing)
    BY LocalTypes
  <2> QED
    BY <1>1, <2>1, KnowsGrows
<1>5. RequestsOK'
  BY <1>2, <1>4 DEF IInv, TypeOK, RequestsOK, Known
<1> QED
  BY <1>2, <1>3, <1>5, LocalStep

\* The cache is too old.
LEMMA CacheAgesKeeps ==
  ASSUME IInv, CacheAges
  PROVE  IInv'
<1>1. UNCHANGED <<rows, allowlist, signing, request>> /\ created' = created /\ cached' = None
  BY DEF CacheAges, rows
<1>2. KeysOK' /\ RequestsOK'
  BY <1>1 DEF IInv, TypeOK, KeysOK, RequestsOK, Known
<1> QED
  BY <1>1, <1>2, LocalStep

\* A new process has no requests and no cache.
LEMMA RedeployKeeps ==
  ASSUME IInv, Redeploy
  PROVE  IInv'
<1>1. /\ UNCHANGED <<created, identity, admins, sessions, signing>> /\ cached' = None
      /\ allowlist' \subseteq Emails /\ request' = [r \in Requests |-> IdleRequest]
  BY DEF Redeploy, rows
<1>2. created \in Nat /\ signing \in Nat
  BY BoundsAssumption DEF IInv, TypeOK
<1>3. RowsOK' /\ EveryAccountReachable' /\ KeysOK'
  BY <1>1 DEF IInv, TypeOK, RowsOK, EveryAccountReachable, KeysOK
<1>4. RequestsOK'
  BY <1>1, <1>2, Idle DEF RequestsOK, Known
<1> QED
  BY <1>3, <1>4, Parts, PTL

\* The database is empty and nobody has come yet.
LEMMA InitIInv == Init => IInv
<1> SUFFICES ASSUME Init PROVE IInv
  OBVIOUS
<1>1. RowsOK
  BY BoundsAssumption DEF Init, RowsOK
<1>2. KeysOK /\ EveryAccountReachable
  BY BoundsAssumption DEF Init, KeysOK, EveryAccountReachable
<1>3. RequestsOK
  <2>1. created \in Nat /\ signing \in Nat
    BY DEF Init
  <2> QED
    BY <2>1, Idle DEF Init, RequestsOK, Known
<1> QED
  BY <1>1, <1>2, <1>3, Parts

\* Every step keeps the invariant.
LEMMA NextIInv == IInv /\ [Next]_vars => IInv'
<1> SUFFICES ASSUME IInv, [Next]_vars PROVE IInv'
  OBVIOUS
<1>1. CASE UNCHANGED vars
  <2>1. UNCHANGED <<rows, allowlist, keys, request>> /\ created' = created
    BY <1>1 DEF vars, rows, keys
  <2>2. KeysOK' /\ RequestsOK'
    BY <2>1 DEF IInv, TypeOK, KeysOK, RequestsOK, Known, keys
  <2> QED
    BY <2>1, <2>2, LocalStep
<1>2. ASSUME NEW r \in Requests, RequestStep(r) PROVE IInv'
  <2>1. CASE SignUpRead(r) \/ SignInRead(r) \/ SignInReconcile(r) \/ SignInIssue(r)
    BY <2>1, SignUpReadKeeps, SignInReadKeeps, SignInReconcileKeeps, SignedInKeeps
  <2>2. CASE TelegramRead(r) \/ ClerkRead(r) \/ Enter(r) \/ Register(r)
    BY <2>2, TelegramReadKeeps, ClerkReadKeeps, SignedInKeeps, RegisterKeeps
  <2>3. CASE ClerkArrives(r) \/ LookUpKeys(r) \/ KeysArrive(r) \/ RefreshKeys(r)
    BY <2>3, ClerkArrivesKeeps, KeyRequestsKeep, ArrivalKeeps
  <2>4. CASE RefreshArrives(r) \/ Refuse(r) \/ ResolveEmail(r)
    BY <2>4, ArrivalKeeps, EndKeeps, ResolveEmailKeeps
  <2>5. CASE AdmitRevocation(r) \/ CheckAdministrator(r) \/ RevokeSessions(r) \/ Fail(r)
    BY <2>5, RevocationReadsKeep, SignedInKeeps, EndKeeps
  <2> QED
    BY <1>2, <2>1, <2>2, <2>3, <2>4, <2>5 DEF RequestStep
<1> QED
  BY <1>1, <1>2, ExpireKeeps, RotateKeysKeeps, CacheAgesKeeps, RedeployKeeps DEF Next

\* The invariant holds always.
LEMMA Inductive == Spec => []IInv
BY InitIInv, NextIInv, PTL DEF Spec

----------------------------------------------------------------------------
(* Theorems.                                                               *)

\* Every variable has its type and every request knows what its next step needs, as far
\* as the handlers of api/auth.py and auth/repository.py are followed.
THEOREM TypeCorrect == Spec => []TypeOK
<1>1. IInv => TypeOK
  BY DEF IInv
<1> QED
  BY <1>1, Inductive, PTL

\* However many first sign-ins of however many people overlap (_create_user inside the
\* transaction that inserts the identity), some identity leads to every account.
THEOREM AccountsReachable == Spec => []EveryAccountReachable
<1>1. IInv => EveryAccountReachable
  BY DEF IInv
<1> QED
  BY <1>1, Inductive, PTL

\* Whatever the cache of _clerk_jwk_set holds and in whatever order answers fill it, a
\* token signed with Clerk's current key is not refused for its key.
THEOREM CurrentKeyNeverRefused == Spec => []CurrentKeyAccepted
<1>1. IInv => CurrentKeyAccepted
  BY DEF IInv, Known, Knows, CurrentKeyAccepted
<1> QED
  BY <1>1, Inductive, PTL

=============================================================================
