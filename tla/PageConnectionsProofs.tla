------------------------- MODULE PageConnectionsProofs -------------------------
(***************************************************************************)
(* Theorems about PageConnections for any workspaces, Pages, plans, logins *)
(* and number of overlapping requests.                                     *)
(*                                                                         *)
(* Every property but the first rests on what a request may still do: as   *)
(* long as nobody raced in a workspace there is one request that connects  *)
(* there, it knows the limit that holds, and past the capacity check it    *)
(* has room.  Room, Turns and Logins say so.                               *)
(***************************************************************************)
EXTENDS PageConnections, FiniteSetTheorems, TLAPS

\* A Page whose row a transaction holds is free for it, and it is the only one.
Locks ==
  \A r \in Requests : request[r].pc = "inserted" =>
    /\ ~HeldElsewhere(request[r].ws, request[r].page)
    /\ \A q \in Requests : request[q].pc = "inserted" /\ request[q].page = request[r].page
                             => q = r

Exclusive == Locks /\ OneWorkspacePerPage

\* In a workspace where nobody raced one request connects at a time, under the limit
\* that holds.
Turns ==
  \A w \in Workspaces \ raced : \A r \in Requests : request[r].ws = w =>
    /\ request[r].limit = limit[w]
    /\ \A q \in Requests : {r, q} \subseteq ConnectingIn(w) => q = r

\* It has room for what it is about to connect.
Room ==
  \A w \in Workspaces \ raced :
    /\ Cardinality(PagesOf(w)) <= limit[w]
    /\ \A r \in ConnectingIn(w) : request[r].pc \in {"clash", "insert", "inserted"} =>
         \/ <<w, request[r].page>> \in connections
         \/ Cardinality(PagesOf(w)) < limit[w]

Capacity == Turns /\ Room

\* A request that selects from a login does so for the login's workspace; only a
\* selection picks, and it leaves no login to select from.
Logins ==
  /\ \A r \in Requests : request[r].pc \in Connecting /\ request[r].att # None =>
       /\ attempt[request[r].att].ws = request[r].ws
       /\ attempt[request[r].att].state # "none"
  /\ \A r \in Requests : request[r].pc = "validate" => request[r].att = None
  /\ \A a \in Attempts : attempt[a].state \in {"none", "open"} => picked[a] = {}
  /\ \A a \in Attempts \ raced :
       /\ \A r, q \in Selecting(a) : q = r
       /\ Selecting(a) # {} => picked[a] = {}
       /\ \E p \in Pages \cup {None} : picked[a] \subseteq {p}

----------------------------------------------------------------------------
(* Types.                                                                  *)

\* What one request must know.
Knows(x) ==
  /\ x.pc = "idle" => x = IdleRequest
  /\ x.pc \in Connecting => x.ws # None /\ x.page # None
  /\ x.pc \in {"exchange", "store", "inserted"} => x.att # None
  /\ x.pc = "validate" => x.ws # None

LEMMA IdleType ==
  /\ IdleRequest \in RequestState /\ Knows(IdleRequest)
  /\ IdleRequest.pc = "idle" /\ IdleRequest.ws = None /\ IdleRequest.limit = 0
  /\ IdleRequest.page = None /\ IdleRequest.att = None /\ IdleRequest.offered = {}
BY DEF IdleRequest, RequestState, Knows, Connecting

LEMMA LocalType ==
  ASSUME TypeOK, NEW r \in Requests PROVE request[r] \in RequestState /\ Knows(request[r])
BY DEF TypeOK, RequestsKnow, Knows

\* A step of one request changes that request's local state only.
LEMMA Put ==
  ASSUME TypeOK, NEW r \in Requests, NEW x \in RequestState, Knows(x),
         request' = [request EXCEPT ![r] = x]
  PROVE  /\ request' \in [Requests -> RequestState] /\ RequestsKnow'
         /\ request'[r] = x /\ \A q \in Requests \ {r} : request'[q] = request[q]
BY DEF TypeOK, RequestsKnow, Knows

\* The local states a request goes through.
LEMMA ValidateType ==
  ASSUME TypeOK, NEW w \in Workspaces
  PROVE  LET x == [IdleRequest EXCEPT !.pc = "validate", !.ws = w, !.limit = limit[w]] IN
         /\ x \in RequestState /\ Knows(x) /\ x.pc = "validate" /\ x.ws = w
         /\ x.limit = limit[w] /\ x.att = None
<1>1. limit[w] \in Limits /\ w # None
  BY NoneIsNothing DEF TypeOK
<1> QED
  BY <1>1 DEF IdleRequest, RequestState, Knows, Connecting

LEMMA ExchangeType ==
  ASSUME NEW a \in Attempts
  PROVE  LET x == [IdleRequest EXCEPT !.pc = "exchange", !.att = a] IN
         /\ x \in RequestState /\ Knows(x) /\ x.pc = "exchange" /\ x.ws = None
         /\ x.att = a
<1>1. a # None
  BY NoneIsNothing
<1> QED
  BY <1>1 DEF IdleRequest, RequestState, Knows, Connecting

Selection(w, p, a) ==
  [IdleRequest EXCEPT !.pc = "held", !.ws = w, !.limit = limit[w], !.page = p, !.att = a]

LEMMA SelectType ==
  ASSUME TypeOK, NEW w \in Workspaces, NEW p \in Pages, NEW a \in Attempts
  PROVE  LET x == Selection(w, p, a) IN
         /\ x \in RequestState /\ Knows(x) /\ x.pc = "held" /\ x.ws = w
         /\ x.limit = limit[w] /\ x.page = p /\ x.att = a
<1>1. limit[w] \in Limits /\ w # None /\ p # None
  BY NoneIsNothing DEF TypeOK
<1> QED
  BY <1>1 DEF Selection, IdleRequest, RequestState, Knows, Connecting

LEMMA HeldType ==
  ASSUME TypeOK, NEW r \in Requests, request[r].pc = "validate", NEW p \in Pages
  PROVE  LET x == [request[r] EXCEPT !.pc = "held", !.page = p] IN
         /\ x \in RequestState /\ Knows(x) /\ x.pc = "held" /\ x.ws = request[r].ws
         /\ x.limit = request[r].limit /\ x.page = p /\ x.att = request[r].att
<1>1. request[r] \in RequestState /\ Knows(request[r]) /\ p # None
  BY LocalType, NoneIsNothing
<1> QED
  BY <1>1 DEF RequestState, Knows, Connecting

LEMMA StoreType ==
  ASSUME TypeOK, NEW r \in Requests, request[r].pc = "exchange", NEW o \in SUBSET Pages
  PROVE  LET x == [request[r] EXCEPT !.pc = "store", !.offered = o] IN
         /\ x \in RequestState /\ Knows(x) /\ x.pc = "store" /\ x.ws = request[r].ws
         /\ x.limit = request[r].limit /\ x.att = request[r].att
<1>1. request[r] \in RequestState /\ Knows(request[r])
  BY LocalType
<1> QED
  BY <1>1 DEF RequestState, Knows, Connecting

LEMMA Advance ==
  ASSUME TypeOK, NEW r \in Requests, request[r].pc \in Connecting,
         NEW p \in {"count", "clash", "insert", "inserted"},
         p = "inserted" => request[r].att # None
  PROVE  LET x == [request[r] EXCEPT !.pc = p] IN
         /\ x \in RequestState /\ Knows(x) /\ x.pc = p /\ x.ws = request[r].ws
         /\ x.limit = request[r].limit /\ x.page = request[r].page /\ x.att = request[r].att
<1>1. request[r] \in RequestState /\ Knows(request[r])
  BY LocalType
<1> QED
  BY <1>1 DEF RequestState, Knows, Connecting

\* Every step of a request puts some local state that knows what it must.
Local(r, x) == x \in RequestState /\ Knows(x) /\ request' = [request EXCEPT ![r] = x]

LEMMA LocalPut ==
  ASSUME TypeOK, NEW r \in Requests, NEW x, Local(r, x)
  PROVE  /\ request' \in [Requests -> RequestState] /\ RequestsKnow'
         /\ request'[r] = x /\ \A q \in Requests \ {r} : request'[q] = request[q]
BY Put DEF Local

\* A request that ends.
Ends(r) ==
  ManualRefused(r) \/ CallbackRefused(r) \/ CallbackStore(r) \/ InsertAborts(r)
  \/ SelectCommit(r) \/ Crash(r)

LEMMA EndsLocal == ASSUME NEW r, Ends(r) PROVE Local(r, IdleRequest)
BY IdleType DEF Ends, Local, Finished, ManualRefused, CallbackRefused, CallbackStore,
   InsertAborts, SelectCommit, Crash

\* A request that passes a check of _require_capacity and add_page_connection, or not.
Checks(r) ==
  CheckHeld(r) \/ CheckCapacity(r) \/ CheckClash(r) \/ (Insert(r) /\ request[r].att # None)

LEMMA ChecksLocal ==
  ASSUME TypeOK, NEW r \in Requests, Checks(r)
  PROVE  /\ UNCHANGED <<rows, history>> /\ request[r].pc \in Connecting
         /\ \/ Local(r, IdleRequest)
            \/ \E p \in {"count", "clash", "insert", "inserted"} :
                 /\ p = "inserted" => Insert(r) /\ request[r].att # None
                 /\ p = "clash" => \/ <<request[r].ws, request[r].page>> \in connections
                                   \/ Cardinality(PagesOf(request[r].ws)) < request[r].limit
                 /\ p \in {"insert", "inserted"} => request[r].pc \in {"clash", "insert"}
                 /\ Local(r, [request[r] EXCEPT !.pc = p])
<1>1. CASE CheckHeld(r)
  <2>1. request[r].pc \in Connecting
    BY <1>1 DEF CheckHeld, Connecting
  <2>2. CASE <<request[r].ws, request[r].page>> \in connections
    <3>1. request' = [request EXCEPT ![r] = [request[r] EXCEPT !.pc = "clash"]]
      BY <1>1, <2>2 DEF CheckHeld, TypeOK
    <3> QED
      BY <1>1, <2>1, <2>2, <3>1, Advance DEF CheckHeld, Local
  <2>3. CASE <<request[r].ws, request[r].page>> \notin connections
    <3>1. request' = [request EXCEPT ![r] = [request[r] EXCEPT !.pc = "count"]]
      BY <1>1, <2>3 DEF CheckHeld, TypeOK
    <3> QED
      BY <1>1, <2>1, <3>1, Advance DEF CheckHeld, Local
  <2> QED
    BY <2>2, <2>3
<1>2. CASE CheckCapacity(r)
  <2>1. request[r].pc \in Connecting
    BY <1>2 DEF CheckCapacity, Connecting
  <2>2. CASE Cardinality(PagesOf(request[r].ws)) >= request[r].limit
    BY <1>2, <2>1, <2>2, IdleType DEF CheckCapacity, Local
  <2>3. CASE ~(Cardinality(PagesOf(request[r].ws)) >= request[r].limit)
    <3>1. request' = [request EXCEPT ![r] = [request[r] EXCEPT !.pc = "clash"]]
      BY <1>2, <2>3 DEF CheckCapacity, TypeOK
    <3>2. Cardinality(PagesOf(request[r].ws)) \in Nat /\ request[r].limit \in Nat
      <4>1. IsFiniteSet(PagesOf(request[r].ws))
        BY PagesAssumption, FS_Subset DEF PagesOf
      <4>2. Cardinality(PagesOf(request[r].ws)) \in Nat
        BY <4>1, FS_CardinalityType
      <4>3. request[r] \in RequestState
        BY LocalType
      <4>4. request[r].limit \in Limits \cup {0}
        BY <4>3 DEF RequestState
      <4>5. request[r].limit \in Nat
        BY <4>4, LimitsAssumption
      <4> QED
        BY <4>2, <4>5
    <3>3. Cardinality(PagesOf(request[r].ws)) < request[r].limit
      BY <2>3, <3>2
    <3> QED
      BY <1>2, <2>1, <3>1, <3>3, Advance DEF CheckCapacity, Local
  <2> QED
    BY <2>2, <2>3
<1>3. CASE CheckClash(r)
  <2>1. request[r].pc \in Connecting
    BY <1>3 DEF CheckClash, Connecting
  <2>2. CASE HeldElsewhere(request[r].ws, request[r].page)
    BY <1>3, <2>1, <2>2, IdleType DEF CheckClash, Local
  <2>3. CASE ~HeldElsewhere(request[r].ws, request[r].page)
    <3>1. request' = [request EXCEPT ![r] = [request[r] EXCEPT !.pc = "insert"]]
      BY <1>3, <2>3 DEF CheckClash, TypeOK
    <3> QED
      BY <1>3, <2>1, <3>1, Advance DEF CheckClash, Local
  <2> QED
    BY <2>2, <2>3
<1>4. CASE Insert(r) /\ request[r].att # None
  <2>1. request[r].pc \in Connecting /\ UNCHANGED <<rows, history>>
    BY <1>4 DEF Insert, Connecting, rows, history
  <2>2. request' = [request EXCEPT ![r] = [request[r] EXCEPT !.pc = "inserted"]]
    BY <1>4 DEF Insert, TypeOK
  <2> QED
    BY <1>4, <2>1, <2>2, Advance DEF Insert, Local
<1> QED
  BY <1>1, <1>2, <1>3, <1>4 DEF Checks

\* The request of a selection that ends belongs to a login, that of a callback too.
LEMMA AttType ==
  ASSUME TypeOK, NEW r \in Requests, request[r].pc \in {"exchange", "store", "inserted"}
  PROVE  request[r].att \in Attempts
<1>1. request[r] \in RequestState /\ Knows(request[r])
  BY LocalType
<1> QED
  BY <1>1 DEF RequestState, Knows

LEMMA PlaceType ==
  ASSUME TypeOK, NEW r \in Requests, request[r].pc \in Connecting
  PROVE  request[r].ws \in Workspaces /\ request[r].page \in Pages
<1>1. request[r] \in RequestState /\ Knows(request[r])
  BY LocalType
<1> QED
  BY <1>1 DEF RequestState, Knows

LEMMA ConnectedType ==
  ASSUME TypeOK, NEW r \in Requests, request[r].pc \in Connecting
  PROVE  Connected(r) \subseteq Workspaces \X Pages
BY PlaceType DEF Connected, TypeOK

\* Logins that were started stay so, for their workspaces.
Lasts ==
  /\ attempt' \in [Attempts -> Attempt]
  /\ \A a \in Attempts : attempt[a].state # "none" =>
       attempt'[a].state # "none" /\ attempt'[a].ws = attempt[a].ws

\* A new one is for a workspace too.
Grows ==
  /\ Lasts
  /\ \A a \in Attempts : attempt'[a].state # "none" => attempt'[a].ws # None

\* A request that puts a local state without a login, or with one that was started.
LEMMA TypePut ==
  ASSUME TypeOK, NEW r \in Requests, NEW x, Local(r, x),
         x.att # None => x.att \in Attempts /\ attempt[x.att].state # "none",
         connections' \subseteq Workspaces \X Pages, UNCHANGED limit, Grows,
         picked' \in [Attempts -> SUBSET Pages], raced' \subseteq Workspaces \cup Attempts
  PROVE  TypeOK'
<1>1. /\ request' \in [Requests -> RequestState] /\ RequestsKnow' /\ request'[r] = x
      /\ \A q \in Requests \ {r} : request'[q] = request[q]
  BY LocalPut
<1>2. LoginsKnow'
  <2>1. \A a \in Attempts : attempt'[a].state # "none" => attempt'[a].ws # None
    BY DEF Grows
  <2>2. ASSUME NEW q \in Requests, request'[q].att # None
        PROVE  attempt'[request'[q].att].state # "none"
    <3>1. CASE q = r
      BY <1>1, <2>2, <3>1 DEF Grows, Lasts
    <3>2. CASE q # r
      <4>1. request'[q] = request[q] /\ request[q] \in RequestState
        BY <1>1, <3>2 DEF TypeOK
      <4>2. request[q].att \in Attempts /\ attempt[request[q].att].state # "none"
        BY <2>2, <4>1 DEF TypeOK, LoginsKnow, RequestState
      <4> QED
        BY <4>1, <4>2 DEF Grows, Lasts
    <3> QED
      BY <3>1, <3>2
  <2> QED
    BY <2>1, <2>2 DEF LoginsKnow
<1> QED
  BY <1>1, <1>2 DEF TypeOK, Grows, Lasts

LEMMA AttKnown ==
  ASSUME TypeOK, NEW r \in Requests, request[r].att # None
  PROVE  request[r].att \in Attempts /\ attempt[request[r].att].state # "none"
BY DEF TypeOK, LoginsKnow, RequestState

LEMMA RowsTyped ==
  ASSUME TypeOK, UNCHANGED <<rows, history>>
  PROVE  /\ connections' \subseteq Workspaces \X Pages /\ UNCHANGED limit /\ Grows
         /\ picked' \in [Attempts -> SUBSET Pages] /\ raced' \subseteq Workspaces \cup Attempts
BY DEF TypeOK, LoginsKnow, rows, history, Grows, Lasts

LEMMA EndsType ==
  ASSUME TypeOK, NEW r \in Requests, Ends(r)
  PROVE  TypeOK' /\ Lasts /\ UNCHANGED <<limit, raced>>
<1>1. Local(r, IdleRequest) /\ IdleRequest.att = None
  BY EndsLocal, IdleType
<1>2. CASE ManualRefused(r) \/ CallbackRefused(r) \/ InsertAborts(r) \/ Crash(r)
  <2>1. UNCHANGED <<rows, history>>
    BY <1>2 DEF ManualRefused, CallbackRefused, InsertAborts, Crash
  <2>2. UNCHANGED <<limit, raced>>
    BY <2>1 DEF rows, history
  <2> QED
    BY <1>1, <2>1, <2>2, RowsTyped, TypePut DEF Grows
<1>3. CASE CallbackStore(r)
  <2>1. UNCHANGED <<connections, limit, history>> /\ request[r].pc = "store"
    BY <1>3 DEF CallbackStore
  <2>2. request[r].att \in Attempts /\ request[r].offered \in SUBSET Pages
    BY <2>1, AttType, LocalType DEF RequestState
  <2>3. Grows
    BY <1>3, <2>2 DEF CallbackStore, TypeOK, LoginsKnow, Attempt, Grows, Lasts
  <2> QED
    BY <1>1, <2>1, <2>3, TypePut DEF TypeOK, history, Grows
<1>4. CASE SelectCommit(r)
  <2>1. UNCHANGED <<limit, raced>> /\ connections' = Connected(r) /\ request[r].pc = "inserted"
    BY <1>4 DEF SelectCommit
  <2>2. /\ request[r].att \in Attempts /\ request[r].page \in Pages
        /\ Connected(r) \subseteq Workspaces \X Pages
    BY <2>1, AttType, PlaceType, ConnectedType DEF Connecting
  <2>3. request[r].att # None
    BY <2>2, NoneIsNothing
  <2>4. attempt[request[r].att].state # "none"
    BY <2>3, AttKnown
  <2>5. attempt' = attempt \/ attempt' = [attempt EXCEPT ![request[r].att].state = "spent"]
    BY <1>4 DEF SelectCommit
  <2>6. Grows
    BY <2>2, <2>4, <2>5 DEF TypeOK, LoginsKnow, Attempt, Grows, Lasts
  <2>7. picked' \in [Attempts -> SUBSET Pages]
    BY <1>4, <2>2 DEF SelectCommit, TypeOK
  <2> QED
    BY <1>1, <2>1, <2>2, <2>6, <2>7, TypePut DEF TypeOK, Grows
<1> QED
  BY <1>2, <1>3, <1>4 DEF Ends

LEMMA ChecksType ==
  ASSUME TypeOK, NEW r \in Requests, Checks(r) PROVE TypeOK'
<1>1. UNCHANGED <<rows, history>> /\ request[r].pc \in Connecting
  BY ChecksLocal
<1>2. CASE Local(r, IdleRequest)
  BY <1>1, <1>2, IdleType, RowsTyped, TypePut
<1>3. ASSUME NEW p \in {"count", "clash", "insert", "inserted"},
             p = "inserted" => request[r].att # None,
             Local(r, [request[r] EXCEPT !.pc = p])
      PROVE  TypeOK'
  <2> DEFINE x == [request[r] EXCEPT !.pc = p]
  <2>1. Local(r, x) /\ x.att = request[r].att
    BY <1>1, <1>3, Advance
  <2>2. x.att # None => x.att \in Attempts /\ attempt[x.att].state # "none"
    BY <2>1, AttKnown
  <2> HIDE DEF x
  <2> QED
    BY <1>1, <2>1, <2>2, RowsTyped, TypePut
<1> QED
  BY <1>2, <1>3, ChecksLocal

\* A request that has read the plan it connects under, or has a login to exchange.
Begins(r) == ManualStart(r) \/ CallbackStart(r) \/ CallbackExchanged(r)

LEMMA BeginsLocal ==
  ASSUME TypeOK, NEW r \in Requests, Begins(r)
  PROVE  /\ UNCHANGED <<rows, history>>
         /\ \E x : /\ Local(r, x) /\ x.pc \notin Connecting
                   /\ x.pc = "validate" => x.att = None
                   /\ x.att # None => x.att \in Attempts /\ attempt[x.att].state # "none"
                   /\ \/ x.ws = None
                      \/ x.ws \in Workspaces /\ x.limit = limit[x.ws]
                      \/ x.ws = request[r].ws /\ x.limit = request[r].limit
<1>1. CASE ManualStart(r)
  <2>1. PICK w \in Workspaces : request' = [request EXCEPT ![r] =
          [IdleRequest EXCEPT !.pc = "validate", !.ws = w, !.limit = limit[w]]]
    BY <1>1 DEF ManualStart
  <2> DEFINE x == [IdleRequest EXCEPT !.pc = "validate", !.ws = w, !.limit = limit[w]]
  <2>2. /\ x \in RequestState /\ Knows(x) /\ x.pc = "validate" /\ x.ws = w
        /\ x.limit = limit[w] /\ x.att = None
    BY ValidateType
  <2>3. request' = [request EXCEPT ![r] = x]
    BY <2>1
  <2> HIDE DEF x
  <2>4. Local(r, x) /\ x.pc \notin Connecting
    BY <2>2, <2>3 DEF Local, Connecting
  <2> QED
    BY <1>1, <2>2, <2>4 DEF ManualStart
<1>2. CASE CallbackStart(r)
  <2>1. PICK a \in Attempts : /\ attempt[a].state = "open"
          /\ request' = [request EXCEPT ![r] = [IdleRequest EXCEPT !.pc = "exchange", !.att = a]]
    BY <1>2 DEF CallbackStart
  <2> DEFINE x == [IdleRequest EXCEPT !.pc = "exchange", !.att = a]
  <2>2. /\ x \in RequestState /\ Knows(x) /\ x.pc = "exchange" /\ x.ws = None /\ x.att = a
    BY ExchangeType
  <2>3. request' = [request EXCEPT ![r] = x]
    BY <2>1
  <2> HIDE DEF x
  <2>4. Local(r, x) /\ x.pc \notin Connecting
    BY <2>2, <2>3 DEF Local, Connecting
  <2> QED
    BY <1>2, <2>1, <2>2, <2>4 DEF CallbackStart
<1>3. CASE CallbackExchanged(r)
  <2>1. PICK o \in SUBSET Pages :
          request' = [request EXCEPT ![r].pc = "store", ![r].offered = o]
    BY <1>3 DEF CallbackExchanged
  <2> DEFINE x == [request[r] EXCEPT !.pc = "store", !.offered = o]
  <2>2. request[r].pc = "exchange"
    BY <1>3 DEF CallbackExchanged
  <2>3. /\ x \in RequestState /\ Knows(x) /\ x.pc = "store" /\ x.ws = request[r].ws
        /\ x.limit = request[r].limit /\ x.att = request[r].att
    BY <2>2, StoreType
  <2>4. request' = [request EXCEPT ![r] = x]
    BY <2>1 DEF TypeOK
  <2> HIDE DEF x
  <2>5. Local(r, x) /\ x.pc \notin Connecting
    BY <2>3, <2>4 DEF Local, Connecting
  <2> QED
    BY <1>3, <2>3, <2>5, AttKnown DEF CallbackExchanged
<1> QED
  BY <1>1, <1>2, <1>3 DEF Begins

\* A request that now has a Page to connect.  It knows when it is not the only one.
Joins(r) == ManualValidated(r) \/ SelectStart(r)

LEMMA JoinsLocal ==
  ASSUME TypeOK, NEW r \in Requests, Joins(r)
  PROVE  /\ UNCHANGED <<rows, picked>> /\ raced \subseteq raced'
         /\ raced' \subseteq Workspaces \cup Attempts
         /\ \E x : /\ Local(r, x) /\ x.pc = "held" /\ x.ws \in Workspaces
                   /\ ConnectingIn(x.ws) # {} => x.ws \in raced'
                   /\ \/ x.limit = limit[x.ws]
                      \/ x.ws = request[r].ws /\ x.limit = request[r].limit
                   /\ \/ /\ request[r].pc = "validate" /\ x.att = request[r].att
                      \/ /\ x.att \in Attempts /\ attempt[x.att].state = "open"
                         /\ attempt[x.att].ws = x.ws
                         /\ Selecting(x.att) # {} => x.att \in raced'
<1>1. CASE ManualValidated(r)
  <2>1. PICK p \in Pages : request' = [request EXCEPT ![r].pc = "held", ![r].page = p]
    BY <1>1 DEF ManualValidated
  <2> DEFINE x == [request[r] EXCEPT !.pc = "held", !.page = p]
  <2>2. request[r].pc = "validate" /\ UNCHANGED <<rows, picked>>
    BY <1>1 DEF ManualValidated
  <2>3. /\ x \in RequestState /\ Knows(x) /\ x.pc = "held" /\ x.ws = request[r].ws
        /\ x.limit = request[r].limit /\ x.page = p /\ x.att = request[r].att
    BY <2>2, HeldType
  <2>4. request' = [request EXCEPT ![r] = x]
    BY <2>1 DEF TypeOK
  <2>5. x.ws \in Workspaces
    <3> HIDE DEF x
    <3> QED
      BY <2>3 DEF RequestState, Knows, Connecting
  <2>6. raced' = IF ConnectingIn(request[r].ws) = {} THEN raced ELSE raced \cup {request[r].ws}
    BY <1>1 DEF ManualValidated
  <2> HIDE DEF x
  <2>7. raced \subseteq raced' /\ raced' \subseteq Workspaces \cup Attempts
    BY <2>3, <2>5, <2>6 DEF TypeOK
  <2> QED
    BY <2>2, <2>3, <2>4, <2>5, <2>6, <2>7 DEF Local
<1>2. CASE SelectStart(r)
  <2>1. PICK a \in Attempts : attempt[a].state = "open" /\ \E p \in attempt[a].offered :
            LET w == attempt[a].ws IN
            /\ request' = [request EXCEPT ![r] = [IdleRequest EXCEPT
                 !.pc = "held", !.ws = w, !.limit = limit[w], !.page = p, !.att = a]]
            /\ raced' = raced \cup (IF ConnectingIn(w) = {} THEN {} ELSE {w})
                              \cup (IF Selecting(a) = {} THEN {} ELSE {a})
    BY <1>2 DEF SelectStart
  <2> DEFINE w == attempt[a].ws
  <2>2. PICK p \in attempt[a].offered :
            /\ request' = [request EXCEPT ![r] = [IdleRequest EXCEPT
                 !.pc = "held", !.ws = w, !.limit = limit[w], !.page = p, !.att = a]]
            /\ raced' = raced \cup (IF ConnectingIn(w) = {} THEN {} ELSE {w})
                              \cup (IF Selecting(a) = {} THEN {} ELSE {a})
    BY <2>1
  <2>3. w \in Workspaces /\ p \in Pages
    BY <2>1 DEF TypeOK, LoginsKnow, Attempt
  <2> DEFINE x == Selection(w, p, a)
  <2>4. /\ x \in RequestState /\ Knows(x) /\ x.pc = "held" /\ x.ws = w
        /\ x.limit = limit[w] /\ x.page = p /\ x.att = a
    <3> HIDE DEF w
    <3> QED
      BY <2>3, SelectType
  <2>5. request' = [request EXCEPT ![r] = x]
    BY <2>2 DEF Selection
  <2>6. raced \subseteq raced' /\ raced' \subseteq Workspaces \cup Attempts
    BY <2>2, <2>3 DEF TypeOK
  <2>7. (ConnectingIn(w) # {} => w \in raced') /\ (Selecting(a) # {} => a \in raced')
    BY <2>2
  <2>8. UNCHANGED <<rows, picked>>
    BY <1>2 DEF SelectStart
  <2>9. w = attempt[a].ws
    OBVIOUS
  <2> HIDE DEF x, w
  <2> QED
    BY <2>1, <2>3, <2>4, <2>5, <2>6, <2>7, <2>8, <2>9 DEF Local
<1> QED
  BY <1>1, <1>2 DEF Joins

\* A connection by hand is committed with its INSERT.
Direct(r) == Insert(r) /\ request[r].att = None

LEMMA DirectLocal ==
  ASSUME TypeOK, NEW r \in Requests, Direct(r)
  PROVE  /\ Local(r, IdleRequest) /\ connections' = Connected(r)
         /\ UNCHANGED <<limit, attempt, history>> /\ request[r].pc = "insert"
         /\ ~RowLocked(request[r].page) /\ ~HeldElsewhere(request[r].ws, request[r].page)
BY IdleType DEF Direct, Insert, Local, Finished

\* The steps of the system.
LEMMA Kinds ==
  ASSUME Next
  PROVE  \/ \E r \in Requests : \/ Ends(r) \/ Checks(r) \/ Direct(r)
                                \/ Begins(r) \/ Joins(r) \/ LoginStart(r)
         \/ \E a \in Attempts : Expire(a)
         \/ \E w \in Workspaces, p \in Pages : Disconnect(w, p)
         \/ \E w \in Workspaces : ChangePlan(w)
BY DEF Next, Start, Continue, Ends, Checks, Direct, Begins, Joins

LEMMA LoginStartGrows ==
  ASSUME TypeOK, NEW r \in Requests, LoginStart(r)
  PROVE  /\ Grows /\ UNCHANGED <<connections, limit, request, history>>
         /\ \A a \in Attempts : attempt'[a].state \in {"none", "open"} =>
              attempt[a].state \in {"none", "open"}
         /\ \A a \in Attempts : attempt'[a].state = "spent" => attempt[a].state = "spent"
<1>1. PICK a \in Attempts, w \in Workspaces :
       /\ attempt[a].state = "none"
       /\ attempt' = [b \in Attempts |->
            IF b = a THEN [state |-> "open", ws |-> w, offered |-> {}] ELSE Purged(b)]
  BY DEF LoginStart
<1>2. attempt'[a].state = "open" /\ attempt'[a].ws = w /\ w # None /\ attempt'[a] \in Attempt
  BY <1>1, NoneIsNothing DEF Attempt
<1>3. ASSUME NEW b \in Attempts, b # a
      PROVE  /\ attempt'[b] \in Attempt /\ attempt'[b].ws = attempt[b].ws
             /\ attempt'[b].state = IF attempt[b].state = "expired" THEN "purged"
                                    ELSE attempt[b].state
  BY <1>1, <1>3 DEF Purged, TypeOK, Attempt
<1>4. attempt' \in [Attempts -> Attempt]
  BY <1>1, <1>2, <1>3
<1>5. Lasts
  BY <1>1, <1>3, <1>4 DEF Lasts
<1>6. Grows
  BY <1>2, <1>3, <1>5 DEF Grows, TypeOK, LoginsKnow
<1> QED
  BY <1>1, <1>2, <1>3, <1>6 DEF LoginStart

LEMMA ExpireGrows ==
  ASSUME TypeOK, NEW a \in Attempts, Expire(a)
  PROVE  /\ Grows /\ UNCHANGED <<connections, limit, request, history>>
         /\ \A b \in Attempts : attempt'[b].state \in {"none", "open"} =>
              attempt[b].state \in {"none", "open"}
         /\ \A b \in Attempts : attempt'[b].state = "spent" => attempt[b].state = "spent"
BY DEF Expire, TypeOK, LoginsKnow, Attempt, Grows, Lasts

\* Logins that grow under requests that stand still.
LEMMA TypeLogins ==
  ASSUME TypeOK, Grows, UNCHANGED <<connections, limit, request, history>> PROVE TypeOK'
<1>1. RequestsKnow'
  BY DEF TypeOK, RequestsKnow
<1>2. LoginsKnow'
  <2>1. ASSUME NEW r \in Requests, request'[r].att # None
        PROVE  attempt'[request'[r].att].state # "none"
    BY <2>1, AttKnown DEF Grows, Lasts
  <2> QED
    BY <2>1 DEF LoginsKnow, Grows
<1> QED
  BY <1>1, <1>2 DEF TypeOK, history, Grows, Lasts

LEMMA TypeStep == ASSUME TypeOK, [Next]_vars PROVE TypeOK'
<1>1. ASSUME NEW r \in Requests, Ends(r) PROVE TypeOK'
  BY <1>1, EndsType
<1>2. ASSUME NEW r \in Requests, Checks(r) PROVE TypeOK'
  BY <1>2, ChecksType
<1>3. ASSUME NEW r \in Requests, Direct(r) PROVE TypeOK'
  <2>1. /\ Local(r, IdleRequest) /\ connections' = Connected(r)
        /\ UNCHANGED <<limit, attempt, history>> /\ request[r].pc \in Connecting
    BY <1>3, DirectLocal DEF Connecting
  <2>2. Grows
    BY <2>1 DEF Grows, Lasts, TypeOK, LoginsKnow
  <2> QED
    BY <2>1, <2>2, IdleType, ConnectedType, TypePut DEF TypeOK, history
<1>4. ASSUME NEW r \in Requests, Begins(r) PROVE TypeOK'
  BY <1>4, BeginsLocal, RowsTyped, TypePut
<1>5. ASSUME NEW r \in Requests, Joins(r) PROVE TypeOK'
  <2>1. PICK x : /\ Local(r, x)
                 /\ \/ x.att = request[r].att
                    \/ x.att \in Attempts /\ attempt[x.att].state = "open"
    BY <1>5, JoinsLocal
  <2>2. UNCHANGED <<rows, picked>> /\ raced' \subseteq Workspaces \cup Attempts
    BY <1>5, JoinsLocal
  <2>3. Grows
    BY <2>2 DEF Grows, Lasts, TypeOK, LoginsKnow, rows
  <2> QED
    BY <2>1, <2>2, <2>3, AttKnown, TypePut DEF TypeOK, rows
<1>6. ASSUME NEW r \in Requests, LoginStart(r) PROVE TypeOK'
  BY <1>6, LoginStartGrows, TypeLogins
<1>7. ASSUME NEW a \in Attempts, Expire(a) PROVE TypeOK'
  BY <1>7, ExpireGrows, TypeLogins
<1>8. ASSUME NEW w \in Workspaces, NEW p \in Pages, Disconnect(w, p) PROVE TypeOK'
  BY <1>8 DEF Disconnect, TypeOK, RequestsKnow, LoginsKnow, history
<1>9. ASSUME NEW w \in Workspaces, ChangePlan(w) PROVE TypeOK'
  <2>1. limit' \in [Workspaces -> Limits] /\ raced' \subseteq Workspaces \cup Attempts
    BY <1>9 DEF ChangePlan, TypeOK
  <2> QED
    BY <1>9, <2>1 DEF ChangePlan, TypeOK, RequestsKnow, LoginsKnow
<1>10. CASE UNCHANGED vars
  BY <1>10 DEF vars, rows, history, TypeOK, RequestsKnow, LoginsKnow
<1> QED
  BY <1>1, <1>2, <1>3, <1>4, <1>5, <1>6, <1>7, <1>8, <1>9, <1>10, Kinds

LEMMA TypeInit == ASSUME Init PROVE TypeOK
<1>1. IdleRequest \in RequestState /\ Knows(IdleRequest)
  BY IdleType
<1>2. NoAttempt \in Attempt /\ NoAttempt.state = "none"
  BY DEF NoAttempt, Attempt
<1>3. RequestsKnow
  BY <1>1 DEF Init, RequestsKnow, Knows
<1>4. LoginsKnow
  BY <1>2, IdleType DEF Init, LoginsKnow
<1> QED
  BY <1>1, <1>2, <1>3, <1>4 DEF Init, TypeOK

\* Every request knows at each of its steps the workspace, the Page and the login it
\* works for, and the rows stay well-formed.
THEOREM TypeCorrect == Spec => []TypeOK
<1> QED
  BY TypeInit, TypeStep, PTL DEF Spec

----------------------------------------------------------------------------
(* One workspace for a Page.                                               *)

\* A step after which every transaction with a row had it before, and that adds no Page.
LEMMA ExclusiveQuiet ==
  ASSUME Exclusive, connections' \subseteq connections,
         \A q \in Requests : request'[q].pc = "inserted" => request'[q] = request[q]
  PROVE  Exclusive'
BY DEF Exclusive, Locks, OneWorkspacePerPage, HeldElsewhere

LEMMA ExclusiveLocal ==
  ASSUME TypeOK, Exclusive, NEW r \in Requests, NEW x, Local(r, x), x.pc # "inserted",
         UNCHANGED connections
  PROVE  Exclusive'
BY LocalPut, ExclusiveQuiet

\* The Page is free and nobody else holds its row: it can be connected.
LEMMA ExclusiveConnect ==
  ASSUME TypeOK, Exclusive, NEW r \in Requests, request[r].pc \in {"insert", "inserted"},
         ~HeldElsewhere(request[r].ws, request[r].page),
         \A q \in Requests \ {r} : request[q].pc = "inserted" => request[q].page # request[r].page,
         Local(r, IdleRequest), connections' = Connected(r)
  PROVE  Exclusive'
<1>1. request[r].ws \in Workspaces /\ request[r].page \in Pages
  BY PlaceType DEF Connecting
<1>2. OneWorkspacePerPage'
  <2>1. connections \subseteq Workspaces \X Pages
    BY DEF TypeOK
  <2>2. \A d \in connections : d[2] = request[r].page => d = <<request[r].ws, request[r].page>>
    BY <2>1 DEF HeldElsewhere
  <2> QED
    BY <1>1, <2>2 DEF Exclusive, OneWorkspacePerPage, Connected
<1>3. ASSUME NEW q \in Requests, request'[q].pc = "inserted"
      PROVE  q # r /\ request'[q] = request[q] /\ request[q].pc = "inserted"
             /\ request[q].page # request[r].page
  BY <1>3, LocalPut, IdleType
<1>4. ASSUME NEW q \in Requests, request'[q].pc = "inserted"
      PROVE  ~HeldElsewhere(request[q].ws, request[q].page)'
  BY <1>3, <1>4 DEF Exclusive, Locks, HeldElsewhere, Connected
<1>5. Locks'
  BY <1>3, <1>4 DEF Exclusive, Locks, HeldElsewhere
<1> QED
  BY <1>2, <1>5 DEF Exclusive

LEMMA ExclusiveStep == ASSUME TypeOK, Exclusive, [Next]_vars PROVE Exclusive'
<1>1. ASSUME NEW r \in Requests, Ends(r) PROVE Exclusive'
  <2>1. Local(r, IdleRequest) /\ IdleRequest.pc # "inserted"
    BY <1>1, EndsLocal, IdleType
  <2>2. CASE SelectCommit(r)
    <3>1. request[r].pc = "inserted" /\ connections' = Connected(r)
      BY <2>2 DEF SelectCommit
    <3>2. /\ ~HeldElsewhere(request[r].ws, request[r].page)
          /\ \A q \in Requests \ {r} :
               request[q].pc = "inserted" => request[q].page # request[r].page
      BY <3>1 DEF Exclusive, Locks
    <3> QED
      BY <2>1, <3>1, <3>2, ExclusiveConnect
  <2>3. CASE ~SelectCommit(r)
    <3>1. UNCHANGED connections
      BY <1>1, <2>3 DEF Ends, ManualRefused, CallbackRefused, CallbackStore, InsertAborts,
         Crash, rows
    <3> QED
      BY <2>1, <3>1, ExclusiveLocal
  <2> QED
    BY <2>2, <2>3
<1>2. ASSUME NEW r \in Requests, Checks(r) PROVE Exclusive'
  <2>1. UNCHANGED connections /\ request[r].pc \in Connecting
    BY <1>2, ChecksLocal DEF rows
  <2>2. CASE Local(r, IdleRequest)
    BY <2>1, <2>2, IdleType, ExclusiveLocal
  <2>3. ASSUME NEW p \in {"count", "clash", "insert", "inserted"},
               p = "inserted" => Insert(r) /\ request[r].att # None,
               Local(r, [request[r] EXCEPT !.pc = p])
        PROVE  Exclusive'
    <3> DEFINE x == [request[r] EXCEPT !.pc = p]
    <3>1. /\ Local(r, x) /\ x.pc = p /\ x.ws = request[r].ws /\ x.page = request[r].page
      BY <2>1, <2>3, Advance
    <3> HIDE DEF x
    <3>2. CASE p # "inserted"
      BY <2>1, <3>1, <3>2, ExclusiveLocal
    <3>3. CASE p = "inserted"
      <4>1. ~RowLocked(request[r].page) /\ ~HeldElsewhere(request[r].ws, request[r].page)
        BY <2>3, <3>3 DEF Insert
      <4>2. request'[r] = x /\ \A q \in Requests \ {r} : request'[q] = request[q]
        BY <3>1, LocalPut
      <4>3. ASSUME NEW q \in Requests, request'[q].pc = "inserted"
            PROVE  /\ ~HeldElsewhere(request'[q].ws, request'[q].page)
                   /\ q # r => request'[q].page # request'[r].page
        BY <3>1, <4>1, <4>2, <4>3 DEF Exclusive, Locks, RowLocked
      <4>4. \A q, q1 \in Requests : request'[q].pc = "inserted" /\ request'[q1].pc = "inserted"
              /\ request'[q1].page = request'[q].page => q1 = q
        BY <4>2, <4>3 DEF Exclusive, Locks
      <4>5. Locks'
        BY <2>1, <4>3, <4>4 DEF Locks, HeldElsewhere
      <4> QED
        BY <2>1, <4>5 DEF Exclusive, OneWorkspacePerPage
    <3> QED
      BY <3>2, <3>3
  <2> QED
    BY <1>2, <2>2, <2>3, ChecksLocal
<1>3. ASSUME NEW r \in Requests, Direct(r) PROVE Exclusive'
  <2>1. /\ Local(r, IdleRequest) /\ connections' = Connected(r) /\ request[r].pc = "insert"
        /\ ~RowLocked(request[r].page) /\ ~HeldElsewhere(request[r].ws, request[r].page)
    BY <1>3, DirectLocal
  <2> QED
    BY <2>1, ExclusiveConnect DEF RowLocked
<1>4. ASSUME NEW r \in Requests, Begins(r) PROVE Exclusive'
  <2>1. PICK x : Local(r, x) /\ x.pc \notin Connecting
    BY <1>4, BeginsLocal
  <2> QED
    BY <1>4, <2>1, BeginsLocal, ExclusiveLocal DEF Connecting, rows
<1>5. ASSUME NEW r \in Requests, Joins(r) PROVE Exclusive'
  <2>1. PICK x : Local(r, x) /\ x.pc = "held"
    BY <1>5, JoinsLocal
  <2> QED
    BY <1>5, <2>1, JoinsLocal, ExclusiveLocal DEF rows
<1>6. ASSUME NEW r \in Requests, LoginStart(r) PROVE Exclusive'
  BY <1>6, LoginStartGrows, ExclusiveQuiet
<1>7. ASSUME NEW a \in Attempts, Expire(a) PROVE Exclusive'
  BY <1>7, ExpireGrows, ExclusiveQuiet
<1>8. ASSUME NEW w \in Workspaces, NEW p \in Pages, Disconnect(w, p) PROVE Exclusive'
  BY <1>8, ExclusiveQuiet DEF Disconnect
<1>9. ASSUME NEW w \in Workspaces, ChangePlan(w) PROVE Exclusive'
  BY <1>9, ExclusiveQuiet DEF ChangePlan
<1>10. CASE UNCHANGED vars
  BY <1>10, ExclusiveQuiet DEF vars, rows
<1> QED
  BY <1>1, <1>2, <1>3, <1>4, <1>5, <1>6, <1>7, <1>8, <1>9, <1>10, Kinds

\* No two workspaces ever have the same Page, however their requests overlap: the index
\* serialises the transactions, and nothing is left to the check before.
THEOREM PageExclusive == Spec => []OneWorkspacePerPage
<1>1. Init => Exclusive
  BY IdleType DEF Init, Exclusive, Locks, OneWorkspacePerPage
<1>2. TypeOK /\ Exclusive /\ [Next]_vars => Exclusive'
  BY ExclusiveStep
<1>3. Exclusive => OneWorkspacePerPage
  BY DEF Exclusive
<1> QED
  BY <1>1, <1>2, <1>3, TypeCorrect, PTL DEF Spec

----------------------------------------------------------------------------
(* Within the plan.                                                        *)

LEMMA PagesFinite ==
  ASSUME NEW w PROVE IsFiniteSet(PagesOf(w)) /\ Cardinality(PagesOf(w)) \in Nat
<1>1. PagesOf(w) \subseteq Pages
  BY DEF PagesOf
<1> QED
  BY <1>1, PagesAssumption, FS_Subset, FS_CardinalityType

LEMMA LimitType == ASSUME TypeOK, NEW w \in Workspaces PROVE limit[w] \in Nat
BY LimitsAssumption DEF TypeOK

\* What a step of one request must leave where nobody raced: the request knows the limit,
\* is the only one that connects, and has room.
LEMMA CapacityLocal ==
  ASSUME TypeOK, Capacity, NEW r \in Requests, NEW x, Local(r, x),
         UNCHANGED <<connections, limit>>, raced \subseteq raced',
         x.ws \in Workspaces \ raced' =>
           /\ x.limit = limit[x.ws]
           /\ x.pc \in Connecting => \A q \in Requests \ {r} : q \notin ConnectingIn(x.ws)
           /\ x.pc \in {"clash", "insert", "inserted"} =>
                \/ <<x.ws, x.page>> \in connections
                \/ Cardinality(PagesOf(x.ws)) < limit[x.ws]
  PROVE  Capacity'
<1>1. request'[r] = x /\ \A q \in Requests \ {r} : request'[q] = request[q]
  BY LocalPut
<1>2. \A w : PagesOf(w)' = PagesOf(w)
  BY DEF PagesOf
<1>3. ASSUME NEW w \in Workspaces \ raced', NEW q \in Requests, request'[q].ws = w
      PROVE  request'[q].limit = limit[w]
  BY <1>1, <1>3 DEF Capacity, Turns
<1>4. ASSUME NEW w \in Workspaces \ raced', NEW q \in Requests, NEW q1 \in Requests,
             request'[q].pc \in Connecting, request'[q].ws = w,
             request'[q1].pc \in Connecting, request'[q1].ws = w
      PROVE  q1 = q
  <2>1. CASE q # r /\ q1 # r
    BY <1>1, <1>4, <2>1 DEF Capacity, Turns, ConnectingIn
  <2>2. CASE q = r \/ q1 = r
    BY <1>1, <1>4, <2>2 DEF ConnectingIn
  <2> QED
    BY <2>1, <2>2
<1>5. Turns'
  BY <1>3, <1>4 DEF Turns, ConnectingIn
<1>6. ASSUME NEW w \in Workspaces \ raced'
      PROVE  Cardinality(PagesOf(w)') <= limit[w]
  BY <1>2 DEF Capacity, Room
<1>7. ASSUME NEW w \in Workspaces \ raced', NEW q \in Requests,
             request'[q].pc \in {"clash", "insert", "inserted"}, request'[q].ws = w
      PROVE  \/ <<w, request'[q].page>> \in connections
             \/ Cardinality(PagesOf(w)) < limit[w]
  <2>1. CASE q = r
    BY <1>1, <1>7, <2>1
  <2>2. CASE q # r
    BY <1>1, <1>7, <2>2 DEF Capacity, Room, ConnectingIn, Connecting
  <2> QED
    BY <2>1, <2>2
<1>8. Room'
  BY <1>2, <1>6, <1>7 DEF Room, ConnectingIn
<1> QED
  BY <1>5, <1>8 DEF Capacity

LEMMA CapacityIdle ==
  ASSUME TypeOK, Capacity, NEW r \in Requests, Local(r, IdleRequest),
         UNCHANGED <<connections, limit, raced>>
  PROVE  Capacity'
BY IdleType, NoneIsNothing, CapacityLocal

\* The only request that connects in a workspace connects its Page and is gone.
LEMMA CapacityConnect ==
  ASSUME TypeOK, Capacity, NEW r \in Requests, request[r].pc \in {"insert", "inserted"},
         Local(r, IdleRequest), connections' = Connected(r), UNCHANGED <<limit, raced>>
  PROVE  Capacity'
<1>0. PICK v, p : v = request[r].ws /\ p = request[r].page
  OBVIOUS
<1>1. v \in Workspaces /\ p \in Pages /\ v # None
  BY <1>0, PlaceType, NoneIsNothing DEF Connecting
<1>2. request'[r] = IdleRequest /\ \A q \in Requests \ {r} : request'[q] = request[q]
  BY LocalPut
<1>3. \A q \in Requests : request'[q].pc \in Connecting => q # r /\ request'[q] = request[q]
  BY <1>2, IdleType DEF Connecting
<1>4. Turns'
  <2>1. \A q \in Requests : request'[q].ws \in Workspaces => q # r /\ request'[q] = request[q]
    BY <1>2, IdleType, NoneIsNothing
  <2> QED
    BY <1>3, <2>1 DEF Capacity, Turns, ConnectingIn
<1>5. \A w : w # v => PagesOf(w)' = PagesOf(w)
  BY <1>0 DEF PagesOf, Connected
<1>6. PagesOf(v)' = PagesOf(v) \cup {p}
  <2>1. connections' = connections \cup {<<v, p>>}
    BY <1>0 DEF Connected
  <2>2. \A q \in Pages : <<v, q>> \in connections' <=> q = p \/ <<v, q>> \in connections
    BY <2>1
  <2>3. PagesOf(v)' = {q \in Pages : <<v, q>> \in connections'}
    BY DEF PagesOf
  <2> QED
    BY <1>1, <2>2, <2>3 DEF PagesOf
<1>7. ASSUME NEW w \in Workspaces \ raced, w # v
      PROVE  /\ Cardinality(PagesOf(w)') <= limit[w]
             /\ \A q \in ConnectingIn(w)' :
                  request'[q].pc \in {"clash", "insert", "inserted"} =>
                    \/ <<w, request'[q].page>> \in connections'
                    \/ Cardinality(PagesOf(w)') < limit[w]
  BY <1>0, <1>3, <1>5, <1>7 DEF Capacity, Room, ConnectingIn, Connected
<1>8. ASSUME v \in Workspaces \ raced
      PROVE  Cardinality(PagesOf(v)') <= limit[v] /\ ConnectingIn(v)' = {}
  <2>1. r \in ConnectingIn(v)
    BY <1>0 DEF ConnectingIn, Connecting
  <2>2. ConnectingIn(v)' = {}
    <3>1. ASSUME NEW q \in ConnectingIn(v)' PROVE FALSE
      <4>1. q \in Requests /\ q # r /\ q \in ConnectingIn(v)
        BY <1>3, <3>1 DEF ConnectingIn
      <4>2. {r, q} \subseteq ConnectingIn(v) /\ request[r].ws = v
        BY <1>0, <2>1, <4>1
      <4> QED
        BY <1>8, <4>1, <4>2 DEF Capacity, Turns
    <3> QED
      BY <3>1
  <2>3. <<v, p>> \in connections \/ Cardinality(PagesOf(v)) < limit[v]
    BY <1>0, <1>8, <2>1 DEF Capacity, Room
  <2>4. CASE <<v, p>> \in connections
    <3>1. PagesOf(v)' = PagesOf(v)
      BY <1>1, <1>6, <2>4 DEF PagesOf
    <3> QED
      BY <1>8, <2>2, <3>1 DEF Capacity, Room
  <2>5. CASE <<v, p>> \notin connections /\ Cardinality(PagesOf(v)) < limit[v]
    <3>1. p \notin PagesOf(v)
      BY <2>5 DEF PagesOf
    <3>2. Cardinality(PagesOf(v) \cup {p}) = Cardinality(PagesOf(v)) + 1
      BY <3>1, PagesFinite, FS_AddElement
    <3>3. Cardinality(PagesOf(v)) \in Nat /\ limit[v] \in Nat
      BY <1>1, PagesFinite, LimitType
    <3>4. Cardinality(PagesOf(v)') = Cardinality(PagesOf(v)) + 1
      BY <1>6, <3>2
    <3>5. Cardinality(PagesOf(v)') <= limit[v]
      BY <2>5, <3>3, <3>4
    <3> QED
      BY <2>2, <3>5
  <2> QED
    BY <2>3, <2>4, <2>5
<1>9. Room'
  <2>1. ASSUME NEW w \in Workspaces \ raced
        PROVE  /\ Cardinality(PagesOf(w)') <= limit[w]
               /\ \A q \in ConnectingIn(w)' :
                    request'[q].pc \in {"clash", "insert", "inserted"} =>
                      \/ <<w, request'[q].page>> \in connections'
                      \/ Cardinality(PagesOf(w)') < limit[w]
    <3>1. CASE w = v
      BY <1>8, <3>1
    <3>2. CASE w # v
      BY <1>7, <3>2
    <3> QED
      BY <3>1, <3>2
  <2> QED
    BY <2>1 DEF Room
<1> QED
  BY <1>4, <1>9 DEF Capacity

\* Requests that stand still, while Pages are disconnected.
LEMMA CapacityDisconnect ==
  ASSUME TypeOK, Capacity, NEW v \in Workspaces, NEW p \in Pages, Disconnect(v, p)
  PROVE  Capacity'
<1>1. connections' = connections \ {<<v, p>>} /\ UNCHANGED <<limit, request, raced>>
      /\ <<v, p>> \in connections
  BY DEF Disconnect, history
<1>2. Turns'
  BY <1>1 DEF Capacity, Turns, ConnectingIn
<1>3. \A w : w # v => PagesOf(w)' = PagesOf(w)
  BY <1>1 DEF PagesOf
<1>4. PagesOf(v)' = PagesOf(v) \ {p} /\ p \in PagesOf(v)
  BY <1>1 DEF PagesOf
<1>5. Cardinality(PagesOf(v) \ {p}) = Cardinality(PagesOf(v)) - 1
  BY <1>4, PagesFinite, FS_RemoveElement
<1>6. Cardinality(PagesOf(v)) \in Nat /\ limit[v] \in Nat
  BY PagesFinite, LimitType
<1>7. v \in Workspaces \ raced => Cardinality(PagesOf(v)') < limit[v]
  <2>1. ASSUME v \in Workspaces \ raced PROVE Cardinality(PagesOf(v)) <= limit[v]
    BY <2>1 DEF Capacity, Room
  <2>2. Cardinality(PagesOf(v)') = Cardinality(PagesOf(v)) - 1
    BY <1>4, <1>5
  <2> QED
    BY <1>6, <2>1, <2>2
<1>8. ASSUME NEW w \in Workspaces \ raced, w = v
      PROVE  Cardinality(PagesOf(w)') <= limit[w] /\ Cardinality(PagesOf(w)') < limit[w]
  <2>1. Cardinality(PagesOf(v)') = Cardinality(PagesOf(v)) - 1
    BY <1>4, <1>5
  <2> QED
    BY <1>6, <1>7, <1>8, <2>1
<1>9. ASSUME NEW w \in Workspaces \ raced, w # v
      PROVE  /\ Cardinality(PagesOf(w)') <= limit[w]
             /\ \A q \in ConnectingIn(w) :
                  request[q].pc \in {"clash", "insert", "inserted"} =>
                    \/ <<w, request[q].page>> \in connections'
                    \/ Cardinality(PagesOf(w)') < limit[w]
  BY <1>1, <1>3, <1>9 DEF Capacity, Room
<1>10. Room'
  BY <1>1, <1>8, <1>9 DEF Room, ConnectingIn
<1> QED
  BY <1>2, <1>10 DEF Capacity

LEMMA CapacityPlan ==
  ASSUME TypeOK, Capacity, NEW v \in Workspaces, ChangePlan(v)
  PROVE  Capacity'
<1>1. PICK n \in Limits :
        /\ limit' = [limit EXCEPT ![v] = n]
        /\ raced' = IF n >= Cardinality(PagesOf(v)) /\ \A r \in Requests : request[r].ws # v
                    THEN raced ELSE raced \cup {v}
  BY DEF ChangePlan
<1>2. UNCHANGED <<connections, request>> /\ raced \subseteq raced'
  BY <1>1 DEF ChangePlan
<1>3. \A w \in Workspaces \ {v} : limit'[w] = limit[w]
  BY <1>1 DEF TypeOK
<1>4. v \notin raced' => /\ limit'[v] = n /\ n >= Cardinality(PagesOf(v))
                         /\ \A r \in Requests : request[r].ws # v
  BY <1>1 DEF TypeOK
<1>5. Turns'
  BY <1>2, <1>3, <1>4 DEF Capacity, Turns, ConnectingIn
<1>6. v \notin raced' => Cardinality(PagesOf(v)) <= limit'[v]
  <2>1. Cardinality(PagesOf(v)) \in Nat /\ n \in Nat
    BY PagesFinite, LimitsAssumption
  <2> QED
    BY <1>4, <2>1
<1>7. \A w : PagesOf(w)' = PagesOf(w) /\ ConnectingIn(w)' = ConnectingIn(w)
  BY <1>2 DEF PagesOf, ConnectingIn
<1>8. ASSUME NEW w \in Workspaces \ raced'
      PROVE  /\ Cardinality(PagesOf(w)) <= limit'[w]
             /\ \A r \in ConnectingIn(w) :
                  request[r].pc \in {"clash", "insert", "inserted"} =>
                    \/ <<w, request[r].page>> \in connections
                    \/ Cardinality(PagesOf(w)) < limit'[w]
  <2>1. CASE w = v
    BY <1>4, <1>6, <2>1 DEF ConnectingIn
  <2>2. CASE w # v
    BY <1>2, <1>3, <2>2 DEF Capacity, Room
  <2> QED
    BY <2>1, <2>2
<1>9. Room'
  BY <1>2, <1>7, <1>8 DEF Room
<1> QED
  BY <1>5, <1>9 DEF Capacity

LEMMA CapacityStill ==
  ASSUME Capacity, UNCHANGED <<connections, limit, request, raced>> PROVE Capacity'
BY DEF Capacity, Turns, Room, ConnectingIn, PagesOf

LEMMA CapacityStep == ASSUME TypeOK, Capacity, [Next]_vars PROVE Capacity'
<1>1. ASSUME NEW r \in Requests, Ends(r) PROVE Capacity'
  <2>1. Local(r, IdleRequest) /\ UNCHANGED <<limit, raced>>
    BY <1>1, EndsLocal, EndsType
  <2>2. CASE SelectCommit(r)
    BY <2>1, <2>2, CapacityConnect DEF SelectCommit
  <2>3. CASE ~SelectCommit(r)
    <3>1. UNCHANGED connections
      BY <1>1, <2>3 DEF Ends, ManualRefused, CallbackRefused, CallbackStore, InsertAborts,
         Crash, rows
    <3> QED
      BY <2>1, <3>1, CapacityIdle
  <2> QED
    BY <2>2, <2>3
<1>2. ASSUME NEW r \in Requests, Checks(r) PROVE Capacity'
  <2>1. UNCHANGED <<connections, limit, raced>> /\ request[r].pc \in Connecting
    BY <1>2, ChecksLocal DEF rows, history
  <2>2. CASE Local(r, IdleRequest)
    BY <2>1, <2>2, CapacityIdle
  <2>3. ASSUME NEW p \in {"count", "clash", "insert", "inserted"},
               p = "inserted" => request[r].att # None,
               p = "clash" => \/ <<request[r].ws, request[r].page>> \in connections
                              \/ Cardinality(PagesOf(request[r].ws)) < request[r].limit,
               p \in {"insert", "inserted"} => request[r].pc \in {"clash", "insert"},
               Local(r, [request[r] EXCEPT !.pc = p])
        PROVE  Capacity'
    <3> DEFINE x == [request[r] EXCEPT !.pc = p]
    <3>1. /\ Local(r, x) /\ x.pc = p /\ x.ws = request[r].ws /\ x.page = request[r].page
          /\ x.limit = request[r].limit
      BY <2>1, <2>3, Advance
    <3> HIDE DEF x
    <3>2. ASSUME x.ws \in Workspaces \ raced
          PROVE  /\ x.limit = limit[x.ws]
                 /\ \A q \in Requests \ {r} : q \notin ConnectingIn(x.ws)
                 /\ p \in {"clash", "insert", "inserted"} =>
                      \/ <<x.ws, x.page>> \in connections
                      \/ Cardinality(PagesOf(x.ws)) < limit[x.ws]
      <4>1. r \in ConnectingIn(x.ws) /\ x.limit = limit[x.ws]
        BY <2>1, <3>1, <3>2 DEF ConnectingIn, Capacity, Turns
      <4>2. \A q \in Requests \ {r} : q \notin ConnectingIn(x.ws)
        BY <3>1, <3>2, <4>1 DEF Capacity, Turns
      <4>3. p \in {"clash", "insert", "inserted"} =>
              \/ <<x.ws, x.page>> \in connections
              \/ Cardinality(PagesOf(x.ws)) < limit[x.ws]
        BY <2>3, <3>1, <3>2, <4>1 DEF Capacity, Room
      <4> QED
        BY <4>1, <4>2, <4>3
    <3> QED
      BY <2>1, <3>1, <3>2, CapacityLocal
  <2> QED
    BY <1>2, <2>2, <2>3, ChecksLocal
<1>3. ASSUME NEW r \in Requests, Direct(r) PROVE Capacity'
  BY <1>3, DirectLocal, CapacityConnect DEF history
<1>4. ASSUME NEW r \in Requests, Begins(r) PROVE Capacity'
  <2>1. PICK x : /\ Local(r, x) /\ x.pc \notin Connecting
                 /\ \/ x.ws = None
                    \/ x.ws \in Workspaces /\ x.limit = limit[x.ws]
                    \/ x.ws = request[r].ws /\ x.limit = request[r].limit
    BY <1>4, BeginsLocal
  <2>2. UNCHANGED <<connections, limit, raced>>
    BY <1>4, BeginsLocal DEF rows, history
  <2>3. x.ws \in Workspaces \ raced => x.limit = limit[x.ws]
    BY <2>1, NoneIsNothing DEF Capacity, Turns
  <2>4. x.pc \notin {"clash", "insert", "inserted"}
    BY <2>1 DEF Connecting
  <2> QED
    BY <2>1, <2>2, <2>3, <2>4, CapacityLocal
<1>5. ASSUME NEW r \in Requests, Joins(r) PROVE Capacity'
  <2>1. PICK x : /\ Local(r, x) /\ x.pc = "held" /\ x.ws \in Workspaces
                 /\ ConnectingIn(x.ws) # {} => x.ws \in raced'
                 /\ \/ x.limit = limit[x.ws]
                    \/ x.ws = request[r].ws /\ x.limit = request[r].limit
    BY <1>5, JoinsLocal
  <2>2. UNCHANGED <<connections, limit>> /\ raced \subseteq raced'
    BY <1>5, JoinsLocal DEF rows
  <2>3. x.ws \in Workspaces \ raced' => x.limit = limit[x.ws]
    BY <2>1, <2>2 DEF Capacity, Turns
  <2> QED
    BY <2>1, <2>2, <2>3, CapacityLocal
<1>6. ASSUME NEW r \in Requests, LoginStart(r) PROVE Capacity'
  BY <1>6, LoginStartGrows, CapacityStill DEF history
<1>7. ASSUME NEW a \in Attempts, Expire(a) PROVE Capacity'
  BY <1>7, ExpireGrows, CapacityStill DEF history
<1>8. ASSUME NEW w \in Workspaces, NEW p \in Pages, Disconnect(w, p) PROVE Capacity'
  BY <1>8, CapacityDisconnect
<1>9. ASSUME NEW w \in Workspaces, ChangePlan(w) PROVE Capacity'
  BY <1>9, CapacityPlan
<1>10. CASE UNCHANGED vars
  BY <1>10, CapacityStill DEF vars, rows, history
<1> QED
  BY <1>1, <1>2, <1>3, <1>4, <1>5, <1>6, <1>7, <1>8, <1>9, <1>10, Kinds

LEMMA CapacityInit == ASSUME Init PROVE Capacity
<1>1. \A r \in Requests : request[r] = IdleRequest
  BY DEF Init
<1>2. Turns
  BY <1>1, IdleType, NoneIsNothing DEF Turns, ConnectingIn, Connecting
<1>3. ASSUME NEW w \in Workspaces
      PROVE  Cardinality(PagesOf(w)) <= limit[w] /\ ConnectingIn(w) = {}
  <2>1. PagesOf(w) = {} /\ limit[w] \in Limits
    BY DEF Init, PagesOf
  <2>2. limit[w] \in Nat /\ Cardinality(PagesOf(w)) = 0
    BY <2>1, LimitsAssumption, FS_EmptySet
  <2>3. ConnectingIn(w) = {}
    BY <1>1, IdleType DEF ConnectingIn, Connecting
  <2> QED
    BY <2>2, <2>3
<1>4. Room
  BY <1>3 DEF Room
<1> QED
  BY <1>2, <1>4 DEF Capacity

\* The count a connection is admitted with is still right when its row is inserted, unless
\* another one or a change of the plan came in between.
THEOREM PlanRespected == Spec => []WithinPlanUnlessRaced
<1>1. Capacity /\ TypeOK => WithinPlanUnlessRaced
  <2>1. ASSUME Capacity, TypeOK, NEW w \in Workspaces, Cardinality(PagesOf(w)) > limit[w],
               w \notin raced
        PROVE  FALSE
    <3>1. Cardinality(PagesOf(w)) <= limit[w]
      BY <2>1 DEF Capacity, Room
    <3>2. Cardinality(PagesOf(w)) \in Nat /\ limit[w] \in Nat
      BY <2>1, PagesFinite, LimitType
    <3> QED
      BY <2>1, <3>1, <3>2
  <2> QED
    BY <2>1 DEF WithinPlanUnlessRaced
<1>2. TypeOK /\ Capacity /\ [Next]_vars => Capacity'
  BY CapacityStep
<1> QED
  BY <1>1, <1>2, CapacityInit, TypeCorrect, PTL DEF Spec

----------------------------------------------------------------------------
(* One Page for a login.                                                   *)

\* Logins that do not become selectable again, and are spent by a selection only.
Wears ==
  \A a \in Attempts :
    attempt'[a].state \in {"none", "open"} => attempt[a].state \in {"none", "open"}

\* A step of a request that keeps to its login, or takes up one that is open.
LEMMA LoginsLocal ==
  ASSUME TypeOK, Logins, NEW r \in Requests, NEW x, Local(r, x), Lasts, Wears,
         UNCHANGED picked, raced \subseteq raced',
         x.pc = "validate" => x.att = None,
         x.pc \in Connecting /\ x.att # None =>
           /\ x.att \in Attempts
           /\ attempt[x.att].ws = x.ws /\ attempt[x.att].state # "none"
           /\ \/ request[r].pc \in Connecting /\ x.att = request[r].att
              \/ picked[x.att] = {} /\ (Selecting(x.att) = {} \/ x.att \in raced')
  PROVE  Logins'
<1>1. request'[r] = x /\ \A q \in Requests \ {r} : request'[q] = request[q]
  BY LocalPut
<1>2. ASSUME NEW q \in Requests, request'[q].pc \in Connecting, request'[q].att # None
      PROVE  /\ attempt'[request'[q].att].ws = request'[q].ws
             /\ attempt'[request'[q].att].state # "none"
  <2>1. CASE q = r
    BY <1>1, <1>2, <2>1 DEF Lasts
  <2>2. CASE q # r
    <3>1. request'[q] = request[q] /\ request[q].att \in Attempts
      BY <1>1, <1>2, <2>2, AttKnown
    <3> QED
      BY <1>2, <3>1 DEF Logins, Lasts
  <2> QED
    BY <2>1, <2>2
<1>3. \A q \in Requests : request'[q].pc = "validate" => request'[q].att = None
  BY <1>1 DEF Logins
<1>4. \A a \in Attempts : attempt'[a].state \in {"none", "open"} => picked'[a] = {}
  BY DEF Logins, Wears
<1>5. ASSUME NEW a \in Attempts \ raced'
      PROVE  /\ \A q, q1 \in Selecting(a)' : q1 = q
             /\ Selecting(a)' # {} => picked[a] = {}
  <2>1. CASE r \in Selecting(a)'
    <3>1. x.pc \in Connecting /\ x.att = a /\ a # None
      BY <1>1, <2>1, NoneIsNothing DEF Selecting
    <3>2. CASE request[r].pc \in Connecting /\ x.att = request[r].att
      <4>1. r \in Selecting(a)
        BY <3>1, <3>2 DEF Selecting
      <4>2. \A q \in Selecting(a)' : q \in Selecting(a)
        BY <1>1, <4>1 DEF Selecting
      <4> QED
        BY <4>1, <4>2 DEF Logins
    <3>3. CASE picked[a] = {} /\ Selecting(a) = {}
      <4>1. \A q \in Selecting(a)' : q = r
        BY <1>1, <3>3 DEF Selecting
      <4> QED
        BY <3>3, <4>1
    <3> QED
      BY <3>1, <3>2, <3>3
  <2>2. CASE r \notin Selecting(a)'
    <3>1. \A q \in Selecting(a)' : q \in Selecting(a)
      BY <1>1, <2>2 DEF Selecting
    <3> QED
      BY <3>1 DEF Logins
  <2> QED
    BY <2>1, <2>2
<1>6. \A a \in Attempts \ raced' : \E p \in Pages \cup {None} : picked'[a] \subseteq {p}
  BY DEF Logins
<1>7. \A a \in Attempts \ raced' :
        /\ \A q, q1 \in Selecting(a)' : q1 = q
        /\ Selecting(a)' # {} => picked'[a] = {}
  BY <1>5
<1> QED
  BY <1>2, <1>3, <1>4, <1>6, <1>7 DEF Logins, Selecting

LEMMA LoginsIdle ==
  ASSUME TypeOK, Logins, NEW r \in Requests, Local(r, IdleRequest), Lasts, Wears,
         UNCHANGED <<picked, raced>>
  PROVE  Logins'
BY IdleType, LoginsLocal DEF Connecting

LEMMA LoginsStill ==
  ASSUME TypeOK, Logins, Lasts, Wears, UNCHANGED <<request, history>> PROVE Logins'
<1>1. \A q \in Requests : request[q].pc \in Connecting /\ request[q].att # None =>
        /\ attempt'[request[q].att].ws = request[q].ws
        /\ attempt'[request[q].att].state # "none"
  BY AttKnown DEF Logins, Lasts
<1>2. \A a \in Attempts : attempt'[a].state \in {"none", "open"} => picked[a] = {}
  BY DEF Logins, Wears
<1>3. \A a \in Attempts : Selecting(a)' = Selecting(a)
  BY DEF Selecting
<1> QED
  BY <1>1, <1>2, <1>3 DEF Logins, history

\* The only selection of a login picks its Page and is gone.
LEMMA LoginsCommit ==
  ASSUME TypeOK, Logins, NEW r \in Requests, SelectCommit(r)
  PROVE  Logins'
<1>0. PICK a : a = request[r].att
  OBVIOUS
<1>1. a \in Attempts /\ request[r].page \in Pages /\ a # None /\ request[r].pc \in Connecting
  BY <1>0, AttType, PlaceType, NoneIsNothing DEF SelectCommit, Connecting
<1>2. Local(r, IdleRequest) /\ Lasts /\ UNCHANGED raced
  BY EndsLocal, EndsType DEF Ends
<1>3. request'[r] = IdleRequest /\ \A q \in Requests \ {r} : request'[q] = request[q]
  BY <1>2, LocalPut
<1>4. r \in Selecting(a) /\ \A b \in Attempts : r \notin Selecting(b)' /\ Selecting(b)' \subseteq Selecting(b)
  BY <1>0, <1>1, <1>3, IdleType DEF Selecting, Connecting
<1>5. picked' = [picked EXCEPT ![a] = @ \cup {request[r].page}]
  BY <1>0 DEF SelectCommit
<1>6. attempt[a].state # "none" /\ attempt'[a].state \notin {"none", "open"}
      /\ \A b \in Attempts \ {a} : attempt'[b] = attempt[b]
  BY <1>0, <1>1 DEF SelectCommit, TypeOK, Logins
<1>7. \A b \in Attempts \ {a} : picked'[b] = picked[b]
  BY <1>5 DEF TypeOK
<1>8. ASSUME NEW q \in Requests, request'[q].pc \in Connecting, request'[q].att # None
      PROVE  /\ attempt'[request'[q].att].ws = request'[q].ws
             /\ attempt'[request'[q].att].state # "none"
  <2>1. q # r /\ request'[q] = request[q]
    BY <1>3, <1>8, IdleType DEF Connecting
  <2> QED
    BY <1>2, <1>8, <2>1, AttKnown DEF Logins, Lasts
<1>9. \A q \in Requests : request'[q].pc = "validate" => request'[q].att = None
  BY <1>3, IdleType DEF Logins
<1>10. \A b \in Attempts : attempt'[b].state \in {"none", "open"} => picked'[b] = {}
  BY <1>6, <1>7 DEF Logins
<1>11. ASSUME a \notin raced
       PROVE  Selecting(a)' = {} /\ picked'[a] \subseteq {request[r].page}
  <2>1. picked[a] = {} /\ \A q \in Selecting(a) : q = r
    BY <1>1, <1>4, <1>11 DEF Logins
  <2>2. Selecting(a)' = {}
    BY <1>1, <1>4, <2>1
  <2> QED
    BY <1>1, <1>5, <2>1, <2>2 DEF TypeOK
<1>12. ASSUME NEW b \in Attempts \ raced
       PROVE  /\ \A q, q1 \in Selecting(b)' : q1 = q
              /\ Selecting(b)' # {} => picked'[b] = {}
              /\ \E p \in Pages \cup {None} : picked'[b] \subseteq {p}
  <2>1. CASE b = a
    BY <1>1, <1>11, <2>1
  <2>2. CASE b # a
    BY <1>4, <1>7, <2>2 DEF Logins
  <2> QED
    BY <2>1, <2>2
<1> QED
  BY <1>2, <1>8, <1>9, <1>10, <1>12 DEF Logins

LEMMA LoginsStep == ASSUME TypeOK, Logins, [Next]_vars PROVE Logins'
<1>1. ASSUME NEW r \in Requests, Ends(r) PROVE Logins'
  <2>1. CASE SelectCommit(r)
    BY <2>1, LoginsCommit
  <2>2. CASE CallbackStore(r)
    <3>1. Wears /\ UNCHANGED picked
      BY <2>2 DEF CallbackStore, Wears, TypeOK, Attempt, history
    <3> QED
      BY <1>1, <3>1, EndsLocal, EndsType, LoginsIdle
  <2>3. CASE ~SelectCommit(r) /\ ~CallbackStore(r)
    <3>1. UNCHANGED <<attempt, picked>>
      BY <1>1, <2>3 DEF Ends, ManualRefused, CallbackRefused, InsertAborts, Crash, rows, history
    <3> QED
      BY <1>1, <3>1, EndsLocal, EndsType, LoginsIdle DEF Wears
  <2> QED
    BY <2>1, <2>2, <2>3
<1>2. ASSUME NEW r \in Requests, Checks(r) PROVE Logins'
  <2>1. UNCHANGED <<rows, history>> /\ request[r].pc \in Connecting
    BY <1>2, ChecksLocal
  <2>2. Lasts /\ Wears /\ UNCHANGED <<picked, raced>>
    BY <2>1, RowsTyped DEF Grows, Wears, rows, history
  <2>3. CASE Local(r, IdleRequest)
    BY <2>2, <2>3, LoginsIdle
  <2>4. ASSUME NEW p \in {"count", "clash", "insert", "inserted"},
               p = "inserted" => request[r].att # None,
               Local(r, [request[r] EXCEPT !.pc = p])
        PROVE  Logins'
    <3> DEFINE x == [request[r] EXCEPT !.pc = p]
    <3>1. Local(r, x) /\ x.pc = p /\ x.ws = request[r].ws /\ x.att = request[r].att
      BY <2>1, <2>4, Advance
    <3> HIDE DEF x
    <3>2. x.att # None => x.att \in Attempts /\ attempt[x.att].ws = x.ws
                          /\ attempt[x.att].state # "none"
      BY <2>1, <3>1, AttKnown DEF Logins
    <3> QED
      BY <2>1, <2>2, <3>1, <3>2, LoginsLocal
  <2> QED
    BY <1>2, <2>3, <2>4, ChecksLocal
<1>3. ASSUME NEW r \in Requests, Direct(r) PROVE Logins'
  <2>1. Local(r, IdleRequest) /\ UNCHANGED <<attempt, picked, raced>>
    BY <1>3, DirectLocal DEF history
  <2>2. Lasts /\ Wears
    BY <2>1 DEF Lasts, Wears, TypeOK
  <2> QED
    BY <2>1, <2>2, LoginsIdle
<1>4. ASSUME NEW r \in Requests, Begins(r) PROVE Logins'
  <2>1. PICK x : /\ Local(r, x) /\ x.pc \notin Connecting
                 /\ x.pc = "validate" => x.att = None
    BY <1>4, BeginsLocal
  <2>2. UNCHANGED <<rows, history>>
    BY <1>4, BeginsLocal
  <2>3. Lasts /\ Wears /\ UNCHANGED <<picked, raced>>
    BY <2>2, RowsTyped DEF Grows, Wears, rows, history
  <2> QED
    BY <2>1, <2>3, LoginsLocal
<1>5. ASSUME NEW r \in Requests, Joins(r) PROVE Logins'
  <2>1. PICK x : /\ Local(r, x) /\ x.pc = "held"
                 /\ \/ request[r].pc = "validate" /\ x.att = request[r].att
                    \/ /\ x.att \in Attempts /\ attempt[x.att].state = "open"
                       /\ attempt[x.att].ws = x.ws
                       /\ Selecting(x.att) # {} => x.att \in raced'
    BY <1>5, JoinsLocal
  <2>2. UNCHANGED <<rows, picked>> /\ raced \subseteq raced'
    BY <1>5, JoinsLocal
  <2>3. Lasts /\ Wears
    BY <2>2 DEF Lasts, Wears, TypeOK, rows
  <2>4. x.att # None => /\ x.att \in Attempts /\ attempt[x.att].state = "open"
                        /\ attempt[x.att].ws = x.ws
                        /\ Selecting(x.att) # {} => x.att \in raced'
    BY <2>1 DEF Logins
  <2>5. x.att # None => picked[x.att] = {}
    BY <2>4 DEF Logins
  <2> QED
    BY <2>1, <2>2, <2>3, <2>4, <2>5, LoginsLocal
<1>6. ASSUME NEW r \in Requests, LoginStart(r) PROVE Logins'
  BY <1>6, LoginStartGrows, LoginsStill DEF Grows, Wears
<1>7. ASSUME NEW a \in Attempts, Expire(a) PROVE Logins'
  BY <1>7, ExpireGrows, LoginsStill DEF Grows, Wears
<1>8. CASE UNCHANGED <<attempt, request, picked>> /\ raced \subseteq raced'
  BY <1>8 DEF Logins, Selecting
<1>9. ASSUME NEW w \in Workspaces, NEW p \in Pages, Disconnect(w, p) PROVE Logins'
  BY <1>8, <1>9 DEF Disconnect, history
<1>10. ASSUME NEW w \in Workspaces, ChangePlan(w) PROVE Logins'
  BY <1>8, <1>10 DEF ChangePlan
<1>11. CASE UNCHANGED vars
  BY <1>8, <1>11 DEF vars, rows, history
<1> QED
  BY <1>1, <1>2, <1>3, <1>4, <1>5, <1>6, <1>7, <1>9, <1>10, <1>11, Kinds

LEMMA LoginsInit == ASSUME Init PROVE Logins
BY IdleType DEF Init, Logins, Selecting, Connecting, NoAttempt

\* Two Pages are connected through one login only by two selections of it that overlap.
THEOREM OnePick == Spec => []OnePickUnlessRaced
<1>1. Logins => OnePickUnlessRaced
  <2>1. ASSUME Logins, NEW a \in Attempts, Cardinality(picked[a]) > 1, a \notin raced
        PROVE  FALSE
    <3>1. PICK p \in Pages \cup {None} : picked[a] \subseteq {p}
      BY <2>1 DEF Logins
    <3>2. Cardinality({p}) = 1 /\ Cardinality({}) = 0
      BY FS_Singleton, FS_EmptySet
    <3>3. picked[a] = {} \/ picked[a] = {p}
      BY <3>1
    <3> QED
      BY <2>1, <3>2, <3>3
  <2> QED
    BY <2>1 DEF OnePickUnlessRaced
<1>2. TypeOK /\ Logins /\ [Next]_vars => Logins'
  BY LoginsStep
<1> QED
  BY <1>1, <1>2, LoginsInit, TypeCorrect, PTL DEF Spec

LEMMA SpentStep ==
  ASSUME TypeOK, Logins, [Next]_vars, NEW a \in Attempts,
         attempt[a].state # "spent", attempt'[a].state = "spent"
  PROVE  \E p \in picked'[a] : <<attempt[a].ws, p>> \in connections'
<1>1. ASSUME NEW r \in Requests, Ends(r), ~SelectCommit(r) PROVE FALSE
  <2>1. CASE CallbackStore(r)
    BY <2>1 DEF CallbackStore, TypeOK, Attempt
  <2>2. CASE ~CallbackStore(r)
    BY <1>1, <2>2 DEF Ends, ManualRefused, CallbackRefused, InsertAborts, Crash, rows
  <2> QED
    BY <2>1, <2>2
<1>2. ASSUME NEW r \in Requests, SelectCommit(r)
      PROVE  \E p \in picked'[a] : <<attempt[a].ws, p>> \in connections'
  <2>1. /\ request[r].att \in Attempts /\ request[r].pc \in Connecting
        /\ request[r].att # None
    BY <1>2, AttType, NoneIsNothing DEF SelectCommit, Connecting
  <2>2. a = request[r].att
    BY <1>2, <2>1 DEF SelectCommit, TypeOK
  <2>3. attempt[a].ws = request[r].ws
    BY <2>1, <2>2 DEF Logins
  <2>4. request[r].page \in picked'[a]
    BY <1>2, <2>2 DEF SelectCommit, TypeOK
  <2>5. <<request[r].ws, request[r].page>> \in connections'
    BY <1>2 DEF SelectCommit, Connected
  <2> QED
    BY <2>3, <2>4, <2>5
<1>3. ASSUME NEW r \in Requests, Checks(r) \/ Begins(r) \/ Joins(r) \/ Direct(r) PROVE FALSE
  <2>1. UNCHANGED attempt
    BY <1>3, ChecksLocal, BeginsLocal, JoinsLocal, DirectLocal DEF rows
  <2> QED
    BY <2>1
<1>4. ASSUME NEW r \in Requests, LoginStart(r) PROVE FALSE
  BY <1>4, LoginStartGrows
<1>5. ASSUME NEW b \in Attempts, Expire(b) PROVE FALSE
  BY <1>5, ExpireGrows
<1>6. ASSUME NEW w \in Workspaces, NEW p \in Pages, Disconnect(w, p) PROVE FALSE
  BY <1>6 DEF Disconnect
<1>7. ASSUME NEW w \in Workspaces, ChangePlan(w) PROVE FALSE
  BY <1>7 DEF ChangePlan
<1>8. CASE UNCHANGED vars
  BY <1>8 DEF vars, rows
<1> QED
  BY <1>1, <1>2, <1>3, <1>4, <1>5, <1>6, <1>7, <1>8, Kinds

\* A login is deleted only in the transaction that connects a Page of it to the login's own
\* workspace: every selection that fails or dies leaves it to be repeated.
THEOREM SpentTogether == Spec => SpentWithConnection
<1>1. TypeOK /\ Logins /\ [Next]_vars =>
        [\A a \in Attempts : attempt[a].state # "spent" /\ attempt'[a].state = "spent" =>
           \E p \in picked'[a] : <<attempt[a].ws, p>> \in connections']_vars
  BY SpentStep
<1>2. TypeOK /\ Logins /\ [Next]_vars => Logins'
  BY LoginsStep
<1> QED
  BY <1>1, <1>2, LoginsInit, TypeCorrect, PTL DEF Spec, SpentWithConnection
=============================================================================
