--------------------------- MODULE PageConnections ---------------------------
(***************************************************************************)
(* Connecting Facebook Pages to workspaces (api/page_connections.py,       *)
(* integrations/repository.py): by a Page token entered by hand, or by     *)
(* Facebook login, where an attempt row keeps the Pages Facebook offered   *)
(* until one of them is selected.                                          *)
(*                                                                         *)
(* A connection is one INSERT at the end of several reads: the plan of the *)
(* workspace, whether the Page is held already, how many are, whether      *)
(* another workspace has it.  Each is a statement of its own, with a call  *)
(* to Facebook in between.  Only the unique indexes see what others do.    *)
(***************************************************************************)
EXTENDS Naturals, FiniteSets

CONSTANTS
  Workspaces,
  Pages,      \* external_page_id of the Pages that exist on Facebook
  Limits,     \* the page limits of the plans (PLAN_PAGE_LIMITS)
  Attempts,   \* bound: Facebook logins ever started (their state hashes)
  Requests,   \* concurrent requests
  None

ASSUME PagesAssumption == IsFiniteSet(Pages)
ASSUME LimitsAssumption == Limits \subseteq Nat
ASSUME NoneIsNothing == None \notin Workspaces \cup Pages \cup Attempts

VARIABLES
  connections,  \* page_connection: the workspace and the Page of each row
  limit,        \* page limit of each workspace's plan
  attempt,      \* facebook_oauth_attempt
  request,      \* local state of each request
  picked,       \* history: the Pages connected through each attempt
  raced         \* history: workspaces and attempts in which two connections overlapped,
                \* and workspaces whose plan changed under a connection or below its Pages

rows == <<connections, limit, attempt>>
history == <<picked, raced>>
vars == <<rows, request, history>>

\* "spent" is deleted by the selection, "purged" by the clean-up of expired rows.
Attempt == [state : {"none", "open", "expired", "spent", "purged"},
            ws : Workspaces \cup {None},
            offered : SUBSET Pages]     \* candidate_ciphertext

NoAttempt == [state |-> "none", ws |-> None, offered |-> {}]

RequestState ==
  [pc : {"idle", "validate", "held", "count", "clash", "insert", "inserted",
         "exchange", "store"},
   ws : Workspaces \cup {None},
   limit : Limits \cup {0},             \* of the workspace row it read
   page : Pages \cup {None},
   att : Attempts \cup {None},
   offered : SUBSET Pages]

IdleRequest == [pc |-> "idle", ws |-> None, limit |-> 0, page |-> None,
                att |-> None, offered |-> {}]

Init ==
  /\ connections = {}
  /\ limit \in [Workspaces -> Limits]
  /\ attempt = [a \in Attempts |-> NoAttempt]
  /\ request = [r \in Requests |-> IdleRequest]
  /\ picked = [a \in Attempts |-> {}]
  /\ raced = {}

PagesOf(w) == {p \in Pages : <<w, p>> \in connections}

HeldElsewhere(w, p) == \E v \in Workspaces \ {w} : <<v, p>> \in connections

\* A transaction that has inserted or updated the row of a Page holds it.
RowLocked(p) == \E r \in Requests : request[r].pc = "inserted" /\ request[r].page = p

Connecting == {"held", "count", "clash", "insert", "inserted"}

ConnectingIn(w) == {r \in Requests : request[r].pc \in Connecting /\ request[r].ws = w}

Selecting(a) == {r \in Requests : request[r].pc \in Connecting /\ request[r].att = a}

\* Mutant: the local state is left behind.
FinishedMutant(r) == request' = [request EXCEPT ![r].pc = "idle"]

Finished(r) == request' = [request EXCEPT ![r] = IdleRequest]

----------------------------------------------------------------------------
(* A Page token entered by hand.                                           *)

ManualStart(r) ==
  /\ request[r].pc = "idle"
  /\ \E w \in Workspaces :
       request' = [request EXCEPT ![r] =
         [IdleRequest EXCEPT !.pc = "validate", !.ws = w, !.limit = limit[w]]]
  /\ UNCHANGED <<rows, history>>

\* The Page the token belongs to.
ManualValidated(r) ==
  /\ request[r].pc = "validate"
  /\ \E p \in Pages : request' = [request EXCEPT ![r].pc = "held", ![r].page = p]
  /\ raced' = IF ConnectingIn(request[r].ws) = {} THEN raced
              ELSE raced \cup {request[r].ws}
  /\ UNCHANGED <<rows, picked>>

\* 422.
ManualRefused(r) ==
  /\ request[r].pc = "validate"
  /\ Finished(r)
  /\ UNCHANGED <<rows, history>>

----------------------------------------------------------------------------
(* Facebook login.                                                         *)

\* Expired attempts of everybody are deleted first.
Purged(a) == IF attempt[a].state = "expired" THEN [attempt[a] EXCEPT !.state = "purged"]
             ELSE attempt[a]

LoginStart(r) ==
  /\ request[r].pc = "idle"
  /\ \E a \in Attempts, w \in Workspaces :
       /\ attempt[a].state = "none"
       /\ attempt' = [b \in Attempts |->
            IF b = a THEN [state |-> "open", ws |-> w, offered |-> {}] ELSE Purged(b)]
  /\ UNCHANGED <<connections, limit, request, history>>

Expire(a) ==
  /\ attempt[a].state = "open"
  /\ attempt' = [attempt EXCEPT ![a].state = "expired"]
  /\ UNCHANGED <<connections, limit, request, history>>

\* The browser comes back from Facebook with a code and the state, perhaps twice.
CallbackStart(r) ==
  /\ request[r].pc = "idle"
  /\ \E a \in Attempts :
       /\ attempt[a].state = "open"
       /\ request' = [request EXCEPT ![r] = [IdleRequest EXCEPT !.pc = "exchange", !.att = a]]
  /\ UNCHANGED <<rows, history>>

\* exchange_code and list_pages.
CallbackExchanged(r) ==
  /\ request[r].pc = "exchange"
  /\ \E offered \in SUBSET Pages \ {{}} :
       request' = [request EXCEPT ![r].pc = "store", ![r].offered = offered]
  /\ UNCHANGED <<rows, history>>

\* exchange_failed, no_pages.
CallbackRefused(r) ==
  /\ request[r].pc = "exchange"
  /\ Finished(r)
  /\ UNCHANGED <<rows, history>>

\* The UPDATE finds the row, or it is state_expired.
CallbackStore(r) ==
  /\ request[r].pc = "store"
  /\ LET a == request[r].att IN
       attempt' = IF attempt[a].state = "open"
                  THEN [attempt EXCEPT ![a].offered = request[r].offered] ELSE attempt
  /\ Finished(r)
  /\ UNCHANGED <<connections, limit, history>>

\* _oauth_pages and the choice among them; whoever is in another workspace than the
\* attempt's by now gets a 404.
SelectStart(r) ==
  /\ request[r].pc = "idle"
  /\ \E a \in Attempts :
       /\ attempt[a].state = "open"
       /\ \E p \in attempt[a].offered :
            LET w == attempt[a].ws IN
            /\ request' = [request EXCEPT ![r] = [IdleRequest EXCEPT
                 !.pc = "held", !.ws = w, !.limit = limit[w], !.page = p, !.att = a]]
            /\ raced' = raced \cup (IF ConnectingIn(w) = {} THEN {} ELSE {w})
                              \cup (IF Selecting(a) = {} THEN {} ELSE {a})
  /\ UNCHANGED <<rows, picked>>

----------------------------------------------------------------------------
(* _require_capacity and add_page_connection.                              *)

\* Reconnecting a Page never counts against the limit.
CheckHeld(r) ==
  /\ request[r].pc = "held"
  /\ request' = [request EXCEPT ![r].pc =
       IF <<request[r].ws, request[r].page>> \in connections THEN "clash" ELSE "count"]
  /\ UNCHANGED <<rows, history>>

\* Mutant: one Page too many.
CheckCapacityMutant(r) ==
  /\ request[r].pc = "count"
  /\ request' = [request EXCEPT ![r] =
       IF Cardinality(PagesOf(request[r].ws)) > request[r].limit THEN IdleRequest
       ELSE [@ EXCEPT !.pc = "clash"]]
  /\ UNCHANGED <<rows, history>>

\* PageLimitReached: 409.
CheckCapacity(r) ==
  /\ request[r].pc = "count"
  /\ request' = [request EXCEPT ![r] =
       IF Cardinality(PagesOf(request[r].ws)) >= request[r].limit THEN IdleRequest
       ELSE [@ EXCEPT !.pc = "clash"]]
  /\ UNCHANGED <<rows, history>>

\* PageAlreadyConnected: 409.
CheckClash(r) ==
  /\ request[r].pc = "clash"
  /\ request' = [request EXCEPT ![r] =
       IF HeldElsewhere(request[r].ws, request[r].page) THEN IdleRequest
       ELSE [@ EXCEPT !.pc = "insert"]]
  /\ UNCHANGED <<rows, history>>

Connected(r) == connections \cup {<<request[r].ws, request[r].page>>}

\* The index on (provider, external_page_id) is not the one ON CONFLICT names: another
\* workspace was faster, and the request ends with an error nothing catches.
InsertAborts(r) ==
  /\ request[r].pc = "insert"
  /\ ~RowLocked(request[r].page) /\ HeldElsewhere(request[r].ws, request[r].page)
  /\ Finished(r)
  /\ UNCHANGED <<rows, history>>

\* Mutant: no index on the Page, the check before has to do.
InsertUnindexed(r) ==
  /\ request[r].pc = "insert"
  /\ ~RowLocked(request[r].page)
  /\ IF request[r].att = None
     THEN /\ connections' = Connected(r)
          /\ Finished(r)
     ELSE /\ request' = [request EXCEPT ![r].pc = "inserted"]
          /\ UNCHANGED connections
  /\ UNCHANGED <<limit, attempt, history>>

\* The INSERT ... ON CONFLICT DO UPDATE waits for a transaction that has the Page; it
\* is committed at once, or with the deletion of the attempt.
Insert(r) ==
  /\ request[r].pc = "insert"
  /\ ~RowLocked(request[r].page) /\ ~HeldElsewhere(request[r].ws, request[r].page)
  /\ IF request[r].att = None
     THEN /\ connections' = Connected(r)
          /\ Finished(r)
     ELSE /\ request' = [request EXCEPT ![r].pc = "inserted"]
          /\ UNCHANGED connections
  /\ UNCHANGED <<limit, attempt, history>>

\* Mutant: the attempt outlives its selection.
SelectCommitMutant(r) ==
  /\ request[r].pc = "inserted"
  /\ connections' = Connected(r)
  /\ picked' = [picked EXCEPT ![request[r].att] = @ \cup {request[r].page}]
  /\ Finished(r)
  /\ UNCHANGED <<limit, attempt, raced>>

\* DELETE of the attempt, whatever its state, and COMMIT.
SelectCommit(r) ==
  /\ request[r].pc = "inserted"
  /\ connections' = Connected(r)
  /\ LET a == request[r].att IN
     /\ attempt' = IF attempt[a].state = "purged" THEN attempt
                   ELSE [attempt EXCEPT ![a].state = "spent"]
     /\ picked' = [picked EXCEPT ![a] = @ \cup {request[r].page}]
  /\ Finished(r)
  /\ UNCHANGED <<limit, raced>>

----------------------------------------------------------------------------
(* Everything else.                                                        *)

\* Mutant: the attempt is deleted before the transaction, not in it.
CrashMutant(r) ==
  /\ request[r].pc # "idle"
  /\ attempt' = IF request[r].pc = "inserted"
                THEN [attempt EXCEPT ![request[r].att].state = "spent"] ELSE attempt
  /\ Finished(r)
  /\ UNCHANGED <<connections, limit, history>>

\* A request that dies takes its open transaction with it.
Crash(r) ==
  /\ request[r].pc # "idle"
  /\ Finished(r)
  /\ UNCHANGED <<rows, history>>

Disconnect(w, p) ==
  /\ <<w, p>> \in connections /\ ~RowLocked(p)
  /\ connections' = connections \ {<<w, p>>}
  /\ UNCHANGED <<limit, attempt, request, history>>

\* A platform administrator changes the plan of a workspace.
ChangePlan(w) ==
  /\ \E n \in Limits :
       /\ n # limit[w]
       /\ limit' = [limit EXCEPT ![w] = n]
       /\ raced' = IF n >= Cardinality(PagesOf(w))
                      /\ \A r \in Requests : request[r].ws # w
                   THEN raced ELSE raced \cup {w}
  /\ UNCHANGED <<connections, attempt, request, picked>>

Continue(r) ==
  \/ ManualValidated(r) \/ ManualRefused(r)
  \/ CallbackExchanged(r) \/ CallbackRefused(r) \/ CallbackStore(r)
  \/ CheckHeld(r) \/ CheckCapacity(r) \/ CheckClash(r)
  \/ InsertAborts(r) \/ Insert(r) \/ SelectCommit(r)

Start(r) == ManualStart(r) \/ LoginStart(r) \/ CallbackStart(r) \/ SelectStart(r)

Next ==
  \/ \E r \in Requests : Start(r) \/ Continue(r) \/ Crash(r)
  \/ \E a \in Attempts : Expire(a)
  \/ \E w \in Workspaces, p \in Pages : Disconnect(w, p)
  \/ \E w \in Workspaces : ChangePlan(w)

Spec == Init /\ [][Next]_vars

----------------------------------------------------------------------------
(* Properties.                                                             *)

\* What a request must know at each of its steps.
RequestsKnow ==
  \A r \in Requests :
    /\ request[r].pc = "idle" => request[r] = IdleRequest
    /\ request[r].pc \in Connecting => request[r].ws # None /\ request[r].page # None
    /\ request[r].pc \in {"exchange", "store", "inserted"} => request[r].att # None
    /\ request[r].pc = "validate" => request[r].ws # None

\* A login is for a workspace, and a request for a login that was started.
LoginsKnow ==
  /\ \A a \in Attempts : attempt[a].state # "none" => attempt[a].ws # None
  /\ \A r \in Requests : request[r].att # None => attempt[request[r].att].state # "none"

TypeOK ==
  /\ connections \subseteq Workspaces \X Pages
  /\ limit \in [Workspaces -> Limits]
  /\ attempt \in [Attempts -> Attempt]
  /\ request \in [Requests -> RequestState]
  /\ RequestsKnow /\ LoginsKnow
  /\ picked \in [Attempts -> SUBSET Pages]
  /\ raced \subseteq Workspaces \cup Attempts

\* "A Page belongs to one workspace so two clients cannot moderate it at once"
\* (integrations/repository.py), also when two workspaces pass the clash check for it
\* at the same time.
OneWorkspacePerPage == \A c, d \in connections : c[2] = d[2] => c = d

\* The Page limit of the plan holds for connections made one after the other: it is
\* exceeded only after two overlapped, or when the plan itself was changed under them.
WithinPlanUnlessRaced ==
  \A w \in Workspaces : Cardinality(PagesOf(w)) > limit[w] => w \in raced

\* A login connects one Page; more only if two selections of it overlapped.
OnePickUnlessRaced ==
  \A a \in Attempts : Cardinality(picked[a]) > 1 => a \in raced

\* A login is used up only together with the connection it was for: a selection that
\* fails, is refused or dies can be repeated.
SpentWithConnection ==
  [][\A a \in Attempts : attempt[a].state # "spent" /\ attempt'[a].state = "spent" =>
       \E p \in picked'[a] : <<attempt[a].ws, p>> \in connections']_vars
=============================================================================
