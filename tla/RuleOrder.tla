------------------------------- MODULE RuleOrder -------------------------------
(***************************************************************************)
(* The order of a workspace's automated replies (api/auto_reply.py, the    *)
(* rule queries of autoreply/repository.py).  The first rule that matches  *)
(* answers, so the order decides what is said.                             *)
(*                                                                         *)
(* A rule has a position that no constraint keeps distinct.  Creating      *)
(* reads the next one before it inserts; editing reads a rule and writes   *)
(* its old position back; arranging reads the rules, compares them with    *)
(* the order it was given and then rewrites one row after the other in a   *)
(* transaction.  Each row it has written stays locked until it commits, so *)
(* two owners who arrange at once may wait for each other, which           *)
(* PostgreSQL resolves by failing one of them.                             *)
(***************************************************************************)
EXTENDS Integers, Sequences, FiniteSetsExt

CONSTANTS
  RuleIds,   \* rule ids: drawn at random, never used twice
  Requests,  \* requests of owners; how many there are bounds the run
  Orders,    \* what an owner may ask for: sequences of rule ids
  First      \* the order to begin with

ASSUME RuleIdsAssumption == RuleIds \subseteq Int
ASSUME OrdersAssumption == Orders \subseteq Seq(RuleIds) /\ First \in Seq(RuleIds)
                           /\ \A i, j \in 1..Len(First) : First[i] = First[j] => i = j

VARIABLES
  row,       \* each id: drawn by nobody yet, a row of auto_reply_rule, or deleted
  position,  \* auto_reply_rule.position, as committed
  lock,      \* external: the transaction a row is locked by
  request,   \* each request: where it is, its rule, the position it read, its order
  arranged,  \* history: the order last committed, later rules behind it
  stale      \* history: what was written since, or the order itself, rests on a read
             \* no longer true

orderVars == <<row, position, lock, request, arranged, stale>>

Free == 0
ASSUME RequestsAssumption == Requests \subseteq Int \ {Free}

Ids(order) == {order[i] : i \in 1..Len(order)}
Live == {p \in RuleIds : row[p] = "live"}

RequestState ==
  [pc : {"new", "insert", "update", "delete", "arrange", "done"},
   rule : RuleIds \cup {Free}, position : Int, order : Seq(RuleIds), step : Nat]

Fresh == [pc |-> "new", rule |-> Free, position |-> 0, order |-> <<>>, step |-> 1]

OrderInit ==
  /\ row = [p \in RuleIds |-> IF p \in Ids(First) THEN "live" ELSE "unborn"]
  /\ position = [p \in RuleIds |-> IF p \in Ids(First)
                                 THEN (CHOOSE i \in 1..Len(First) : First[i] = p) - 1 ELSE 0]
  /\ lock = [p \in RuleIds |-> Free]
  /\ request = [r \in Requests |-> Fresh]
  /\ arranged = First
  /\ stale = FALSE

Done(r) == request' = [request EXCEPT ![r].pc = "done"]

----------------------------------------------------------------------------
(* POST /rules.                                                            *)

\* COALESCE(MAX(position) + 1, 0).
NextPosition == IF Live = {} THEN 0 ELSE Max({position[p] : p \in Live}) + 1

Creating == Cardinality({r \in Requests : request[r].pc = "insert"})

ReadNext(r) ==
  /\ request[r].pc = "new"
  /\ Creating < Cardinality({p \in RuleIds : row[p] = "unborn"})   \* bound: ids to draw
  /\ request' = [request EXCEPT ![r].pc = "insert", ![r].position = NextPosition]
  /\ UNCHANGED <<row, position, lock, arranged, stale>>

CreateRule(r) ==
  /\ request[r].pc = "insert"
  /\ \E p \in RuleIds :
       /\ row[p] = "unborn"
       /\ row' = [row EXCEPT ![p] = "live"]
       /\ position' = [position EXCEPT ![p] = request[r].position]
       /\ arranged' = Append(arranged, p)
  /\ stale' = (stale \/ request[r].position # NextPosition)
  /\ Done(r)
  /\ UNCHANGED lock

----------------------------------------------------------------------------
(* PATCH and DELETE /rules/{rule_id}.                                      *)

\* get_rule: 404 for a rule that is not there.
GetRule(r, p) ==
  /\ request[r].pc = "new"
  /\ request' = [request EXCEPT ![r].pc = IF row[p] = "live" THEN "update" ELSE "done",
                                ![r].rule = p, ![r].position = position[p]]
  /\ UNCHANGED <<row, position, lock, arranged, stale>>

\* The statement waits for a transaction that has the row, and finds none if the rule was
\* deleted (404).
UpdateRule(r) ==
  LET p == request[r].rule IN
  /\ request[r].pc = "update"
  /\ lock[p] = Free
  /\ position' = IF row[p] = "live" THEN [position EXCEPT ![p] = request[r].position]
                 ELSE position
  /\ stale' = (stale \/ (row[p] = "live" /\ request[r].position # position[p]))
  /\ Done(r)
  /\ UNCHANGED <<row, lock, arranged>>

AskDelete(r, p) ==
  /\ request[r].pc = "new"
  /\ request' = [request EXCEPT ![r].pc = "delete", ![r].rule = p]
  /\ UNCHANGED <<row, position, lock, arranged, stale>>

DeleteRule(r) ==
  LET p == request[r].rule IN
  /\ request[r].pc = "delete"
  /\ lock[p] = Free
  /\ row' = IF row[p] = "live" THEN [row EXCEPT ![p] = "gone"] ELSE row
  /\ Done(r)
  /\ UNCHANGED <<position, lock, arranged, stale>>

----------------------------------------------------------------------------
(* POST /rules/reorder.                                                    *)

\* 409 unless the order names every rule of the workspace once.
ReadExisting(r, order) ==
  /\ request[r].pc = "new"
  /\ request' = [request EXCEPT
       ![r].pc = IF Live = Ids(order) /\ Len(order) = Cardinality(Live) THEN "arrange" ELSE "done",
       ![r].order = order]
  /\ UNCHANGED <<row, position, lock, arranged, stale>>

Wanted(r) == request[r].order[request[r].step]

Arranging(r) == request[r].pc = "arrange" /\ request[r].step <= Len(request[r].order)

\* Mutant: every row is written and committed by itself.
PlaceMutant(r) ==
  /\ Arranging(r)
  /\ row[Wanted(r)] = "live" => lock[Wanted(r)] \in {Free, r}
  /\ position' = IF row[Wanted(r)] = "live"
                 THEN [position EXCEPT ![Wanted(r)] = request[r].step - 1] ELSE position
  /\ request' = [request EXCEPT ![r].step = @ + 1]
  /\ UNCHANGED <<row, lock, arranged, stale>>

\* One UPDATE: it takes the row, or finds none because the rule was deleted.
Place(r) ==
  /\ Arranging(r)
  /\ row[Wanted(r)] = "live" => lock[Wanted(r)] \in {Free, r}
  /\ lock' = IF row[Wanted(r)] = "live" THEN [lock EXCEPT ![Wanted(r)] = r] ELSE lock
  /\ request' = [request EXCEPT ![r].step = @ + 1]
  /\ UNCHANGED <<row, position, arranged, stale>>

\* Mutant: the rows stay locked.
ReleasedMutant(r) == lock

Released(r) == [p \in RuleIds |-> IF lock[p] = r THEN Free ELSE lock[p]]

Commit(r) ==
  LET order == request[r].order IN
  /\ request[r].pc = "arrange" /\ request[r].step > Len(order)
  /\ position' = [p \in RuleIds |-> IF lock[p] = r THEN (CHOOSE i \in 1..Len(order) : order[i] = p) - 1
                                  ELSE position[p]]
  /\ lock' = Released(r)
  /\ arranged' = order
  /\ stale' = ~(Live \subseteq Ids(order))
  /\ Done(r)
  /\ UNCHANGED row

\* The process or its connection is lost: PostgreSQL rolls the transaction back.
Crash(r) ==
  /\ request[r].pc \notin {"new", "done"}
  /\ lock' = Released(r)
  /\ Done(r)
  /\ UNCHANGED <<row, position, arranged, stale>>

\* Whom r waits for.
Holder(r) ==
  CASE Arranging(r) /\ row[Wanted(r)] = "live" /\ lock[Wanted(r)] # r -> lock[Wanted(r)]
    [] request[r].pc \in {"update", "delete"} -> lock[request[r].rule]
    [] OTHER -> Free

\* PostgreSQL's deadlock detector fails one of those that wait in a circle.
DeadlockFails(r) ==
  /\ \E circle \in SUBSET Requests : r \in circle /\ {Holder(s) : s \in circle} = circle
  /\ lock' = Released(r)
  /\ Done(r)
  /\ UNCHANGED <<row, position, arranged, stale>>

----------------------------------------------------------------------------

Begin(r) ==
  \/ ReadNext(r)
  \/ \E p \in RuleIds : GetRule(r, p) \/ AskDelete(r, p)
  \/ \E order \in Orders : ReadExisting(r, order)

Continue(r) == CreateRule(r) \/ UpdateRule(r) \/ DeleteRule(r) \/ Place(r) \/ Commit(r)

OrderNext == \E r \in Requests : Begin(r) \/ Continue(r) \/ DeadlockFails(r) \/ Crash(r)

\* A request that has begun goes on, and PostgreSQL looks for deadlocks after a second.
OrderSpec == OrderInit /\ [][OrderNext]_orderVars
        /\ \A r \in Requests : WF_orderVars(Continue(r)) /\ WF_orderVars(DeadlockFails(r))

----------------------------------------------------------------------------
(* Properties.                                                             *)

OrderTypeOK ==
  /\ row \in [RuleIds -> {"unborn", "live", "gone"}]
  /\ position \in [RuleIds -> Int]
  /\ lock \in [RuleIds -> Requests \cup {Free}]
  /\ request \in [Requests -> RequestState]
  /\ arranged \in Seq(RuleIds)
  /\ stale \in BOOLEAN

\* The rules stand in the order that was committed last, strictly, those created since
\* behind them: two orders asked for at once never mix, a failed or interrupted one leaves
\* no trace, and a deleted rule's place is not given away.  It is lost only by a write that
\* rests on a stale read: two rules created at once, a rule edited while it is moved, an
\* order that does not know a new rule.  Even then the next order that knows every rule
\* puts it right, whoever wrote what in between.
ArrangedOrderStands ==
  stale \/ \A i, j \in 1..Len(arranged) :
    i < j /\ {arranged[i], arranged[j]} \subseteq Live
    => position[arranged[i]] < position[arranged[j]]

\* No request waits for ever, though arranging locks rows in the order it was given.
RequestsEnd == \A r \in Requests : request[r].pc # "new" ~> request[r].pc = "done"
=============================================================================
