-------------------------- MODULE AdministrationProofs --------------------------
(***************************************************************************)
(* Theorems about Administration for any administrators, sessions and      *)
(* numbers of requests.                                                    *)
(*                                                                         *)
(* The trail keeps telling the entitlement because an event that says      *)
(* nothing of a field leaves what the trail says of it alone, and one that *)
(* names the field says what is written, if it becomes visible with none   *)
(* that names the field behind it: that is what being overtaken excludes.  *)
(* A session is ended by one DELETE only, so what requests and events hold *)
(* of ended sessions is disjoint.                                          *)
(***************************************************************************)
EXTENDS Administration, TLAPS

\* What a request or an event holds of ended sessions, it holds alone.
HeldOnce ==
  /\ \A a \in Admins :
       /\ request[a].pc # "record" => request[a].revoked = {}
       /\ \A s \in request[a].revoked : session[s].state = "revoked"
       /\ \A b \in Admins : a # b => request[a].revoked \cap request[b].revoked = {}
       /\ \A k \in DOMAIN audit : request[a].revoked \cap audit[k].revoked = {}
  /\ \A k \in DOMAIN audit : \A s \in audit[k].revoked : session[s].state = "revoked"

Revocations == HeldOnce /\ RevocationsAccounted

\* The place a transaction under way has in the trail: one, with what it will say.
Placed ==
  /\ \A a \in Admins : request[a].pc \in {"begun", "updated"} =>
       \E k \in DOMAIN audit : audit[k].tx = a
  /\ \A k \in DOMAIN audit : \A a \in Admins : audit[k].tx = a =>
       /\ request[a].pc \in {"begun", "updated"}
       /\ audit[k].actor = a /\ audit[k].revoked = {}
       /\ audit[k].to = Audited(request[a].body, request[a].seen)
       /\ \A j \in DOMAIN audit : audit[j].tx = a => j = k

Accounts == Placed /\ AuditAccounts

----------------------------------------------------------------------------
(* Types.                                                                  *)

LEMMA Constants ==
  /\ NewTrial \in Row /\ NewTrial["plan"] = "TRIAL" /\ NewTrial["standing"] = "active"
  /\ Empty \in Body /\ \A f \in Field : Empty[f] = None
  /\ Idle \in RequestState /\ Idle.pc = "idle" /\ Idle.revoked = {}
BY DEF NewTrial, Row, Field, Value, Plan, Standing, Empty, Body, Idle, RequestState

\* A row that a body is written over.
LEMMA WrittenType ==
  ASSUME TypeOK, NEW body \in Body
  PROVE  /\ Written(body) \in Row
         /\ \A f \in Field : Written(body)[f] = IF body[f] = None THEN entitlement[f] ELSE body[f]
<1>1. entitlement \in [Field -> Value] /\ body \in [Field -> Value \cup {None}]
  BY DEF TypeOK, Row, Body
<1>2. Written(body) \in [Field -> Value]
  BY <1>1 DEF Written
<1> QED
  BY <1>1, <1>2, NoneIsNothing DEF Written, TypeOK, Row, Body, Field, Value

LEMMA AuditedType ==
  ASSUME NEW body \in Body, NEW seen \in Row
  PROVE  /\ Audited(body, seen) \in Body
         /\ \A f \in Field : Audited(body, seen)[f] =
              IF f \in Changes(body, seen) THEN body[f] ELSE None
BY DEF Audited, Changes, Supplied, Body, Field, Value

\* The end of a transaction changes the tx of its event, and nothing else of the trail.
LEMMA EndedTrail ==
  ASSUME TypeOK, NEW a \in Admins, NEW tx \in {"committed", "aborted"}, audit' = Ended(a, tx)
  PROVE  /\ audit' \in Seq(AuditEvent) /\ DOMAIN audit' = DOMAIN audit
         /\ \A k \in DOMAIN audit :
              /\ audit'[k].to = audit[k].to /\ audit'[k].actor = audit[k].actor
              /\ audit'[k].revoked = audit[k].revoked
              /\ audit'[k].tx = IF audit[k].tx = a THEN tx ELSE audit[k].tx
<1>1. audit \in Seq(AuditEvent)
  BY DEF TypeOK
<1>2. Len(audit) \in Nat /\ DOMAIN audit = 1..Len(audit)
  BY <1>1
<1>3. \A k \in DOMAIN audit : audit[k] \in AuditEvent
  BY <1>1
<1>4. ASSUME NEW k \in DOMAIN audit
      PROVE  /\ audit'[k] = IF audit[k].tx = a THEN [audit[k] EXCEPT !.tx = tx] ELSE audit[k]
             /\ audit'[k] \in AuditEvent
  <2>1. audit'[k] = IF audit[k].tx = a THEN [audit[k] EXCEPT !.tx = tx] ELSE audit[k]
    BY DEF Ended
  <2>2. [audit[k] EXCEPT !.tx = tx] \in AuditEvent
    BY <1>3 DEF AuditEvent
  <2> QED
    BY <1>3, <2>1, <2>2
<1>5. audit' \in [1..Len(audit) -> AuditEvent] /\ DOMAIN audit' = DOMAIN audit
  BY <1>2, <1>4 DEF Ended
<1>6. audit' \in Seq(AuditEvent)
  BY <1>2, <1>5
<1> QED
  BY <1>3, <1>4, <1>5, <1>6 DEF AuditEvent

LEMMA TypeStep == TypeOK /\ [Next]_vars => TypeOK'
<1> SUFFICES ASSUME TypeOK, [Next]_vars PROVE TypeOK'
  OBVIOUS
<1>1. ASSUME NEW a \in Admins, SignIn(a) PROVE TypeOK'
  BY <1>1 DEF SignIn, TypeOK, Session, workspace, bounds
<1>2. ASSUME NEW a \in Admins, EntitlementRead(a) PROVE TypeOK'
  <2>1. PICK body \in Body : request' = [request EXCEPT ![a] =
          IF Changes(body, entitlement) = {} THEN Idle
          ELSE [@ EXCEPT !.pc = "write", !.body = body, !.seen = entitlement]]
    BY <1>2 DEF EntitlementRead
  <2>2. request' \in [Admins -> RequestState]
    BY <2>1, Constants DEF TypeOK, RequestState
  <2> QED
    BY <1>2, <2>2 DEF EntitlementRead, Admitted, TypeOK, workspace
<1>3. ASSUME NEW a \in Admins, EntitlementCommit(a) PROVE TypeOK'
  <2> DEFINE body == request[a].body
             seen == request[a].seen
  <2>1. body \in Body /\ seen \in Row
    BY DEF TypeOK, RequestState
  <2>2. entitlement' = Written(body) /\ trial' = TrialAfter(body) /\ signer' = SignerAfter(a, body)
    BY <1>3 DEF EntitlementCommit
  <2>3. entitlement' \in Row
    BY <2>1, <2>2, WrittenType
  <2>4. body["plan"] \in Plan \cup {None} /\ body["standing"] \in Standing \cup {None}
    BY <2>1 DEF Body
  <2>5. /\ entitlement'["plan"] = IF body["plan"] = None THEN entitlement["plan"] ELSE body["plan"]
        /\ entitlement'["standing"] =
             IF body["standing"] = None THEN entitlement["standing"] ELSE body["standing"]
    BY <2>1, <2>2, WrittenType DEF Field
  <2> HIDE DEF body
  <2>6. /\ trial' \in {"none", "running", "expired"}
        /\ (trial' = "none") <=> (entitlement'["plan"] # "TRIAL")
    BY <2>2, <2>4, <2>5, NoneIsNothing DEF TrialAfter, TypeOK, Plan, Value
  <2>7. /\ signer' \in Admins \cup {None}
        /\ (signer' = None) <=> (entitlement'["standing"] = "active")
    BY <2>2, <2>4, <2>5, NoneIsNothing DEF SignerAfter, TypeOK, Standing, Value
  <2>8. audit' \in Seq(AuditEvent)
    BY <1>3, EndedTrail DEF EntitlementCommit
  <2>9. request' \in [Admins -> RequestState] /\ unaudited' \subseteq Field
    BY <1>3, Constants DEF EntitlementCommit, TypeOK, Changes, Unnoticed, Overtaken, Supplied
  <2> QED
    BY <1>3, <2>3, <2>6, <2>7, <2>8, <2>9 DEF EntitlementCommit, TypeOK, bounds
<1>9. ASSUME NEW a \in Admins, EntitlementBegin(a) PROVE TypeOK'
  <2> DEFINE e == [actor |-> a, to |-> Audited(request[a].body, request[a].seen),
                   revoked |-> {}, tx |-> a]
  <2>1. request[a].body \in Body /\ request[a].seen \in Row
    BY DEF TypeOK, RequestState
  <2>2. e \in AuditEvent
    BY <2>1, AuditedType DEF AuditEvent
  <2>3. audit' \in Seq(AuditEvent)
    BY <1>9, <2>2 DEF EntitlementBegin, TypeOK
  <2>4. request' \in [Admins -> RequestState]
    BY <1>9 DEF EntitlementBegin, TypeOK, RequestState
  <2> QED
    BY <1>9, <2>3, <2>4 DEF EntitlementBegin, TypeOK, workspace, bounds
<1>10. ASSUME NEW a \in Admins, EntitlementUpdate(a) PROVE TypeOK'
  <2>1. request' \in [Admins -> RequestState]
    BY <1>10 DEF EntitlementUpdate, TypeOK, RequestState
  <2> QED
    BY <1>10, <2>1 DEF EntitlementUpdate, TypeOK, workspace, bounds
<1>4. ASSUME NEW a \in Admins, RevokeSessions(a) PROVE TypeOK'
  <2>1. PICK b \in Admins :
          /\ session' = [s \in Sessions |->
               IF s \in LiveOf(b) THEN [session[s] EXCEPT !.state = "revoked"] ELSE session[s]]
          /\ request' = [request EXCEPT ![a] = [@ EXCEPT !.pc = "record", !.revoked = LiveOf(b)]]
    BY <1>4 DEF RevokeSessions
  <2>2. session' \in [Sessions -> Session]
    BY <2>1 DEF TypeOK, Session
  <2>3. request' \in [Admins -> RequestState]
    BY <2>1 DEF TypeOK, RequestState, LiveOf
  <2> QED
    BY <1>4, <2>2, <2>3 DEF RevokeSessions, Admitted, TypeOK, workspace
<1>5. ASSUME NEW a \in Admins, RecordRevocation(a) PROVE TypeOK'
  <2>1. [actor |-> a, to |-> Empty, revoked |-> request[a].revoked, tx |-> "committed"]
          \in AuditEvent
    BY Constants DEF TypeOK, RequestState, AuditEvent
  <2>2. audit' \in Seq(AuditEvent) /\ request' \in [Admins -> RequestState]
    BY <1>5, <2>1, Constants DEF RecordRevocation, TypeOK
  <2> QED
    BY <1>5, <2>2 DEF RecordRevocation, TypeOK, workspace, bounds
<1>6. ASSUME NEW a \in Admins, Crash(a) PROVE TypeOK'
  BY <1>6, Constants, EndedTrail DEF Crash, TypeOK, workspace
<1>7. CASE TrialEnds
  BY <1>7 DEF TrialEnds, TypeOK, bounds
<1>8. CASE UNCHANGED vars
  BY <1>8 DEF vars, workspace, bounds, TypeOK
<1> QED
  BY <1>1, <1>2, <1>3, <1>4, <1>5, <1>6, <1>7, <1>8, <1>9, <1>10 DEF Next, AdminStep

LEMMA TypeInit == Init => TypeOK
BY Constants DEF Init, TypeOK, Session

\* Type correctness: a plan has the dates of a trial, and a suspension its signer, exactly
\* when it should.
THEOREM TypeCorrect == Spec => []TypeOK
<1> QED
  BY TypeInit, TypeStep, PTL DEF Spec

----------------------------------------------------------------------------
(* The trail and the entitlement.                                          *)

\* A transaction has its place from BEGIN on, and what it will say does not change.
LEMMA PlacedStep == TypeOK /\ Placed /\ [Next]_vars => Placed'
<1> SUFFICES ASSUME TypeOK, Placed, [Next]_vars PROVE Placed'
  OBVIOUS
<1>1. /\ Len(audit) \in Nat /\ DOMAIN audit = 1..Len(audit)
      /\ \A k \in DOMAIN audit : audit[k] \in AuditEvent
  BY DEF TypeOK
<1>2. ASSUME NEW a \in Admins, UNCHANGED audit,
             \A b \in Admins \ {a} : request'[b] = request[b],
             request[a].pc \in {"begun", "updated"} <=> request'[a].pc \in {"begun", "updated"},
             request[a].pc \in {"begun", "updated"} =>
               request'[a].body = request[a].body /\ request'[a].seen = request[a].seen
      PROVE  Placed'
  BY <1>2 DEF Placed
<1>3. ASSUME NEW a \in Admins, NEW tx \in {"committed", "aborted"}, audit' = Ended(a, tx),
             request' = [request EXCEPT ![a] = Idle]
      PROVE  Placed'
  <2>1. /\ request'[a].pc = "idle" /\ \A b \in Admins \ {a} : request'[b] = request[b]
    BY <1>3, Constants DEF TypeOK
  <2>2. DOMAIN audit' = DOMAIN audit /\ tx \notin Admins
    BY <1>3, EndedTrail, AdminsAssumption
  <2>3. \A k \in DOMAIN audit : \A b \in Admins \ {a} : audit'[k].tx = b <=> audit[k].tx = b
    BY <1>3, <2>2, EndedTrail
  <2>4. \A k \in DOMAIN audit : audit'[k].tx # a
    BY <1>3, <2>2, EndedTrail
  <2>5. \A k \in DOMAIN audit : /\ audit'[k].to = audit[k].to /\ audit'[k].actor = audit[k].actor
                               /\ audit'[k].revoked = audit[k].revoked
    BY <1>3, EndedTrail
  <2> QED
    BY <2>1, <2>2, <2>3, <2>4, <2>5 DEF Placed
<1>4. ASSUME NEW a \in Admins, NEW e \in AuditEvent, audit' = Append(audit, e),
             e.tx \in {a, "committed"},
             \A b \in Admins \ {a} : request'[b] = request[b],
             request[a].pc \notin {"begun", "updated"},
             (e.tx = a) <=> request'[a].pc \in {"begun", "updated"},
             e.tx = a => /\ e.actor = a /\ e.revoked = {}
                         /\ e.to = Audited(request'[a].body, request'[a].seen)
      PROVE  Placed'
  <2>1. /\ DOMAIN audit' = 1..(Len(audit) + 1) /\ audit'[Len(audit) + 1] = e
        /\ \A k \in DOMAIN audit : audit'[k] = audit[k]
    BY <1>1, <1>4
  <2>2. \A k \in DOMAIN audit : audit[k].tx # a
    BY <1>4 DEF Placed
  <2>3. ASSUME NEW b \in Admins, request'[b].pc \in {"begun", "updated"}
        PROVE  \E k \in DOMAIN audit' : audit'[k].tx = b
    <3>1. CASE b = a
      BY <1>1, <1>4, <2>1, <2>3, <3>1
    <3>2. CASE b # a
      BY <1>1, <1>4, <2>1, <2>3, <3>2 DEF Placed
    <3> QED
      BY <3>1, <3>2
  <2>4. ASSUME NEW k \in DOMAIN audit', NEW b \in Admins, audit'[k].tx = b
        PROVE  /\ request'[b].pc \in {"begun", "updated"}
               /\ audit'[k].actor = b /\ audit'[k].revoked = {}
               /\ audit'[k].to = Audited(request'[b].body, request'[b].seen)
               /\ \A j \in DOMAIN audit' : audit'[j].tx = b => j = k
    <3>1. CASE b = a
      BY <1>1, <1>4, <2>1, <2>2, <2>4, <3>1
    <3>2. CASE b # a
      <4>1. k \in DOMAIN audit /\ audit[k].tx = b
        BY <1>1, <1>4, <2>1, <2>4, <3>2, AdminsAssumption
      <4>2. \A j \in DOMAIN audit' : audit'[j].tx = b => j \in DOMAIN audit /\ audit[j].tx = b
        BY <1>1, <1>4, <2>1, <3>2, AdminsAssumption
      <4> QED
        BY <1>4, <2>1, <3>2, <4>1, <4>2 DEF Placed
    <3> QED
      BY <3>1, <3>2
  <2> QED
    BY <2>3, <2>4 DEF Placed
<1>5. ASSUME NEW a \in Admins, EntitlementBegin(a) PROVE Placed'
  <2> DEFINE e == [actor |-> a, to |-> Audited(request[a].body, request[a].seen),
                   revoked |-> {}, tx |-> a]
  <2>1. request[a].body \in Body /\ request[a].seen \in Row
    BY DEF TypeOK, RequestState
  <2>2. e \in AuditEvent /\ e.tx = a /\ e.actor = a /\ e.revoked = {}
        /\ e.to = Audited(request[a].body, request[a].seen)
    BY <2>1, AuditedType DEF AuditEvent
  <2>3. /\ request[a].pc = "write" /\ request'[a] = [request[a] EXCEPT !.pc = "begun"]
        /\ \A b \in Admins \ {a} : request'[b] = request[b]
    BY <1>5 DEF EntitlementBegin, TypeOK
  <2>4. request'[a].pc = "begun" /\ request'[a].body = request[a].body
        /\ request'[a].seen = request[a].seen
    BY <2>3 DEF TypeOK, RequestState
  <2>5. audit' = Append(audit, e)
    BY <1>5 DEF EntitlementBegin
  <2> HIDE DEF e
  <2> QED
    BY <1>4, <2>2, <2>3, <2>4, <2>5
<1>6. ASSUME NEW a \in Admins, RecordRevocation(a) PROVE Placed'
  <2> DEFINE e == [actor |-> a, to |-> Empty, revoked |-> request[a].revoked,
                   tx |-> "committed"]
  <2>1. e \in AuditEvent /\ e.tx = "committed" /\ "committed" \notin Admins
    BY Constants, AdminsAssumption DEF AuditEvent, TypeOK, RequestState
  <2>2. /\ audit' = Append(audit, e) /\ request[a].pc = "record" /\ request'[a].pc = "idle"
        /\ \A b \in Admins \ {a} : request'[b] = request[b]
    BY <1>6, Constants DEF RecordRevocation, TypeOK
  <2> HIDE DEF e
  <2> QED
    BY <1>4, <2>1, <2>2
<1>7. ASSUME NEW a \in Admins, EntitlementRead(a) PROVE Placed'
  <2>1. PICK body \in Body : request' = [request EXCEPT ![a] =
          IF Changes(body, entitlement) = {} THEN Idle
          ELSE [@ EXCEPT !.pc = "write", !.body = body, !.seen = entitlement]]
    BY <1>7 DEF EntitlementRead
  <2>2. request[a].pc = "idle" /\ UNCHANGED audit
    BY <1>7 DEF EntitlementRead, Admitted
  <2>3. /\ request'[a].pc \notin {"begun", "updated"}
        /\ \A b \in Admins \ {a} : request'[b] = request[b]
    BY <2>1, Constants DEF TypeOK, RequestState
  <2> QED
    BY <1>2, <2>2, <2>3
<1>8. ASSUME NEW a \in Admins, EntitlementUpdate(a) PROVE Placed'
  <2>1. /\ request[a].pc = "begun" /\ UNCHANGED audit
        /\ request'[a] = [request[a] EXCEPT !.pc = "updated"]
        /\ \A b \in Admins \ {a} : request'[b] = request[b]
    BY <1>8 DEF EntitlementUpdate, TypeOK
  <2>2. request'[a].pc = "updated" /\ request'[a].body = request[a].body
        /\ request'[a].seen = request[a].seen
    BY <2>1 DEF TypeOK, RequestState
  <2> QED
    BY <1>2, <2>1, <2>2
<1>9. ASSUME NEW a \in Admins, RevokeSessions(a) PROVE Placed'
  <2>1. PICK b \in Admins :
          request' = [request EXCEPT ![a] = [@ EXCEPT !.pc = "record", !.revoked = LiveOf(b)]]
    BY <1>9 DEF RevokeSessions
  <2>2. /\ request[a].pc = "idle" /\ UNCHANGED audit
        /\ \A c \in Admins \ {a} : request'[c] = request[c]
    BY <1>9, <2>1 DEF RevokeSessions, Admitted, TypeOK
  <2>3. request'[a].pc = "record"
    BY <2>1 DEF TypeOK, RequestState
  <2> QED
    BY <1>2, <2>2, <2>3
<1>10. ASSUME NEW a \in Admins, EntitlementCommit(a) \/ Crash(a) PROVE Placed'
  BY <1>3, <1>10 DEF EntitlementCommit, Crash
<1>11. ASSUME UNCHANGED <<audit, request>> PROVE Placed'
  BY <1>11 DEF Placed
<1>12. ASSUME NEW a \in Admins, SignIn(a) PROVE Placed'
  BY <1>11, <1>12 DEF SignIn
<1>13. CASE TrialEnds \/ UNCHANGED vars
  BY <1>11, <1>13 DEF TrialEnds, vars
<1> QED
  BY <1>5, <1>6, <1>7, <1>8, <1>9, <1>10, <1>12, <1>13 DEF Next, AdminStep

\* An event that names no field, or is not visible yet, says nothing.
LEMMA TrailSilent ==
  ASSUME TypeOK, NEW e \in AuditEvent, audit' = Append(audit, e), NEW f \in Field, NEW v,
         ~Names(e, f), TrailSays(f, v)
  PROVE  TrailSays(f, v)'
<1>1. /\ Len(audit) \in Nat /\ DOMAIN audit = 1..Len(audit)
      /\ DOMAIN audit' = 1..(Len(audit) + 1)
      /\ \A k \in DOMAIN audit : audit'[k] = audit[k]
      /\ audit'[Len(audit) + 1] = e
  BY DEF TypeOK
<1>2. \A k \in DOMAIN audit' : Names(audit'[k], f) =>
        k \in DOMAIN audit /\ audit'[k] = audit[k] /\ Names(audit[k], f)
  BY <1>1 DEF Names
<1>3. \A k \in DOMAIN audit : k \in DOMAIN audit' /\ audit'[k] = audit[k]
  BY <1>1
<1> QED
  BY <1>2, <1>3 DEF TrailSays

\* A transaction that ends says nothing of the fields it does not name, or if it aborts.
LEMMA TrailKept ==
  ASSUME TypeOK, NEW a \in Admins, NEW tx \in {"committed", "aborted"}, audit' = Ended(a, tx),
         NEW f \in Field, NEW v, TrailSays(f, v),
         \A k \in DOMAIN audit : audit[k].tx = a => tx = "aborted" \/ audit[k].to[f] = None
  PROVE  TrailSays(f, v)'
<1>1. DOMAIN audit' = DOMAIN audit /\ a # "committed"
  BY EndedTrail, AdminsAssumption
<1>2. \A k \in DOMAIN audit : /\ Names(audit'[k], f) <=> Names(audit[k], f)
                             /\ audit'[k].to = audit[k].to
  BY <1>1, EndedTrail DEF Names
<1> QED
  BY <1>1, <1>2 DEF TrailSays

\* And the value it gives to one it names, unless a visible event that names it is later.
LEMMA TrailNamed ==
  ASSUME TypeOK, NEW a \in Admins, audit' = Ended(a, "committed"), NEW f \in Field,
         NEW k \in DOMAIN audit, audit[k].tx = a, audit[k].to[f] # None,
         \A j \in DOMAIN audit : audit[j].tx = a => j = k,
         \A j \in DOMAIN audit : k < j => ~Names(audit[j], f)
  PROVE  \A v : v = audit[k].to[f] => TrailSays(f, v)'
<1>1. DOMAIN audit' = DOMAIN audit /\ DOMAIN audit \subseteq Nat
  BY EndedTrail DEF TypeOK
<1>2. Names(audit'[k], f) /\ audit'[k].to = audit[k].to
  BY EndedTrail DEF Names
<1>3. \A j \in DOMAIN audit' : j > k => ~Names(audit'[j], f)
  BY <1>1, EndedTrail DEF Names
<1>4. \E i \in DOMAIN audit' : /\ Names(audit'[i], f) /\ audit'[i].to[f] = audit'[k].to[f]
                              /\ \A j \in DOMAIN audit' : j > i => ~Names(audit'[j], f)
  BY <1>1, <1>2, <1>3
<1> QED
  BY <1>2, <1>4 DEF TrailSays

LEMMA AccountsStep == TypeOK /\ Accounts /\ [Next]_vars => AuditAccounts'
<1> SUFFICES ASSUME TypeOK, Accounts, [Next]_vars PROVE AuditAccounts'
  OBVIOUS
<1>1. Placed /\ TrailTellsEntitlement /\ SuspensionSigned
  BY DEF Accounts, AuditAccounts
<1>2. ASSUME UNCHANGED <<entitlement, signer, audit, unaudited>> PROVE AuditAccounts'
  BY <1>1, <1>2 DEF AuditAccounts, TrailTellsEntitlement, SuspensionSigned, TrailSays
<1>3. ASSUME NEW a \in Admins, EntitlementCommit(a) PROVE AuditAccounts'
  <2> DEFINE body == request[a].body
             seen == request[a].seen
  <2>1. body \in Body /\ seen \in Row
    BY DEF TypeOK, RequestState
  <2>2. PICK k \in DOMAIN audit :
          /\ audit[k].tx = a /\ audit[k].actor = a /\ audit[k].to = Audited(body, seen)
          /\ \A j \in DOMAIN audit : audit[j].tx = a => j = k
    BY <1>1, <1>3 DEF Placed, EntitlementCommit
  <2>3. \A f \in Field : audit[k].to[f] = IF f \in Changes(body, seen) THEN body[f] ELSE None
    BY <2>1, <2>2, AuditedType
  <2>4. \A f \in Field : entitlement'[f] = IF body[f] = None THEN entitlement[f] ELSE body[f]
    BY <1>3, <2>1, WrittenType DEF EntitlementCommit
  <2>5. /\ audit' = Ended(a, "committed")
        /\ unaudited' = (unaudited \ Changes(body, seen))
             \cup Unnoticed(body, seen) \cup Overtaken(a, body, seen)
    BY <1>3 DEF EntitlementCommit
  <2>6. ASSUME NEW f \in Field \ unaudited' PROVE TrailSays(f, entitlement[f])'
    <3>1. CASE f \in Changes(body, seen)
      <4>1. \A j \in DOMAIN audit : k < j => ~Names(audit[j], f)
        BY <2>2, <2>5, <2>6, <3>1 DEF Overtaken
      <4>2. audit[k].to[f] = entitlement'[f] /\ audit[k].to[f] # None
        BY <2>3, <2>4, <3>1 DEF Changes, Supplied
      <4>3. \A v : v = audit[k].to[f] => TrailSays(f, v)'
        BY <2>2, <2>5, <4>1, <4>2, TrailNamed
      <4> QED
        BY <4>2, <4>3 DEF TrailSays
    <3>2. CASE f \notin Changes(body, seen)
      <4>1. f \notin unaudited /\ entitlement'[f] = entitlement[f] /\ audit[k].to[f] = None
        BY <2>3, <2>4, <2>5, <2>6, <3>2 DEF Unnoticed, Supplied
      <4>2. TrailSays(f, entitlement[f])
        BY <1>1, <4>1 DEF TrailTellsEntitlement
      <4>3. \A v : TrailSays(f, v) => TrailSays(f, v)'
        BY <2>2, <2>5, <4>1, TrailKept
      <4> QED
        BY <4>1, <4>2, <4>3 DEF TrailSays
    <3> QED
      BY <3>1, <3>2
  <2>7. SuspensionSigned'
    <3>1. /\ DOMAIN audit' = DOMAIN audit
          /\ audit'[k].tx = "committed" /\ audit'[k].actor = a
          /\ \A j \in DOMAIN audit : audit[j].tx = "committed" =>
               audit'[j].tx = "committed" /\ audit'[j].actor = audit[j].actor
      BY <2>2, <2>5, EndedTrail
    <3>2. body["standing"] \in Standing \cup {None} /\ signer' = SignerAfter(a, body)
      BY <1>3, <2>1 DEF Body, EntitlementCommit
    <3>3. entitlement'["standing"] =
            IF body["standing"] = None THEN entitlement["standing"] ELSE body["standing"]
      BY <2>4 DEF Field
    <3> HIDE DEF body
    <3> QED
      BY <1>1, <3>1, <3>2, <3>3 DEF SuspensionSigned, SignerAfter
  <2> QED
    BY <2>6, <2>7 DEF AuditAccounts, TrailTellsEntitlement
<1>4. ASSUME NEW e \in AuditEvent, audit' = Append(audit, e), \A f \in Field : ~Names(e, f),
             UNCHANGED <<entitlement, signer, unaudited>>
      PROVE  AuditAccounts'
  <2>1. ASSUME NEW f \in Field \ unaudited PROVE TrailSays(f, entitlement[f])'
    <3>1. \A v : TrailSays(f, v) => TrailSays(f, v)'
      BY <1>4, TrailSilent
    <3>2. TrailSays(f, entitlement[f])
      BY <1>1 DEF TrailTellsEntitlement
    <3> QED
      BY <1>4, <3>1, <3>2 DEF TrailSays
  <2>2. \A k \in DOMAIN audit : k \in DOMAIN audit' /\ audit'[k] = audit[k]
    BY <1>4 DEF TypeOK
  <2> QED
    BY <1>1, <1>4, <2>1, <2>2 DEF AuditAccounts, TrailTellsEntitlement, SuspensionSigned
<1>5. ASSUME NEW a \in Admins, RecordRevocation(a) PROVE AuditAccounts'
  <2> DEFINE e == [actor |-> a, to |-> Empty, revoked |-> request[a].revoked,
                   tx |-> "committed"]
  <2>1. e \in AuditEvent /\ \A f \in Field : ~Names(e, f)
    BY Constants DEF TypeOK, RequestState, AuditEvent, Names
  <2>2. audit' = Append(audit, e) /\ UNCHANGED <<entitlement, signer, unaudited>>
    BY <1>5 DEF RecordRevocation, workspace
  <2> HIDE DEF e
  <2> QED
    BY <1>4, <2>1, <2>2
<1>6. ASSUME NEW a \in Admins, EntitlementBegin(a) PROVE AuditAccounts'
  <2> DEFINE e == [actor |-> a, to |-> Audited(request[a].body, request[a].seen),
                   revoked |-> {}, tx |-> a]
  <2>1. request[a].body \in Body /\ request[a].seen \in Row
    BY DEF TypeOK, RequestState
  <2>2. e \in AuditEvent /\ e.tx # "committed"
    BY <2>1, AuditedType, AdminsAssumption DEF AuditEvent
  <2>3. audit' = Append(audit, e) /\ UNCHANGED <<entitlement, signer, unaudited>>
    BY <1>6 DEF EntitlementBegin, workspace
  <2> HIDE DEF e
  <2> QED
    BY <1>4, <2>2, <2>3 DEF Names
<1>7. ASSUME NEW a \in Admins, Crash(a) PROVE AuditAccounts'
  <2>1. audit' = Ended(a, "aborted") /\ UNCHANGED <<entitlement, signer, unaudited>>
    BY <1>7 DEF Crash, workspace
  <2>2. ASSUME NEW f \in Field \ unaudited PROVE TrailSays(f, entitlement[f])'
    <3>1. \A v : TrailSays(f, v) => TrailSays(f, v)'
      BY <2>1, TrailKept
    <3>2. TrailSays(f, entitlement[f])
      BY <1>1 DEF TrailTellsEntitlement
    <3> QED
      BY <2>1, <3>1, <3>2 DEF TrailSays
  <2>3. /\ DOMAIN audit' = DOMAIN audit
        /\ \A j \in DOMAIN audit : audit[j].tx = "committed" =>
             audit'[j].tx = "committed" /\ audit'[j].actor = audit[j].actor
    BY <2>1, EndedTrail, AdminsAssumption
  <2> QED
    BY <1>1, <2>1, <2>2, <2>3 DEF AuditAccounts, TrailTellsEntitlement, SuspensionSigned
<1>8. ASSUME NEW a \in Admins,
             SignIn(a) \/ EntitlementRead(a) \/ EntitlementUpdate(a) \/ RevokeSessions(a)
      PROVE  AuditAccounts'
  BY <1>2, <1>8 DEF SignIn, EntitlementRead, EntitlementUpdate, RevokeSessions, workspace
<1>9. CASE TrialEnds \/ UNCHANGED vars
  BY <1>2, <1>9 DEF TrialEnds, vars, workspace
<1> QED
  BY <1>3, <1>5, <1>6, <1>7, <1>8, <1>9 DEF Next, AdminStep

\* Read in the order in which the transactions began, the audit trail ends with the plan
\* and the suspension the workspace has, but for fields last written unnoticed or by a
\* PATCH that was overtaken; who signed a suspension is in it.
THEOREM TrailAccounts == Spec => []AuditAccounts
<1>1. Init => Accounts
  <2> SUFFICES ASSUME Init PROVE Accounts
    OBVIOUS
  <2>1. entitlement = NewTrial /\ audit = <<>> /\ DOMAIN audit = {} /\ unaudited = {}
        /\ \A a \in Admins : request[a].pc = "idle"
    BY Constants DEF Init
  <2>2. Placed
    BY <2>1 DEF Placed
  <2>3. AuditAccounts
    BY <2>1, Constants DEF AuditAccounts, TrailTellsEntitlement, SuspensionSigned, TrailSays
  <2> QED
    BY <2>2, <2>3 DEF Accounts
<1>2. TypeOK /\ Accounts /\ [Next]_vars => Accounts'
  BY PlacedStep, AccountsStep DEF Accounts
<1>3. Accounts => AuditAccounts
  BY DEF Accounts
<1> QED
  BY <1>1, <1>2, <1>3, TypeCorrect, PTL DEF Spec

\* No stale PATCH, nor any other, makes an expired trial run again.
THEOREM TrialNotRenewed == Spec => ExpiredTrialStays
<1>1. TypeOK /\ [Next]_vars => [trial = "expired" => trial' # "running"]_vars
  BY DEF Next, AdminStep, SignIn, EntitlementRead, EntitlementBegin, EntitlementUpdate,
     EntitlementCommit, RevokeSessions, RecordRevocation, Crash, TrialEnds, TrialAfter, workspace
<1> QED
  BY <1>1, TypeCorrect, PTL DEF Spec, ExpiredTrialStays

----------------------------------------------------------------------------
(* The trail and the sessions that were ended.                             *)

LEMMA RevocationsStep == TypeOK /\ Revocations /\ [Next]_vars => Revocations'
<1> SUFFICES ASSUME TypeOK, Revocations, [Next]_vars PROVE Revocations'
  OBVIOUS
<1>1. HeldOnce /\ RevocationsAccounted
  BY DEF Revocations
<1>2. ASSUME UNCHANGED <<session, audit>>, crashes' >= crashes, crashes' \in Nat,
             \A b \in Admins :
               \/ /\ request'[b].revoked = request[b].revoked
                  /\ request[b].pc = "record" => request'[b].pc = "record"
               \/ crashes' > 0 /\ request'[b] = Idle
      PROVE  Revocations'
  <2>1. crashes' = 0 => crashes = 0 /\ \A b \in Admins : request'[b].revoked = request[b].revoked
    BY <1>2 DEF TypeOK
  <2>2. HeldOnce'
    BY <1>1, <1>2, Constants DEF HeldOnce
  <2> QED
    BY <1>1, <1>2, <2>1, <2>2 DEF Revocations, RevocationsAccounted
<1>12. ASSUME NEW a \in Admins, NEW tx \in {"committed", "aborted"}, audit' = Ended(a, tx),
              UNCHANGED session, crashes' >= crashes, crashes' \in Nat,
              \A b \in Admins :
                \/ /\ request'[b].revoked = request[b].revoked
                   /\ request[b].pc = "record" => request'[b].pc = "record"
                \/ crashes' > 0 /\ request'[b] = Idle
       PROVE  Revocations'
  <2>1. crashes' = 0 => crashes = 0 /\ \A b \in Admins : request'[b].revoked = request[b].revoked
    BY <1>12 DEF TypeOK
  <2>2. DOMAIN audit' = DOMAIN audit /\ \A k \in DOMAIN audit : audit'[k].revoked = audit[k].revoked
    BY <1>12, EndedTrail
  <2>3. HeldOnce'
    BY <1>1, <1>12, <2>2, Constants DEF HeldOnce
  <2>4. RevocationsAccounted'
    BY <1>1, <1>12, <2>1, <2>2 DEF RevocationsAccounted
  <2> QED
    BY <2>3, <2>4 DEF Revocations
<1>3. ASSUME NEW a \in Admins, SignIn(a) PROVE Revocations'
  <2>1. /\ UNCHANGED <<audit, request, crashes>>
        /\ \A s \in Sessions :
             (session'[s].state = "revoked") <=> (session[s].state = "revoked")
    BY <1>3 DEF SignIn, bounds, TypeOK, Session
  <2>2. \A b \in Admins : request[b].revoked \subseteq Sessions
    BY DEF TypeOK, RequestState
  <2>3. \A k \in DOMAIN audit : audit[k].revoked \subseteq Sessions
    <3>1. \A k \in DOMAIN audit : audit[k] \in AuditEvent
      BY DEF TypeOK
    <3> QED
      BY <3>1 DEF AuditEvent
  <2> QED
    BY <1>1, <2>1, <2>2, <2>3 DEF Revocations, HeldOnce, RevocationsAccounted
<1>4. ASSUME NEW a \in Admins, EntitlementRead(a) PROVE Revocations'
  <2>1. request[a].pc = "idle" /\ request[a].revoked = {}
    BY <1>1, <1>4 DEF EntitlementRead, Admitted, HeldOnce
  <2>2. PICK body \in Body : request' = [request EXCEPT ![a] =
          IF Changes(body, entitlement) = {} THEN Idle
          ELSE [@ EXCEPT !.pc = "write", !.body = body, !.seen = entitlement]]
    BY <1>4 DEF EntitlementRead
  <2> DEFINE x == IF Changes(body, entitlement) = {} THEN Idle
                  ELSE [request[a] EXCEPT !.pc = "write", !.body = body, !.seen = entitlement]
  <2>3. x.revoked = {}
    BY <2>1, Constants DEF TypeOK, RequestState
  <2>4. request' = [request EXCEPT ![a] = x]
    BY <2>2
  <2> HIDE DEF x
  <2>5. \A b \in Admins : /\ request'[b].revoked = request[b].revoked
                          /\ request[b].pc = "record" => request'[b].pc = "record"
    BY <2>1, <2>3, <2>4 DEF TypeOK
  <2>6. UNCHANGED <<session, audit, crashes>>
    BY <1>4 DEF EntitlementRead
  <2> QED
    BY <1>2, <2>5, <2>6 DEF TypeOK
<1>5. ASSUME NEW a \in Admins, EntitlementBegin(a) PROVE Revocations'
  <2> DEFINE e == [actor |-> a, to |-> Audited(request[a].body, request[a].seen),
                   revoked |-> {}, tx |-> a]
  <2>1. audit' = Append(audit, e) /\ UNCHANGED <<session, crashes>>
    BY <1>5 DEF EntitlementBegin, bounds
  <2>2. /\ Len(audit) \in Nat /\ DOMAIN audit = 1..Len(audit)
        /\ DOMAIN audit' = 1..(Len(audit) + 1)
        /\ \A k \in DOMAIN audit : audit'[k] = audit[k]
        /\ audit'[Len(audit) + 1].revoked = {}
    BY <2>1 DEF TypeOK
  <2>3. /\ request[a].pc = "write" /\ request[a] \in RequestState
        /\ request' = [request EXCEPT ![a] = [request[a] EXCEPT !.pc = "begun"]]
    BY <1>5 DEF EntitlementBegin, TypeOK
  <2>4. \A b \in Admins : /\ request'[b].revoked = request[b].revoked
                          /\ request'[b].pc = "record" <=> request[b].pc = "record"
    BY <2>3 DEF TypeOK, RequestState
  <2>5. HeldOnce'
    BY <1>1, <2>1, <2>2, <2>4 DEF HeldOnce
  <2>6. RevocationsAccounted'
    BY <1>1, <2>1, <2>2, <2>4 DEF RevocationsAccounted
  <2> QED
    BY <2>5, <2>6 DEF Revocations
<1>10. ASSUME NEW a \in Admins, EntitlementUpdate(a) PROVE Revocations'
  <2>1. /\ request[a].pc = "begun" /\ request[a] \in RequestState
        /\ request' = [request EXCEPT ![a] = [request[a] EXCEPT !.pc = "updated"]]
        /\ UNCHANGED <<session, audit, crashes>>
    BY <1>10 DEF EntitlementUpdate, TypeOK, bounds
  <2>2. \A b \in Admins : /\ request'[b].revoked = request[b].revoked
                          /\ request[b].pc = "record" => request'[b].pc = "record"
    BY <2>1 DEF TypeOK, RequestState
  <2> QED
    BY <1>2, <2>1, <2>2 DEF TypeOK
<1>11. ASSUME NEW a \in Admins, EntitlementCommit(a) PROVE Revocations'
  <2>1. audit' = Ended(a, "committed") /\ UNCHANGED <<session, crashes>>
    BY <1>11 DEF EntitlementCommit, bounds
  <2>2. request[a].pc = "updated" /\ request' = [request EXCEPT ![a] = Idle]
    BY <1>11 DEF EntitlementCommit
  <2>3. \A b \in Admins : /\ request'[b].revoked = request[b].revoked
                          /\ request[b].pc = "record" => request'[b].pc = "record"
    BY <1>1, <2>2, Constants DEF TypeOK, HeldOnce
  <2> QED
    BY <1>12, <2>1, <2>3 DEF TypeOK
<1>6. ASSUME NEW a \in Admins, RevokeSessions(a) PROVE Revocations'
  <2>1. PICK b \in Admins :
          /\ session' = [s \in Sessions |->
               IF s \in LiveOf(b) THEN [session[s] EXCEPT !.state = "revoked"] ELSE session[s]]
          /\ request' = [request EXCEPT ![a] = [@ EXCEPT !.pc = "record", !.revoked = LiveOf(b)]]
    BY <1>6 DEF RevokeSessions
  <2> DEFINE gone == LiveOf(b)
  <2>2. gone \subseteq Sessions /\ \A s \in gone : session[s].state # "revoked"
    BY DEF LiveOf
  <2>3. \A s \in Sessions :
          (session'[s].state = "revoked") <=> (session[s].state = "revoked" \/ s \in gone)
    BY <2>1 DEF TypeOK, Session, LiveOf
  <2> HIDE DEF gone
  <2>4. /\ request'[a].revoked = gone /\ request'[a].pc = "record"
        /\ \A c \in Admins \ {a} : request'[c] = request[c]
        /\ request[a].revoked = {}
    BY <1>1, <1>6, <2>1 DEF TypeOK, RequestState, HeldOnce, RevokeSessions, Admitted, gone
  <2>5. UNCHANGED <<audit, crashes>>
    BY <1>6 DEF RevokeSessions
  <2>6. \A c \in Admins : request[c].revoked \subseteq Sessions
    BY DEF TypeOK, RequestState
  <2>7. \A k \in DOMAIN audit : audit[k].revoked \subseteq Sessions
    <3>1. \A k \in DOMAIN audit : audit[k] \in AuditEvent
      BY DEF TypeOK
    <3> QED
      BY <3>1 DEF AuditEvent
  <2>8. HeldOnce'
    BY <1>1, <2>2, <2>3, <2>4, <2>5, <2>6, <2>7 DEF HeldOnce
  <2>9. RevocationsAccounted'
    BY <1>1, <2>3, <2>4, <2>5 DEF RevocationsAccounted
  <2> QED
    BY <2>8, <2>9 DEF Revocations
<1>7. ASSUME NEW a \in Admins, RecordRevocation(a) PROVE Revocations'
  <2> DEFINE e == [actor |-> a, to |-> Empty, revoked |-> request[a].revoked,
                   tx |-> "committed"]
  <2>1. /\ audit' = Append(audit, e) /\ UNCHANGED <<session, crashes>>
        /\ request' = [request EXCEPT ![a] = Idle]
    BY <1>7 DEF RecordRevocation, bounds
  <2>2. /\ Len(audit) \in Nat /\ DOMAIN audit = 1..Len(audit)
        /\ DOMAIN audit' = 1..(Len(audit) + 1)
        /\ \A k \in DOMAIN audit : audit'[k] = audit[k]
        /\ audit'[Len(audit) + 1].revoked = request[a].revoked
    BY <2>1 DEF TypeOK
  <2>3. /\ request'[a] = Idle
        /\ \A c \in Admins \ {a} : request'[c] = request[c]
    BY <2>1 DEF TypeOK
  <2>4. HeldOnce'
    BY <1>1, <2>1, <2>2, <2>3, Constants DEF HeldOnce
  <2>5. RevocationsAccounted'
    BY <1>1, <2>1, <2>2, <2>3 DEF RevocationsAccounted, HeldOnce
  <2> QED
    BY <2>4, <2>5 DEF Revocations
<1>8. ASSUME NEW a \in Admins, Crash(a) PROVE Revocations'
  <2>1. /\ UNCHANGED session /\ audit' = Ended(a, "aborted") /\ crashes' = crashes + 1
        /\ request' = [request EXCEPT ![a] = Idle]
    BY <1>8 DEF Crash
  <2>2. crashes' > 0 /\ crashes' >= crashes /\ crashes' \in Nat
    BY <2>1 DEF TypeOK
  <2>3. request'[a] = Idle /\ \A c \in Admins \ {a} : request'[c] = request[c]
    BY <2>1 DEF TypeOK
  <2> QED
    BY <1>12, <2>1, <2>2, <2>3
<1>9. CASE TrialEnds \/ UNCHANGED vars
  BY <1>2, <1>9 DEF TrialEnds, vars, workspace, bounds, TypeOK
<1> QED
  BY <1>3, <1>4, <1>5, <1>6, <1>7, <1>8, <1>9, <1>10, <1>11 DEF Next, AdminStep

\* Every session that was ended is accounted for, once.
THEOREM RevocationsAudited == Spec => []RevocationsAccounted
<1>1. Init => Revocations
  BY Constants DEF Init, Revocations, HeldOnce, RevocationsAccounted
<1>2. Revocations => RevocationsAccounted
  BY DEF Revocations
<1> QED
  BY <1>1, <1>2, RevocationsStep, TypeCorrect, PTL DEF Spec
=============================================================================
