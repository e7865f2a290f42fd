---------------------------- MODULE Administration ----------------------------
(***************************************************************************)
(* Platform administration (api/admin.py, admin/repository.py): operators  *)
(* change the plan of a customer workspace, suspend it, and end the        *)
(* sessions of other operators; "sensitive operator actions leave an audit *)
(* trail" (023_platform_admin_controls.sql).                               *)
(*                                                                         *)
(* A PATCH of the entitlement reads the row in a statement of its own (its *)
(* FOR UPDATE lock ends with that statement) and writes in a transaction   *)
(* afterwards: BEGIN, which fixes the created_at of its audit event and    *)
(* with it the event's place in the trail; the UPDATE, which waits for     *)
(* whoever holds the row; and the INSERT of the event with COMMIT, from    *)
(* which on others see both.  Ending sessions and recording it are two     *)
(* autocommit statements.  Requests may die at any await.                  *)
(***************************************************************************)
EXTENDS Naturals, Sequences

CONSTANTS
  Admins,       \* platform administrators, one request of each at a time
  Sessions,     \* bound: sessions they ever open
  MaxRequests,  \* bound: requests ever made
  MaxCrashes,   \* bound: requests that die
  None          \* a field the body leaves out, nobody

Plan     == {"TRIAL", "STARTER", "GROWTH"}
Standing == {"active", "suspended"}        \* is_suspended
Field    == {"plan", "standing"}
Value    == Plan \cup Standing

ASSUME BoundsAssumption == MaxRequests \in Nat /\ MaxCrashes \in Nat
ASSUME NoneIsNothing == None \notin Value \cup Admins
ASSUME AdminsAssumption == Admins \cap {"committed", "aborted"} = {}

VARIABLES
  entitlement,  \* workspace.plan and is_suspended
  trial,        \* trial_expires_at: "none", "running" or "expired"
  signer,       \* workspace.suspended_by
  session,      \* the administrators' rows of session
  audit,        \* platform_audit_event by created_at, oldest first
  request,      \* local state of each administrator's request
  unaudited,    \* history: fields last written unnoticed or by a PATCH that was overtaken
  made,         \* requests made so far
  crashes       \* requests that have died so far

workspace == <<entitlement, trial, signer>>
bounds    == <<made, crashes>>
vars      == <<workspace, session, audit, request, unaudited, bounds>>

Row  == {e \in [Field -> Value] : e["plan"] \in Plan /\ e["standing"] \in Standing}
Body == {b \in [Field -> Value \cup {None}] :
           b["plan"] \in Plan \cup {None} /\ b["standing"] \in Standing \cup {None}}

NewTrial == [f \in Field |-> IF f = "plan" THEN "TRIAL" ELSE "active"]
Empty    == [f \in Field |-> None]

Session == [state : {"new", "live", "revoked"}, of : Admins \cup {None}]

\* "to" holds the new value of each field among the changes; revoked stands for the
\* number the metadata gives.  An event takes its place at BEGIN: until COMMIT tx is the
\* administrator whose transaction will insert it.
AuditEvent == [actor : Admins, to : Body, revoked : SUBSET Sessions,
               tx : Admins \cup {"committed", "aborted"}]

RequestState == [pc : {"idle", "write", "begun", "updated", "record"}, body : Body, seen : Row,
                 revoked : SUBSET Sessions]

Idle == [pc |-> "idle", body |-> Empty, seen |-> NewTrial, revoked |-> {}]

Init ==
  /\ entitlement = NewTrial /\ trial = "running" /\ signer = None
  /\ session = [s \in Sessions |-> [state |-> "new", of |-> None]]
  /\ audit = <<>>
  /\ request = [a \in Admins |-> Idle]
  /\ unaudited = {}
  /\ made = 0 /\ crashes = 0

----------------------------------------------------------------------------

LiveOf(a) == {s \in Sessions : session[s].state = "live" /\ session[s].of = a}

\* require_platform_admin: the bearer token is looked up once.
Admitted(a) ==
  /\ request[a].pc = "idle"
  /\ LiveOf(a) # {}
  /\ made < MaxRequests
  /\ made' = made + 1

SignIn(a) ==
  /\ \E s \in Sessions :
       /\ session[s].state = "new"
       /\ session' = [session EXCEPT ![s] = [state |-> "live", of |-> a]]
  /\ UNCHANGED <<workspace, audit, request, unaudited, bounds>>

TrialEnds ==
  /\ trial = "running"
  /\ trial' = "expired"
  /\ UNCHANGED <<entitlement, signer, session, audit, request, unaudited, bounds>>

----------------------------------------------------------------------------
(* PATCH /admin/workspaces/{id}/entitlement.                               *)

Supplied(body) == {f \in Field : body[f] # None}

Changes(body, seen) == {f \in Supplied(body) : body[f] # seen[f]}

\* The UPDATE of a transaction that has not been committed holds the row.
RowLocked == \E a \in Admins : request[a].pc = "updated"

\* The SELECT ... FOR UPDATE, which waits for the row.  A body without fields is refused;
\* one that changes nothing is answered at once.
EntitlementRead(a) ==
  /\ Admitted(a)
  /\ ~RowLocked
  /\ \E body \in Body :
       /\ Supplied(body) # {}
       /\ request' = [request EXCEPT ![a] =
            IF Changes(body, entitlement) = {} THEN Idle
            ELSE [@ EXCEPT !.pc = "write", !.body = body, !.seen = entitlement]]
  /\ UNCHANGED <<workspace, session, audit, unaudited, crashes>>

Written(body) == [f \in Field |-> IF body[f] = None THEN entitlement[f] ELSE body[f]]

\* Mutant: going back to TRIAL starts a new one whatever the old dates say.
TrialAfterMutant(body) ==
  IF body["plan"] = None THEN trial
  ELSE IF body["plan"] # "TRIAL" THEN "none" ELSE "running"

\* COALESCE keeps the dates of a trial that is there.
TrialAfter(body) ==
  IF body["plan"] = None THEN trial
  ELSE IF body["plan"] # "TRIAL" THEN "none"
  ELSE IF trial = "none" THEN "running" ELSE trial

SignerAfter(a, body) ==
  IF body["standing"] = None THEN signer
  ELSE IF body["standing"] = "suspended" THEN a ELSE None

\* Mutant: of two fields only the plan is looked at.
AuditedMutant(body, seen) ==
  LET first == IF "plan" \in Changes(body, seen) THEN {"plan"} ELSE Changes(body, seen)
  IN  [f \in Field |-> IF f \in first THEN body[f] ELSE None]

\* The metadata of the audit row: the changes against the values read before.
Audited(body, seen) == [f \in Field |-> IF f \in Changes(body, seen) THEN body[f] ELSE None]

\* BEGIN: the place of the event in the trail.
EntitlementBegin(a) ==
  /\ request[a].pc = "write"
  /\ audit' = Append(audit, [actor |-> a, to |-> Audited(request[a].body, request[a].seen),
                             revoked |-> {}, tx |-> a])
  /\ request' = [request EXCEPT ![a].pc = "begun"]
  /\ UNCHANGED <<workspace, session, unaudited, bounds>>

\* The UPDATE waits for whoever holds the row, and holds it from then on.
EntitlementUpdate(a) ==
  /\ request[a].pc = "begun"
  /\ ~RowLocked
  /\ request' = [request EXCEPT ![a].pc = "updated"]
  /\ UNCHANGED <<workspace, session, audit, unaudited, bounds>>

\* The transaction of a ends: its event becomes visible, or never is.
Ended(a, tx) == [k \in DOMAIN audit |->
                   IF audit[k].tx = a THEN [audit[k] EXCEPT !.tx = tx] ELSE audit[k]]

Names(e, f) == e.tx = "committed" /\ e.to[f] # None

\* Fields it writes although they were equal when it read them and are not any more.
Unnoticed(body, seen) == {f \in Supplied(body) \ Changes(body, seen) : body[f] # entitlement[f]}

\* Fields that a PATCH committed meanwhile has changed although it began later.
Overtaken(a, body, seen) ==
  {f \in Changes(body, seen) :
     \E j, k \in DOMAIN audit : j < k /\ audit[j].tx = a /\ Names(audit[k], f)}

\* COMMIT: what the UPDATE wrote, every field supplied, and the audit event.
EntitlementCommit(a) ==
  LET body == request[a].body
      seen == request[a].seen
  IN  /\ request[a].pc = "updated"
      /\ entitlement' = Written(body)
      /\ trial' = TrialAfter(body)
      /\ signer' = SignerAfter(a, body)
      /\ audit' = Ended(a, "committed")
      /\ unaudited' = (unaudited \ Changes(body, seen))
                      \cup Unnoticed(body, seen) \cup Overtaken(a, body, seen)
      /\ request' = [request EXCEPT ![a] = Idle]
      /\ UNCHANGED <<session, bounds>>

----------------------------------------------------------------------------
(* POST /admin/access/{user}/revoke-sessions.                              *)

\* Mutant: revoking what somebody else has revoked counts it again.
RevokeSessionsMutant(a) ==
  /\ Admitted(a)
  /\ \E b \in Admins :
       LET gone == {s \in Sessions : session[s].of = b} IN
         /\ session' = [s \in Sessions |->
              IF s \in gone THEN [session[s] EXCEPT !.state = "revoked"] ELSE session[s]]
         /\ request' = [request EXCEPT ![a] = [@ EXCEPT !.pc = "record", !.revoked = gone]]
  /\ UNCHANGED <<workspace, audit, unaudited, crashes>>

\* The DELETE of every session of b, which may be a's own.
RevokeSessions(a) ==
  /\ Admitted(a)
  /\ \E b \in Admins :
       /\ session' = [s \in Sessions |->
            IF s \in LiveOf(b) THEN [session[s] EXCEPT !.state = "revoked"] ELSE session[s]]
       /\ request' = [request EXCEPT ![a] = [@ EXCEPT !.pc = "record", !.revoked = LiveOf(b)]]
  /\ UNCHANGED <<workspace, audit, unaudited, crashes>>

RecordRevocation(a) ==
  /\ request[a].pc = "record"
  /\ audit' = Append(audit, [actor |-> a, to |-> Empty, revoked |-> request[a].revoked,
                             tx |-> "committed"])
  /\ request' = [request EXCEPT ![a] = Idle]
  /\ UNCHANGED <<workspace, session, unaudited, bounds>>

\* A cancelled request, a stopped process: an open transaction is rolled back.
Crash(a) ==
  /\ request[a].pc # "idle"
  /\ crashes < MaxCrashes
  /\ crashes' = crashes + 1
  /\ request' = [request EXCEPT ![a] = Idle]
  /\ audit' = Ended(a, "aborted")
  /\ UNCHANGED <<workspace, session, unaudited, made>>

----------------------------------------------------------------------------

AdminStep(a) ==
  \/ SignIn(a)
  \/ EntitlementRead(a) \/ EntitlementBegin(a) \/ EntitlementUpdate(a) \/ EntitlementCommit(a)
  \/ RevokeSessions(a) \/ RecordRevocation(a) \/ Crash(a)

Next == (\E a \in Admins : AdminStep(a)) \/ TrialEnds

Spec == Init /\ [][Next]_vars

----------------------------------------------------------------------------
(* Properties.                                                             *)

TypeOK ==
  /\ entitlement \in Row
  /\ trial \in {"none", "running", "expired"}
  /\ (trial = "none") <=> (entitlement["plan"] # "TRIAL")
  /\ signer \in Admins \cup {None}
  /\ (signer = None) <=> (entitlement["standing"] = "active")
  /\ session \in [Sessions -> Session]
  /\ audit \in Seq(AuditEvent)
  /\ request \in [Admins -> RequestState]
  /\ unaudited \subseteq Field
  /\ made \in Nat /\ crashes \in Nat

\* What the audit trail says of a field: the value of the last event that names it.
TrailSays(f, v) ==
  \/ \E k \in DOMAIN audit :
       /\ Names(audit[k], f) /\ audit[k].to[f] = v
       /\ \A j \in DOMAIN audit : j > k => ~Names(audit[j], f)
  \/ v = NewTrial[f] /\ \A k \in DOMAIN audit : ~Names(audit[k], f)

TrailTellsEntitlement == \A f \in Field \ unaudited : TrailSays(f, entitlement[f])

SuspensionSigned ==
  entitlement["standing"] = "suspended" =>
    \E k \in DOMAIN audit : audit[k].tx = "committed" /\ audit[k].actor = signer

\* "Sensitive operator actions leave an audit trail": although changes are computed from
\* values read before the transaction, and the trail is read in the order in which the
\* transactions began, it ends with the plan and the suspension the workspace has, however
\* PATCHes overlap and die.  There are two holes, per field, until a later PATCH changes
\* it: one that finds the field changed since it was read, and one that waited for the row
\* while a PATCH of the field that began later was committed (unaudited).  Who signed a
\* suspension always appears in the trail.
AuditAccounts == TrailTellsEntitlement /\ SuspensionSigned

\* Nobody ends a session unrecorded, and none is recorded twice, also when several
\* administrators revoke the same account at once; only a request that died between
\* its two statements leaves a revocation out of the trail.
RevocationsAccounted ==
  /\ \A s \in Sessions : crashes = 0 /\ session[s].state = "revoked" =>
       \/ \E k \in DOMAIN audit : s \in audit[k].revoked
       \/ \E a \in Admins : s \in request[a].revoked
  /\ \A j, k \in DOMAIN audit : j # k => audit[j].revoked \cap audit[k].revoked = {}

\* A trial that has expired never runs again while the workspace stays on it, whatever
\* PATCHes name the plan TRIAL, on stale reads or not: only leaving it for another
\* plan clears its dates.
ExpiredTrialStays ==
  [][trial = "expired" => trial' # "running"]_vars

----------------------------------------------------------------------------
(* What a reader of the trail would expect and the code does not do.       *)

\* The last event that names a field names the value it has.
TrailAlwaysTells == \A f \in Field : TrailSays(f, entitlement[f])
=============================================================================
