-------------------------------- MODULE Team --------------------------------
(***************************************************************************)
(* Workspaces, their members and the invitations that create them          *)
(* (team/repository.py, api/team.py, workspace_for_user).                  *)
(*                                                                         *)
(* A request first resolves the workspace its caller is in and the role it *)
(* has there, then acts on that workspace in later statements: what it     *)
(* read may no longer be so.  Removal reads the role, counts the owners    *)
(* and deletes in one transaction, but under READ COMMITTED each statement *)
(* sees the database of its own moment and nothing is locked.              *)
(*                                                                         *)
(* An acceptance is a transaction of three steps: BEGIN, which fixes NOW() *)
(* and with it the place of the new membership among the person's others   *)
(* and the moment the expiry of the link is compared with; the UPDATE that *)
(* claims the link, for which it may wait; and the INSERT with COMMIT,     *)
(* from which on others see the membership.                                *)
(***************************************************************************)
EXTENDS Naturals, FiniteSets

CONSTANTS
  Users,        \* people with an account
  Workspaces,
  Founder,      \* the account each workspace was created with
  Sandboxes,    \* workspaces with is_sandbox set
  Invitations,  \* bound: invitations ever created (their token hashes)
  Requests,     \* concurrent team requests
  Suspendable,  \* bound: workspaces an administrator suspends in this instance
  None

ASSUME UsersAssumption == IsFiniteSet(Users)
ASSUME FounderAssumption == Founder \in [Workspaces -> Users]
ASSUME SandboxesAssumption == Sandboxes \subseteq Workspaces
ASSUME SuspendableAssumption == Suspendable \subseteq Workspaces
ASSUME RequestsAssumption == Workspaces \cap Requests = {}
ASSUME NoneIsNothing == None \notin Users \cup Workspaces \cup Invitations

VARIABLES
  roles,       \* membership.role per person and workspace, "none" without a row
  before,      \* membership.created_at: per person, <<v, w>> if v is the earlier; a
               \* request under way stands for the membership it will insert
  invitation,  \* the invitation rows
  suspended,   \* workspaces with is_suspended set
  request,     \* local state of each request
  uses,        \* history: how many acceptances of each invitation were committed
  meanwhile,   \* history: the workspaces its caller joined since an acceptance began
  raced        \* history: workspaces in which two removals were under way at once

vars == <<roles, before, invitation, suspended, request, uses, meanwhile, raced>>

Role == {"owner", "member"}

NoInvitation == [state |-> "none", ws |-> None, role |-> "member", by |-> None]

Invitation == {NoInvitation} \cup
  [state : {"open", "spent", "revoked", "expired"},
   ws : Workspaces, role : Role, by : Users \cup {None}]

RequestState == [pc : {"idle", "invite", "revoke", "read", "count", "delete", "begun",
                        "claimed"},
                 actor : Users \cup {None}, ws : Workspaces \cup {None},
                 target : Users \cup {None}, inv : Invitations \cup {None}]

IdleRequest == [pc |-> "idle", actor |-> None, ws |-> None, target |-> None, inv |-> None]

IsMember(u, w) == roles[u][w] # "none"

Memberships(u) == {w \in Workspaces : IsMember(u, w)}

Accepting(u) ==
  {r \in Requests : request[r].pc \in {"begun", "claimed"} /\ request[r].actor = u}

\* What has a created_at: the memberships, and the transactions that may insert one.
Dated(u) == Memberships(u) \cup Accepting(u)

\* One order for the memberships of a person, present and to come, and nothing else.
JoinOrder(u) ==
  /\ before[u] \subseteq {p \in Dated(u) \X Dated(u) : p[1] # p[2]}
  /\ \A x, y \in Dated(u) : x # y => (<<x, y>> \in before[u] <=> <<y, x>> \notin before[u])

\* Every account starts as the owner of the workspace created with it.
Init ==
  /\ roles = [u \in Users |-> [w \in Workspaces |-> IF Founder[w] = u THEN "owner" ELSE "none"]]
  /\ invitation = [i \in Invitations |-> NoInvitation]
  /\ suspended = {}
  /\ request = [r \in Requests |-> IdleRequest]
  /\ before \in [Users -> SUBSET (Workspaces \X Workspaces)]
  /\ \A u \in Users : JoinOrder(u)
  /\ uses = [i \in Invitations |-> 0]
  /\ meanwhile = [r \in Requests |-> {}]
  /\ raced = {}

Active(u) == Memberships(u) \ suspended

SortsLast(u, w) == roles[u][w] = "owner" /\ w \in Sandboxes

\* Mutant: the earliest joined comes first.
IsCurrentMutant(u, w) ==
  /\ w \in Active(u)
  /\ \A v \in Active(u) \ {w} :
       \/ SortsLast(u, v) /\ ~SortsLast(u, w)
       \/ SortsLast(u, v) = SortsLast(u, w) /\ <<w, v>> \in before[u]

\* workspace_for_user: sandboxes the person owns come last, else the latest joined.
IsCurrent(u, w) ==
  /\ w \in Active(u)
  /\ \A v \in Active(u) \ {w} :
       \/ SortsLast(u, v) /\ ~SortsLast(u, w)
       \/ SortsLast(u, v) = SortsLast(u, w) /\ <<v, w>> \in before[u]

Owners(w) == {u \in Users : roles[u][w] = "owner"}

----------------------------------------------------------------------------
(* Admission: _membership and, but for leaving, _require_owner.            *)

Admitted(r, u, w, pc, target) ==
  request' = [request EXCEPT ![r] = [pc |-> pc, actor |-> u, ws |-> w,
                                     target |-> target, inv |-> None]]

AdmitOwner(r) ==
  /\ request[r].pc = "idle"
  /\ \E u \in Users, w \in Workspaces :
       /\ IsCurrent(u, w) /\ roles[u][w] = "owner"
       /\ \/ Admitted(r, u, w, "invite", None)
          \/ Admitted(r, u, w, "revoke", None)
          \/ \E target \in Users : Admitted(r, u, w, "read", target)
  /\ UNCHANGED <<roles, before, invitation, suspended, uses, meanwhile, raced>>

AdmitLeave(r) ==
  /\ request[r].pc = "idle"
  /\ \E u \in Users, w \in Workspaces :
       IsCurrent(u, w) /\ Admitted(r, u, w, "read", u)
  /\ UNCHANGED <<roles, before, invitation, suspended, uses, meanwhile, raced>>

Finished(r) == request' = [request EXCEPT ![r] = IdleRequest]

----------------------------------------------------------------------------
(* Invitations.                                                            *)

\* A fresh token of the role the owner asked for.
CreateInvitation(r) ==
  /\ request[r].pc = "invite"
  /\ \E i \in Invitations, role \in Role :
       /\ invitation[i].state = "none"
       /\ invitation' = [invitation EXCEPT ![i] =
            [state |-> "open", ws |-> request[r].ws, role |-> role, by |-> None]]
  /\ Finished(r)
  /\ UNCHANGED <<roles, before, suspended, uses, meanwhile, raced>>

\* An acceptance that has not been committed holds the row.
RowLocked(i) == \E r \in Requests : request[r].pc = "claimed" /\ request[r].inv = i

Revocable(i, w) == invitation[i].state \in {"open", "expired"} /\ invitation[i].ws = w

\* DELETE ... WHERE accepted_by IS NULL, or 404.
RevokeInvitation(r) ==
  /\ request[r].pc = "revoke"
  /\ \/ \E i \in Invitations :
          /\ Revocable(i, request[r].ws) /\ ~RowLocked(i)
          /\ invitation' = [invitation EXCEPT ![i].state = "revoked"]
     \/ UNCHANGED invitation
  /\ Finished(r)
  /\ UNCHANGED <<roles, before, suspended, uses, meanwhile, raced>>

Expire(i) ==
  /\ invitation[i].state = "open"
  /\ invitation' = [invitation EXCEPT ![i].state = "expired"]
  /\ UNCHANGED <<roles, before, suspended, request, uses, meanwhile, raced>>

\* What BEGIN fixes: the place after all that is dated already.
LastPlace(r, u) == before' = [before EXCEPT ![u] = @ \cup (Dated(u) \X {r})]

\* A transaction that ends without a membership leaves no place.
NoPlace(r) == [u \in Users |-> {p \in before[u] : p[1] # r /\ p[2] # r}]

\* accept_invitation, BEGIN, by somebody whose link is open.  One that is spent, revoked
\* or expired by now stays so, and following it changes nothing.
Begin(r) ==
  /\ request[r].pc = "idle"
  /\ \E u \in Users, i \in Invitations :
       /\ invitation[i].state = "open"
       /\ request' = [request EXCEPT ![r] = [pc |-> "begun", actor |-> u, ws |-> None,
                                             target |-> None, inv |-> i]]
       /\ LastPlace(r, u)
  /\ UNCHANGED <<roles, invitation, suspended, uses, meanwhile, raced>>

\* A link that was open at BEGIN, to which "expires_at > NOW()" refers.
Claimable(i) == invitation[i].state \in {"open", "expired"}

\* Mutant: the invitation is looked up first and marked later.
ClaimMutant(r) ==
  /\ request[r].pc = "begun"
  /\ Claimable(request[r].inv)
  /\ request' = [request EXCEPT ![r].pc = "claimed", ![r].ws = invitation[request[r].inv].ws]
  /\ UNCHANGED <<roles, before, invitation, suspended, uses, meanwhile, raced>>

\* The UPDATE ... WHERE accepted_by IS NULL: it waits for whoever holds the row and then
\* sees what that left.
Claim(r) ==
  /\ request[r].pc = "begun"
  /\ Claimable(request[r].inv) /\ ~RowLocked(request[r].inv)
  /\ request' = [request EXCEPT ![r].pc = "claimed", ![r].ws = invitation[request[r].inv].ws]
  /\ UNCHANGED <<roles, before, invitation, suspended, uses, meanwhile, raced>>

\* No row, for the link was spent or revoked meanwhile: None.
ClaimNothing(r) ==
  /\ request[r].pc = "begun"
  /\ ~Claimable(request[r].inv)
  /\ before' = NoPlace(r)
  /\ meanwhile' = [meanwhile EXCEPT ![r] = {}]
  /\ Finished(r)
  /\ UNCHANGED <<roles, invitation, suspended, uses, raced>>

\* Mutant: the role is left to the column's default.
RoleGivenMutant(r) == "owner"

RoleGiven(r) == invitation[request[r].inv].role

\* The place taken at BEGIN becomes the membership's.
PlaceOf(r, w) == [x \in Workspaces \cup Requests |-> IF x = r THEN w ELSE x]

\* The membership of u in w is dated where r began, and is news to their other acceptances.
Insert(r, u, w) ==
  /\ roles' = [roles EXCEPT ![u][w] = RoleGiven(r)]
  /\ before' = [before EXCEPT ![u] = {<<PlaceOf(r, w)[p[1]], PlaceOf(r, w)[p[2]]>> : p \in @}]
  /\ meanwhile' = [q \in Requests |->
       IF q = r THEN {} ELSE IF q \in Accepting(u) THEN meanwhile[q] \cup {w} ELSE meanwhile[q]]

\* The INSERT ... ON CONFLICT DO NOTHING, and COMMIT.
Join(r) ==
  /\ request[r].pc = "claimed"
  /\ LET u == request[r].actor
         w == request[r].ws
         i == request[r].inv
     IN  /\ invitation' = [invitation EXCEPT ![i].state = "spent", ![i].by = u]
         /\ uses' = [uses EXCEPT ![i] = @ + 1]
         /\ \/ /\ IsMember(u, w)
               /\ before' = NoPlace(r) /\ meanwhile' = [meanwhile EXCEPT ![r] = {}]
               /\ UNCHANGED roles
            \/ ~IsMember(u, w) /\ Insert(r, u, w)
  /\ Finished(r)
  /\ UNCHANGED <<suspended, raced>>

----------------------------------------------------------------------------
(* remove_member, for removing somebody and for leaving.                   *)

RemovingFrom(w) ==
  {r \in Requests : request[r].pc \in {"count", "delete"} /\ request[r].ws = w}

\* NOT_FOUND: 404.
ReadNothing(r) ==
  /\ request[r].pc = "read"
  /\ ~IsMember(request[r].target, request[r].ws)
  /\ Finished(r)
  /\ UNCHANGED <<roles, before, invitation, suspended, uses, meanwhile, raced>>

ReadRole(r) ==
  /\ request[r].pc = "read"
  /\ LET w    == request[r].ws
         role == roles[request[r].target][w]
     IN  /\ role # "none"
         /\ request' = [request EXCEPT ![r].pc = IF role = "owner" THEN "count" ELSE "delete"]
         /\ raced' = IF RemovingFrom(w) = {} THEN raced ELSE raced \cup {w}
  /\ UNCHANGED <<roles, before, invitation, suspended, uses, meanwhile>>

\* Mutant: the members are counted instead of the owners.
CountOwnersMutant(w) == Cardinality({u \in Users : IsMember(u, w)})

CountOwners(w) == Cardinality(Owners(w))

\* LAST_OWNER: 409.
CheckOwners(r) ==
  /\ request[r].pc = "count"
  /\ request' = [request EXCEPT ![r] =
       IF CountOwners(request[r].ws) <= 1 THEN IdleRequest ELSE [@ EXCEPT !.pc = "delete"]]
  /\ UNCHANGED <<roles, before, invitation, suspended, uses, meanwhile, raced>>

\* Mutant: the local state is not reset.
DeleteMembershipMutant(r) ==
  /\ request[r].pc = "delete"
  /\ roles' = [roles EXCEPT ![request[r].target][request[r].ws] = "none"]
  /\ before' = [before EXCEPT ![request[r].target] =
       {p \in @ : p[1] # request[r].ws /\ p[2] # request[r].ws}]
  /\ request' = [request EXCEPT ![r].pc = "idle"]
  /\ UNCHANGED <<invitation, suspended, uses, meanwhile, raced>>

DeleteMembership(r) ==
  /\ request[r].pc = "delete"
  /\ roles' = [roles EXCEPT ![request[r].target][request[r].ws] = "none"]
  /\ before' = [before EXCEPT ![request[r].target] =
       {p \in @ : p[1] # request[r].ws /\ p[2] # request[r].ws}]
  /\ Finished(r)
  /\ UNCHANGED <<invitation, suspended, uses, meanwhile, raced>>

----------------------------------------------------------------------------

\* A request that dies takes its open transaction with it.
Crash(r) ==
  /\ request[r].pc # "idle"
  /\ Finished(r)
  /\ before' = NoPlace(r) /\ meanwhile' = [meanwhile EXCEPT ![r] = {}]
  /\ UNCHANGED <<roles, invitation, suspended, uses, raced>>

\* A platform administrator suspends or restores a workspace.
Suspend(w) ==
  /\ w \in Suspendable
  /\ suspended' = IF w \in suspended THEN suspended \ {w} ELSE suspended \cup {w}
  /\ UNCHANGED <<roles, before, invitation, request, uses, meanwhile, raced>>

RequestStep(r) ==
  \/ AdmitOwner(r) \/ AdmitLeave(r)
  \/ CreateInvitation(r) \/ RevokeInvitation(r)
  \/ Begin(r) \/ Claim(r) \/ ClaimNothing(r) \/ Join(r)
  \/ ReadNothing(r) \/ ReadRole(r) \/ CheckOwners(r) \/ DeleteMembership(r) \/ Crash(r)

Next ==
  \/ \E r \in Requests : RequestStep(r)
  \/ \E i \in Invitations : Expire(i)
  \/ \E w \in Workspaces : Suspend(w)

Spec == Init /\ [][Next]_vars

----------------------------------------------------------------------------
(* Properties.                                                             *)

\* What a request needs to know at each of its steps.
RequestsKnow ==
  \A r \in Requests :
    /\ request[r].pc = "idle" <=> request[r].actor = None
    /\ request[r].pc \in {"idle", "begun"} \/ request[r].ws \in Workspaces
    /\ request[r].pc \in {"read", "count", "delete"} => request[r].target \in Users
    /\ request[r].pc \in {"begun", "claimed"} =>
         /\ request[r].inv \in Invitations
         /\ invitation[request[r].inv].state # "none"
    /\ request[r].pc = "claimed" => invitation[request[r].inv].ws = request[r].ws

TypeOK ==
  /\ roles \in [Users -> [Workspaces -> Role \cup {"none"}]]
  /\ before \in [Users -> SUBSET ((Workspaces \cup Requests) \X (Workspaces \cup Requests))]
  /\ \A u \in Users : JoinOrder(u)
  /\ invitation \in [Invitations -> Invitation]
  /\ suspended \subseteq Workspaces
  /\ request \in [Requests -> RequestState]
  /\ RequestsKnow
  /\ uses \in [Invitations -> Nat]
  /\ meanwhile \in [Requests -> SUBSET Workspaces]
  /\ raced \subseteq Workspaces

\* "A replayed link cannot add someone twice" (team/repository.py): an invitation is
\* spent exactly when one acceptance of it was committed, also when two people
\* follow the link at once, when the owner revokes it meanwhile or a request dies.
SingleUse ==
  \A i \in Invitations : uses[i] = (IF invitation[i].state = "spent" THEN 1 ELSE 0)

\* Nobody has a role in a workspace they did not found or were not invited to with
\* that very role: no order of removals, repeated links and leaves escalates one.
RoleAsInvited ==
  \A u \in Users, w \in Workspaces : IsMember(u, w) =>
    \/ Founder[w] = u /\ roles[u][w] = "owner"
    \/ \E i \in Invitations :
         /\ invitation[i].state = "spent" /\ invitation[i].by = u
         /\ invitation[i].ws = w /\ invitation[i].role = roles[u][w]

\* The LAST_OWNER check does its work whenever it is alone: a workspace is without an
\* owner only if two removals from it were once under way at the same time.
AdministeredUnlessRaced == \A w \in Workspaces : Owners(w) = {} => w \in raced

\* The acceptance whose commit this step is.
Commits(r) ==
  /\ request[r].pc = "claimed" /\ request'[r] # request[r]
  /\ invitation[request[r].inv].state # "spent"
  /\ invitation'[request[r].inv].state = "spent"

\* It makes u a member of w, where they can be.  One case the comment of workspace_for_user
\* does not name is left out: whoever is made an owner of somebody else's sandbox, for
\* every sandbox that a person owns sorts last, the personal one or not.
MakesMember(r, u, w) ==
  /\ Commits(r) /\ u = request[r].actor /\ w = request[r].ws
  /\ ~IsMember(u, w) /\ w \notin suspended
  /\ ~(RoleGiven(r) = "owner" /\ w \in Sandboxes)

\* "Accepting an invitation actually lands the person in that team" (workspace_for_user),
\* whatever else they belong to, left or were removed from meanwhile; only if another
\* acceptance of theirs was committed since this one began may it be that other team.
\* Nobody is left in the workspace they came from.
LandsInTeam ==
  [][\A r \in Requests, u \in Users, w \in Workspaces : MakesMember(r, u, w) =>
       /\ meanwhile[r] = {} => IsCurrent(u, w)'
       /\ \A v \in Workspaces : IsCurrent(u, v)' => v = w \/ v \in meanwhile[r]]_vars

----------------------------------------------------------------------------
(* What the repository says and the code does not do.                      *)

\* "The last owner still cannot leave.  A workspace nobody can administer is
\* unrecoverable through the product" (api/team.py).
AlwaysAdministered == \A w \in Workspaces : Owners(w) # {}

\* The comment of workspace_for_user to the letter.  created_at is the BEGIN of the
\* acceptance: of two that overlap, the one that began first and was committed last leaves
\* its caller in the other team.
AlwaysLands ==
  [][\A r \in Requests, u \in Users, w \in Workspaces :
       MakesMember(r, u, w) => IsCurrent(u, w)']_vars

=============================================================================
