----------------------------- MODULE TeamProofs -----------------------------
(***************************************************************************)
(* Theorems about Team for any finite set of people and any workspaces,    *)
(* invitations and requests.                                               *)
(*                                                                         *)
(* Invited ties the requests that hold an invitation to its row: it is     *)
(* what keeps links from being used twice and roles from being escalated.  *)
(* Administered says what a removal still knows of the owners it counted:  *)
(* it holds for as long as the removal is the only one in its workspace.   *)
(* Ordered says how the memberships of a person are dated while they       *)
(* accept invitations: what is later than an acceptance under way was      *)
(* joined since it began.                                                  *)
(***************************************************************************)
EXTENDS Team, FiniteSetTheorems, TLAPS

\* Who holds an invitation is alone with it, and it has not been spent.
ClaimsExclusive ==
  \A r \in Requests : request[r].pc = "claimed" =>
    /\ invitation[request[r].inv].state \in {"open", "expired"}
    /\ \A q \in Requests :
         request[q].pc = "claimed" /\ request[q].inv = request[r].inv => q = r

\* Without a race there is one removal at a time.
RemovalsAlone ==
  \A q, r \in Requests :
    /\ request[q].pc \in {"count", "delete"} /\ request[r].pc \in {"count", "delete"}
    /\ request[q].ws = request[r].ws /\ request[r].ws \notin raced
    => q = r

\* And a deletion leaves an owner behind.
DeleteSafe ==
  \A r \in Requests : request[r].pc = "delete" /\ request[r].ws \notin raced =>
    \/ roles[request[r].target][request[r].ws] = "member"
    \/ \E u \in Users : u # request[r].target /\ roles[u][request[r].ws] = "owner"

Invited == ClaimsExclusive /\ SingleUse /\ RoleAsInvited

Administered == RemovalsAlone /\ DeleteSafe /\ AdministeredUnlessRaced

\* A membership later than the BEGIN of an acceptance is news to it.
NewerJoined ==
  \A u \in Users, r \in Requests, v \in Workspaces :
    <<r, v>> \in before[u] => v \in meanwhile[r]

Ordered ==
  /\ roles \in [Users -> [Workspaces -> Role \cup {"none"}]]
  /\ before \in [Users -> SUBSET ((Workspaces \cup Requests) \X (Workspaces \cup Requests))]
  /\ meanwhile \in [Requests -> SUBSET Workspaces]
  /\ \A u \in Users : JoinOrder(u)
  /\ NewerJoined

IInv == TypeOK /\ Invited /\ Administered /\ NewerJoined

----------------------------------------------------------------------------
(* Frames: what a step leaves alone.                                       *)

\* The idle local state.
LEMMA IdleType ==
  /\ IdleRequest \in RequestState /\ IdleRequest.pc = "idle" /\ IdleRequest.actor = None
  /\ None \notin Users /\ None \notin Workspaces
BY NoneIsNothing DEF IdleRequest, RequestState

\* A step of one request changes that request's local state only.
LEMMA Put ==
  ASSUME TypeOK, NEW r \in Requests, NEW x \in RequestState,
         request' = [request EXCEPT ![r] = x]
  PROVE  /\ request' \in [Requests -> RequestState] /\ request'[r] = x
         /\ \A q \in Requests \ {r} : request'[q] = request[q]
BY DEF TypeOK

\* An invitation stays one of its workspace.
LinksStay ==
  \A j \in Invitations : invitation[j].state # "none" =>
    invitation'[j].state # "none" /\ invitation'[j].ws = invitation[j].ws

\* What a request must know is not disturbed by those that end.
LEMMA FinishedKnows ==
  ASSUME IInv, NEW r \in Requests, Finished(r), LinksStay
  PROVE  /\ request' \in [Requests -> RequestState] /\ RequestsKnow'
         /\ request'[r] = IdleRequest /\ \A q \in Requests \ {r} : request'[q] = request[q]
<1>1. TypeOK /\ request' = [request EXCEPT ![r] = IdleRequest]
  BY DEF IInv, Finished
<1>2. /\ request' \in [Requests -> RequestState] /\ request'[r] = IdleRequest
      /\ \A q \in Requests \ {r} : request'[q] = request[q]
  BY <1>1, Put, IdleType
<1>3. RequestsKnow'
  BY <1>1, <1>2, IdleType DEF TypeOK, RequestsKnow, LinksStay
<1> QED
  BY <1>2, <1>3

\* A step that claims nothing and touches neither roles nor invitations.
LEMMA InvitedFrame ==
  ASSUME Invited, UNCHANGED <<roles, invitation, uses>>,
         \A r \in Requests : request'[r].pc = "claimed" => request'[r] = request[r]
  PROVE  Invited'
BY DEF Invited, ClaimsExclusive, SingleUse, RoleAsInvited, IsMember

\* A step that starts or continues no removal and leaves the roles alone.
LEMMA AdministeredFrame ==
  ASSUME Administered, UNCHANGED <<roles, raced>>,
         \A r \in Requests :
           request'[r].pc \in {"count", "delete"} => request'[r] = request[r]
  PROVE  Administered'
BY DEF Administered, RemovalsAlone, DeleteSafe, AdministeredUnlessRaced, Owners

----------------------------------------------------------------------------
(* How memberships are dated.                                              *)

\* A step of a request that neither begins nor ends an acceptance.
LEMMA SameAccepting ==
  ASSUME NEW r \in Requests, \A q \in Requests \ {r} : request'[q] = request[q],
         request[r].pc \in {"begun", "claimed"} <=> request'[r].pc \in {"begun", "claimed"},
         request[r].pc \in {"begun", "claimed"} => request'[r].actor = request[r].actor
  PROVE  \A u \in Users : Accepting(u)' = Accepting(u)
BY DEF Accepting

\* Nothing that is dated has changed.
LEMMA OrderFrame ==
  ASSUME IInv, UNCHANGED <<roles, before, meanwhile>>,
         \A u \in Users : Accepting(u)' = Accepting(u)
  PROVE  Ordered'
<1>1. TypeOK /\ NewerJoined
  BY DEF IInv
<1>2. ASSUME NEW u \in Users PROVE JoinOrder(u)'
  <2>1. Dated(u)' = Dated(u)
    BY DEF Dated, Memberships, IsMember
  <2> QED
    BY <1>1, <2>1 DEF TypeOK, JoinOrder
<1> QED
  BY <1>1, <1>2 DEF TypeOK, Ordered, NewerJoined

\* An acceptance that ends without a membership leaves its place.
LEMMA OrderDropped ==
  ASSUME IInv, NEW r \in Requests, Finished(r), before' = NoPlace(r),
         meanwhile' = [meanwhile EXCEPT ![r] = {}], roles' = roles
  PROVE  Ordered'
<1>1. TypeOK /\ NewerJoined
  BY DEF IInv
<1>2. request'[r] = IdleRequest /\ \A q \in Requests \ {r} : request'[q] = request[q]
  BY <1>1 DEF Finished, TypeOK
<1>3. \A u \in Users : before'[u] = {p \in before[u] : p[1] # r /\ p[2] # r}
  BY DEF NoPlace
<1>4. before' \in [Users -> SUBSET ((Workspaces \cup Requests) \X (Workspaces \cup Requests))]
  <2>1. \A u \in Users :
          {p \in before[u] : p[1] # r /\ p[2] # r}
            \in SUBSET ((Workspaces \cup Requests) \X (Workspaces \cup Requests))
    BY <1>1 DEF TypeOK
  <2> QED
    BY <2>1 DEF NoPlace
<1>5. ASSUME NEW u \in Users PROVE JoinOrder(u)'
  <2>1. Accepting(u)' = Accepting(u) \ {r}
    BY <1>2, IdleType DEF Accepting
  <2>2. Memberships(u)' = Memberships(u) /\ r \notin Memberships(u)
    BY RequestsAssumption DEF Memberships, IsMember
  <2>3. Dated(u)' = Dated(u) \ {r}
    BY <2>1, <2>2 DEF Dated
  <2>4. JoinOrder(u)
    BY <1>1 DEF TypeOK
  <2> QED
    BY <1>3, <2>3, <2>4 DEF JoinOrder
<1>6. NewerJoined'
  BY <1>1, <1>3 DEF TypeOK, NewerJoined
<1> QED
  BY <1>1, <1>4, <1>5, <1>6 DEF TypeOK, Ordered

\* BEGIN takes the last place.
LEMMA OrderBegun ==
  ASSUME IInv, NEW r \in Requests, NEW u \in Users, LastPlace(r, u),
         request[r].pc = "idle", request'[r].pc = "begun", request'[r].actor = u,
         \A q \in Requests \ {r} : request'[q] = request[q], UNCHANGED <<roles, meanwhile>>
  PROVE  Ordered'
<1>1. TypeOK /\ NewerJoined
  BY DEF IInv
<1>2. \A v \in Users : Dated(v) \subseteq Workspaces \cup Requests
  BY DEF Dated, Memberships, Accepting
<1>3. /\ before' \in [Users -> SUBSET ((Workspaces \cup Requests) \X (Workspaces \cup Requests))]
      /\ before'[u] = before[u] \cup (Dated(u) \X {r})
      /\ \A v \in Users \ {u} : before'[v] = before[v]
  <2>1. before[u] \cup (Dated(u) \X {r})
          \in SUBSET ((Workspaces \cup Requests) \X (Workspaces \cup Requests))
    BY <1>1, <1>2 DEF TypeOK
  <2> QED
    BY <1>1, <2>1 DEF LastPlace, TypeOK
<1>4. \A v \in Users : Memberships(v)' = Memberships(v) /\ r \notin Memberships(v)
  BY RequestsAssumption DEF Memberships, IsMember
<1>5. JoinOrder(u)'
  <2>1. Accepting(u)' = Accepting(u) \cup {r} /\ r \notin Accepting(u)
    BY DEF Accepting
  <2>2. Dated(u)' = Dated(u) \cup {r} /\ r \notin Dated(u)
    BY <1>4, <2>1 DEF Dated
  <2>3. JoinOrder(u)
    BY <1>1 DEF TypeOK
  <2> QED
    BY <1>3, <2>2, <2>3 DEF JoinOrder
<1>6. ASSUME NEW v \in Users \ {u} PROVE JoinOrder(v)'
  <2>1. Accepting(v)' = Accepting(v)
    BY DEF Accepting
  <2>2. Dated(v)' = Dated(v)
    BY <1>4, <2>1 DEF Dated
  <2> QED
    BY <1>1, <1>3, <2>2 DEF TypeOK, JoinOrder
<1>7. NewerJoined'
  <2> SUFFICES ASSUME NEW v \in Users, NEW q \in Requests, NEW w \in Workspaces,
                      <<q, w>> \in before'[v]
               PROVE  w \in meanwhile[q]
    BY DEF NewerJoined
  <2>1. w # r
    BY RequestsAssumption
  <2>2. <<q, w>> \in before[v]
    BY <1>3, <2>1
  <2> QED
    BY <1>1, <2>2 DEF NewerJoined
<1> QED
  BY <1>1, <1>3, <1>5, <1>6, <1>7 DEF TypeOK, Ordered

----------------------------------------------------------------------------
(* Requests that end.                                                      *)

\* They have done nothing.
LEMMA EndedKeeps ==
  ASSUME IInv, NEW r \in Requests, Finished(r), request[r].pc \notin {"begun", "claimed"},
         UNCHANGED <<roles, before, invitation, suspended, uses, meanwhile, raced>>
  PROVE  IInv'
<1>1. LinksStay
  BY DEF LinksStay
<1>2. /\ request' \in [Requests -> RequestState] /\ RequestsKnow'
      /\ request'[r] = IdleRequest /\ \A q \in Requests \ {r} : request'[q] = request[q]
  BY <1>1, FinishedKnows
<1>3. Invited' /\ Administered'
  BY <1>2, IdleType, InvitedFrame, AdministeredFrame DEF IInv
<1>4. Ordered'
  BY <1>2, IdleType, SameAccepting, OrderFrame
<1> QED
  BY <1>2, <1>3, <1>4 DEF IInv, TypeOK, Ordered

\* An acceptance rolled back, by a crash or because the link is no longer there.
LEMMA DroppedKeeps ==
  ASSUME IInv, NEW r \in Requests, Finished(r), before' = NoPlace(r),
         meanwhile' = [meanwhile EXCEPT ![r] = {}],
         UNCHANGED <<roles, invitation, suspended, uses, raced>>
  PROVE  IInv'
<1>1. LinksStay
  BY DEF LinksStay
<1>2. /\ request' \in [Requests -> RequestState] /\ RequestsKnow'
      /\ request'[r] = IdleRequest /\ \A q \in Requests \ {r} : request'[q] = request[q]
  BY <1>1, FinishedKnows
<1>3. Invited' /\ Administered'
  BY <1>2, IdleType, InvitedFrame, AdministeredFrame DEF IInv
<1>4. Ordered'
  BY OrderDropped
<1> QED
  BY <1>2, <1>3, <1>4 DEF IInv, TypeOK, Ordered

----------------------------------------------------------------------------
(* Admission.                                                              *)

\* A request is admitted with a caller, a workspace and perhaps a target.
LEMMA AdmittedKeeps ==
  ASSUME IInv, NEW r \in Requests, request[r].pc = "idle",
         NEW u \in Users, NEW w \in Workspaces,
         NEW p \in {"invite", "revoke", "read"}, NEW target \in Users \cup {None},
         p = "read" => target \in Users, Admitted(r, u, w, p, target),
         UNCHANGED <<roles, before, invitation, suspended, uses, meanwhile, raced>>
  PROVE  IInv'
<1> DEFINE x == [pc |-> p, actor |-> u, ws |-> w, target |-> target, inv |-> None]
<1>1. TypeOK /\ request' = [request EXCEPT ![r] = x]
  BY DEF Admitted, IInv
<1>2. /\ x \in RequestState /\ x.pc = p /\ x.actor = u /\ x.ws = w /\ x.target = target
  BY DEF RequestState
<1> HIDE DEF x
<1>3. /\ request' \in [Requests -> RequestState] /\ request'[r] = x
      /\ \A q \in Requests \ {r} : request'[q] = request[q]
  BY <1>1, <1>2, Put
<1>7. Ordered'
  BY <1>2, <1>3, SameAccepting, OrderFrame
<1>4. TypeOK'
  <2>1. RequestsKnow'
    BY <1>1, <1>2, <1>3, IdleType DEF TypeOK, RequestsKnow
  <2> QED
    BY <1>1, <1>3, <1>7, <2>1 DEF TypeOK, Ordered
<1>5. Invited'
  BY <1>2, <1>3, InvitedFrame DEF IInv
<1>6. Administered'
  BY <1>2, <1>3, AdministeredFrame DEF IInv
<1> QED
  BY <1>4, <1>5, <1>6, <1>7 DEF IInv, Ordered

\* Owners are admitted to invite, revoke and remove.
LEMMA AdmitOwnerKeeps ==
  ASSUME IInv, NEW r \in Requests, AdmitOwner(r) PROVE IInv'
<1>1. PICK u \in Users, w \in Workspaces :
        \/ Admitted(r, u, w, "invite", None)
        \/ Admitted(r, u, w, "revoke", None)
        \/ \E target \in Users : Admitted(r, u, w, "read", target)
  BY DEF AdmitOwner
<1>2. /\ request[r].pc = "idle"
      /\ UNCHANGED <<roles, before, invitation, suspended, uses, meanwhile, raced>>
  BY DEF AdmitOwner
<1>3. CASE Admitted(r, u, w, "invite", None)
  BY <1>2, <1>3, AdmittedKeeps
<1>4. CASE Admitted(r, u, w, "revoke", None)
  BY <1>2, <1>4, AdmittedKeeps
<1>5. CASE \E target \in Users : Admitted(r, u, w, "read", target)
  BY <1>2, <1>5, AdmittedKeeps
<1> QED
  BY <1>1, <1>3, <1>4, <1>5

\* Members are admitted to leave.
LEMMA AdmitLeaveKeeps ==
  ASSUME IInv, NEW r \in Requests, AdmitLeave(r) PROVE IInv'
<1>1. PICK u \in Users, w \in Workspaces : Admitted(r, u, w, "read", u)
  BY DEF AdmitLeave
<1>2. /\ request[r].pc = "idle"
      /\ UNCHANGED <<roles, before, invitation, suspended, uses, meanwhile, raced>>
  BY DEF AdmitLeave
<1> QED
  BY <1>1, <1>2, AdmittedKeeps

----------------------------------------------------------------------------
(* Invitations.                                                            *)

\* A new invitation has not been used, and no request holds it.
LEMMA CreateInvitationKeeps ==
  ASSUME IInv, NEW r \in Requests, CreateInvitation(r) PROVE IInv'
<1>1. PICK i \in Invitations, role \in Role :
        /\ invitation[i].state = "none"
        /\ invitation' = [invitation EXCEPT ![i] =
             [state |-> "open", ws |-> request[r].ws, role |-> role, by |-> None]]
  BY DEF CreateInvitation
<1> DEFINE row == [state |-> "open", ws |-> request[r].ws, role |-> role, by |-> None]
<1>2. TypeOK /\ row \in Invitation /\ row.state = "open"
  BY DEF IInv, TypeOK, CreateInvitation, RequestsKnow, Invitation, RequestState
<1> HIDE DEF row
<1>3. /\ invitation' \in [Invitations -> Invitation] /\ invitation'[i] = row
      /\ \A j \in Invitations \ {i} : invitation'[j] = invitation[j]
  BY <1>1, <1>2 DEF TypeOK, row
<1>4. /\ request' \in [Requests -> RequestState] /\ RequestsKnow'
      /\ request'[r] = IdleRequest /\ \A q \in Requests \ {r} : request'[q] = request[q]
  <2>1. LinksStay
    BY <1>1, <1>3 DEF LinksStay
  <2> QED
    BY <2>1, FinishedKnows DEF CreateInvitation
<1>8. Ordered'
  BY <1>4, IdleType, SameAccepting, OrderFrame DEF CreateInvitation
<1>5. TypeOK'
  BY <1>2, <1>3, <1>4, <1>8 DEF TypeOK, Ordered, CreateInvitation
<1>6. Invited'
  <2>1. ClaimsExclusive'
    <3>1. \A q \in Requests : request'[q].pc = "claimed" => request'[q] = request[q]
      BY <1>4, IdleType
    <3>2. \A q \in Requests : request[q].pc = "claimed" =>
            invitation'[request[q].inv] = invitation[request[q].inv]
      BY <1>1, <1>2, <1>3 DEF TypeOK, RequestsKnow
    <3> QED
      BY <3>1, <3>2 DEF IInv, Invited, ClaimsExclusive
  <2>2. SingleUse' /\ RoleAsInvited'
    BY <1>1, <1>2, <1>3 DEF IInv, Invited, SingleUse, RoleAsInvited, IsMember,
        CreateInvitation
  <2> QED
    BY <2>1, <2>2 DEF Invited
<1>7. Administered'
  BY <1>4, IdleType, AdministeredFrame DEF IInv, CreateInvitation
<1> QED
  BY <1>5, <1>6, <1>7, <1>8 DEF IInv, Ordered

\* An invitation that closes unused, while its request still runs or not.
LEMMA ClosedInvited ==
  ASSUME IInv, NEW i \in Invitations, NEW closed \in {"revoked", "expired"},
         invitation[i].state \in {"open", "expired"},
         invitation' = [invitation EXCEPT ![i].state = closed],
         UNCHANGED <<roles, uses>>,
         \A r \in Requests : request'[r].pc = "claimed" => request'[r] = request[r],
         closed = "revoked" => ~RowLocked(i)
  PROVE  invitation' \in [Invitations -> Invitation] /\ Invited' /\ LinksStay
<1>1. /\ invitation' \in [Invitations -> Invitation] /\ invitation'[i].state = closed
      /\ \A j \in Invitations \ {i} : invitation'[j] = invitation[j]
      /\ LinksStay
  BY DEF IInv, TypeOK, Invitation, NoInvitation, LinksStay
<1>2. ClaimsExclusive'
  BY <1>1 DEF IInv, Invited, ClaimsExclusive, TypeOK, RequestsKnow, RowLocked
<1>3. SingleUse' /\ RoleAsInvited'
  BY <1>1 DEF IInv, Invited, SingleUse, RoleAsInvited, IsMember
<1> QED
  BY <1>1, <1>2, <1>3 DEF Invited

\* Revoking waits for whoever holds the invitation.
LEMMA RevokeInvitationKeeps ==
  ASSUME IInv, NEW r \in Requests, RevokeInvitation(r) PROVE IInv'
<1>1. /\ Finished(r) /\ request[r].pc = "revoke"
      /\ UNCHANGED <<roles, before, suspended, uses, meanwhile, raced>>
  BY DEF RevokeInvitation
<1>2. CASE UNCHANGED invitation
  <2>1. LinksStay
    BY <1>2 DEF LinksStay
  <2> QED
    BY <1>1, <1>2, <2>1, EndedKeeps
<1>3. ASSUME NEW i \in Invitations, Revocable(i, request[r].ws), ~RowLocked(i),
             invitation' = [invitation EXCEPT ![i].state = "revoked"]
      PROVE  IInv'
  <2>1. \A q \in Requests : request'[q].pc = "claimed" => request'[q] = request[q]
    BY <1>1, IdleType DEF Finished, IInv, TypeOK
  <2>2. invitation' \in [Invitations -> Invitation] /\ Invited' /\ LinksStay
    BY <1>1, <1>3, <2>1, ClosedInvited DEF Revocable
  <2>3. /\ request' \in [Requests -> RequestState] /\ RequestsKnow'
        /\ request'[r] = IdleRequest /\ \A q \in Requests \ {r} : request'[q] = request[q]
    BY <1>1, <2>2, FinishedKnows
  <2>4. Administered'
    BY <1>1, <2>3, IdleType, AdministeredFrame DEF IInv
  <2>5. Ordered'
    BY <1>1, <2>3, IdleType, SameAccepting, OrderFrame
  <2> QED
    BY <1>1, <2>2, <2>3, <2>4, <2>5 DEF IInv, TypeOK, Ordered
<1> QED
  BY <1>2, <1>3 DEF RevokeInvitation

\* Time passes.
LEMMA ExpireKeeps ==
  ASSUME IInv, NEW i \in Invitations, Expire(i) PROVE IInv'
<1>1. /\ invitation[i].state = "open"
      /\ invitation' = [invitation EXCEPT ![i].state = "expired"]
      /\ UNCHANGED <<roles, before, suspended, request, uses, meanwhile, raced>>
  BY DEF Expire
<1>2. invitation' \in [Invitations -> Invitation] /\ Invited' /\ LinksStay
  BY <1>1, ClosedInvited
<1>3. RequestsKnow'
  BY <1>1, <1>2 DEF IInv, TypeOK, RequestsKnow, LinksStay
<1>4. Administered'
  BY <1>1, AdministeredFrame DEF IInv
<1>5. Ordered'
  BY <1>1, OrderFrame DEF Accepting
<1> QED
  BY <1>1, <1>2, <1>3, <1>4, <1>5 DEF IInv, TypeOK, Ordered

\* An acceptance begins.
LEMMA BeginKeeps ==
  ASSUME IInv, NEW r \in Requests, Begin(r) PROVE IInv'
<1>1. PICK u \in Users, i \in Invitations :
        /\ invitation[i].state = "open" /\ LastPlace(r, u)
        /\ request' = [request EXCEPT ![r] = [pc |-> "begun", actor |-> u, ws |-> None,
                                             target |-> None, inv |-> i]]
  BY DEF Begin
<1> DEFINE x == [pc |-> "begun", actor |-> u, ws |-> None, target |-> None, inv |-> i]
<1>2. /\ TypeOK /\ request' = [request EXCEPT ![r] = x] /\ request[r].pc = "idle"
      /\ UNCHANGED <<roles, invitation, suspended, uses, meanwhile, raced>>
  BY <1>1 DEF IInv, Begin
<1>3. x \in RequestState /\ x.pc = "begun" /\ x.actor = u /\ x.inv = i
  BY DEF RequestState
<1> HIDE DEF x
<1>4. /\ request' \in [Requests -> RequestState] /\ request'[r] = x
      /\ \A q \in Requests \ {r} : request'[q] = request[q]
  BY <1>2, <1>3, Put
<1>5. Ordered'
  BY <1>1, <1>2, <1>3, <1>4, OrderBegun
<1>6. RequestsKnow'
  BY <1>1, <1>2, <1>3, <1>4, IdleType DEF TypeOK, RequestsKnow
<1>7. Invited' /\ Administered'
  BY <1>2, <1>3, <1>4, InvitedFrame, AdministeredFrame DEF IInv
<1> QED
  BY <1>2, <1>4, <1>5, <1>6, <1>7 DEF IInv, TypeOK, Ordered

\* An invitation that nobody holds is taken.
LEMMA ClaimKeeps ==
  ASSUME IInv, NEW r \in Requests, Claim(r) PROVE IInv'
<1> DEFINE i == request[r].inv
           x == [request[r] EXCEPT !.pc = "claimed", !.ws = invitation[i].ws]
<1>1. /\ i \in Invitations /\ request[r] \in RequestState /\ request[r].actor \in Users
      /\ invitation[i].state \in {"open", "expired"} /\ ~RowLocked(i)
      /\ invitation[i].ws \in Workspaces
  <2>1. request[r].inv \in Invitations /\ request[r] \in RequestState
    BY DEF IInv, TypeOK, RequestsKnow, Claim
  <2>2. request[r].actor \in Users
    BY IdleType DEF IInv, TypeOK, RequestsKnow, Claim, RequestState
  <2>3. invitation[request[r].inv].ws \in Workspaces
    BY <2>1 DEF IInv, TypeOK, Invitation, NoInvitation, Claim, Claimable
  <2> QED
    BY <2>1, <2>2, <2>3 DEF Claim, Claimable
<1>2. /\ TypeOK /\ request' = [request EXCEPT ![r] = x] /\ request[r].pc = "begun"
      /\ UNCHANGED <<roles, before, invitation, suspended, uses, meanwhile, raced>>
  BY <1>1 DEF Claim, IInv, TypeOK
<1>4. /\ x \in RequestState /\ x.pc = "claimed" /\ x.actor = request[r].actor /\ x.inv = i
      /\ x.ws = invitation[i].ws
  BY <1>1 DEF RequestState
<1> HIDE DEF x
<1>5. /\ request' \in [Requests -> RequestState] /\ request'[r] = x
      /\ \A q \in Requests \ {r} : request'[q] = request[q]
  BY <1>2, <1>4, Put
<1>6. Ordered'
  BY <1>2, <1>4, <1>5, SameAccepting, OrderFrame
<1>7. RequestsKnow'
  BY <1>1, <1>2, <1>4, <1>5, IdleType DEF TypeOK, RequestsKnow
<1>8. Invited'
  BY <1>1, <1>2, <1>4, <1>5 DEF IInv, Invited, ClaimsExclusive, SingleUse, RoleAsInvited,
      IsMember, RowLocked
<1>9. Administered'
  BY <1>2, <1>4, <1>5, AdministeredFrame DEF IInv
<1> QED
  BY <1>2, <1>5, <1>6, <1>7, <1>8, <1>9 DEF IInv, TypeOK, Ordered

\* Who joins has one more membership, in the place its acceptance took at BEGIN.
LEMMA JoinOrdered ==
  ASSUME IInv, NEW r \in Requests, NEW u \in Users, NEW w \in Workspaces,
         request[r].pc = "claimed", request[r].actor = u, ~IsMember(u, w),
         RoleGiven(r) \in Role, Finished(r), Insert(r, u, w)
  PROVE  /\ Ordered'
         /\ \A x, y \in Dated(u)' \ {w} : <<x, y>> \in before'[u] <=> <<x, y>> \in before[u]
         /\ \A y \in Dated(u)' \ {w} : /\ <<w, y>> \in before'[u] <=> <<r, y>> \in before[u]
                                       /\ <<y, w>> \in before'[u] <=> <<y, r>> \in before[u]
<1>1. TypeOK /\ NewerJoined /\ JoinOrder(u)
  BY DEF IInv, TypeOK
<1>2. request'[r] = IdleRequest /\ \A q \in Requests \ {r} : request'[q] = request[q]
  BY <1>1 DEF Finished, TypeOK
<1>3. /\ roles' \in [Users -> [Workspaces -> Role \cup {"none"}]]
      /\ roles'[u][w] = RoleGiven(r) /\ RoleGiven(r) # "none"
      /\ \A v \in Users, z \in Workspaces : v # u \/ z # w => roles'[v][z] = roles[v][z]
  BY <1>1 DEF Insert, TypeOK, Role
<1> DEFINE f == PlaceOf(r, w)
           renamed == {<<f[p[1]], f[p[2]]>> : p \in before[u]}
<1>4. /\ f[r] = w /\ \A x \in (Workspaces \cup Requests) \ {r} : f[x] = x
      /\ \A x \in Workspaces \cup Requests : f[x] \in Workspaces \cup Requests
  BY DEF PlaceOf
<1>5. before[u] \subseteq (Workspaces \cup Requests) \X (Workspaces \cup Requests)
  BY <1>1 DEF TypeOK
<1> HIDE DEF f
<1>6. /\ before' \in [Users -> SUBSET ((Workspaces \cup Requests) \X (Workspaces \cup Requests))]
      /\ before'[u] = renamed /\ \A v \in Users \ {u} : before'[v] = before[v]
  <2>1. renamed \in SUBSET ((Workspaces \cup Requests) \X (Workspaces \cup Requests))
    BY <1>4, <1>5
  <2>2. before' = [before EXCEPT ![u] = renamed]
    BY DEF Insert, f
  <2> HIDE DEF renamed
  <2> QED
    BY <1>1, <2>1, <2>2 DEF TypeOK
<1>7. /\ Memberships(u)' = Memberships(u) \cup {w} /\ w \notin Memberships(u)
      /\ \A v \in Users \ {u} : Memberships(v)' = Memberships(v)
  BY <1>3 DEF Memberships, IsMember
<1>8. /\ Accepting(u)' = Accepting(u) \ {r} /\ r \in Accepting(u)
      /\ \A v \in Users \ {u} : Accepting(v)' = Accepting(v) /\ r \notin Accepting(v)
  BY <1>2, IdleType DEF Accepting
<1>9. /\ Dated(u)' = (Dated(u) \ {r}) \cup {w} /\ r \in Dated(u) /\ w \notin Dated(u) /\ r # w
      /\ Dated(u) \subseteq Workspaces \cup Requests
      /\ \A v \in Users \ {u} : Dated(v)' = Dated(v) /\ r \notin Dated(v)
  BY <1>7, <1>8, RequestsAssumption DEF Dated, Memberships, Accepting
<1>10. \A p \in before[u] : p[1] \in Dated(u) /\ p[2] \in Dated(u) /\ p[1] # p[2]
                           /\ p = <<p[1], p[2]>>
  BY <1>1 DEF JoinOrder
<1>11. ASSUME NEW x \in Dated(u)' \ {w}, NEW y \in Dated(u)' \ {w}
       PROVE  <<x, y>> \in before'[u] <=> <<x, y>> \in before[u]
  <2>1. x \in Dated(u) /\ y \in Dated(u) /\ x # r /\ y # r /\ f[x] = x /\ f[y] = y
    BY <1>4, <1>9
  <2>2. ASSUME <<x, y>> \in before'[u] PROVE <<x, y>> \in before[u]
    <3>1. PICK p \in before[u] : <<x, y>> = <<f[p[1]], f[p[2]]>>
      BY <1>6, <2>2
    <3>2. p[1] = x /\ p[2] = y
      BY <1>4, <1>9, <1>10, <3>1
    <3> QED
      BY <1>10, <3>2
  <2>3. ASSUME <<x, y>> \in before[u] PROVE <<x, y>> \in before'[u]
    BY <1>6, <2>1, <2>3
  <2> QED
    BY <2>2, <2>3
<1>12. ASSUME NEW y \in Dated(u)' \ {w}
       PROVE  <<w, y>> \in before'[u] <=> <<r, y>> \in before[u]
  <2>1. y \in Dated(u) /\ y # r /\ f[y] = y
    BY <1>4, <1>9
  <2>2. ASSUME <<w, y>> \in before'[u] PROVE <<r, y>> \in before[u]
    <3>1. PICK p \in before[u] : <<w, y>> = <<f[p[1]], f[p[2]]>>
      BY <1>6, <2>2
    <3>2. p[1] = r /\ p[2] = y
      BY <1>4, <1>9, <1>10, <3>1
    <3> QED
      BY <1>10, <3>2
  <2>3. ASSUME <<r, y>> \in before[u] PROVE <<w, y>> \in before'[u]
    BY <1>4, <1>6, <2>1, <2>3
  <2> QED
    BY <2>2, <2>3
<1>13. ASSUME NEW y \in Dated(u)' \ {w}
       PROVE  <<y, w>> \in before'[u] <=> <<y, r>> \in before[u]
  <2>1. y \in Dated(u) /\ y # r /\ f[y] = y
    BY <1>4, <1>9
  <2>2. ASSUME <<y, w>> \in before'[u] PROVE <<y, r>> \in before[u]
    <3>1. PICK p \in before[u] : <<y, w>> = <<f[p[1]], f[p[2]]>>
      BY <1>6, <2>2
    <3>2. p[1] = y /\ p[2] = r
      BY <1>4, <1>9, <1>10, <3>1
    <3> QED
      BY <1>10, <3>2
  <2>3. ASSUME <<y, r>> \in before[u] PROVE <<y, w>> \in before'[u]
    BY <1>4, <1>6, <2>1, <2>3
  <2> QED
    BY <2>2, <2>3
<1>14. JoinOrder(u)'
  <2>1. before'[u] \subseteq {p \in Dated(u)' \X Dated(u)' : p[1] # p[2]}
    <3>1. ASSUME NEW p \in before[u]
          PROVE  f[p[1]] \in Dated(u)' /\ f[p[2]] \in Dated(u)' /\ f[p[1]] # f[p[2]]
      BY <1>4, <1>9, <1>10
    <3> QED
      BY <1>6, <3>1
  <2>2. ASSUME NEW x \in Dated(u)', NEW y \in Dated(u)', x # y
        PROVE  <<x, y>> \in before'[u] <=> <<y, x>> \notin before'[u]
    <3>1. \A a, b \in Dated(u) : a # b => (<<a, b>> \in before[u] <=> <<b, a>> \notin before[u])
      BY <1>1 DEF JoinOrder
    <3>2. \A a \in Dated(u)' \ {w} : a \in Dated(u) /\ a # r
      BY <1>9
    <3>3. CASE x # w /\ y # w
      BY <1>11, <2>2, <3>1, <3>2, <3>3
    <3>4. CASE x = w
      BY <1>9, <1>12, <1>13, <2>2, <3>1, <3>2, <3>4
    <3>5. CASE y = w
      BY <1>9, <1>12, <1>13, <2>2, <3>1, <3>2, <3>5
    <3> QED
      BY <3>3, <3>4, <3>5
  <2> QED
    BY <2>1, <2>2 DEF JoinOrder
<1>15. ASSUME NEW v \in Users \ {u} PROVE JoinOrder(v)'
  BY <1>1, <1>6, <1>9 DEF TypeOK, JoinOrder
<1>16. /\ meanwhile' \in [Requests -> SUBSET Workspaces]
       /\ \A q \in Requests \ {r} : meanwhile[q] \subseteq meanwhile'[q]
       /\ \A q \in Accepting(u) \ {r} : w \in meanwhile'[q]
  BY <1>1 DEF Insert, TypeOK, Accepting
<1>17. NewerJoined'
  <2> SUFFICES ASSUME NEW v \in Users, NEW q \in Requests, NEW z \in Workspaces,
                      <<q, z>> \in before'[v]
               PROVE  z \in meanwhile'[q]
    BY DEF NewerJoined
  <2>1. q \in Dated(v)' /\ z \in Dated(v)'
    BY <1>14, <1>15 DEF JoinOrder
  <2>2. q \in Accepting(v)' /\ q # r /\ q # w
    BY <1>2, <2>1, IdleType, RequestsAssumption DEF Dated, Memberships, Accepting
  <2>3. CASE v # u
    BY <1>1, <1>6, <1>16, <2>2, <2>3 DEF NewerJoined
  <2>4. CASE v = u /\ z # w
    BY <1>1, <1>11, <1>16, <2>1, <2>2, <2>4 DEF NewerJoined
  <2>5. CASE v = u /\ z = w
    BY <1>8, <1>16, <2>2, <2>5
  <2> QED
    BY <2>3, <2>4, <2>5
<1> QED
  BY <1>3, <1>6, <1>11, <1>12, <1>13, <1>14, <1>15, <1>16, <1>17 DEF Ordered

\* The invitation is spent by the one request that holds it.
LEMMA JoinKeeps ==
  ASSUME IInv, NEW r \in Requests, Join(r) PROVE IInv'
<1> DEFINE u == request[r].actor
           w == request[r].ws
           i == request[r].inv
<1>1. /\ TypeOK /\ request[r].pc = "claimed" /\ Finished(r)
      /\ UNCHANGED <<suspended, raced>>
  BY DEF Join, IInv
<1>2. /\ u \in Users /\ w \in Workspaces /\ i \in Invitations /\ invitation[i].ws = w
      /\ invitation[i].state \in {"open", "expired"} /\ uses[i] = 0
      /\ invitation[i].role \in Role
  <2>1. u \in Users /\ w \in Workspaces /\ i \in Invitations /\ invitation[i].ws = w
    BY <1>1 DEF TypeOK, RequestsKnow, RequestState
  <2>2. invitation[i].state \in {"open", "expired"}
    BY <1>1 DEF IInv, Invited, ClaimsExclusive
  <2>3. uses[i] = 0
    BY <2>1, <2>2 DEF IInv, Invited, SingleUse
  <2>4. invitation[i].role \in Role
    BY <1>1, <2>1, <2>2 DEF TypeOK, Invitation, NoInvitation
  <2> QED
    BY <2>1, <2>2, <2>3, <2>4
<1>3. /\ invitation' = [invitation EXCEPT ![i].state = "spent", ![i].by = u]
      /\ uses' = [uses EXCEPT ![i] = @ + 1]
      /\ \/ /\ IsMember(u, w) /\ before' = NoPlace(r)
            /\ meanwhile' = [meanwhile EXCEPT ![r] = {}] /\ roles' = roles
         \/ ~IsMember(u, w) /\ Insert(r, u, w)
      /\ RoleGiven(r) = invitation[i].role
      /\ request[r].actor = u
  BY DEF Join, RoleGiven
<1> HIDE DEF u, w, i
<1>4. Ordered'
  BY <1>1, <1>2, <1>3, JoinOrdered, OrderDropped
<1>11. roles' = roles \/ (~IsMember(u, w) /\ roles' = [roles EXCEPT ![u][w] = invitation[i].role])
  BY <1>3 DEF Insert
<1>5. /\ invitation' \in [Invitations -> Invitation]
      /\ invitation'[i] = [invitation[i] EXCEPT !.state = "spent", !.by = u]
      /\ \A j \in Invitations \ {i} : invitation'[j] = invitation[j]
      /\ invitation'[i].state = "spent" /\ invitation'[i].by = u
      /\ invitation'[i].ws = w /\ invitation'[i].role = invitation[i].role
  <2>1. invitation[i] \in Invitation /\ invitation[i] # NoInvitation
    BY <1>1, <1>2 DEF TypeOK, NoInvitation
  <2>2. [invitation[i] EXCEPT !.state = "spent", !.by = u] \in Invitation
    BY <1>2, <2>1 DEF Invitation
  <2>3. invitation' = [invitation EXCEPT ![i] = [invitation[i] EXCEPT !.state = "spent", !.by = u]]
    BY <1>3
  <2>4. /\ invitation' \in [Invitations -> Invitation]
        /\ invitation'[i] = [invitation[i] EXCEPT !.state = "spent", !.by = u]
        /\ \A j \in Invitations \ {i} : invitation'[j] = invitation[j]
    BY <1>1, <1>2, <2>2, <2>3 DEF TypeOK
  <2> QED
    BY <1>2, <2>1, <2>4 DEF Invitation
<1>6. /\ uses' \in [Invitations -> Nat] /\ uses'[i] = 1
      /\ \A j \in Invitations \ {i} : uses'[j] = uses[j]
  BY <1>1, <1>2, <1>3 DEF TypeOK
<1>7. /\ request' \in [Requests -> RequestState] /\ RequestsKnow'
      /\ request'[r] = IdleRequest /\ \A q \in Requests \ {r} : request'[q] = request[q]
  <2>1. LinksStay
    BY <1>2, <1>5 DEF LinksStay
  <2> QED
    BY <1>1, <2>1, FinishedKnows
<1>8. TypeOK'
  BY <1>1, <1>4, <1>5, <1>6, <1>7 DEF TypeOK, Ordered
<1>9. Invited'
  <2>1. ClaimsExclusive'
    <3>1. \A q \in Requests : request'[q].pc = "claimed" => q # r /\ request'[q] = request[q]
      BY <1>7, IdleType
    <3>2. \A q \in Requests \ {r} : request[q].pc = "claimed" =>
            request[q].inv \in Invitations \ {i}
      BY <1>1 DEF i, IInv, Invited, ClaimsExclusive, TypeOK, RequestsKnow
    <3> QED
      BY <1>5, <3>1, <3>2 DEF IInv, Invited, ClaimsExclusive
  <2>2. SingleUse'
    BY <1>5, <1>6 DEF IInv, Invited, SingleUse
  <2>3. ASSUME NEW v \in Users, NEW z \in Workspaces, IsMember(v, z)', roles'[v][z] # roles[v][z]
        PROVE  v = u /\ z = w /\ roles'[v][z] = invitation[i].role
    BY <1>1, <1>2, <1>11, <2>3 DEF IsMember, TypeOK
  <2>4. ASSUME NEW v \in Users, NEW z \in Workspaces, IsMember(v, z)', roles'[v][z] = roles[v][z]
        PROVE  \/ Founder[z] = v /\ roles'[v][z] = "owner"
               \/ \E j \in Invitations :
                    /\ invitation'[j].state = "spent" /\ invitation'[j].by = v
                    /\ invitation'[j].ws = z /\ invitation'[j].role = roles'[v][z]
    BY <1>2, <1>5, <2>4 DEF IInv, Invited, RoleAsInvited, IsMember
  <2>5. ASSUME NEW v \in Users, NEW z \in Workspaces, IsMember(v, z)'
        PROVE  \/ Founder[z] = v /\ roles'[v][z] = "owner"
               \/ \E j \in Invitations :
                    /\ invitation'[j].state = "spent" /\ invitation'[j].by = v
                    /\ invitation'[j].ws = z /\ invitation'[j].role = roles'[v][z]
    <3>1. CASE roles'[v][z] # roles[v][z]
      BY <1>2, <1>5, <2>3, <2>5, <3>1
    <3>2. CASE roles'[v][z] = roles[v][z]
      BY <2>4, <2>5, <3>2
    <3> QED
      BY <3>1, <3>2
  <2>6. RoleAsInvited'
    BY <2>5 DEF RoleAsInvited
  <2> QED
    BY <2>1, <2>2, <2>6 DEF Invited
<1>10. Administered'
  <2>1. \A v \in Users : \A z \in Workspaces :
          roles[v][z] # "none" => roles'[v][z] = roles[v][z]
    BY <1>1, <1>2, <1>11 DEF IsMember, TypeOK
  <2>2. RemovalsAlone'
    BY <1>1, <1>7, IdleType DEF IInv, Administered, RemovalsAlone
  <2>3. DeleteSafe'
    <3> SUFFICES ASSUME NEW q \in Requests, request'[q].pc = "delete",
                        request'[q].ws \notin raced'
                 PROVE  \/ roles'[request'[q].target][request'[q].ws] = "member"
                        \/ \E v \in Users : v # request'[q].target
                                          /\ roles'[v][request'[q].ws] = "owner"
      BY DEF DeleteSafe
    <3>1. request'[q] = request[q] /\ request[q].ws \notin raced
      BY <1>1, <1>7, IdleType
    <3>2. request[q].target \in Users /\ request[q].ws \in Workspaces
      BY <1>1, <3>1 DEF TypeOK, RequestsKnow
    <3> QED
      BY <2>1, <3>1, <3>2 DEF IInv, Administered, DeleteSafe
  <2>4. AdministeredUnlessRaced'
    BY <1>1, <2>1 DEF IInv, Administered, AdministeredUnlessRaced, Owners
  <2> QED
    BY <2>2, <2>3, <2>4 DEF Administered
<1> QED
  BY <1>4, <1>8, <1>9, <1>10 DEF IInv, Ordered

----------------------------------------------------------------------------
(* Removal.                                                                *)

\* A removal begins: either it is the first in its workspace or that is a race.
LEMMA ReadRoleKeeps ==
  ASSUME IInv, NEW r \in Requests, ReadRole(r) PROVE IInv'
<1> DEFINE w == request[r].ws
           role == roles[request[r].target][w]
           x == [request[r] EXCEPT !.pc = IF role = "owner" THEN "count" ELSE "delete"]
<1>1. /\ TypeOK /\ request[r].pc = "read" /\ role # "none"
      /\ request' = [request EXCEPT ![r] = x]
      /\ raced' = IF RemovingFrom(w) = {} THEN raced ELSE raced \cup {w}
      /\ UNCHANGED <<roles, before, invitation, suspended, uses, meanwhile>>
  BY DEF ReadRole, IInv, TypeOK
<1>2. request[r] \in RequestState /\ w \in Workspaces /\ request[r].target \in Users
  BY <1>1 DEF TypeOK, RequestsKnow
<1>3. role \in {"owner", "member"}
  BY <1>1, <1>2 DEF TypeOK, Role
<1>4. /\ x \in RequestState /\ x.pc \in {"count", "delete"} /\ x.ws = w
      /\ x.target = request[r].target /\ x.actor = request[r].actor
      /\ x.pc = "delete" => role = "member"
  BY <1>2, <1>3 DEF RequestState
<1> HIDE DEF x
<1>5. /\ request' \in [Requests -> RequestState] /\ request'[r] = x
      /\ \A q \in Requests \ {r} : request'[q] = request[q]
  BY <1>1, <1>4, Put
<1>9. Ordered'
  BY <1>1, <1>4, <1>5, SameAccepting, OrderFrame
<1>6. TypeOK'
  <2>1. RequestsKnow'
    BY <1>1, <1>2, <1>4, <1>5 DEF TypeOK, RequestsKnow
  <2> QED
    BY <1>1, <1>2, <1>5, <1>9, <2>1 DEF TypeOK, Ordered
<1>7. Invited'
  BY <1>1, <1>4, <1>5, InvitedFrame DEF IInv
<1>8. Administered'
  <2>1. raced \subseteq raced' /\ (w \notin raced' => RemovingFrom(w) = {})
    BY <1>1
  <2>2. RemovalsAlone'
    BY <1>1, <1>4, <1>5, <2>1 DEF IInv, Administered, RemovalsAlone, RemovingFrom
  <2>3. DeleteSafe'
    BY <1>1, <1>4, <1>5, <2>1 DEF IInv, Administered, DeleteSafe
  <2>4. AdministeredUnlessRaced'
    BY <1>1, <2>1 DEF IInv, Administered, AdministeredUnlessRaced, Owners
  <2> QED
    BY <2>2, <2>3, <2>4 DEF Administered
<1> QED
  BY <1>6, <1>7, <1>8, <1>9 DEF IInv, Ordered

\* Of more than one owner, one is somebody else.
LEMMA AnotherOwner ==
  ASSUME NEW w \in Workspaces, ~(CountOwners(w) <= 1), NEW target
  PROVE  \E u \in Users : u # target /\ roles[u][w] = "owner"
<1>1. IsFiniteSet(Owners(w))
  BY UsersAssumption, FS_Subset DEF Owners
<1>2. Cardinality(Owners(w)) \in Nat
  BY <1>1, FS_CardinalityType
<1>3. ASSUME Owners(w) \subseteq {target} PROVE FALSE
  <2>1. Cardinality({target}) = 1 /\ IsFiniteSet({target})
    BY FS_Singleton
  <2>2. Cardinality(Owners(w)) <= 1
    BY <1>3, <2>1, FS_Subset
  <2> QED
    BY <1>2, <2>2 DEF CountOwners
<1> QED
  BY <1>3 DEF Owners

\* The last owner stays; otherwise there is another.
LEMMA CheckOwnersKeeps ==
  ASSUME IInv, NEW r \in Requests, CheckOwners(r) PROVE IInv'
<1>1. /\ TypeOK /\ request[r].pc = "count"
      /\ UNCHANGED <<roles, before, invitation, suspended, uses, meanwhile, raced>>
  BY DEF CheckOwners, IInv
<1>2. CASE CountOwners(request[r].ws) <= 1
  <2>1. Finished(r)
    BY <1>2 DEF CheckOwners, Finished
  <2> QED
    BY <1>1, <2>1, EndedKeeps
<1>3. CASE ~(CountOwners(request[r].ws) <= 1)
  <2> DEFINE x == [request[r] EXCEPT !.pc = "delete"]
  <2>1. request' = [request EXCEPT ![r] = x]
    BY <1>1, <1>3 DEF CheckOwners, TypeOK
  <2>2. request[r] \in RequestState /\ request[r].ws \in Workspaces
        /\ request[r].target \in Users
    BY <1>1 DEF TypeOK, RequestsKnow
  <2>3. /\ x \in RequestState /\ x.pc = "delete" /\ x.ws = request[r].ws
        /\ x.target = request[r].target /\ x.actor = request[r].actor
    BY <2>2 DEF RequestState
  <2> HIDE DEF x
  <2>4. /\ request' \in [Requests -> RequestState] /\ request'[r] = x
        /\ \A q \in Requests \ {r} : request'[q] = request[q]
    BY <1>1, <2>1, <2>3, Put
  <2>8. Ordered'
    BY <1>1, <2>3, <2>4, SameAccepting, OrderFrame
  <2>5. TypeOK'
    <3>1. RequestsKnow'
      BY <1>1, <2>2, <2>3, <2>4 DEF TypeOK, RequestsKnow
    <3> QED
      BY <1>1, <2>4, <2>8, <3>1 DEF TypeOK, Ordered
  <2>6. Invited'
    BY <1>1, <2>3, <2>4, InvitedFrame DEF IInv
  <2>7. Administered'
    <3>1. \E u \in Users : u # request[r].target /\ roles[u][request[r].ws] = "owner"
      BY <1>3, <2>2, AnotherOwner
    <3>2. RemovalsAlone'
      BY <1>1, <2>3, <2>4 DEF IInv, Administered, RemovalsAlone
    <3>3. DeleteSafe'
      BY <1>1, <2>3, <2>4, <3>1 DEF IInv, Administered, DeleteSafe
    <3>4. AdministeredUnlessRaced'
      BY <1>1 DEF IInv, Administered, AdministeredUnlessRaced, Owners
    <3> QED
      BY <3>2, <3>3, <3>4 DEF Administered
  <2> QED
    BY <2>5, <2>6, <2>7, <2>8 DEF IInv, Ordered
<1> QED
  BY <1>2, <1>3

\* Without a race an owner is left.
LEMMA DeleteMembershipKeeps ==
  ASSUME IInv, NEW r \in Requests, DeleteMembership(r) PROVE IInv'
<1>1. PICK w, target :
      /\ w = request[r].ws /\ target = request[r].target
      /\ TypeOK /\ request[r].pc = "delete" /\ Finished(r)
      /\ roles' = [roles EXCEPT ![target][w] = "none"]
      /\ before' = [before EXCEPT ![target] = {p \in @ : p[1] # w /\ p[2] # w}]
      /\ UNCHANGED <<invitation, suspended, uses, meanwhile, raced>>
  BY DEF DeleteMembership, IInv
<1>2. w \in Workspaces /\ target \in Users
  BY <1>1 DEF TypeOK, RequestsKnow
<1>3. /\ request' \in [Requests -> RequestState] /\ RequestsKnow'
      /\ request'[r] = IdleRequest /\ \A q \in Requests \ {r} : request'[q] = request[q]
  <2>1. LinksStay
    BY <1>1 DEF LinksStay
  <2> QED
    BY <1>1, <2>1, FinishedKnows
<1>4. /\ roles' \in [Users -> [Workspaces -> Role \cup {"none"}]]
      /\ \A v \in Users : \A z \in Workspaces :
           roles'[v][z] = IF v = target /\ z = w THEN "none" ELSE roles[v][z]
  BY <1>1, <1>2 DEF TypeOK
<1>5. /\ before' \in [Users -> SUBSET ((Workspaces \cup Requests) \X (Workspaces \cup Requests))]
      /\ before'[target] = {p \in before[target] : p[1] # w /\ p[2] # w}
      /\ \A v \in Users \ {target} : before'[v] = before[v]
  <2> DEFINE left == {p \in before[target] : p[1] # w /\ p[2] # w}
  <2>1. left \in SUBSET ((Workspaces \cup Requests) \X (Workspaces \cup Requests))
    BY <1>1, <1>2 DEF TypeOK
  <2>2. before' = [before EXCEPT ![target] = left]
    BY <1>1
  <2> HIDE DEF left
  <2>3. /\ before' \in [Users -> SUBSET ((Workspaces \cup Requests) \X (Workspaces \cup Requests))]
        /\ before'[target] = left /\ \A v \in Users \ {target} : before'[v] = before[v]
    BY <1>1, <1>2, <2>1, <2>2 DEF TypeOK
  <2> QED
    BY <2>3 DEF left
<1>9. Ordered'
  <2>1. \A v \in Users : Accepting(v)' = Accepting(v) /\ w \notin Accepting(v)
    BY <1>1, <1>2, <1>3, IdleType, SameAccepting, RequestsAssumption DEF Accepting
  <2>2. JoinOrder(target)'
    <3>1. Memberships(target)' = Memberships(target) \ {w}
      BY <1>2, <1>4 DEF Memberships, IsMember
    <3>2. Dated(target)' = Dated(target) \ {w}
      BY <1>2, <2>1, <3>1 DEF Dated
    <3>3. JoinOrder(target)
      BY <1>1, <1>2 DEF TypeOK
    <3> QED
      BY <1>5, <3>2, <3>3 DEF JoinOrder
  <2>3. ASSUME NEW v \in Users \ {target} PROVE JoinOrder(v)'
    <3>1. Memberships(v)' = Memberships(v) /\ JoinOrder(v)
      BY <1>1, <1>4 DEF Memberships, IsMember, TypeOK
    <3>2. Dated(v)' = Dated(v)
      BY <2>1, <3>1 DEF Dated
    <3> QED
      BY <1>5, <3>1, <3>2 DEF JoinOrder
  <2>4. NewerJoined'
    BY <1>1, <1>5 DEF IInv, NewerJoined
  <2> QED
    BY <1>1, <1>4, <1>5, <2>2, <2>3, <2>4 DEF TypeOK, Ordered
<1>6. TypeOK'
  BY <1>1, <1>3, <1>9 DEF TypeOK, Ordered
<1>7. Invited'
  <2>1. ClaimsExclusive' /\ SingleUse'
    BY <1>1, <1>3, IdleType DEF IInv, Invited, ClaimsExclusive, SingleUse
  <2>2. RoleAsInvited'
    BY <1>1, <1>4 DEF IInv, Invited, RoleAsInvited, IsMember
  <2> QED
    BY <2>1, <2>2 DEF Invited
<1>8. Administered'
  <2>1. RemovalsAlone'
    BY <1>1, <1>3, IdleType DEF IInv, Administered, RemovalsAlone
  <2>2. \A q \in Requests \ {r} :
          request[q].pc = "delete" /\ request[q].ws \notin raced => request[q].ws # w
    BY <1>1 DEF IInv, Administered, RemovalsAlone
  <2>3. DeleteSafe'
    <3> SUFFICES ASSUME NEW q \in Requests, request'[q].pc = "delete",
                        request'[q].ws \notin raced'
                 PROVE  \/ roles'[request'[q].target][request'[q].ws] = "member"
                        \/ \E v \in Users : v # request'[q].target
                                          /\ roles'[v][request'[q].ws] = "owner"
      BY DEF DeleteSafe
    <3>1. request'[q] = request[q] /\ request[q].ws \notin raced /\ request[q].ws # w
      BY <1>1, <1>3, <2>2, IdleType
    <3>2. request[q].target \in Users /\ request[q].ws \in Workspaces
      BY <1>1, <3>1 DEF TypeOK, RequestsKnow
    <3> QED
      BY <1>4, <3>1, <3>2 DEF IInv, Administered, DeleteSafe
  <2>4. w \notin raced => Owners(w)' # {}
    <3> SUFFICES ASSUME w \notin raced PROVE Owners(w)' # {}
      OBVIOUS
    <3>1. CASE roles[target][w] = "member"
      <4>1. PICK v \in Users : roles[v][w] = "owner"
        BY <1>2 DEF IInv, Administered, AdministeredUnlessRaced, Owners
      <4> QED
        BY <1>2, <1>4, <3>1, <4>1 DEF Owners
    <3>2. CASE \E v \in Users : v # target /\ roles[v][w] = "owner"
      BY <1>2, <1>4, <3>2 DEF Owners
    <3> QED
      BY <1>1, <3>1, <3>2 DEF IInv, Administered, DeleteSafe
  <2>5. \A z \in Workspaces \ {w} : Owners(z)' = Owners(z)
    BY <1>4 DEF Owners
  <2>6. AdministeredUnlessRaced'
    BY <1>1, <2>4, <2>5 DEF IInv, Administered, AdministeredUnlessRaced
  <2> QED
    BY <2>1, <2>3, <2>6 DEF Administered
<1> QED
  BY <1>6, <1>7, <1>8, <1>9 DEF IInv, Ordered

----------------------------------------------------------------------------
(* The specification.                                                      *)

\* It holds at the start.
LEMMA IInvInit == Init => IInv
<1> SUFFICES ASSUME Init PROVE IInv
  OBVIOUS
<1>1. \A r \in Requests : request[r] = IdleRequest
  BY DEF Init
<1>2. \A i \in Invitations : invitation[i].state = "none" /\ uses[i] = 0
  BY DEF Init, NoInvitation
<1>3. TypeOK
  <2>1. /\ roles \in [Users -> [Workspaces -> Role \cup {"none"}]]
        /\ invitation \in [Invitations -> Invitation] /\ suspended \subseteq Workspaces
        /\ request \in [Requests -> RequestState] /\ RequestsKnow
        /\ uses \in [Invitations -> Nat] /\ raced \subseteq Workspaces
    BY <1>1, IdleType DEF Init, Role, Invitation, RequestsKnow
  <2>2. /\ before \in [Users -> SUBSET (Workspaces \X Workspaces)]
        /\ meanwhile \in [Requests -> SUBSET Workspaces] /\ \A u \in Users : JoinOrder(u)
    BY DEF Init
  <2>3. SUBSET (Workspaces \X Workspaces)
          \subseteq SUBSET ((Workspaces \cup Requests) \X (Workspaces \cup Requests))
    OBVIOUS
  <2>4. before \in [Users -> SUBSET ((Workspaces \cup Requests) \X (Workspaces \cup Requests))]
    BY <2>2, <2>3
  <2> QED
    BY <2>1, <2>2, <2>4 DEF TypeOK
<1>6. NewerJoined
  BY RequestsAssumption DEF Init, NewerJoined
<1>4. Invited
  BY <1>1, <1>2, IdleType DEF Init, Invited, ClaimsExclusive, SingleUse, RoleAsInvited,
      IsMember
<1>5. Administered
  BY <1>1, IdleType, FounderAssumption DEF Init, Administered, RemovalsAlone, DeleteSafe,
      AdministeredUnlessRaced, Owners
<1> QED
  BY <1>3, <1>4, <1>5, <1>6 DEF IInv

\* Every step keeps it.
LEMMA IInvStep == IInv /\ [Next]_vars => IInv'
<1> SUFFICES ASSUME IInv, [Next]_vars PROVE IInv'
  OBVIOUS
<1>1. ASSUME NEW r \in Requests, RequestStep(r) PROVE IInv'
  <2>1. CASE ReadNothing(r)
    BY <2>1, EndedKeeps DEF ReadNothing
  <2>2. CASE Crash(r) \/ ClaimNothing(r)
    BY <2>2, DroppedKeeps DEF Crash, ClaimNothing
  <2> QED
    BY <1>1, <2>1, <2>2, AdmitOwnerKeeps, AdmitLeaveKeeps, CreateInvitationKeeps,
        RevokeInvitationKeeps, BeginKeeps, ClaimKeeps, JoinKeeps, ReadRoleKeeps,
        CheckOwnersKeeps, DeleteMembershipKeeps DEF RequestStep
<1>2. ASSUME NEW w \in Workspaces, Suspend(w) PROVE IInv'
  <2>1. Ordered'
    BY <1>2, OrderFrame DEF Suspend, Accepting
  <2>2. Invited' /\ Administered'
    BY <1>2, InvitedFrame, AdministeredFrame DEF IInv, Suspend
  <2> QED
    BY <1>2, <2>1, <2>2 DEF IInv, Suspend, TypeOK, RequestsKnow, Ordered
<1>3. CASE UNCHANGED vars
  <2>1. Ordered'
    BY <1>3, OrderFrame DEF vars, Accepting
  <2>2. Invited' /\ Administered'
    BY <1>3, InvitedFrame, AdministeredFrame DEF IInv, vars
  <2> QED
    BY <1>3, <2>1, <2>2 DEF IInv, vars, TypeOK, RequestsKnow, Ordered
<1> QED
  BY <1>1, <1>2, <1>3, ExpireKeeps DEF Next

\* The strengthened invariant: who holds an invitation, and what a removal counts on.
THEOREM Invariant == Spec => []IInv
<1> QED
  BY IInvInit, IInvStep, PTL DEF Spec

\* Type correctness: a request knows its caller, workspace, target and invitation, and
\* the memberships of a person have one order.
THEOREM TypeCorrect == Spec => []TypeOK
<1>1. IInv => TypeOK
  BY DEF IInv
<1> QED
  BY <1>1, Invariant, PTL

\* An invitation is spent exactly when one acceptance of it was committed.
THEOREM InvitationsSpentOnce == Spec => []SingleUse
<1>1. IInv => SingleUse
  BY DEF IInv, Invited
<1> QED
  BY <1>1, Invariant, PTL

\* Nobody holds a role they did not found or were not invited to.
THEOREM RolesAreEarned == Spec => []RoleAsInvited
<1>1. IInv => RoleAsInvited
  BY DEF IInv, Invited
<1> QED
  BY <1>1, Invariant, PTL

\* A workspace loses its last owner only to removals that overlap.
THEOREM OwnersRemain == Spec => []AdministeredUnlessRaced
<1>1. IInv => AdministeredUnlessRaced
  BY DEF IInv, Administered
<1> QED
  BY <1>1, Invariant, PTL

----------------------------------------------------------------------------
(* Where an acceptance leads.                                              *)

\* An invitation is spent by the commit of an acceptance that holds it.
LEMMA SpentByJoin ==
  ASSUME IInv, [Next]_vars, NEW i \in Invitations,
         invitation[i].state # "spent", invitation'[i].state = "spent"
  PROVE  \E r \in Requests : Join(r) /\ request[r].inv = i
<1>1. TypeOK
  BY DEF IInv
<1>2. ASSUME NEW r \in Requests, Join(r) PROVE request[r].inv = i
  BY <1>1, <1>2 DEF Join, TypeOK
<1>3. ASSUME NEW r \in Requests, RequestStep(r), ~Join(r) PROVE FALSE
  <2>1. CASE CreateInvitation(r)
    <3>1. PICK j \in Invitations, role \in Role :
            invitation' = [invitation EXCEPT ![j] =
              [state |-> "open", ws |-> request[r].ws, role |-> role, by |-> None]]
      BY <2>1 DEF CreateInvitation
    <3> QED
      BY <1>1, <3>1 DEF TypeOK
  <2>2. CASE RevokeInvitation(r)
    BY <1>1, <2>2 DEF RevokeInvitation, TypeOK, Invitation, NoInvitation
  <2>3. CASE UNCHANGED invitation
    BY <2>3
  <2> QED
    BY <1>3, <2>1, <2>2, <2>3 DEF RequestStep, AdmitOwner, AdmitLeave, Begin, Claim,
       ClaimNothing, ReadNothing, ReadRole, CheckOwners, DeleteMembership, Crash
<1>4. ASSUME NEW j \in Invitations, Expire(j) PROVE FALSE
  BY <1>1, <1>4 DEF Expire, TypeOK, Invitation, NoInvitation
<1>5. ASSUME UNCHANGED invitation PROVE FALSE
  BY <1>5
<1> QED
  BY <1>2, <1>3, <1>4, <1>5 DEF Next, Suspend, vars

\* Who joins a workspace is in it, unless they joined another since this acceptance began:
\* what was dated before the BEGIN is older, and the new membership does not sort last.
LEMMA JoinLands ==
  ASSUME IInv, NEW r \in Requests, Join(r), NEW u \in Users, NEW w \in Workspaces,
         u = request[r].actor, w = request[r].ws, ~IsMember(u, w), w \notin suspended,
         ~(RoleGiven(r) = "owner" /\ w \in Sandboxes)
  PROVE  /\ meanwhile[r] = {} => IsCurrent(u, w)'
         /\ \A v \in Workspaces : IsCurrent(u, v)' => v = w \/ v \in meanwhile[r]
<1>1. TypeOK /\ NewerJoined /\ JoinOrder(u) /\ RoleGiven(r) \in Role
  BY DEF IInv, Invited, ClaimsExclusive, TypeOK, RequestsKnow, Join, RoleGiven, Invitation,
      NoInvitation
<1>2. Insert(r, u, w) /\ suspended' = suspended /\ Finished(r) /\ request[r].pc = "claimed"
  BY DEF Join
<1>3. /\ roles'[u][w] = RoleGiven(r) /\ RoleGiven(r) # "none"
      /\ \A v \in Workspaces \ {w} : roles'[u][v] = roles[u][v]
  BY <1>1, <1>2 DEF Insert, TypeOK, Role
<1>4. w \in Active(u)' /\ SortsLast(u, w)' = FALSE
  BY <1>2, <1>3 DEF Active, Memberships, IsMember, SortsLast
<1>5. \A v \in Active(u)' \ {w} : /\ v \in Memberships(u) /\ v \in Dated(u)' /\ v \in Workspaces
                                /\ SortsLast(u, v)' \in BOOLEAN
  BY <1>3 DEF Active, Dated, Memberships, IsMember, SortsLast
<1>6. \A v \in Active(u)' \ {w} :
        /\ <<w, v>> \in before'[u] <=> <<r, v>> \in before[u]
        /\ <<v, w>> \in before'[u] <=> <<v, r>> \in before[u]
  BY <1>1, <1>2, <1>5, JoinOrdered
<1>7. \A v \in Active(u)' \ {w} :
        v \notin meanwhile[r] => <<r, v>> \notin before[u] /\ <<v, r>> \in before[u]
  <2>1. r \in Dated(u) /\ Memberships(u) \subseteq Dated(u) /\ r \notin Workspaces
    BY <1>2, RequestsAssumption DEF Dated, Accepting
  <2>2. \A v \in Workspaces : v \notin meanwhile[r] => <<r, v>> \notin before[u]
    BY <1>1 DEF NewerJoined
  <2> QED
    BY <1>1, <1>5, <2>1, <2>2 DEF JoinOrder
<1>8. ASSUME meanwhile[r] = {} PROVE IsCurrent(u, w)'
  BY <1>4, <1>5, <1>6, <1>7, <1>8 DEF IsCurrent
<1>9. ASSUME NEW v \in Workspaces, IsCurrent(u, v)', v # w PROVE v \in meanwhile[r]
  <2>1. v \in Active(u)' \ {w} /\ w \in Active(u)' \ {v}
    BY <1>4, <1>9 DEF IsCurrent
  <2>2. <<w, v>> \in before'[u]
    BY <1>4, <1>9, <2>1 DEF IsCurrent
  <2> QED
    BY <1>6, <1>7, <2>1, <2>2
<1> QED
  BY <1>8, <1>9

\* Accepting an invitation lands the person in that team, or, if they joined others since
\* this acceptance began, in one of those: never where they were before, whatever else they
\* belong to or left, for any number of people, workspaces and requests.
THEOREM AcceptanceLands == Spec => LandsInTeam
<1>1. ASSUME IInv, [Next]_vars, NEW r \in Requests, NEW u \in Users, NEW w \in Workspaces,
             MakesMember(r, u, w)
      PROVE  /\ meanwhile[r] = {} => IsCurrent(u, w)'
             /\ \A v \in Workspaces : IsCurrent(u, v)' => v = w \/ v \in meanwhile[r]
  <2>1. /\ request[r].pc = "claimed" /\ request[r].inv \in Invitations
        /\ request'[r] # request[r] /\ TypeOK
    BY <1>1 DEF MakesMember, Commits, IInv, TypeOK, RequestsKnow
  <2>2. PICK q \in Requests : Join(q) /\ request[q].inv = request[r].inv
    BY <1>1, <2>1, SpentByJoin DEF MakesMember, Commits
  <2>3. q = r
    BY <1>1, <2>1, <2>2 DEF Join, IInv, Invited, ClaimsExclusive
  <2> QED
    BY <1>1, <2>2, <2>3, JoinLands DEF MakesMember
<1>2. IInv /\ [Next]_vars =>
        [\A r \in Requests, u \in Users, w \in Workspaces : MakesMember(r, u, w) =>
           /\ meanwhile[r] = {} => IsCurrent(u, w)'
           /\ \A v \in Workspaces : IsCurrent(u, v)' => v = w \/ v \in meanwhile[r]]_vars
  BY <1>1
<1> QED
  BY <1>2, Invariant, PTL DEF Spec, LandsInTeam
=============================================================================
