--------------------------- MODULE ModerationProofs ---------------------------
(***************************************************************************)
(* Theorems about Moderation for any sets of comments, requests and        *)
(* sweeps, with no bound on rows or faults but the constants' own.         *)
(*                                                                         *)
(* The invariants are not inductive alone: each one leans on what an open  *)
(* transaction has written, on the lists a task carries across its awaits  *)
(* and on who has looked for a countdown before it could be seen.  IInv    *)
(* adds that.  The rows that one step can write, publish or kill are the   *)
(* subject of the second section; everything after it rests on that.       *)
(* The last sections are about the queries of WorkList over the same       *)
(* tables, and about the life of each comment (CommentLife).               *)
(***************************************************************************)
EXTENDS WorkList, WellFoundedInduction, TLAPS

----------------------------------------------------------------------------
(* Types: the tables, and what every task carries across its awaits.       *)

\* The idle local states are well typed.
LEMMA IdleTypes == IdleSync \in SyncState /\ IdleMod \in ModState /\ IdleSweep \in SweepState
<1>1. (CHOOSE p \in Policies : TRUE) \in Policies
  BY PoliciesAssumption
<1>2. IdleSync \in SyncState
  BY <1>1 DEF IdleSync, SyncState
<1> QED
  BY <1>2 DEF IdleMod, ModState, Kind, IdleSweep, SweepState

\* A step of one sync, moderator or sweep to a well-typed local state leaves the local
\* states of all tasks well typed.
LEMMA SyncLocal ==
  ASSUME TypeOK, NEW s \in Syncs, NEW local \in SyncState,
         sync' = [sync EXCEPT ![s] = local], UNCHANGED <<mod, sweep>>,
         local.pc = "mark" => local.cur \in Comments
  PROVE  /\ sync' \in [Syncs -> SyncState] /\ mod' \in [Moderators -> ModState]
         /\ sweep' \in [Sweepers -> SweepState] /\ CursorsSet'
BY DEF TypeOK, CursorsSet

\* The same of a moderator's request,
LEMMA ModLocal ==
  ASSUME TypeOK, NEW m \in Moderators, NEW local \in ModState,
         mod' = [mod EXCEPT ![m] = local], UNCHANGED <<sync, sweep>>,
         local.pc # "idle" => local.cur \in Comments,
         local.mirror => local.kind \in Mirrored
  PROVE  /\ sync' \in [Syncs -> SyncState] /\ mod' \in [Moderators -> ModState]
         /\ sweep' \in [Sweepers -> SweepState] /\ CursorsSet'
BY DEF TypeOK, CursorsSet

\* and of a sweep.
LEMMA SweepLocal ==
  ASSUME TypeOK, NEW w \in Sweepers, NEW local \in SweepState,
         sweep' = [sweep EXCEPT ![w] = local], UNCHANGED <<sync, mod>>,
         local.pc \notin {"idle", "loop"} => local.cur \in Comments
  PROVE  /\ sync' \in [Syncs -> SyncState] /\ mod' \in [Moderators -> ModState]
         /\ sweep' \in [Sweepers -> SweepState] /\ CursorsSet'
BY DEF TypeOK, CursorsSet

\* A Graph call, whatever comes of it, leaves Facebook and the call history typed.
LEMMA GraphTypes ==
  ASSUME TypeOK, NEW c \in Comments, NEW kind \in Mirrored, NEW who \in Caller,
         GraphAccepts(c, kind, who) \/ GraphFails(c, kind, who)
  PROVE  /\ fb' \in [Comments -> {"visible", "hidden", "deleted"}]
         /\ effects' \subseteq Comments \X Caller \X Mirrored
<1>1. After(kind) \in {"visible", "hidden", "deleted"}
  BY DEF After
<1>2. <<c, who, kind>> \in Comments \X Caller \X Mirrored
  OBVIOUS
<1> QED
  BY <1>1, <1>2 DEF TypeOK, GraphAccepts, GraphFails, GraphDoes, GraphRefuses

\* The rows the tasks write are rows.
LEMMA RowTypes ==
  /\ \A t \in TxStatus : /\ AutoRow("DELETE", "auto-removal", t) \in Row
                         /\ AutoRow("HIDE", "auto-removal", t) \in Row
                         /\ AutoRow("HIDE", "auto-hide", t) \in Row
  /\ [AutoRow("DELETE", "auto-removal", "committed") EXCEPT !.applied = TRUE] \in Row
  /\ DeadRow \in Row /\ DeadFinding \in Finding
  /\ \A r \in Row : [r EXCEPT !.applied = TRUE] \in Row /\ [r EXCEPT !.tx = "committed"] \in Row
  /\ \A r \in Finding : [r EXCEPT !.tx = "committed"] \in Finding
BY DEF AutoRow, Row, Kind, Actor, TxStatus, DeadRow, DeadFinding, Finding, Severity

\* So is the row of a request.
LEMMA HumanRowTypes ==
  ASSUME TypeOK, NEW m \in Moderators
  PROVE  HumanRow(m) \in Row
BY DEF TypeOK, HumanRow, Row, Actor, ModState, TxStatus, Tasks

\* A table keeps its type when one of its sequences is rewritten entry by entry.
LEMMA RewrittenTypes ==
  ASSUME NEW S, NEW table \in [Comments -> Seq(S)], NEW new,
         new = [c \in Comments |-> [i \in DOMAIN table[c] |-> new[c][i]]],
         \A c \in Comments : \A i \in DOMAIN table[c] : new[c][i] \in S
  PROVE  new \in [Comments -> Seq(S)]
<1> SUFFICES ASSUME NEW c \in Comments PROVE new[c] \in Seq(S)
  OBVIOUS
<1>1. table[c] \in Seq(S) /\ Len(table[c]) \in Nat /\ DOMAIN table[c] = 1 .. Len(table[c])
  OBVIOUS
<1>2. new[c] = [i \in 1 .. Len(table[c]) |-> new[c][i]]
  BY <1>1
<1>3. new[c] \in [1 .. Len(table[c]) -> S]
  BY <1>1, <1>2
<1> QED
  BY <1>1, <1>3

\* Committing, rolling back and marking keep the tables typed.
LEMMA TxTypes ==
  ASSUME TypeOK, NEW t
  PROVE  /\ Published(actions, t) \in [Comments -> Seq(Row)]
         /\ Published(verdicts, t) \in [Comments -> Seq(Finding)]
         /\ Undone(actions, t, DeadRow) \in [Comments -> Seq(Row)]
         /\ Undone(verdicts, t, DeadFinding) \in [Comments -> Seq(Finding)]
<1>1. actions \in [Comments -> Seq(Row)] /\ verdicts \in [Comments -> Seq(Finding)]
  BY DEF TypeOK
<1>2. \A c \in Comments : /\ \A i \in DOMAIN actions[c] : actions[c][i] \in Row
                          /\ \A i \in DOMAIN verdicts[c] : verdicts[c][i] \in Finding
  BY <1>1
<1>3. Published(actions, t) \in [Comments -> Seq(Row)]
  <2> DEFINE new == Published(actions, t)
  <2>1. \A c \in Comments : \A i \in DOMAIN actions[c] : new[c][i] \in Row
    BY <1>2, RowTypes DEF Published
  <2>2. new = [c \in Comments |-> [i \in DOMAIN actions[c] |-> new[c][i]]]
    BY DEF Published
  <2> QED
    BY <1>1, <2>1, <2>2, RewrittenTypes
<1>4. Published(verdicts, t) \in [Comments -> Seq(Finding)]
  <2> DEFINE new == Published(verdicts, t)
  <2>1. \A c \in Comments : \A i \in DOMAIN verdicts[c] : new[c][i] \in Finding
    BY <1>2, RowTypes DEF Published
  <2>2. new = [c \in Comments |-> [i \in DOMAIN verdicts[c] |-> new[c][i]]]
    BY DEF Published
  <2> QED
    BY <1>1, <2>1, <2>2, RewrittenTypes
<1>5. Undone(actions, t, DeadRow) \in [Comments -> Seq(Row)]
  <2> DEFINE new == Undone(actions, t, DeadRow)
  <2>1. \A c \in Comments : \A i \in DOMAIN actions[c] : new[c][i] \in Row
    BY <1>2, RowTypes DEF Undone
  <2>2. new = [c \in Comments |-> [i \in DOMAIN actions[c] |-> new[c][i]]]
    BY DEF Undone
  <2> QED
    BY <1>1, <2>1, <2>2, RewrittenTypes
<1>6. Undone(verdicts, t, DeadFinding) \in [Comments -> Seq(Finding)]
  <2> DEFINE new == Undone(verdicts, t, DeadFinding)
  <2>1. \A c \in Comments : \A i \in DOMAIN verdicts[c] : new[c][i] \in Finding
    BY <1>2, RowTypes DEF Undone
  <2>2. new = [c \in Comments |-> [i \in DOMAIN verdicts[c] |-> new[c][i]]]
    BY DEF Undone
  <2> QED
    BY <1>1, <2>1, <2>2, RewrittenTypes
<1> QED
  BY <1>3, <1>4, <1>5, <1>6

\* Marking a row as applied keeps the types.
LEMMA MarkTypes ==
  ASSUME TypeOK, NEW c \in Comments, NEW kind
  PROVE  MarkApplied(c, kind) \in [Comments -> Seq(Row)]
<1>1. actions \in [Comments -> Seq(Row)]
  BY DEF TypeOK
<1> DEFINE new == MarkApplied(c, kind)
<1>2. \A d \in Comments : \A i \in DOMAIN actions[d] : actions[d][i] \in Row
  BY <1>1
<1>3. \A d \in Comments : \A i \in DOMAIN actions[d] : new[d][i] \in Row
  BY <1>1, <1>2, RowTypes DEF MarkApplied
<1>4. \A d \in Comments : actions[d] = [i \in DOMAIN actions[d] |-> actions[d][i]]
  BY <1>1
<1>5. new = [d \in Comments |-> [i \in DOMAIN actions[d] |-> new[d][i]]]
  BY <1>1, <1>4 DEF MarkApplied
<1> QED
  BY <1>1, <1>3, <1>5, RewrittenTypes

\* A batch of verdicts, of decisions and of places for both is well typed.
LEMMA BeginTypes ==
  ASSUME TypeOK, NEW s \in Syncs, NEW sev \in [sync[s].batch -> Severity],
         NEW first \in sync[s].batch, BeginStep(s, sev, first), UNCHANGED <<mod, sweep>>
  PROVE  /\ verdicts' \in [Comments -> Seq(Finding)] /\ actions' \in [Comments -> Seq(Row)]
         /\ sync' \in [Syncs -> SyncState] /\ CursorsSet'
<1>1. sync[s] \in SyncState /\ sync[s].batch \subseteq Comments /\ s \in TxStatus
  BY DEF TypeOK, SyncState, TxStatus, Tasks
<1>2. verdicts' \in [Comments -> Seq(Finding)]
  <2>1. \A c \in sync[s].batch : [severity |-> sev[c], tx |-> s] \in Finding
    BY <1>1 DEF Finding
  <2> QED
    BY <1>1, <2>1 DEF BeginStep, TypeOK
<1>3. actions' \in [Comments -> Seq(Row)]
  BY <1>1, RowTypes DEF BeginStep, TypeOK, WithAutoRows
<1>4. PICK local : /\ sync' = [sync EXCEPT ![s] = local] /\ local.pc = "insert"
                   /\ local \in SyncState
  <2> DEFINE waiting == QuarantinedBy(sync[s].batch, sev, sync[s].policy)
             deleted == RemovedBy(sync[s].batch, sev) \ waiting
             hidden  == HiddenBy(sync[s].batch, sev, sync[s].policy)
             local == [sync[s] EXCEPT !.pc = "insert", !.policy = IdleSync.policy,
                         !.todo = sync[s].batch, !.cur = first, !.toDelete = deleted,
                         !.toQuarantine = waiting, !.toHide = hidden]
  <2>1. waiting \subseteq Comments /\ deleted \subseteq Comments /\ hidden \subseteq Comments
    BY <1>1 DEF QuarantinedBy, RemovedBy, HiddenBy
  <2>2. first \in Comments /\ IdleSync.policy \in Policies
    BY <1>1, IdleTypes DEF SyncState
  <2> HIDE DEF waiting, deleted, hidden
  <2>3. local \in SyncState /\ local.pc = "insert"
    BY <1>1, <2>1, <2>2 DEF SyncState
  <2>4. sync' = [sync EXCEPT ![s] = local]
    BY DEF BeginStep, waiting, deleted, hidden
  <2> QED
    BY <2>3, <2>4
<1> QED
  BY <1>2, <1>3, <1>4, SyncLocal

\* Rolling back a sync's transaction.
LEMMA RollbackTypes ==
  ASSUME TypeOK, NEW s \in Syncs, SyncRollback(s)
  PROVE  /\ verdicts' \in [Comments -> Seq(Finding)] /\ actions' \in [Comments -> Seq(Row)]
         /\ sync' \in [Syncs -> SyncState] /\ CursorsSet'
<1>1. sync' = [sync EXCEPT ![s] = IdleSync] /\ UNCHANGED <<mod, sweep>>
  BY DEF SyncRollback
<1>2. IdleSync.pc # "mark"
  BY DEF IdleSync
<1> QED
  BY <1>1, <1>2, IdleTypes, SyncLocal, TxTypes DEF SyncRollback

\* Every action of a sync keeps every variable in its type.
LEMMA SyncTypeStep ==
  ASSUME TypeOK, NEW s \in Syncs, SyncStep(s)
  PROVE  TypeOK'
<1>0. sync[s] \in SyncState /\ sync[s].batch \subseteq Comments /\ IdleSync \in SyncState /\ IdleSync.pc = "idle"
  BY IdleTypes DEF TypeOK, SyncState, IdleSync
<1>1. CASE SyncStart(s)
  <2>1. PICK p \in Policies :
          sync' = [sync EXCEPT ![s] = [IdleSync EXCEPT !.pc = "fetch", !.policy = p]]
    BY <1>1 DEF SyncStart
  <2>2. [IdleSync EXCEPT !.pc = "fetch", !.policy = p] \in SyncState
    BY <1>0 DEF SyncState
  <2>3. [IdleSync EXCEPT !.pc = "fetch", !.policy = p].pc # "mark"
    BY <1>0 DEF SyncState
  <2> QED
    BY <1>1, <2>1, <2>2, <2>3, SyncLocal DEF SyncStart, TypeOK, tables, page
<1>2. CASE SyncFetch(s)
  <2>1. PICK seen \in SUBSET Comments :
          sync' = [sync EXCEPT ![s] = [sync[s] EXCEPT !.pc = "read", !.batch = seen]]
    BY <1>2 DEF SyncFetch
  <2>2. /\ [sync[s] EXCEPT !.pc = "read", !.batch = seen] \in SyncState
        /\ [sync[s] EXCEPT !.pc = "read", !.batch = seen].pc # "mark"
    BY <1>0 DEF SyncState
  <2> QED
    BY <1>2, <2>1, <2>2, SyncLocal DEF SyncFetch, TypeOK, tables, page
<1>3. CASE SyncFetchFails(s)
  BY <1>0, <1>3, SyncLocal DEF SyncFetchFails, TypeOK, tables, page
<1>4. CASE SyncReadExisting(s)
  <2> DEFINE fresh == sync[s].batch \ stored
             read == [sync[s] EXCEPT !.pc = "ingest", !.batch = fresh]
  <2>1. read \in SyncState /\ read.pc # "mark"
    BY <1>0 DEF SyncState
  <2>2. PICK local \in {read, IdleSync} : sync' = [sync EXCEPT ![s] = local]
    BY <1>4 DEF SyncReadExisting
  <2> QED
    BY <1>0, <1>4, <2>1, <2>2, SyncLocal DEF SyncReadExisting, TypeOK, tables, page
<1>5. CASE SyncBegin(s)
  <2>1. PICK sev \in [sync[s].batch -> Severity], first \in sync[s].batch :
          BeginStep(s, sev, first)
    BY <1>5 DEF SyncBegin
  <2> QED
    BY <1>5, <2>1, BeginTypes DEF SyncBegin, TypeOK, tables, page
<1>6. CASE SyncInsert(s)
  <2> DEFINE rest == sync[s].todo \ {sync[s].cur}
  <2>1. PICK next \in NextOf(rest) :
          sync' = [sync EXCEPT ![s] = [sync[s] EXCEPT !.todo = rest, !.cur = next]]
    BY <1>6 DEF SyncInsert
  <2>2. next \in Comments \cup {None} /\ rest \subseteq Comments
    BY <1>0 DEF NextOf, SyncState
  <2>3. /\ [sync[s] EXCEPT !.todo = rest, !.cur = next] \in SyncState
        /\ [sync[s] EXCEPT !.todo = rest, !.cur = next].pc = sync[s].pc
    BY <1>0, <2>2 DEF SyncState
  <2> QED
    BY <1>6, <2>1, <2>3, SyncLocal DEF SyncInsert, TypeOK, tables, page
<1>7. CASE SyncInsertFails(s)
  BY <1>7, RollbackTypes DEF SyncInsertFails, SyncRollback, TypeOK, page
<1>8. CASE SyncDeadlockFails(s)
  BY <1>8, RollbackTypes DEF SyncDeadlockFails, SyncRollback, TypeOK, page
<1>9. CASE SyncCommit(s)
  <2>1. /\ [sync[s] EXCEPT !.pc = "mirror", !.batch = {}, !.cur = None] \in SyncState
        /\ [sync[s] EXCEPT !.pc = "mirror", !.batch = {}, !.cur = None].pc # "mark"
    BY <1>0 DEF SyncState
  <2>2. stored' \subseteq Comments /\ scheduled' \in [Comments -> {"none", "waiting", "due"}]
    BY <1>0, <1>9 DEF SyncCommit, TypeOK
  <2>3. \A c \in Comments : Looking(c) \cup DecidedBy(c, "human") \in SUBSET Nat
    <3> SUFFICES ASSUME NEW c \in Comments PROVE Looking(c) \cup DecidedBy(c, "human") \subseteq Nat
      OBVIOUS
    <3>1. DOMAIN actions[c] = 1 .. Len(actions[c]) /\ Len(actions[c]) \in Nat
      BY DEF TypeOK
    <3> QED
      BY <3>1 DEF Looking, DecidedBy, Committed, VisibleRows
  <2>4. missed' \in [Comments -> SUBSET Nat]
    BY <1>9, <2>3 DEF SyncCommit, TypeOK
  <2> QED
    BY <1>9, <2>1, <2>2, <2>4, SyncLocal, TxTypes DEF SyncCommit, TypeOK, page
<1>10. CASE SyncMirrorOk(s)
  <2> PICK c \in Comments, kind \in {"DELETE", "HIDE"} :
         /\ MirrorNext(s, c, kind)
         /\ GraphAccepts(c, kind, "sync")
         /\ sync' = [sync EXCEPT ![s] = [Struck(sync[s], c) EXCEPT !.pc = "mark", !.cur = c, !.kind = kind]]
    BY <1>10 DEF SyncMirrorOk
  <2>1. kind \in Mirrored /\ "sync" \in Caller
    BY DEF Mirrored, Kind, Caller
  <2>2. /\ fb' \in [Comments -> {"visible", "hidden", "deleted"}]
        /\ effects' \subseteq Comments \X Caller \X Mirrored
    BY <2>1, GraphTypes
  <2>3. /\ [Struck(sync[s], c) EXCEPT !.pc = "mark", !.cur = c, !.kind = kind] \in SyncState
        /\ [Struck(sync[s], c) EXCEPT !.pc = "mark", !.cur = c, !.kind = kind].cur = c
    BY <1>0 DEF SyncState, Struck
  <2> QED
    BY <1>10, <2>2, <2>3, SyncLocal DEF SyncMirrorOk, TypeOK, tables, page
<1>11. CASE SyncMirrorFails(s)
  <2> PICK c \in Comments, kind \in {"DELETE", "HIDE"} :
         /\ MirrorNext(s, c, kind)
         /\ GraphFails(c, kind, "sync")
         /\ sync' = [sync EXCEPT ![s] = Struck(sync[s], c)]
    BY <1>11 DEF SyncMirrorFails
  <2>1. kind \in Mirrored /\ "sync" \in Caller
    BY DEF Mirrored, Kind, Caller
  <2>2. /\ fb' \in [Comments -> {"visible", "hidden", "deleted"}]
        /\ effects' \subseteq Comments \X Caller \X Mirrored
    BY <2>1, GraphTypes
  <2>3. Struck(sync[s], c) \in SyncState /\ Struck(sync[s], c).pc = "mirror"
    BY <1>0 DEF SyncState, Struck, MirrorNext
  <2> QED
    BY <1>11, <2>2, <2>3, SyncLocal DEF SyncMirrorFails, TypeOK, tables, page
<1>12. CASE SyncMark(s)
  <2>1. sync[s].cur \in Comments
    BY <1>12 DEF SyncMark, TypeOK, CursorsSet
  <2>2. /\ [sync[s] EXCEPT !.pc = "mirror", !.cur = None, !.kind = "HIDE"] \in SyncState
        /\ [sync[s] EXCEPT !.pc = "mirror", !.cur = None, !.kind = "HIDE"].pc # "mark"
    BY <1>0 DEF SyncState
  <2> QED
    BY <1>12, <2>1, <2>2, MarkTypes, SyncLocal DEF SyncMark, TypeOK, page
<1>13. CASE SyncReturn(s)
  BY <1>0, <1>13, SyncLocal DEF SyncReturn, TypeOK, tables, page
<1>14. CASE SyncCrash(s)
  <2>1. SyncRollback(s) /\ faults' \in Nat
    BY <1>14 DEF SyncCrash, Happens, TypeOK
  <2> QED
    BY <2>1, RollbackTypes DEF SyncRollback, TypeOK, page
<1> QED
  BY <1>1, <1>2, <1>3, <1>4, <1>5, <1>6, <1>7, <1>8, <1>9, <1>10, <1>11, <1>12, <1>13, <1>14
  DEF SyncStep

\* Every action of a moderator's request does.
LEMMA ModTypeStep ==
  ASSUME TypeOK, NEW m \in Moderators, ModStep(m)
  PROVE  TypeOK'
<1>0. /\ mod[m] \in ModState
      /\ mod[m].pc # "idle" => mod[m].cur \in Comments
      /\ mod[m].mirror => mod[m].kind \in Mirrored
      /\ IdleMod \in ModState /\ IdleMod.pc = "idle" /\ ~IdleMod.mirror
  BY IdleTypes DEF TypeOK, CursorsSet, IdleMod
<1>1. CASE ActionAdmit(m)
  <2>1. PICK c \in stored : \E kind \in Kind :
         mod' = [mod EXCEPT ![m] = [IdleMod EXCEPT !.pc = "admitted", !.cur = c,
                    !.kind = kind, !.mirror = connected /\ kind \in Mirrored]]
    BY <1>1, BoundsAssumption DEF ActionAdmit, TypeOK
  <2>2. PICK kind \in Kind :
         mod' = [mod EXCEPT ![m] = [IdleMod EXCEPT !.pc = "admitted", !.cur = c,
                    !.kind = kind, !.mirror = connected /\ kind \in Mirrored]]
    BY <2>1
  <2> DEFINE local == [IdleMod EXCEPT !.pc = "admitted", !.cur = c,
                    !.kind = kind, !.mirror = connected /\ kind \in Mirrored]
  <2>3. c \in Comments /\ (connected /\ kind \in Mirrored) \in BOOLEAN
    BY DEF TypeOK
  <2>4. local \in ModState /\ local.cur = c /\ local.kind = kind
        /\ (local.mirror => kind \in Mirrored)
    BY <1>0, <2>3 DEF ModState, IdleMod
  <2>5. mod' = [mod EXCEPT ![m] = local] /\ UNCHANGED <<sync, sweep>>
    BY <1>1, <2>2 DEF ActionAdmit
  <2> HIDE DEF local
  <2>6. /\ sync' \in [Syncs -> SyncState] /\ mod' \in [Moderators -> ModState]
        /\ sweep' \in [Sweepers -> SweepState] /\ CursorsSet'
    BY <2>3, <2>4, <2>5, ModLocal
  <2> QED
    BY <1>1, <2>6 DEF ActionAdmit, TypeOK, tables, page
<1>2. CASE ActionBegin(m)
  <2>1. /\ [mod[m] EXCEPT !.pc = "begun"] \in ModState
        /\ [mod[m] EXCEPT !.pc = "begun"].cur = mod[m].cur
        /\ [mod[m] EXCEPT !.pc = "begun"].kind = mod[m].kind
        /\ [mod[m] EXCEPT !.pc = "begun"].mirror = mod[m].mirror
    BY <1>0 DEF ModState
  <2>2. mod[m].cur \in Comments
    BY <1>0, <1>2 DEF ActionBegin
  <2>3. actions' \in [Comments -> Seq(Row)]
    BY <1>2, <2>2, HumanRowTypes DEF ActionBegin, TypeOK
  <2> QED
    BY <1>0, <1>2, <2>1, <2>2, <2>3, ModLocal DEF ActionBegin, TypeOK, page
<1>3. CASE ActionCancel(m)
  <2> DEFINE local == [mod[m] EXCEPT !.pc = "open", !.holds = scheduled[mod[m].cur] # "none"]
  <2>1. local \in ModState /\ local.cur = mod[m].cur /\ local.kind = mod[m].kind
        /\ local.mirror = mod[m].mirror
    BY <1>0 DEF ModState
  <2>2. mod[m].cur \in Comments
    BY <1>0, <1>3 DEF ActionCancel
  <2>3. mod' = [mod EXCEPT ![m] = local]
    BY <1>3 DEF ActionCancel
  <2> HIDE DEF local
  <2>4. /\ sync' \in [Syncs -> SyncState] /\ mod' \in [Moderators -> ModState]
        /\ sweep' \in [Sweepers -> SweepState] /\ CursorsSet'
    BY <1>0, <1>3, <2>1, <2>2, <2>3, ModLocal DEF ActionCancel
  <2> QED
    BY <1>3, <2>4 DEF ActionCancel, TypeOK, tables, page
<1>4. CASE ActionCallOk(m)
  <2>1. mod[m].cur \in Comments /\ mod[m].kind \in Mirrored /\ "human" \in Caller
    BY <1>0, <1>4 DEF ActionCallOk, Caller
  <2>2. /\ fb' \in [Comments -> {"visible", "hidden", "deleted"}]
        /\ effects' \subseteq Comments \X Caller \X Mirrored
    BY <1>4, <2>1, GraphTypes DEF ActionCallOk
  <2>3. /\ [mod[m] EXCEPT !.pc = "answered"] \in ModState
        /\ [mod[m] EXCEPT !.pc = "answered"].cur = mod[m].cur
        /\ [mod[m] EXCEPT !.pc = "answered"].kind = mod[m].kind
    BY <1>0 DEF ModState
  <2> QED
    BY <1>4, <2>1, <2>2, <2>3, ModLocal DEF ActionCallOk, TypeOK, tables, page
<1>5. CASE ActionCallFails(m)
  <2>1. mod[m].cur \in Comments /\ mod[m].kind \in Mirrored /\ "human" \in Caller
    BY <1>0, <1>5 DEF ActionCallFails, Caller
  <2>2. /\ fb' \in [Comments -> {"visible", "hidden", "deleted"}]
        /\ effects' \subseteq Comments \X Caller \X Mirrored
    BY <1>5, <2>1, GraphTypes DEF ActionCallFails
  <2> QED
    BY <1>0, <1>5, <2>2, ModLocal, TxTypes DEF ActionCallFails, TypeOK, page
<1>6. CASE ActionCommit(m)
  <2>1. scheduled' \in [Comments -> {"none", "waiting", "due"}]
    BY <1>6 DEF ActionCommit, TypeOK
  <2> QED
    BY <1>0, <1>6, <2>1, ModLocal, TxTypes DEF ActionCommit, TypeOK, page
<1>7. CASE ActionCrash(m)
  <2>1. /\ sync' \in [Syncs -> SyncState] /\ mod' \in [Moderators -> ModState]
        /\ sweep' \in [Sweepers -> SweepState] /\ CursorsSet'
    BY <1>0, <1>7, ModLocal DEF ActionCrash
  <2>2. faults' \in Nat
    BY <1>7 DEF ActionCrash, Happens, TypeOK
  <2> QED
    BY <1>7, <2>1, <2>2, TxTypes DEF ActionCrash, TypeOK, page
<1> QED
  BY <1>1, <1>2, <1>3, <1>4, <1>5, <1>6, <1>7 DEF ModStep

\* Every action of a sweep does.
LEMMA SweepTypeStep ==
  ASSUME TypeOK, NEW w \in Sweepers, SweepStep(w)
  PROVE  TypeOK'
<1>0. /\ sweep[w] \in SweepState
      /\ sweep[w].pc \notin {"idle", "loop"} => sweep[w].cur \in Comments
      /\ IdleSweep \in SweepState /\ IdleSweep.pc = "idle"
      /\ NextDue(w) \in SweepState /\ NextDue(w).pc = "loop"
      /\ "DELETE" \in Mirrored /\ "sweep" \in Caller
  BY IdleTypes DEF TypeOK, CursorsSet, IdleSweep, NextDue, SweepState, Mirrored, Kind, Caller
<1>1. CASE SweepStart(w)
  <2> DEFINE due == {c \in Comments : scheduled[c] = "due"}
             local == [sweep[w] EXCEPT !.pc = "loop", !.due = due]
  <2>1. local \in SweepState /\ local.pc = "loop"
    BY <1>0 DEF SweepState
  <2> QED
    BY <1>1, <2>1, SweepLocal DEF SweepStart, TypeOK, tables, page
<1>2. CASE SweepCredential(w)
  <2>1. PICK c \in sweep[w].due :
          sweep' = [sweep EXCEPT ![w] = [pc |-> IF connected THEN "call" ELSE "drop",
                                         due |-> sweep[w].due \ {c}, cur |-> c]]
    BY <1>2 DEF SweepCredential
  <2> DEFINE local == [pc |-> IF connected THEN "call" ELSE "drop",
                       due |-> sweep[w].due \ {c}, cur |-> c]
  <2>2. local \in SweepState /\ local.cur \in Comments
    BY <1>0 DEF SweepState
  <2> QED
    BY <1>2, <2>1, <2>2, SweepLocal DEF SweepCredential, TypeOK, tables, page
<1>3. CASE SweepCallOk(w)
  <2>1. /\ [sweep[w] EXCEPT !.pc = "record"] \in SweepState
        /\ [sweep[w] EXCEPT !.pc = "record"].cur = sweep[w].cur /\ sweep[w].cur \in Comments
    BY <1>0, <1>3 DEF SweepState, SweepCallOk
  <2>2. /\ fb' \in [Comments -> {"visible", "hidden", "deleted"}]
        /\ effects' \subseteq Comments \X Caller \X Mirrored
    BY <1>0, <1>3, <2>1, GraphTypes DEF SweepCallOk
  <2> QED
    BY <1>3, <2>1, <2>2, SweepLocal DEF SweepCallOk, TypeOK, tables, page
<1>4. CASE SweepCallFails(w)
  <2>1. sweep[w].cur \in Comments
    BY <1>0, <1>4 DEF SweepCallFails
  <2>2. /\ fb' \in [Comments -> {"visible", "hidden", "deleted"}]
        /\ effects' \subseteq Comments \X Caller \X Mirrored
    BY <1>0, <1>4, <2>1, GraphTypes DEF SweepCallFails
  <2> QED
    BY <1>0, <1>4, <2>2, SweepLocal DEF SweepCallFails, TypeOK, tables, page
<1>5. CASE SweepRecord(w)
  <2>1. /\ [sweep[w] EXCEPT !.pc = "pop"] \in SweepState
        /\ [sweep[w] EXCEPT !.pc = "pop"].cur = sweep[w].cur /\ sweep[w].cur \in Comments
    BY <1>0, <1>5 DEF SweepState, SweepRecord
  <2>2. actions' \in [Comments -> Seq(Row)]
    BY <1>5, <2>1, RowTypes DEF SweepRecord, TypeOK
  <2> QED
    BY <1>5, <2>1, <2>2, SweepLocal DEF SweepRecord, TypeOK, page
<1>6. CASE SweepPop(w)
  <2>1. scheduled' \in [Comments -> {"none", "waiting", "due"}]
    BY <1>6 DEF SweepPop, TypeOK
  <2> QED
    BY <1>0, <1>6, <2>1, SweepLocal DEF SweepPop, TypeOK, page
<1>7. CASE SweepReturn(w)
  BY <1>0, <1>7, SweepLocal DEF SweepReturn, TypeOK, tables, page
<1>8. CASE SweepCrash(w)
  <2>1. /\ sync' \in [Syncs -> SyncState] /\ mod' \in [Moderators -> ModState]
        /\ sweep' \in [Sweepers -> SweepState] /\ CursorsSet'
    BY <1>0, <1>8, SweepLocal DEF SweepCrash
  <2>2. faults' \in Nat
    BY <1>8 DEF SweepCrash, Happens, TypeOK
  <2> QED
    BY <1>8, <2>1, <2>2 DEF SweepCrash, TypeOK, tables, page
<1> QED
  BY <1>1, <1>2, <1>3, <1>4, <1>5, <1>6, <1>7, <1>8 DEF SweepStep

\* So does everything else.
LEMMA TypeStep == TypeOK /\ [Next]_vars => TypeOK'
<1> SUFFICES ASSUME TypeOK, [Next]_vars PROVE TypeOK'
  OBVIOUS
<1>1. ASSUME NEW c \in Comments, CountdownEnds(c) PROVE TypeOK'
  BY <1>1 DEF TypeOK, CursorsSet, CountdownEnds, tables, page
<1>2. ASSUME NEW c \in Comments, AuthorRemoves(c) PROVE TypeOK'
  BY <1>2 DEF TypeOK, CursorsSet, AuthorRemoves, tables, page, Happens
<1>3. CASE ConnectionChanges
  BY <1>3 DEF TypeOK, CursorsSet, ConnectionChanges, tables, page, Happens
<1>4. CASE LicenceChanges
  BY <1>4 DEF TypeOK, CursorsSet, LicenceChanges, tables, page, Happens
<1>5. CASE UNCHANGED vars
  BY <1>5 DEF TypeOK, CursorsSet, vars, tables, page
<1> QED
  BY <1>1, <1>2, <1>3, <1>4, <1>5, SyncTypeStep, ModTypeStep, SweepTypeStep
  DEF Next, Environment

\* Nothing is running and nothing is stored.
LEMMA TypeInit == Init => TypeOK
<1> SUFFICES ASSUME Init PROVE TypeOK
  OBVIOUS
<1>1. /\ sync \in [Syncs -> SyncState] /\ mod \in [Moderators -> ModState]
      /\ sweep \in [Sweepers -> SweepState]
  BY IdleTypes DEF Init
<1>2. CursorsSet
  BY DEF Init, CursorsSet, IdleSync, IdleMod, IdleSweep
<1>3. /\ <<>> \in Seq(Finding) /\ verdicts \in [Comments -> Seq(Finding)]
      /\ <<>> \in Seq(Row) /\ actions \in [Comments -> Seq(Row)]
  BY DEF Init
<1> QED
  BY <1>1, <1>2, <1>3 DEF Init, TypeOK

\* Every task's local state and every table stays in its type, through every
\* interleaving of syncs, moderators and sweeps.
THEOREM TypeCorrect == Spec => []TypeOK
<1>1. Init => TypeOK
  BY TypeInit
<1>2. TypeOK /\ [Next]_vars => TypeOK'
  BY TypeStep
<1> QED
  BY <1>1, <1>2, PTL DEF Spec

----------------------------------------------------------------------------
(* What a step does to the rows of a table.                                *)

\* The rows of c's history in a table that t's open transaction has written.
Own(table, c, t) == {i \in DOMAIN table[c] : table[c][i].tx = t}

\* A transaction begins, commits, or is rolled back.
Begins(t) == \/ t \in Syncs /\ SyncBegin(t)
             \/ t \in Moderators /\ ActionBegin(t)

Commits(t) == \/ t \in Syncs /\ SyncCommit(t)
              \/ t \in Moderators /\ ActionCommit(t)

\* A request that fails or dies leaves nothing behind in the tables.
ActionUndone(m) ==
  /\ mod[m].pc # "idle"
  /\ actions' = Undone(actions, m, DeadRow)
  /\ mod' = [mod EXCEPT ![m] = IdleMod]
  /\ UNCHANGED <<stored, verdicts, scheduled, sync, sweep, missed>>

Aborts(t) == \/ t \in Syncs /\ SyncRollback(t)
             \/ t \in Moderators /\ ActionUndone(t)

\* The row a sweep writes.
SweepRow == [AutoRow("DELETE", "auto-removal", "committed") EXCEPT !.applied = TRUE]

\* What can become of the history of one comment in one step.
RowsOf(c) ==
  \/ actions'[c] = actions[c]
  \/ \E s \in Syncs : \E kind \in Kind, actor \in Actor :
       SyncBegin(s) /\ actions'[c] = Append(actions[c], AutoRow(kind, actor, s))
  \/ \E m \in Moderators :
       ActionBegin(m) /\ mod[m].cur = c /\ actions'[c] = Append(actions[c], HumanRow(m))
  \/ \E w \in Sweepers :
       SweepRecord(w) /\ sweep[w].cur = c /\ actions'[c] = Append(actions[c], SweepRow)
  \/ \E t \in Tasks : Commits(t) /\ actions' = Published(actions, t)
  \/ \E t \in Tasks : Aborts(t) /\ actions' = Undone(actions, t, DeadRow)
  \/ \E s \in Syncs : SyncMark(s) /\ sync[s].cur = c /\ actions' = MarkApplied(c, sync[s].kind)

\* And of its verdicts.
FindingsOf(c) ==
  \/ verdicts'[c] = verdicts[c]
  \/ \E s \in Syncs : \E severity \in Severity :
       /\ SyncBegin(s)
       /\ verdicts'[c] = Append(verdicts[c], [severity |-> severity, tx |-> s])
  \/ \E s \in Syncs : SyncCommit(s) /\ verdicts' = Published(verdicts, s)
  \/ \E s \in Syncs : SyncRollback(s) /\ verdicts' = Undone(verdicts, s, DeadFinding)

\* A transaction that neither begins nor ends in a step is where it was, or its task
\* inserts, looks for a countdown or calls Facebook.
Goes(t) ==
  \/ /\ t \in Syncs
     /\ \/ sync'[t] = sync[t]
        \/ sync[t].pc # "insert" /\ sync'[t].pc # "insert"
        \/ SyncInsert(t)
  \/ /\ t \in Moderators
     /\ mod'[t] = mod[t] \/ ActionAdmit(t) \/ ActionCancel(t) \/ ActionCallOk(t)

\* A transaction begins with new rows of its comments.
LEMMA BeginRows ==
  ASSUME TypeOK, NEW s \in Syncs, SyncBegin(s), NEW c \in Comments
  PROVE  RowsOf(c) /\ FindingsOf(c)
<1>1. PICK sev \in [sync[s].batch -> Severity], first \in sync[s].batch : BeginStep(s, sev, first)
  BY DEF SyncBegin
<1>2. \A k \in {"HIDE", "DELETE"}, a \in {"auto-removal", "auto-hide"} : k \in Kind /\ a \in Actor
  BY DEF Kind, Actor
<1>3. RowsOf(c)
  BY <1>1, <1>2 DEF BeginStep, WithAutoRows, RowsOf
<1>4. CASE c \in sync[s].batch
  <2>1. verdicts'[c] = Append(verdicts[c], [severity |-> sev[c], tx |-> s]) /\ sev[c] \in Severity
    BY <1>1, <1>4 DEF BeginStep
  <2> QED
    BY <1>3, <2>1 DEF FindingsOf
<1>5. CASE c \notin sync[s].batch
  BY <1>1, <1>3, <1>5 DEF BeginStep, FindingsOf
<1> QED
  BY <1>4, <1>5

\* Every step of a sync.
LEMMA SyncRows ==
  ASSUME TypeOK, NEW s \in Syncs, SyncStep(s)
  PROVE  /\ \A c \in Comments : RowsOf(c) /\ FindingsOf(c)
         /\ \A t \in Tasks : Begins(t) \/ Commits(t) \/ Aborts(t) \/ Goes(t)
<1>0. s \in Tasks
  BY DEF Tasks
<1>1. CASE SyncStart(s) \/ SyncFetch(s) \/ SyncFetchFails(s) \/ SyncReadExisting(s)
  <2>1. UNCHANGED <<tables, mod>>
    BY <1>1 DEF SyncStart, SyncFetch, SyncFetchFails, SyncReadExisting
  <2>2. \A t \in Syncs : sync'[t] = sync[t] \/ (sync[t].pc # "insert" /\ sync'[t].pc # "insert")
    <3>1. /\ sync[s].pc \in {"idle", "fetch", "read"} /\ sync[s] \in SyncState
          /\ \A t \in Syncs \ {s} : sync'[t] = sync[t]
      BY <1>1 DEF SyncStart, SyncFetch, SyncFetchFails, SyncReadExisting, TypeOK
    <3>2. sync'[s].pc # "insert"
      <4>1. CASE SyncStart(s)
        <5>1. PICK p \in Policies :
                sync' = [sync EXCEPT ![s] = [IdleSync EXCEPT !.pc = "fetch", !.policy = p]]
          BY <4>1 DEF SyncStart
        <5> QED
          BY <5>1 DEF IdleSync, TypeOK
      <4>2. CASE SyncFetch(s)
        <5>1. PICK seen \in SUBSET Comments :
                sync' = [sync EXCEPT ![s] = [sync[s] EXCEPT !.pc = "read", !.batch = seen]]
          BY <4>2 DEF SyncFetch
        <5> QED
          BY <3>1, <5>1 DEF TypeOK, SyncState
      <4>3. CASE SyncFetchFails(s)
        BY <4>3 DEF SyncFetchFails, IdleSync, TypeOK
      <4>4. CASE SyncReadExisting(s)
        <5>1. sync'[s] = IdleSync \/ sync'[s].pc = "ingest"
          BY <3>1, <4>4 DEF SyncReadExisting, TypeOK, SyncState
        <5> QED
          BY <5>1 DEF IdleSync
      <4> QED
        BY <1>1, <4>1, <4>2, <4>3, <4>4
    <3> QED
      BY <3>1, <3>2
  <2> QED
    BY <2>1, <2>2 DEF tables, RowsOf, FindingsOf, Goes, Tasks
<1>2. CASE SyncBegin(s)
  <2>1. mod' = mod /\ \A t \in Syncs \ {s} : sync'[t] = sync[t]
    BY <1>2 DEF SyncBegin, BeginStep, TypeOK
  <2> QED
    BY <1>2, <2>1, BeginRows DEF Begins, Goes, Tasks
<1>3. CASE SyncInsert(s)
  <2>1. UNCHANGED <<tables, mod>> /\ \A t \in Syncs \ {s} : sync'[t] = sync[t]
    BY <1>3 DEF SyncInsert, TypeOK
  <2> QED
    BY <1>3, <2>1 DEF tables, RowsOf, FindingsOf, Goes, Tasks
<1>4. CASE SyncRollback(s)
  <2>1. Aborts(s) /\ actions' = Undone(actions, s, DeadRow) /\ verdicts' = Undone(verdicts, s, DeadFinding)
    BY <1>4 DEF Aborts, SyncRollback
  <2>2. mod' = mod /\ \A t \in Syncs \ {s} : sync'[t] = sync[t]
    BY <1>4 DEF SyncRollback, TypeOK
  <2> QED
    BY <1>0, <1>4, <2>1, <2>2 DEF RowsOf, FindingsOf, Goes, Tasks
<1>5. CASE SyncCommit(s)
  <2>1. Commits(s) /\ actions' = Published(actions, s) /\ verdicts' = Published(verdicts, s)
    BY <1>5 DEF Commits, SyncCommit
  <2>2. mod' = mod /\ \A t \in Syncs \ {s} : sync'[t] = sync[t]
    BY <1>5 DEF SyncCommit, TypeOK
  <2> QED
    BY <1>0, <1>5, <2>1, <2>2 DEF RowsOf, FindingsOf, Goes, Tasks
<1>6. CASE SyncMirrorOk(s) \/ SyncMirrorFails(s) \/ SyncReturn(s)
  <2>1. UNCHANGED <<tables, mod>>
    BY <1>6 DEF SyncMirrorOk, SyncMirrorFails, SyncReturn
  <2>2. \A t \in Syncs : sync'[t] = sync[t] \/ (sync[t].pc # "insert" /\ sync'[t].pc # "insert")
    <3>1. /\ sync[s].pc = "mirror" /\ sync[s] \in SyncState
          /\ \A t \in Syncs \ {s} : sync'[t] = sync[t]
      BY <1>6 DEF SyncMirrorOk, SyncMirrorFails, SyncReturn, MirrorNext, TypeOK
    <3>2. sync'[s].pc \in {"mirror", "mark", "idle"}
      <4>1. CASE SyncMirrorOk(s)
        BY <3>1, <4>1 DEF SyncMirrorOk, Struck, TypeOK, SyncState
      <4>2. CASE SyncMirrorFails(s)
        BY <3>1, <4>2 DEF SyncMirrorFails, Struck, TypeOK, SyncState
      <4>3. CASE SyncReturn(s)
        BY <4>3 DEF SyncReturn, IdleSync, TypeOK
      <4> QED
        BY <1>6, <4>1, <4>2, <4>3
    <3> QED
      BY <3>1, <3>2
  <2> QED
    BY <2>1, <2>2 DEF tables, RowsOf, FindingsOf, Goes, Tasks
<1>7. CASE SyncMark(s)
  <2>1. /\ mod' = mod /\ verdicts' = verdicts
        /\ \A t \in Syncs : sync'[t] = sync[t] \/ (sync[t].pc # "insert" /\ sync'[t].pc # "insert")
    BY <1>7 DEF SyncMark, TypeOK, SyncState
  <2>2. \A c \in Comments : RowsOf(c)
    <3>1. actions' = MarkApplied(sync[s].cur, sync[s].kind)
      BY <1>7 DEF SyncMark
    <3>2. \A c \in Comments : c # sync[s].cur => actions'[c] = actions[c]
      BY <3>1 DEF MarkApplied, TypeOK
    <3> QED
      BY <1>7, <3>1, <3>2 DEF RowsOf
  <2> QED
    BY <2>1, <2>2 DEF FindingsOf, Goes, Tasks
<1> QED
  BY <1>1, <1>2, <1>3, <1>4, <1>5, <1>6, <1>7
  DEF SyncStep, SyncInsertFails, SyncDeadlockFails, SyncCrash

\* Every step of a moderator's request.
LEMMA ModRows ==
  ASSUME TypeOK, NEW m \in Moderators, ModStep(m)
  PROVE  /\ \A c \in Comments : RowsOf(c) /\ FindingsOf(c)
         /\ \A t \in Tasks : Begins(t) \/ Commits(t) \/ Aborts(t) \/ Goes(t)
<1>0. m \in Tasks
  BY DEF Tasks
<1>1. CASE ActionAdmit(m) \/ ActionCancel(m) \/ ActionCallOk(m)
  <2>1. UNCHANGED <<tables, sync>> /\ \A t \in Moderators \ {m} : mod'[t] = mod[t]
    BY <1>1 DEF ActionAdmit, ActionCancel, ActionCallOk, TypeOK
  <2> QED
    BY <1>1, <2>1 DEF tables, RowsOf, FindingsOf, Goes, Tasks
<1>2. CASE ActionBegin(m)
  <2>1. /\ verdicts' = verdicts /\ sync' = sync
        /\ \A t \in Moderators \ {m} : mod'[t] = mod[t]
        /\ \A c \in Comments : actions'[c] = IF c = mod[m].cur THEN Append(actions[c], HumanRow(m)) ELSE actions[c]
    BY <1>2 DEF ActionBegin, TypeOK
  <2> QED
    BY <1>2, <2>1 DEF Begins, RowsOf, FindingsOf, Goes, Tasks
<1>3. CASE ActionCommit(m)
  <2>1. /\ Commits(m) /\ actions' = Published(actions, m) /\ verdicts' = verdicts /\ sync' = sync
        /\ \A t \in Moderators \ {m} : mod'[t] = mod[t]
    BY <1>3 DEF Commits, ActionCommit, TypeOK
  <2> QED
    BY <1>0, <2>1 DEF RowsOf, FindingsOf, Goes, Tasks
<1>4. CASE ActionCallFails(m) \/ ActionCrash(m)
  <2>1. ActionUndone(m)
    BY <1>4 DEF ActionCallFails, ActionCrash, ActionUndone
  <2>2. /\ Aborts(m) /\ actions' = Undone(actions, m, DeadRow) /\ verdicts' = verdicts /\ sync' = sync
        /\ \A t \in Moderators \ {m} : mod'[t] = mod[t]
    BY <2>1 DEF Aborts, ActionUndone, TypeOK
  <2> QED
    BY <1>0, <2>2 DEF RowsOf, FindingsOf, Goes, Tasks
<1> QED
  BY <1>1, <1>2, <1>3, <1>4 DEF ModStep

\* Every step.
LEMMA RowSteps ==
  ASSUME TypeOK, [Next]_vars
  PROVE  /\ \A c \in Comments : RowsOf(c) /\ FindingsOf(c)
         /\ \A t \in Tasks : Begins(t) \/ Commits(t) \/ Aborts(t) \/ Goes(t)
<1>1. ASSUME NEW w \in Sweepers, SweepRecord(w)
      PROVE  /\ \A c \in Comments : RowsOf(c) /\ FindingsOf(c)
             /\ \A t \in Tasks : Goes(t)
  <2>1. /\ UNCHANGED <<verdicts, sync, mod>>
        /\ \A c \in Comments : actions'[c] = IF c = sweep[w].cur THEN Append(actions[c], SweepRow) ELSE actions[c]
    BY <1>1 DEF SweepRecord, TypeOK, SweepRow
  <2> QED
    BY <1>1, <2>1 DEF RowsOf, FindingsOf, Goes, Tasks
<1>2. ASSUME UNCHANGED <<verdicts, actions, sync, mod>>
      PROVE  /\ \A c \in Comments : RowsOf(c) /\ FindingsOf(c)
             /\ \A t \in Tasks : Goes(t)
  BY <1>2 DEF RowsOf, FindingsOf, Goes, Tasks
<1>3. ASSUME NEW w \in Sweepers, SweepStep(w), ~SweepRecord(w)
      PROVE  UNCHANGED <<verdicts, actions, sync, mod>>
  BY <1>3 DEF SweepStep, SweepStart, SweepCredential, SweepCallOk, SweepCallFails, SweepPop,
      SweepReturn, SweepCrash, tables
<1>4. Environment \/ UNCHANGED vars => UNCHANGED <<verdicts, actions, sync, mod>>
  BY DEF Environment, CountdownEnds, AuthorRemoves, ConnectionChanges, LicenceChanges, vars, tables
<1> QED
  BY <1>1, <1>2, <1>3, <1>4, SyncRows, ModRows DEF Next

\* The entries of the histories.
LEMMA EntryTypes ==
  ASSUME TypeOK, NEW c \in Comments
  PROVE  /\ actions[c] \in Seq(Row) /\ verdicts[c] \in Seq(Finding)
         /\ Len(actions[c]) \in Nat /\ DOMAIN actions[c] = 1 .. Len(actions[c])
         /\ Len(verdicts[c]) \in Nat /\ DOMAIN verdicts[c] = 1 .. Len(verdicts[c])
         /\ \A i \in DOMAIN actions[c] : actions[c][i] \in Row
         /\ \A i \in DOMAIN verdicts[c] : verdicts[c][i] \in Finding
BY DEF TypeOK

\* Setting one field of an entry leaves the others alone.
LEMMA FieldUpdates ==
  /\ \A r \in Row : /\ [r EXCEPT !.tx = "committed"].tx = "committed"
                    /\ [r EXCEPT !.tx = "committed"].kind = r.kind
                    /\ [r EXCEPT !.tx = "committed"].actor = r.actor
                    /\ [r EXCEPT !.tx = "committed"].applied = r.applied
                    /\ [r EXCEPT !.applied = TRUE].tx = r.tx
                    /\ [r EXCEPT !.applied = TRUE].kind = r.kind
                    /\ [r EXCEPT !.applied = TRUE].actor = r.actor
                    /\ [r EXCEPT !.applied = TRUE].applied
  /\ \A r \in Finding : /\ [r EXCEPT !.tx = "committed"].tx = "committed"
                        /\ [r EXCEPT !.tx = "committed"].severity = r.severity
  /\ DeadRow.tx = "aborted" /\ DeadFinding.tx = "aborted"
  /\ SweepRow.tx = "committed" /\ SweepRow.kind = "DELETE" /\ SweepRow.actor = "auto-removal"
  /\ \A kind, actor, t : /\ AutoRow(kind, actor, t).tx = t /\ AutoRow(kind, actor, t).kind = kind
                         /\ AutoRow(kind, actor, t).actor = actor
                         /\ ~AutoRow(kind, actor, t).applied
  /\ \A m : HumanRow(m).tx = m /\ HumanRow(m).kind = mod[m].kind
            /\ HumanRow(m).actor = "human" /\ HumanRow(m).applied = mod[m].mirror
BY DEF Row, Finding, DeadRow, DeadFinding, AutoRow, SweepRow, HumanRow

\* Appending keeps what there is, and its owner gains a row.
LEMMA AppendRows ==
  ASSUME NEW S, NEW q \in Seq(S), NEW r \in S
  PROVE  /\ DOMAIN Append(q, r) = DOMAIN q \cup {Len(q) + 1}
         /\ Len(q) + 1 \notin DOMAIN q
         /\ \A i \in DOMAIN q : Append(q, r)[i] = q[i]
         /\ Append(q, r)[Len(q) + 1] = r
OBVIOUS

\* Every entry has its place for good: it stays what it is, except that provider_applied
\* may be set on a committed row, and that the end of a transaction publishes or kills
\* its own.
LEMMA RowsMove ==
  ASSUME TypeOK, [Next]_vars, NEW c \in Comments, NEW i \in DOMAIN actions[c]
  PROVE  /\ i \in DOMAIN actions'[c]
         /\ \/ actions'[c][i] = actions[c][i]
            \/ /\ actions[c][i].tx = "committed"
               /\ actions'[c][i] = [actions[c][i] EXCEPT !.applied = TRUE]
            \/ /\ actions[c][i].tx \in Tasks /\ Commits(actions[c][i].tx)
               /\ actions'[c][i] = [actions[c][i] EXCEPT !.tx = "committed"]
            \/ /\ actions[c][i].tx \in Tasks /\ Aborts(actions[c][i].tx)
               /\ actions'[c][i] = DeadRow
<1>0. RowsOf(c)
  BY RowSteps
<1>1. CASE actions'[c] = actions[c]
  BY <1>1
<1>2. ASSUME NEW r, actions'[c] = Append(actions[c], r) PROVE i \in DOMAIN actions'[c] /\ actions'[c][i] = actions[c][i]
  BY <1>2, EntryTypes
<1>3. ASSUME NEW t \in Tasks, Commits(t), actions' = Published(actions, t)
      PROVE  /\ i \in DOMAIN actions'[c]
             /\ \/ actions'[c][i] = actions[c][i]
                \/ /\ actions[c][i].tx = t
                   /\ actions'[c][i] = [actions[c][i] EXCEPT !.tx = "committed"]
  BY <1>3 DEF Published
<1>4. ASSUME NEW t \in Tasks, Aborts(t), actions' = Undone(actions, t, DeadRow)
      PROVE  /\ i \in DOMAIN actions'[c]
             /\ actions'[c][i] = actions[c][i] \/ (actions[c][i].tx = t /\ actions'[c][i] = DeadRow)
  BY <1>4 DEF Undone
<1>5. ASSUME NEW kind, actions' = MarkApplied(c, kind)
      PROVE  /\ i \in DOMAIN actions'[c]
             /\ \/ actions'[c][i] = actions[c][i]
                \/ /\ actions[c][i].tx = "committed"
                   /\ actions'[c][i] = [actions[c][i] EXCEPT !.applied = TRUE]
  BY <1>5 DEF MarkApplied, IsLatest, Committed, VisibleRows, TypeOK
<1> QED
  BY <1>0, <1>1, <1>2, <1>3, <1>4, <1>5 DEF RowsOf

\* A new entry belongs to the transaction that begins, or is the record of a sweep.
LEMMA NewRows ==
  ASSUME TypeOK, [Next]_vars, NEW c \in Comments, NEW i \in DOMAIN actions'[c] \ DOMAIN actions[c]
  PROVE  /\ i = Len(actions[c]) + 1
         /\ \/ /\ \E s \in Syncs : \E kind \in Kind, actor \in Actor :
                    SyncBegin(s) /\ actions'[c][i] = AutoRow(kind, actor, s)
               /\ actions'[c][i].tx \in Tasks /\ Begins(actions'[c][i].tx)
            \/ /\ \E m \in Moderators :
                    ActionBegin(m) /\ mod[m].cur = c /\ actions'[c][i] = HumanRow(m)
               /\ actions'[c][i].tx \in Tasks /\ Begins(actions'[c][i].tx)
            \/ \E w \in Sweepers :
                 SweepRecord(w) /\ sweep[w].cur = c /\ actions'[c][i] = SweepRow
<1>0. RowsOf(c)
  BY RowSteps
<1>1. CASE DOMAIN actions'[c] = DOMAIN actions[c]
  BY <1>1
<1>2. ASSUME NEW r \in Row, actions'[c] = Append(actions[c], r)
      PROVE  i = Len(actions[c]) + 1 /\ actions'[c][i] = r
  BY <1>2, EntryTypes
<1>3. ASSUME NEW t, actions' = Published(actions, t) \/ actions' = Undone(actions, t, DeadRow)
      PROVE  DOMAIN actions'[c] = DOMAIN actions[c]
  BY <1>3 DEF Published, Undone
<1>4. ASSUME NEW kind, actions' = MarkApplied(c, kind) PROVE DOMAIN actions'[c] = DOMAIN actions[c]
  BY <1>4 DEF MarkApplied, TypeOK
<1>5. ASSUME NEW s \in Syncs, NEW kind \in Kind, NEW actor \in Actor, SyncBegin(s),
             actions'[c] = Append(actions[c], AutoRow(kind, actor, s))
      PROVE  /\ i = Len(actions[c]) + 1 /\ actions'[c][i] = AutoRow(kind, actor, s)
             /\ actions'[c][i].tx \in Tasks /\ Begins(actions'[c][i].tx)
  <2>1. AutoRow(kind, actor, s) \in Row /\ AutoRow(kind, actor, s).tx = s
    BY DEF AutoRow, Row, TxStatus, Tasks
  <2> QED
    BY <1>2, <1>5, <2>1 DEF Begins, Tasks
<1>6. ASSUME NEW m \in Moderators, ActionBegin(m), actions'[c] = Append(actions[c], HumanRow(m))
      PROVE  /\ i = Len(actions[c]) + 1 /\ actions'[c][i] = HumanRow(m)
             /\ actions'[c][i].tx \in Tasks /\ Begins(actions'[c][i].tx)
  BY <1>2, <1>6, HumanRowTypes, FieldUpdates DEF Begins, Tasks
<1>7. ASSUME actions'[c] = Append(actions[c], SweepRow)
      PROVE  i = Len(actions[c]) + 1 /\ actions'[c][i] = SweepRow
  BY <1>2, <1>7, RowTypes DEF SweepRow
<1> QED
  BY <1>0, <1>1, <1>3, <1>4, <1>5, <1>6, <1>7 DEF RowsOf

\* The same of the verdicts.
LEMMA FindingsMove ==
  ASSUME TypeOK, [Next]_vars, NEW c \in Comments, NEW i \in DOMAIN verdicts[c]
  PROVE  /\ i \in DOMAIN verdicts'[c]
         /\ \/ verdicts'[c][i] = verdicts[c][i]
            \/ /\ verdicts[c][i].tx \in Syncs /\ SyncCommit(verdicts[c][i].tx)
               /\ verdicts'[c][i] = [verdicts[c][i] EXCEPT !.tx = "committed"]
            \/ /\ verdicts[c][i].tx \in Syncs /\ SyncRollback(verdicts[c][i].tx)
               /\ verdicts'[c][i] = DeadFinding
<1>0. FindingsOf(c)
  BY RowSteps
<1>2. ASSUME NEW r, verdicts'[c] = Append(verdicts[c], r) PROVE i \in DOMAIN verdicts'[c] /\ verdicts'[c][i] = verdicts[c][i]
  BY <1>2, EntryTypes
<1>3. ASSUME NEW t, verdicts' = Published(verdicts, t)
      PROVE  /\ i \in DOMAIN verdicts'[c]
             /\ \/ verdicts'[c][i] = verdicts[c][i]
                \/ /\ verdicts[c][i].tx = t
                   /\ verdicts'[c][i] = [verdicts[c][i] EXCEPT !.tx = "committed"]
  BY <1>3 DEF Published
<1>4. ASSUME NEW t, verdicts' = Undone(verdicts, t, DeadFinding)
      PROVE  /\ i \in DOMAIN verdicts'[c]
             /\ verdicts'[c][i] = verdicts[c][i] \/ (verdicts[c][i].tx = t /\ verdicts'[c][i] = DeadFinding)
  BY <1>4 DEF Undone
<1> QED
  BY <1>0, <1>2, <1>3, <1>4 DEF FindingsOf

\* A new verdict belongs to the sync that begins its transaction.
LEMMA NewFindings ==
  ASSUME TypeOK, [Next]_vars, NEW c \in Comments, NEW i \in DOMAIN verdicts'[c] \ DOMAIN verdicts[c]
  PROVE  /\ i = Len(verdicts[c]) + 1 /\ verdicts'[c][i].tx \in Syncs
         /\ SyncBegin(verdicts'[c][i].tx)
<1>0. FindingsOf(c)
  BY RowSteps
<1>1. ASSUME NEW t, verdicts' = Published(verdicts, t) \/ verdicts' = Undone(verdicts, t, DeadFinding)
      PROVE  DOMAIN verdicts'[c] = DOMAIN verdicts[c]
  BY <1>1 DEF Published, Undone
<1>2. ASSUME NEW s \in Syncs, NEW severity \in Severity, SyncBegin(s),
             verdicts'[c] = Append(verdicts[c], [severity |-> severity, tx |-> s])
      PROVE  i = Len(verdicts[c]) + 1 /\ verdicts'[c][i].tx \in Syncs /\ SyncBegin(verdicts'[c][i].tx)
  <2>1. [severity |-> severity, tx |-> s] \in Finding
    BY DEF Finding, TxStatus, Tasks
  <2>2. i = Len(verdicts[c]) + 1 /\ verdicts'[c][i] = [severity |-> severity, tx |-> s]
    BY <1>2, <2>1, EntryTypes
  <2> QED
    BY <1>2, <2>2
<1> QED
  BY <1>0, <1>1, <1>2 DEF FindingsOf

\* An open transaction keeps its rows as long as it neither begins nor ends.
LEMMA OwnRowsStay ==
  ASSUME TypeOK, [Next]_vars, NEW t \in Tasks, ~Begins(t), ~Commits(t), ~Aborts(t),
         NEW c \in Comments
  PROVE  /\ Own(actions', c, t) = Own(actions, c, t)
         /\ \A i \in Own(actions, c, t) : actions'[c][i] = actions[c][i]
         /\ t \in Syncs => /\ Own(verdicts', c, t) = Own(verdicts, c, t)
                           /\ \A i \in Own(verdicts, c, t) : verdicts'[c][i] = verdicts[c][i]
<1>0. t \notin {"committed", "aborted"}
  BY TasksAssumption
<1>1. \A i \in Own(actions, c, t) : i \in DOMAIN actions'[c] /\ actions'[c][i] = actions[c][i]
  BY <1>0, RowsMove DEF Own
<1>2. ASSUME NEW i \in Own(actions', c, t) PROVE i \in Own(actions, c, t)
  <2>1. i \in DOMAIN actions[c]
    BY <1>0, <1>2, NewRows, FieldUpdates DEF Own
  <2>2. actions[c][i] \in Row
    BY <2>1, EntryTypes
  <2>3. actions'[c][i].tx = t
    BY <1>2 DEF Own
  <2>4. /\ [actions[c][i] EXCEPT !.tx = "committed"].tx = "committed" /\ DeadRow.tx = "aborted"
        /\ [actions[c][i] EXCEPT !.applied = TRUE].tx = actions[c][i].tx
    BY <2>2, FieldUpdates
  <2>5. actions'[c][i] \in {actions[c][i], [actions[c][i] EXCEPT !.applied = TRUE],
                           [actions[c][i] EXCEPT !.tx = "committed"], DeadRow}
    BY <2>1, RowsMove
  <2>6. actions[c][i].tx = t
    BY <1>0, <2>3, <2>4, <2>5
  <2> QED
    BY <2>1, <2>6 DEF Own
<1>3. ASSUME t \in Syncs
      PROVE  \A i \in Own(verdicts, c, t) : i \in DOMAIN verdicts'[c] /\ verdicts'[c][i] = verdicts[c][i]
  BY <1>0, <1>3, FindingsMove DEF Own, Commits, Aborts
<1>4. ASSUME t \in Syncs, NEW i \in Own(verdicts', c, t) PROVE i \in Own(verdicts, c, t)
  <2>1. i \in DOMAIN verdicts[c]
    BY <1>0, <1>4, NewFindings DEF Own, Begins
  <2>2. verdicts[c][i] \in Finding
    BY <2>1, EntryTypes
  <2>3. verdicts'[c][i].tx = t
    BY <1>4 DEF Own
  <2>4. [verdicts[c][i] EXCEPT !.tx = "committed"].tx = "committed" /\ DeadFinding.tx = "aborted"
    BY <2>2, FieldUpdates
  <2>5. verdicts'[c][i] \in {verdicts[c][i], [verdicts[c][i] EXCEPT !.tx = "committed"], DeadFinding}
    BY <2>1, FindingsMove
  <2>6. verdicts[c][i].tx = t
    BY <1>0, <2>3, <2>4, <2>5
  <2> QED
    BY <2>1, <2>6 DEF Own
<1> QED
  BY <1>1, <1>2, <1>3, <1>4 DEF Own

\* One that ends has no rows of its own any more.
LEMMA OwnRowsEnd ==
  ASSUME TypeOK, [Next]_vars, NEW t \in Tasks, Commits(t) \/ Aborts(t), NEW c \in Comments
  PROVE  /\ Own(actions', c, t) = {}
         /\ t \in Syncs => Own(verdicts', c, t) = {}
<1>0. t \notin {"committed", "aborted"}
  BY TasksAssumption
<1>1. actions' = Published(actions, t) \/ actions' = Undone(actions, t, DeadRow)
  BY DEF Commits, Aborts, SyncCommit, ActionCommit, SyncRollback, ActionUndone
<1>2. ASSUME NEW i \in DOMAIN actions'[c] PROVE actions'[c][i].tx # t
  <2>1. i \in DOMAIN actions[c]
    BY <1>1, <1>2 DEF Published, Undone
  <2>2. [actions[c][i] EXCEPT !.tx = "committed"].tx = "committed" /\ DeadRow.tx = "aborted"
    BY <2>1, EntryTypes, FieldUpdates
  <2>3. actions'[c][i] = IF actions[c][i].tx # t THEN actions[c][i]
                         ELSE IF actions' = Published(actions, t)
                              THEN [actions[c][i] EXCEPT !.tx = "committed"] ELSE DeadRow
    BY <1>1, <2>1 DEF Published, Undone
  <2> QED
    BY <1>0, <2>2, <2>3
<1>3. ASSUME t \in Syncs, NEW i \in DOMAIN verdicts'[c] PROVE verdicts'[c][i].tx # t
  <2>1. verdicts' = Published(verdicts, t) \/ verdicts' = Undone(verdicts, t, DeadFinding)
    BY <1>3, TasksAssumption DEF Commits, Aborts, SyncCommit, SyncRollback
  <2>2. i \in DOMAIN verdicts[c]
    BY <1>3, <2>1 DEF Published, Undone
  <2>3. [verdicts[c][i] EXCEPT !.tx = "committed"].tx = "committed" /\ DeadFinding.tx = "aborted"
    BY <2>2, EntryTypes, FieldUpdates
  <2>4. verdicts'[c][i] = IF verdicts[c][i].tx # t THEN verdicts[c][i]
                          ELSE IF verdicts' = Published(verdicts, t)
                               THEN [verdicts[c][i] EXCEPT !.tx = "committed"] ELSE DeadFinding
    BY <2>1, <2>2 DEF Published, Undone
  <2> QED
    BY <1>0, <2>3, <2>4
<1> QED
  BY <1>2, <1>3 DEF Own

\* What others see stays, and the new rows they see are those of the transaction that
\* commits or the record of a sweep.
LEMMA VisibleStay ==
  ASSUME TypeOK, [Next]_vars, NEW c \in Comments
  PROVE  /\ \A i \in Committed(c) :
              /\ i \in Committed(c)'
              /\ actions'[c][i] \in {actions[c][i], [actions[c][i] EXCEPT !.applied = TRUE]}
         /\ \A i \in Committed(c)' \ Committed(c) :
              \/ \E t \in Tasks : /\ Commits(t) /\ i \in Own(actions, c, t)
                                  /\ actions'[c][i] = [actions[c][i] EXCEPT !.tx = "committed"]
              \/ \E w \in Sweepers : /\ SweepRecord(w) /\ sweep[w].cur = c
                                     /\ i = Len(actions[c]) + 1 /\ actions'[c][i] = SweepRow
         /\ \A kind, actor : HasRow(c, kind, actor) => HasRow(c, kind, actor)'
<1>0. \A t \in Tasks : t \notin {"committed", "aborted"}
  BY TasksAssumption
<1>1. ASSUME NEW i \in Committed(c)
      PROVE  /\ i \in Committed(c)'
             /\ actions'[c][i] \in {actions[c][i], [actions[c][i] EXCEPT !.applied = TRUE]}
             /\ actions'[c][i].kind = actions[c][i].kind /\ actions'[c][i].actor = actions[c][i].actor
  <2>1. i \in DOMAIN actions[c] /\ actions[c][i].tx = "committed" /\ actions[c][i] \in Row
    BY EntryTypes DEF Committed, VisibleRows
  <2>2. i \in DOMAIN actions'[c] /\ actions'[c][i] \in {actions[c][i], [actions[c][i] EXCEPT !.applied = TRUE]}
    BY <1>0, <2>1, RowsMove
  <2> QED
    BY <2>1, <2>2, FieldUpdates DEF Committed, VisibleRows
<1>2. ASSUME NEW i \in Committed(c)' \ Committed(c)
      PROVE  \/ \E t \in Tasks : /\ Commits(t) /\ i \in Own(actions, c, t)
                                 /\ actions'[c][i] = [actions[c][i] EXCEPT !.tx = "committed"]
             \/ \E w \in Sweepers : /\ SweepRecord(w) /\ sweep[w].cur = c
                                    /\ i = Len(actions[c]) + 1 /\ actions'[c][i] = SweepRow
  <2>1. i \in DOMAIN actions'[c] /\ actions'[c][i].tx = "committed"
    BY <1>2 DEF Committed, VisibleRows
  <2>2. CASE i \in DOMAIN actions[c]
    <3>1. actions[c][i] \in Row /\ actions[c][i].tx # "committed"
      BY <1>2, <2>2, EntryTypes DEF Committed, VisibleRows
    <3>2. DeadRow.tx = "aborted"
      BY FieldUpdates
    <3>3. /\ actions[c][i].tx \in Tasks /\ Commits(actions[c][i].tx)
          /\ actions'[c][i] = [actions[c][i] EXCEPT !.tx = "committed"]
      BY <2>1, <2>2, <3>1, <3>2, RowsMove
    <3> QED
      BY <2>2, <3>3 DEF Own
  <2>3. CASE i \notin DOMAIN actions[c]
    BY <1>0, <2>1, <2>3, NewRows, FieldUpdates
  <2> QED
    BY <2>2, <2>3
<1> QED
  BY <1>1, <1>2 DEF HasRow

\* Verdicts that others see stay, and so do the severities found.
LEMMA FoundStays ==
  ASSUME TypeOK, [Next]_vars, NEW c \in Comments
  PROVE  /\ Found(c) \subseteq Found(c)'
         /\ VisibleRows(verdicts[c]) \subseteq VisibleRows(verdicts'[c])
         /\ \A i \in VisibleRows(verdicts[c]) : verdicts'[c][i] = verdicts[c][i]
<1>0. \A t \in Syncs : t # "committed"
  BY TasksAssumption DEF Tasks
<1>1. ASSUME NEW i \in VisibleRows(verdicts[c])
      PROVE  i \in VisibleRows(verdicts'[c]) /\ verdicts'[c][i] = verdicts[c][i]
  BY <1>0, FindingsMove DEF VisibleRows
<1> QED
  BY <1>1 DEF Found

----------------------------------------------------------------------------
(* The inductive invariant.                                                *)

\* m's transaction has its row in c's history.
Writing(m, c) == mod[m].pc \in {"begun", "open", "answered"} /\ mod[m].cur = c

\* The open transaction of a moderator has written one row, of the comment it is about.
OpenActs ==
  \A m \in Moderators, c \in Comments :
    IF Writing(m, c) THEN \E i \in Nat : Own(actions, c, m) = {i} /\ actions[c][i] = HumanRow(m)
    ELSE Own(actions, c, m) = {}

\* The comments that automation acts on.
Acted(s) == sync[s].toDelete \cup sync[s].toQuarantine \cup sync[s].toHide

\* The row that a sync's lists say it has written of c.
SyncRow(s, c) ==
  IF c \in sync[s].toDelete THEN AutoRow("DELETE", "auto-removal", s)
  ELSE IF c \in sync[s].toQuarantine THEN AutoRow("HIDE", "auto-removal", s)
  ELSE AutoRow("HIDE", "auto-hide", s)

\* The verdict allows what the lists say.
Warrants(s, c, severity) ==
  /\ c \in sync[s].toDelete \cup sync[s].toQuarantine => AutoRemovable(severity)
  /\ c \in sync[s].toHide => severity = "OFFENSIVE"

\* That of a sync, one row for each comment on its lists and one verdict for each
\* comment of its batch.
OpenBatches ==
  \A s \in Syncs, c \in Comments :
    /\ IF sync[s].pc = "insert" /\ c \in Acted(s)
       THEN \E i \in Nat : Own(actions, c, s) = {i} /\ actions[c][i] = SyncRow(s, c)
       ELSE Own(actions, c, s) = {}
    /\ IF sync[s].pc = "insert" /\ c \in sync[s].batch
       THEN \E i \in Nat : Own(verdicts, c, s) = {i} /\ Warrants(s, c, verdicts[c][i].severity)
       ELSE Own(verdicts, c, s) = {}

\* Its lists share no comment, and hold only comments of the batch.
BatchesSplit ==
  \A s \in Syncs : sync[s].pc = "insert" =>
    /\ Acted(s) \subseteq sync[s].batch
    /\ sync[s].toDelete \cap sync[s].toQuarantine = {}
    /\ sync[s].toHide \cap (sync[s].toDelete \cup sync[s].toQuarantine) = {}

\* It has inserted the countdown of c.
Starts(s, c) == Inserted(s, c) /\ c \in sync[s].toQuarantine

\* The primary key of scheduled_deletion: one countdown of a comment at a time, started
\* or standing.
InsertsApart ==
  \A s \in Syncs, c \in Comments : Starts(s, c) =>
    /\ scheduled[c] = "none"
    /\ \A t \in Syncs : Starts(t, c) => t = s

\* What is still to be mirrored, what is on the countdown and what a sweep is at work on
\* has its automatic row.
ListsDecided ==
  /\ \A s \in Syncs, c \in Comments : sync[s].pc \in {"mirror", "mark"} =>
       /\ c \in sync[s].toDelete => HasRow(c, "DELETE", "auto-removal")
       /\ c \in sync[s].toQuarantine => HasRow(c, "HIDE", "auto-removal")
       /\ c \in sync[s].toHide => HasRow(c, "HIDE", "auto-hide")
  /\ \A c \in Comments : scheduled[c] # "none" => HasRow(c, "HIDE", "auto-removal")
  /\ \A w \in Sweepers, c \in Comments :
       /\ c \in sweep[w].due \/ c = sweep[w].cur => HasRow(c, "HIDE", "auto-removal")
       /\ sweep[w].pc = "pop" /\ c = sweep[w].cur => HasRow(c, "DELETE", "auto-removal")

\* Every automatic row has the verdict that allowed it.
RowsJustified ==
  \A c \in Comments : \A i \in Committed(c) :
    /\ actions[c][i].actor = "auto-removal" => AutoRemovalEnabled /\ Harmful(c)
    /\ actions[c][i].actor = "auto-hide" => "OFFENSIVE" \in Found(c)

\* A task that has had its answer has done what it asked for, or was told so.
AnswersTrue ==
  /\ \A s \in Syncs : sync[s].pc = "mark" => <<sync[s].cur, "sync", sync[s].kind>> \in effects
  /\ \A m \in Moderators : mod[m].pc = "answered" => <<mod[m].cur, "human", mod[m].kind>> \in effects
  /\ \A w \in Sweepers : sweep[w].pc = "record" => <<sweep[w].cur, "sweep", "DELETE">> \in effects

\* The places in missed are those of people who have looked, if they are still at it.
MissedLooked ==
  \A c \in Comments : \A i \in missed[c] :
    /\ i \in DOMAIN actions[c] /\ actions[c][i].tx \notin Syncs
    /\ actions[c][i].tx \in Moderators => HasLooked(actions[c][i].tx)

\* Somebody who has looked and holds no countdown has missed the one that stands.
OpenDecisionsCancel ==
  \A m \in Moderators, c \in Comments :
    HasLooked(m) /\ mod[m].cur = c /\ ~mod[m].holds /\ scheduled[c] # "none"
    => Own(actions, c, m) \subseteq missed[c]

\* The inductive invariant: the properties, and what they lean on.
IInv ==
  /\ TypeOK /\ OpenActs /\ OpenBatches /\ BatchesSplit
  /\ InsertsApart /\ ListsDecided /\ RowsJustified /\ AnswersTrue
  /\ MissedLooked /\ OpenDecisionsCancel
  /\ DecisionCancelsCountdown /\ AutomationExplained /\ AppliedMeansAccepted

\* No task is at work and no table has a row in the beginning.
LEMMA InitInvariant == Init => IInv
<1> SUFFICES ASSUME Init PROVE IInv
  OBVIOUS
<1>1. TypeOK
  BY TypeInit
<1>2. /\ \A c \in Comments : actions[c] = <<>> /\ verdicts[c] = <<>> /\ scheduled[c] = "none"
      /\ \A c \in Comments : missed[c] = {}
      /\ \A s \in Syncs : sync[s].pc = "idle"
      /\ \A m \in Moderators : mod[m].pc = "idle"
      /\ \A w \in Sweepers : sweep[w].pc = "idle" /\ sweep[w].due = {} /\ sweep[w].cur = None
  BY DEF Init, IdleSync, IdleMod, IdleSweep
<1>3. \A c \in Comments : DOMAIN actions[c] = {} /\ DOMAIN verdicts[c] = {}
  BY <1>2
<1>4. OpenActs /\ OpenBatches
  BY <1>2, <1>3 DEF OpenActs, OpenBatches, Writing, Own
<1>5. BatchesSplit /\ InsertsApart
  BY <1>2 DEF BatchesSplit, InsertsApart, Starts, Inserted
<1>6. ListsDecided
  BY <1>2, NoneAssumption DEF ListsDecided
<1>7. RowsJustified /\ AppliedMeansAccepted
  BY <1>3 DEF RowsJustified, AppliedMeansAccepted, Committed, VisibleRows
<1>8. AnswersTrue /\ MissedLooked /\ OpenDecisionsCancel
  BY <1>2 DEF AnswersTrue, MissedLooked, OpenDecisionsCancel, HasLooked
<1>9. DecisionCancelsCountdown /\ AutomationExplained
  BY <1>2 DEF Init, DecisionCancelsCountdown, AutomationExplained
<1> QED
  BY <1>1, <1>4, <1>5, <1>6, <1>7, <1>8, <1>9 DEF IInv

\* A moderator whose transaction neither begins nor ends.
LEMMA ModGoes ==
  ASSUME TypeOK, NEW m \in Moderators, Goes(m)
  PROVE  /\ mod'[m].pc \in {"begun", "open", "answered"} <=> mod[m].pc \in {"begun", "open", "answered"}
         /\ mod[m].pc \in {"begun", "open", "answered"} =>
              mod'[m].cur = mod[m].cur /\ mod'[m].kind = mod[m].kind /\ mod'[m].mirror = mod[m].mirror
         /\ HasLooked(m) => HasLooked(m)' /\ mod'[m].holds = mod[m].holds
         /\ HasLooked(m)' => HasLooked(m) \/ ActionCancel(m)
<1>0. m \notin Syncs /\ mod \in [Moderators -> ModState] /\ mod[m] \in ModState
  BY TasksAssumption DEF TypeOK
<1>1. CASE mod'[m] = mod[m]
  BY <1>1 DEF HasLooked
<1>2. CASE ActionAdmit(m)
  <2>1. PICK c, kind : mod' = [mod EXCEPT ![m] = [IdleMod EXCEPT !.pc = "admitted", !.cur = c,
                    !.kind = kind, !.mirror = connected /\ kind \in Mirrored]]
    BY <1>2 DEF ActionAdmit
  <2>2. mod[m].pc = "idle" /\ mod'[m].pc = "admitted"
    BY <1>0, <1>2, <2>1 DEF ActionAdmit, IdleMod
  <2> QED
    BY <2>2 DEF HasLooked
<1>3. CASE ActionCancel(m)
  BY <1>0, <1>3 DEF ActionCancel, HasLooked, ModState
<1>4. CASE ActionCallOk(m)
  BY <1>0, <1>4 DEF ActionCallOk, HasLooked, ModState
<1> QED
  BY <1>0, <1>1, <1>2, <1>3, <1>4 DEF Goes

\* A sync whose transaction neither begins nor ends.
LEMMA SyncGoes ==
  ASSUME TypeOK, NEW s \in Syncs, Goes(s)
  PROVE  /\ sync'[s].pc = "insert" <=> sync[s].pc = "insert"
         /\ sync[s].pc = "insert" =>
              /\ sync'[s].batch = sync[s].batch /\ sync'[s].toDelete = sync[s].toDelete
              /\ sync'[s].toQuarantine = sync[s].toQuarantine /\ sync'[s].toHide = sync[s].toHide
              /\ \/ sync'[s].todo = sync[s].todo
                 \/ SyncInsert(s) /\ sync'[s].todo = sync[s].todo \ {sync[s].cur}
<1>0. s \notin Moderators /\ sync \in [Syncs -> SyncState] /\ sync[s] \in SyncState
  BY TasksAssumption DEF TypeOK
<1>1. CASE SyncInsert(s)
  BY <1>0, <1>1 DEF SyncInsert, SyncState
<1> QED
  BY <1>0, <1>1 DEF Goes

\* A request's row appears when its transaction begins and is its own until that ends.
LEMMA OpenActsStep ==
  ASSUME TypeOK, OpenActs, [Next]_vars
  PROVE  OpenActs'
<1> SUFFICES ASSUME NEW m \in Moderators, NEW c \in Comments
             PROVE  IF Writing(m, c)'
                    THEN \E i \in Nat : Own(actions', c, m) = {i} /\ actions'[c][i] = HumanRow(m)'
                    ELSE Own(actions', c, m) = {}
  BY DEF OpenActs, Own
<1>0. m \in Tasks /\ m \notin Syncs /\ mod[m] \in ModState
  BY TasksAssumption DEF Tasks, TypeOK
<1>1. CASE Commits(m) \/ Aborts(m)
  <2>1. mod' = [mod EXCEPT ![m] = IdleMod] /\ IdleMod.pc = "idle"
    BY <1>0, <1>1 DEF Commits, Aborts, ActionCommit, ActionUndone, IdleMod
  <2>2. ~Writing(m, c)'
    BY <2>1 DEF Writing, TypeOK
  <2> QED
    BY <1>0, <1>1, <2>2, OwnRowsEnd
<1>2. CASE Begins(m)
  <2>1. /\ mod[m].pc = "admitted" /\ mod'[m] = [mod[m] EXCEPT !.pc = "begun"]
        /\ actions' = [actions EXCEPT ![mod[m].cur] = Append(actions[mod[m].cur], HumanRow(m))]
    BY <1>0, <1>2 DEF Begins, ActionBegin, TypeOK
  <2>2. Own(actions, c, m) = {}
    BY <2>1 DEF OpenActs, Writing
  <2>3. Writing(m, c)' <=> mod[m].cur = c
    BY <1>0, <2>1 DEF Writing, ModState
  <2>4. HumanRow(m)' = HumanRow(m)
    BY <1>0, <2>1 DEF HumanRow, ModState
  <2>5. CASE mod[m].cur # c
    <3>1. actions'[c] = actions[c]
      BY <2>1, <2>5 DEF TypeOK
    <3> QED
      BY <2>2, <2>3, <2>5, <3>1 DEF Own
  <2>6. CASE mod[m].cur = c
    <3> DEFINE i == Len(actions[c]) + 1
    <3>1. actions'[c] = Append(actions[c], HumanRow(m))
      BY <2>1, <2>6 DEF TypeOK
    <3>2. HumanRow(m) \in Row /\ HumanRow(m).tx = m
      BY HumanRowTypes, FieldUpdates, <2>1
    <3>3. /\ DOMAIN actions'[c] = DOMAIN actions[c] \cup {i} /\ i \in Nat
          /\ \A j \in DOMAIN actions[c] : actions'[c][j] = actions[c][j]
          /\ actions'[c][i] = HumanRow(m)
      BY <3>1, <3>2, EntryTypes
    <3> HIDE DEF i
    <3>4. Own(actions', c, m) = {i}
      BY <2>2, <3>2, <3>3 DEF Own
    <3> QED
      BY <2>3, <2>4, <2>6, <3>3, <3>4
  <2> QED
    BY <2>5, <2>6
<1>3. CASE ~Begins(m) /\ ~Commits(m) /\ ~Aborts(m)
  <2>1. Goes(m)
    BY <1>0, <1>3, RowSteps
  <2>2. Writing(m, c)' <=> Writing(m, c)
    BY <2>1, ModGoes DEF Writing
  <2>3. Writing(m, c) => HumanRow(m)' = HumanRow(m)
    BY <2>1, ModGoes DEF Writing, HumanRow
  <2>4. Own(actions', c, m) = Own(actions, c, m) /\ \A i \in Own(actions, c, m) : actions'[c][i] = actions[c][i]
    BY <1>0, <1>3, OwnRowsStay
  <2> QED
    BY <2>2, <2>3, <2>4 DEF OpenActs
<1> QED
  BY <1>1, <1>2, <1>3

\* What a beginning sync puts on its lists.
LEMMA BeginLists ==
  ASSUME TypeOK, NEW s \in Syncs, NEW sev \in [sync[s].batch -> Severity],
         NEW first \in sync[s].batch, BeginStep(s, sev, first)
  PROVE  /\ sync'[s].pc = "insert" /\ sync'[s].batch = sync[s].batch /\ sync'[s].todo = sync[s].batch
         /\ Acted(s)' \subseteq sync[s].batch
         /\ sync'[s].toDelete \cap sync'[s].toQuarantine = {}
         /\ sync'[s].toHide \cap (sync'[s].toDelete \cup sync'[s].toQuarantine) = {}
         /\ actions' = WithAutoRows(s, sync'[s].toDelete, sync'[s].toQuarantine, sync'[s].toHide)
         /\ \A c \in sync[s].batch : Warrants(s, c, sev[c])'
<1>1. sync[s] \in SyncState /\ sync \in [Syncs -> SyncState]
  BY DEF TypeOK
<1> DEFINE waiting == QuarantinedBy(sync[s].batch, sev, sync[s].policy)
           deleted == RemovedBy(sync[s].batch, sev) \ waiting
           hidden  == HiddenBy(sync[s].batch, sev, sync[s].policy)
<1>2. /\ waiting \subseteq RemovedBy(sync[s].batch, sev)
      /\ RemovedBy(sync[s].batch, sev) \subseteq sync[s].batch
      /\ hidden \subseteq sync[s].batch \ RemovedBy(sync[s].batch, sev)
      /\ \A c \in RemovedBy(sync[s].batch, sev) : AutoRemovable(sev[c])
      /\ \A c \in hidden : sev[c] = "OFFENSIVE"
  BY DEF QuarantinedBy, RemovedBy, HiddenBy
<1>3. /\ actions' = WithAutoRows(s, deleted, waiting, hidden)
      /\ sync' = [sync EXCEPT ![s] = [sync[s] EXCEPT !.pc = "insert", !.policy = IdleSync.policy,
                    !.todo = sync[s].batch, !.cur = first, !.toDelete = deleted,
                    !.toQuarantine = waiting, !.toHide = hidden]]
  BY DEF BeginStep
<1> HIDE DEF waiting, deleted, hidden
<1>4. /\ sync'[s].pc = "insert" /\ sync'[s].batch = sync[s].batch /\ sync'[s].todo = sync[s].batch
      /\ sync'[s].toDelete = deleted /\ sync'[s].toQuarantine = waiting /\ sync'[s].toHide = hidden
  BY <1>1, <1>3 DEF SyncState
<1>5. deleted = RemovedBy(sync[s].batch, sev) \ waiting
  BY DEF deleted
<1> QED
  BY <1>2, <1>3, <1>4, <1>5 DEF Acted, Warrants

\* A sync whose transaction ends goes on to its mirroring, or ends with it.
LEMMA SyncEnds ==
  ASSUME TypeOK, NEW s \in Syncs, Commits(s) \/ Aborts(s)
  PROVE  \/ SyncCommit(s) /\ sync'[s].pc = "mirror"
         \/ SyncRollback(s) /\ sync'[s].pc = "idle"
<1>1. s \notin Moderators /\ sync[s] \in SyncState /\ sync \in [Syncs -> SyncState]
  BY TasksAssumption DEF TypeOK
<1>2. CASE SyncCommit(s)
  BY <1>1, <1>2 DEF SyncCommit, SyncState
<1>3. CASE SyncRollback(s)
  BY <1>1, <1>3 DEF SyncRollback, IdleSync
<1> QED
  BY <1>1, <1>2, <1>3 DEF Commits, Aborts

\* So do the rows and the verdicts of a batch.
LEMMA OpenBatchesStep ==
  ASSUME TypeOK, OpenBatches, [Next]_vars
  PROVE  OpenBatches'
<1> SUFFICES ASSUME NEW s \in Syncs, NEW c \in Comments
    PROVE  /\ IF sync'[s].pc = "insert" /\ c \in Acted(s)'
              THEN \E i \in Nat : Own(actions', c, s) = {i} /\ actions'[c][i] = SyncRow(s, c)'
              ELSE Own(actions', c, s) = {}
           /\ IF sync'[s].pc = "insert" /\ c \in sync'[s].batch
              THEN \E i \in Nat : Own(verdicts', c, s) = {i} /\ Warrants(s, c, verdicts[c][i].severity)'
              ELSE Own(verdicts', c, s) = {}
  BY DEF OpenBatches, Own, Warrants
<1>0. s \in Tasks /\ s \notin Moderators /\ sync[s] \in SyncState
  BY TasksAssumption DEF Tasks, TypeOK
<1>1. CASE Commits(s) \/ Aborts(s)
  <2>1. sync'[s].pc # "insert"
    BY <1>1, SyncEnds
  <2> QED
    BY <1>0, <1>1, <2>1, OwnRowsEnd
<1>2. CASE Begins(s)
  <2>1. SyncBegin(s) /\ sync[s].pc # "insert"
    BY <1>0, <1>2 DEF Begins, SyncBegin
  <2>2. PICK sev \in [sync[s].batch -> Severity], first \in sync[s].batch : BeginStep(s, sev, first)
    BY <2>1 DEF SyncBegin
  <2>3. Own(actions, c, s) = {} /\ Own(verdicts, c, s) = {}
    BY <2>1 DEF OpenBatches
  <2>4. /\ sync'[s].pc = "insert" /\ sync'[s].batch = sync[s].batch
        /\ sync'[s].toDelete \cap sync'[s].toQuarantine = {}
        /\ sync'[s].toHide \cap (sync'[s].toDelete \cup sync'[s].toQuarantine) = {}
        /\ actions' = WithAutoRows(s, sync'[s].toDelete, sync'[s].toQuarantine, sync'[s].toHide)
        /\ \A d \in sync[s].batch : Warrants(s, d, sev[d])'
    BY <2>2, BeginLists
  <2>5. IF c \in Acted(s)'
        THEN \E i \in Nat : Own(actions', c, s) = {i} /\ actions'[c][i] = SyncRow(s, c)'
        ELSE Own(actions', c, s) = {}
    <3>1. CASE c \notin Acted(s)'
      <4>1. actions'[c] = actions[c]
        BY <2>4, <3>1 DEF Acted, WithAutoRows
      <4> QED
        BY <2>3, <3>1, <4>1 DEF Own
    <3>2. CASE c \in Acted(s)'
      <4> DEFINE i == Len(actions[c]) + 1
      <4>1. actions'[c] = Append(actions[c], SyncRow(s, c)')
        BY <2>4, <3>2 DEF Acted, WithAutoRows, SyncRow
      <4>2. SyncRow(s, c)' \in Row /\ SyncRow(s, c)'.tx = s
        BY <1>0 DEF SyncRow, AutoRow, Row, TxStatus, Kind, Actor
      <4>3. /\ DOMAIN actions'[c] = DOMAIN actions[c] \cup {i} /\ i \in Nat
            /\ \A j \in DOMAIN actions[c] : actions'[c][j] = actions[c][j]
            /\ actions'[c][i] = SyncRow(s, c)'
        BY <4>1, <4>2, EntryTypes
      <4> HIDE DEF i
      <4>4. Own(actions', c, s) = {i}
        BY <2>3, <4>2, <4>3 DEF Own
      <4> QED
        BY <3>2, <4>3, <4>4
    <3> QED
      BY <3>1, <3>2
  <2>6. IF c \in sync[s].batch
        THEN \E i \in Nat : Own(verdicts', c, s) = {i} /\ Warrants(s, c, verdicts[c][i].severity)'
        ELSE Own(verdicts', c, s) = {}
    <3>1. CASE c \notin sync[s].batch
      <4>1. verdicts'[c] = verdicts[c]
        BY <2>2, <3>1 DEF BeginStep
      <4> QED
        BY <2>3, <3>1, <4>1 DEF Own
    <3>2. CASE c \in sync[s].batch
      <4> PICK i \in Nat : i = Len(verdicts[c]) + 1
        BY EntryTypes
      <4> DEFINE f == [severity |-> sev[c], tx |-> s]
      <4>1. verdicts'[c] = Append(verdicts[c], f)
        BY <2>2, <3>2 DEF BeginStep
      <4>2. f \in Finding /\ f.tx = s /\ f.severity = sev[c]
        BY <1>0, <3>2 DEF Finding, TxStatus
      <4> HIDE DEF f
      <4>3. /\ DOMAIN verdicts'[c] = DOMAIN verdicts[c] \cup {i} /\ i \in Nat
            /\ \A j \in DOMAIN verdicts[c] : verdicts'[c][j] = verdicts[c][j]
            /\ verdicts'[c][i] = f
        BY <4>1, <4>2, EntryTypes
      <4>4. Own(verdicts', c, s) = {i}
        BY <2>3, <4>2, <4>3 DEF Own
      <4>5. Warrants(s, c, verdicts[c][i].severity)'
        BY <2>4, <3>2, <4>2, <4>3
      <4> QED
        BY <3>2, <4>3, <4>4, <4>5
    <3> QED
      BY <3>1, <3>2
  <2> QED
    BY <2>4, <2>5, <2>6
<1>3. CASE ~Begins(s) /\ ~Commits(s) /\ ~Aborts(s)
  <2>1. Goes(s)
    BY <1>0, <1>3, RowSteps
  <2>2. /\ sync'[s].pc = "insert" <=> sync[s].pc = "insert"
        /\ sync[s].pc = "insert" =>
             /\ sync'[s].batch = sync[s].batch /\ Acted(s)' = Acted(s)
             /\ SyncRow(s, c)' = SyncRow(s, c)
             /\ \A severity : Warrants(s, c, severity)' <=> Warrants(s, c, severity)
    BY <2>1, SyncGoes DEF Acted, SyncRow, Warrants
  <2>3. /\ Own(actions', c, s) = Own(actions, c, s)
        /\ \A i \in Own(actions, c, s) : actions'[c][i] = actions[c][i]
        /\ Own(verdicts', c, s) = Own(verdicts, c, s)
        /\ \A i \in Own(verdicts, c, s) : verdicts'[c][i] = verdicts[c][i]
    BY <1>0, <1>3, OwnRowsStay
  <2>4. IF sync[s].pc = "insert" /\ c \in Acted(s)
        THEN \E i \in Nat : Own(actions, c, s) = {i} /\ actions[c][i] = SyncRow(s, c)
        ELSE Own(actions, c, s) = {}
    BY DEF OpenBatches
  <2>5. CASE sync[s].pc = "insert" /\ c \in sync[s].batch
    <3>1. PICK i \in Nat : Own(verdicts, c, s) = {i} /\ Warrants(s, c, verdicts[c][i].severity)
      BY <2>5 DEF OpenBatches
    <3>2. Own(verdicts', c, s) = {i} /\ Warrants(s, c, verdicts[c][i].severity)'
      BY <2>2, <2>3, <2>5, <3>1 DEF Warrants
    <3> QED
      BY <2>2, <2>3, <2>4, <2>5, <3>2
  <2>6. CASE ~(sync[s].pc = "insert" /\ c \in sync[s].batch)
    BY <2>2, <2>3, <2>4, <2>6 DEF OpenBatches
  <2> QED
    BY <2>5, <2>6
<1> QED
  BY <1>1, <1>2, <1>3

\* The lists of a batch stay apart.
LEMMA BatchesSplitStep ==
  ASSUME TypeOK, BatchesSplit, [Next]_vars
  PROVE  BatchesSplit'
<1> SUFFICES ASSUME NEW s \in Syncs, sync'[s].pc = "insert"
             PROVE  /\ Acted(s)' \subseteq sync'[s].batch
                    /\ sync'[s].toDelete \cap sync'[s].toQuarantine = {}
                    /\ sync'[s].toHide \cap (sync'[s].toDelete \cup sync'[s].toQuarantine) = {}
  BY DEF BatchesSplit
<1>0. s \in Tasks /\ s \notin Moderators /\ sync[s] \in SyncState
  BY TasksAssumption DEF Tasks, TypeOK
<1>1. CASE Commits(s) \/ Aborts(s)
  BY <1>1, SyncEnds
<1>2. CASE Begins(s)
  <2>1. PICK sev \in [sync[s].batch -> Severity], first \in sync[s].batch : BeginStep(s, sev, first)
    BY <1>0, <1>2 DEF Begins, SyncBegin
  <2> QED
    BY <2>1, BeginLists
<1>3. CASE Goes(s)
  BY <1>3, SyncGoes DEF BatchesSplit, Acted
<1> QED
  BY <1>0, <1>1, <1>2, <1>3, RowSteps

\* What can become of the countdown of one comment in one step.
LEMMA CountdownMoves ==
  ASSUME TypeOK, [Next]_vars, NEW c \in Comments
  PROVE  \/ scheduled'[c] = scheduled[c] /\ missed'[c] = missed[c]
         \/ CountdownEnds(c) /\ scheduled'[c] = "due" /\ missed'[c] = missed[c]
         \/ \E s \in Syncs : /\ SyncCommit(s) /\ c \in sync[s].toQuarantine
                             /\ scheduled'[c] = "waiting"
                             /\ missed'[c] = Looking(c) \cup DecidedBy(c, "human")
         \/ /\ scheduled'[c] = "none" /\ missed'[c] = missed[c]
            /\ \/ \E m \in Moderators : ActionCommit(m) /\ mod[m].holds /\ mod[m].cur = c
               \/ \E w \in Sweepers : SweepPop(w) /\ sweep[w].cur = c
<1>0. scheduled \in [Comments -> {"none", "waiting", "due"}]
  BY DEF TypeOK
<1>1. ASSUME NEW s \in Syncs, SyncStep(s), ~SyncCommit(s) PROVE UNCHANGED <<scheduled, missed>>
  BY <1>1 DEF SyncStep, SyncStart, SyncFetch, SyncFetchFails, SyncReadExisting, SyncBegin,
     SyncInsert, SyncInsertFails, SyncDeadlockFails, SyncRollback, SyncMirrorOk, SyncMirrorFails,
     SyncMark, SyncReturn, SyncCrash, tables
<1>2. ASSUME NEW s \in Syncs, SyncCommit(s), c \in sync[s].toQuarantine
      PROVE  scheduled'[c] = "waiting" /\ missed'[c] = Looking(c) \cup DecidedBy(c, "human")
  BY <1>2 DEF SyncCommit
<1>3. ASSUME NEW s \in Syncs, SyncCommit(s), c \notin sync[s].toQuarantine
      PROVE  scheduled'[c] = scheduled[c] /\ missed'[c] = missed[c]
  BY <1>3 DEF SyncCommit
<1>4. ASSUME NEW m \in Moderators, ModStep(m), ~ActionCommit(m) PROVE UNCHANGED <<scheduled, missed>>
  BY <1>4 DEF ModStep, ActionAdmit, ActionBegin, ActionCancel, ActionCallOk, ActionCallFails,
     ActionCrash, tables
<1>5. ASSUME NEW m \in Moderators, ActionCommit(m)
      PROVE  /\ missed' = missed
             /\ \/ scheduled'[c] = scheduled[c]
                \/ mod[m].holds /\ mod[m].cur = c /\ scheduled'[c] = "none"
  BY <1>0, <1>5 DEF ActionCommit
<1>6. ASSUME NEW w \in Sweepers, SweepStep(w), ~SweepPop(w) PROVE UNCHANGED <<scheduled, missed>>
  BY <1>6 DEF SweepStep, SweepStart, SweepCredential, SweepCallOk, SweepCallFails, SweepRecord,
     SweepReturn, SweepCrash, tables
<1>7. ASSUME NEW w \in Sweepers, SweepPop(w)
      PROVE  /\ missed' = missed
             /\ scheduled'[c] = scheduled[c] \/ (sweep[w].cur = c /\ scheduled'[c] = "none")
  BY <1>0, <1>7 DEF SweepPop
<1>8. ASSUME NEW d \in Comments, CountdownEnds(d)
      PROVE  /\ missed' = missed
             /\ scheduled'[c] = scheduled[c] \/ (CountdownEnds(c) /\ scheduled'[c] = "due")
  BY <1>0, <1>8 DEF CountdownEnds
<1>9. ASSUME \/ ConnectionChanges \/ LicenceChanges \/ UNCHANGED vars
             \/ \E d \in Comments : AuthorRemoves(d)
      PROVE  UNCHANGED <<scheduled, missed>>
  BY <1>9 DEF AuthorRemoves, ConnectionChanges, LicenceChanges, vars, tables
<1>10. CASE \E s \in Syncs : SyncStep(s)
  <2>1. PICK s \in Syncs : SyncStep(s)
    BY <1>10
  <2>2. CASE SyncCommit(s)
    BY <1>2, <1>3, <2>2
  <2> QED
    BY <1>1, <2>1, <2>2
<1>11. CASE \E m \in Moderators : ModStep(m)
  <2>1. PICK m \in Moderators : ModStep(m)
    BY <1>11
  <2>2. CASE ActionCommit(m)
    BY <1>5, <2>2
  <2> QED
    BY <1>4, <2>1, <2>2
<1>12. CASE \E w \in Sweepers : SweepStep(w)
  <2>1. PICK w \in Sweepers : SweepStep(w)
    BY <1>12
  <2>2. CASE SweepPop(w)
    BY <1>7, <2>2
  <2> QED
    BY <1>6, <2>1, <2>2
<1>13. CASE Environment \/ UNCHANGED vars
  BY <1>8, <1>9, <1>13 DEF Environment
<1> QED
  BY <1>10, <1>11, <1>12, <1>13 DEF Next

\* Whose the rows are that become visible.
LEMMA NewVisible ==
  ASSUME TypeOK, OpenActs, OpenBatches, [Next]_vars, NEW c \in Comments,
         NEW i \in Committed(c)' \ Committed(c)
  PROVE  \/ \E s \in Syncs :
              /\ SyncCommit(s) /\ sync[s].pc = "insert" /\ c \in Acted(s)
              /\ Own(actions, c, s) = {i} /\ actions[c][i] = SyncRow(s, c)
              /\ actions'[c][i] = [actions[c][i] EXCEPT !.tx = "committed"]
         \/ \E m \in Moderators :
              /\ ActionCommit(m) /\ mod[m].cur = c /\ HasLooked(m)
              /\ Own(actions, c, m) = {i} /\ actions[c][i] = HumanRow(m)
              /\ actions'[c][i] = [actions[c][i] EXCEPT !.tx = "committed"]
         \/ \E w \in Sweepers : /\ SweepRecord(w) /\ sweep[w].cur = c
                                /\ i = Len(actions[c]) + 1 /\ actions'[c][i] = SweepRow
<1>1. ASSUME NEW t \in Syncs, SyncCommit(t), i \in Own(actions, c, t)
      PROVE  /\ sync[t].pc = "insert" /\ c \in Acted(t)
             /\ Own(actions, c, t) = {i} /\ actions[c][i] = SyncRow(t, c)
  BY <1>1 DEF OpenBatches
<1>2. ASSUME NEW t \in Moderators, ActionCommit(t), i \in Own(actions, c, t)
      PROVE  /\ mod[t].cur = c /\ HasLooked(t)
             /\ Own(actions, c, t) = {i} /\ actions[c][i] = HumanRow(t)
  <2>1. Writing(t, c)
    BY <1>2 DEF OpenActs
  <2>2. HasLooked(t)
    BY <1>2 DEF ActionCommit, HasLooked
  <2> QED
    BY <1>2, <2>1, <2>2 DEF OpenActs, Writing
<1>3. ASSUME NEW t \in Tasks, Commits(t)
      PROVE  (t \in Syncs /\ SyncCommit(t)) \/ (t \in Moderators /\ ActionCommit(t))
  BY <1>3 DEF Commits
<1> QED
  BY <1>1, <1>2, <1>3, VisibleStay

\* No two transactions start the same countdown, and none one that stands.
LEMMA InsertsApartStep ==
  ASSUME TypeOK, BatchesSplit, InsertsApart, [Next]_vars
  PROVE  InsertsApart'
<1>1. ASSUME NEW s \in Syncs, NEW c \in Comments, Starts(s, c)'
      PROVE  \/ Starts(s, c) /\ ~SyncCommit(s)
             \/ /\ SyncInsert(s) /\ c = sync[s].cur /\ c \in sync[s].todo
                /\ sync[s].pc = "insert" /\ c \in sync[s].toQuarantine
  <2>1. sync'[s].pc = "insert" /\ c \in sync'[s].batch \ sync'[s].todo /\ c \in sync'[s].toQuarantine
    BY <1>1 DEF Starts, Inserted
  <2>2. s \in Tasks /\ s \notin Moderators
    BY TasksAssumption DEF Tasks
  <2>3. CASE Commits(s) \/ Aborts(s)
    BY <2>1, <2>3, SyncEnds
  <2>4. CASE Begins(s)
    <3>1. PICK sev \in [sync[s].batch -> Severity], first \in sync[s].batch : BeginStep(s, sev, first)
      BY <2>2, <2>4 DEF Begins, SyncBegin
    <3>2. sync'[s].todo = sync'[s].batch
      BY <3>1, BeginLists
    <3> QED
      BY <2>1, <3>2
  <2>5. CASE Goes(s) /\ ~Commits(s)
    <3>1. ~SyncCommit(s)
      BY <2>5 DEF Commits
    <3> QED
      BY <2>1, <2>5, <3>1, SyncGoes DEF Starts, Inserted
  <2> QED
    BY <2>2, <2>3, <2>4, <2>5, RowSteps
<1>2. ASSUME NEW s \in Syncs, SyncCommit(s), NEW c \in sync[s].toQuarantine PROVE Starts(s, c)
  BY <1>2 DEF SyncCommit, Starts, Inserted, BatchesSplit, Acted
<1>3. ASSUME NEW s \in Syncs, NEW c \in Comments, Starts(s, c)' PROVE scheduled'[c] = "none"
  <2>1. scheduled[c] = "none"
    BY <1>1, <1>3 DEF InsertsApart, SyncInsert
  <2>2. ASSUME NEW t \in Syncs, SyncCommit(t), c \in sync[t].toQuarantine PROVE FALSE
    <3>1. Starts(t, c)
      BY <1>2, <2>2
    <3>2. CASE Starts(s, c) /\ ~SyncCommit(s)
      BY <2>2, <3>1, <3>2 DEF InsertsApart
    <3>3. CASE SyncInsert(s)
      <4>1. sync'[t] = sync[t] \/ t = s
        BY <3>3 DEF SyncInsert, TypeOK
      <4>2. sync[s].todo # {} /\ sync[t].todo = {}
        BY <2>2, <3>3 DEF SyncInsert, SyncCommit
      <4> QED
        BY <2>2, <4>1, <4>2, SyncEnds DEF Commits, SyncCommit
    <3> QED
      BY <1>1, <1>3, <3>2, <3>3
  <2> QED
    BY <2>1, <2>2, CountdownMoves DEF CountdownEnds
<1>4. ASSUME NEW s \in Syncs, NEW t \in Syncs, NEW c \in Comments, Starts(s, c)', Starts(t, c)', s # t
      PROVE  FALSE
  <2>1. ASSUME NEW a \in Syncs, NEW b \in Syncs, a # b, Starts(a, c), SyncInsert(b), c = sync[b].cur,
               c \in sync[b].todo, sync[b].pc = "insert", c \in sync[b].toQuarantine
        PROVE  FALSE
    BY <2>1 DEF SyncInsert, InsertWaits, Blocks, Starts
  <2>2. ASSUME SyncInsert(s), SyncInsert(t) PROVE FALSE
    <3>1. sync'[t] = sync[t]
      BY <1>4, <2>2 DEF SyncInsert, TypeOK
    <3>2. Starts(t, c)
      BY <1>4, <3>1 DEF Starts, Inserted
    <3> QED
      BY <1>1, <1>4, <2>1, <3>2 DEF InsertsApart
  <2> QED
    BY <1>1, <1>4, <2>1, <2>2 DEF InsertsApart
<1> QED
  BY <1>3, <1>4 DEF InsertsApart

\* How the lists of a sync that mirrors come about, and shrink.
LEMMA ListMoves ==
  ASSUME TypeOK, [Next]_vars, NEW s \in Syncs, sync'[s].pc \in {"mirror", "mark"}
  PROVE  /\ SyncCommit(s) \/ sync[s].pc \in {"mirror", "mark"}
         /\ sync'[s].toDelete \subseteq sync[s].toDelete
         /\ sync'[s].toQuarantine \subseteq sync[s].toQuarantine
         /\ sync'[s].toHide \subseteq sync[s].toHide
         /\ sync'[s].pc = "mark" =>
              \/ sync'[s] = sync[s]
              \/ \E c \in Comments, kind \in {"DELETE", "HIDE"} :
                   GraphAccepts(c, kind, "sync") /\ sync'[s].cur = c /\ sync'[s].kind = kind
<1>0. sync \in [Syncs -> SyncState] /\ sync[s] \in SyncState /\ IdleSync \in SyncState
  BY IdleTypes DEF TypeOK
<1>1. CASE sync'[s] = sync[s]
  BY <1>1
<1>2. CASE SyncStep(s)
  <2>1. CASE SyncStart(s)
    <3>1. PICK p \in Policies : sync' = [sync EXCEPT ![s] = [IdleSync EXCEPT !.pc = "fetch", !.policy = p]]
      BY <2>1 DEF SyncStart
    <3> QED
      BY <1>0, <3>1 DEF IdleSync
  <2>2. CASE SyncFetch(s)
    BY <1>0, <2>2 DEF SyncFetch, SyncState
  <2>3. CASE SyncFetchFails(s) \/ SyncRollback(s) \/ SyncReturn(s)
    <3>1. sync'[s] = IdleSync
      BY <1>0, <2>3 DEF SyncFetchFails, SyncRollback, SyncReturn
    <3> QED
      BY <3>1 DEF IdleSync
  <2>4. CASE SyncReadExisting(s)
    <3>1. sync'[s] = IdleSync \/ sync'[s].pc = "ingest"
      BY <1>0, <2>4 DEF SyncReadExisting, SyncState
    <3> QED
      BY <3>1 DEF IdleSync
  <2>5. CASE SyncBegin(s)
    BY <2>5, BeginLists DEF SyncBegin
  <2>6. CASE SyncInsert(s)
    BY <1>0, <2>6 DEF SyncInsert, SyncState
  <2>7. CASE SyncCommit(s)
    BY <1>0, <2>7 DEF SyncCommit, SyncState
  <2>8. CASE SyncMirrorOk(s)
    <3>1. PICK c \in Comments, kind \in {"DELETE", "HIDE"} :
            /\ MirrorNext(s, c, kind) /\ GraphAccepts(c, kind, "sync")
            /\ sync' = [sync EXCEPT ![s] = [Struck(sync[s], c) EXCEPT !.pc = "mark", !.cur = c, !.kind = kind]]
      BY <2>8 DEF SyncMirrorOk
    <3>2. /\ sync'[s].cur = c /\ sync'[s].kind = kind
          /\ sync'[s].toDelete = sync[s].toDelete \ {c}
          /\ sync'[s].toQuarantine = sync[s].toQuarantine \ {c}
          /\ sync'[s].toHide = sync[s].toHide \ {c}
      BY <1>0, <3>1 DEF Struck, SyncState
    <3> QED
      BY <3>1, <3>2 DEF MirrorNext
  <2>9. CASE SyncMirrorFails(s)
    <3>1. PICK c \in Comments, kind \in {"DELETE", "HIDE"} :
            MirrorNext(s, c, kind) /\ sync' = [sync EXCEPT ![s] = Struck(sync[s], c)]
      BY <2>9 DEF SyncMirrorFails
    <3>2. /\ sync'[s].pc = "mirror"
          /\ sync'[s].toDelete = sync[s].toDelete \ {c}
          /\ sync'[s].toQuarantine = sync[s].toQuarantine \ {c}
          /\ sync'[s].toHide = sync[s].toHide \ {c}
      BY <1>0, <3>1 DEF Struck, SyncState, MirrorNext
    <3> QED
      BY <3>1, <3>2 DEF MirrorNext
  <2>10. CASE SyncMark(s)
    BY <1>0, <2>10 DEF SyncMark, SyncState
  <2> QED
    BY <1>2, <2>1, <2>2, <2>3, <2>4, <2>5, <2>6, <2>7, <2>8, <2>9, <2>10
    DEF SyncStep, SyncInsertFails, SyncDeadlockFails, SyncCrash
<1>3. ASSUME NEW t \in Syncs \ {s}, SyncStep(t) PROVE sync'[s] = sync[s]
  BY <1>0, <1>3 DEF SyncStep, SyncStart, SyncFetch, SyncFetchFails, SyncReadExisting, SyncBegin, BeginStep,
     SyncInsert, SyncInsertFails, SyncDeadlockFails, SyncRollback, SyncCommit, SyncMirrorOk, SyncMirrorFails,
     SyncMark, SyncReturn, SyncCrash
<1>4. ASSUME \/ \E m \in Moderators : ModStep(m)
             \/ \E w \in Sweepers : SweepStep(w)
             \/ Environment \/ UNCHANGED vars
      PROVE  sync'[s] = sync[s]
  BY <1>4 DEF ModStep, ActionAdmit, ActionBegin, ActionCancel, ActionCallOk, ActionCallFails,
     ActionCommit, ActionCrash, SweepStep, SweepStart, SweepCredential, SweepCallOk, SweepCallFails,
     SweepRecord, SweepPop, SweepReturn, SweepCrash, Environment, CountdownEnds, AuthorRemoves,
     ConnectionChanges, LicenceChanges, vars
<1> QED
  BY <1>1, <1>2, <1>3, <1>4 DEF Next

\* What a sweep has on its list, and where it is.
LEMMA SweepMoves ==
  ASSUME TypeOK, [Next]_vars, NEW w \in Sweepers
  PROVE  /\ sweep'[w].due \subseteq sweep[w].due \cup {c \in Comments : scheduled[c] = "due"}
         /\ sweep'[w].cur \in {sweep[w].cur, None} \cup sweep[w].due
         /\ sweep'[w].pc = "pop" =>
              sweep'[w].cur = sweep[w].cur /\ (sweep[w].pc = "pop" \/ SweepRecord(w))
         /\ sweep'[w].pc = "record" =>
              /\ sweep'[w].cur = sweep[w].cur
              /\ \/ sweep[w].pc = "record"
                 \/ GraphAccepts(sweep[w].cur, "DELETE", "sweep")
<1>0. sweep \in [Sweepers -> SweepState] /\ sweep[w] \in SweepState
  BY DEF TypeOK
<1>1. CASE sweep'[w] = sweep[w]
  BY <1>1
<1>2. CASE SweepStep(w)
  <2>1. CASE SweepStart(w)
    BY <1>0, <2>1 DEF SweepStart, SweepState
  <2>2. CASE SweepCredential(w)
    BY <1>0, <2>2 DEF SweepCredential, SweepState
  <2>3. CASE SweepCallOk(w)
    BY <1>0, <2>3 DEF SweepCallOk, SweepState
  <2>4. CASE SweepCallFails(w)
    BY <1>0, <2>4 DEF SweepCallFails, SweepState, NextDue
  <2>5. CASE SweepRecord(w)
    BY <1>0, <2>5 DEF SweepRecord, SweepState
  <2>6. CASE SweepPop(w)
    BY <1>0, <2>6 DEF SweepPop, SweepState, NextDue
  <2>7. CASE SweepReturn(w) \/ SweepCrash(w)
    BY <1>0, <2>7 DEF SweepReturn, SweepCrash, IdleSweep
  <2> QED
    BY <1>2, <2>1, <2>2, <2>3, <2>4, <2>5, <2>6, <2>7 DEF SweepStep
<1>3. ASSUME NEW v \in Sweepers \ {w}, SweepStep(v) PROVE sweep'[w] = sweep[w]
  BY <1>0, <1>3 DEF SweepStep, SweepStart, SweepCredential, SweepCallOk, SweepCallFails, SweepRecord,
     SweepPop, SweepReturn, SweepCrash
<1>4. ASSUME \/ \E m \in Moderators : ModStep(m)
             \/ \E s \in Syncs : SyncStep(s)
             \/ Environment \/ UNCHANGED vars
      PROVE  sweep'[w] = sweep[w]
  BY <1>4 DEF ModStep, ActionAdmit, ActionBegin, ActionCancel, ActionCallOk, ActionCallFails,
     ActionCommit, ActionCrash, SyncStep, SyncStart, SyncFetch, SyncFetchFails, SyncReadExisting,
     SyncBegin, SyncInsert, SyncInsertFails, SyncDeadlockFails, SyncRollback, SyncCommit,
     SyncMirrorOk, SyncMirrorFails, SyncMark, SyncReturn, SyncCrash,
     Environment, CountdownEnds, AuthorRemoves, ConnectionChanges, LicenceChanges, vars
<1> QED
  BY <1>1, <1>2, <1>3, <1>4 DEF Next

\* What the calls to Facebook add to the history of effects.
LEMMA GraphMoves ==
  ASSUME NEW c, NEW kind, NEW who
  PROVE  /\ GraphAccepts(c, kind, who) => effects' = effects \cup {<<c, who, kind>>}
         /\ GraphFails(c, kind, who) => effects' \in {effects, effects \cup {<<c, who, kind>>}}
BY DEF GraphAccepts, GraphFails, GraphDoes, GraphRefuses

\* Who is calling when an effect is added.
LEMMA EffectMoves ==
  ASSUME TypeOK, [Next]_vars
  PROVE  \/ effects' = effects
         \/ \E s \in Syncs, c \in Comments, kind \in {"DELETE", "HIDE"} :
              MirrorNext(s, c, kind) /\ effects' = effects \cup {<<c, "sync", kind>>}
         \/ \E m \in Moderators : effects' = effects \cup {<<mod[m].cur, "human", mod[m].kind>>}
         \/ \E w \in Sweepers :
              sweep[w].pc = "call" /\ effects' = effects \cup {<<sweep[w].cur, "sweep", "DELETE">>}
<1>1. ASSUME NEW s \in Syncs, SyncStep(s)
      PROVE  \/ effects' = effects
             \/ \E c \in Comments, kind \in {"DELETE", "HIDE"} :
                  MirrorNext(s, c, kind) /\ effects' = effects \cup {<<c, "sync", kind>>}
  <2>1. CASE SyncMirrorOk(s) \/ SyncMirrorFails(s)
    <3>1. PICK c \in Comments, kind \in {"DELETE", "HIDE"} :
            MirrorNext(s, c, kind) /\ (GraphAccepts(c, kind, "sync") \/ GraphFails(c, kind, "sync"))
      BY <2>1 DEF SyncMirrorOk, SyncMirrorFails
    <3>2. effects' \in {effects, effects \cup {<<c, "sync", kind>>}}
      BY <3>1, GraphMoves
    <3> QED
      BY <3>1, <3>2
  <2>2. CASE ~(SyncMirrorOk(s) \/ SyncMirrorFails(s))
    BY <1>1, <2>2 DEF SyncStep, SyncStart, SyncFetch, SyncFetchFails, SyncReadExisting,
       SyncBegin, SyncInsert, SyncInsertFails, SyncDeadlockFails, SyncRollback, SyncCommit,
       SyncMark, SyncReturn, SyncCrash
  <2> QED
    BY <2>1, <2>2
<1>2. ASSUME NEW m \in Moderators, ModStep(m)
      PROVE  effects' = effects \/ effects' = effects \cup {<<mod[m].cur, "human", mod[m].kind>>}
  <2>1. CASE ActionCallOk(m) \/ ActionCallFails(m)
    <3>1. \/ GraphAccepts(mod[m].cur, mod[m].kind, "human")
          \/ GraphFails(mod[m].cur, mod[m].kind, "human")
      BY <2>1 DEF ActionCallOk, ActionCallFails
    <3> QED
      BY <3>1, GraphMoves
  <2>2. CASE ~(ActionCallOk(m) \/ ActionCallFails(m))
    BY <1>2, <2>2 DEF ModStep, ActionAdmit, ActionBegin, ActionCancel, ActionCommit, ActionCrash
  <2> QED
    BY <2>1, <2>2
<1>3. ASSUME NEW w \in Sweepers, SweepStep(w)
      PROVE  \/ effects' = effects
             \/ sweep[w].pc = "call" /\ effects' = effects \cup {<<sweep[w].cur, "sweep", "DELETE">>}
  <2>1. CASE SweepCallOk(w) \/ SweepCallFails(w)
    <3>1. /\ sweep[w].pc = "call"
          /\ \/ GraphAccepts(sweep[w].cur, "DELETE", "sweep")
             \/ GraphFails(sweep[w].cur, "DELETE", "sweep")
      BY <2>1 DEF SweepCallOk, SweepCallFails
    <3> QED
      BY <3>1, GraphMoves
  <2>2. CASE ~(SweepCallOk(w) \/ SweepCallFails(w))
    BY <1>3, <2>2 DEF SweepStep, SweepStart, SweepCredential, SweepRecord, SweepPop, SweepReturn, SweepCrash
  <2> QED
    BY <2>1, <2>2
<1>4. Environment \/ UNCHANGED vars => effects' = effects
  BY DEF Environment, CountdownEnds, AuthorRemoves, ConnectionChanges, LicenceChanges, vars
<1> QED
  BY <1>1, <1>2, <1>3, <1>4 DEF Next

\* The automatic rows of a batch are on record once it is committed.
LEMMA BatchRecorded ==
  ASSUME TypeOK, OpenBatches, BatchesSplit, [Next]_vars, NEW s \in Syncs, SyncCommit(s), NEW c \in Comments
  PROVE  /\ c \in sync[s].toDelete => HasRow(c, "DELETE", "auto-removal")'
         /\ c \in sync[s].toQuarantine => HasRow(c, "HIDE", "auto-removal")'
         /\ c \in sync[s].toHide => HasRow(c, "HIDE", "auto-hide")'
<1>1. CASE c \in Acted(s)
  <2>1. PICK i \in Nat : Own(actions, c, s) = {i} /\ actions[c][i] = SyncRow(s, c)
    BY <1>1 DEF OpenBatches, SyncCommit
  <2>2. i \in DOMAIN actions[c] /\ actions[c][i].tx = s /\ actions[c][i] \in Row
    BY <2>1, EntryTypes DEF Own
  <2>3. i \in DOMAIN actions'[c] /\ actions'[c][i] = [actions[c][i] EXCEPT !.tx = "committed"]
    BY <2>2 DEF SyncCommit, Published
  <2>4. /\ actions'[c][i].tx = "committed" /\ actions'[c][i].kind = actions[c][i].kind
        /\ actions'[c][i].actor = actions[c][i].actor
    BY <2>2, <2>3, FieldUpdates
  <2>5. i \in Committed(c)'
    BY <2>3, <2>4 DEF Committed, VisibleRows
  <2>6. /\ c \in sync[s].toDelete => actions[c][i].kind = "DELETE" /\ actions[c][i].actor = "auto-removal"
        /\ c \in sync[s].toQuarantine => actions[c][i].kind = "HIDE" /\ actions[c][i].actor = "auto-removal"
        /\ c \in sync[s].toHide => actions[c][i].kind = "HIDE" /\ actions[c][i].actor = "auto-hide"
    BY <2>1 DEF SyncRow, AutoRow, BatchesSplit, SyncCommit
  <2> QED
    BY <2>4, <2>5, <2>6 DEF HasRow
<1>2. CASE c \notin Acted(s)
  BY <1>2 DEF Acted
<1> QED
  BY <1>1, <1>2

\* What a sweep has recorded is on record.
LEMMA SweepRecorded ==
  ASSUME TypeOK, NEW w \in Sweepers, SweepRecord(w), NEW c \in Comments, sweep[w].cur = c
  PROVE  HasRow(c, "DELETE", "auto-removal")'
<1>1. actions'[c] = Append(actions[c], SweepRow) /\ SweepRow \in Row
  BY RowTypes DEF SweepRecord, SweepRow, TypeOK
<1>2. /\ DOMAIN actions'[c] = DOMAIN actions[c] \cup {Len(actions[c]) + 1}
      /\ actions'[c][Len(actions[c]) + 1] = SweepRow
  BY <1>1, EntryTypes
<1> QED
  BY <1>2, FieldUpdates DEF HasRow, Committed, VisibleRows

\* Once recorded an automatic decision stays on record, so whoever works from a list has its row.
LEMMA ListsDecidedStep ==
  ASSUME TypeOK, OpenBatches, BatchesSplit, ListsDecided, [Next]_vars
  PROVE  ListsDecided'
<1>0. \A c \in Comments : \A kind, actor : HasRow(c, kind, actor) => HasRow(c, kind, actor)'
  BY VisibleStay
<1>1. ASSUME NEW s \in Syncs, NEW c \in Comments, sync'[s].pc \in {"mirror", "mark"}
      PROVE  /\ c \in sync'[s].toDelete => HasRow(c, "DELETE", "auto-removal")'
             /\ c \in sync'[s].toQuarantine => HasRow(c, "HIDE", "auto-removal")'
             /\ c \in sync'[s].toHide => HasRow(c, "HIDE", "auto-hide")'
  <2>1. CASE SyncCommit(s)
    BY <1>1, <2>1, ListMoves, BatchRecorded
  <2>2. CASE sync[s].pc \in {"mirror", "mark"}
    BY <1>0, <1>1, <2>2, ListMoves DEF ListsDecided
  <2> QED
    BY <1>1, <2>1, <2>2, ListMoves
<1>2. ASSUME NEW c \in Comments, scheduled'[c] # "none" PROVE HasRow(c, "HIDE", "auto-removal")'
  <2>1. ASSUME scheduled[c] # "none" PROVE HasRow(c, "HIDE", "auto-removal")'
    BY <1>0, <2>1 DEF ListsDecided
  <2>2. ASSUME NEW s \in Syncs, SyncCommit(s), c \in sync[s].toQuarantine
        PROVE  HasRow(c, "HIDE", "auto-removal")'
    BY <2>2, BatchRecorded
  <2> QED
    BY <1>2, <2>1, <2>2, CountdownMoves DEF CountdownEnds
<1>3. ASSUME NEW w \in Sweepers, NEW c \in Comments, c \in sweep'[w].due \/ c = sweep'[w].cur
      PROVE  HasRow(c, "HIDE", "auto-removal")'
  <2>1. c \in sweep[w].due \/ c = sweep[w].cur \/ scheduled[c] = "due"
    BY <1>3, SweepMoves, NoneAssumption
  <2> QED
    BY <1>0, <2>1 DEF ListsDecided
<1>4. ASSUME NEW w \in Sweepers, NEW c \in Comments, sweep'[w].pc = "pop", c = sweep'[w].cur
      PROVE  HasRow(c, "DELETE", "auto-removal")'
  <2>1. c = sweep[w].cur /\ (sweep[w].pc = "pop" \/ SweepRecord(w))
    BY <1>4, SweepMoves
  <2>2. CASE sweep[w].pc = "pop"
    BY <1>0, <2>1, <2>2 DEF ListsDecided
  <2>3. CASE SweepRecord(w)
    BY <2>1, <2>3, SweepRecorded
  <2> QED
    BY <2>1, <2>2, <2>3
<1> QED
  BY <1>1, <1>2, <1>3, <1>4 DEF ListsDecided

\* The verdict that allowed an automatic row stays visible.
LEMMA RowsJustifiedStep ==
  ASSUME TypeOK, OpenActs, OpenBatches, BatchesSplit, ListsDecided, RowsJustified, [Next]_vars
  PROVE  RowsJustified'
<1> SUFFICES ASSUME NEW c \in Comments, NEW i \in Committed(c)'
             PROVE  /\ actions'[c][i].actor = "auto-removal" => AutoRemovalEnabled /\ Harmful(c)'
                    /\ actions'[c][i].actor = "auto-hide" => "OFFENSIVE" \in Found(c)'
  BY DEF RowsJustified
<1>0. Found(c) \subseteq Found(c)'
  BY FoundStays
<1>1. CASE i \in Committed(c)
  <2>1. actions[c][i] \in Row
    BY <1>1, EntryTypes DEF Committed, VisibleRows
  <2>2. actions'[c][i] \in {actions[c][i], [actions[c][i] EXCEPT !.applied = TRUE]}
    BY <1>1, VisibleStay
  <2>3. actions'[c][i].actor = actions[c][i].actor
    BY <2>1, <2>2, FieldUpdates
  <2> QED
    BY <1>0, <1>1, <2>3 DEF RowsJustified, Harmful
<1>2. ASSUME i \notin Committed(c), NEW s \in Syncs, SyncCommit(s), sync[s].pc = "insert", c \in Acted(s),
             Own(actions, c, s) = {i}, actions[c][i] = SyncRow(s, c),
             actions'[c][i] = [actions[c][i] EXCEPT !.tx = "committed"]
      PROVE  /\ actions'[c][i].actor = "auto-removal" => AutoRemovalEnabled /\ Harmful(c)'
             /\ actions'[c][i].actor = "auto-hide" => "OFFENSIVE" \in Found(c)'
  <2>1. actions[c][i] \in Row
    BY <1>2, EntryTypes DEF Own
  <2>2. actions'[c][i].actor = SyncRow(s, c).actor
    BY <1>2, <2>1, FieldUpdates
  <2>3. c \in sync[s].batch
    BY <1>2 DEF BatchesSplit
  <2>4. PICK j \in Nat : Own(verdicts, c, s) = {j} /\ Warrants(s, c, verdicts[c][j].severity)
    BY <1>2, <2>3 DEF OpenBatches
  <2>5. j \in DOMAIN verdicts[c] /\ verdicts[c][j].tx = s /\ verdicts[c][j] \in Finding
    BY <2>4, EntryTypes DEF Own
  <2>6. j \in DOMAIN verdicts'[c] /\ verdicts'[c][j] = [verdicts[c][j] EXCEPT !.tx = "committed"]
    BY <1>2, <2>5 DEF SyncCommit, Published
  <2>7. verdicts[c][j].severity \in Found(c)'
    <3>1. verdicts'[c][j].tx = "committed" /\ verdicts'[c][j].severity = verdicts[c][j].severity
      BY <2>5, <2>6, FieldUpdates
    <3> QED
      BY <2>6, <3>1 DEF Found, VisibleRows
  <2>8. /\ SyncRow(s, c).actor = "auto-removal" => c \in sync[s].toDelete \cup sync[s].toQuarantine
        /\ SyncRow(s, c).actor = "auto-hide" => c \in sync[s].toHide
    BY <1>2 DEF SyncRow, AutoRow, Acted
  <2> QED
    BY <2>2, <2>4, <2>7, <2>8 DEF Warrants, AutoRemovable, Harmful
<1>3. ASSUME NEW m \in Moderators, Own(actions, c, m) = {i}, actions[c][i] = HumanRow(m),
             actions'[c][i] = [actions[c][i] EXCEPT !.tx = "committed"]
      PROVE  actions'[c][i].actor = "human"
  <2>1. actions[c][i] \in Row
    BY <1>3, EntryTypes DEF Own
  <2> QED
    BY <1>3, <2>1, FieldUpdates
<1>4. ASSUME NEW w \in Sweepers, SweepRecord(w), sweep[w].cur = c, actions'[c][i] = SweepRow
      PROVE  AutoRemovalEnabled /\ Harmful(c)' /\ actions'[c][i].actor # "auto-hide"
  <2>1. HasRow(c, "HIDE", "auto-removal")
    BY <1>4 DEF ListsDecided
  <2> QED
    BY <1>0, <1>4, <2>1, FieldUpdates DEF HasRow, RowsJustified, Harmful
<1>5. CASE i \notin Committed(c)
  <2>1. CASE \E s \in Syncs :
               /\ SyncCommit(s) /\ sync[s].pc = "insert" /\ c \in Acted(s)
               /\ Own(actions, c, s) = {i} /\ actions[c][i] = SyncRow(s, c)
               /\ actions'[c][i] = [actions[c][i] EXCEPT !.tx = "committed"]
    BY <1>2, <1>5, <2>1
  <2>2. CASE \E m \in Moderators :
               /\ ActionCommit(m) /\ mod[m].cur = c /\ HasLooked(m)
               /\ Own(actions, c, m) = {i} /\ actions[c][i] = HumanRow(m)
               /\ actions'[c][i] = [actions[c][i] EXCEPT !.tx = "committed"]
    BY <1>3, <2>2
  <2>3. CASE \E w \in Sweepers : /\ SweepRecord(w) /\ sweep[w].cur = c
                                 /\ i = Len(actions[c]) + 1 /\ actions'[c][i] = SweepRow
    BY <1>4, <2>3
  <2>4. i \in Committed(c)' \ Committed(c)
    BY <1>5
  <2> QED
    BY <2>1, <2>2, <2>3, <2>4, NewVisible
<1> QED
  BY <1>1, <1>5

\* Nothing that was done to a comment is forgotten.
LEMMA EffectsGrow == TypeOK /\ [Next]_vars => effects \subseteq effects'
BY EffectMoves

\* An answer comes with its effect, and effects are not forgotten.
LEMMA AnswersTrueStep ==
  ASSUME TypeOK, AnswersTrue, [Next]_vars
  PROVE  AnswersTrue'
<1>0. effects \subseteq effects'
  BY EffectsGrow
<1>1. ASSUME NEW s \in Syncs, sync'[s].pc = "mark"
      PROVE  <<sync'[s].cur, "sync", sync'[s].kind>> \in effects'
  <2>1. CASE sync'[s] = sync[s]
    BY <1>0, <1>1, <2>1 DEF AnswersTrue
  <2>2. ASSUME NEW c \in Comments, NEW kind \in {"DELETE", "HIDE"},
               GraphAccepts(c, kind, "sync"), sync'[s].cur = c, sync'[s].kind = kind
        PROVE  <<sync'[s].cur, "sync", sync'[s].kind>> \in effects'
    BY <2>2, GraphMoves
  <2> QED
    BY <1>1, <2>1, <2>2, ListMoves
<1>2. ASSUME NEW m \in Moderators, mod'[m].pc = "answered"
      PROVE  <<mod'[m].cur, "human", mod'[m].kind>> \in effects'
  <2>0. m \in Tasks /\ m \notin Syncs /\ mod \in [Moderators -> ModState]
    BY TasksAssumption DEF Tasks, TypeOK
  <2>1. CASE mod'[m] = mod[m]
    BY <1>0, <1>2, <2>1 DEF AnswersTrue
  <2>2. CASE ActionCallOk(m)
    <3>1. mod'[m].cur = mod[m].cur /\ mod'[m].kind = mod[m].kind
      BY <2>0, <2>2 DEF ActionCallOk, ModState
    <3> QED
      BY <2>2, <3>1, GraphMoves DEF ActionCallOk
  <2>3. mod'[m].pc = "answered" => mod'[m] = mod[m] \/ ActionCallOk(m)
    <3>1. CASE Begins(m)
      BY <2>0, <3>1 DEF Begins, ActionBegin, ModState
    <3>2. CASE Commits(m) \/ Aborts(m)
      BY <2>0, <3>2 DEF Commits, Aborts, ActionCommit, ActionUndone, IdleMod
    <3>3. CASE ActionAdmit(m)
      <4>1. PICK c, kind : mod' = [mod EXCEPT ![m] = [IdleMod EXCEPT !.pc = "admitted", !.cur = c,
                    !.kind = kind, !.mirror = connected /\ kind \in Mirrored]]
        BY <3>3 DEF ActionAdmit
      <4> QED
        BY <2>0, <4>1 DEF IdleMod
    <3>4. CASE ActionCancel(m)
      BY <2>0, <3>4 DEF ActionCancel, ModState
    <3> QED
      BY <2>0, <3>1, <3>2, <3>3, <3>4, RowSteps DEF Goes
  <2> QED
    BY <1>2, <2>1, <2>2, <2>3
<1>3. ASSUME NEW w \in Sweepers, sweep'[w].pc = "record"
      PROVE  <<sweep'[w].cur, "sweep", "DELETE">> \in effects'
  <2>1. CASE sweep[w].pc = "record" /\ sweep'[w].cur = sweep[w].cur
    BY <1>0, <2>1 DEF AnswersTrue
  <2>2. CASE GraphAccepts(sweep[w].cur, "DELETE", "sweep") /\ sweep'[w].cur = sweep[w].cur
    BY <2>2, GraphMoves
  <2> QED
    BY <1>3, <2>1, <2>2, SweepMoves
<1> QED
  BY <1>1, <1>2, <1>3 DEF AnswersTrue

\* Only what has its automatic row is asked of Facebook.
LEMMA ExplainedStep ==
  ASSUME TypeOK, ListsDecided, AutomationExplained, [Next]_vars
  PROVE  AutomationExplained'
<1> SUFFICES ASSUME NEW c \in Comments
    PROVE  /\ <<c, "sync", "DELETE">> \in effects' => HasRow(c, "DELETE", "auto-removal")'
           /\ <<c, "sync", "HIDE">> \in effects' =>
                HasRow(c, "HIDE", "auto-removal")' \/ HasRow(c, "HIDE", "auto-hide")'
           /\ <<c, "sweep", "DELETE">> \in effects' => HasRow(c, "HIDE", "auto-removal")'
  BY DEF AutomationExplained
<1>0. \A kind, actor : HasRow(c, kind, actor) => HasRow(c, kind, actor)'
  BY VisibleStay
<1>1. CASE effects' = effects
  BY <1>0, <1>1 DEF AutomationExplained
<1>2. ASSUME NEW s \in Syncs, NEW d \in Comments, NEW kind \in {"DELETE", "HIDE"},
             MirrorNext(s, d, kind), effects' = effects \cup {<<d, "sync", kind>>}
      PROVE  /\ <<c, "sync", "DELETE">> \in effects' => HasRow(c, "DELETE", "auto-removal")'
             /\ <<c, "sync", "HIDE">> \in effects' =>
                  HasRow(c, "HIDE", "auto-removal")' \/ HasRow(c, "HIDE", "auto-hide")'
             /\ <<c, "sweep", "DELETE">> \in effects' => HasRow(c, "HIDE", "auto-removal")'
  <2>1. /\ kind = "DELETE" => HasRow(d, "DELETE", "auto-removal")
        /\ kind = "HIDE" => HasRow(d, "HIDE", "auto-removal") \/ HasRow(d, "HIDE", "auto-hide")
    BY <1>2 DEF MirrorNext, ListsDecided
  <2>2. \A who, k : <<c, who, k>> \in effects' =>
          <<c, who, k>> \in effects \/ (c = d /\ who = "sync" /\ k = kind)
    BY <1>2
  <2> QED
    BY <1>0, <2>1, <2>2 DEF AutomationExplained
<1>3. ASSUME NEW m \in Moderators, effects' = effects \cup {<<mod[m].cur, "human", mod[m].kind>>}
      PROVE  \A who \in {"sync", "sweep"} : \A k : <<c, who, k>> \in effects' => <<c, who, k>> \in effects
  BY <1>3
<1>4. ASSUME NEW w \in Sweepers, effects' = effects \cup {<<sweep[w].cur, "sweep", "DELETE">>}
      PROVE  \A who \in {"sync", "sweep"} : \A k : <<c, who, k>> \in effects' =>
               <<c, who, k>> \in effects \/ (who = "sweep" /\ k = "DELETE" /\ HasRow(c, "HIDE", "auto-removal"))
  BY <1>4 DEF ListsDecided
<1>5. CASE \E m \in Moderators : effects' = effects \cup {<<mod[m].cur, "human", mod[m].kind>>}
  BY <1>0, <1>3, <1>5 DEF AutomationExplained
<1>6. CASE \E w \in Sweepers : effects' = effects \cup {<<sweep[w].cur, "sweep", "DELETE">>}
  BY <1>0, <1>4, <1>6 DEF AutomationExplained
<1> QED
  BY <1>1, <1>2, <1>5, <1>6, EffectMoves

\* Who has missed a countdown goes on having looked, until their transaction ends.
LEMMA MissedLookedStep ==
  ASSUME TypeOK, OpenActs, MissedLooked, [Next]_vars
  PROVE  MissedLooked'
<1> SUFFICES ASSUME NEW c \in Comments, NEW i \in missed'[c]
             PROVE  /\ i \in DOMAIN actions'[c] /\ actions'[c][i].tx \notin Syncs
                    /\ (actions[c][i].tx \in Moderators => HasLooked(actions[c][i].tx))'
  BY DEF MissedLooked
<1>0. /\ \A t \in Tasks : t \notin {"committed", "aborted"}
      /\ Syncs \subseteq Tasks /\ Moderators \subseteq Tasks /\ Syncs \cap Moderators = {}
  BY TasksAssumption DEF Tasks
<1>1. /\ i \in DOMAIN actions[c] /\ actions[c][i].tx \notin Syncs
      /\ actions[c][i].tx \in Moderators => HasLooked(actions[c][i].tx)
  <2>1. CASE i \in missed[c]
    BY <2>1 DEF MissedLooked
  <2>2. CASE i \in Looking(c)
    BY <1>0, <2>2 DEF Looking
  <2>3. CASE i \in DecidedBy(c, "human")
    BY <1>0, <2>3 DEF DecidedBy, Committed, VisibleRows
  <2> QED
    BY <2>1, <2>2, <2>3, CountdownMoves
<1>2. actions[c][i] \in Row
  BY <1>1, EntryTypes
<1>3. i \in DOMAIN actions'[c] /\ (actions'[c][i].tx = actions[c][i].tx \/ actions'[c][i].tx \in {"committed", "aborted"})
  <2>1. /\ i \in DOMAIN actions'[c]
        /\ actions'[c][i] \in {actions[c][i], [actions[c][i] EXCEPT !.applied = TRUE],
                               [actions[c][i] EXCEPT !.tx = "committed"], DeadRow}
    BY <1>1, RowsMove
  <2>2. /\ [actions[c][i] EXCEPT !.tx = "committed"].tx = "committed" /\ DeadRow.tx = "aborted"
        /\ [actions[c][i] EXCEPT !.applied = TRUE].tx = actions[c][i].tx
    BY <1>2, FieldUpdates
  <2> QED
    BY <2>1, <2>2
<1>4. ASSUME NEW m \in Moderators, actions'[c][i].tx = m PROVE HasLooked(m)'
  <2>1. actions[c][i].tx = m
    BY <1>0, <1>3, <1>4
  <2>2. HasLooked(m)
    BY <1>1, <2>1
  <2>3. i \in Own(actions', c, m)
    BY <1>3, <1>4 DEF Own
  <2>4. ~Commits(m) /\ ~Aborts(m)
    BY <1>0, <2>3, OwnRowsEnd
  <2>5. ~Begins(m)
    BY <1>0, <2>2 DEF Begins, ActionBegin, HasLooked
  <2> QED
    BY <1>0, <2>2, <2>4, <2>5, RowSteps, ModGoes
<1>5. actions'[c][i].tx \notin Syncs
  BY <1>0, <1>1, <1>3
<1>6. (actions[c][i].tx \in Moderators => HasLooked(actions[c][i].tx))'
  BY <1>4 DEF HasLooked
<1> QED
  BY <1>3, <1>5, <1>6

\* A countdown that is started while somebody has looked without finding one is started behind
\* their back; one that stands is found by whoever looks.
LEMMA OpenDecisionsStep ==
  ASSUME TypeOK, OpenActs, OpenDecisionsCancel, [Next]_vars
  PROVE  OpenDecisionsCancel'
<1> SUFFICES ASSUME NEW m \in Moderators, NEW c \in Comments, HasLooked(m)', mod'[m].cur = c,
                    ~mod'[m].holds, scheduled'[c] # "none"
             PROVE  Own(actions', c, m) \subseteq missed'[c]
  BY DEF OpenDecisionsCancel, Own
<1>0. m \in Tasks /\ m \notin Syncs /\ mod \in [Moderators -> ModState] /\ mod[m] \in ModState
  BY TasksAssumption DEF Tasks, TypeOK
<1>1. ~Begins(m) /\ ~Commits(m) /\ ~Aborts(m)
  <2>1. CASE Begins(m)
    BY <1>0, <2>1 DEF Begins, ActionBegin, HasLooked, ModState
  <2>2. CASE Commits(m) \/ Aborts(m)
    BY <1>0, <2>2 DEF Commits, Aborts, ActionCommit, ActionUndone, IdleMod, HasLooked
  <2> QED
    BY <2>1, <2>2
<1>2. Goes(m)
  BY <1>0, <1>1, RowSteps
<1>3. CASE ActionCancel(m)
  <2>1. mod'[m].holds = (scheduled[mod[m].cur] # "none") /\ mod'[m].cur = mod[m].cur /\ scheduled' = scheduled
    BY <1>0, <1>3 DEF ActionCancel, ModState, tables
  <2> QED
    BY <2>1
<1>4. CASE HasLooked(m)
  <2>1. mod[m].cur = c /\ ~mod[m].holds
    BY <1>2, <1>4, ModGoes DEF HasLooked
  <2>2. Own(actions', c, m) = Own(actions, c, m)
    BY <1>0, <1>1, OwnRowsStay
  <2>3. CASE scheduled[c] # "none" /\ missed'[c] = missed[c]
    BY <1>4, <2>1, <2>2, <2>3 DEF OpenDecisionsCancel
  <2>4. Own(actions, c, m) \subseteq Looking(c)
    BY <1>4 DEF Own, Looking
  <2> QED
    BY <2>2, <2>3, <2>4, CountdownMoves DEF CountdownEnds
<1> QED
  BY <1>2, <1>3, <1>4, ModGoes

\* A decision that is committed takes the countdown it found with it, and is otherwise one of
\* those that have missed it.
LEMMA DecisionCancelsStep ==
  ASSUME TypeOK, OpenActs, OpenBatches, OpenDecisionsCancel, DecisionCancelsCountdown, [Next]_vars
  PROVE  DecisionCancelsCountdown'
<1> SUFFICES ASSUME NEW c \in Comments, scheduled'[c] # "none", NEW i \in DecidedBy(c, "human")'
             PROVE  i \in missed'[c]
  BY DEF DecisionCancelsCountdown
<1>0. i \in Committed(c)' /\ actions'[c][i].actor = "human"
  BY DEF DecidedBy
<1>1. CASE i \in Committed(c)
  <2>1. actions[c][i] \in Row /\ actions'[c][i] \in {actions[c][i], [actions[c][i] EXCEPT !.applied = TRUE]}
    BY <1>1, VisibleStay, EntryTypes DEF Committed, VisibleRows
  <2>2. actions'[c][i].actor = actions[c][i].actor
    BY <2>1, FieldUpdates
  <2>3. i \in DecidedBy(c, "human")
    BY <1>0, <1>1, <2>2 DEF DecidedBy
  <2> QED
    BY <2>3, CountdownMoves DEF DecisionCancelsCountdown, CountdownEnds
<1>2. ASSUME NEW s \in Syncs, Own(actions, c, s) = {i}, actions[c][i] = SyncRow(s, c),
             actions'[c][i] = [actions[c][i] EXCEPT !.tx = "committed"]
      PROVE  FALSE
  <2>1. actions[c][i] \in Row
    BY <1>2, EntryTypes DEF Own
  <2>2. actions'[c][i].actor = SyncRow(s, c).actor
    BY <1>2, <2>1, FieldUpdates
  <2> QED
    BY <1>0, <2>2 DEF SyncRow, AutoRow
<1>3. ASSUME NEW m \in Moderators, ActionCommit(m), mod[m].cur = c, HasLooked(m), Own(actions, c, m) = {i}
      PROVE  i \in missed'[c]
  <2>1. missed' = missed /\ (mod[m].holds => scheduled'[c] = "none") /\ (~mod[m].holds => scheduled' = scheduled)
    BY <1>3 DEF ActionCommit, TypeOK
  <2> QED
    BY <1>3, <2>1 DEF OpenDecisionsCancel
<1>4. CASE i \notin Committed(c)
  <2>1. CASE \E s \in Syncs :
               /\ SyncCommit(s) /\ sync[s].pc = "insert" /\ c \in Acted(s)
               /\ Own(actions, c, s) = {i} /\ actions[c][i] = SyncRow(s, c)
               /\ actions'[c][i] = [actions[c][i] EXCEPT !.tx = "committed"]
    BY <1>2, <2>1
  <2>2. CASE \E m \in Moderators :
               /\ ActionCommit(m) /\ mod[m].cur = c /\ HasLooked(m)
               /\ Own(actions, c, m) = {i} /\ actions[c][i] = HumanRow(m)
               /\ actions'[c][i] = [actions[c][i] EXCEPT !.tx = "committed"]
    BY <1>3, <2>2
  <2>3. CASE \E w \in Sweepers : /\ SweepRecord(w) /\ sweep[w].cur = c
                                 /\ i = Len(actions[c]) + 1 /\ actions'[c][i] = SweepRow
    BY <1>0, <2>3, FieldUpdates
  <2>4. i \in Committed(c)' \ Committed(c)
    BY <1>0, <1>4
  <2> QED
    BY <2>1, <2>2, <2>3, <2>4, NewVisible
<1> QED
  BY <1>1, <1>4

\* A visible row that changes is the one a sync marks, of the kind it has mirrored.
LEMMA MarkedRow ==
  ASSUME TypeOK, [Next]_vars, NEW c \in Comments, NEW i \in Committed(c), actions'[c][i] # actions[c][i]
  PROVE  \E s \in Syncs : /\ SyncMark(s) /\ sync[s].cur = c /\ actions[c][i].kind = sync[s].kind
                          /\ actions' = MarkApplied(c, sync[s].kind)
<1>0. i \in DOMAIN actions[c] /\ actions[c][i].tx = "committed" /\ RowsOf(c)
  BY RowSteps DEF Committed, VisibleRows
<1>1. ASSUME NEW r, actions'[c] = Append(actions[c], r) PROVE FALSE
  BY <1>0, <1>1, EntryTypes
<1>2. ASSUME NEW t \in Tasks, actions' = Published(actions, t) \/ actions' = Undone(actions, t, DeadRow)
      PROVE  FALSE
  BY <1>0, <1>2, TasksAssumption DEF Published, Undone
<1>3. ASSUME NEW kind, actions' = MarkApplied(c, kind) PROVE actions[c][i].kind = kind
  BY <1>0, <1>3 DEF MarkApplied, IsLatest, TypeOK
<1> QED
  BY <1>0, <1>1, <1>2, <1>3 DEF RowsOf

\* A row becomes visible as applied only with its answer, and is marked only after one.
LEMMA AppliedStep ==
  ASSUME TypeOK, OpenActs, OpenBatches, AnswersTrue, AppliedMeansAccepted, [Next]_vars
  PROVE  AppliedMeansAccepted'
<1> SUFFICES ASSUME NEW c \in Comments, NEW i \in Committed(c)', actions'[c][i].applied
             PROVE  \E who \in Caller : <<c, who, actions'[c][i].kind>> \in effects'
  BY DEF AppliedMeansAccepted
<1>0. effects \subseteq effects'
  BY EffectsGrow
<1>1. CASE i \in Committed(c)
  <2>1. actions[c][i] \in Row /\ actions'[c][i] \in {actions[c][i], [actions[c][i] EXCEPT !.applied = TRUE]}
    BY <1>1, VisibleStay, EntryTypes DEF Committed, VisibleRows
  <2>2. CASE actions'[c][i] = actions[c][i]
    BY <1>0, <1>1, <2>2 DEF AppliedMeansAccepted
  <2>3. CASE actions'[c][i] # actions[c][i]
    <3>1. PICK s \in Syncs : SyncMark(s) /\ sync[s].cur = c /\ actions[c][i].kind = sync[s].kind
      BY <1>1, <2>3, MarkedRow
    <3>2. actions'[c][i].kind = actions[c][i].kind
      BY <2>1, FieldUpdates
    <3>3. <<c, "sync", actions'[c][i].kind>> \in effects
      BY <3>1, <3>2 DEF AnswersTrue, SyncMark
    <3> QED
      BY <1>0, <3>3 DEF Caller
  <2> QED
    BY <2>2, <2>3
<1>2. ASSUME NEW s \in Syncs, Own(actions, c, s) = {i}, actions[c][i] = SyncRow(s, c),
             actions'[c][i] = [actions[c][i] EXCEPT !.tx = "committed"]
      PROVE  FALSE
  <2>1. actions[c][i] \in Row
    BY <1>2, EntryTypes DEF Own
  <2>2. actions'[c][i].applied = SyncRow(s, c).applied
    BY <1>2, <2>1, FieldUpdates
  <2> QED
    BY <2>2 DEF SyncRow, AutoRow
<1>3. ASSUME NEW m \in Moderators, ActionCommit(m), mod[m].cur = c, actions[c][i] = HumanRow(m),
             Own(actions, c, m) = {i}, actions'[c][i] = [actions[c][i] EXCEPT !.tx = "committed"]
      PROVE  <<c, "human", actions'[c][i].kind>> \in effects'
  <2>1. actions[c][i] \in Row
    BY <1>3, EntryTypes DEF Own
  <2>2. actions'[c][i].applied = mod[m].mirror /\ actions'[c][i].kind = mod[m].kind
    <3>1. HumanRow(m).applied = mod[m].mirror /\ HumanRow(m).kind = mod[m].kind
      BY FieldUpdates
    <3>2. /\ [actions[c][i] EXCEPT !.tx = "committed"].applied = actions[c][i].applied
          /\ [actions[c][i] EXCEPT !.tx = "committed"].kind = actions[c][i].kind
      BY <2>1, FieldUpdates
    <3> QED
      BY <1>3, <3>1, <3>2
  <2>3. mod[m].pc = "answered"
    BY <1>3, <2>2 DEF ActionCommit
  <2> QED
    BY <1>0, <1>3, <2>2, <2>3 DEF AnswersTrue
<1>4. ASSUME NEW w \in Sweepers, SweepRecord(w), sweep[w].cur = c, actions'[c][i] = SweepRow
      PROVE  <<c, "sweep", actions'[c][i].kind>> \in effects'
  BY <1>0, <1>4, FieldUpdates DEF SweepRecord, AnswersTrue
<1>5. CASE i \notin Committed(c)
  <2>1. CASE \E s \in Syncs :
               /\ SyncCommit(s) /\ sync[s].pc = "insert" /\ c \in Acted(s)
               /\ Own(actions, c, s) = {i} /\ actions[c][i] = SyncRow(s, c)
               /\ actions'[c][i] = [actions[c][i] EXCEPT !.tx = "committed"]
    BY <1>2, <2>1
  <2>2. CASE \E m \in Moderators :
               /\ ActionCommit(m) /\ mod[m].cur = c /\ HasLooked(m)
               /\ Own(actions, c, m) = {i} /\ actions[c][i] = HumanRow(m)
               /\ actions'[c][i] = [actions[c][i] EXCEPT !.tx = "committed"]
    BY <1>3, <2>2 DEF Caller
  <2>3. CASE \E w \in Sweepers : /\ SweepRecord(w) /\ sweep[w].cur = c
                                 /\ i = Len(actions[c]) + 1 /\ actions'[c][i] = SweepRow
    BY <1>4, <2>3 DEF Caller
  <2>4. i \in Committed(c)' \ Committed(c)
    BY <1>5
  <2> QED
    BY <2>1, <2>2, <2>3, <2>4, NewVisible
<1> QED
  BY <1>1, <1>5

\* Every step keeps the invariant.
LEMMA InvariantStep == IInv /\ [Next]_vars => IInv'
<1> SUFFICES ASSUME IInv, [Next]_vars PROVE IInv'
  OBVIOUS
<1> USE DEF IInv
<1>1. TypeOK'
  BY TypeStep
<1>2. OpenActs' /\ OpenBatches' /\ BatchesSplit'
  BY OpenActsStep, OpenBatchesStep, BatchesSplitStep
<1>3. InsertsApart' /\ ListsDecided' /\ RowsJustified'
  BY InsertsApartStep, ListsDecidedStep, RowsJustifiedStep
<1>4. AnswersTrue' /\ MissedLooked' /\ OpenDecisionsCancel'
  BY AnswersTrueStep, MissedLookedStep, OpenDecisionsStep
<1>5. DecisionCancelsCountdown' /\ AutomationExplained' /\ AppliedMeansAccepted'
  BY DecisionCancelsStep, ExplainedStep, AppliedStep
<1> QED
  BY <1>1, <1>2, <1>3, <1>4, <1>5

\* The invariant holds in every state the core can reach.
THEOREM InductiveInvariant == Spec => []IInv
<1>1. Init => IInv
  BY InitInvariant
<1>2. IInv /\ [Next]_vars => IInv'
  BY InvariantStep
<1> QED
  BY <1>1, <1>2, PTL DEF Spec

\* Automation starts a countdown, records a removal or removes a comment on
\* Facebook only when the deployment allows it and a verdict was HARMFUL.
THEOREM OnlyForHarm == Spec => []AutomationOnlyForHarm
<1>1. IInv => AutomationOnlyForHarm
  <2> SUFFICES ASSUME IInv, NEW c \in Comments,
                      \/ scheduled[c] # "none"
                      \/ HasRow(c, "DELETE", "auto-removal")
                      \/ <<c, "sync", "DELETE">> \in effects
                      \/ <<c, "sweep", "DELETE">> \in effects
               PROVE  AutoRemovalEnabled /\ Harmful(c)
    BY DEF AutomationOnlyForHarm
  <2>1. HasRow(c, "HIDE", "auto-removal") \/ HasRow(c, "DELETE", "auto-removal")
    BY DEF IInv, ListsDecided, AutomationExplained
  <2> QED
    BY <2>1 DEF IInv, RowsJustified, HasRow
<1> QED
  BY <1>1, InductiveInvariant, PTL

\* Whatever automation did to a comment, a committed row of its history decided it.
THEOREM EveryCallExplained == Spec => []AutomationExplained
<1>1. IInv => AutomationExplained
  BY DEF IInv
<1> QED
  BY <1>1, InductiveInvariant, PTL

\* A countdown that stands was missed by everybody whose decision is on record: each of
\* them had looked for one, or had decided, before it was committed.
THEOREM HumanDecisionWins == Spec => []DecisionCancelsCountdown
<1>1. IInv => DecisionCancelsCountdown
  BY DEF IInv
<1> QED
  BY <1>1, InductiveInvariant, PTL

\* A visible row is marked applied only if Facebook did what it says, or said so.
THEOREM AppliedIsTrue == Spec => []AppliedMeansAccepted
<1>1. IInv => AppliedMeansAccepted
  BY DEF IInv
<1> QED
  BY <1>1, InductiveInvariant, PTL

\* The history others can see is append-only, but for the applied flag.
THEOREM AppendOnlyHistory == Spec => HistoryAppendOnly
<1>1. IInv /\ [Next]_vars =>
        [\A c \in Comments : \A i \in Committed(c) :
           /\ i \in DOMAIN actions'[c]
           /\ actions'[c][i] \in {actions[c][i], [actions[c][i] EXCEPT !.applied = TRUE]}]_vars
  <2> SUFFICES ASSUME IInv, [Next]_vars, NEW c \in Comments, NEW i \in Committed(c)
               PROVE  /\ i \in DOMAIN actions'[c]
                      /\ actions'[c][i] \in {actions[c][i], [actions[c][i] EXCEPT !.applied = TRUE]}
    OBVIOUS
  <2>1. i \in Committed(c)' /\ actions'[c][i] \in {actions[c][i], [actions[c][i] EXCEPT !.applied = TRUE]}
    BY VisibleStay DEF IInv
  <2> QED
    BY <2>1 DEF Committed, VisibleRows
<1> QED
  BY <1>1, InductiveInvariant, PTL DEF Spec, HistoryAppendOnly

\* A sweep that dies between its record and its pop leaves the countdown for the next one;
\* nothing but its record, a person or a Page that is gone takes it away.
THEOREM CountdownSurvivesCrash == Spec => CountdownOutlivesCrash
<1>1. IInv /\ [Next]_vars =>
        [\A c \in Comments :
          (scheduled[c] # "none" /\ scheduled'[c] = "none" /\ <<c, "sweep", "DELETE">> \in effects)
          => \/ HasRow(c, "DELETE", "auto-removal")
             \/ \E m \in Moderators : mod[m].cur = c /\ mod[m].holds
             \/ \E w \in Sweepers : sweep[w].pc = "drop" /\ sweep[w].cur = c]_vars
  <2> SUFFICES ASSUME IInv, [Next]_vars, NEW c \in Comments,
                      scheduled[c] # "none", scheduled'[c] = "none"
               PROVE  \/ HasRow(c, "DELETE", "auto-removal")
                      \/ \E m \in Moderators : mod[m].cur = c /\ mod[m].holds
                      \/ \E w \in Sweepers : sweep[w].pc = "drop" /\ sweep[w].cur = c
    OBVIOUS
  <2>1. \/ \E m \in Moderators : mod[m].cur = c /\ mod[m].holds
        \/ \E w \in Sweepers : SweepPop(w) /\ sweep[w].cur = c
    BY CountdownMoves DEF IInv
  <2>2. ASSUME NEW w \in Sweepers, SweepPop(w), sweep[w].cur = c
        PROVE  sweep[w].pc = "drop" \/ HasRow(c, "DELETE", "auto-removal")
    BY <2>2 DEF SweepPop, IInv, ListsDecided
  <2> QED
    BY <2>1, <2>2
<1> QED
  BY <1>1, InductiveInvariant, PTL DEF Spec, CountdownOutlivesCrash

----------------------------------------------------------------------------
(* What moderators are shown.                                              *)

\* A sync hides and deletes, a sweep deletes.
CallsKnown ==
  \A c, kind : /\ <<c, "sync", kind>> \in effects => kind \in {"DELETE", "HIDE"}
               /\ <<c, "sweep", kind>> \in effects => kind = "DELETE"

\* Nobody calls for anything else.
LEMMA CallsKnownStep == TypeOK /\ CallsKnown /\ [Next]_vars => CallsKnown'
<1> SUFFICES ASSUME TypeOK, CallsKnown, [Next]_vars, NEW c, NEW kind
             PROVE  /\ <<c, "sync", kind>> \in effects' => kind \in {"DELETE", "HIDE"}
                    /\ <<c, "sweep", kind>> \in effects' => kind = "DELETE"
  BY DEF CallsKnown
<1> QED
  BY EffectMoves DEF CallsKnown

\* A non-empty set of positions of a sequence has a last one.
LEMMA LastPosition ==
  ASSUME NEW n \in Nat, NEW S, S \subseteq 1 .. n, S # {}
  PROVE  \E i \in S : \A j \in S : j <= i
<1> DEFINE T == {n - i : i \in S}
<1>1. \A i \in S : n - i \in Nat
  OBVIOUS
<1>2. T \subseteq Nat /\ T # {}
  BY <1>1
<1>3. PICK x \in T : \A y \in T : ~(<<y, x>> \in OpToRel(<, Nat))
  <2> HIDE DEF T
  <2> QED
    BY <1>2, NatLessThanWellFounded, WFMin, Zenon
<1>4. \A y \in T : ~(y < x)
  BY <1>2, <1>3 DEF OpToRel
<1>5. PICK i \in S : x = n - i
  OBVIOUS
<1>6. ASSUME NEW j \in S PROVE j <= i
  <2>1. ~(n - j < n - i)
    BY <1>4, <1>5
  <2> QED
    BY <2>1
<1> QED
  BY <1>6

\* The newest of the rows that others see is one of them, and none is newer.
LEMMA NewestRow ==
  ASSUME NEW rows, NEW n \in Nat, DOMAIN rows = 1 .. n, VisibleRows(rows) # {}
  PROVE  Newest(rows) \in VisibleRows(rows) /\ \A i \in VisibleRows(rows) : i <= Newest(rows)
<1>1. VisibleRows(rows) \subseteq 1 .. n
  BY DEF VisibleRows
<1>2. \E i \in VisibleRows(rows) : \A j \in VisibleRows(rows) : j <= i
  BY <1>1, LastPosition, Zenon
<1> QED
  BY <1>2 DEF Newest

\* Whatever automation did is in sight, and the work list, the summary and the fleet's
\* number agree that it is not pending.
THEOREM AutomationSeen == Spec => []AutomationInSight
<1>1. Init => CallsKnown
  BY DEF Init, CallsKnown
<1>2. IInv /\ CallsKnown /\ [Next]_vars => CallsKnown'
  BY CallsKnownStep DEF IInv
<1>3. IInv /\ CallsKnown => AutomationInSight
  <2> SUFFICES ASSUME IInv, CallsKnown, NEW c \in stored, NEW others \in BOOLEAN, Automated(c)
               PROVE  /\ c \notin Listed("PENDING", others) \cup Summary(others).pending \cup FleetPending
                      /\ OfConnectedPage(others) =>
                           /\ c \in Listed("ALL", others) \cap Summary(others).reviewed
                           /\ \/ c \in Listed("ACTIONED", others) \cap Summary(others).need_review
                              \/ ClearedAgain(c)
    BY DEF AutomationInSight
  <2>1. TypeOK /\ c \in Comments
    BY DEF IInv, TypeOK
  <2>2. PICK i \in Committed(c) : actions[c][i].actor # "human"
    <3>1. ASSUME NEW kind, NEW actor \in {"auto-removal", "auto-hide"}, HasRow(c, kind, actor)
          PROVE  \E i \in Committed(c) : actions[c][i].actor # "human"
      BY <3>1 DEF HasRow
    <3>2. scheduled[c] # "none" => HasRow(c, "HIDE", "auto-removal")
      BY <2>1 DEF IInv, ListsDecided
    <3>3. ASSUME NEW who \in {"sync", "sweep"}, NEW kind \in Mirrored, <<c, who, kind>> \in effects
          PROVE  \/ HasRow(c, "DELETE", "auto-removal") \/ HasRow(c, "HIDE", "auto-removal")
                 \/ HasRow(c, "HIDE", "auto-hide")
      BY <2>1, <3>3 DEF CallsKnown, IInv, AutomationExplained
    <3> QED
      BY <3>1, <3>2, <3>3 DEF Automated
  <2>3. LatestAction(c) # "none"
    <3>1. Newest(actions[c]) \in VisibleRows(actions[c])
      BY <2>1, <2>2, NewestRow, EntryTypes DEF Committed
    <3>2. actions[c][Newest(actions[c])] \in Row
      BY <2>1, <3>1, EntryTypes DEF VisibleRows
    <3> QED
      BY <2>2, <3>2 DEF LatestAction, Row, Kind
  <2>4. \E j \in VisibleRows(verdicts[c]) : verdicts[c][j].severity # "SAFE"
    <3>1. actions[c][i] \in Row
      BY <2>1, EntryTypes DEF Committed, VisibleRows
    <3>2. "HARMFUL" \in Found(c) \/ "OFFENSIVE" \in Found(c)
      BY <2>1, <2>2, <3>1 DEF IInv, RowsJustified, Harmful, Row, Actor
    <3> QED
      BY <3>2 DEF Found
  <2>5. Surfaced(c) \/ ClearedAgain(c)
    <3> SUFFICES ASSUME ~Surfaced(c) PROVE ClearedAgain(c)
      OBVIOUS
    <3>1. PICK j \in VisibleRows(verdicts[c]) : verdicts[c][j].severity # "SAFE"
      BY <2>4
    <3> DEFINE last == Newest(verdicts[c])
    <3>2. last \in VisibleRows(verdicts[c]) /\ j <= last
      BY <2>1, <3>1, NewestRow, EntryTypes
    <3>3. verdicts[c][last].severity = "SAFE"
      BY DEF Surfaced, LatestSeverity
    <3>4. j \in Nat /\ last \in Nat
      BY <2>1, <3>1, <3>2, EntryTypes DEF VisibleRows
    <3>5. j < last
      BY <3>1, <3>2, <3>3, <3>4
    <3> QED
      BY <3>1, <3>2, <3>5 DEF ClearedAgain
  <2>6. c \notin Listed("PENDING", others) \cup Summary(others).pending \cup FleetPending
    BY <2>2, <2>3 DEF Listed, Summary, FleetPending
  <2> QED
    BY <2>3, <2>5, <2>6 DEF Listed, Summary
<1> QED
  BY <1>1, <1>2, <1>3, InductiveInvariant, PTL DEF Spec

----------------------------------------------------------------------------
(* Every comment lives as CommentLife allows.                              *)

\* A comment begins its life with nothing known, nothing decided and nothing done.
LEMMA LifeInit == ASSUME Init, NEW c \in Comments PROVE Life(c)!Init
<1>1. DOMAIN actions[c] = {} /\ DOMAIN verdicts[c] = {}
  BY DEF Init
<1>2. fb[c] # "deleted" /\ connected /\ scheduled[c] = "none" /\ effects = {} /\ missed[c] = {}
  BY DEF Init
<1>3. ~Dropping(c)
  BY DEF Init, IdleSweep, Dropping
<1>4. Found(c) = {} /\ Visible(c) = {} /\ Reached(c) = {} /\ Looking(c) = {} /\ CallsFor(c) = {}
  BY <1>1, <1>2 DEF Found, Visible, Reached, Looking, CallsFor, Committed, VisibleRows
<1> QED
  BY <1>2, <1>3, <1>4 DEF Life!Init

\* What others see of a comment's history is what its visible rows say.
LEMMA VisibleIs ==
  ASSUME NEW c \in Comments
  PROVE  /\ \A d \in Visible(c) : /\ d.at \in Committed(c)
                                  /\ d.kind = actions[c][d.at].kind
                                  /\ d.actor = actions[c][d.at].actor
         /\ \A i \in Committed(c) : \E d \in Visible(c) : d.at = i
         /\ \A kind, actor : Life(c)!Decided(kind, actor) <=> HasRow(c, kind, actor)
<1>1. \A d \in Visible(c) : /\ d.at \in Committed(c)
                             /\ d.kind = actions[c][d.at].kind
                             /\ d.actor = actions[c][d.at].actor
  BY DEF Visible
<1>2. ASSUME NEW i \in Committed(c) PROVE \E d \in Visible(c) : d.at = i
  <2> DEFINE d == [at |-> i, kind |-> actions[c][i].kind, actor |-> actions[c][i].actor]
  <2>1. d \in Visible(c) /\ d.at = i
    BY DEF Visible
  <2> QED
    BY <2>1
<1>3. ASSUME NEW kind, NEW actor
      PROVE  Life(c)!Decided(kind, actor) <=> HasRow(c, kind, actor)
  <2> HIDE DEF Visible
  <2>1. HasRow(c, kind, actor) => Life(c)!Decided(kind, actor)
    <3> SUFFICES ASSUME NEW i \in Committed(c), actions[c][i].kind = kind, actions[c][i].actor = actor
                 PROVE  Life(c)!Decided(kind, actor)
      BY DEF HasRow
    <3>1. PICK d \in Visible(c) : d.at = i
      BY <1>2
    <3>2. d.kind = kind /\ d.actor = actor
      BY <1>1, <3>1
    <3> QED
      BY <3>2 DEF Life!Decided
  <2>2. Life(c)!Decided(kind, actor) => HasRow(c, kind, actor)
    <3> SUFFICES ASSUME NEW d \in Visible(c), d.kind = kind, d.actor = actor
                 PROVE  HasRow(c, kind, actor)
      BY DEF Life!Decided
    <3> QED
      BY <1>1 DEF HasRow
  <2> QED
    BY <2>1, <2>2
<1> QED
  BY <1>1, <1>2, <1>3

\* No row of c's becomes visible and none that is changes.
RowsQuiet(c) == Committed(c)' = Committed(c) /\ \A i \in Committed(c) : actions'[c][i] = actions[c][i]

\* Then its history looks the same.
LEMMA QuietHistory ==
  ASSUME NEW c \in Comments, RowsQuiet(c)
  PROVE  Visible(c)' = Visible(c) /\ Reached(c)' = Reached(c)
BY DEF RowsQuiet, Visible, Reached

\* What an open transaction writes, and what is undone with it, nobody sees.
LEMMA OpenQuiet ==
  ASSUME TypeOK, NEW c \in Comments,
         \/ actions'[c] = actions[c]
         \/ \E r \in Row : r.tx # "committed" /\ actions'[c] = Append(actions[c], r)
         \/ \E t \in Tasks : actions' = Undone(actions, t, DeadRow)
  PROVE  RowsQuiet(c)
<1>1. CASE actions'[c] = actions[c]
  BY <1>1 DEF RowsQuiet, Committed, VisibleRows
<1>2. ASSUME NEW r \in Row, r.tx # "committed", actions'[c] = Append(actions[c], r) PROVE RowsQuiet(c)
  <2>1. /\ DOMAIN actions'[c] = DOMAIN actions[c] \cup {Len(actions[c]) + 1}
        /\ \A i \in DOMAIN actions[c] : actions'[c][i] = actions[c][i]
        /\ actions'[c][Len(actions[c]) + 1] = r
    BY <1>2, EntryTypes
  <2> QED
    BY <1>2, <2>1 DEF RowsQuiet, Committed, VisibleRows
<1>3. ASSUME NEW t \in Tasks, actions' = Undone(actions, t, DeadRow) PROVE RowsQuiet(c)
  <2>1. t # "committed" /\ DeadRow.tx # "committed"
    BY TasksAssumption, FieldUpdates
  <2>2. /\ DOMAIN actions'[c] = DOMAIN actions[c]
        /\ \A i \in DOMAIN actions[c] :
             actions'[c][i] = IF actions[c][i].tx = t THEN DeadRow ELSE actions[c][i]
    BY <1>3 DEF Undone
  <2> QED
    BY <2>1, <2>2 DEF RowsQuiet, Committed, VisibleRows
<1> QED
  BY <1>1, <1>2, <1>3

\* A moderator who does not move neither begins nor ends a transaction.
LEMMA ModStill ==
  ASSUME TypeOK, NEW m \in Moderators, mod'[m] = mod[m]
  PROVE  ~Begins(m) /\ ~Commits(m) /\ ~Aborts(m)
<1>0. m \notin Syncs /\ mod \in [Moderators -> ModState] /\ mod[m] \in ModState
  BY TasksAssumption DEF TypeOK
<1>1. ~Begins(m)
  BY <1>0 DEF Begins, ActionBegin, ModState
<1>2. ~Commits(m) /\ ~Aborts(m)
  BY <1>0 DEF Commits, Aborts, ActionCommit, ActionUndone, IdleMod
<1> QED
  BY <1>1, <1>2

\* Those who are about to decide are the same, but for the one who moves.
LEMMA LookingMoves ==
  ASSUME TypeOK, [Next]_vars, NEW c \in Comments, NEW m \in Moderators,
         \A n \in Moderators \ {m} : mod'[n] = mod[n]
  PROVE  Looking(c)' = (Looking(c) \ Own(actions, c, m))
                         \cup {i \in Own(actions', c, m) : HasLooked(m)'}
<1>1. \A n \in Moderators : n \in Tasks
  BY DEF Tasks
<1>2. \A n \in Moderators \ {m} : Own(actions', c, n) = Own(actions, c, n) /\ HasLooked(n)' = HasLooked(n)
  BY <1>1, ModStill, OwnRowsStay DEF HasLooked
<1>3. Looking(c) = {i \in DOMAIN actions[c] : \E n \in Moderators : i \in Own(actions, c, n) /\ HasLooked(n)}
  BY DEF Looking, Own
<1>4. Looking(c)' = {i \in DOMAIN actions'[c] : \E n \in Moderators : i \in Own(actions', c, n) /\ HasLooked(n)'}
  BY DEF Looking, Own
<1>5. \A n \in Moderators : Own(actions', c, n) \subseteq DOMAIN actions'[c] /\ Own(actions, c, n) \subseteq DOMAIN actions[c]
  BY DEF Own
<1>6. \A n \in Moderators \ {m} : Own(actions, c, n) \cap Own(actions, c, m) = {}
  BY DEF Own
<1> QED
  BY <1>2, <1>3, <1>4, <1>5, <1>6

\* If no request moves they are the same.
LEMMA LookingSame ==
  ASSUME TypeOK, [Next]_vars, NEW c \in Comments, mod' = mod
  PROVE  Looking(c)' = Looking(c)
<1>1. \A n \in Moderators : n \in Tasks /\ mod'[n] = mod[n]
  BY DEF Tasks
<1>2. \A n \in Moderators : Own(actions', c, n) = Own(actions, c, n) /\ HasLooked(n)' = HasLooked(n)
  BY <1>1, ModStill, OwnRowsStay DEF HasLooked
<1>3. Looking(c) = {i \in DOMAIN actions[c] : \E n \in Moderators : i \in Own(actions, c, n) /\ HasLooked(n)}
  BY DEF Looking, Own
<1>4. Looking(c)' = {i \in DOMAIN actions'[c] : \E n \in Moderators : i \in Own(actions', c, n) /\ HasLooked(n)'}
  BY DEF Looking, Own
<1>5. \A n \in Moderators : Own(actions', c, n) \subseteq DOMAIN actions'[c] /\ Own(actions, c, n) \subseteq DOMAIN actions[c]
  BY DEF Own
<1> QED
  BY <1>2, <1>3, <1>4, <1>5

\* The tables of a comment say the same of its life.
Settled(c) ==
  /\ Found(c)' = Found(c) /\ Visible(c)' = Visible(c) /\ Reached(c)' = Reached(c)
  /\ scheduled'[c] = scheduled[c] /\ missed'[c] = missed[c] /\ connected' = connected

\* As they do when nothing is written but by open transactions.
LEMMA QuietSettled ==
  ASSUME NEW c \in Comments, RowsQuiet(c), Found(c)' = Found(c),
         UNCHANGED <<scheduled, connected, missed>>
  PROVE  Settled(c)
BY QuietHistory DEF Settled

\* If nobody looks or leaves off and nothing happens on Facebook or to the sweeps either,
\* it is no step of its life.
LEMMA QuietLife ==
  ASSUME NEW c \in Comments, Settled(c), UNCHANGED <<fb, effects>>,
         Looking(c)' = Looking(c), Dropping(c)' = Dropping(c)
  PROVE  UNCHANGED Life(c)!life
BY DEF Settled, CallsFor, Life!life

\* A call that is made, for a comment it may be made for, is a call of its life.
LEMMA CallLife ==
  ASSUME TypeOK, NEW c \in Comments, NEW kind \in Mirrored, NEW who \in Caller,
         effects' = effects \cup {<<c, who, kind>>},
         (fb[c] # "deleted" /\ fb'[c] = After(kind)) \/ (kind = "DELETE" /\ fb' = fb),
         Settled(c), Dropping(c)' = Dropping(c),
         Looking(c)' = Looking(c) \/ (who = "human" /\ \E at \in Looking(c) : Looking(c)' = Looking(c) \ {at}),
         who = "sync" =>
           \/ kind = "DELETE" /\ HasRow(c, "DELETE", "auto-removal")
           \/ kind = "HIDE" /\ (HasRow(c, "HIDE", "auto-removal") \/ HasRow(c, "HIDE", "auto-hide")),
         who = "sweep" => kind = "DELETE" /\ HasRow(c, "HIDE", "auto-removal")
  PROVE  Life(c)!Call(who, kind)
<1>1. who = "sync" =>
        \/ kind = "DELETE" /\ Life(c)!Decided("DELETE", "auto-removal")
        \/ kind = "HIDE" /\ (Life(c)!ToBeRemoved \/ Life(c)!Decided("HIDE", "auto-hide"))
  BY VisibleIs DEF Life!ToBeRemoved
<1>2. who = "sweep" => kind = "DELETE" /\ Life(c)!ToBeRemoved
  BY VisibleIs DEF Life!ToBeRemoved
<1>3. CallsFor(c)' = CallsFor(c) \cup {<<who, kind>>}
  BY DEF CallsFor
<1>4. \/ ~(fb[c] = "deleted") /\ (fb'[c] = "deleted") = (kind = "DELETE")
      \/ kind = "DELETE" /\ (fb'[c] = "deleted") = (fb[c] = "deleted")
  BY DEF After
<1>5. Looking(c)' = Looking(c) \/ (who = "human" /\ Life(c)!LeavesOff)
  BY DEF Life!LeavesOff
<1> QED
  BY <1>1, <1>2, <1>3, <1>4, <1>5, Zenon DEF Life!Call, Settled

\* A call for another comment is no step of its life.
LEMMA OtherLife ==
  ASSUME TypeOK, NEW c \in Comments, NEW d \in Comments \ {c}, NEW kind, NEW who,
         GraphAccepts(d, kind, who) \/ GraphFails(d, kind, who),
         Settled(c), Looking(c)' = Looking(c), Dropping(c)' = Dropping(c)
  PROVE  UNCHANGED Life(c)!life
<1>1. fb'[c] = fb[c]
  BY DEF GraphAccepts, GraphFails, GraphRefuses, GraphDoes, TypeOK
<1>2. CallsFor(c)' = CallsFor(c)
  BY DEF GraphAccepts, GraphFails, GraphRefuses, GraphDoes, CallsFor
<1> QED
  BY <1>1, <1>2 DEF Settled, Life!life

\* What a call that was made, or was said to be made, has done.
LEMMA GraphDone ==
  ASSUME TypeOK, NEW c \in Comments, NEW kind, NEW who,
         GraphAccepts(c, kind, who) \/ GraphFails(c, kind, who)
  PROVE  \/ UNCHANGED <<fb, effects>>
         \/ /\ effects' = effects \cup {<<c, who, kind>>}
            /\ (fb[c] # "deleted" /\ fb'[c] = After(kind)) \/ (kind = "DELETE" /\ fb' = fb)
<1> HIDE DEF After
<1>1. CASE GraphDoes(c, kind, who)
  BY <1>1 DEF GraphDoes, TypeOK
<1>2. CASE ~GraphDoes(c, kind, who)
  BY <1>2 DEF GraphAccepts, GraphFails, GraphRefuses
<1> QED
  BY <1>1, <1>2

\* Most steps of a sync are no step of a life: what its transaction writes, and what is
\* undone with it, nobody sees.
LEMMA SyncQuiet ==
  ASSUME TypeOK, [Next]_vars, NEW s \in Syncs, NEW c \in Comments,
         \/ SyncStart(s) \/ SyncFetch(s) \/ SyncFetchFails(s) \/ SyncReadExisting(s)
         \/ SyncBegin(s) \/ SyncInsert(s) \/ SyncReturn(s) \/ SyncRollback(s)
  PROVE  UNCHANGED Life(c)!life
<1>1. UNCHANGED <<scheduled, page, fb, mod, sweep, effects, missed>>
  BY DEF SyncStart, SyncFetch, SyncFetchFails, SyncReadExisting, SyncBegin, SyncInsert,
     SyncReturn, SyncRollback, tables
<1>2. s \in Tasks /\ s # "committed" /\ s \in TxStatus
  BY TasksAssumption DEF Tasks, TxStatus
<1>3. RowsQuiet(c) /\ Found(c)' = Found(c)
  <2>1. CASE UNCHANGED tables
    BY <2>1, OpenQuiet DEF tables, Found
  <2>2. CASE SyncBegin(s)
    <3>1. PICK sev \in [sync[s].batch -> Severity], first \in sync[s].batch : BeginStep(s, sev, first)
      BY <2>2 DEF SyncBegin
    <3>2. /\ \A kind \in {"DELETE", "HIDE"}, actor \in {"auto-removal", "auto-hide"} :
               AutoRow(kind, actor, s) \in Row /\ AutoRow(kind, actor, s).tx # "committed"
          /\ \/ actions'[c] = actions[c]
             \/ \E kind \in {"DELETE", "HIDE"}, actor \in {"auto-removal", "auto-hide"} :
                  actions'[c] = Append(actions[c], AutoRow(kind, actor, s))
      BY <1>2, <3>1 DEF BeginStep, WithAutoRows, AutoRow, Row, Kind, Actor
    <3>3. RowsQuiet(c)
      BY <3>2, OpenQuiet
    <3>4. CASE verdicts'[c] = verdicts[c]
      BY <3>3, <3>4 DEF Found
    <3>5. CASE verdicts'[c] # verdicts[c]
      <4>1. c \in sync[s].batch /\ verdicts'[c] = Append(verdicts[c], [severity |-> sev[c], tx |-> s])
        BY <3>1, <3>5 DEF BeginStep
      <4> DEFINE r == [severity |-> sev[c], tx |-> s]
      <4>2. r \in Finding /\ r.tx # "committed"
        BY <1>2, <4>1 DEF Finding
      <4>3. verdicts[c] \in Seq(Finding)
        BY EntryTypes
      <4>4. /\ DOMAIN verdicts'[c] = DOMAIN verdicts[c] \cup {Len(verdicts[c]) + 1}
            /\ \A i \in DOMAIN verdicts[c] : verdicts'[c][i] = verdicts[c][i]
            /\ verdicts'[c][Len(verdicts[c]) + 1] = r
        BY <4>1, <4>2, <4>3, AppendRows
      <4> HIDE DEF r
      <4> QED
        BY <3>3, <4>2, <4>4 DEF Found, VisibleRows
    <3> QED
      BY <3>4, <3>5
  <2>3. CASE SyncRollback(s)
    <3>1. RowsQuiet(c)
      BY <1>2, <2>3, OpenQuiet DEF SyncRollback
    <3>2. /\ DOMAIN verdicts'[c] = DOMAIN verdicts[c]
          /\ \A i \in DOMAIN verdicts[c] :
               verdicts'[c][i] = IF verdicts[c][i].tx = s THEN DeadFinding ELSE verdicts[c][i]
      BY <2>3 DEF SyncRollback, Undone
    <3>3. DeadFinding.tx # "committed"
      BY FieldUpdates
    <3> QED
      BY <1>2, <3>1, <3>2, <3>3 DEF Found, VisibleRows
  <2> QED
    BY <2>1, <2>2, <2>3 DEF SyncStart, SyncFetch, SyncFetchFails, SyncReadExisting, SyncInsert, SyncReturn
<1>4. Settled(c)
  BY <1>1, <1>3, QuietSettled DEF page
<1>5. Dropping(c)' = Dropping(c)
  BY <1>1 DEF Dropping
<1> QED
  BY <1>1, <1>4, <1>5, LookingSame, QuietLife

\* A call that one may make, for whatever comment, is a call of the life or none.
LEMMA GraphLife ==
  ASSUME TypeOK, NEW c \in Comments, NEW d \in Comments, NEW kind \in Mirrored, NEW who \in Caller,
         GraphAccepts(d, kind, who) \/ GraphFails(d, kind, who),
         Settled(c), Looking(c)' = Looking(c), Dropping(c)' = Dropping(c),
         d = c /\ who = "sync" =>
           \/ kind = "DELETE" /\ HasRow(c, "DELETE", "auto-removal")
           \/ kind = "HIDE" /\ (HasRow(c, "HIDE", "auto-removal") \/ HasRow(c, "HIDE", "auto-hide")),
         d = c /\ who = "sweep" => kind = "DELETE" /\ HasRow(c, "HIDE", "auto-removal")
  PROVE  Life(c)!Call(who, kind) \/ UNCHANGED Life(c)!life
<1>1. CASE d # c
  BY <1>1, OtherLife
<1>2. CASE d = c /\ UNCHANGED <<fb, effects>>
  BY <1>2, QuietLife
<1>3. CASE d = c /\ ~UNCHANGED <<fb, effects>>
  <2>1. /\ effects' = effects \cup {<<c, who, kind>>}
        /\ (fb[c] # "deleted" /\ fb'[c] = After(kind)) \/ (kind = "DELETE" /\ fb' = fb)
    BY <1>3, GraphDone
  <2> QED
    BY <1>3, <2>1, CallLife
<1> QED
  BY <1>1, <1>2, <1>3

\* What a sync asks Facebook for it has decided and recorded.
LEMMA SyncCallLife ==
  ASSUME TypeOK, [Next]_vars, ListsDecided, NEW s \in Syncs, NEW c \in Comments,
         SyncMirrorOk(s) \/ SyncMirrorFails(s)
  PROVE  (\E kind \in Mirrored : Life(c)!Call("sync", kind)) \/ UNCHANGED Life(c)!life
<1>1. PICK d \in Comments, kind \in {"DELETE", "HIDE"} :
        MirrorNext(s, d, kind) /\ (GraphAccepts(d, kind, "sync") \/ GraphFails(d, kind, "sync"))
  BY DEF SyncMirrorOk, SyncMirrorFails
<1>2. UNCHANGED <<tables, page, mod, sweep, missed>>
  BY DEF SyncMirrorOk, SyncMirrorFails
<1>3. kind \in Mirrored /\ "sync" \in Caller
  BY DEF Mirrored, Kind, Caller
<1>4. RowsQuiet(c) /\ Found(c)' = Found(c)
  BY <1>2, OpenQuiet DEF tables, Found
<1>5. Settled(c) /\ Looking(c)' = Looking(c) /\ Dropping(c)' = Dropping(c)
  BY <1>2, <1>4, QuietSettled, LookingSame DEF tables, page, Dropping
<1>6. \/ kind = "DELETE" /\ HasRow(d, "DELETE", "auto-removal")
      \/ kind = "HIDE" /\ (HasRow(d, "HIDE", "auto-removal") \/ HasRow(d, "HIDE", "auto-hide"))
  BY <1>1 DEF MirrorNext, ListsDecided
<1>7. Life(c)!Call("sync", kind) \/ UNCHANGED Life(c)!life
  BY <1>1, <1>3, <1>5, <1>6, GraphLife
<1> QED
  BY <1>3, <1>7

\* A commit publishes the rows and the verdicts of its transaction and no others.
LEMMA PublishedRows ==
  ASSUME TypeOK, NEW t \in Tasks, NEW c \in Comments, actions' = Published(actions, t)
  PROVE  /\ Committed(c)' = Committed(c) \cup Own(actions, c, t)
         /\ Committed(c) \cap Own(actions, c, t) = {}
         /\ \A i \in Committed(c) : actions'[c][i] = actions[c][i]
         /\ \A i \in Own(actions, c, t) :
              /\ actions'[c][i].kind = actions[c][i].kind /\ actions'[c][i].actor = actions[c][i].actor
              /\ actions'[c][i].applied = actions[c][i].applied
<1>1. t # "committed"
  BY TasksAssumption
<1>2. /\ DOMAIN actions'[c] = DOMAIN actions[c]
      /\ \A i \in DOMAIN actions[c] : actions'[c][i] =
           IF actions[c][i].tx = t THEN [actions[c][i] EXCEPT !.tx = "committed"] ELSE actions[c][i]
  BY DEF Published
<1>3. \A i \in DOMAIN actions[c] : actions[c][i] \in Row
  BY EntryTypes
<1>4. \A i \in Own(actions, c, t) :
        /\ actions'[c][i].kind = actions[c][i].kind /\ actions'[c][i].actor = actions[c][i].actor
        /\ actions'[c][i].applied = actions[c][i].applied /\ actions'[c][i].tx = "committed"
  <2> SUFFICES ASSUME NEW i \in Own(actions, c, t)
               PROVE  /\ actions'[c][i].kind = actions[c][i].kind
                      /\ actions'[c][i].actor = actions[c][i].actor
                      /\ actions'[c][i].applied = actions[c][i].applied
                      /\ actions'[c][i].tx = "committed"
    OBVIOUS
  <2>1. actions[c][i] \in Row /\ actions'[c][i] = [actions[c][i] EXCEPT !.tx = "committed"]
    BY <1>2, <1>3 DEF Own
  <2> QED
    BY <2>1, FieldUpdates
<1>5. \A i \in DOMAIN actions[c] \ Own(actions, c, t) : actions'[c][i] = actions[c][i]
  BY <1>2 DEF Own
<1>6. Committed(c) \cap Own(actions, c, t) = {} /\ Own(actions, c, t) \subseteq DOMAIN actions[c]
  BY <1>1 DEF Own, Committed, VisibleRows
<1>7. Committed(c)' = Committed(c) \cup Own(actions, c, t)
  BY <1>2, <1>4, <1>5, <1>6 DEF Committed, VisibleRows
<1>8. Committed(c) \subseteq DOMAIN actions[c]
  BY DEF Committed, VisibleRows
<1> QED
  BY <1>4, <1>5, <1>6, <1>7, <1>8

\* So do the verdicts of a batch.
LEMMA PublishedFindings ==
  ASSUME TypeOK, NEW s \in Syncs, NEW c \in Comments, verdicts' = Published(verdicts, s)
  PROVE  Found(c)' = Found(c) \cup {verdicts[c][i].severity : i \in Own(verdicts, c, s)}
<1>1. s # "committed"
  BY TasksAssumption DEF Tasks
<1>2. /\ DOMAIN verdicts'[c] = DOMAIN verdicts[c]
      /\ \A i \in DOMAIN verdicts[c] : verdicts'[c][i] =
           IF verdicts[c][i].tx = s THEN [verdicts[c][i] EXCEPT !.tx = "committed"] ELSE verdicts[c][i]
  BY DEF Published
<1>3. \A i \in DOMAIN verdicts[c] : verdicts[c][i] \in Finding
  BY EntryTypes
<1>4. \A i \in DOMAIN verdicts[c] :
        /\ verdicts'[c][i].severity = verdicts[c][i].severity
        /\ verdicts'[c][i].tx = "committed" <=> verdicts[c][i].tx \in {"committed", s}
  <2> SUFFICES ASSUME NEW i \in DOMAIN verdicts[c]
               PROVE  /\ verdicts'[c][i].severity = verdicts[c][i].severity
                      /\ verdicts'[c][i].tx = "committed" <=> verdicts[c][i].tx \in {"committed", s}
    OBVIOUS
  <2>1. CASE verdicts[c][i].tx = s
    <3>1. verdicts[c][i] \in Finding /\ verdicts'[c][i] = [verdicts[c][i] EXCEPT !.tx = "committed"]
      BY <1>2, <1>3, <2>1
    <3> QED
      BY <2>1, <3>1, FieldUpdates
  <2>2. CASE verdicts[c][i].tx # s
    BY <1>2, <2>2
  <2> QED
    BY <2>1, <2>2
<1> QED
  BY <1>2, <1>4 DEF Found, VisibleRows, Own

\* One row that becomes visible is one decision that appears.
LEMMA OneAppears ==
  ASSUME TypeOK, [Next]_vars, NEW c \in Comments, NEW i, i \notin Committed(c),
         Committed(c)' = Committed(c) \cup {i}
  PROVE  \E d \in Visible(c)' :
           /\ Life(c)!Appears(d) /\ d.at = i
           /\ d.kind = actions'[c][i].kind /\ d.actor = actions'[c][i].actor
<1> DEFINE d == [at |-> i, kind |-> actions'[c][i].kind, actor |-> actions'[c][i].actor]
           seen(j) == [at |-> j, kind |-> actions[c][j].kind, actor |-> actions[c][j].actor]
           then(j) == [at |-> j, kind |-> actions'[c][j].kind, actor |-> actions'[c][j].actor]
<1>1. \A j \in Committed(c) : actions[c][j] \in Row
  BY EntryTypes DEF Committed, VisibleRows
<1>2. \A j \in Committed(c) : then(j) = seen(j)
  <2> SUFFICES ASSUME NEW j \in Committed(c) PROVE then(j) = seen(j)
    OBVIOUS
  <2>1. actions'[c][j] \in {actions[c][j], [actions[c][j] EXCEPT !.applied = TRUE]}
    BY VisibleStay
  <2>2. actions'[c][j].kind = actions[c][j].kind /\ actions'[c][j].actor = actions[c][j].actor
    <3>1. CASE actions'[c][j] = actions[c][j]
      BY <3>1
    <3>2. CASE actions'[c][j] = [actions[c][j] EXCEPT !.applied = TRUE]
      BY <1>1, <3>2, FieldUpdates
    <3> QED
      BY <2>1, <3>1, <3>2
  <2> QED
    BY <2>2
<1>3. Visible(c) = {seen(j) : j \in Committed(c)}
  BY DEF Visible
<1>4. Visible(c)' = {then(j) : j \in Committed(c) \cup {i}}
  BY DEF Visible
<1>5. then(i) = d
  OBVIOUS
<1>6. Visible(c)' = Visible(c) \cup {d}
  BY <1>2, <1>3, <1>4, <1>5
<1>7. \A e \in Visible(c) : e.at # d.at
  BY VisibleIs
<1>8. Life(c)!Appears(d)
  BY <1>6, <1>7 DEF Life!Appears
<1>9. d \in Visible(c)' /\ d.at = i /\ d.kind = actions'[c][i].kind /\ d.actor = actions'[c][i].actor
  BY <1>6
<1> QED
  BY <1>8, <1>9

\* The decisions of people are those whose rows say so.
LEMMA HumansSeen ==
  ASSUME NEW c \in Comments
  PROVE  {d.at : d \in {e \in Visible(c) : e.actor = "human"}} = DecidedBy(c, "human")
<1> HIDE DEF Visible
<1>1. \A d \in Visible(c) : d.actor = "human" => d.at \in DecidedBy(c, "human")
  BY VisibleIs DEF DecidedBy
<1>2. \A i \in DecidedBy(c, "human") : \E d \in Visible(c) : d.actor = "human" /\ d.at = i
  <2> SUFFICES ASSUME NEW i \in DecidedBy(c, "human")
               PROVE  \E d \in Visible(c) : d.actor = "human" /\ d.at = i
    OBVIOUS
  <2>1. PICK d \in Visible(c) : d.at = i
    BY VisibleIs DEF DecidedBy
  <2> QED
    BY <2>1, VisibleIs DEF DecidedBy
<1> QED
  BY <1>1, <1>2

\* The commit of a sync gives each comment of its batch a verdict and what automation
\* decided on it.
LEMMA SyncCommitLife ==
  ASSUME IInv, [Next]_vars, NEW s \in Syncs, SyncCommit(s), NEW c \in Comments
  PROVE  (\E severity \in Severity : Life(c)!Judge(severity)) \/ UNCHANGED Life(c)!life
<1>1. /\ TypeOK /\ OpenBatches /\ BatchesSplit /\ InsertsApart /\ s \in Tasks
      /\ sync[s].pc = "insert" /\ sync[s].todo = {}
      /\ actions' = Published(actions, s) /\ verdicts' = Published(verdicts, s)
      /\ scheduled'[c] = IF c \in sync[s].toQuarantine THEN "waiting" ELSE scheduled[c]
      /\ missed'[c] = IF c \in sync[s].toQuarantine THEN Looking(c) \cup DecidedBy(c, "human")
                      ELSE missed[c]
      /\ UNCHANGED <<connected, fb, effects, mod, sweep>>
  BY DEF IInv, SyncCommit, page, Tasks
<1>2. /\ Looking(c)' = Looking(c) /\ Dropping(c)' = Dropping(c) /\ CallsFor(c)' = CallsFor(c)
      /\ (fb[c] = "deleted")' = (fb[c] = "deleted") /\ connected' = connected
  BY <1>1, LookingSame DEF Dropping, CallsFor
<1>3. Acted(s) \subseteq sync[s].batch
  BY <1>1 DEF BatchesSplit
<1>4. ASSUME c \notin Acted(s)
      PROVE  Visible(c)' = Visible(c) /\ Reached(c)' = Reached(c)
             /\ scheduled'[c] = scheduled[c] /\ missed'[c] = missed[c]
  <2>1. Own(actions, c, s) = {}
    BY <1>1, <1>4 DEF OpenBatches
  <2>2. RowsQuiet(c)
    BY <1>1, <2>1, PublishedRows DEF RowsQuiet
  <2> QED
    BY <1>1, <1>4, <2>2, QuietHistory DEF Acted
<1>5. CASE c \notin sync[s].batch
  <2>1. Own(verdicts, c, s) = {}
    BY <1>1, <1>5 DEF OpenBatches
  <2>2. Found(c)' = Found(c) \cup {verdicts[c][i].severity : i \in Own(verdicts, c, s)}
    BY <1>1, PublishedFindings
  <2>3. Found(c)' = Found(c)
    BY <2>1, <2>2
  <2> QED
    BY <1>2, <1>3, <1>4, <1>5, <2>3 DEF Life!life
<1>6. CASE c \in sync[s].batch
  <2>1. PICK j \in Nat : Own(verdicts, c, s) = {j} /\ Warrants(s, c, verdicts[c][j].severity)
    BY <1>1, <1>6 DEF OpenBatches
  <2>2. PICK severity \in Severity : severity = verdicts[c][j].severity
    BY <1>1, <2>1, EntryTypes DEF Own, Finding
  <2>3. Found(c)' = Found(c) \cup {severity}
    BY <1>1, <2>1, <2>2, PublishedFindings
  <2>4. CASE c \notin Acted(s)
    <3>1. Life(c)!Judge(severity)
      BY <1>2, <1>4, <2>3, <2>4, Zenon DEF Life!Judge
    <3> QED
      BY <3>1
  <2>5. CASE c \in Acted(s)
    <3>1. PICK i \in Nat : Own(actions, c, s) = {i} /\ actions[c][i] = SyncRow(s, c)
      BY <1>1, <2>5 DEF OpenBatches
    <3>2. /\ Committed(c)' = Committed(c) \cup {i} /\ i \notin Committed(c)
          /\ \A k \in Committed(c) : actions'[c][k] = actions[c][k]
          /\ actions'[c][i].kind = actions[c][i].kind /\ actions'[c][i].actor = actions[c][i].actor
          /\ actions'[c][i].applied = actions[c][i].applied
      BY <1>1, <3>1, PublishedRows
    <3>3. /\ ~actions[c][i].applied
          /\ c \in sync[s].toDelete => actions[c][i].kind = "DELETE" /\ actions[c][i].actor = "auto-removal"
          /\ c \notin sync[s].toDelete /\ c \in sync[s].toQuarantine =>
               actions[c][i].kind = "HIDE" /\ actions[c][i].actor = "auto-removal"
          /\ c \notin sync[s].toDelete /\ c \notin sync[s].toQuarantine =>
               actions[c][i].kind = "HIDE" /\ actions[c][i].actor = "auto-hide"
      BY <3>1, FieldUpdates DEF SyncRow
    <3>4. Reached(c)' = Reached(c)
      BY <3>2, <3>3 DEF Reached
    <3>5. PICK d \in Visible(c)' : /\ Life(c)!Appears(d) /\ d.at = i
                                   /\ d.kind = actions'[c][i].kind /\ d.actor = actions'[c][i].actor
      BY <1>1, <3>2, OneAppears
    <3>6. CASE c \in sync[s].toDelete
      <4>1. severity = "HARMFUL" /\ AutoRemovalEnabled
        BY <2>1, <2>2, <3>6 DEF Warrants, AutoRemovable
      <4>2. Life(c)!Taken(d, "DELETE", "auto-removal")
        BY <3>2, <3>3, <3>5, <3>6 DEF Life!Taken
      <4>3. scheduled'[c] = scheduled[c] /\ missed'[c] = missed[c]
        BY <1>1, <3>6 DEF BatchesSplit
      <4>4. Life(c)!Judge(severity)
        BY <1>2, <2>3, <3>4, <4>1, <4>2, <4>3, Zenon DEF Life!Judge
      <4> QED
        BY <4>4
    <3>7. CASE c \notin sync[s].toDelete /\ c \in sync[s].toQuarantine
      <4>1. severity = "HARMFUL" /\ AutoRemovalEnabled
        BY <2>1, <2>2, <3>7 DEF Warrants, AutoRemovable
      <4>2. Life(c)!Taken(d, "HIDE", "auto-removal")
        BY <3>2, <3>3, <3>5, <3>7 DEF Life!Taken
      <4>3. scheduled[c] = "none" /\ scheduled'[c] = "waiting"
        BY <1>1, <1>6, <3>7 DEF InsertsApart, Starts, Inserted
      <4>4. missed'[c] = Looking(c) \cup {e.at : e \in {e \in Visible(c) : e.actor = "human"}}
        BY <1>1, <3>7, HumansSeen
      <4>5. Life(c)!Judge(severity)
        BY <1>2, <2>3, <3>4, <4>1, <4>2, <4>3, <4>4, Zenon DEF Life!Judge
      <4> QED
        BY <4>5
    <3>8. CASE c \notin sync[s].toDelete /\ c \notin sync[s].toQuarantine
      <4>1. severity = "OFFENSIVE"
        BY <2>1, <2>2, <2>5, <3>8 DEF Warrants, Acted
      <4>2. Life(c)!Taken(d, "HIDE", "auto-hide")
        BY <3>2, <3>3, <3>5, <3>8 DEF Life!Taken
      <4>3. scheduled'[c] = scheduled[c] /\ missed'[c] = missed[c]
        BY <1>1, <3>8
      <4>4. Life(c)!Judge(severity)
        BY <1>2, <2>3, <3>4, <4>1, <4>2, <4>3, Zenon DEF Life!Judge
      <4> QED
        BY <4>4
    <3> QED
      BY <3>6, <3>7, <3>8
  <2> QED
    BY <2>4, <2>5
<1> QED
  BY <1>5, <1>6

\* A sync's mark says of the last decision of its kind that it has reached Facebook.
LEMMA MarkLife ==
  ASSUME TypeOK, AnswersTrue, [Next]_vars, NEW s \in Syncs, SyncMark(s), NEW c \in Comments
  PROVE  Life(c)!Confirm \/ UNCHANGED Life(c)!life
<1>1. PICK kind : kind = sync[s].kind
  OBVIOUS
<1>2. actions' = MarkApplied(sync[s].cur, kind) /\ sync[s].cur \in Comments
      /\ UNCHANGED <<verdicts, scheduled, connected, fb, effects, mod, sweep, missed>>
  BY <1>1 DEF SyncMark, page, TypeOK, CursorsSet
<1>3. actions \in [Comments -> Seq(Row)]
  BY DEF TypeOK
<1>4. /\ Found(c)' = Found(c) /\ CallsFor(c)' = CallsFor(c) /\ Dropping(c)' = Dropping(c)
      /\ Looking(c)' = Looking(c) /\ missed' = missed
      /\ scheduled' = scheduled /\ connected' = connected /\ fb' = fb
  BY <1>2, LookingSame DEF Found, CallsFor, Dropping
<1>5. CASE c # sync[s].cur
  <2>1. actions'[c] = actions[c]
    BY <1>2, <1>3, <1>5 DEF MarkApplied
  <2>2. Visible(c)' = Visible(c) /\ Reached(c)' = Reached(c)
    BY <2>1 DEF Visible, Reached, Committed
  <2> QED
    BY <1>4, <2>2 DEF Life!life
<1>6. CASE c = sync[s].cur
  <2>1. /\ DOMAIN actions'[c] = DOMAIN actions[c]
        /\ \A i \in DOMAIN actions[c] : actions'[c][i] =
             IF IsLatest(c, kind, i) THEN [actions[c][i] EXCEPT !.applied = TRUE] ELSE actions[c][i]
    BY <1>2, <1>3, <1>6 DEF MarkApplied
  <2>2. \A i \in DOMAIN actions[c] : actions[c][i] \in Row
    BY EntryTypes
  <2>3. \A i \in DOMAIN actions[c] :
          /\ actions'[c][i].kind = actions[c][i].kind /\ actions'[c][i].actor = actions[c][i].actor
          /\ actions'[c][i].tx = actions[c][i].tx
          /\ actions'[c][i].applied = (IsLatest(c, kind, i) \/ actions[c][i].applied)
    BY <2>1, <2>2 DEF Row
  <2>4. Committed(c)' = Committed(c) /\ Committed(c) \subseteq DOMAIN actions[c]
    BY <2>1, <2>3 DEF Committed, VisibleRows
  <2>5. Visible(c)' = Visible(c)
    BY <2>3, <2>4 DEF Visible
  <2>6. Reached(c)' = Reached(c) \cup {i \in Committed(c) : IsLatest(c, kind, i)}
    BY <2>3, <2>4 DEF Reached
  <2>7. CASE {i \in Committed(c) : IsLatest(c, kind, i)} = {}
    BY <1>4, <2>5, <2>6, <2>7 DEF Life!life
  <2>8. ASSUME NEW i \in Committed(c), IsLatest(c, kind, i) PROVE Life(c)!Confirm
    <3>1. actions[c][i].kind = kind /\ \A j \in Committed(c) : actions[c][j].kind = kind => j <= i
      BY <2>8 DEF IsLatest
    <3>2. \A j \in Committed(c) : IsLatest(c, kind, j) => j = i
      <4> SUFFICES ASSUME NEW j \in Committed(c), IsLatest(c, kind, j) PROVE j = i
        OBVIOUS
      <4>1. j <= i /\ i <= j
        BY <2>8, <3>1 DEF IsLatest
      <4>2. i \in Nat /\ j \in Nat
        BY <1>3, <2>4
      <4> QED
        BY <4>1, <4>2
    <3>3. Reached(c)' = Reached(c) \cup {i}
      BY <2>6, <2>8, <3>2
    <3>4. PICK d \in Visible(c) : d.at = i
      BY <2>8, VisibleIs
    <3>5. d.kind = kind /\ \A e \in Visible(c) : e.kind = d.kind => e.at <= d.at
      BY <3>1, <3>4, VisibleIs
    <3>6. Life(c)!Answered("sync", d.kind)
      <4>1. <<c, "sync", kind>> \in effects /\ kind \in Mirrored
        BY <1>1, <1>6 DEF AnswersTrue, SyncMark, TypeOK, SyncState, Mirrored, Kind
      <4> QED
        BY <3>5, <4>1 DEF Life!Answered, CallsFor, Caller
    <3> QED
      BY <1>4, <2>5, <3>3, <3>4, <3>5, <3>6, Zenon DEF Life!Confirm, Life!people
  <2> QED
    BY <2>7, <2>8
<1> QED
  BY <1>5, <1>6

\* A person who has not looked for a countdown is not among those who have.
LEMMA NotLooked ==
  ASSUME NEW c \in Comments, NEW m \in Moderators, ~HasLooked(m)
  PROVE  Looking(c) \cap Own(actions, c, m) = {}
BY DEF Looking, Own

\* Requests that come, or begin their transaction, are no step of a life.
LEMMA ModQuiet ==
  ASSUME TypeOK, [Next]_vars, NEW m \in Moderators, NEW c \in Comments,
         ActionAdmit(m) \/ ActionBegin(m)
  PROVE  UNCHANGED Life(c)!life
<1>1. /\ UNCHANGED <<verdicts, scheduled, connected, fb, sweep, effects, missed>>
      /\ \A n \in Moderators \ {m} : mod'[n] = mod[n]
  BY DEF ActionAdmit, ActionBegin, tables, page, TypeOK
<1>2. ~HasLooked(m) /\ ~HasLooked(m)'
  <2>1. CASE ActionAdmit(m)
    <3>1. mod[m].pc = "idle" /\ mod'[m].pc = "admitted"
      BY <2>1 DEF ActionAdmit, TypeOK, IdleMod
    <3> QED
      BY <3>1 DEF HasLooked
  <2>2. CASE ActionBegin(m)
    <3>1. mod[m].pc = "admitted" /\ mod'[m].pc = "begun"
      BY <2>2 DEF ActionBegin, TypeOK, ModState
    <3> QED
      BY <3>1 DEF HasLooked
  <2> QED
    BY <2>1, <2>2
<1>3. Looking(c)' = Looking(c)
  BY <1>1, <1>2, LookingMoves, NotLooked
<1>4. RowsQuiet(c)
  <2>1. CASE ActionAdmit(m)
    BY <2>1, OpenQuiet DEF ActionAdmit, tables
  <2>2. CASE ActionBegin(m)
    <3>1. HumanRow(m) \in Row /\ HumanRow(m).tx # "committed"
      BY HumanRowTypes, FieldUpdates, TasksAssumption DEF Tasks
    <3>2. actions'[c] = actions[c] \/ actions'[c] = Append(actions[c], HumanRow(m))
      BY <2>2 DEF ActionBegin, TypeOK
    <3> QED
      BY <3>1, <3>2, OpenQuiet
  <2> QED
    BY <2>1, <2>2
<1>5. Found(c)' = Found(c) /\ Dropping(c)' = Dropping(c)
  BY <1>1 DEF Found, Dropping
<1> QED
  BY <1>1, <1>3, <1>4, <1>5, QuietSettled, QuietLife

\* One that cancels has looked for a countdown, and has missed none.
LEMMA LookLife ==
  ASSUME IInv, [Next]_vars, NEW m \in Moderators, ActionCancel(m), NEW c \in Comments
  PROVE  Life(c)!Look \/ UNCHANGED Life(c)!life
<1>1. /\ TypeOK /\ OpenActs /\ MissedLooked /\ UNCHANGED <<tables, page, fb, sweep, effects, missed>>
      /\ mod[m].pc = "begun" /\ mod'[m].pc = "open" /\ m \in Tasks
      /\ \A n \in Moderators \ {m} : mod'[n] = mod[n]
  BY DEF IInv, ActionCancel, TypeOK, ModState, Tasks
<1>2. RowsQuiet(c) /\ Found(c)' = Found(c) /\ Dropping(c)' = Dropping(c)
  BY <1>1, OpenQuiet DEF tables, Found, Dropping
<1>3. Settled(c) /\ UNCHANGED <<fb, effects>>
  BY <1>1, <1>2, QuietSettled DEF tables, page
<1>4. ~HasLooked(m) /\ HasLooked(m)' /\ Own(actions', c, m) = Own(actions, c, m)
  BY <1>1 DEF HasLooked, tables, Own
<1>5. Looking(c)' = Looking(c) \cup Own(actions, c, m)
  <2>1. Looking(c) \cap Own(actions, c, m) = {}
    BY <1>4, NotLooked
  <2>2. Looking(c)' = (Looking(c) \ Own(actions, c, m))
                        \cup {i \in Own(actions', c, m) : HasLooked(m)'}
    BY <1>1, LookingMoves
  <2> QED
    BY <1>4, <2>1, <2>2
<1>6. CASE c # mod[m].cur
  <2>1. Own(actions, c, m) = {}
    BY <1>1, <1>6 DEF OpenActs, Writing
  <2> QED
    BY <1>2, <1>3, <1>5, <2>1, QuietLife
<1>7. CASE c = mod[m].cur
  <2>1. PICK i \in Nat : Own(actions, c, m) = {i}
    BY <1>1, <1>7 DEF OpenActs, Writing
  <2>2. actions[c][i].tx = m
    BY <2>1 DEF Own
  <2>3. i \notin missed[c]
    BY <1>1, <1>4, <2>2 DEF MissedLooked
  <2>4. i \notin Committed(c)
    BY <2>2, TasksAssumption DEF Committed, VisibleRows, Tasks
  <2>5. \A d \in Visible(c) : d.at # i
    BY <2>4, VisibleIs
  <2>6. i \in Looking(c)' \ missed[c] /\ Looking(c)' = Looking(c) \cup {i}
    BY <1>5, <2>1, <2>3
  <2>7. CallsFor(c)' = CallsFor(c) /\ (fb[c] = "deleted")' = (fb[c] = "deleted")
    BY <1>3 DEF CallsFor
  <2> QED
    BY <1>2, <1>3, <2>5, <2>6, <2>7, Zenon DEF Life!Look, Settled
<1> QED
  BY <1>6, <1>7

\* Who leaves off is forgotten, if they had looked.
LEMMA LeavesLooking ==
  ASSUME TypeOK, OpenActs, [Next]_vars, NEW m \in Moderators, mod' = [mod EXCEPT ![m] = IdleMod],
         NEW c \in Comments
  PROVE  /\ Looking(c)' = Looking(c) \ Own(actions, c, m)
         /\ \/ Looking(c)' = Looking(c)
            \/ /\ mod[m].cur = c
               /\ \E i \in Looking(c) : Own(actions, c, m) = {i} /\ Looking(c)' = Looking(c) \ {i}
<1>1. ~HasLooked(m)' /\ \A n \in Moderators \ {m} : mod'[n] = mod[n]
  BY DEF HasLooked, TypeOK, IdleMod
<1>2. Looking(c)' = Looking(c) \ Own(actions, c, m)
  BY <1>1, LookingMoves
<1>3. CASE ~Writing(m, c)
  <2>1. Own(actions, c, m) = {}
    BY <1>3 DEF OpenActs
  <2> QED
    BY <1>2, <2>1
<1>4. CASE Writing(m, c) /\ ~HasLooked(m)
  BY <1>2, <1>4, NotLooked
<1>5. CASE Writing(m, c) /\ HasLooked(m)
  <2>1. PICK i \in Nat : Own(actions, c, m) = {i}
    BY <1>5 DEF OpenActs
  <2>2. i \in Looking(c)
    BY <1>5, <2>1 DEF Own, Looking
  <2> QED
    BY <1>2, <1>5, <2>1, <2>2 DEF Writing
<1> QED
  BY <1>3, <1>4, <1>5

\* A request that dies leaves off, and nobody sees what it wrote.
LEMMA ActionCrashLife ==
  ASSUME IInv, [Next]_vars, NEW m \in Moderators, ActionCrash(m), NEW c \in Comments
  PROVE  Life(c)!GiveUp \/ UNCHANGED Life(c)!life
<1>1. /\ TypeOK /\ OpenActs /\ UNCHANGED <<verdicts, scheduled, page, fb, sweep, effects, missed>>
      /\ actions' = Undone(actions, m, DeadRow) /\ mod' = [mod EXCEPT ![m] = IdleMod] /\ m \in Tasks
  BY DEF IInv, ActionCrash, Tasks
<1>2. RowsQuiet(c) /\ Found(c)' = Found(c) /\ Dropping(c)' = Dropping(c)
  BY <1>1, OpenQuiet DEF Found, Dropping
<1>3. Settled(c) /\ UNCHANGED <<fb, effects>>
  BY <1>1, <1>2, QuietSettled DEF page
<1>4. CASE Looking(c)' = Looking(c)
  BY <1>2, <1>3, <1>4, QuietLife
<1>5. CASE \E i \in Looking(c) : Looking(c)' = Looking(c) \ {i}
  <2>1. CallsFor(c)' = CallsFor(c) /\ (fb[c] = "deleted")' = (fb[c] = "deleted")
    BY <1>3 DEF CallsFor
  <2> QED
    BY <1>2, <1>3, <1>5, <2>1, Zenon DEF Life!GiveUp, Life!LeavesOff, Settled
<1> QED
  BY <1>1, <1>4, <1>5, LeavesLooking

\* A person's call may be carried out though it is said to have failed.
LEMMA ModCallLife ==
  ASSUME IInv, [Next]_vars, NEW m \in Moderators, NEW c \in Comments,
         ActionCallOk(m) \/ ActionCallFails(m)
  PROVE  (\E kind \in Mirrored : Life(c)!Call("human", kind)) \/ Life(c)!GiveUp
         \/ UNCHANGED Life(c)!life
<1>1. /\ TypeOK /\ OpenActs /\ mod[m].pc = "open" /\ mod[m].mirror /\ m \in Tasks
      /\ UNCHANGED <<verdicts, scheduled, page, sweep, missed>>
      /\ mod[m].cur \in Comments /\ mod[m].kind \in Mirrored /\ "human" \in Caller
  BY DEF IInv, ActionCallOk, ActionCallFails, tables, TypeOK, CursorsSet, Caller, Tasks
<1>2. RowsQuiet(c)
  <2>1. CASE ActionCallOk(m)
    BY <1>1, <2>1, OpenQuiet DEF ActionCallOk, tables
  <2>2. CASE ActionCallFails(m)
    BY <1>1, <2>2, OpenQuiet DEF ActionCallFails
  <2> QED
    BY <2>1, <2>2
<1>3. Found(c)' = Found(c) /\ Dropping(c)' = Dropping(c)
  BY <1>1 DEF Found, Dropping
<1>4. Settled(c)
  BY <1>1, <1>2, <1>3, QuietSettled DEF page
<1>5. ASSUME Looking(c)' = Looking(c), NEW kind, kind = mod[m].kind,
             GraphAccepts(mod[m].cur, kind, "human") \/ GraphFails(mod[m].cur, kind, "human")
      PROVE  (\E k \in Mirrored : Life(c)!Call("human", k)) \/ UNCHANGED Life(c)!life
  <2>1. Life(c)!Call("human", kind) \/ UNCHANGED Life(c)!life
    BY <1>1, <1>3, <1>4, <1>5, GraphLife
  <2> QED
    BY <1>1, <1>5, <2>1
<1>6. CASE ActionCallOk(m)
  <2>1. /\ \A n \in Moderators \ {m} : mod'[n] = mod[n]
        /\ HasLooked(m) /\ HasLooked(m)' /\ actions' = actions
        /\ GraphAccepts(mod[m].cur, mod[m].kind, "human")
    BY <1>1, <1>6 DEF ActionCallOk, TypeOK, ModState, HasLooked, tables
  <2>2. Looking(c)' = (Looking(c) \ Own(actions, c, m))
                        \cup {i \in Own(actions', c, m) : HasLooked(m)'}
    BY <1>1, <2>1, LookingMoves
  <2>3. Own(actions', c, m) = Own(actions, c, m) /\ Own(actions, c, m) \subseteq Looking(c)
    BY <2>1 DEF Own, Looking
  <2>4. Looking(c)' = Looking(c)
    BY <2>1, <2>2, <2>3
  <2> QED
    BY <1>5, <2>1, <2>4
<1>7. CASE ActionCallFails(m)
  <2>1. GraphFails(mod[m].cur, mod[m].kind, "human") /\ mod' = [mod EXCEPT ![m] = IdleMod]
    BY <1>7 DEF ActionCallFails
  <2>2. CASE Looking(c)' = Looking(c)
    BY <1>5, <2>1, <2>2
  <2>3. CASE mod[m].cur = c /\ \E i \in Looking(c) : Looking(c)' = Looking(c) \ {i}
    <3>1. CASE UNCHANGED <<fb, effects>>
      <4>1. CallsFor(c)' = CallsFor(c) /\ (fb[c] = "deleted")' = (fb[c] = "deleted")
        BY <3>1 DEF CallsFor
      <4>2. Life(c)!GiveUp
        BY <1>3, <1>4, <2>3, <4>1, Zenon DEF Life!GiveUp, Life!LeavesOff, Settled
      <4> QED
        BY <4>2
    <3>2. CASE ~UNCHANGED <<fb, effects>>
      <4>1. PICK kind \in Mirrored : kind = mod[m].kind
        BY <1>1
      <4>2. /\ effects' = effects \cup {<<c, "human", kind>>}
            /\ (fb[c] # "deleted" /\ fb'[c] = After(kind)) \/ (kind = "DELETE" /\ fb' = fb)
        BY <1>1, <2>1, <2>3, <3>2, <4>1, GraphDone
      <4>3. Life(c)!Call("human", kind)
        BY <1>1, <1>3, <1>4, <2>3, <4>2, CallLife
      <4> QED
        BY <4>3
    <3> QED
      BY <3>1, <3>2
  <2> QED
    BY <1>1, <2>1, <2>2, <2>3, LeavesLooking
<1> QED
  BY <1>6, <1>7

\* A commit shows a person's decision, at the place where its transaction began.
LEMMA CommitLife ==
  ASSUME IInv, [Next]_vars, NEW m \in Moderators, ActionCommit(m), NEW c \in Comments
  PROVE  Life(c)!Decide \/ UNCHANGED Life(c)!life
<1>1. /\ TypeOK /\ OpenActs /\ AnswersTrue /\ OpenDecisionsCancel /\ m \in Tasks
      /\ mod[m].pc = "answered" \/ (mod[m].pc = "open" /\ ~mod[m].mirror)
      /\ mod[m] \in ModState /\ mod[m].cur \in Comments
      /\ actions' = Published(actions, m) /\ mod' = [mod EXCEPT ![m] = IdleMod]
      /\ UNCHANGED <<verdicts, connected, fb, effects, sweep, missed>>
      /\ scheduled'[c] = IF mod[m].holds /\ c = mod[m].cur THEN "none" ELSE scheduled[c]
  BY DEF IInv, ActionCommit, page, TypeOK, CursorsSet, Tasks
<1>2. /\ Found(c)' = Found(c) /\ CallsFor(c)' = CallsFor(c) /\ Dropping(c)' = Dropping(c)
      /\ (fb[c] = "deleted")' = (fb[c] = "deleted") /\ connected' = connected /\ missed' = missed
  BY <1>1 DEF Found, CallsFor, Dropping
<1>3. HasLooked(m) /\ Looking(c)' = Looking(c) \ Own(actions, c, m)
  BY <1>1, LeavesLooking DEF HasLooked
<1>4. CASE c # mod[m].cur
  <2>1. Own(actions, c, m) = {}
    BY <1>4, <1>1 DEF OpenActs, Writing
  <2>2. RowsQuiet(c)
    <3>1. /\ Committed(c)' = Committed(c) \cup Own(actions, c, m)
          /\ \A i \in Committed(c) : actions'[c][i] = actions[c][i]
      BY <1>1, PublishedRows
    <3> QED
      BY <2>1, <3>1 DEF RowsQuiet
  <2>3. scheduled'[c] = scheduled[c]
    BY <1>1, <1>4
  <2> QED
    BY <1>2, <1>3, <2>1, <2>2, <2>3, QuietHistory DEF Life!life
<1>5. CASE c = mod[m].cur
  <2>1. PICK i \in Nat : Own(actions, c, m) = {i} /\ actions[c][i] = HumanRow(m)
    BY <1>1, <1>5 DEF OpenActs, Writing
  <2>2. /\ Committed(c)' = Committed(c) \cup {i} /\ i \notin Committed(c)
        /\ \A k \in Committed(c) : actions'[c][k] = actions[c][k]
        /\ actions'[c][i].kind = mod[m].kind /\ actions'[c][i].actor = "human"
        /\ actions'[c][i].applied = mod[m].mirror
    BY <1>1, <2>1, PublishedRows, FieldUpdates
  <2>3. PICK d \in Visible(c)' : /\ Life(c)!Appears(d) /\ d.at = i
                                 /\ d.kind = mod[m].kind /\ d.actor = "human"
    BY <1>1, <2>2, OneAppears
  <2>4. d.kind \in Life(c)!Kind
    BY <1>1, <2>3 DEF ModState, Kind, Life!Kind
  <2>5. d.at \in Looking(c) /\ Looking(c)' = Looking(c) \ {d.at}
    BY <1>3, <2>1, <2>3 DEF Own, Looking
  <2>6. Reached(c)' = IF mod[m].mirror THEN Reached(c) \cup {d.at} ELSE Reached(c)
    BY <2>2, <2>3 DEF Reached
  <2>7. mod[m].mirror => Life(c)!Answered("human", d.kind)
    <3> SUFFICES ASSUME mod[m].mirror PROVE Life(c)!Answered("human", d.kind)
      OBVIOUS
    <3>1. <<c, "human", mod[m].kind>> \in effects /\ mod[m].kind \in Mirrored
      BY <1>1, <1>5 DEF AnswersTrue, TypeOK, CursorsSet
    <3> QED
      BY <2>3, <3>1 DEF Life!Answered, CallsFor, Caller
  <2>8. scheduled'[c] = "none" \/ (d.at \in missed[c] /\ scheduled'[c] = scheduled[c])
    <3>1. CASE mod[m].holds \/ scheduled[c] = "none"
      BY <1>1, <1>5, <3>1
    <3>2. CASE ~mod[m].holds /\ scheduled[c] # "none"
      BY <1>1, <1>3, <1>5, <2>1, <2>3, <3>2 DEF OpenDecisionsCancel
    <3> QED
      BY <3>1, <3>2
  <2> QED
    BY <1>2, <2>3, <2>4, <2>5, <2>6, <2>7, <2>8, Zenon DEF Life!Decide
<1> QED
  BY <1>4, <1>5

\* Who is dropping a comment's countdown changes with the sweep that moves.
LEMMA DroppingMoves ==
  ASSUME TypeOK, NEW w \in Sweepers, NEW local, sweep' = [sweep EXCEPT ![w] = local],
         NEW c \in Comments
  PROVE  Dropping(c)' <=>
           \/ local.pc = "drop" /\ local.cur = c
           \/ \E v \in Sweepers \ {w} : sweep[v].pc = "drop" /\ sweep[v].cur = c
<1>1. sweep'[w] = local /\ \A v \in Sweepers \ {w} : sweep'[v] = sweep[v]
  BY DEF TypeOK
<1> QED
  BY <1>1 DEF Dropping

\* A sweep that comes, finds no Page, goes on or dies changes no more than that.
LEMMA SweepQuiet ==
  ASSUME TypeOK, [Next]_vars, ListsDecided, NEW w \in Sweepers, NEW c \in Comments,
         SweepStart(w) \/ SweepCredential(w) \/ SweepReturn(w) \/ SweepCrash(w)
  PROVE  Life(c)!Drop
<1>1. UNCHANGED <<tables, page, fb, mod, effects, missed>>
  BY DEF SweepStart, SweepCredential, SweepReturn, SweepCrash
<1>2. Settled(c) /\ Looking(c)' = Looking(c)
  <2>1. RowsQuiet(c) /\ Found(c)' = Found(c)
    BY <1>1, OpenQuiet DEF tables, Found
  <2> QED
    BY <1>1, <2>1, QuietSettled, LookingSame DEF tables, page
<1>3. CallsFor(c)' = CallsFor(c) /\ (fb[c] = "deleted")' = (fb[c] = "deleted")
  BY <1>1 DEF CallsFor
<1>4. Dropping(c)' => Dropping(c) \/ (~connected /\ HasRow(c, "HIDE", "auto-removal"))
  <2>1. CASE SweepCredential(w)
    <3>1. PICK d \in sweep[w].due :
            sweep' = [sweep EXCEPT ![w] = [pc |-> IF connected THEN "call" ELSE "drop",
                                           due |-> sweep[w].due \ {d}, cur |-> d]]
      BY <2>1 DEF SweepCredential
    <3>2. Dropping(c)' => Dropping(c) \/ (~connected /\ d = c)
      BY <3>1, DroppingMoves DEF Dropping
    <3>3. d = c => HasRow(c, "HIDE", "auto-removal")
      BY <3>1 DEF ListsDecided
    <3> QED
      BY <3>2, <3>3
  <2>2. CASE SweepStart(w) \/ SweepReturn(w) \/ SweepCrash(w)
    <3>1. PICK local : sweep' = [sweep EXCEPT ![w] = local] /\ local.pc # "drop"
      <4>1. \A due : [sweep[w] EXCEPT !.pc = "loop", !.due = due].pc # "drop"
        BY DEF TypeOK, SweepState
      <4>2. IdleSweep.pc # "drop"
        BY DEF IdleSweep
      <4> QED
        BY <2>2, <4>1, <4>2 DEF SweepStart, SweepReturn, SweepCrash
    <3> QED
      BY <3>1, DroppingMoves DEF Dropping
  <2> QED
    BY <2>1, <2>2
<1>5. HasRow(c, "HIDE", "auto-removal") => Life(c)!ToBeRemoved
  BY VisibleIs DEF Life!ToBeRemoved
<1>6. Dropping(c)' \in BOOLEAN
  BY DEF Dropping
<1> QED
  BY <1>2, <1>3, <1>4, <1>5, <1>6, Zenon DEF Life!Drop, Life!people, Settled

\* Its call is for a comment that was put on the countdown.
LEMMA SweepCallLife ==
  ASSUME TypeOK, [Next]_vars, ListsDecided, NEW w \in Sweepers, NEW c \in Comments,
         SweepCallOk(w) \/ SweepCallFails(w)
  PROVE  Life(c)!Call("sweep", "DELETE") \/ UNCHANGED Life(c)!life
<1>1. /\ sweep[w].pc = "call"
      /\ \/ GraphAccepts(sweep[w].cur, "DELETE", "sweep")
         \/ GraphFails(sweep[w].cur, "DELETE", "sweep")
      /\ UNCHANGED <<tables, page, mod, missed>>
  BY DEF SweepCallOk, SweepCallFails
<1>2. sweep[w].cur \in Comments /\ "DELETE" \in Mirrored /\ "sweep" \in Caller
  BY <1>1 DEF TypeOK, CursorsSet, Mirrored, Kind, Caller
<1>3. HasRow(sweep[w].cur, "HIDE", "auto-removal")
  BY <1>2 DEF ListsDecided
<1>4. Settled(c) /\ Looking(c)' = Looking(c)
  <2>1. RowsQuiet(c) /\ Found(c)' = Found(c)
    BY <1>1, OpenQuiet DEF tables, Found
  <2> QED
    BY <1>1, <2>1, QuietSettled, LookingSame DEF tables, page
<1>5. Dropping(c)' = Dropping(c)
  <2>1. PICK local : sweep' = [sweep EXCEPT ![w] = local] /\ local.pc # "drop"
    <3>1. [sweep[w] EXCEPT !.pc = "record"].pc # "drop" /\ NextDue(w).pc # "drop"
      BY DEF NextDue, TypeOK, SweepState
    <3> QED
      BY <3>1 DEF SweepCallOk, SweepCallFails
  <2> QED
    BY <1>1, <2>1, DroppingMoves DEF Dropping
<1> QED
  BY <1>1, <1>2, <1>3, <1>4, <1>5, GraphLife

\* The deletion a sweep records is the last decision, and Facebook has answered it.
LEMMA RecordLife ==
  ASSUME TypeOK, AnswersTrue, [Next]_vars, NEW w \in Sweepers, SweepRecord(w), NEW c \in Comments
  PROVE  Life(c)!Record \/ UNCHANGED Life(c)!life
<1>1. /\ sweep[w].cur \in Comments /\ sweep[w].pc = "record"
      /\ UNCHANGED <<verdicts, scheduled, connected, fb, effects, mod, missed>>
      /\ actions'[c] = IF c = sweep[w].cur THEN Append(actions[c], SweepRow) ELSE actions[c]
      /\ sweep' = [sweep EXCEPT ![w].pc = "pop"]
  BY DEF SweepRecord, SweepRow, page, TypeOK, CursorsSet
<1>2. Dropping(c)' = Dropping(c)
  <2>1. /\ \A v \in Sweepers \ {w} : sweep'[v] = sweep[v]
        /\ sweep'[w].pc = "pop"
    BY <1>1 DEF TypeOK, SweepState
  <2> QED
    BY <1>1, <2>1 DEF Dropping
<1>3. /\ Found(c)' = Found(c) /\ CallsFor(c)' = CallsFor(c) /\ scheduled'[c] = scheduled[c]
      /\ connected' = connected /\ (fb[c] = "deleted")' = (fb[c] = "deleted")
      /\ Looking(c)' = Looking(c) /\ missed' = missed
  BY <1>1, LookingSame DEF Found, CallsFor
<1>4. CASE c # sweep[w].cur
  <2>1. actions'[c] = actions[c]
    BY <1>1, <1>4
  <2>2. Visible(c)' = Visible(c) /\ Reached(c)' = Reached(c)
    BY <2>1 DEF Visible, Reached, Committed
  <2> QED
    BY <1>2, <1>3, <2>2 DEF Life!life
<1>5. CASE c = sweep[w].cur
  <2>1. SweepRow \in Row /\ SweepRow.tx = "committed" /\ SweepRow.kind = "DELETE"
        /\ SweepRow.actor = "auto-removal" /\ SweepRow.applied
    BY FieldUpdates, RowTypes DEF SweepRow, AutoRow
  <2>2. PICK i : i = Len(actions[c]) + 1
    OBVIOUS
  <2>3. /\ actions[c] \in Seq(Row) /\ DOMAIN actions[c] = 1 .. Len(actions[c]) /\ Len(actions[c]) \in Nat
        /\ actions'[c] = Append(actions[c], SweepRow)
    BY <1>1, <1>5, EntryTypes
  <2>4. /\ DOMAIN actions'[c] = DOMAIN actions[c] \cup {i} /\ i \notin DOMAIN actions[c]
        /\ \A j \in DOMAIN actions[c] : actions'[c][j] = actions[c][j]
        /\ actions'[c][i] = SweepRow
    BY <2>1, <2>2, <2>3, AppendRows
  <2>5. Committed(c)' = Committed(c) \cup {i} /\ i \notin Committed(c)
    BY <2>1, <2>4 DEF Committed, VisibleRows
  <2>6. PICK d \in Visible(c)' : /\ Life(c)!Appears(d) /\ d.at = i
                                 /\ d.kind = "DELETE" /\ d.actor = "auto-removal"
    BY <2>1, <2>4, <2>5, OneAppears
  <2>7. Life(c)!Taken(d, "DELETE", "auto-removal")
    BY <2>6 DEF Life!Taken
  <2>8. \A e \in Visible(c) : e.at < d.at
    <3>1. \A j \in Committed(c) : j < i
      BY <2>2, <2>3 DEF Committed, VisibleRows
    <3> QED
      BY <2>6, <3>1, VisibleIs
  <2>9. Reached(c)' = Reached(c) \cup {d.at}
    <3>1. \A j \in Committed(c) : actions'[c][j] = actions[c][j]
      BY <2>4 DEF Committed, VisibleRows
    <3> QED
      BY <2>1, <2>4, <2>5, <2>6, <3>1 DEF Reached
  <2>10. Life(c)!Answered("sweep", "DELETE")
    <3>1. <<c, "sweep", "DELETE">> \in effects /\ "DELETE" \in Mirrored
      BY <1>1, <1>5 DEF AnswersTrue, Mirrored, Kind
    <3> QED
      BY <3>1 DEF Life!Answered, CallsFor, Caller
  <2> QED
    BY <1>2, <1>3, <2>7, <2>8, <2>9, <2>10, Zenon DEF Life!Record, Life!people
<1> QED
  BY <1>4, <1>5

\* A countdown it takes away was recorded as done, or has no Page any more.
LEMMA PopLife ==
  ASSUME TypeOK, ListsDecided, [Next]_vars, NEW w \in Sweepers, SweepPop(w), NEW c \in Comments
  PROVE  Life(c)!Lapse \/ UNCHANGED Life(c)!life
<1>1. /\ sweep[w].pc \in {"pop", "drop"} /\ sweep[w].cur \in Comments
      /\ scheduled' = [scheduled EXCEPT ![sweep[w].cur] = "none"]
      /\ sweep' = [sweep EXCEPT ![w] = NextDue(w)]
      /\ UNCHANGED <<verdicts, actions, page, fb, effects, mod, missed>>
  BY DEF SweepPop, TypeOK, CursorsSet
<1>2. Found(c)' = Found(c) /\ Visible(c)' = Visible(c) /\ Reached(c)' = Reached(c)
      /\ CallsFor(c)' = CallsFor(c) /\ (fb[c] = "deleted")' = (fb[c] = "deleted")
      /\ connected' = connected /\ Looking(c)' = Looking(c) /\ missed' = missed
  BY <1>1, LookingSame DEF Found, Visible, Reached, CallsFor, Committed, page
<1>3. NextDue(w).pc # "drop"
  BY DEF NextDue, TypeOK, SweepState
<1>4. CASE c = sweep[w].cur
  <2>1. scheduled'[c] = "none"
    BY <1>1, <1>4 DEF TypeOK
  <2>2. Dropping(c)' => Dropping(c)
    BY <1>1, <1>3, DroppingMoves DEF Dropping
  <2>3. Life(c)!Decided("DELETE", "auto-removal") \/ Dropping(c)
    <3>1. HasRow(c, "DELETE", "auto-removal") \/ Dropping(c)
      BY <1>1, <1>4 DEF ListsDecided, Dropping
    <3> QED
      BY <3>1, VisibleIs
  <2> QED
    BY <1>2, <2>1, <2>2, <2>3, Zenon DEF Life!Lapse, Life!people
<1>5. CASE c # sweep[w].cur
  <2>1. scheduled'[c] = scheduled[c]
    BY <1>1, <1>5 DEF TypeOK
  <2>2. Dropping(c)' = Dropping(c)
    BY <1>1, <1>3, <1>5, DroppingMoves DEF Dropping
  <2> QED
    BY <1>2, <2>1, <2>2 DEF Life!life
<1> QED
  BY <1>4, <1>5

\* Time, the author and the workspace change what they change, and nothing else.
LEMMA EnvironmentLife ==
  ASSUME TypeOK, [Next]_vars, Environment, NEW c \in Comments
  PROVE  \/ Life(c)!RunOut \/ Life(c)!AuthorRemoves \/ Life(c)!PageChanges
         \/ UNCHANGED Life(c)!life
<1>1. UNCHANGED <<verdicts, actions, sweep, effects, mod, missed>>
  BY DEF Environment, CountdownEnds, AuthorRemoves, ConnectionChanges, LicenceChanges, tables
<1>2. Found(c)' = Found(c) /\ Visible(c)' = Visible(c) /\ Reached(c)' = Reached(c)
      /\ CallsFor(c)' = CallsFor(c) /\ Dropping(c)' = Dropping(c)
      /\ Looking(c)' = Looking(c) /\ missed' = missed
  BY <1>1, LookingSame DEF Found, Visible, Reached, CallsFor, Committed, Dropping
<1>3. ASSUME NEW d \in Comments, CountdownEnds(d)
      PROVE  Life(c)!RunOut \/ UNCHANGED Life(c)!life
  <2>1. fb' = fb /\ connected' = connected
    BY <1>3 DEF CountdownEnds, page
  <2>2. CASE c = d
    <3>1. scheduled[c] = "waiting" /\ scheduled'[c] = "due"
      BY <1>3, <2>2 DEF CountdownEnds, TypeOK
    <3> QED
      BY <1>2, <2>1, <3>1, Zenon DEF Life!RunOut, Life!people
  <2>3. CASE c # d
    <3>1. scheduled'[c] = scheduled[c]
      BY <1>3, <2>3 DEF CountdownEnds, TypeOK
    <3> QED
      BY <1>2, <2>1, <3>1 DEF Life!life
  <2> QED
    BY <2>2, <2>3
<1>4. ASSUME NEW d \in Comments, AuthorRemoves(d)
      PROVE  Life(c)!AuthorRemoves \/ UNCHANGED Life(c)!life
  <2>1. scheduled' = scheduled /\ connected' = connected
    BY <1>4 DEF AuthorRemoves, page, tables
  <2>2. CASE c = d
    <3>1. (fb'[c] = "deleted") = TRUE
      BY <1>4, <2>2 DEF AuthorRemoves, TypeOK
    <3> QED
      BY <1>2, <2>1, <3>1, Zenon DEF Life!AuthorRemoves, Life!people
  <2>3. CASE c # d
    <3>1. fb'[c] = fb[c]
      BY <1>4, <2>3 DEF AuthorRemoves, TypeOK
    <3> QED
      BY <1>2, <2>1, <3>1 DEF Life!life
  <2> QED
    BY <2>2, <2>3
<1>5. CASE ConnectionChanges
  <2>1. fb' = fb /\ scheduled' = scheduled /\ connected' = ~connected
    BY <1>5 DEF ConnectionChanges, tables
  <2> QED
    BY <1>2, <2>1, Zenon DEF Life!PageChanges, Life!people
<1>6. CASE LicenceChanges
  <2>1. fb' = fb /\ scheduled' = scheduled /\ connected' = connected
    BY <1>6 DEF LicenceChanges, tables
  <2> QED
    BY <1>2, <2>1 DEF Life!life
<1> QED
  BY <1>3, <1>4, <1>5, <1>6 DEF Environment

\* Every step of the system is, for each comment, one step of its life or none.
LEMMA LifeStep ==
  ASSUME IInv, [Next]_vars, NEW c \in Comments
  PROVE  [Life(c)!Next]_(Life(c)!life)
<1> TypeOK /\ AnswersTrue /\ ListsDecided
  BY DEF IInv
<1> DEFINE Lives == Life(c)!Next \/ UNCHANGED Life(c)!life
<1>0. \A who \in Caller, kind \in Mirrored : Life(c)!Call(who, kind) => Lives
  BY DEF Life!Next, Life!Caller, Life!Kind, Caller, Mirrored, Kind
<1>1. ASSUME NEW s \in Syncs, SyncStep(s) PROVE Lives
  <2>1. (\E severity \in Severity : Life(c)!Judge(severity)) => Lives
    BY DEF Life!Next, Severity
  <2>2. CASE SyncCommit(s)
    BY <2>1, <2>2, SyncCommitLife
  <2>3. CASE SyncMark(s)
    BY <2>3, MarkLife DEF Life!Next
  <2>4. CASE SyncMirrorOk(s) \/ SyncMirrorFails(s)
    BY <1>0, <2>4, SyncCallLife DEF Caller
  <2>5. CASE SyncInsertFails(s) \/ SyncDeadlockFails(s) \/ SyncCrash(s)
    BY <2>5, SyncQuiet DEF SyncInsertFails, SyncDeadlockFails, SyncCrash
  <2>6. CASE SyncStart(s) \/ SyncFetch(s) \/ SyncFetchFails(s) \/ SyncReadExisting(s)
             \/ SyncBegin(s) \/ SyncInsert(s) \/ SyncReturn(s)
    BY <2>6, SyncQuiet
  <2> QED
    BY <1>1, <2>2, <2>3, <2>4, <2>5, <2>6 DEF SyncStep
<1>2. ASSUME NEW m \in Moderators, ModStep(m) PROVE Lives
  <2>1. CASE ActionCommit(m)
    BY <2>1, CommitLife DEF Life!Next
  <2>2. CASE ActionCallOk(m) \/ ActionCallFails(m)
    <3>1. Life(c)!GiveUp => Lives
      BY DEF Life!Next
    <3> QED
      BY <1>0, <2>2, <3>1, ModCallLife DEF Caller
  <2>3. CASE ActionCancel(m)
    BY <2>3, LookLife DEF Life!Next
  <2>4. CASE ActionCrash(m)
    BY <2>4, ActionCrashLife DEF Life!Next
  <2> QED
    BY <1>2, <2>1, <2>2, <2>3, <2>4, ModQuiet DEF ModStep
<1>3. ASSUME NEW w \in Sweepers, SweepStep(w) PROVE Lives
  <2>1. CASE SweepRecord(w)
    BY <2>1, RecordLife DEF Life!Next
  <2>2. CASE SweepPop(w)
    BY <2>2, PopLife DEF Life!Next
  <2>3. CASE SweepCallOk(w) \/ SweepCallFails(w)
    <3>1. "sweep" \in Caller /\ "DELETE" \in Mirrored
      BY DEF Caller, Mirrored, Kind
    <3> QED
      BY <1>0, <2>3, <3>1, SweepCallLife
  <2>4. CASE SweepStart(w) \/ SweepCredential(w) \/ SweepReturn(w) \/ SweepCrash(w)
    BY <2>4, SweepQuiet DEF Life!Next
  <2> QED
    BY <1>3, <2>1, <2>2, <2>3, <2>4 DEF SweepStep
<1>4. CASE Environment
  BY <1>4, EnvironmentLife DEF Life!Next
<1>5. CASE UNCHANGED vars
  BY <1>5 DEF vars, tables, page, Found, Visible, Reached, CallsFor, Committed, Dropping,
     Looking, HasLooked, Life!life
<1> QED
  BY <1>1, <1>2, <1>3, <1>4, <1>5 DEF Next

\* What becomes of each comment, whatever syncs, moderators and sweeps do to it at once and
\* wherever they die, is a life that CommentLife allows.
THEOREM LivesAsPromised == Spec => EachLife
<1>1. Init => \A c \in Comments : Life(c)!Init
  BY LifeInit
<1>2. IInv /\ [Next]_vars => [\A c \in Comments : [Life(c)!Next]_(Life(c)!life)]_vars
  BY LifeStep
<1> QED
  BY <1>1, <1>2, InductiveInvariant, PTL DEF Spec, EachLife

\* So each comment by itself refines CommentLife.
THEOREM EachRefinesLife == Spec => \A c \in Comments : Life(c)!Spec
<1> SUFFICES ASSUME NEW c \in Comments PROVE Spec => Life(c)!Spec
  OBVIOUS
<1>1. Init => Life(c)!Init
  BY LifeInit
<1>2. IInv /\ [Next]_vars => [Life(c)!Next]_(Life(c)!life)
  BY LifeStep
<1> QED
  BY <1>1, <1>2, InductiveInvariant, PTL DEF Spec, Life!Spec

=============================================================================
