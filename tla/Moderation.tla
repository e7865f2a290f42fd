------------------------------ MODULE Moderation ------------------------------
(***************************************************************************)
(* The moderation core of KCMS: how a comment pulled from a Facebook Page  *)
(* gets its verdict, how automation hides, schedules and deletes it, how a *)
(* moderator overrides that, and how the quarantine sweep carries out the  *)
(* deletions whose countdown has run out.                                  *)
(*                                                                         *)
(* Three kinds of task share one PostgreSQL database (READ COMMITTED) and  *)
(* one Facebook Page:                                                      *)
(*                                                                         *)
(*   Syncs       POST /connections/{page}/sync     page_connections.py     *)
(*   Moderators  POST /comments/{id}/actions       comments.py             *)
(*   Sweepers    quarantine.sweep_once             quarantine.py           *)
(*                                                                         *)
(* A task is a program counter and the local values it carries across its  *)
(* awaits; every step is one statement, the BEGIN or the COMMIT of a       *)
(* transaction, or one Graph call.  Histories are read by occurred_at,     *)
(* which is NOW(), the time of BEGIN: a row takes its place when its       *)
(* transaction begins, and others see it when that has committed.  Tasks   *)
(* may die at any await.                                                   *)
(***************************************************************************)
EXTENDS Naturals, Sequences, FiniteSets

CONSTANTS
  Comments,            \* provider comment ids of the Page
  Syncs,               \* concurrent sync requests
  Moderators,          \* concurrent moderator requests
  Sweepers,            \* concurrent sweeps (overlapping cron ticks, instances)
  Policies,            \* automation settings an owner of the workspace may choose
  AutoRemovalEnabled,  \* settings.auto_removal_enabled of the deployment
  Severities,          \* bound: for each comment, the verdicts the classifier may give it
  Choices,             \* bound: for each comment, the actions moderators may choose
  MaxVerdicts,         \* bound: verdict rows of one comment when a sync starts
  MaxBusy,             \* bound: tasks at work at the same time
  MaxRows,             \* bound: rows of one comment's history when a human acts
  MaxFaults,           \* bound: how many of the following happen in all
  Faults,              \* bound: which of them: "crash", "connection", "licence", "author"
  None                 \* no comment

Severity == {"HARMFUL", "OFFENSIVE", "SAFE"}
Kind     == {"HIDE", "UNHIDE", "DELETE", "LEAVE"}
Policy   == [delay : {"now", "later"}, hideOffensive : BOOLEAN]

ASSUME PoliciesAssumption == Policies # {} /\ Policies \subseteq Policy
ASSUME AutoRemovalAssumption == AutoRemovalEnabled \in BOOLEAN
ASSUME BoundsAssumption ==
  /\ {MaxBusy, MaxRows, MaxVerdicts, MaxFaults} \subseteq Nat
  /\ Severities \in [Comments -> SUBSET Severity] /\ Choices \in [Comments -> SUBSET Kind]
ASSUME FaultsAssumption == Faults \subseteq {"crash", "connection", "licence", "author"}
ASSUME NoneAssumption == None \notin Comments

Tasks == Syncs \cup Moderators        \* those who run transactions

ASSUME TasksAssumption ==
  Syncs \cap Moderators = {} /\ Tasks \cap {"committed", "aborted"} = {}

VARIABLES
  stored,     \* comment_content: the comments ever ingested
  verdicts,   \* verdict rows per comment, in occurred_at order
  actions,    \* action rows per comment, in occurred_at order
  scheduled,  \* scheduled_deletion: "none", "waiting" or "due"
  connected,  \* the Page's page_connection row exists
  licensed,   \* workspace_for_user finds it and its trial has not expired
  fb,         \* external: the comment on Facebook
  sync,       \* local state of each sync request
  mod,        \* local state of each moderator request
  sweep,      \* local state of each sweep
  effects,    \* history: <<comment, who, kind>> of Graph calls done or said to be done
  missed,     \* history: places of the people who had looked for a countdown, or
              \* decided, before the one started last was there to be seen
  faults      \* faults and outside changes so far

tables == <<stored, verdicts, actions, scheduled>>
page   == <<connected, licensed>>
vars   == <<tables, page, fb, sync, mod, sweep, effects, missed, faults>>

Mirrored == Kind \ {"LEAVE"}          \* the kinds that reach Facebook
Actor    == {"human", "auto-removal", "auto-hide"}
Caller   == {"human", "sync", "sweep"}

\* tx is the row's MVCC status: the task whose open transaction wrote it, or how that
\* transaction ended.  Only committed rows are visible to others.
TxStatus == Tasks \cup {"committed", "aborted"}

Row     == [kind : Kind, actor : Actor, applied : BOOLEAN, tx : TxStatus]
Finding == [severity : Severity, tx : TxStatus]

AutoRow(kind, actor, tx) ==
  [kind |-> kind, actor |-> actor, applied |-> FALSE, tx |-> tx]

VisibleRows(rows) == {i \in DOMAIN rows : rows[i].tx = "committed"}

Committed(c) == VisibleRows(actions[c])

\* The rows t's transaction wrote, when it commits and when it is rolled back: the dead
\* ones keep their places, but nobody ever sees them.
Published(table, t) ==
  [c \in Comments |-> [i \in DOMAIN table[c] |->
     IF table[c][i].tx = t THEN [table[c][i] EXCEPT !.tx = "committed"] ELSE table[c][i]]]

\* Mutant: undoing takes the newest row off each history the task wrote to.
UndoneMutant(table, t, dead) ==
  [c \in Comments |-> IF \E i \in DOMAIN table[c] : table[c][i].tx = t
     THEN SubSeq(table[c], 1, Len(table[c]) - 1) ELSE table[c]]

Undone(table, t, dead) ==
  [c \in Comments |-> [i \in DOMAIN table[c] |->
     IF table[c][i].tx = t THEN dead ELSE table[c][i]]]

DeadRow     == [kind |-> "LEAVE", actor |-> "human", applied |-> FALSE, tx |-> "aborted"]
DeadFinding == [severity |-> "SAFE", tx |-> "aborted"]

HasRow(c, kind, actor) ==
  \E i \in Committed(c) : actions[c][i].kind = kind /\ actions[c][i].actor = actor

----------------------------------------------------------------------------
(* Local states of the tasks.                                              *)

SyncState == [pc : {"idle", "fetch", "read", "ingest", "insert", "mirror", "mark"},
              policy : Policies, batch : SUBSET Comments, todo : SUBSET Comments,
              toDelete : SUBSET Comments, toQuarantine : SUBSET Comments,
              toHide : SUBSET Comments,
              cur : Comments \cup {None}, kind : {"HIDE", "DELETE"}]

IdleSync == [pc |-> "idle", policy |-> CHOOSE p \in Policies : TRUE,
             batch |-> {}, todo |-> {}, toDelete |-> {}, toQuarantine |-> {}, toHide |-> {},
             cur |-> None, kind |-> "HIDE"]

ModState == [pc : {"idle", "admitted", "begun", "open", "answered"},
             cur : Comments \cup {None}, kind : Kind, mirror : BOOLEAN, holds : BOOLEAN]

IdleMod == [pc |-> "idle", cur |-> None, kind |-> "LEAVE", mirror |-> FALSE, holds |-> FALSE]

SweepState == [pc : {"idle", "loop", "drop", "call", "record", "pop"},
               due : SUBSET Comments, cur : Comments \cup {None}]

IdleSweep == [pc |-> "idle", due |-> {}, cur |-> None]

Init ==
  /\ stored = {}
  /\ verdicts = [c \in Comments |-> <<>>]
  /\ actions = [c \in Comments |-> <<>>]
  /\ scheduled = [c \in Comments |-> "none"]
  /\ connected = TRUE
  /\ licensed = TRUE
  /\ fb = [c \in Comments |-> "visible"]
  /\ sync = [s \in Syncs |-> IdleSync]
  /\ mod = [m \in Moderators |-> IdleMod]
  /\ sweep = [w \in Sweepers |-> IdleSweep]
  /\ effects = {}
  /\ missed = [c \in Comments |-> {}]
  /\ faults = 0

----------------------------------------------------------------------------
(* Facebook, as the Graph client sees it.                                  *)

After(kind) == IF kind = "DELETE" THEN "deleted"
               ELSE IF kind = "HIDE" THEN "hidden" ELSE "visible"

\* Nothing is done any more to a comment that is gone.
GraphDoes(c, kind, who) ==
  /\ fb[c] # "deleted"
  /\ fb' = [fb EXCEPT ![c] = After(kind)]
  /\ effects' = effects \cup {<<c, who, kind>>}

\* The call is reported as done.  set_comment_hidden believes nothing but a success;
\* delete_comment takes any answer that is no error, and the error that the comment
\* does not exist, for a deletion.
GraphAccepts(c, kind, who) ==
  \/ GraphDoes(c, kind, who)
  \/ /\ kind = "DELETE"
     /\ effects' = effects \cup {<<c, who, kind>>}
     /\ UNCHANGED fb

\* A refusal, or a request that never arrived.
GraphRefuses == UNCHANGED <<fb, effects>>

\* Either way the caller gets a ValueError: the answer to a call that was carried out
\* may be lost to the 15 second timeout.
GraphFails(c, kind, who) == GraphRefuses \/ GraphDoes(c, kind, who)

Happens(fault) == fault \in Faults /\ faults < MaxFaults /\ faults' = faults + 1

\* The author of a comment removes it on Facebook.
AuthorRemoves(c) ==
  /\ Happens("author")
  /\ fb[c] # "deleted"
  /\ fb' = [fb EXCEPT ![c] = "deleted"]
  /\ UNCHANGED <<tables, page, sync, mod, sweep, effects, missed>>

----------------------------------------------------------------------------
(* POST /connections/{page}/sync.                                          *)

Busy == {s \in Syncs : sync[s].pc # "idle"} \cup {m \in Moderators : mod[m].pc # "idle"}
  \cup {w \in Sweepers : sweep[w].pc # "idle"}

\* Workspace row (settings included), trial check and Page credential.  An owner
\* may change the settings at any time, so a request works with a copy of whatever
\* they were when it started.
SyncStart(s) ==
  /\ sync[s].pc = "idle"
  /\ licensed /\ connected
  /\ Cardinality(Busy) < MaxBusy
  /\ \A c \in Comments : Len(verdicts[c]) < MaxVerdicts
  /\ \E p \in Policies :
       sync' = [sync EXCEPT ![s] = [IdleSync EXCEPT !.pc = "fetch", !.policy = p]]
  /\ UNCHANGED <<tables, page, fb, mod, sweep, effects, missed, faults>>

\* fetch_comments: the window of recent posts and comments Graph returns; a post
\* it cannot read is skipped, so any part of what is on the Page may come back.
SyncFetch(s) ==
  /\ sync[s].pc = "fetch"
  /\ \E seen \in SUBSET {c \in Comments : fb[c] # "deleted"} :
       sync' = [sync EXCEPT ![s] = [@ EXCEPT !.pc = "read", !.batch = seen]]
  /\ UNCHANGED <<tables, page, fb, mod, sweep, effects, missed, faults>>

\* Graph failed: 502.
SyncFetchFails(s) ==
  /\ sync[s].pc = "fetch"
  /\ sync' = [sync EXCEPT ![s] = IdleSync]
  /\ UNCHANGED <<tables, page, fb, mod, sweep, effects, missed, faults>>

\* The SELECT of existing ids, outside the transaction that inserts.
SyncReadExisting(s) ==
  /\ sync[s].pc = "read"
  /\ LET fresh == sync[s].batch \ stored
     IN  sync' = [sync EXCEPT ![s] = IF fresh = {} THEN IdleSync
                    ELSE [@ EXCEPT !.pc = "ingest", !.batch = fresh]]
  /\ UNCHANGED <<tables, page, fb, mod, sweep, effects, missed, faults>>

\* A transaction that cancels c's countdown and has not ended holds its row.
RowLocked(c) == \E m \in Moderators : mod[m].cur = c /\ mod[m].holds

\* Mutant: whatever is not SAFE is removed.
AutoRemovableMutant(severity) == AutoRemovalEnabled /\ severity # "SAFE"

AutoRemovable(severity) == AutoRemovalEnabled /\ severity = "HARMFUL"

RemovedBy(batch, sev) == {c \in batch : AutoRemovable(sev[c])}

\* Mutant: every comment that is not removed is hidden.
HiddenByMutant(batch, sev, p) ==
  {c \in batch : p.hideOffensive /\ ~AutoRemovable(sev[c])}

HiddenBy(batch, sev, p) ==
  {c \in batch : p.hideOffensive /\ sev[c] = "OFFENSIVE" /\ ~AutoRemovable(sev[c])}

QuarantinedBy(batch, sev, p) == IF p.delay = "later" THEN RemovedBy(batch, sev) ELSE {}

\* Mutant: hiding an OFFENSIVE comment leaves no row.
WithAutoRowsMutant(s, deleted, waiting, hidden) ==
  [c \in Comments |->
     IF c \in deleted THEN Append(actions[c], AutoRow("DELETE", "auto-removal", s))
     ELSE IF c \in waiting THEN Append(actions[c], AutoRow("HIDE", "auto-removal", s))
     ELSE actions[c]]

WithAutoRows(s, deleted, waiting, hidden) ==
  [c \in Comments |->
     IF c \in deleted THEN Append(actions[c], AutoRow("DELETE", "auto-removal", s))
     ELSE IF c \in waiting THEN Append(actions[c], AutoRow("HIDE", "auto-removal", s))
     ELSE IF c \in hidden THEN Append(actions[c], AutoRow("HIDE", "auto-hide", s))
     ELSE actions[c]]

\* The classifier has given its verdicts, whatever the keyword lists made of them, and
\* the transaction begins: what it is going to write has its place from now on.  The
\* batch is in the order Graph returned it in.
BeginStep(s, sev, first) ==
  LET batch   == sync[s].batch
      p       == sync[s].policy
      waiting == QuarantinedBy(batch, sev, p)
      deleted == RemovedBy(batch, sev) \ waiting
      hidden  == HiddenBy(batch, sev, p)
  IN  /\ verdicts' = [c \in Comments |-> IF c \in batch
           THEN Append(verdicts[c], [severity |-> sev[c], tx |-> s]) ELSE verdicts[c]]
      /\ actions' = WithAutoRows(s, deleted, waiting, hidden)
      /\ sync' = [sync EXCEPT ![s] = [@ EXCEPT !.pc = "insert", !.policy = IdleSync.policy,
                    !.todo = batch, !.cur = first,
                    !.toDelete = deleted, !.toQuarantine = waiting, !.toHide = hidden]]

SyncBegin(s) ==
  /\ sync[s].pc = "ingest"
  /\ \E sev \in [sync[s].batch -> Severity], first \in sync[s].batch :
        (\A c \in sync[s].batch : sev[c] \in Severities[c]) /\ BeginStep(s, sev, first)
  /\ UNCHANGED <<stored, scheduled, page, fb, mod, sweep, effects, missed, faults>>

\* t's open transaction has inserted c already, and its countdown if it starts one.
Inserted(t, c) == sync[t].pc = "insert" /\ c \in sync[t].batch \ sync[t].todo

\* The INSERT of s waits for t: both bring the content of a comment nobody has stored
\* yet, or both start its countdown.
Blocks(t, s) ==
  LET c == sync[s].cur
  IN  /\ t # s /\ sync[s].pc = "insert" /\ c \in sync[s].todo /\ Inserted(t, c)
      /\ c \notin stored \/ c \in sync[s].toQuarantine \cap sync[t].toQuarantine

InsertWaits(s) ==
  \/ \E t \in Syncs : Blocks(t, s)
  \/ sync[s].cur \in sync[s].toQuarantine /\ RowLocked(sync[s].cur)

NextOf(todo) == IF todo = {} THEN {None} ELSE todo

\* The statements for one comment of the batch: its content unless it is there, its
\* verdict, its automatic action, its countdown.  Nobody sees any of them yet.
SyncInsert(s) ==
  /\ sync[s].pc = "insert" /\ sync[s].todo # {}
  /\ ~InsertWaits(s)
  /\ sync[s].cur \in sync[s].toQuarantine => scheduled[sync[s].cur] = "none"
  /\ LET rest == sync[s].todo \ {sync[s].cur}
     IN  \E next \in NextOf(rest) :
           sync' = [sync EXCEPT ![s] = [@ EXCEPT !.todo = rest, !.cur = next]]
  /\ UNCHANGED <<tables, page, fb, mod, sweep, effects, missed, faults>>

\* The transaction of a sync ends with an error, and so does the request.
SyncRollback(s) ==
  /\ verdicts' = Undone(verdicts, s, DeadFinding)
  /\ actions' = Undone(actions, s, DeadRow)
  /\ sync' = [sync EXCEPT ![s] = IdleSync]
  /\ UNCHANGED <<stored, scheduled, page, fb, mod, sweep, effects, missed>>

\* scheduled_deletion already holds a row of this comment: the plain INSERT violates
\* its primary key and the whole batch is rolled back (500).
SyncInsertFails(s) ==
  /\ sync[s].pc = "insert" /\ sync[s].todo # {}
  /\ ~InsertWaits(s)
  /\ sync[s].cur \in sync[s].toQuarantine /\ scheduled[sync[s].cur] # "none"
  /\ SyncRollback(s)
  /\ UNCHANGED faults

\* Two batches in different orders: PostgreSQL's deadlock detector fails one of those
\* that wait in a circle.
SyncDeadlockFails(s) ==
  /\ \E circle \in SUBSET Syncs :
       /\ s \in circle
       /\ \A t \in circle : (\E u \in circle : Blocks(u, t)) /\ (\E u \in circle : Blocks(t, u))
  /\ SyncRollback(s)
  /\ UNCHANGED faults

\* A person's transaction that is past its DELETE of the countdown.
HasLooked(m) == mod[m].pc \in {"open", "answered"}

Looking(c) ==
  {i \in DOMAIN actions[c] : \E m \in Moderators : actions[c][i].tx = m /\ HasLooked(m)}

DecidedBy(c, actor) == {i \in Committed(c) : actions[c][i].actor = actor}

\* COMMIT: contents, verdicts, automatic actions and countdowns become visible.
SyncCommit(s) ==
  /\ sync[s].pc = "insert" /\ sync[s].todo = {}
  /\ stored' = stored \cup sync[s].batch
  /\ verdicts' = Published(verdicts, s)
  /\ actions' = Published(actions, s)
  /\ scheduled' = [c \in Comments |->
       IF c \in sync[s].toQuarantine THEN "waiting" ELSE scheduled[c]]
  /\ missed' = [c \in Comments |->
       IF c \in sync[s].toQuarantine THEN Looking(c) \cup DecidedBy(c, "human") ELSE missed[c]]
  /\ sync' = [sync EXCEPT ![s] = [@ EXCEPT !.pc = "mirror", !.batch = {}, !.cur = None]]
  /\ UNCHANGED <<page, fb, mod, sweep, effects, faults>>

\* The loops over to_delete, to_quarantine and to_hide_offensive.
MirrorNext(s, c, kind) ==
  /\ sync[s].pc = "mirror"
  /\ \/ kind = "DELETE" /\ c \in sync[s].toDelete
     \/ kind = "HIDE" /\ sync[s].toDelete = {} /\ c \in sync[s].toQuarantine
     \/ kind = "HIDE" /\ sync[s].toDelete \cup sync[s].toQuarantine = {} /\ c \in sync[s].toHide

Struck(local, c) ==
  [local EXCEPT !.toDelete = @ \ {c}, !.toQuarantine = @ \ {c}, !.toHide = @ \ {c}]

SyncMirrorOk(s) ==
  /\ \E c \in Comments, kind \in {"DELETE", "HIDE"} :
       /\ MirrorNext(s, c, kind)
       /\ GraphAccepts(c, kind, "sync")
       /\ sync' = [sync EXCEPT ![s] = [Struck(@, c) EXCEPT
                     !.pc = "mark", !.cur = c, !.kind = kind]]
  /\ UNCHANGED <<tables, page, mod, sweep, missed, faults>>

\* "A Graph failure is not fatal to the sync": next comment, row not applied.
SyncMirrorFails(s) ==
  /\ \E c \in Comments, kind \in {"DELETE", "HIDE"} :
       /\ MirrorNext(s, c, kind)
       /\ GraphFails(c, kind, "sync")
       /\ sync' = [sync EXCEPT ![s] = Struck(@, c)]
  /\ UNCHANGED <<tables, page, mod, sweep, missed, faults>>

\* The most recent visible row of that kind, whoever wrote it.
IsLatest(c, kind, i) ==
  LET rows == {j \in Committed(c) : actions[c][j].kind = kind}
  IN  i \in rows /\ \A j \in rows : j <= i

MarkApplied(c, kind) ==
  [actions EXCEPT ![c] = [i \in DOMAIN actions[c] |->
     IF IsLatest(c, kind, i) THEN [actions[c][i] EXCEPT !.applied = TRUE]
     ELSE actions[c][i]]]

SyncMark(s) ==
  /\ sync[s].pc = "mark"
  /\ actions' = MarkApplied(sync[s].cur, sync[s].kind)
  /\ sync' = [sync EXCEPT ![s] = [@ EXCEPT !.pc = "mirror", !.cur = None, !.kind = "HIDE"]]
  /\ UNCHANGED <<stored, verdicts, scheduled, page, fb, mod, sweep, effects, missed, faults>>

SyncReturn(s) ==
  /\ sync[s].pc = "mirror"
  /\ sync[s].toDelete \cup sync[s].toQuarantine \cup sync[s].toHide = {}
  /\ sync' = [sync EXCEPT ![s] = IdleSync]
  /\ UNCHANGED <<tables, page, fb, mod, sweep, effects, missed, faults>>

----------------------------------------------------------------------------
(* POST /comments/{id}/actions.                                            *)

\* Workspace, trial and ownership checks, then the credential that decides
\* whether this action must reach Facebook.
ActionAdmit(m) ==
  /\ mod[m].pc = "idle"
  /\ licensed
  /\ Cardinality(Busy) < MaxBusy
  /\ \E c \in stored : \E kind \in Choices[c] :
       /\ Len(actions[c]) < MaxRows
       /\ mod' = [mod EXCEPT ![m] = [IdleMod EXCEPT !.pc = "admitted", !.cur = c,
                    !.kind = kind, !.mirror = connected /\ kind \in Mirrored]]
  /\ UNCHANGED <<tables, page, fb, sync, sweep, effects, missed, faults>>

HumanRow(m) ==
  [kind |-> mod[m].kind, actor |-> "human", applied |-> mod[m].mirror, tx |-> m]

\* BEGIN, and the Action row with provider_applied already set when it will be mirrored.
ActionBegin(m) ==
  /\ mod[m].pc = "admitted"
  /\ actions' = [actions EXCEPT ![mod[m].cur] = Append(@, HumanRow(m))]
  /\ mod' = [mod EXCEPT ![m].pc = "begun"]
  /\ UNCHANGED <<stored, verdicts, scheduled, page, fb, sync, sweep, effects, missed, faults>>

\* The cancellation of the countdown, if there is one that has been committed.  It waits
\* for any other transaction that is cancelling it.
ActionCancel(m) ==
  /\ mod[m].pc = "begun"
  /\ ~RowLocked(mod[m].cur)
  /\ mod' = [mod EXCEPT ![m].pc = "open", ![m].holds = scheduled[mod[m].cur] # "none"]
  /\ UNCHANGED <<tables, page, fb, sync, sweep, effects, missed, faults>>

\* The Graph call, made inside the transaction.
ActionCallOk(m) ==
  /\ mod[m].pc = "open" /\ mod[m].mirror
  /\ GraphAccepts(mod[m].cur, mod[m].kind, "human")
  /\ mod' = [mod EXCEPT ![m].pc = "answered"]
  /\ UNCHANGED <<tables, page, sync, sweep, missed, faults>>

\* Mutant: the failure is reported but what was written stays.
ActionCallFailsMutant(m) ==
  /\ mod[m].pc = "open" /\ mod[m].mirror
  /\ GraphFails(mod[m].cur, mod[m].kind, "human")
  /\ actions' = Published(actions, m)
  /\ mod' = [mod EXCEPT ![m] = IdleMod]
  /\ UNCHANGED <<stored, verdicts, scheduled, page, sync, sweep, missed, faults>>

\* Mutant: the request is answered with 502, but its transaction is left open.
ActionCallFailsOpenMutant(m) ==
  /\ mod[m].pc = "open" /\ mod[m].mirror
  /\ GraphFails(mod[m].cur, mod[m].kind, "human")
  /\ mod' = [mod EXCEPT ![m] = [IdleMod EXCEPT !.cur = mod[m].cur, !.holds = mod[m].holds]]
  /\ UNCHANGED <<tables, page, sync, sweep, missed, faults>>

\* ValueError: 502, and the transaction is rolled back.
ActionCallFails(m) ==
  /\ mod[m].pc = "open" /\ mod[m].mirror
  /\ GraphFails(mod[m].cur, mod[m].kind, "human")
  /\ actions' = Undone(actions, m, DeadRow)
  /\ mod' = [mod EXCEPT ![m] = IdleMod]
  /\ UNCHANGED <<stored, verdicts, scheduled, page, sync, sweep, missed, faults>>

\* Mutant: LEAVE "changes nothing", so it does not cancel the countdown either.
ActionCommitMutant(m) ==
  /\ mod[m].pc = "answered" \/ (mod[m].pc = "open" /\ ~mod[m].mirror)
  /\ actions' = Published(actions, m)
  /\ scheduled' = IF mod[m].holds /\ mod[m].kind # "LEAVE"
                  THEN [scheduled EXCEPT ![mod[m].cur] = "none"] ELSE scheduled
  /\ mod' = [mod EXCEPT ![m] = IdleMod]
  /\ UNCHANGED <<stored, verdicts, page, fb, sync, sweep, effects, missed, faults>>

ActionCommit(m) ==
  /\ mod[m].pc = "answered" \/ (mod[m].pc = "open" /\ ~mod[m].mirror)
  /\ actions' = Published(actions, m)
  /\ scheduled' = IF mod[m].holds THEN [scheduled EXCEPT ![mod[m].cur] = "none"]
                  ELSE scheduled
  /\ mod' = [mod EXCEPT ![m] = IdleMod]
  /\ UNCHANGED <<stored, verdicts, page, fb, sync, sweep, effects, missed, faults>>

----------------------------------------------------------------------------
(* quarantine.sweep_once and the countdown it serves.                      *)

CountdownEnds(c) ==
  /\ scheduled[c] = "waiting"
  /\ scheduled' = [scheduled EXCEPT ![c] = "due"]
  /\ UNCHANGED <<stored, verdicts, actions, page, fb, sync, mod, sweep, effects, missed, faults>>

\* The due list is read once, before anything is deleted.
SweepStart(w) ==
  /\ sweep[w].pc = "idle"
  /\ Cardinality(Busy) < MaxBusy
  /\ LET due == {c \in Comments : scheduled[c] = "due"} IN
       /\ due # {}
       /\ sweep' = [sweep EXCEPT ![w] = [@ EXCEPT !.pc = "loop", !.due = due]]
  /\ UNCHANGED <<tables, page, fb, sync, mod, effects, missed, faults>>

\* Mutant: a comment whose Page is gone is skipped, its countdown left standing.
SweepCredentialMutant(w) ==
  /\ sweep[w].pc = "loop"
  /\ \E c \in sweep[w].due :
       sweep' = [sweep EXCEPT ![w] = IF connected
         THEN [pc |-> "call", due |-> @.due \ {c}, cur |-> c]
         ELSE [@ EXCEPT !.due = @ \ {c}]]
  /\ UNCHANGED <<tables, page, fb, sync, mod, effects, missed, faults>>

\* Next comment of the list: it goes on to its Graph call, or to the dropping of
\* its countdown when its Page is no longer connected.
SweepCredential(w) ==
  /\ sweep[w].pc = "loop"
  /\ \E c \in sweep[w].due :
       sweep' = [sweep EXCEPT ![w] = [pc |-> IF connected THEN "call" ELSE "drop",
                                      due |-> @.due \ {c}, cur |-> c]]
  /\ UNCHANGED <<tables, page, fb, sync, mod, effects, missed, faults>>

NextDue(w) == [sweep[w] EXCEPT !.pc = "loop", !.cur = None]

\* Mutant: the countdown is popped right after the call, nothing recorded before.
SweepCallOkMutant(w) ==
  /\ sweep[w].pc = "call"
  /\ GraphAccepts(sweep[w].cur, "DELETE", "sweep")
  /\ sweep' = [sweep EXCEPT ![w].pc = "pop"]
  /\ UNCHANGED <<tables, page, sync, mod, missed, faults>>

SweepCallOk(w) ==
  /\ sweep[w].pc = "call"
  /\ GraphAccepts(sweep[w].cur, "DELETE", "sweep")
  /\ sweep' = [sweep EXCEPT ![w].pc = "record"]
  /\ UNCHANGED <<tables, page, sync, mod, missed, faults>>

\* The exception is logged, the schedule stays, the loop goes on.
SweepCallFails(w) ==
  /\ sweep[w].pc = "call"
  /\ GraphFails(sweep[w].cur, "DELETE", "sweep")
  /\ sweep' = [sweep EXCEPT ![w] = NextDue(w)]
  /\ UNCHANGED <<tables, page, sync, mod, missed, faults>>

\* Autocommit INSERT of the DELETE row.
SweepRecord(w) ==
  /\ sweep[w].pc = "record"
  /\ actions' = [actions EXCEPT ![sweep[w].cur] =
       Append(@, [AutoRow("DELETE", "auto-removal", "committed") EXCEPT !.applied = TRUE])]
  /\ sweep' = [sweep EXCEPT ![w].pc = "pop"]
  /\ UNCHANGED <<stored, verdicts, scheduled, page, fb, sync, mod, effects, missed, faults>>

\* Autocommit DELETE of the countdown, after the record or instead of it.
SweepPop(w) ==
  /\ sweep[w].pc \in {"pop", "drop"}
  /\ ~RowLocked(sweep[w].cur)
  /\ scheduled' = [scheduled EXCEPT ![sweep[w].cur] = "none"]
  /\ sweep' = [sweep EXCEPT ![w] = NextDue(w)]
  /\ UNCHANGED <<stored, verdicts, actions, page, fb, sync, mod, effects, missed, faults>>

SweepReturn(w) ==
  /\ sweep[w].pc = "loop" /\ sweep[w].due = {}
  /\ sweep' = [sweep EXCEPT ![w] = IdleSweep]
  /\ UNCHANGED <<tables, page, fb, sync, mod, effects, missed, faults>>

----------------------------------------------------------------------------
(* Tasks that die: a cancelled request, an evicted worker, a stopped       *)
(* process (which is several of these).  The database rolls back what a    *)
(* dead task left open; nothing else is undone.                            *)

SyncCrash(s) ==
  /\ Happens("crash")
  /\ sync[s].pc # "idle"
  /\ SyncRollback(s)

ActionCrash(m) ==
  /\ Happens("crash")
  /\ mod[m].pc # "idle"
  /\ actions' = Undone(actions, m, DeadRow)
  /\ mod' = [mod EXCEPT ![m] = IdleMod]
  /\ UNCHANGED <<stored, verdicts, scheduled, page, fb, sync, sweep, effects, missed>>

SweepCrash(w) ==
  /\ Happens("crash")
  /\ sweep[w].pc # "idle"
  /\ sweep' = [sweep EXCEPT ![w] = IdleSweep]
  /\ UNCHANGED <<tables, page, fb, sync, mod, effects, missed>>

----------------------------------------------------------------------------
(* What the rest of the system changes underneath: the Page is connected   *)
(* or disconnected, the trial ends or the plan is upgraded.                *)

ConnectionChanges ==
  /\ Happens("connection")
  /\ connected' = ~connected
  /\ UNCHANGED <<tables, licensed, fb, sync, mod, sweep, effects, missed>>

LicenceChanges ==
  /\ Happens("licence")
  /\ licensed' = ~licensed
  /\ UNCHANGED <<tables, connected, fb, sync, mod, sweep, effects, missed>>

----------------------------------------------------------------------------

SyncStep(s) ==
  \/ SyncStart(s) \/ SyncFetch(s) \/ SyncFetchFails(s) \/ SyncReadExisting(s)
  \/ SyncBegin(s) \/ SyncInsert(s) \/ SyncInsertFails(s) \/ SyncDeadlockFails(s) \/ SyncCommit(s)
  \/ SyncMirrorOk(s) \/ SyncMirrorFails(s) \/ SyncMark(s) \/ SyncReturn(s) \/ SyncCrash(s)

ModStep(m) ==
  \/ ActionAdmit(m) \/ ActionBegin(m) \/ ActionCancel(m) \/ ActionCallOk(m)
  \/ ActionCallFails(m) \/ ActionCommit(m) \/ ActionCrash(m)

SweepStep(w) ==
  \/ SweepStart(w) \/ SweepCredential(w) \/ SweepCallOk(w) \/ SweepCallFails(w)
  \/ SweepRecord(w) \/ SweepPop(w) \/ SweepReturn(w) \/ SweepCrash(w)

Environment ==
  \/ \E c \in Comments : CountdownEnds(c) \/ AuthorRemoves(c)
  \/ ConnectionChanges \/ LicenceChanges

Next ==
  \/ \E s \in Syncs : SyncStep(s)
  \/ \E m \in Moderators : ModStep(m)
  \/ \E w \in Sweepers : SweepStep(w)
  \/ Environment

Spec == Init /\ [][Next]_vars

\* A request that was admitted runs on, the sweep loop is always restarted and time
\* passes.  Facebook accepts a delete that is asked for again and again, and a
\* statement waiting for a row lock gets it (PostgreSQL queues the waiters) unless it
\* waits in a circle, which PostgreSQL finds after a second.
Fairness ==
  /\ \A s \in Syncs :
       /\ WF_vars(SyncFetch(s) \/ SyncFetchFails(s))
       /\ WF_vars(SyncReadExisting(s))
       /\ WF_vars(SyncBegin(s) \/ SyncCommit(s))
       /\ SF_vars(SyncInsert(s) \/ SyncInsertFails(s))
       /\ WF_vars(SyncDeadlockFails(s))
       /\ WF_vars(SyncMirrorOk(s) \/ SyncMirrorFails(s))
       /\ WF_vars(SyncMark(s) \/ SyncReturn(s))
  /\ \A m \in Moderators :
       /\ WF_vars(ActionBegin(m))
       /\ SF_vars(ActionCancel(m))
       /\ WF_vars(ActionCallOk(m) \/ ActionCallFails(m) \/ ActionCommit(m))
  /\ \A w \in Sweepers :
       /\ WF_vars(SweepStart(w) \/ SweepCredential(w) \/ SweepReturn(w))
       /\ WF_vars(SweepCallOk(w) \/ SweepCallFails(w))
       /\ SF_vars(SweepCallOk(w))
       /\ WF_vars(SweepRecord(w))
       /\ SF_vars(SweepPop(w))
  /\ \A c \in Comments : WF_vars(CountdownEnds(c))

FairSpec == Spec /\ Fairness

----------------------------------------------------------------------------
(* Properties.                                                             *)

\* A task that is working on a comment knows which.
CursorsSet ==
  /\ \A s \in Syncs : sync[s].pc = "mark" => sync[s].cur \in Comments
  /\ \A m \in Moderators :
       /\ mod[m].pc # "idle" => mod[m].cur \in Comments
       /\ mod[m].mirror => mod[m].kind \in Mirrored
  /\ \A w \in Sweepers : sweep[w].pc \notin {"idle", "loop"} => sweep[w].cur \in Comments

TypeOK ==
  /\ stored \subseteq Comments
  /\ verdicts \in [Comments -> Seq(Finding)]
  /\ actions \in [Comments -> Seq(Row)]
  /\ scheduled \in [Comments -> {"none", "waiting", "due"}]
  /\ connected \in BOOLEAN /\ licensed \in BOOLEAN
  /\ fb \in [Comments -> {"visible", "hidden", "deleted"}]
  /\ sync \in [Syncs -> SyncState]
  /\ mod \in [Moderators -> ModState]
  /\ sweep \in [Sweepers -> SweepState]
  /\ CursorsSet
  /\ effects \subseteq Comments \X Caller \X Mirrored
  /\ missed \in [Comments -> SUBSET Nat]
  /\ faults \in Nat

Found(c) == {verdicts[c][i].severity : i \in VisibleRows(verdicts[c])}

Harmful(c) == "HARMFUL" \in Found(c)

\* A comment is put on the countdown, or removed by automation, only if the
\* deployment allows removal at all and some verdict on it was HARMFUL: OFFENSIVE
\* "still always waits on a person" (repository.py), through every interleaving of
\* syncs, settings changes, crashes and sweeps.
AutomationOnlyForHarm ==
  \A c \in Comments :
    (\/ scheduled[c] # "none"
     \/ HasRow(c, "DELETE", "auto-removal")
     \/ <<c, "sync", "DELETE">> \in effects
     \/ <<c, "sweep", "DELETE">> \in effects)
    => AutoRemovalEnabled /\ Harmful(c)

\* "Recorded before the provider call so the decision survives a Graph failure":
\* whatever automation did to a comment on Facebook, the committed history of that
\* comment holds the automatic row that decided it.
AutomationExplained ==
  \A c \in Comments :
    /\ <<c, "sync", "DELETE">> \in effects => HasRow(c, "DELETE", "auto-removal")
    /\ <<c, "sync", "HIDE">> \in effects =>
         HasRow(c, "HIDE", "auto-removal") \/ HasRow(c, "HIDE", "auto-hide")
    /\ <<c, "sweep", "DELETE">> \in effects => HasRow(c, "HIDE", "auto-removal")

\* Any human action "also cancels a pending auto-delete".  What the code can keep of that:
\* a countdown that is standing was not there to be seen by any of the people whose
\* decisions are on record; each of them had looked for it, or had decided, before it was
\* committed.  Nobody who could have seen it has left it standing, however the requests
\* overlap, wait for each other and are rolled back.
DecisionCancelsCountdown ==
  \A c \in Comments : scheduled[c] # "none" => DecidedBy(c, "human") \subseteq missed[c]

\* provider_applied tells "recorded" from "actually reached Facebook": a visible row
\* is marked applied only if a call of that kind was carried out, or reported as done.
AppliedMeansAccepted ==
  \A c \in Comments : \A i \in Committed(c) :
    actions[c][i].applied => \E who \in Caller : <<c, who, actions[c][i].kind>> \in effects

\* Actions are append-only: a row others can see never disappears and never changes
\* except that provider_applied may be set.
HistoryAppendOnly ==
  [][\A c \in Comments : \A i \in Committed(c) :
       /\ i \in DOMAIN actions'[c]
       /\ actions'[c][i] \in {actions[c][i], [actions[c][i] EXCEPT !.applied = TRUE]}]_vars

\* The sweep's two autocommit statements are in the order that survives a crash:
\* once it has deleted a comment, the countdown goes away only after the DELETE row
\* exists, or because a person has decided, or because the Page was disconnected.
CountdownOutlivesCrash ==
  [][\A c \in Comments :
       (scheduled[c] # "none" /\ scheduled'[c] = "none" /\ <<c, "sweep", "DELETE">> \in effects)
       => \/ HasRow(c, "DELETE", "auto-removal")
          \/ \E m \in Moderators : mod[m].cur = c /\ mod[m].holds
          \/ \E w \in Sweepers : sweep[w].pc = "drop" /\ sweep[w].cur = c]_vars

\* What the tables, the calls and the tasks at work on a comment show of its life.
Visible(c) ==
  {[at |-> i, kind |-> actions[c][i].kind, actor |-> actions[c][i].actor] : i \in Committed(c)}

Reached(c) == {i \in Committed(c) : actions[c][i].applied}

CallsFor(c) == {call \in Caller \X Mirrored : <<c, call[1], call[2]>> \in effects}

Dropping(c) == \E w \in Sweepers : sweep[w].pc = "drop" /\ sweep[w].cur = c

Life(c) == INSTANCE CommentLife WITH
  found <- Found(c), history <- Visible(c), applied <- Reached(c), countdown <- scheduled[c],
  deciding <- Looking(c), unaware <- missed[c], calls <- CallsFor(c),
  gone <- fb[c] = "deleted", page <- connected, dropping <- Dropping(c)

\* Whatever syncs, moderators and sweeps do to a comment at once, and wherever they die,
\* what becomes of it is a life that CommentLife allows.
EachLife ==
  /\ \A c \in Comments : Life(c)!Init
  /\ [][\A c \in Comments : [Life(c)!Next]_(Life(c)!life)]_vars

\* Every countdown is resolved: the comment is deleted, a person decides, or the
\* Page is gone and the schedule is dropped; it never stays due for ever.
CountdownResolved ==
  \A c \in Comments : scheduled[c] # "none" ~> scheduled[c] = "none"

\* No request waits for ever, neither on Facebook nor on another transaction's lock.
RequestsFinish ==
  /\ \A s \in Syncs : sync[s].pc # "idle" ~> sync[s].pc = "idle"
  /\ \A m \in Moderators : mod[m].pc # "idle" ~> mod[m].pc = "idle"

----------------------------------------------------------------------------
(* What the repository says and the code does not do.                      *)

\* comments.py: "a human has now decided, so the countdown no longer applies".  The
\* sweep deletes a comment on Facebook only while its countdown stands.
SweepNeedsCountdown ==
  [][\A c \in Comments :
       (fb[c] # "deleted" /\ fb'[c] = "deleted" /\ <<c, "sweep", "DELETE">> \in effects' \ effects)
       => scheduled[c] # "none"]_vars

\* comments.py: "A fresh human decision always overrides a pending auto-delete".  In the
\* order in which the history is shown, a countdown that stands was started after every
\* decision of a person.
DecisionIsLast ==
  \A c \in Comments : scheduled[c] # "none" =>
    \E j \in DecidedBy(c, "auto-removal") : \A i \in DecidedBy(c, "human") : i < j

\* comments.py: "The Action row and the Facebook state are written together".  What
\* a moderator's request did on Facebook is in the history, or about to be.
WrittenTogether ==
  \A c \in Comments, kind \in Mirrored : <<c, "human", kind>> \in effects =>
    \/ HasRow(c, kind, "human")
    \/ \E m \in Moderators :
         mod[m].pc = "answered" /\ mod[m].cur = c /\ mod[m].kind = kind

\* facebook.py: delete_comment takes a missing comment for "the outcome the caller
\* wanted".  A deletion that is on record as applied has happened.
DeletedIsGone ==
  \A c \in Comments : \A i \in Committed(c) :
    actions[c][i].applied /\ actions[c][i].kind = "DELETE" => fb[c] = "deleted"

\* ingest_provider_comments: "re-syncing the same Page is idempotent: an existing
\* comment is skipped rather than duplicated, and its verdict [...] survive[s]".
ResyncIdempotent ==
  \A c \in Comments : \A i, j \in VisibleRows(verdicts[c]) : i = j
=============================================================================
