# KCMS backend: specifications, model checks and proofs

This directory is a TLA+ development of the KCMS backend (`src/src/kcms`), a
FastAPI service over PostgreSQL (asyncpg, READ COMMITTED, no explicit isolation
level anywhere) that pulls comments from Facebook Pages, classifies them,
hides, schedules and deletes harmful ones, answers some of them automatically,
and manages the workspaces, people and Pages this is done for.

Nearly everything that can go wrong in this program is between two statements:
almost no handler takes a lock, several call Facebook or an SMTP server between
reading the database and writing it, and some hold a transaction open across
such a call. The models therefore take one SQL statement (or one transaction
whose inside nobody can tell apart), and one remote call, as one step. What a
handler read and carries across its awaits is its local state, a record with a
program counter.

Nearly all tables are read in the order of a column that defaults to `NOW()`, which in
PostgreSQL is the time of BEGIN, while a row is seen by others from COMMIT on. Where a
transaction may wait in between, or calls somebody, its BEGIN and its COMMIT are two steps:
the row takes its place with the first and becomes visible with the second (Moderation,
Team, Administration).

## 1. Inventory

| Component (code) | State it keeps | Operations | Talks to | What is hard | What makes it correct |
|---|---|---|---|---|---|
| Moderation core (`moderation/repository.py`, `moderation/quarantine.py`, `api/comments.py`, the sync in `api/page_connections.py`, `integrations/facebook.py`) | comment_content, verdict, action, correction, scheduled_deletion | sync (fetch, ingest, mirror), moderator action, sweep of countdowns that ran out | Facebook Graph; reads the workspace's settings and the Page's credential | sync, sweep and people act on one comment at once; a Graph answer is lost; the sweep dies between its statements; an uncommitted action row is held across a Graph call | automation removes only HARMFUL comments and has recorded why; a person's decision cancels a countdown that could be seen; history is append-only and true; no countdown stays for ever |
| Classifier and vocabulary (`moderation/pattern_matcher.py`, `_matcher_for`, the keyword routes of `api/settings_routes.py`) | workspace_keyword, the two lists in workspace, a cache of `keywords.json` | classify, `auto_removable`, edit lists and keywords | called by ingest and by the simulation of a reply; the file on disk | the lists, the keywords and the defaults of one verdict are read at different moments; the file changes under its cache | a word can surface a comment, never clear one; a verdict is explained by the words of its time; the cache catches up |
| Automated replies (`autoreply/`, `api/auto_reply.py`) | auto_reply_rule, auto_reply_event, workspace.auto_reply_enabled | process a batch, edit rules, switch | the sync hands over its new comments; Facebook | overlapping syncs with one comment in both batches; lost answers; rules edited under a batch; the order of rules | no comment answered twice; nothing unsafe or old answered; no comment passed over |
| Page connections (`api/page_connections.py`, `integrations/repository.py`) | page_connection, facebook_oauth_attempt | connect by token, by login (start, callback, select), disconnect | Facebook; the plan in workspace | checks and the insert are separate statements with a remote call before them; a login's state can be used twice | one workspace per Page; the plan's limit; one Page per login |
| Team (`team/repository.py`, `api/team.py`, `workspace_for_user`) | membership, invitation | invite, revoke, accept, remove, leave | accounts | the last-owner check; links followed twice; which workspace a person is in is recomputed by each request | invitations used once; roles only as given; a workspace keeps an owner |
| Pilot onboarding (`pilot/repository.py`, `api/pilot_requests.py`, `notifications/smtp.py`) | pilot_request, setup invitation, notification_delivery | request, decide, set up | SMTP, accounts, audit | the decision is committed before anything is delivered; the link exists only in the request that created it; the same form twice | decisions final and carried through; one open request; setup is all or nothing |
| Accounts and sessions (`auth/repository.py`, `api/auth.py`) | app_user, identity, session | sign up, sign in (email, Telegram, Clerk), sign out, revoke | everybody resolves a caller through it | check-then-insert of identities; Clerk's keys rotate under a cache; the administrators' role is only reconciled by a sign-in | an identity leads to every account; a fresh token is not refused; a role that was taken away ends |
| Entitlements and administration (`admin/repository.py`, `api/admin.py`) | workspace.plan, is_suspended, trial dates, platform_audit_event | change plan, suspend, revoke sessions, fleet queries | Page limits, trial guard | the previous values are read outside the transaction that writes; ending sessions and recording it are two statements | the trail accounts for what the workspace and the sessions are; an expired trial stays expired |
| Workspace settings (`api/settings_routes.py`) | columns of workspace | setters | sync reads them once | stale settings in a running sync | a sync uses one consistent policy |
| Database pool (`shared/database/pool.py`, `app.py`, `cloudflare_runtime.py`) | asyncpg's pool, or a connection of the request | connect, disconnect, acquire | lifespan, worker requests | a connection lost in a request | given back on every path, by a context manager |
| Work list and reports (`fetch_work_list`, `summarise_workspace`, `admin/repository.py`) | none, reads | queries | the tables of Moderation | three places derive the same notion from rows that are written in pieces | nothing automation did is out of sight; the views agree |
| HTTP surface, migrations runner | none | validation, wiring | | | |

Interactions: the sync is one request that runs through three components
(`PageConnections` holds the credential it reads, `Moderation` ingests and
mirrors, `AutoReply` answers in between). Team and Onboarding share the
invitation table, and both decide in which workspace everything else acts
(`workspace_for_user`). Entitlements change limits under PageConnections and
suspend workspaces under Team and Moderation. Vocabulary decides the severity that
Moderation and AutoReply act on.

## 2. Modules

Each component is a module of its own; its proofs, if it has any, are in a
module that extends it; `MC<module>` gives the constants values for TLC. No
module is RECURSIVE, and all constants carry named assumptions as weak as the
code allows, so all of them can be proved about.

| Module | Models | Extended or used by |
|---|---|---|
| `Moderation` (`ModerationProofs`) | sync, moderators, sweep on the same comments | `WorkList` |
| `CommentLife` | the abstract life of one comment, which Moderation implements for each | `Moderation`, by INSTANCE ... WITH |
| `WorkList` | what moderators and administrators are shown of Moderation's tables | `MCModeration`, `ModerationProofs` |
| `Vocabulary` (`VocabularyProofs`) | the words, the classifier, the cache of the defaults | |
| `AutoReply` (`AutoReplyProofs`) | replies, inside the sync that feeds them | |
| `ReplyOnce` | the abstract promise AutoReply implements | `AutoReply`, by INSTANCE ... WITH |
| `RuleOrder` (`AutoReplyProofs`) | the order of the rules of a workspace | |
| `PageConnections` (`PageConnectionsProofs`) | connecting and disconnecting Pages | |
| `Team` (`TeamProofs`) | memberships and invitations | |
| `PilotCase` | the abstract course of one pilot request, which Onboarding implements for each | `Onboarding`, by INSTANCE ... WITH |
| `Onboarding` (`OnboardingProofs`) | pilot requests, decisions, setups | |
| `Accounts` (`AccountsProofs`) | sign-up, sign-in, sessions, signing keys | |
| `Administration` (`AdministrationProofs`) | entitlements, revocations and their trail | |

### Moderation

One action per statement of `sync_comments`, `record_action` and `sweep_once`.

* `stored`, `verdicts`, `actions`, `scheduled` are the tables. An `action` row
  (or verdict) carries an MVCC status `tx`: the task whose open transaction wrote it,
  `committed` or `aborted`. It takes its place in `occurred_at` order at BEGIN, and keeps it
  whatever is committed in between; only committed rows are seen by others
  (`VisibleRows`), and those of a dead transaction never are (`Undone`). This is what makes
  "the latest row of a kind" (`mark_action_applied`), "the verdict that counts" and "a
  countdown newer than every decision" hard to get right.
* `fb` is the comment on Facebook, `effects` which caller changed it or was told so. A Graph
  call is done, refused, or done with its answer lost: `_delete` and `_post` turn both of
  the latter into the same `ValueError` (`GraphFails`). `delete_comment` believes any answer
  that is no error, and "does not exist": a deletion may be reported without being done
  (`GraphAccepts`). Nothing is done to a comment that is gone (`GraphDoes`).
* The ingest of a sync: `SyncBegin` classifies and fixes the places of what will be written;
  `SyncInsert` is the statements for one comment, in the order Graph returned them. It waits
  for another transaction that has inserted the same new content or the same countdown, or
  is deleting that countdown (`InsertWaits`); a countdown that stands already violates the
  primary key and ends the request (`SyncInsertFails`); two batches in different orders may
  wait in a circle, of which the detector fails one (`SyncDeadlockFails`). `SyncCommit` makes
  all of it visible at once, and `SyncRollback` none.
* A moderator: `ActionBegin` is BEGIN and the INSERT, `ActionCancel` the DELETE of the
  countdown, which sees only one that has been committed and waits while another transaction
  is cancelling it (`RowLocked`); `ActionCallOk` and `ActionCallFails` are the Graph call inside the
  transaction, `ActionCommit` and `ActionCrash` its other ends.
* `missed` is history: the places of the people who had looked for a countdown, or decided,
  before the one started last was committed. It says exactly what an uncommitted
  countdown hides from the DELETE at `comments.py:233`.
* `SweepPop` after `SweepRecord` are two autocommit statements; a database
  error between them is `SweepCrash` with a new sweep, which reaches the same
  rows. The verdict of a comment is any severity: which one is the business of
  Vocabulary.

`CommentLife` says the same about one comment, without tasks, locks or transactions: a verdict may
come with the decision automation is entitled to (`Judge`), a person looks for a countdown
(`Look`), gives up (`GiveUp`) or decides (`Decide`), a countdown runs out, somebody does on
Facebook what was decided (`Call`), what was done is confirmed or recorded, and a countdown lapses
for want of a Page. `Life(c)` maps the tables to it: `Found` the severities, `Visible` the
committed rows by their places, `Reached` those marked applied, `CallsFor` the effects, `Looking`
the places of people between their look and their end (`deciding`), `missed` those whom the
countdown escaped (`unaware`), `Dropping` whether a sweep at work on the comment has found no
Page. Open transactions, batches, due lists and crashes are not seen in it, so that a request that
dies before it has looked is no step of a life. No decision need come last: its place is that of
the beginning of its transaction. A person's decision ends the countdown, unless it was started
behind their back: they had looked before it was there to be seen. `EachLife` is the specification
of CommentLife for every comment (`Init` of each, and every step a step of each life or none; TLC
does not take a quantified specification with its box inside).

### AutoReply

`process_new_comments` statement by statement, inside the sync that feeds it
(`SyncStart` reads the switch, `SyncReadExisting` and `SyncIngest` form the
batch), and the owner's edits. A rule is reduced to the set of comments it
answers now, which is all that keywords, `on_comments` and `enabled` decide; any
matching rule may be the first here, which one is in RuleOrder.
`RecordAborts` is the foreign key of a rule that was deleted since `list_rules`:
nothing catches it, and the request ends there with its ingest committed.

`ReplyOnce` says the same from outside: of each comment it is decided once whether to
answer, an answer is posted once at most and only while the decision to post it is
pending, and "replied" is recorded only of a comment that has its answer.
`Promised == INSTANCE ReplyOnce WITH decision <- events, replies <- posted` maps the rows
of auto_reply_event and the answers on Facebook to it; `RepliesOnce` is its
specification under that map. A sync that dies, or whose call is lost, leaves the
decision pending for ever or settled as skipped, which the abstract specification
allows; a second answer, or a "replied" without one, it does not.

### RuleOrder

`post_auto_reply_rule`, `patch_auto_reply_rule`, `remove_auto_reply_rule` and
`reorder_rules` on the positions of one workspace's rules. Creating reads the next
position before it inserts (`ReadNext`, `CreateRule`), editing writes back the position
it has read (`GetRule`, `UpdateRule`), arranging compares, then rewrites one row after
the other in a transaction (`ReadExisting`, `Place`, `Commit`). A row written by an open
transaction is locked; `Holder` says whom a request waits for, `DeadlockFails` is
PostgreSQL's detector, which fails one request of a circle. The fields of a rule other
than its position are left out: `AutoReply` has them. `arranged` (the order
committed last) and `stale` (some write since, or that order itself, rests on a read no longer
true) are history: the next commit of an order that knows every rule clears `stale`.

### Team

Admission (`_membership`, `_require_owner`) is a step of its own, so that what it
read may be stale. `Begin`, `Claim` and `Join` are `accept_invitation`: BEGIN, to whose time
`expires_at > NOW()` refers; the UPDATE, which waits for the invitation row and holds it
until COMMIT (`ClaimNothing` if it was spent or revoked meanwhile); the INSERT with the COMMIT.
`ReadRole`, `CheckOwners`, `DeleteMembership` are the three statements of
`remove_member`, which under READ COMMITTED each see the database of their own
moment. `before` is the order of `membership.created_at`, from which
`IsCurrent` computes what `workspace_for_user` returns. That is the BEGIN of an acceptance: the
order is over a person's workspaces and the requests with which they are accepting
(`Dated`), and the membership takes its request's place (`PlaceOf`). `meanwhile` is history: what
else a person joined since an acceptance began. `raced` remembers in
which workspaces two removals were under way at once.

### WorkList

The queries over Moderation's tables, as operators: `Listed` for the four filters of
`fetch_work_list`, `Summary` for `summarise_workspace`, `FleetPending` for the number of
pending comments administrators see. `LatestSeverity` and `LatestAction` are the
LATERAL joins; only committed rows are visible to them. CONNECTED_PAGE_ONLY
(`OfConnectedPage`) depends on the workspace's other Pages, of which only matters whether one is
connected: `others`, a parameter of the queries that the properties quantify.
`AutomationInSight` compares the three with what automation has done, in the run of the overlapping
syncs, for comments that were stored once or twice. Its two exceptions are the code's: comments
of a Page that is no longer connected are out of sight once another one is; and of two
verdicts the one whose sync began last counts, so that a comment one of them had removed leaves
the lists if that one is SAFE (`ClearedAgain`), though not the view of all comments.

### Vocabulary

A phrase stands for all spellings that strip and lower to it, a text for the set of the
phrases that occur in it. `Classified` is `_classify_one` with its routing, `Bucket` the
union of defaults and workspace keywords. The request that classifies reads the lists
(`ReadWorkspace`), the keywords (`MatcherFor`), and then consults the cached defaults four
times, each time after comparing the file's time with the cache's (`Stat`, `Load`,
`Store`): another process may change the file between any two of these, and owners may
edit the tables between the first two. `classify` does not await, so only the file
changes after `MatcherFor`; owners' steps are allowed there all the same (other processes
serve them), and their effect is only on what stands, not on what was read. The markers
of institutions and persons are two lists of the file like the others. The file may be
replaced, removed, truncated (`broken`: `json.load` refuses it) or be JSON of another shape,
which `_load` does not expect: that raises past its handler and ends the request
(`StoreRaises`), for the markers (`mismarked`) after the words have been replaced already, so
that the cache mixes two files until it is loaded again. A change may give the file any time, a
later one, the same or an earlier one (a copy that keeps its time). `latest` and `fresh` are
history: the latest time it ever had, and whether the last change gave it a later one than
all before. `ever` and
`always` are history: what each source held at some moment, or at every moment, of the
request.

### PageConnections

The two ways to connect a Page up to the INSERT they share, with a step for each
statement of `_require_capacity` and `add_page_connection`. The workspace row,
and with it the plan, is read at the start. A login's selection holds its
INSERT until the attempt is deleted (`RowLocked`), a manual one commits at once.
`InsertAborts` is the unique index on (provider, external_page_id), which
`ON CONFLICT` does not name. Abstracted: who is calling (an attempt is selected by
its own user in its own workspace, or the answer is a 404), the trial guard (a
request may simply not be made) and the sealing of credentials.

### Onboarding

`create_pilot_request`, `decide_pilot_request` and `accept_setup_invitation`
with sign-up by email as the competitor for an identity. An application stands
for the workspace and the invitation its approval creates, so `grant` and
`owner` are functions of it. `CreateStart` is the snapshot of the DELETE,
`CreateReplace` what is left of it after the wait for a row lock. `reached`
remembers whose link was mailed or shown: the database only has its hash.
`TeamAccept` is there because the team route accepts any open invitation.
Abstracted: accounts without an email identity, the sandbox flag an approval
clears for somebody who has an account already.

`PilotCase` says what becomes of one pilot request, without requests, locks or reads: it is
submitted, replaced or decided, once; the decision is audited, then its mail recorded; the link
leaves the server by who carries the decision out, after the audit; who carries it out ends
(`Finish`) only when nothing is left to be done; a link that has left is used once, by who
becomes the owner. `Case(a)` maps the tables to it: `carrying` and `receiving`
are that some request has the application between commit and answer, or between its insert and
the record of its receipt; `late` is that the decision was committed while `receiving`. A
crash may take each of them away (`Die`), which is the only way something is left undone.
`EachCase` is this for every application. `Own` is possible also
after the link has expired, because a setup that has locked the invitation commits whatever the
clock says meanwhile.

### Administration

`update_admin_workspace_entitlement` and `revoke_admin_sessions`. `EntitlementRead` is the
SELECT ... FOR UPDATE that runs outside the transaction, so that its lock ends with it.
`EntitlementBegin` fixes the place of the audit event, whose `created_at` is the time of
BEGIN; `EntitlementUpdate` waits for the row (`RowLocked`) and holds it;
`EntitlementCommit` makes the UPDATE and the event visible. A body names any
fields, plan, standing, or both. The plan and `is_suspended` are one function
`entitlement` because everything about them is per field; `trial` has what the dates
come to. `RevokeSessions` and `RecordRevocation` are two autocommit statements between which
the request may die. `Admitted` asks for a live session, which another administrator's revocation
may end at any time; it is asked once, when the request begins. An audit event keeps the
new values and the ended sessions (the code stores their number, the history here the
set). `audit` is in the order in which `list_audit_events` reads it. `unaudited` is history: the
fields last written by a PATCH that did not count them among its changes though they had
changed since its read (`Unnoticed`), or that waited while a PATCH which began later
committed a change of them (`Overtaken`); a later PATCH that changes the field takes it out.

### Accounts

Sign-up and sign-in by email, Telegram and Clerk. Sign-up, Telegram and Clerk are a
transaction whose look-up (`SignUpRead`, `TelegramRead`, `ClerkRead`) is a step of
its own and whose writes are one (`Enter` for an identity that was found,
`Register` for one to be inserted): nothing of an open transaction is visible, and
the unique (provider, provider_id) makes the later of two wait and fail (`Fail`).
Sign-in with a password is in no transaction, so `SignInReconcile` and
`SignInIssue` are two. The cache of Clerk's key set is
state of the process: a request takes the answer Clerk gave (`ClerkServes`) and
stores it when it arrives (`KeysArrive`, `RefreshArrives`), by when others may
have stored theirs. A key set is the one key that Clerk signs with, the harshest
rotation there is. `Redeploy` is a new process with any allowlist; two processes
with different lists at once are not modelled. Sessions are counted per account;
`Expire` is also what sign-out does. The workspace of a new account is in Team,
accounts set up by invitation in Onboarding.

## 3. Runs

All runs together take a few minutes with two workers.

| Run | Instance | What it shows |
|---|---|---|
| `moderation_overlap` | 2 comments (one of them always SAFE and left to the batches), 2 syncs, 1 moderator, 1 sweep, any two at work at once; both delays, with and without auto-hide; 1 crash or change of the connection | `AutomationOnlyForHarm`, `AutomationExplained`, `DecisionCancelsCountdown`, `AppliedMeansAccepted`, `AutomationInSight` and the refinement `EachLife` in every interleaving |
| `moderation_faults` | 2 comments (HARMFUL and OFFENSIVE), 1 sync, 2 moderators, 1 sweep, any two at work at once; 1 crash, Page disconnected, trial ended or comment removed by its author; fairness | `CountdownOutlivesCrash`, `CountdownResolved`, `RequestsFinish` |
| `stale_sweep` | 1 of each | violated: a sweep deletes a comment whose countdown a person has cancelled since it read its list |
| `autoreply_overlap` | 2 comments, 2 syncs, 1 rule, 1 crash, 4 edits | `AtMostOneReply`, `OnlyClearedAnswered`, `OldQueueSilent`, `NoReplyAbandoned`, the refinement `RepliesOnce`, and `NonePassedOver` |
| `rule_order` | 4 rules, 2 of them there to begin with, 3 requests, every order of up to three rules and one that names a rule twice, crashes, fairness | `ArrangedOrderStands`, `RequestsEnd` |
| `vocabulary` | 2 phrases, every text with one of them, 2 versions of the file, 2 edits, 2 changes of the file (state, words and time) | `VerdictOfItsTime`, `CacheCatchesUp`, `NeverCleared` |
| `institution_spared` | the same | violated: a HARMFUL comment aimed at an institution is removed automatically |
| `team_overlap` | 2 people, 3 workspaces (one a sandbox, one that may be suspended), 2 requests, 2 invitations | `SingleUse`, `RoleAsInvited`, `AdministeredUnlessRaced`, `LandsInTeam` |
| `page_connections` | 2 workspaces, 2 Pages, 1 login, 2 requests, limits 1 and 2 | `OneWorkspacePerPage`, `WithinPlanUnlessRaced`, `OnePickUnlessRaced`, `SpentWithConnection` |
| `onboarding` | 2 people, 2 applications, 2 requests, 1 crash | `OneOpenRequest`, `OneAccountPerEmail`, `SpentWithOwner`, `DecisionCarriedThrough`, `DeliveryOfDecision`, the refinement `EachCase` |
| `accounts` | 1 person with an email, a Clerk user and a Telegram user; 2 requests, 2 accounts, 2 sessions each, 2 keys, fairness | `EveryAccountReachable`, `CurrentKeyAccepted`, `RemovalTakesTheRole` |
| `administration` | 2 administrators, 3 sessions, 3 requests, 1 crash | `AuditAccounts`, `RevocationsAccounted`, `ExpiredTrialStays` |

**Why the bounds are enough.** The hazards are pairwise: each is a statement of one request
between two statements of another, about one comment, one workspace, one Page or one email. Two
requests of the kind that races, and one of each other kind, give every such pair. In Moderation
comments meet in a batch: two syncs that insert both in opposite orders wait in a circle, one
comment's countdown that stands rolls back the other's verdict, and the comment after the one
whose Graph call failed must still be mirrored. Two comments give all of these; `Severities` and
`Choices` keep the second one to the part it plays, which in `moderation_overlap` is to be in the
batch, and in `moderation_faults` to be hidden after the first. `MaxBusy` = 2 (3 in `stale_sweep`)
is how many tasks are at work at once: every pair of them, which is what the hazards are about,
with the third task starting when one of them has ended. `MaxVerdicts` = 1 lets a sync start only
before the first verdict of any comment, so that syncs overlap, or one of two finds stored what
the other has committed; a sync that starts after all of that is covered by the proofs alone.
`MaxFaults` = 1 is one fault at any moment (proved for any number, but for liveness). Two
moderators contend for the countdown's row over the Graph call in `moderation_faults`; two syncs
wait for each other, and deadlock, in `moderation_overlap`, where they are checked for safety: one
sync is all that the liveness run can afford. In AutoReply a second comment is needed for what one
comment does to the rest of its batch. `MaxRows` = 2 stops people from acting on a comment that
has two rows, which still gives a person's row before and after the automatic ones, also ones that
are committed the other way round (syncs and sweeps are not bounded by it). `MaxCrashes` = 1 lets
any one request die at any await; requests start anew without a bound. `MaxEdits` = 4 is a rule
created, switched on, edited and deleted under one sync, or replies switched on and off around
two. Two applications are an earlier and a later request of the same email, or of two. In
`accounts` two sign-ins of one person are what can collide, and a key that is current and one that
was retired are all a token can be signed with; people do not interact but through the allowlist.
In `rule_order` two requests can arrange in opposite orders, the smallest circle, with a third
that creates, edits or deletes meanwhile; two rules to begin with and one created make every pair
of positions that can be confused. In `vocabulary` two phrases let every source hold a word that
another one contradicts; two edits and two changes of the file give each of the moments at which
one classification reads a value of its own, a file that changes between its time and its words
being read, and one that is put back with the time it had before. In `team_overlap` the third
workspace is the one that somebody owns before two acceptances overlap. In `administration` three
requests are two overlapping PATCHes and one before or after them; three sessions let two
administrators revoke each other and one come back. Symmetry is used only in runs without
liveness.

`CHECK_DEADLOCK FALSE` is set where the system may stop: in Team everybody may
have left every workspace with no invitation open, in Onboarding every
application may be decided and every link used up, in Administration every
administrator may have lost their last session or all requests been made, in the runs of
Moderation every comment may have the rows the bounds allow and nothing be scheduled, and in RuleOrder
every request is answered at the end. That RuleOrder does not stop before is `RequestsEnd`.

**Fairness** is assumed in `accounts`, `moderation_faults` and `rule_order`. In `rule_order` a
request that has begun goes on (weak fairness on `Continue`) and PostgreSQL looks for a
circle of waiting transactions after a second (weak fairness on `DeadlockFails`); locks
are released by commits, failures and crashes alone. In `accounts` it is only
that sessions expire (weak fairness on `Expire`: 30 days pass); nobody has to sign in
or finish a request. In `moderation_faults` (`FairSpec`) a request that
was admitted goes on (weak fairness on its steps, the event loop runs it). A
statement waiting for a row lock gets it (strong fairness on `ActionCancel`, `SyncInsert` or its
failure, and `SweepPop`), because PostgreSQL queues the waiters of a row; a circle of them is
found after a second (weak fairness on `SyncDeadlockFails`). The sweep loop is
restarted (`app.py` runs it for as long as the process lives and the scheduled
worker calls it again) and time passes (weak fairness on `SweepStart`,
`CountdownEnds`). Strong fairness on `SweepCallOk` says that Facebook obeys at
last a delete that is asked for again and again; without it a countdown may be
retried for ever, which is what the code does on purpose (`quarantine.py:78-82`): a token that is dead
for good is assumed away, and nothing here says that its comments leave the list. Crashes, refusals of
everything else and people's actions have no fairness.

Each property of a passing run has a mutant: a definition changed as a plausible
bug would (a dropped guard, a swapped order, a missing index), defined next to
the original and named `...Mutant` or for what is missing, under which the property fails.

## 4. Findings

Two statements of the repository about itself are refuted by a run of their own;
PROJECT.json quotes them with their lines.

* `stale_sweep`: `api/comments.py` says that after a person's decision "the countdown no
  longer applies"; a sweep that has read its list deletes the comment all the same.
* `institution_spared`: `src/README.md:67` and the docstring of `_route`
  (`pattern_matcher.py:196-197`) say that criticism of an institution is never
  removed, "however hostile". `auto_removable` (`pattern_matcher.py:220`) looks at the
  severity alone and `ingest_provider_comments` (`repository.py:412`) asks nothing else:
  the target changes `surfaced_reason`, not the removal.

More disagreements were met while modelling. Their statements are at the end of the modules,
under the headings that say so, and adding one to a configuration shows the counterexample:

* `WrittenTogether` (Moderation): "The Action row and the Facebook state are written
  together" (`api/comments.py:187-189`); a call that Facebook obeys with its
  answer lost leaves no row (`api/comments.py:249`).
* `DecisionIsLast` (Moderation): "A fresh human decision always overrides a pending auto-delete"
  (`api/comments.py:230`). A countdown whose sync began before the person's request and is
  committed after their DELETE stands below the decision; the sweep will carry it out.
* `DeletedIsGone` (Moderation): `delete_comment` takes an answer that is no error for a deletion
  (`integrations/facebook.py:350-356`), so a row may be applied while the comment stands.
* `ResyncIdempotent` (Moderation, two syncs): "re-syncing the same Page is idempotent"
  (`moderation/repository.py:347-349`); two overlapping syncs each write a verdict
  and an automatic action for one new comment (`:361`).
* `PageEchoSilent` (AutoReply with `PageComments <- OneOfThePage`): the Page's own
  comments get no answer in `test_autoreply_core.py:42-51`, but no caller sets
  `from_page`, so the service answers them (`autoreply/service.py:56`).
* `AlwaysAdministered` (Team, two owners removed at once): "The last owner still cannot leave"
  (`api/team.py:212-214`) against the count in a statement of its own
  (`team/repository.py:128`).
* `AutomationAlwaysListed` (WorkList): the comments of a Page are listed by whether it is connected now
  (`moderation/repository.py:16-27`), and by the verdict of the sync that began last.
* `AlwaysLands` (Team): "Accepting an invitation actually lands the person in that team"
  (`auth/repository.py:96-99`). Of two acceptances that overlap, the one that began first and
  was committed last leaves its caller in the other team.
* `TrailAlwaysTells` (Administration): the last event that names the plan need not name the plan the
  workspace has: `FOR UPDATE` is released before the transaction begins
  (`admin/repository.py:312-327`), and the trail is read by `created_at` (`:288`).
* `AlwaysReloaded` (Vocabulary): "reloaded when the file changes" (`pattern_matcher.py:41`); a file
  whose new time is not later than the cached one is not (`:73`).
* `CacheOfOneFile` (Vocabulary): "Fail safe if the file is mid-write or malformed" (`pattern_matcher.py:93`);
  markers that are no object raise `AttributeError` after the words have been replaced.
* `LandsInTeam` holds with an exception it names: who is invited as an owner to a
  sandbox team is sent to a workspace of their own first, since `workspace_for_user` sorts every sandbox
  a person owns last, while its comment (`auth/repository.py:96-98`) speaks of the
  personal one.
* `src/README.md:75-77` says that unrecognised Khmer abstains rather than clearing. `Classified`
  has no such case because the code has none: a text without a hit is SAFE with the
  confidences 0.66 and 0.55, above the threshold, hence cleared. Nothing uses
  `_KHMER_RUN`.

The passing properties next to them say what does hold: a stale sweep still explains
what it deletes, a lost answer never makes a row claim too much, overlapping syncs never
answer twice, a workspace loses its last owner only if two removals overlapped, and a
word that is added never clears a comment.

## 5. Proofs

TLAPS checks the following for every value of the constants, from the
assumptions in the modules only (bounds are naturals, `None` is no element of
anything, policies are policies, people are finitely many, nobody is called "committed").

**ModerationProofs.** `TypeCorrect` first. The safety properties
are not inductive: what an open transaction has written, and what tasks carry across their
awaits, has to be related to the tables. `IInv` has

* `OpenActs`, `OpenBatches`, `BatchesSplit`: an open transaction of a person has one row, that of
  a sync one verdict for each comment of its batch and the one row its lists say, and the verdict
  allows it;
* `InsertsApart`: the primary key of scheduled_deletion, also for countdowns that are not committed yet;
* `ListsDecided`: every comment in a sync's or sweep's list, and every countdown, has the
  committed row that put it there; `RowsJustified`: every automatic row has its verdict;
* `AnswersTrue`: whoever is about to record a success has had one;
* `MissedLooked` and `OpenDecisionsCancel`: who has missed a countdown has looked for it, and
  who has looked without finding the one that stands is among those who missed it, so
  that no commit brings a decision into the history that could have ended it;

and the properties `DecisionCancelsCountdown`, `AutomationExplained` and `AppliedMeansAccepted`.
The second section of the module is about rows alone: which rows a step appends, publishes or
kills (`RowSteps`), that a transaction's own rows stay until it ends (`OwnRowsStay`,
`OwnRowsEnd`) and that visible ones stay for ever (`VisibleStay`). The invariants are then
proved one by one over the few actions that begin, publish, start a countdown or cause an effect.
Theorems: `OnlyForHarm`, `EveryCallExplained`, `HumanDecisionWins`,
`AppliedIsTrue`, `AppendOnlyHistory`, `CountdownSurvivesCrash`, and `AutomationSeen` for the
queries of WorkList, which needs besides that automation makes no other calls (`CallsKnown`) and that
a comment with a visible row has a latest one (`LastPosition`, `NewestRow`).

`LivesAsPromised` (and `EachRefinesLife`, as an implication of specifications) is the
refinement of CommentLife, one lemma per action: what is open or in a list is not seen in a life
(`SyncQuiet`, `ModQuiet`, `SweepQuiet`), a call is one (`GraphLife`), a look is one (`LookLife`), and
the commits of syncs and people and the record of the sweep each make one decision of a
comment appear at the place it took at BEGIN (`SyncCommitLife`, `CommitLife`, `RecordLife`).
The map needs all of `IInv`: what a sync publishes is what its lists and verdicts warrant
(`OpenBatches`), what a person publishes is their own row (`OpenActs`), who leaves a countdown
standing was unaware of it (`OpenDecisionsCancel`), and a pop has its record (`ListsDecided`).
What `AppendOnlyHistory` says by itself is part of it.

**AutoReplyProofs.** `IInv` has three parts: `Ownership` (one request at most is
between a comment's event and its outcome, and has not posted before its call),
`Answers` (what a request may still answer was cleared by a stored verdict) and
`Queue` (a request that may answer started with the feature on, and nothing it
found new is in the old queue). Theorems: `AnsweredOnce`, `RepliedIsTrue`,
`OnlyCleared`, `OldQueueStaysSilent`, `PendingIsOwned`, the action property
`EveryCommentDecided`, and `ImplementsReplyOnce`: the initial states map to the initial
state of ReplyOnce and every step to one of its steps or a stutter. The map needs of
`IInv` that who posts owns a pending decision and has not posted before
(`OwnerPending` strengthens `Ownership` by that the decision is still pending).

The same module has the order of the rules, `OrderStands` over `OrderTypeCorrect`. That the
rules stand as arranged is not inductive; the locks are the strengthening. `Held`: a request that
arranges names different rules, and holds each rule it has passed that is still there.
`HeldForOrder`: a rule is held only by a request that arranges, for its own order. So a commit
moves exactly the rules of its order that are left, to positions that differ, and nobody else
has moved one of them between its `Place` and the commit. A rule created since comes behind
all others (`NextIsBehind`): positions never pass some number (`Bounded`), so there is a maximum
(`MaxOfBounded`, by well-foundedness). That a complete order names no rule twice is a matter of its
length (`FullOrderIsDistinct`).

**TeamProofs.** `Invited` (claims of an invitation are exclusive) and
`Administered` (`RemovalsAlone`: where nothing raced one removal is under way;
`DeleteSafe`: where it is, it is about to delete a member, or one of two owners)
give `InvitationsSpentOnce`, `RolesAreEarned` and `OwnersRemain`. `AcceptanceLands` follows from
`JoinOrder`, the order of a person's memberships and acceptances, in which whoever begins comes last,
and `NewerJoined`: a membership that comes after an acceptance under way was joined since it began.

**AccountsProofs.** `Knows` says of each request that the account it found exists
and that its token's key is no newer than the answer it waits for, `KeysOK` that
no cached answer is newer than the key Clerk signs with. They give
`AccountsReachable` and `CurrentKeyNeverRefused`.

**AdministrationProofs.** `TrailAccounts` needs, besides the types, that each transaction under
way has one place in the trail, with the event it will insert (`Placed`). When it commits, an event that
names nothing of a field leaves what the trail says of it alone, and one that names it
says what is written unless a later one names it too; a field written unnamed, or
overtaken, joins `unaudited`. `RevocationsAudited` needs
`HeldOnce`: what requests and events hold of ended sessions is disjoint, because a
session is ended by one DELETE only. `TrialNotRenewed` follows from `TypeOK`, in which
the dates and the plan agree.

**PageConnectionsProofs.** `Exclusive` (an uncommitted row keeps its Page to itself,
`Locks`) gives `PageExclusive`. `Capacity` gives `PlanRespected`: where nothing
raced one request of a workspace at most is between its count and its row (`Turns`),
and what it has counted still leaves room (`Room`). The limit is compared with a
cardinality, so the proof carries finite sets of Pages. `Logins` relates an attempt to the
request that uses it and gives `OnePick` and `SpentTogether`.

**OnboardingProofs.** `IInv` says what each request knows of the row it works on
(`CreatingKnows`, `DecidingKnows`, `EnteringKnows`), that no two requests create, hold or
insert the same (`Apart`), what each application has come to (`Consistent`), and what a
decision still owes (`Owed`: as long as nobody died, either some request carries it out or
it has been audited, its link handed out and its delivery recorded). A step of one
request touches no row another one relies on: `Assemble` reduces the whole invariant to
the moving request, the pairs it is in, and the rows it changed. Theorems: `OneOpen`,
`AccountsUnique`, `SetupsSpentWithOwner`, `DecisionsCarried`, `DecisionsShown`,
`DecidedOnce`.

`CasesAsPromised` (and `EachRefinesCase`, as an implication of specifications) is the
refinement of PilotCase. `IInv` is not enough for it: a course has one `carrying`, which ends
when a request ends, so that there must not be two. `CaseInv` adds that of the requests that
carry out a decision, record a receipt or have taken a link there is one per
application (`Sole`), that whoever hands out or uses a link has one which was approved and,
to be used, has left the server (`Entitled`), and that a decision is what raced a receipt. The
locks give `Sole`: a commit of a decision needs a pending row, which nobody carries out; a
setup needs an invitation nobody has locked. Each action is then one step of the course of its
own application and none of the others' (`SameCase`).

**VocabularyProofs.** `Fetched` says that no time is later than the latest the file ever had, that
the time a request carries from `Stat` to `Store` is later than the cache's, and that, while the
last change gave the file a later time than all before, what was read since is the file's if the
time still is; with it `CacheCatchesUp` is inductive (`CacheNeverAhead`). `Kept` says that
whatever a request has read of a source lies between what the source held always and what it ever
held since the request began, which gives `VerdictExplained`. `WordsOnlySurface` needs that no
step turns a keyword from one severity to the other (`KeywordKept`) and that the severity is
monotone in the words against a text (`SeverityGrows`).

Every assumption on a constant is evaluated by a run of the module that declares it.

Only model-checked: the liveness properties (`CountdownResolved`, `RequestsFinish`,
`RemovalTakesTheRole`, `RequestsEnd`), which are beyond the prover together with ENABLED, and of
course the violated statements.

## 6. Not modelled

* The texts of comments, rules and mails, the normalisation of Khmer, the wording of rationales; cryptography, token
  formats and HTTP validation; paging and text search of the queries; pagination of Graph.
* The leases of the database pool: `acquire` is a context manager over asyncpg's own
  pool, so the state is the library's. What a lost connection does to a request is the
  crash in each module.
* Renaming a workspace, changing one's name, and the settings of notifications: single
  UPDATEs that nothing in the models reads.
* Corrections (inserted, never read back) and the sample comments of a new workspace.
* The migrations, which run once before anything else.
* A Page that moves to another workspace keeps its comments where they were; Moderation
  has one workspace and one Page.

## 7. Plan

Done, in the order of what depends on what: Moderation, AutoReply, Team,
PageConnections, Onboarding, Accounts, Administration and Vocabulary, each with its proofs;
ReplyOnce, CommentLife and PilotCase with their refinements; WorkList and RuleOrder with their theorems.
To come:

1. Vocabulary composed into Moderation's ingest, so that a verdict that mixes moments is
   followed to the removal it causes.
2. Suspensions and plans of Administration seen by requests in flight in the other
   modules, and Pages that move between workspaces with their comments.
3. The samples of a new workspace, which the work list does not tell apart from real
   comments, and corrections once something reads them.
