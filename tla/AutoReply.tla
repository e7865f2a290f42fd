------------------------------ MODULE AutoReply ------------------------------
(***************************************************************************)
(* Automated replies: what a Page sync does between ingesting new comments *)
(* and mirroring its moderation decisions (autoreply/service.py, called    *)
(* from sync_comments in page_connections.py), while owners switch the     *)
(* feature on and off and edit or delete the rules.                        *)
(*                                                                         *)
(* The unit that decides is one event row per comment: it is inserted as   *)
(* "would_reply" before Facebook is asked to post, and becomes "replied"   *)
(* or "skipped" afterwards, each in a statement of its own.  Syncs of one  *)
(* workspace may overlap, and any of them may die at any await.            *)
(***************************************************************************)
EXTENDS Naturals

CONSTANTS
  Comments,      \* provider comment ids
  PageComments,  \* external: those the Page itself wrote
  Rules,         \* rule ids (fresh uuids: one is never used twice)
  Syncs,         \* concurrent sync requests
  MaxCrashes,    \* bound: requests that die
  MaxEdits,      \* bound: changes owners make
  None           \* no comment, no rule

ASSUME PageCommentsAssumption == PageComments \subseteq Comments
ASSUME BoundsAssumption == MaxCrashes \in Nat /\ MaxEdits \in Nat
ASSUME NoneIsNothing == None \notin Comments /\ None \notin Rules

VARIABLES
  enabled,   \* workspace.auto_reply_enabled
  rules,     \* auto_reply_rule
  stored,    \* comment_content: the comments ever ingested
  cleared,   \* comments some ingested verdict found SAFE without abstaining
  events,    \* auto_reply_event: the decision recorded for each comment
  posted,    \* external: how many replies of ours each comment has on Facebook
  sync,      \* local state of each sync request
  opened,    \* history: the feature has been switched on before
  oldQueue,  \* history: the comments ingested before that
  crashes,   \* requests that have died so far
  edits      \* changes owners have made so far

owner     == <<enabled, rules, opened, edits>>
ingestion == <<stored, cleared, oldQueue>>
vars      == <<owner, ingestion, events, posted, sync, crashes>>

Decision == {"none", "would_reply", "replied", "skipped"}

\* Which comments a rule answers now is all that is kept of its keywords, of
\* on_comments and of its own enabled flag.
Rule == [life : {"new", "live", "deleted"}, answers : SUBSET Comments]

SyncState == [pc : {"idle", "read", "ingest", "rules", "loop", "skip", "record", "call",
                    "posted", "failed"},
              on : BOOLEAN,                  \* the workspace row read at the start
              batch : SUBSET Comments,       \* new comments not processed yet
              safe : SUBSET Comments,        \* those of them the risk gate clears
              known : [Rules -> SUBSET Comments],  \* list_rules, read once
              cur : Comments \cup {None},
              rule : Rules \cup {None}]

IdleSync == [pc |-> "idle", on |-> FALSE, batch |-> {}, safe |-> {},
             known |-> [r \in Rules |-> {}], cur |-> None, rule |-> None]

Init ==
  /\ enabled = FALSE
  /\ rules = [r \in Rules |-> [life |-> "new", answers |-> {}]]
  /\ stored = {} /\ cleared = {}
  /\ events = [c \in Comments |-> "none"]
  /\ posted = [c \in Comments |-> 0]
  /\ sync = [s \in Syncs |-> IdleSync]
  /\ opened = FALSE /\ oldQueue = {}
  /\ crashes = 0 /\ edits = 0

----------------------------------------------------------------------------
(* The sync request around the replies.                                    *)

\* The workspace row is read first, before Facebook is asked for comments.
SyncStart(s) ==
  /\ sync[s].pc = "idle"
  /\ sync' = [sync EXCEPT ![s] = [IdleSync EXCEPT !.pc = "read", !.on = enabled]]
  /\ UNCHANGED <<owner, ingestion, events, posted, crashes>>

\* Mutant: whatever Facebook returned is processed, old or new.
SyncReadExistingMutant(s) ==
  /\ sync[s].pc = "read"
  /\ \E seen \in SUBSET Comments :
       sync' = [sync EXCEPT ![s] = IF seen = {} THEN IdleSync
                  ELSE [@ EXCEPT !.pc = "ingest", !.batch = seen]]
  /\ UNCHANGED <<owner, ingestion, events, posted, crashes>>

\* fetch_comments, then the SELECT of the ids that are stored already.
SyncReadExisting(s) ==
  /\ sync[s].pc = "read"
  /\ \E seen \in SUBSET Comments :
       LET fresh == seen \ stored
       IN  sync' = [sync EXCEPT ![s] = IF fresh = {} THEN IdleSync
                      ELSE [@ EXCEPT !.pc = "ingest", !.batch = fresh]]
  /\ UNCHANGED <<owner, ingestion, events, posted, crashes>>

\* The ingesting transaction; each request has verdicts of its own, the batch goes
\* on to the replies only if the feature was on.
SyncIngest(s) ==
  /\ sync[s].pc = "ingest"
  /\ \E safe \in SUBSET sync[s].batch :
       /\ stored' = stored \cup sync[s].batch
       /\ cleared' = cleared \cup safe
       /\ oldQueue' = IF opened THEN oldQueue ELSE oldQueue \cup sync[s].batch
       /\ sync' = [sync EXCEPT ![s] =
            IF sync[s].on THEN [@ EXCEPT !.pc = "rules", !.safe = safe] ELSE IdleSync]
  /\ UNCHANGED <<owner, events, posted, crashes>>

----------------------------------------------------------------------------
(* process_new_comments.                                                   *)

ListRules(s) ==
  /\ sync[s].pc = "rules"
  /\ sync' = [sync EXCEPT ![s] = [@ EXCEPT !.pc = "loop",
       !.known = [r \in Rules |-> IF rules[r].life = "live" THEN rules[r].answers ELSE {}]]]
  /\ UNCHANGED <<owner, ingestion, events, posted, crashes>>

\* Mutant: the rule of the last comment is carried over to the next.
NextCommentMutant(s) == [sync[s] EXCEPT !.pc = "loop", !.cur = None]

NextComment(s) == [sync[s] EXCEPT !.pc = "loop", !.cur = None, !.rule = None]

\* Mutant: the risk gate looks at nothing.
MatchingRulesMutant(s, c) == {r \in Rules : c \in sync[s].known[r]}

\* decide_reply: a comment the risk gate has not cleared matches nothing; of the
\* rules that answer it the first by position is taken, positions being arbitrary.
MatchingRules(s, c) == {r \in Rules : c \in sync[s].safe /\ c \in sync[s].known[r]}

\* event_exists, then the decision.
Decide(s) ==
  /\ sync[s].pc = "loop"
  /\ \E c \in sync[s].batch :
       LET rest == [sync[s] EXCEPT !.batch = @ \ {c}] IN
       IF events[c] # "none" THEN sync' = [sync EXCEPT ![s] = rest]
       ELSE IF MatchingRules(s, c) = {}
       THEN sync' = [sync EXCEPT ![s] = [rest EXCEPT !.pc = "skip", !.cur = c]]
       ELSE \E r \in MatchingRules(s, c) :
              sync' = [sync EXCEPT ![s] = [rest EXCEPT !.pc = "record", !.cur = c, !.rule = r]]
  /\ UNCHANGED <<owner, ingestion, events, posted, crashes>>

\* ON CONFLICT DO NOTHING.
RecordSkipped(s) ==
  /\ sync[s].pc = "skip"
  /\ events' = [events EXCEPT ![sync[s].cur] = IF @ = "none" THEN "skipped" ELSE @]
  /\ sync' = [sync EXCEPT ![s] = NextComment(s)]
  /\ UNCHANGED <<owner, ingestion, posted, crashes>>

\* Mutant: a comment that is already recorded ends the whole batch.
AlreadyRecordedMutant(s) ==
  /\ sync[s].pc = "record"
  /\ events[sync[s].cur] # "none"
  /\ sync' = [sync EXCEPT ![s] = IdleSync]
  /\ UNCHANGED <<owner, ingestion, events, posted, crashes>>

\* Another sync has the event: not inserted, next comment.
AlreadyRecorded(s) ==
  /\ sync[s].pc = "record"
  /\ events[sync[s].cur] # "none"
  /\ sync' = [sync EXCEPT ![s] = NextComment(s)]
  /\ UNCHANGED <<owner, ingestion, events, posted, crashes>>

\* The rule was deleted since list_rules: its foreign key is violated, nothing
\* catches that, and the request ends there (500).
RecordAborts(s) ==
  /\ sync[s].pc = "record"
  /\ events[sync[s].cur] = "none"
  /\ rules[sync[s].rule].life = "deleted"
  /\ sync' = [sync EXCEPT ![s] = IdleSync]
  /\ UNCHANGED <<owner, ingestion, events, posted, crashes>>

\* Mutant: an upsert, which always "inserts".
RecordWouldReplyMutant(s) ==
  /\ sync[s].pc = "record"
  /\ rules[sync[s].rule].life = "live"
  /\ events' = [events EXCEPT ![sync[s].cur] = "would_reply"]
  /\ sync' = [sync EXCEPT ![s].pc = "call"]
  /\ UNCHANGED <<owner, ingestion, posted, crashes>>

RecordWouldReply(s) ==
  /\ sync[s].pc = "record"
  /\ events[sync[s].cur] = "none"
  /\ rules[sync[s].rule].life = "live"
  /\ events' = [events EXCEPT ![sync[s].cur] = "would_reply"]
  /\ sync' = [sync EXCEPT ![s].pc = "call"]
  /\ UNCHANGED <<owner, ingestion, posted, crashes>>

GraphPosts(c) == posted' = [posted EXCEPT ![c] = @ + 1]

ReplyOk(s) ==
  /\ sync[s].pc = "call"
  /\ GraphPosts(sync[s].cur)
  /\ sync' = [sync EXCEPT ![s].pc = "posted"]
  /\ UNCHANGED <<owner, ingestion, events, crashes>>

\* Mutant: a failure is taken for a success.
ReplyFailsMutant(s) ==
  /\ sync[s].pc = "call"
  /\ GraphPosts(sync[s].cur) \/ UNCHANGED posted
  /\ sync' = [sync EXCEPT ![s].pc = "posted"]
  /\ UNCHANGED <<owner, ingestion, events, crashes>>

\* Refused, not arrived, or posted with the answer lost.
ReplyFails(s) ==
  /\ sync[s].pc = "call"
  /\ GraphPosts(sync[s].cur) \/ UNCHANGED posted
  /\ sync' = [sync EXCEPT ![s].pc = "failed"]
  /\ UNCHANGED <<owner, ingestion, events, crashes>>

\* mark_event_replied and mark_event_failed update whatever row the comment has.
MarkReplied(s) ==
  /\ sync[s].pc = "posted"
  /\ events' = [events EXCEPT ![sync[s].cur] = IF @ = "none" THEN @ ELSE "replied"]
  /\ sync' = [sync EXCEPT ![s] = NextComment(s)]
  /\ UNCHANGED <<owner, ingestion, posted, crashes>>

\* Mutant: a failure is only logged.
MarkFailedMutant(s) ==
  /\ sync[s].pc = "failed"
  /\ sync' = [sync EXCEPT ![s] = NextComment(s)]
  /\ UNCHANGED <<owner, ingestion, events, posted, crashes>>

MarkFailed(s) ==
  /\ sync[s].pc = "failed"
  /\ events' = [events EXCEPT ![sync[s].cur] = IF @ = "none" THEN @ ELSE "skipped"]
  /\ sync' = [sync EXCEPT ![s] = NextComment(s)]
  /\ UNCHANGED <<owner, ingestion, posted, crashes>>

\* process_new_comments returns, the sync goes on to its mirroring loops.
Return(s) ==
  /\ sync[s].pc = "loop" /\ sync[s].batch = {}
  /\ sync' = [sync EXCEPT ![s] = IdleSync]
  /\ UNCHANGED <<owner, ingestion, events, posted, crashes>>

\* A cancelled request, a stopped process, a statement that fails.
SyncCrash(s) ==
  /\ crashes < MaxCrashes
  /\ crashes' = crashes + 1
  /\ sync[s].pc # "idle"
  /\ sync' = [sync EXCEPT ![s] = IdleSync]
  /\ UNCHANGED <<owner, ingestion, events, posted>>

----------------------------------------------------------------------------
(* Owners.                                                                 *)

Edit == edits < MaxEdits /\ edits' = edits + 1

SetEnabled(on) ==
  /\ Edit
  /\ enabled' = on
  /\ opened' = (opened \/ on)
  /\ UNCHANGED <<rules, ingestion, events, posted, sync, crashes>>

\* Created, edited, disabled or enabled.
RuleSaved(r, answers) ==
  /\ Edit
  /\ rules[r].life # "deleted"
  /\ rules' = [rules EXCEPT ![r] = [life |-> "live", answers |-> answers]]
  /\ UNCHANGED <<enabled, opened, ingestion, events, posted, sync, crashes>>

\* Events keep their decision, only their rule_id becomes NULL.
RuleDeleted(r) ==
  /\ Edit
  /\ rules[r].life = "live"
  /\ rules' = [rules EXCEPT ![r] = [life |-> "deleted", answers |-> {}]]
  /\ UNCHANGED <<enabled, opened, ingestion, events, posted, sync, crashes>>

----------------------------------------------------------------------------

Record(s) == AlreadyRecorded(s) \/ RecordAborts(s) \/ RecordWouldReply(s)

SyncStep(s) ==
  \/ SyncStart(s) \/ SyncReadExisting(s) \/ SyncIngest(s)
  \/ ListRules(s) \/ Decide(s) \/ RecordSkipped(s) \/ Record(s)
  \/ ReplyOk(s) \/ ReplyFails(s) \/ MarkReplied(s) \/ MarkFailed(s)
  \/ Return(s) \/ SyncCrash(s)

OwnerStep ==
  \/ \E on \in BOOLEAN : SetEnabled(on)
  \/ \E r \in Rules : RuleDeleted(r) \/ \E answers \in SUBSET Comments : RuleSaved(r, answers)

Next == (\E s \in Syncs : SyncStep(s)) \/ OwnerStep

Spec == Init /\ [][Next]_vars

----------------------------------------------------------------------------
(* Properties.                                                             *)

Working == {"skip", "record", "call", "posted", "failed"}

\* A request knows its comment, and its rule, exactly while it works on one.
CursorsSet ==
  \A s \in Syncs :
    /\ sync[s].cur # None <=> sync[s].pc \in Working
    /\ sync[s].rule # None <=> sync[s].pc \in Working \ {"skip"}

TypeOK ==
  /\ enabled \in BOOLEAN /\ opened \in BOOLEAN
  /\ rules \in [Rules -> Rule]
  /\ stored \subseteq Comments /\ cleared \subseteq stored /\ oldQueue \subseteq stored
  /\ events \in [Comments -> Decision]
  /\ posted \in [Comments -> Nat]
  /\ sync \in [Syncs -> SyncState]
  /\ CursorsSet
  /\ crashes \in Nat /\ edits \in Nat

\* "The event uniqueness constraint remains the final duplicate-send guard"
\* (service.py): no comment is ever answered twice, however many syncs have it in
\* their batch, also when one of them dies or loses Facebook's answer.
AtMostOneReply == \A c \in Comments : posted[c] <= 1

\* An event says "replied" only of a comment that has our reply on Facebook, although
\* the row is updated by its key and not by the request that inserted it.
RepliedMeansPosted == \A c \in Comments : events[c] = "replied" => posted[c] > 0

\* Syncs that overlap, die and lose answers still add up to one decision, one reply and
\* one outcome per comment (the unique event of 021_automated_replies.sql is all that
\* holds them together): every step is one of ReplyOnce or none.
Promised == INSTANCE ReplyOnce WITH decision <- events, replies <- posted
RepliesOnce == Promised!Spec

\* Nothing is posted under a comment that no verdict cleared ("unsafe message never
\* reaches reply matching", test_autoreply_core.py), nor before its event exists.
OnlyClearedAnswered ==
  \A c \in Comments : posted[c] > 0 => c \in cleared /\ events[c] # "none"

\* "This prevents enabling the feature from replying to an old queue" (service.py):
\* what was ingested before the feature was ever on is never answered, also by
\* requests that were running when it was switched on.
OldQueueSilent == \A c \in oldQueue : posted[c] = 0

\* A decision to reply is pending only while a request is carrying it out; only a
\* request that died leaves one behind for good.
NoReplyAbandoned ==
  crashes = 0 => \A c \in Comments : events[c] = "would_reply" =>
    \E s \in Syncs : sync[s].cur = c /\ sync[s].pc \in {"call", "posted", "failed"}

\* No comment is passed over: it leaves a batch with its event recorded or as the one
\* being worked on, whatever the other syncs do, unless the request dies (of a crash,
\* or of a rule deleted under it).
NonePassedOver ==
  [][\A s \in Syncs : \A c \in sync[s].batch :
       sync[s].pc \notin {"read", "ingest"} /\ c \notin sync'[s].batch =>
         \/ events[c] # "none" \/ sync'[s].cur = c
         \/ crashes' > crashes
         \/ sync[s].rule # None /\ rules[sync[s].rule].life = "deleted"]_vars

\* test_autoreply_core.py, test_page_echo_and_already_answered_messages_are_silent:
\* the Page's own comments are never answered.
PageEchoSilent == \A c \in PageComments : posted[c] = 0
=============================================================================
