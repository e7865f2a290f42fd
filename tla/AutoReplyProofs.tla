---------------------------- MODULE AutoReplyProofs ----------------------------
(***************************************************************************)
(* Theorems about AutoReply for any sets of comments, rules and syncs.     *)
(*                                                                         *)
(* No comment is answered twice because the request that inserted its      *)
(* event is the only one that can post: Ownership says so.  Answers and    *)
(* Queue say what a request still carries of the verdicts and of the       *)
(* moment it started, which the rest of the properties lean on.            *)
(***************************************************************************)
EXTENDS AutoReply, RuleOrder, FiniteSetTheorems, WellFoundedInduction, TLAPS

\* The request that has recorded the event of c and not its outcome.
Owns(s, c) == sync[s].cur = c /\ sync[s].pc \in {"call", "posted", "failed"}

\* One request at most is between a comment's event and its outcome.
OneOwner ==
  \A s, t \in Syncs : \A c \in Comments : Owns(s, c) /\ Owns(t, c) => s = t

\* A comment with an owner has an event, and no reply yet if the call is to come.
OwnerFirst ==
  \A s \in Syncs : \A c \in Comments : Owns(s, c) =>
    /\ events[c] # "none"
    /\ sync[s].pc = "call" => posted[c] = 0
    /\ sync[s].pc = "posted" => posted[c] > 0

\* What a request may still answer was cleared by a verdict that is stored.
SafeIsCleared ==
  \A s \in Syncs :
    /\ sync[s].safe \subseteq cleared
    /\ sync[s].rule # None => sync[s].cur \in cleared

\* A request that may answer started when the feature was on, and what it found
\* new was not in the old queue.
NewOnly ==
  \A s \in Syncs :
    /\ sync[s].on => opened
    /\ sync[s].pc \notin {"idle", "read", "ingest"} => sync[s].on
    /\ sync[s].pc \notin {"idle", "read"} /\ sync[s].on =>
         sync[s].batch \cap oldQueue = {} /\ sync[s].cur \notin oldQueue

EnabledOnlyOpened == enabled => opened

RepliesOpened == \A c \in Comments : posted[c] > 0 => opened

Ownership == OneOwner /\ OwnerFirst /\ NoReplyAbandoned

Answers == SafeIsCleared /\ AtMostOneReply /\ RepliedMeansPosted /\ OnlyClearedAnswered

Queue == NewOnly /\ EnabledOnlyOpened /\ RepliesOpened /\ OldQueueSilent

IInv == TypeOK /\ Ownership /\ Answers /\ Queue

\* The idle local state.
LEMMA IdleType ==
  /\ IdleSync \in SyncState
  /\ IdleSync.pc = "idle" /\ ~IdleSync.on /\ IdleSync.batch = {} /\ IdleSync.safe = {}
  /\ IdleSync.cur = None /\ IdleSync.rule = None
BY DEF IdleSync, SyncState

\* A step of one request changes that request's local state only.
LEMMA Put ==
  ASSUME TypeOK, NEW s \in Syncs, NEW x \in SyncState, sync' = [sync EXCEPT ![s] = x]
  PROVE  /\ sync' \in [Syncs -> SyncState] /\ sync'[s] = x
         /\ \A t \in Syncs \ {s} : sync'[t] = sync[t]
BY DEF TypeOK

\* A step of the reply loop leaves what the request carries for later alone.
Carries(x, y) == x.batch = y.batch /\ x.safe = y.safe /\ x.on = y.on

\* Going on to the next comment.
LEMMA NextCommentType ==
  ASSUME TypeOK, NEW s \in Syncs
  PROVE  LET x == NextComment(s) IN
         /\ x \in SyncState /\ Carries(x, sync[s])
         /\ x.pc = "loop" /\ x.cur = None /\ x.rule = None
<1>1. sync[s] \in SyncState
  BY DEF TypeOK
<1> QED
  BY <1>1 DEF NextComment, SyncState, Carries

\* Going on with the same comment.
LEMMA PcType ==
  ASSUME TypeOK, NEW s \in Syncs, NEW p \in {"call", "posted", "failed"}
  PROVE  LET x == [sync[s] EXCEPT !.pc = p] IN
         /\ x \in SyncState /\ Carries(x, sync[s])
         /\ x.pc = p /\ x.cur = sync[s].cur /\ x.rule = sync[s].rule
<1>1. sync[s] \in SyncState
  BY DEF TypeOK
<1> QED
  BY <1>1 DEF SyncState, Carries

\* The loop is over.
LEMMA ReturnKeeps ==
  ASSUME IInv, NEW s \in Syncs, Return(s) PROVE IInv'
<1>1. TypeOK /\ sync' = [sync EXCEPT ![s] = IdleSync]
  BY DEF Return, IInv
<1>2. /\ sync' \in [Syncs -> SyncState] /\ sync'[s] = IdleSync
      /\ \A t \in Syncs \ {s} : sync'[t] = sync[t]
  BY <1>1, Put, IdleType
<1>3. TypeOK'
  BY <1>2, IdleType, NoneIsNothing DEF IInv, TypeOK, CursorsSet, Working, Return, owner,
      ingestion
<1>4. Ownership'
  BY <1>2, IdleType, NoneIsNothing DEF IInv, Ownership, OneOwner, OwnerFirst,
      NoReplyAbandoned, Owns, TypeOK, CursorsSet, Working, Return, owner, ingestion
<1>5. Answers'
  BY <1>2, IdleType, NoneIsNothing DEF IInv, Ownership, OwnerFirst, Owns, Answers,
      SafeIsCleared, AtMostOneReply, RepliedMeansPosted, OnlyClearedAnswered, TypeOK,
      CursorsSet, Working, Return, owner, ingestion
<1>6. Queue'
  BY <1>2, IdleType, NoneIsNothing DEF IInv, Queue, NewOnly, EnabledOnlyOpened,
      RepliesOpened, OldQueueSilent, TypeOK, CursorsSet, Working, Return, owner, ingestion
<1> QED
  BY <1>3, <1>4, <1>5, <1>6 DEF IInv

\* The rule of the event is gone.
LEMMA RecordAbortsKeeps ==
  ASSUME IInv, NEW s \in Syncs, RecordAborts(s) PROVE IInv'
<1>1. TypeOK /\ sync' = [sync EXCEPT ![s] = IdleSync]
  BY DEF RecordAborts, IInv
<1>2. /\ sync' \in [Syncs -> SyncState] /\ sync'[s] = IdleSync
      /\ \A t \in Syncs \ {s} : sync'[t] = sync[t]
  BY <1>1, Put, IdleType
<1>3. TypeOK'
  BY <1>2, IdleType, NoneIsNothing DEF IInv, TypeOK, CursorsSet, Working, RecordAborts,
      owner, ingestion
<1>4. Ownership'
  BY <1>2, IdleType, NoneIsNothing DEF IInv, Ownership, OneOwner, OwnerFirst,
      NoReplyAbandoned, Owns, TypeOK, CursorsSet, Working, RecordAborts, owner, ingestion
<1>5. Answers'
  BY <1>2, IdleType, NoneIsNothing DEF IInv, Ownership, OwnerFirst, Owns, Answers,
      SafeIsCleared, AtMostOneReply, RepliedMeansPosted, OnlyClearedAnswered, TypeOK,
      CursorsSet, Working, RecordAborts, owner, ingestion
<1>6. Queue'
  BY <1>2, IdleType, NoneIsNothing DEF IInv, Queue, NewOnly, EnabledOnlyOpened,
      RepliesOpened, OldQueueSilent, TypeOK, CursorsSet, Working, RecordAborts, owner,
      ingestion
<1> QED
  BY <1>3, <1>4, <1>5, <1>6 DEF IInv

\* The request dies.
LEMMA SyncCrashKeeps ==
  ASSUME IInv, NEW s \in Syncs, SyncCrash(s) PROVE IInv'
<1>1. TypeOK /\ sync' = [sync EXCEPT ![s] = IdleSync]
  BY DEF SyncCrash, IInv
<1>2. /\ sync' \in [Syncs -> SyncState] /\ sync'[s] = IdleSync
      /\ \A t \in Syncs \ {s} : sync'[t] = sync[t]
  BY <1>1, Put, IdleType
<1>3. TypeOK'
  BY <1>2, IdleType, NoneIsNothing DEF IInv, TypeOK, CursorsSet, Working, SyncCrash, owner,
      ingestion
<1>4. Ownership'
  BY <1>2, IdleType, NoneIsNothing DEF IInv, Ownership, OneOwner, OwnerFirst,
      NoReplyAbandoned, Owns, TypeOK, CursorsSet, Working, SyncCrash, owner, ingestion
<1>5. Answers'
  BY <1>2, IdleType, NoneIsNothing DEF IInv, Ownership, OwnerFirst, Owns, Answers,
      SafeIsCleared, AtMostOneReply, RepliedMeansPosted, OnlyClearedAnswered, TypeOK,
      CursorsSet, Working, SyncCrash, owner, ingestion
<1>6. Queue'
  BY <1>2, IdleType, NoneIsNothing DEF IInv, Queue, NewOnly, EnabledOnlyOpened,
      RepliesOpened, OldQueueSilent, TypeOK, CursorsSet, Working, SyncCrash, owner,
      ingestion
<1> QED
  BY <1>3, <1>4, <1>5, <1>6 DEF IInv

\* Another request has the event.
LEMMA AlreadyRecordedKeeps ==
  ASSUME IInv, NEW s \in Syncs, AlreadyRecorded(s) PROVE IInv'
<1> DEFINE x == NextComment(s)
<1>1. TypeOK /\ sync' = [sync EXCEPT ![s] = x]
  BY DEF AlreadyRecorded, IInv
<1>2. /\ x \in SyncState /\ Carries(x, sync[s])
      /\ x.pc = "loop" /\ x.cur = None /\ x.rule = None
  BY <1>1, NextCommentType
<1> HIDE DEF x
<1>3. /\ sync' \in [Syncs -> SyncState] /\ sync'[s] = x
      /\ \A t \in Syncs \ {s} : sync'[t] = sync[t]
  BY <1>1, <1>2, Put
<1>4. TypeOK'
  BY <1>1, <1>2, <1>3, NoneIsNothing DEF IInv, TypeOK, CursorsSet, Working, AlreadyRecorded,
      Carries, owner, ingestion
<1>5. Ownership'
  BY <1>1, <1>2, <1>3, NoneIsNothing DEF IInv, Ownership, OneOwner, OwnerFirst,
      NoReplyAbandoned, Owns, TypeOK, CursorsSet, Working, AlreadyRecorded, Carries, owner,
      ingestion
<1>6. Answers'
  BY <1>1, <1>2, <1>3, NoneIsNothing DEF IInv, Ownership, OwnerFirst, Owns, Answers,
      SafeIsCleared, AtMostOneReply, RepliedMeansPosted, OnlyClearedAnswered, TypeOK,
      CursorsSet, Working, AlreadyRecorded, Carries, owner, ingestion
<1>7. Queue'
  BY <1>1, <1>2, <1>3, NoneIsNothing DEF IInv, Queue, NewOnly, EnabledOnlyOpened,
      RepliesOpened, OldQueueSilent, TypeOK, CursorsSet, Working, AlreadyRecorded, Carries,
      owner, ingestion
<1> QED
  BY <1>4, <1>5, <1>6, <1>7 DEF IInv

\* Not a reply.
LEMMA RecordSkippedKeeps ==
  ASSUME IInv, NEW s \in Syncs, RecordSkipped(s) PROVE IInv'
<1> DEFINE x == NextComment(s)
<1>1. TypeOK /\ sync' = [sync EXCEPT ![s] = x]
  BY DEF RecordSkipped, IInv
<1>2. /\ x \in SyncState /\ Carries(x, sync[s])
      /\ x.pc = "loop" /\ x.cur = None /\ x.rule = None
  BY <1>1, NextCommentType
<1> HIDE DEF x
<1>3. /\ sync' \in [Syncs -> SyncState] /\ sync'[s] = x
      /\ \A t \in Syncs \ {s} : sync'[t] = sync[t]
  BY <1>1, <1>2, Put
<1>4. TypeOK'
  <2>1. events' \in [Comments -> Decision]
    BY <1>1 DEF RecordSkipped, TypeOK, Decision
  <2> QED
    BY <1>1, <1>2, <1>3, <2>1, NoneIsNothing DEF TypeOK, CursorsSet, Working, RecordSkipped,
        owner, ingestion
<1>5. Ownership'
  BY <1>1, <1>2, <1>3, NoneIsNothing DEF IInv, Ownership, OneOwner, OwnerFirst,
      NoReplyAbandoned, Owns, TypeOK, CursorsSet, Working, RecordSkipped, Carries, owner,
      ingestion
<1>6. Answers'
  BY <1>1, <1>2, <1>3, NoneIsNothing DEF IInv, Ownership, OwnerFirst, Owns, Answers,
      SafeIsCleared, AtMostOneReply, RepliedMeansPosted, OnlyClearedAnswered, TypeOK,
      CursorsSet, Working, RecordSkipped, Carries, owner, ingestion
<1>7. Queue'
  BY <1>1, <1>2, <1>3, NoneIsNothing DEF IInv, Queue, NewOnly, EnabledOnlyOpened,
      RepliesOpened, OldQueueSilent, TypeOK, CursorsSet, Working, RecordSkipped, Carries,
      owner, ingestion
<1> QED
  BY <1>4, <1>5, <1>6, <1>7 DEF IInv

\* The reply is on Facebook: by ownership nobody else will post one.
LEMMA MarkRepliedKeeps ==
  ASSUME IInv, NEW s \in Syncs, MarkReplied(s) PROVE IInv'
<1> DEFINE x == NextComment(s)
<1>1. TypeOK /\ sync' = [sync EXCEPT ![s] = x]
  BY DEF MarkReplied, IInv
<1>2. /\ x \in SyncState /\ Carries(x, sync[s])
      /\ x.pc = "loop" /\ x.cur = None /\ x.rule = None
  BY <1>1, NextCommentType
<1> HIDE DEF x
<1>3. /\ sync' \in [Syncs -> SyncState] /\ sync'[s] = x
      /\ \A t \in Syncs \ {s} : sync'[t] = sync[t]
  BY <1>1, <1>2, Put
<1>4. TypeOK'
  <2>1. events' \in [Comments -> Decision]
    BY <1>1 DEF MarkReplied, TypeOK, Decision
  <2> QED
    BY <1>1, <1>2, <1>3, <2>1, NoneIsNothing DEF TypeOK, CursorsSet, Working, MarkReplied,
        owner, ingestion
<1>5. Ownership'
  BY <1>1, <1>2, <1>3, NoneIsNothing DEF IInv, Ownership, OneOwner, OwnerFirst,
      NoReplyAbandoned, Owns, TypeOK, CursorsSet, Working, MarkReplied, Carries, owner,
      ingestion
<1>6. Answers'
  BY <1>1, <1>2, <1>3, NoneIsNothing DEF IInv, Ownership, OwnerFirst, Owns, Answers,
      SafeIsCleared, AtMostOneReply, RepliedMeansPosted, OnlyClearedAnswered, TypeOK,
      CursorsSet, Working, MarkReplied, Carries, owner, ingestion
<1>7. Queue'
  BY <1>1, <1>2, <1>3, NoneIsNothing DEF IInv, Queue, NewOnly, EnabledOnlyOpened,
      RepliesOpened, OldQueueSilent, TypeOK, CursorsSet, Working, MarkReplied, Carries,
      owner, ingestion
<1> QED
  BY <1>4, <1>5, <1>6, <1>7 DEF IInv

\* The reply failed, or seems to have.
LEMMA MarkFailedKeeps ==
  ASSUME IInv, NEW s \in Syncs, MarkFailed(s) PROVE IInv'
<1> DEFINE x == NextComment(s)
<1>1. TypeOK /\ sync' = [sync EXCEPT ![s] = x]
  BY DEF MarkFailed, IInv
<1>2. /\ x \in SyncState /\ Carries(x, sync[s])
      /\ x.pc = "loop" /\ x.cur = None /\ x.rule = None
  BY <1>1, NextCommentType
<1> HIDE DEF x
<1>3. /\ sync' \in [Syncs -> SyncState] /\ sync'[s] = x
      /\ \A t \in Syncs \ {s} : sync'[t] = sync[t]
  BY <1>1, <1>2, Put
<1>4. TypeOK'
  <2>1. events' \in [Comments -> Decision]
    BY <1>1 DEF MarkFailed, TypeOK, Decision
  <2> QED
    BY <1>1, <1>2, <1>3, <2>1, NoneIsNothing DEF TypeOK, CursorsSet, Working, MarkFailed,
        owner, ingestion
<1>5. Ownership'
  BY <1>1, <1>2, <1>3, NoneIsNothing DEF IInv, Ownership, OneOwner, OwnerFirst,
      NoReplyAbandoned, Owns, TypeOK, CursorsSet, Working, MarkFailed, Carries, owner,
      ingestion
<1>6. Answers'
  BY <1>1, <1>2, <1>3, NoneIsNothing DEF IInv, Ownership, OwnerFirst, Owns, Answers,
      SafeIsCleared, AtMostOneReply, RepliedMeansPosted, OnlyClearedAnswered, TypeOK,
      CursorsSet, Working, MarkFailed, Carries, owner, ingestion
<1>7. Queue'
  BY <1>1, <1>2, <1>3, NoneIsNothing DEF IInv, Queue, NewOnly, EnabledOnlyOpened,
      RepliesOpened, OldQueueSilent, TypeOK, CursorsSet, Working, MarkFailed, Carries,
      owner, ingestion
<1> QED
  BY <1>4, <1>5, <1>6, <1>7 DEF IInv

\* The request becomes the owner of its comment.
LEMMA RecordWouldReplyKeeps ==
  ASSUME IInv, NEW s \in Syncs, RecordWouldReply(s) PROVE IInv'
<1> DEFINE x == [sync[s] EXCEPT !.pc = "call"]
<1>1. TypeOK /\ sync' = [sync EXCEPT ![s] = x]
  BY DEF RecordWouldReply, IInv
<1>2. /\ x \in SyncState /\ Carries(x, sync[s])
      /\ x.pc = "call" /\ x.cur = sync[s].cur /\ x.rule = sync[s].rule
  BY <1>1, PcType
<1> HIDE DEF x
<1>3. /\ sync' \in [Syncs -> SyncState] /\ sync'[s] = x
      /\ \A t \in Syncs \ {s} : sync'[t] = sync[t]
  BY <1>1, <1>2, Put
<1>4. TypeOK'
  <2>1. events' \in [Comments -> Decision]
    BY <1>1 DEF RecordWouldReply, TypeOK, Decision
  <2> QED
    BY <1>1, <1>2, <1>3, <2>1, NoneIsNothing DEF TypeOK, CursorsSet, Working, RecordWouldReply,
        owner, ingestion
<1>5. Ownership'
  BY <1>1, <1>2, <1>3, NoneIsNothing DEF IInv, Answers, OnlyClearedAnswered, Ownership, OneOwner, OwnerFirst,
      NoReplyAbandoned, Owns, TypeOK, CursorsSet, Working, RecordWouldReply, Carries,
      Decision, owner, ingestion
<1>6. Answers'
  BY <1>1, <1>2, <1>3, NoneIsNothing DEF IInv, Ownership, OwnerFirst, Owns, Answers,
      SafeIsCleared, AtMostOneReply, RepliedMeansPosted, OnlyClearedAnswered, TypeOK,
      CursorsSet, Working, RecordWouldReply, Carries, Decision, owner, ingestion
<1>7. Queue'
  BY <1>1, <1>2, <1>3, NoneIsNothing DEF IInv, Queue, NewOnly, EnabledOnlyOpened,
      RepliesOpened, OldQueueSilent, TypeOK, CursorsSet, Working, RecordWouldReply, Carries,
      Decision, owner, ingestion
<1> QED
  BY <1>4, <1>5, <1>6, <1>7 DEF IInv

\* Facebook posts: by ownership there is no reply yet.
LEMMA ReplyOkKeeps ==
  ASSUME IInv, NEW s \in Syncs, ReplyOk(s) PROVE IInv'
<1> DEFINE x == [sync[s] EXCEPT !.pc = "posted"]
<1>1. TypeOK /\ sync' = [sync EXCEPT ![s] = x]
  BY DEF ReplyOk, IInv
<1>2. /\ x \in SyncState /\ Carries(x, sync[s])
      /\ x.pc = "posted" /\ x.cur = sync[s].cur /\ x.rule = sync[s].rule
  BY <1>1, PcType
<1> HIDE DEF x
<1>3. /\ sync' \in [Syncs -> SyncState] /\ sync'[s] = x
      /\ \A t \in Syncs \ {s} : sync'[t] = sync[t]
  BY <1>1, <1>2, Put
<1>4. TypeOK'
  <2>1. posted' \in [Comments -> Nat]
    BY <1>1 DEF ReplyOk, GraphPosts, TypeOK, CursorsSet, Working, SyncState
  <2> QED
    BY <1>1, <1>2, <1>3, <2>1, NoneIsNothing DEF TypeOK, CursorsSet, Working, ReplyOk,
        owner, ingestion
<1>5. Ownership'
  BY <1>1, <1>2, <1>3, NoneIsNothing DEF IInv, Answers, OnlyClearedAnswered, Ownership, OneOwner, OwnerFirst,
      NoReplyAbandoned, Owns, TypeOK, CursorsSet, Working, ReplyOk, Carries, GraphPosts,
      owner, ingestion
<1>6. Answers'
  BY <1>1, <1>2, <1>3, NoneIsNothing DEF IInv, Ownership, OwnerFirst, Owns, Answers,
      SafeIsCleared, AtMostOneReply, RepliedMeansPosted, OnlyClearedAnswered, TypeOK,
      CursorsSet, Working, ReplyOk, Carries, GraphPosts, owner, ingestion
<1>7. Queue'
  BY <1>1, <1>2, <1>3, NoneIsNothing DEF IInv, Queue, NewOnly, EnabledOnlyOpened,
      RepliesOpened, OldQueueSilent, TypeOK, CursorsSet, Working, ReplyOk, Carries,
      GraphPosts, owner, ingestion
<1> QED
  BY <1>4, <1>5, <1>6, <1>7 DEF IInv

\* Facebook may have posted.
LEMMA ReplyFailsKeeps ==
  ASSUME IInv, NEW s \in Syncs, ReplyFails(s) PROVE IInv'
<1> DEFINE x == [sync[s] EXCEPT !.pc = "failed"]
<1>1. TypeOK /\ sync' = [sync EXCEPT ![s] = x]
  BY DEF ReplyFails, IInv
<1>2. /\ x \in SyncState /\ Carries(x, sync[s])
      /\ x.pc = "failed" /\ x.cur = sync[s].cur /\ x.rule = sync[s].rule
  BY <1>1, PcType
<1> HIDE DEF x
<1>3. /\ sync' \in [Syncs -> SyncState] /\ sync'[s] = x
      /\ \A t \in Syncs \ {s} : sync'[t] = sync[t]
  BY <1>1, <1>2, Put
<1>4. TypeOK'
  <2>1. posted' \in [Comments -> Nat]
    BY <1>1 DEF ReplyFails, GraphPosts, TypeOK, CursorsSet, Working, SyncState
  <2> QED
    BY <1>1, <1>2, <1>3, <2>1, NoneIsNothing DEF TypeOK, CursorsSet, Working, ReplyFails,
        owner, ingestion
<1>5. Ownership'
  BY <1>1, <1>2, <1>3, NoneIsNothing DEF IInv, Answers, OnlyClearedAnswered, Ownership, OneOwner, OwnerFirst,
      NoReplyAbandoned, Owns, TypeOK, CursorsSet, Working, ReplyFails, Carries, GraphPosts,
      owner, ingestion
<1>6. Answers'
  BY <1>1, <1>2, <1>3, NoneIsNothing DEF IInv, Ownership, OwnerFirst, Owns, Answers,
      SafeIsCleared, AtMostOneReply, RepliedMeansPosted, OnlyClearedAnswered, TypeOK,
      CursorsSet, Working, ReplyFails, Carries, GraphPosts, owner, ingestion
<1>7. Queue'
  BY <1>1, <1>2, <1>3, NoneIsNothing DEF IInv, Queue, NewOnly, EnabledOnlyOpened,
      RepliesOpened, OldQueueSilent, TypeOK, CursorsSet, Working, ReplyFails, Carries,
      GraphPosts, owner, ingestion
<1> QED
  BY <1>4, <1>5, <1>6, <1>7 DEF IInv

\* A request reads the switch.
LEMMA SyncStartKeeps ==
  ASSUME IInv, NEW s \in Syncs, SyncStart(s) PROVE IInv'
<1> DEFINE x == [IdleSync EXCEPT !.pc = "read", !.on = enabled]
<1>1. TypeOK /\ sync' = [sync EXCEPT ![s] = x]
  BY DEF SyncStart, IInv
<1>2. /\ x \in SyncState /\ x.pc = "read" /\ x.on = enabled
      /\ x.batch = {} /\ x.safe = {} /\ x.cur = None /\ x.rule = None
  BY <1>1, IdleType DEF SyncState, TypeOK
<1> HIDE DEF x
<1>3. /\ sync' \in [Syncs -> SyncState] /\ sync'[s] = x
      /\ \A t \in Syncs \ {s} : sync'[t] = sync[t]
  BY <1>1, <1>2, Put
<1>4. TypeOK'
  BY <1>1, <1>2, <1>3, NoneIsNothing DEF IInv, TypeOK, CursorsSet, Working, SyncStart,
      owner, ingestion
<1>5. Ownership'
  BY <1>1, <1>2, <1>3, NoneIsNothing DEF IInv, Ownership, OneOwner, OwnerFirst,
      NoReplyAbandoned, Owns, TypeOK, CursorsSet, Working, SyncStart, owner, ingestion
<1>6. Answers'
  BY <1>1, <1>2, <1>3, NoneIsNothing DEF IInv, Ownership, OwnerFirst, Owns, Answers,
      SafeIsCleared, AtMostOneReply, RepliedMeansPosted, OnlyClearedAnswered, TypeOK,
      CursorsSet, Working, SyncStart, owner, ingestion
<1>7. Queue'
  BY <1>1, <1>2, <1>3, NoneIsNothing DEF IInv, Queue, NewOnly, EnabledOnlyOpened,
      RepliesOpened, OldQueueSilent, TypeOK, CursorsSet, Working, SyncStart, owner,
      ingestion
<1> QED
  BY <1>4, <1>5, <1>6, <1>7 DEF IInv

\* The new comments are not in the old queue, which is stored.
LEMMA SyncReadExistingKeeps ==
  ASSUME IInv, NEW s \in Syncs, SyncReadExisting(s) PROVE IInv'
<1>1. PICK seen \in SUBSET Comments : sync' = [sync EXCEPT ![s] =
        IF seen \ stored = {} THEN IdleSync
        ELSE [@ EXCEPT !.pc = "ingest", !.batch = seen \ stored]]
  BY DEF SyncReadExisting
<1> DEFINE fresh == [sync[s] EXCEPT !.pc = "ingest", !.batch = seen \ stored]
           x == IF seen \ stored = {} THEN IdleSync ELSE fresh
<1>2. TypeOK /\ sync[s] \in SyncState /\ sync' = [sync EXCEPT ![s] = x]
      /\ sync[s].cur = None /\ sync[s].rule = None
  BY <1>1 DEF IInv, TypeOK, SyncReadExisting, CursorsSet, Working
<1>3. /\ fresh \in SyncState /\ fresh.pc = "ingest" /\ fresh.batch = seen \ stored
      /\ fresh.safe = sync[s].safe /\ fresh.on = sync[s].on
      /\ fresh.cur = None /\ fresh.rule = None
  BY <1>2 DEF SyncState
<1> HIDE DEF fresh
<1>4. /\ x \in SyncState /\ x.pc \in {"idle", "ingest"}
      /\ x.pc = "ingest" => x.batch = seen \ stored
      /\ x.safe \subseteq sync[s].safe
      /\ x.on => sync[s].on
      /\ x.cur = None /\ x.rule = None
  BY <1>3, IdleType
<1> HIDE DEF x
<1>5. /\ sync' \in [Syncs -> SyncState] /\ sync'[s] = x
      /\ \A t \in Syncs \ {s} : sync'[t] = sync[t]
  BY <1>2, <1>4, Put
<1>6. TypeOK'
  BY <1>2, <1>4, <1>5, NoneIsNothing DEF IInv, TypeOK, CursorsSet, Working,
      SyncReadExisting, owner, ingestion
<1>7. Ownership'
  BY <1>2, <1>4, <1>5, NoneIsNothing DEF IInv, Ownership, OneOwner, OwnerFirst,
      NoReplyAbandoned, Owns, TypeOK, CursorsSet, Working, SyncReadExisting, owner,
      ingestion
<1>8. Answers'
  BY <1>2, <1>4, <1>5, NoneIsNothing DEF IInv, Ownership, OwnerFirst, Owns, Answers,
      SafeIsCleared, AtMostOneReply, RepliedMeansPosted, OnlyClearedAnswered, TypeOK,
      CursorsSet, Working, SyncReadExisting, owner, ingestion
<1>9. Queue'
  BY <1>2, <1>4, <1>5, NoneIsNothing DEF IInv, Queue, NewOnly, EnabledOnlyOpened,
      RepliesOpened, OldQueueSilent, TypeOK, CursorsSet, Working, SyncReadExisting, owner,
      ingestion
<1> QED
  BY <1>6, <1>7, <1>8, <1>9 DEF IInv

\* The batch is ingested; the old queue grows only while no request may answer.
LEMMA SyncIngestKeeps ==
  ASSUME IInv, NEW s \in Syncs, SyncIngest(s) PROVE IInv'
<1>1. PICK safe \in SUBSET sync[s].batch :
        /\ stored' = stored \cup sync[s].batch
        /\ cleared' = cleared \cup safe
        /\ oldQueue' = IF opened THEN oldQueue ELSE oldQueue \cup sync[s].batch
        /\ sync' = [sync EXCEPT ![s] =
             IF sync[s].on THEN [@ EXCEPT !.pc = "rules", !.safe = safe] ELSE IdleSync]
  BY DEF SyncIngest
<1> DEFINE on == [sync[s] EXCEPT !.pc = "rules", !.safe = safe]
           x == IF sync[s].on THEN on ELSE IdleSync
<1>2. TypeOK /\ sync[s] \in SyncState /\ sync' = [sync EXCEPT ![s] = x]
      /\ sync[s].cur = None /\ sync[s].rule = None /\ sync[s].batch \subseteq Comments
  BY <1>1 DEF IInv, TypeOK, SyncIngest, CursorsSet, Working, SyncState
<1>3. /\ on \in SyncState /\ on.pc = "rules" /\ on.batch = sync[s].batch /\ on.safe = safe
      /\ on.on = sync[s].on /\ on.cur = None /\ on.rule = None
  BY <1>2 DEF SyncState
<1> HIDE DEF on
<1>4. /\ x \in SyncState /\ x.pc \in {"idle", "rules"}
      /\ x.pc = "rules" => x.on /\ sync[s].on
      /\ x.on => sync[s].on
      /\ x.batch \subseteq sync[s].batch /\ x.safe \subseteq safe
      /\ x.cur = None /\ x.rule = None
  BY <1>2, <1>3, IdleType
<1> HIDE DEF x
<1>5. /\ sync' \in [Syncs -> SyncState] /\ sync'[s] = x
      /\ \A t \in Syncs \ {s} : sync'[t] = sync[t]
  BY <1>2, <1>4, Put
<1>6. TypeOK'
  BY <1>1, <1>2, <1>4, <1>5, NoneIsNothing DEF IInv, TypeOK, CursorsSet, Working,
      SyncIngest, owner, ingestion
<1>7. Ownership'
  BY <1>1, <1>2, <1>4, <1>5, NoneIsNothing DEF IInv, Ownership, OneOwner, OwnerFirst,
      NoReplyAbandoned, Owns, TypeOK, CursorsSet, Working, SyncIngest, owner, ingestion
<1>8. Answers'
  BY <1>1, <1>2, <1>4, <1>5, NoneIsNothing DEF IInv, Ownership, OwnerFirst, Owns, Answers,
      SafeIsCleared, AtMostOneReply, RepliedMeansPosted, OnlyClearedAnswered, TypeOK,
      CursorsSet, Working, SyncIngest, owner, ingestion
<1>9. Queue'
  BY <1>1, <1>2, <1>4, <1>5, NoneIsNothing DEF IInv, Queue, NewOnly, EnabledOnlyOpened,
      RepliesOpened, OldQueueSilent, TypeOK, CursorsSet, Working, SyncIngest, owner,
      ingestion
<1> QED
  BY <1>6, <1>7, <1>8, <1>9 DEF IInv

\* The rules are read.
LEMMA ListRulesKeeps ==
  ASSUME IInv, NEW s \in Syncs, ListRules(s) PROVE IInv'
<1> DEFINE k == [r \in Rules |-> IF rules[r].life = "live" THEN rules[r].answers ELSE {}]
           x == [sync[s] EXCEPT !.pc = "loop", !.known = k]
<1>1. TypeOK /\ sync[s] \in SyncState /\ sync' = [sync EXCEPT ![s] = x]
  BY DEF ListRules, IInv, TypeOK
<1>a. k \in [Rules -> SUBSET Comments]
  BY <1>1 DEF TypeOK, Rule
<1>2. /\ x \in SyncState /\ Carries(x, sync[s])
      /\ x.pc = "loop" /\ x.cur = sync[s].cur /\ x.rule = sync[s].rule
  BY <1>1, <1>a DEF SyncState, Carries
<1> HIDE DEF x
<1>3. /\ sync' \in [Syncs -> SyncState] /\ sync'[s] = x
      /\ \A t \in Syncs \ {s} : sync'[t] = sync[t]
  BY <1>1, <1>2, Put
<1>4. TypeOK'
  BY <1>1, <1>2, <1>3, NoneIsNothing DEF IInv, TypeOK, CursorsSet, Working, ListRules,
      Carries, owner, ingestion
<1>5. Ownership'
  BY <1>1, <1>2, <1>3, NoneIsNothing DEF IInv, Ownership, OneOwner, OwnerFirst,
      NoReplyAbandoned, Owns, TypeOK, CursorsSet, Working, ListRules, Carries, owner,
      ingestion
<1>6. Answers'
  BY <1>1, <1>2, <1>3, NoneIsNothing DEF IInv, Ownership, OwnerFirst, Owns, Answers,
      SafeIsCleared, AtMostOneReply, RepliedMeansPosted, OnlyClearedAnswered, TypeOK,
      CursorsSet, Working, ListRules, Carries, owner, ingestion
<1>7. Queue'
  BY <1>1, <1>2, <1>3, NoneIsNothing DEF IInv, Queue, NewOnly, EnabledOnlyOpened,
      RepliesOpened, OldQueueSilent, TypeOK, CursorsSet, Working, ListRules, Carries, owner,
      ingestion
<1> QED
  BY <1>4, <1>5, <1>6, <1>7 DEF IInv

\* One comment leaves the batch; it is answered only if its verdict cleared it.
LEMMA DecideKeeps ==
  ASSUME IInv, NEW s \in Syncs, Decide(s) PROVE IInv'
<1> DEFINE rest(c)   == [sync[s] EXCEPT !.batch = @ \ {c}]
           skip(c)   == [rest(c) EXCEPT !.pc = "skip", !.cur = c]
           rec(c, r) == [rest(c) EXCEPT !.pc = "record", !.cur = c, !.rule = r]
<1>1. PICK c \in sync[s].batch :
        \/ sync' = [sync EXCEPT ![s] = rest(c)]
        \/ sync' = [sync EXCEPT ![s] = skip(c)]
        \/ \E r \in MatchingRules(s, c) : sync' = [sync EXCEPT ![s] = rec(c, r)]
  <2>1. PICK c \in sync[s].batch :
          IF events[c] # "none" THEN sync' = [sync EXCEPT ![s] = rest(c)]
          ELSE IF MatchingRules(s, c) = {} THEN sync' = [sync EXCEPT ![s] = skip(c)]
          ELSE \E r \in MatchingRules(s, c) : sync' = [sync EXCEPT ![s] = rec(c, r)]
    BY DEF Decide
  <2> QED
    BY <2>1
<1>2. /\ TypeOK /\ sync[s] \in SyncState /\ c \in Comments /\ MatchingRules(s, c) \subseteq Rules
      /\ sync[s].pc = "loop" /\ sync[s].cur = None /\ sync[s].rule = None
  BY DEF IInv, TypeOK, SyncState, MatchingRules, Decide, CursorsSet, Working
<1> DEFINE Moved(x) ==
      /\ x \in SyncState
      /\ x.batch = sync[s].batch \ {c} /\ x.safe = sync[s].safe /\ x.on = sync[s].on
      /\ \/ x.pc = "loop" /\ x.cur = None /\ x.rule = None
         \/ x.pc = "skip" /\ x.cur = c /\ x.rule = None
         \/ x.pc = "record" /\ x.cur = c /\ x.rule \in MatchingRules(s, c)
<1>3. Moved(rest(c)) /\ Moved(skip(c)) /\ \A r \in MatchingRules(s, c) : Moved(rec(c, r))
  BY <1>2 DEF SyncState
<1>4. PICK x : Moved(x) /\ sync' = [sync EXCEPT ![s] = x]
  <2> HIDE DEF rest, skip, rec, Moved
  <2> QED
    BY <1>1, <1>3
<1>5. /\ sync' \in [Syncs -> SyncState] /\ sync'[s] = x
      /\ \A t \in Syncs \ {s} : sync'[t] = sync[t]
  BY <1>2, <1>4, Put
<1>6. x.rule # None => c \in sync[s].safe
  BY <1>4 DEF MatchingRules
<1> HIDE DEF rest, skip, rec
<1>7. TypeOK'
  BY <1>2, <1>4, <1>5, <1>6, NoneIsNothing DEF IInv, TypeOK, CursorsSet, Working, Decide,
      owner, ingestion
<1>8. Ownership'
  <2>1. \A t \in Syncs : \A d \in Comments :
          /\ Owns(t, d)' <=> Owns(t, d)
          /\ Owns(t, d) => sync'[t] = sync[t]
    BY <1>2, <1>4, <1>5 DEF Owns
  <2>2. UNCHANGED <<events, posted, crashes>>
    BY DEF Decide
  <2>3. NoReplyAbandoned'
    BY <2>1, <2>2 DEF IInv, Ownership, NoReplyAbandoned, Owns
  <2>4. OneOwner' /\ OwnerFirst'
    BY <2>1, <2>2 DEF IInv, Ownership, OneOwner, OwnerFirst
  <2> QED
    BY <2>3, <2>4 DEF Ownership
<1>9. Answers'
  BY <1>2, <1>4, <1>5, <1>6, NoneIsNothing DEF IInv, Ownership, OwnerFirst, Owns, Answers,
      SafeIsCleared, AtMostOneReply, RepliedMeansPosted, OnlyClearedAnswered, TypeOK,
      CursorsSet, Working, Decide, owner, ingestion
<1>10. Queue'
  <2>1. UNCHANGED <<enabled, opened, oldQueue, posted>>
    BY DEF Decide, owner, ingestion
  <2>2. EnabledOnlyOpened' /\ RepliesOpened' /\ OldQueueSilent'
    BY <2>1 DEF IInv, Queue, EnabledOnlyOpened, RepliesOpened, OldQueueSilent
  <2>3. NewOnly
    BY DEF IInv, Queue
  <2>4. /\ sync[s].on /\ opened
        /\ sync[s].batch \cap oldQueue = {}
    BY <1>2, <2>3 DEF NewOnly
  <2>5. x.on /\ x.batch \cap oldQueue = {} /\ x.cur \notin oldQueue
    BY <1>2, <1>4, <2>4, NoneIsNothing DEF TypeOK
  <2>6. NewOnly'
    BY <1>5, <2>1, <2>3, <2>4, <2>5 DEF NewOnly
  <2> QED
    BY <2>2, <2>6 DEF Queue
<1> QED
  BY <1>7, <1>8, <1>9, <1>10 DEF IInv

\* Owners change nothing a running request has read.
LEMMA OwnerKeeps ==
  ASSUME IInv, OwnerStep PROVE IInv'
<1> DEFINE Outcome ==
      /\ UNCHANGED <<ingestion, events, posted, sync, crashes>>
      /\ opened => opened'
      /\ enabled' => opened'
      /\ enabled' \in BOOLEAN /\ opened' \in BOOLEAN /\ edits' \in Nat
      /\ rules' \in [Rules -> Rule]
<1>1. Outcome
  <2>1. ASSUME NEW on \in BOOLEAN, SetEnabled(on) PROVE Outcome
    BY <2>1 DEF SetEnabled, Edit, IInv, TypeOK, Queue, EnabledOnlyOpened
  <2>2. ASSUME NEW r \in Rules, RuleDeleted(r) PROVE Outcome
    BY <2>2 DEF RuleDeleted, Edit, IInv, TypeOK, Rule, Queue, EnabledOnlyOpened
  <2>3. ASSUME NEW r \in Rules, NEW answers \in SUBSET Comments, RuleSaved(r, answers)
        PROVE  Outcome
    BY <2>3 DEF RuleSaved, Edit, IInv, TypeOK, Rule, Queue, EnabledOnlyOpened
  <2> QED
    BY <2>1, <2>2, <2>3 DEF OwnerStep
<1>2. TypeOK'
  BY <1>1, NoneIsNothing DEF IInv, TypeOK, CursorsSet, Working, ingestion
<1>3. Ownership'
  BY <1>1, NoneIsNothing DEF IInv, Ownership, OneOwner, OwnerFirst, NoReplyAbandoned, Owns,
      TypeOK, CursorsSet, Working, ingestion
<1>4. Answers'
  BY <1>1, NoneIsNothing DEF IInv, Ownership, OwnerFirst, Owns, Answers, SafeIsCleared,
      AtMostOneReply, RepliedMeansPosted, OnlyClearedAnswered, TypeOK, CursorsSet, Working,
      ingestion
<1>5. Queue'
  BY <1>1, NoneIsNothing DEF IInv, Queue, NewOnly, EnabledOnlyOpened, RepliesOpened,
      OldQueueSilent, TypeOK, CursorsSet, Working, ingestion
<1> QED
  BY <1>2, <1>3, <1>4, <1>5 DEF IInv

\* Every step keeps the invariant.
LEMMA IInvStep == IInv /\ [Next]_vars => IInv'
<1> SUFFICES ASSUME IInv, [Next]_vars PROVE IInv'
  OBVIOUS
<1>1. ASSUME NEW s \in Syncs, SyncStep(s) PROVE IInv'
  BY <1>1, SyncStartKeeps, SyncReadExistingKeeps, SyncIngestKeeps, ListRulesKeeps,
      DecideKeeps, RecordSkippedKeeps, AlreadyRecordedKeeps, RecordAbortsKeeps,
      RecordWouldReplyKeeps, ReplyOkKeeps, ReplyFailsKeeps, MarkRepliedKeeps,
      MarkFailedKeeps, ReturnKeeps, SyncCrashKeeps DEF SyncStep, Record
<1>2. CASE OwnerStep
  BY <1>2, OwnerKeeps
<1>3. CASE UNCHANGED vars
  <2>1. TypeOK'
    BY <1>3, NoneIsNothing DEF IInv, TypeOK, CursorsSet, Working, vars, owner, ingestion
  <2>2. Ownership'
    BY <1>3, NoneIsNothing DEF IInv, Ownership, OneOwner, OwnerFirst, NoReplyAbandoned, Owns,
        TypeOK, CursorsSet, Working, vars, owner, ingestion
  <2>3. Answers'
    BY <1>3, NoneIsNothing DEF IInv, Ownership, OwnerFirst, Owns, Answers, SafeIsCleared,
        AtMostOneReply, RepliedMeansPosted, OnlyClearedAnswered, TypeOK, CursorsSet, Working,
        vars, owner, ingestion
  <2>4. Queue'
    BY <1>3, NoneIsNothing DEF IInv, Queue, NewOnly, EnabledOnlyOpened, RepliesOpened,
        OldQueueSilent, TypeOK, CursorsSet, Working, vars, owner, ingestion
  <2> QED
    BY <2>1, <2>2, <2>3, <2>4 DEF IInv
<1> QED
  BY <1>1, <1>2, <1>3 DEF Next

\* It holds at the start.
LEMMA IInvInit == Init => IInv
<1> SUFFICES ASSUME Init PROVE IInv
  OBVIOUS
<1>1. TypeOK
  BY IdleType DEF Init, TypeOK, Rule, Decision, CursorsSet, Working
<1>2. \A s \in Syncs : sync[s] = IdleSync
  BY DEF Init
<1>3. Ownership /\ Answers /\ Queue
  BY <1>2, IdleType, NoneIsNothing DEF Init, Ownership, OneOwner, OwnerFirst,
      NoReplyAbandoned, Owns, Answers, SafeIsCleared, AtMostOneReply, RepliedMeansPosted,
      OnlyClearedAnswered, Queue, NewOnly, EnabledOnlyOpened, RepliesOpened, OldQueueSilent
<1> QED
  BY <1>1, <1>3 DEF IInv

\* The strengthened invariant: who may still post, on what grounds, and since when.
THEOREM Invariant == Spec => []IInv
<1> QED
  BY IInvInit, IInvStep, PTL DEF Spec

\* Type correctness: a request knows its comment and its rule while it works on one.
THEOREM TypeCorrect == Spec => []TypeOK
<1>1. IInv => TypeOK
  BY DEF IInv, Ownership, Answers, Queue
<1> QED
  BY <1>1, Invariant, PTL

\* No comment is answered twice: the event row, inserted before the call, is the guard
\* that overlapping syncs, crashes and lost answers cannot get round.
THEOREM AnsweredOnce == Spec => []AtMostOneReply
<1>1. IInv => AtMostOneReply
  BY DEF IInv, Ownership, Answers, Queue
<1> QED
  BY <1>1, Invariant, PTL

\* An event that says "replied" is backed by a reply on Facebook.
THEOREM RepliedIsTrue == Spec => []RepliedMeansPosted
<1>1. IInv => RepliedMeansPosted
  BY DEF IInv, Ownership, Answers, Queue
<1> QED
  BY <1>1, Invariant, PTL

\* Only comments that some stored verdict cleared are answered.
THEOREM OnlyCleared == Spec => []OnlyClearedAnswered
<1>1. IInv => OnlyClearedAnswered
  BY DEF IInv, Ownership, Answers, Queue
<1> QED
  BY <1>1, Invariant, PTL

\* Switching the feature on never answers what was ingested before.
THEOREM OldQueueStaysSilent == Spec => []OldQueueSilent
<1>1. IInv => OldQueueSilent
  BY DEF IInv, Ownership, Answers, Queue
<1> QED
  BY <1>1, Invariant, PTL

\* Without crashes no decision to reply is left pending by a request that has ended.
THEOREM PendingIsOwned == Spec => []NoReplyAbandoned
<1>1. IInv => NoReplyAbandoned
  BY DEF IInv, Ownership, Answers, Queue
<1> QED
  BY <1>1, Invariant, PTL

\* Steps of the loop that leave the batch alone.
LEMMA BatchKept ==
  ASSUME TypeOK, NEW s \in Syncs,
         \/ ListRules(s) \/ RecordWouldReply(s) \/ ReplyOk(s) \/ ReplyFails(s)
         \/ AlreadyRecorded(s) \/ RecordSkipped(s) \/ MarkReplied(s) \/ MarkFailed(s)
  PROVE  /\ sync'[s].batch = sync[s].batch /\ sync'[s].pc # "idle"
         /\ \A t \in Syncs \ {s} : sync'[t] = sync[t]
<1>1. sync[s] \in SyncState
  BY DEF TypeOK
<1>2. ASSUME NEW x, x.batch = sync[s].batch, x.pc # "idle", sync' = [sync EXCEPT ![s] = x]
      PROVE  /\ sync'[s].batch = sync[s].batch /\ sync'[s].pc # "idle"
             /\ \A t \in Syncs \ {s} : sync'[t] = sync[t]
  BY <1>2 DEF TypeOK
<1>3. CASE ListRules(s)
  <2> DEFINE x == [sync[s] EXCEPT !.pc = "loop",
        !.known = [r \in Rules |-> IF rules[r].life = "live" THEN rules[r].answers ELSE {}]]
  <2>1. x.batch = sync[s].batch /\ x.pc # "idle"
    BY <1>1 DEF SyncState
  <2>2. sync' = [sync EXCEPT ![s] = x]
    BY <1>3 DEF ListRules
  <2> HIDE DEF x
  <2> QED
    BY <1>2, <2>1, <2>2
<1>4. CASE RecordWouldReply(s) \/ ReplyOk(s) \/ ReplyFails(s)
  <2>1. PICK p \in {"call", "posted", "failed"} : sync' = [sync EXCEPT ![s].pc = p]
    BY <1>4 DEF RecordWouldReply, ReplyOk, ReplyFails
  <2> DEFINE x == [sync[s] EXCEPT !.pc = p]
  <2>2. x.batch = sync[s].batch /\ x.pc # "idle"
    BY PcType DEF Carries
  <2>3. sync' = [sync EXCEPT ![s] = x]
    BY <2>1 DEF TypeOK
  <2> HIDE DEF x
  <2> QED
    BY <1>2, <2>2, <2>3
<1>5. CASE AlreadyRecorded(s) \/ RecordSkipped(s) \/ MarkReplied(s) \/ MarkFailed(s)
  <2> DEFINE x == NextComment(s)
  <2>1. x.batch = sync[s].batch /\ x.pc # "idle"
    BY NextCommentType DEF Carries
  <2>2. sync' = [sync EXCEPT ![s] = x]
    BY <1>5 DEF AlreadyRecorded, RecordSkipped, MarkReplied, MarkFailed
  <2> HIDE DEF x
  <2> QED
    BY <1>2, <2>1, <2>2
<1> QED
  BY <1>3, <1>4, <1>5

\* Taking one comment out of the batch.
LEMMA DecideTakesOne ==
  ASSUME TypeOK, NEW s \in Syncs, Decide(s)
  PROVE  /\ sync'[s].pc # "idle"
         /\ \A t \in Syncs \ {s} : sync'[t] = sync[t]
         /\ \E d \in sync[s].batch : /\ sync'[s].batch = sync[s].batch \ {d}
                                     /\ events[d] = "none" => sync'[s].cur = d
<1>1. PICK d \in sync[s].batch :
        LET rest == [sync[s] EXCEPT !.batch = @ \ {d}] IN
        IF events[d] # "none" THEN sync' = [sync EXCEPT ![s] = rest]
        ELSE IF MatchingRules(s, d) = {}
        THEN sync' = [sync EXCEPT ![s] = [rest EXCEPT !.pc = "skip", !.cur = d]]
        ELSE \E r \in MatchingRules(s, d) :
               sync' = [sync EXCEPT ![s] = [rest EXCEPT !.pc = "record", !.cur = d, !.rule = r]]
  BY DEF Decide
<1> DEFINE rest == [sync[s] EXCEPT !.batch = @ \ {d}]
<1>2. /\ rest \in SyncState /\ rest.batch = sync[s].batch \ {d} /\ rest.pc = "loop"
  BY DEF TypeOK, SyncState, Decide
<1> HIDE DEF rest
<1>3. ASSUME NEW x, x.pc # "idle", x.batch = sync[s].batch \ {d},
             events[d] = "none" => x.cur = d, sync' = [sync EXCEPT ![s] = x]
      PROVE  /\ sync'[s].pc # "idle" /\ sync'[s].batch = sync[s].batch \ {d}
             /\ events[d] = "none" => sync'[s].cur = d
             /\ \A t \in Syncs \ {s} : sync'[t] = sync[t]
  BY <1>3 DEF TypeOK
<1>4. CASE events[d] # "none"
  <2>1. sync' = [sync EXCEPT ![s] = rest]
    BY <1>1, <1>4 DEF rest
  <2> QED
    BY <1>2, <1>3, <1>4, <2>1
<1>5. CASE events[d] = "none" /\ MatchingRules(s, d) = {}
  <2> DEFINE x == [rest EXCEPT !.pc = "skip", !.cur = d]
  <2>1. x.pc = "skip" /\ x.batch = sync[s].batch \ {d} /\ x.cur = d
    BY <1>2 DEF SyncState
  <2>2. sync' = [sync EXCEPT ![s] = x]
    BY <1>1, <1>5 DEF rest
  <2> HIDE DEF x
  <2> QED
    BY <1>3, <2>1, <2>2
<1>6. CASE events[d] = "none" /\ MatchingRules(s, d) # {}
  <2>1. PICK r \in MatchingRules(s, d) :
          sync' = [sync EXCEPT ![s] = [rest EXCEPT !.pc = "record", !.cur = d, !.rule = r]]
    BY <1>1, <1>6 DEF rest
  <2> DEFINE x == [rest EXCEPT !.pc = "record", !.cur = d, !.rule = r]
  <2>2. x.pc = "record" /\ x.batch = sync[s].batch \ {d} /\ x.cur = d
    BY <1>2 DEF SyncState
  <2>3. sync' = [sync EXCEPT ![s] = x]
    BY <2>1
  <2> HIDE DEF x
  <2> QED
    BY <1>3, <2>2, <2>3
<1> QED
  BY <1>4, <1>5, <1>6

\* A request that is not running carries no comments.
IdleEmpty == \A s \in Syncs : sync[s].pc = "idle" => sync[s].batch = {}

LEMMA IdleEmptyStep == TypeOK /\ IdleEmpty /\ [Next]_vars => IdleEmpty'
<1> SUFFICES ASSUME TypeOK, IdleEmpty, [Next]_vars PROVE IdleEmpty'
  OBVIOUS
<1>1. ASSUME NEW s \in Syncs, NEW x \in SyncState, sync' = [sync EXCEPT ![s] = x],
             x.pc = "idle" => x.batch = {}
      PROVE  IdleEmpty'
  BY <1>1, Put DEF IdleEmpty
<1>2. ASSUME NEW s \in Syncs, sync' = [sync EXCEPT ![s] = IdleSync] PROVE IdleEmpty'
  BY <1>1, <1>2, IdleType
<1>3. ASSUME NEW s \in Syncs, SyncStep(s) PROVE IdleEmpty'
  <2>1. sync[s] \in SyncState
    BY DEF TypeOK
  <2>2. CASE RecordAborts(s) \/ Return(s) \/ SyncCrash(s)
    BY <1>2, <2>2 DEF RecordAborts, Return, SyncCrash
  <2>3. CASE SyncStart(s)
    <3>1. [IdleSync EXCEPT !.pc = "read", !.on = enabled] \in SyncState
      BY DEF TypeOK, SyncState, IdleSync
    <3> QED
      BY <1>1, <2>3, <3>1 DEF SyncStart, SyncState
  <2>4. CASE SyncReadExisting(s)
    <3>1. PICK seen \in SUBSET Comments : sync' = [sync EXCEPT ![s] =
            IF seen \ stored = {} THEN IdleSync
            ELSE [@ EXCEPT !.pc = "ingest", !.batch = seen \ stored]]
      BY <2>4 DEF SyncReadExisting
    <3>2. CASE seen \ stored = {}
      BY <1>2, <3>1, <3>2
    <3>3. CASE seen \ stored # {}
      <4> DEFINE x == [sync[s] EXCEPT !.pc = "ingest", !.batch = seen \ stored]
      <4>1. x \in SyncState /\ x.pc = "ingest"
        BY <2>1 DEF SyncState
      <4>2. sync' = [sync EXCEPT ![s] = x]
        BY <3>1, <3>3
      <4> HIDE DEF x
      <4> QED
        BY <1>1, <4>1, <4>2
    <3> QED
      BY <3>2, <3>3
  <2>5. CASE SyncIngest(s)
    <3>1. PICK safe \in SUBSET sync[s].batch : sync' = [sync EXCEPT ![s] =
            IF sync[s].on THEN [@ EXCEPT !.pc = "rules", !.safe = safe] ELSE IdleSync]
      BY <2>5 DEF SyncIngest
    <3>2. CASE ~sync[s].on
      BY <1>2, <3>1, <3>2
    <3>3. CASE sync[s].on
      <4> DEFINE x == [sync[s] EXCEPT !.pc = "rules", !.safe = safe]
      <4>1. x \in SyncState /\ x.pc = "rules"
        BY <2>1 DEF SyncState
      <4>2. sync' = [sync EXCEPT ![s] = x]
        BY <3>1, <3>3
      <4> HIDE DEF x
      <4> QED
        BY <1>1, <4>1, <4>2
    <3> QED
      BY <3>2, <3>3
  <2>6. CASE \/ ListRules(s) \/ RecordWouldReply(s) \/ ReplyOk(s) \/ ReplyFails(s)
             \/ AlreadyRecorded(s) \/ RecordSkipped(s) \/ MarkReplied(s) \/ MarkFailed(s)
    BY <2>6, BatchKept DEF IdleEmpty
  <2>7. CASE Decide(s)
    BY <2>7, DecideTakesOne DEF IdleEmpty
  <2> QED
    BY <1>3, <2>2, <2>3, <2>4, <2>5, <2>6, <2>7 DEF SyncStep, Record
<1>4. CASE OwnerStep
  BY <1>4 DEF OwnerStep, SetEnabled, RuleSaved, RuleDeleted, IdleEmpty
<1>5. CASE UNCHANGED vars
  BY <1>5 DEF vars, IdleEmpty
<1> QED
  BY <1>3, <1>4, <1>5 DEF Next

\* What one step may do to the batch of a request.
LeavesBatchDecided ==
  \A s \in Syncs : \A c \in sync[s].batch :
    sync[s].pc \notin {"read", "ingest"} /\ c \notin sync'[s].batch =>
      \/ events[c] # "none" \/ sync'[s].cur = c
      \/ crashes' > crashes
      \/ sync[s].rule # None /\ rules[sync[s].rule].life = "deleted"

LEMMA NonePassedOverStep == TypeOK /\ IdleEmpty /\ [Next]_vars => LeavesBatchDecided
<1> SUFFICES ASSUME TypeOK, IdleEmpty, [Next]_vars PROVE LeavesBatchDecided
  OBVIOUS
<1>1. ASSUME NEW s \in Syncs, SyncStep(s), NEW t \in Syncs, NEW c \in sync[t].batch,
             sync[t].pc \notin {"read", "ingest"}, c \notin sync'[t].batch
      PROVE  \/ events[c] # "none" \/ sync'[t].cur = c
             \/ crashes' > crashes
             \/ sync[t].rule # None /\ rules[sync[t].rule].life = "deleted"
  <2>1. sync[s] \in SyncState /\ crashes \in Nat
    BY DEF TypeOK
  <2>2. CASE SyncStart(s) \/ SyncReadExisting(s) \/ SyncIngest(s)
    BY <1>1, <2>1, <2>2 DEF SyncStart, SyncReadExisting, SyncIngest, TypeOK, IdleEmpty
  <2>3. CASE Return(s) \/ SyncCrash(s)
    BY <1>1, <2>1, <2>3 DEF Return, SyncCrash, TypeOK
  <2>4. CASE \/ ListRules(s) \/ RecordWouldReply(s) \/ ReplyOk(s) \/ ReplyFails(s)
             \/ AlreadyRecorded(s) \/ RecordSkipped(s) \/ MarkReplied(s) \/ MarkFailed(s)
    BY <1>1, <2>4, BatchKept
  <2>5. CASE RecordAborts(s)
    BY <1>1, <2>1, <2>5, NoneIsNothing DEF RecordAborts, TypeOK, CursorsSet, Working
  <2>6. CASE Decide(s)
    BY <1>1, <2>6, DecideTakesOne
  <2> QED
    BY <1>1, <2>2, <2>3, <2>4, <2>5, <2>6 DEF SyncStep, Record
<1>2. CASE OwnerStep
  BY <1>2 DEF OwnerStep, SetEnabled, RuleSaved, RuleDeleted, LeavesBatchDecided
<1>3. CASE UNCHANGED vars
  BY <1>3 DEF vars, LeavesBatchDecided
<1> QED
  BY <1>1, <1>2, <1>3 DEF Next, LeavesBatchDecided

\* No comment leaves a batch undecided, but for a request that dies.
THEOREM EveryCommentDecided == Spec => NonePassedOver
<1>1. Init => IdleEmpty
  BY IdleType DEF Init, IdleEmpty
<1>2. TypeOK /\ IdleEmpty /\ [Next]_vars => [LeavesBatchDecided]_vars
  BY NonePassedOverStep
<1> QED
  BY <1>1, <1>2, IdleEmptyStep, TypeCorrect, PTL DEF Spec, NonePassedOver, LeavesBatchDecided

\* Refinement.  The event a request has inserted stays pending until that request
\* records the outcome.
OwnerPending ==
  \A s \in Syncs : \A c \in Comments : Owns(s, c) => events[c] = "would_reply"

\* A step after which s owns only what it owned, or nothing.
LEMMA OwnerPendingLocal ==
  ASSUME OwnerPending, NEW s \in Syncs, \A t \in Syncs \ {s} : sync'[t] = sync[t],
         events' = events,
         sync'[s].pc \in {"call", "posted", "failed"} =>
           sync'[s].cur = sync[s].cur /\ sync[s].pc \in {"call", "posted", "failed"}
  PROVE  OwnerPending'
BY DEF OwnerPending, Owns

\* Local states a request passes through without owning anything.
LEMMA QuietSteps ==
  ASSUME TypeOK, NEW s \in Syncs,
         \/ SyncStart(s) \/ SyncReadExisting(s) \/ SyncIngest(s) \/ ListRules(s) \/ Decide(s)
         \/ RecordAborts(s) \/ AlreadyRecorded(s) \/ Return(s) \/ SyncCrash(s)
  PROVE  /\ sync'[s].pc \notin {"call", "posted", "failed"}
         /\ \A t \in Syncs \ {s} : sync'[t] = sync[t]
         /\ events' = events /\ posted' = posted
<1>1. sync[s] \in SyncState
  BY DEF TypeOK
<1>2. CASE SyncStart(s)
  BY <1>2 DEF SyncStart, TypeOK, IdleSync
<1>3. CASE RecordAborts(s) \/ Return(s) \/ SyncCrash(s)
  BY <1>3, IdleType DEF RecordAborts, Return, SyncCrash, TypeOK
<1>7. CASE SyncReadExisting(s)
  <2>1. PICK seen \in SUBSET Comments : sync' = [sync EXCEPT ![s] =
          IF seen \ stored = {} THEN IdleSync
          ELSE [@ EXCEPT !.pc = "ingest", !.batch = seen \ stored]]
    BY <1>7 DEF SyncReadExisting
  <2> DEFINE x == IF seen \ stored = {} THEN IdleSync
                  ELSE [sync[s] EXCEPT !.pc = "ingest", !.batch = seen \ stored]
  <2>2. x.pc \in {"idle", "ingest"}
    BY <1>1, IdleType DEF SyncState
  <2>3. sync' = [sync EXCEPT ![s] = x]
    BY <2>1
  <2> HIDE DEF x
  <2> QED
    BY <1>7, <2>2, <2>3 DEF SyncReadExisting, TypeOK
<1>8. CASE SyncIngest(s)
  <2>1. PICK safe \in SUBSET sync[s].batch : sync' = [sync EXCEPT ![s] =
          IF sync[s].on THEN [@ EXCEPT !.pc = "rules", !.safe = safe] ELSE IdleSync]
    BY <1>8 DEF SyncIngest
  <2> DEFINE x == IF sync[s].on THEN [sync[s] EXCEPT !.pc = "rules", !.safe = safe]
                  ELSE IdleSync
  <2>2. x.pc \in {"idle", "rules"}
    BY <1>1, IdleType DEF SyncState
  <2>3. sync' = [sync EXCEPT ![s] = x]
    BY <2>1
  <2> HIDE DEF x
  <2> QED
    BY <1>8, <2>2, <2>3 DEF SyncIngest, TypeOK
<1>4. CASE ListRules(s)
  BY <1>1, <1>4 DEF ListRules, TypeOK, SyncState
<1>5. CASE AlreadyRecorded(s)
  BY <1>1, <1>5 DEF AlreadyRecorded, NextComment, TypeOK, SyncState
<1>6. CASE Decide(s)
  <2>1. PICK d \in sync[s].batch :
          LET rest == [sync[s] EXCEPT !.batch = @ \ {d}] IN
          IF events[d] # "none" THEN sync' = [sync EXCEPT ![s] = rest]
          ELSE IF MatchingRules(s, d) = {}
          THEN sync' = [sync EXCEPT ![s] = [rest EXCEPT !.pc = "skip", !.cur = d]]
          ELSE \E r \in MatchingRules(s, d) :
                 sync' = [sync EXCEPT ![s] = [rest EXCEPT !.pc = "record", !.cur = d, !.rule = r]]
    BY <1>6 DEF Decide
  <2> DEFINE rest == [sync[s] EXCEPT !.batch = @ \ {d}]
  <2>2. rest \in SyncState /\ rest.pc = "loop"
    BY <1>1, <1>6 DEF Decide, SyncState
  <2> HIDE DEF rest
  <2>3. events' = events /\ posted' = posted
    BY <1>6 DEF Decide
  <2>4. CASE events[d] # "none"
    <3>1. sync' = [sync EXCEPT ![s] = rest]
      BY <2>1, <2>4 DEF rest
    <3> QED
      BY <2>2, <2>3, <3>1 DEF TypeOK
  <2>5. CASE events[d] = "none" /\ MatchingRules(s, d) = {}
    <3> DEFINE x == [rest EXCEPT !.pc = "skip", !.cur = d]
    <3>1. x.pc = "skip"
      BY <2>2 DEF SyncState
    <3>2. sync' = [sync EXCEPT ![s] = x]
      BY <2>1, <2>5 DEF rest
    <3> HIDE DEF x
    <3> QED
      BY <2>3, <3>1, <3>2 DEF TypeOK
  <2>6. CASE events[d] = "none" /\ MatchingRules(s, d) # {}
    <3>1. PICK r \in MatchingRules(s, d) :
            sync' = [sync EXCEPT ![s] = [rest EXCEPT !.pc = "record", !.cur = d, !.rule = r]]
      BY <2>1, <2>6 DEF rest
    <3> DEFINE x == [rest EXCEPT !.pc = "record", !.cur = d, !.rule = r]
    <3>2. x.pc = "record"
      BY <2>2 DEF SyncState
    <3>3. sync' = [sync EXCEPT ![s] = x]
      BY <3>1
    <3> HIDE DEF x
    <3> QED
      BY <2>3, <3>2, <3>3 DEF TypeOK
  <2> QED
    BY <2>4, <2>5, <2>6
<1> QED
  BY <1>2, <1>3, <1>4, <1>5, <1>6, <1>7, <1>8 DEF owner, ingestion

LEMMA OwnerPendingStep == IInv /\ OwnerPending /\ [Next]_vars => OwnerPending'
<1> SUFFICES ASSUME IInv, OwnerPending, [Next]_vars PROVE OwnerPending'
  OBVIOUS
<1>1. TypeOK /\ OneOwner
  BY DEF IInv, Ownership
<1>2. ASSUME NEW s \in Syncs, SyncStep(s) PROVE OwnerPending'
  <2>1. sync[s] \in SyncState
    BY <1>1 DEF TypeOK
  <2>2. CASE \/ SyncStart(s) \/ SyncReadExisting(s) \/ SyncIngest(s) \/ ListRules(s)
             \/ Decide(s) \/ RecordAborts(s) \/ AlreadyRecorded(s) \/ Return(s) \/ SyncCrash(s)
    BY <1>1, <2>2, QuietSteps, OwnerPendingLocal
  <2>3. CASE ReplyOk(s) \/ ReplyFails(s)
    BY <1>1, <2>1, <2>3, OwnerPendingLocal DEF ReplyOk, ReplyFails, TypeOK, SyncState, ingestion
  <2>4. CASE RecordWouldReply(s)
    <3>1. /\ sync'[s].cur = sync[s].cur /\ sync'[s].pc = "call"
          /\ \A t \in Syncs \ {s} : sync'[t] = sync[t]
      BY <1>1, <2>1, <2>4 DEF RecordWouldReply, TypeOK, SyncState
    <3> QED
      BY <1>1, <2>4, <3>1 DEF RecordWouldReply, OwnerPending, Owns, TypeOK
  <2>5. CASE RecordSkipped(s) \/ MarkReplied(s) \/ MarkFailed(s)
    <3>1. /\ sync'[s].pc = "loop"
          /\ \A t \in Syncs \ {s} : sync'[t] = sync[t]
      <4>1. sync' = [sync EXCEPT ![s] = NextComment(s)]
        BY <2>5 DEF RecordSkipped, MarkReplied, MarkFailed
      <4> QED
        BY <1>1, <4>1, NextCommentType DEF TypeOK
    <3>2. CASE RecordSkipped(s)
      BY <1>1, <3>1, <3>2 DEF RecordSkipped, OwnerPending, Owns, TypeOK
    <3>3. CASE MarkReplied(s) \/ MarkFailed(s)
      <4>1. sync[s].cur \in Comments /\ Owns(s, sync[s].cur)
        BY <1>1, <2>1, <3>3, NoneIsNothing DEF MarkReplied, MarkFailed, TypeOK, CursorsSet,
            Working, Owns, SyncState
      <4>2. \A c \in Comments \ {sync[s].cur} : events'[c] = events[c]
        BY <1>1, <3>3 DEF MarkReplied, MarkFailed, TypeOK
      <4> QED
        BY <1>1, <3>1, <4>1, <4>2 DEF OneOwner, OwnerPending, Owns
    <3> QED
      BY <2>5, <3>2, <3>3
  <2> QED
    BY <1>2, <2>2, <2>3, <2>4, <2>5 DEF SyncStep, Record
<1>3. CASE OwnerStep
  BY <1>3 DEF OwnerStep, SetEnabled, RuleSaved, RuleDeleted, OwnerPending, Owns
<1>4. CASE UNCHANGED vars
  BY <1>4 DEF vars, OwnerPending, Owns
<1> QED
  BY <1>2, <1>3, <1>4 DEF Next

LEMMA RefinementStep ==
  IInv /\ OwnerPending /\ [Next]_vars => [Promised!Next]_<<events, posted>>
<1> SUFFICES ASSUME IInv, OwnerPending, [Next]_vars
             PROVE  Promised!Next \/ UNCHANGED <<events, posted>>
  OBVIOUS
<1>1. TypeOK /\ OwnerFirst /\ AtMostOneReply
  BY DEF IInv, Ownership, Answers
<1>2. ASSUME NEW s \in Syncs, SyncStep(s)
      PROVE  Promised!Next \/ UNCHANGED <<events, posted>>
  <2> DEFINE c == sync[s].cur
  <2>1. sync[s] \in SyncState
    BY <1>1 DEF TypeOK
  <2>2. sync[s].pc \in Working => c \in Comments
    BY <1>1, <2>1, NoneIsNothing DEF TypeOK, CursorsSet, SyncState
  <2>3. c \in Comments => events[c] \in Decision /\ posted[c] \in Nat
    BY <1>1 DEF TypeOK
  <2>4. CASE \/ SyncStart(s) \/ SyncReadExisting(s) \/ SyncIngest(s) \/ ListRules(s)
             \/ Decide(s) \/ RecordAborts(s) \/ AlreadyRecorded(s) \/ Return(s) \/ SyncCrash(s)
    BY <1>1, <2>4, QuietSteps
  <2>5. CASE RecordSkipped(s)
    <3>1. c \in Comments
      BY <2>2, <2>5 DEF RecordSkipped, Working
    <3>2. CASE events[c] = "none"
      BY <2>5, <3>1, <3>2 DEF RecordSkipped, Promised!Next, Promised!Decline
    <3>3. CASE events[c] # "none"
      BY <1>1, <2>5, <3>1, <3>3 DEF RecordSkipped, TypeOK
    <3> QED
      BY <3>2, <3>3
  <2>6. CASE RecordWouldReply(s)
    <3>1. c \in Comments
      BY <2>2, <2>6 DEF RecordWouldReply, Working
    <3> QED
      BY <2>6, <3>1 DEF RecordWouldReply, Promised!Next, Promised!Promise
  <2>7. CASE ReplyOk(s) \/ ReplyFails(s)
    <3>1. c \in Comments /\ Owns(s, c)
      BY <2>2, <2>7 DEF ReplyOk, ReplyFails, Working, Owns
    <3>2. events[c] = "would_reply" /\ posted[c] = 0
      BY <1>1, <2>7, <3>1 DEF OwnerFirst, OwnerPending, ReplyOk, ReplyFails
    <3>3. CASE GraphPosts(c)
      <4>1. posted' = [posted EXCEPT ![c] = 1]
        BY <3>2, <3>3 DEF GraphPosts
      <4>2. events' = events
        BY <2>7 DEF ReplyOk, ReplyFails
      <4>3. Promised!Post(c)
        BY <3>2, <4>1, <4>2 DEF Promised!Post
      <4> QED
        BY <3>1, <4>3 DEF Promised!Next
    <3>4. CASE UNCHANGED posted
      BY <2>7, <3>4 DEF ReplyOk, ReplyFails
    <3> QED
      BY <2>7, <3>3, <3>4 DEF ReplyOk, ReplyFails
  <2>8. CASE MarkReplied(s) \/ MarkFailed(s)
    <3>1. c \in Comments /\ Owns(s, c)
      BY <2>2, <2>8 DEF MarkReplied, MarkFailed, Working, Owns
    <3>2. events[c] = "would_reply" /\ (sync[s].pc = "posted" => posted[c] = 1)
      BY <1>1, <2>3, <3>1 DEF OwnerFirst, OwnerPending, AtMostOneReply
    <3>3. CASE MarkReplied(s)
      BY <3>1, <3>2, <3>3 DEF MarkReplied, Promised!Next, Promised!Settle
    <3>4. CASE MarkFailed(s)
      BY <3>1, <3>2, <3>4 DEF MarkFailed, Promised!Next, Promised!Settle
    <3> QED
      BY <2>8, <3>3, <3>4
  <2> QED
    BY <1>2, <2>4, <2>5, <2>6, <2>7, <2>8 DEF SyncStep, Record
<1>3. CASE OwnerStep
  BY <1>3 DEF OwnerStep, SetEnabled, RuleSaved, RuleDeleted
<1>4. CASE UNCHANGED vars
  BY <1>4 DEF vars
<1> QED
  BY <1>2, <1>3, <1>4 DEF Next

\* Overlapping, dying and misinformed syncs implement ReplyOnce: one decision, at most one
\* reply and one outcome per comment.
THEOREM ImplementsReplyOnce == Spec => RepliesOnce
<1>1. Init => OwnerPending /\ Promised!Init
  BY IdleType DEF Init, OwnerPending, Owns, Promised!Init
<1> QED
  BY <1>1, OwnerPendingStep, RefinementStep, Invariant, PTL
     DEF Spec, RepliesOnce, Promised!Spec

----------------------------------------------------------------------------
(* RuleOrder.  A request that arranges holds every rule it has passed until *)
(* it commits, so that at its commit no position of its order is another's. *)

\* Each id stands once in the order.
Distinct(order) == \A i, j \in 1..Len(order) : order[i] = order[j] => i = j

Known(order) == \A i \in 1..Len(order) : row[order[i]] # "unborn"

\* The positions of the rules do not pass some number, so that there is a next one.
Bounded == \E n \in Nat : \A p \in Live : position[p] <= n

\* A request that arranges has an order of known rules and holds those it has passed.
Holds(r) ==
  LET order == request[r].order IN
  /\ request[r].pc = "new" => request[r].step = 1
  /\ request[r].pc = "arrange" =>
       /\ request[r].step >= 1 /\ Distinct(order) /\ Known(order)
       /\ \A k \in 1..Len(order) :
            k < request[r].step /\ row[order[k]] = "live" => lock[order[k]] = r

Held == \A r \in Requests : Holds(r)

\* Only a request that arranges holds rules, of its own order.
HeldForOrder ==
  \A r \in Requests : \A p \in RuleIds :
    lock[p] = r => request[r].pc = "arrange" /\ p \in Ids(request[r].order)

OrderInv ==
  OrderTypeOK /\ Known(arranged) /\ Bounded /\ Held /\ HeldForOrder /\ ArrangedOrderStands

\* A nonempty set of integers that some number bounds has a maximum.
LEMMA MaxOfBounded ==
  ASSUME NEW S, S \subseteq Int, S # {}, NEW n \in Int, \A x \in S : x <= n
  PROVE  Max(S) \in S /\ \A x \in S : x <= Max(S)
<1> DEFINE T == {n - x : x \in S}
<1>1. T \subseteq Nat /\ T # {}
  <2>1. \A x \in S : n - x \in Nat
    OBVIOUS
  <2> QED
    BY <2>1
<1>2. PICK d \in T : \A e \in T : ~(<<e, d>> \in OpToRel(<, Nat))
  <2> HIDE DEF T
  <2> QED
    BY <1>1, NatLessThanWellFounded, WFMin, Zenon
<1>3. \A e \in T : ~(e < d)
  BY <1>1, <1>2 DEF OpToRel
<1>4. PICK m \in S : d = n - m
  OBVIOUS
<1>5. ASSUME NEW x \in S PROVE m >= x
  <2>1. ~(n - x < n - m)
    BY <1>3, <1>4
  <2> QED
    BY <2>1
<1> HIDE DEF T
<1>6. Max(S) \in S /\ \A x \in S : Max(S) >= x
  BY <1>4, <1>5 DEF Max
<1> QED
  BY <1>6

\* The position a new rule is given is behind that of every rule there is.
LEMMA NextIsBehind ==
  ASSUME OrderTypeOK, Bounded
  PROVE  NextPosition \in Int /\ \A p \in Live : position[p] < NextPosition
<1> DEFINE S == {position[p] : p \in Live}
<1>1. S \subseteq Int
  BY DEF OrderTypeOK, Live
<1>2. CASE Live = {}
  BY <1>2 DEF NextPosition
<1>3. CASE Live # {}
  <2>1. PICK n \in Nat : \A p \in Live : position[p] <= n
    BY DEF Bounded
  <2>2. S # {} /\ \A x \in S : x <= n
    BY <1>3, <2>1
  <2>3. NextPosition = Max(S) + 1
    BY <1>3 DEF NextPosition
  <2>4. \A p \in Live : position[p] \in S
    OBVIOUS
  <2> HIDE DEF S
  <2> DEFINE top == Max(S)
  <2>5. top \in S /\ \A x \in S : x <= top
    <3>1. n \in Int
      OBVIOUS
    <3> QED
      BY <1>1, <2>2, <3>1, MaxOfBounded
  <2>6. NextPosition = top + 1
    BY <2>3
  <2> HIDE DEF top
  <2>7. top \in Int
    BY <1>1, <2>5
  <2>8. \A p \in Live : position[p] <= top
    BY <2>4, <2>5
  <2>9. \A p \in Live : position[p] \in Int
    BY <1>1, <2>4
  <2> QED
    BY <2>6, <2>7, <2>8, <2>9
<1> QED
  BY <1>2, <1>3

\* An order as long as its set of rules is large names each of them once.
LEMMA FullOrderIsDistinct ==
  ASSUME NEW order \in Seq(RuleIds), Len(order) = Cardinality(Ids(order))
  PROVE  Distinct(order)
<1> DEFINE places == 1..Len(order)
<1> DEFINE named == [i \in places |-> order[i]]
<1>1. IsFiniteSet(places) /\ Cardinality(places) = Len(order)
  BY FS_Interval
<1>2. named \in Surjection(places, Ids(order))
  BY DEF Surjection, Ids
<1>3. named \in Injection(places, Ids(order))
  <2> HIDE DEF places, named
  <2> QED
    BY <1>1, <1>2, FS_Surjection
<1>4. \A i, j \in places : named[i] = named[j] => i = j
  <2> HIDE DEF places, named
  <2> QED
    BY <1>3 DEF Injection, IsInjective
<1> QED
  BY <1>4 DEF Distinct

\* The initial rules stand as the order to begin with says.
LEMMA OrderInvInit == OrderInit => OrderInv
<1> SUFFICES ASSUME OrderInit PROVE OrderInv
  OBVIOUS
<1> USE RuleIdsAssumption, OrdersAssumption, RequestsAssumption
<1> DEFINE place(p) == CHOOSE i \in 1..Len(First) : First[i] = p
<1>1. First \in Seq(RuleIds) /\ Len(First) \in Nat /\ arranged = First
      /\ \A i \in 1..Len(First) : First[i] \in RuleIds
  BY DEF OrderInit
<1>2. \A i \in 1..Len(First) : place(First[i]) = i
  BY <1>1
<1>3. \A p \in Ids(First) : place(p) \in 1..Len(First)
  BY <1>2 DEF Ids
<1>4. \A p \in RuleIds : position[p] = IF p \in Ids(First) THEN place(p) - 1 ELSE 0
  BY DEF OrderInit
<1> HIDE DEF place
<1>5. OrderTypeOK
  <2>1. position \in [RuleIds -> Int]
    <3>1. \A p \in RuleIds : position[p] \in Int
      BY <1>1, <1>3, <1>4
    <3> QED
      BY <3>1 DEF OrderInit
  <2>2. Fresh \in RequestState
    BY DEF Fresh, RequestState
  <2> QED
    BY <1>1, <2>1, <2>2 DEF OrderInit, OrderTypeOK
<1>6. Known(arranged)
  BY <1>1 DEF OrderInit, Known, Ids
<1>7. Bounded
  <2>1. \A p \in Live : position[p] <= Len(First)
    BY <1>1, <1>3, <1>4 DEF Live
  <2> QED
    BY <1>1, <2>1 DEF Bounded
<1>8. Held /\ HeldForOrder
  BY DEF OrderInit, Held, Holds, HeldForOrder, Fresh
<1>9. ArrangedOrderStands
  <2> SUFFICES ASSUME NEW i \in 1..Len(First), NEW j \in 1..Len(First), i < j
               PROVE  position[First[i]] < position[First[j]]
    BY <1>1 DEF ArrangedOrderStands
  <2>1. First[i] \in Ids(First) /\ First[j] \in Ids(First)
    BY DEF Ids
  <2>2. position[First[i]] = i - 1 /\ position[First[j]] = j - 1
    BY <1>1, <1>2, <1>4, <2>1
  <2> QED
    BY <2>2
<1> QED
  BY <1>5, <1>6, <1>7, <1>8, <1>9 DEF OrderInv

\* A step of one request changes that request's own state only.
LEMMA PutRequest ==
  ASSUME OrderTypeOK, NEW r \in Requests, NEW x \in RequestState,
         request' = [request EXCEPT ![r] = x]
  PROVE  /\ request' \in [Requests -> RequestState] /\ request'[r] = x
         /\ \A s \in Requests \ {r} : request'[s] = request[s]
BY DEF OrderTypeOK

\* A request that ends keeps everything but where it is.
LEMMA DoneKeeps ==
  ASSUME OrderTypeOK, NEW r \in Requests, Done(r)
  PROVE  /\ request' \in [Requests -> RequestState] /\ request'[r].pc = "done"
         /\ \A s \in Requests \ {r} : request'[s] = request[s]
<1> DEFINE x == [request[r] EXCEPT !.pc = "done"]
<1>1. request[r] \in RequestState
  BY DEF OrderTypeOK
<1>2. x \in RequestState /\ x.pc = "done"
  BY <1>1 DEF RequestState
<1>3. request' = [request EXCEPT ![r] = x]
  BY DEF Done
<1> HIDE DEF x
<1> QED
  BY <1>2, <1>3, PutRequest

\* A request that has only looked at the rules, or asked for an action, disturbs nothing.
LEMMA LookingKeeps ==
  ASSUME OrderInv, NEW r \in Requests, NEW x \in RequestState,
         x.pc \in {"insert", "update", "delete", "done"}, request[r].pc = "new",
         request' = [request EXCEPT ![r] = x],
         UNCHANGED <<row, position, lock, arranged, stale>>
  PROVE  OrderInv'
<1>1. /\ request' \in [Requests -> RequestState] /\ request'[r] = x
      /\ \A s \in Requests \ {r} : request'[s] = request[s]
  BY PutRequest DEF OrderInv
<1>2. OrderTypeOK'
  BY <1>1 DEF OrderInv, OrderTypeOK
<1>3. Known(arranged)' /\ Bounded' /\ ArrangedOrderStands'
  BY DEF OrderInv, Known, Bounded, ArrangedOrderStands, Live
<1>4. Held'
  <2> SUFFICES ASSUME NEW s \in Requests PROVE Holds(s)'
    BY DEF Held
  <2>1. Holds(s) /\ row' = row /\ lock' = lock
    BY DEF OrderInv, Held
  <2> QED
    BY <1>1, <2>1 DEF Holds, Known, Distinct
<1>5. HeldForOrder'
  BY <1>1 DEF OrderInv, HeldForOrder
<1> QED
  BY <1>2, <1>3, <1>4, <1>5 DEF OrderInv

LEMMA ReadNextKeeps ==
  ASSUME OrderInv, NEW r \in Requests, ReadNext(r)
  PROVE  OrderInv'
<1> DEFINE x == [request[r] EXCEPT !.pc = "insert", !.position = NextPosition]
<1>1. request[r] \in RequestState /\ NextPosition \in Int
  BY NextIsBehind DEF OrderInv, OrderTypeOK
<1>2. x \in RequestState /\ x.pc = "insert"
  BY <1>1 DEF RequestState
<1>3. request' = [request EXCEPT ![r] = x]
  BY DEF ReadNext
<1>4. request[r].pc = "new" /\ UNCHANGED <<row, position, lock, arranged, stale>>
  BY DEF ReadNext
<1> HIDE DEF x
<1> QED
  BY <1>2, <1>3, <1>4, LookingKeeps

LEMMA GetRuleKeeps ==
  ASSUME OrderInv, NEW r \in Requests, NEW p \in RuleIds, GetRule(r, p)
  PROVE  OrderInv'
<1> DEFINE x == [request[r] EXCEPT !.pc = IF row[p] = "live" THEN "update" ELSE "done",
                                   !.rule = p, !.position = position[p]]
<1>1. request[r] \in RequestState /\ position[p] \in Int
  BY DEF OrderInv, OrderTypeOK
<1>2. x \in RequestState /\ x.pc \in {"update", "done"}
  BY <1>1 DEF RequestState
<1>3. request' = [request EXCEPT ![r] = x]
  BY DEF GetRule
<1>4. request[r].pc = "new" /\ UNCHANGED <<row, position, lock, arranged, stale>>
  BY DEF GetRule
<1> HIDE DEF x
<1> QED
  BY <1>2, <1>3, <1>4, LookingKeeps

LEMMA AskDeleteKeeps ==
  ASSUME OrderInv, NEW r \in Requests, NEW p \in RuleIds, AskDelete(r, p)
  PROVE  OrderInv'
<1> DEFINE x == [request[r] EXCEPT !.pc = "delete", !.rule = p]
<1>1. request[r] \in RequestState
  BY DEF OrderInv, OrderTypeOK
<1>2. x \in RequestState /\ x.pc = "delete"
  BY <1>1 DEF RequestState
<1>3. request' = [request EXCEPT ![r] = x]
  BY DEF AskDelete
<1>4. request[r].pc = "new" /\ UNCHANGED <<row, position, lock, arranged, stale>>
  BY DEF AskDelete
<1> HIDE DEF x
<1> QED
  BY <1>2, <1>3, <1>4, LookingKeeps

\* The order that passes the check names each rule there is once.
LEMMA ReadExistingKeeps ==
  ASSUME OrderInv, NEW r \in Requests, NEW order \in Orders, ReadExisting(r, order)
  PROVE  OrderInv'
<1> DEFINE full == Live = Ids(order) /\ Len(order) = Cardinality(Live)
           x == [request[r] EXCEPT !.pc = IF full THEN "arrange" ELSE "done", !.order = order]
<1>1. request[r] \in RequestState /\ order \in Seq(RuleIds) /\ OrderTypeOK
  BY OrdersAssumption DEF OrderInv, OrderTypeOK
<1>2. x \in RequestState /\ x.order = order /\ x.step = request[r].step
      /\ x.pc = IF full THEN "arrange" ELSE "done"
  BY <1>1 DEF RequestState
<1>3. request' = [request EXCEPT ![r] = x]
  BY DEF ReadExisting
<1>4. request[r].pc = "new" /\ UNCHANGED <<row, position, lock, arranged, stale>>
  BY DEF ReadExisting
<1>5. full => Distinct(order) /\ Known(order)
  <2>1. full => Distinct(order)
    BY <1>1, FullOrderIsDistinct
  <2>2. full => Known(order)
    BY DEF Known, Live, Ids
  <2> QED
    BY <2>1, <2>2
<1> HIDE DEF x, full
<1>6. CASE ~full
  BY <1>2, <1>3, <1>4, <1>6, LookingKeeps
<1>7. CASE full
  <2>1. /\ request' \in [Requests -> RequestState] /\ request'[r] = x
        /\ \A s \in Requests \ {r} : request'[s] = request[s]
    BY <1>1, <1>2, <1>3, PutRequest
  <2>2. OrderTypeOK'
    BY <1>1, <1>4, <2>1 DEF OrderTypeOK
  <2>3. Known(arranged)' /\ Bounded' /\ ArrangedOrderStands'
    BY <1>4 DEF OrderInv, Known, Bounded, ArrangedOrderStands, Live
  <2>4. x.step = 1
    BY <1>2, <1>4 DEF OrderInv, Held, Holds
  <2>5. Held'
    <3>1. Holds(r)'
      <4>1. row' = row /\ request'[r] = x /\ x.pc = "arrange" /\ x.order = order /\ x.step = 1
        BY <1>2, <1>4, <1>7, <2>1, <2>4
      <4>2. Distinct(order) /\ Known(order)
        BY <1>5, <1>7
      <4> QED
        BY <4>1, <4>2 DEF Holds, Distinct, Known
    <3>2. ASSUME NEW s \in Requests \ {r} PROVE Holds(s)'
      BY <1>4, <2>1 DEF OrderInv, Held, Holds, Known, Distinct
    <3> QED
      BY <3>1, <3>2 DEF Held
  <2>6. HeldForOrder'
    BY <1>4, <2>1 DEF OrderInv, HeldForOrder
  <2> QED
    BY <2>2, <2>3, <2>5, <2>6 DEF OrderInv
<1> QED
  BY <1>6, <1>7

\* A new rule comes behind all others, or its position rests on a stale read.
LEMMA CreateRuleKeeps ==
  ASSUME OrderInv, NEW r \in Requests, CreateRule(r)
  PROVE  OrderInv'
<1>1. OrderTypeOK /\ request[r] \in RequestState /\ request[r].position \in Int
      /\ request[r].pc = "insert"
  BY DEF OrderInv, OrderTypeOK, RequestState, CreateRule
<1>2. PICK p \in RuleIds :
        /\ row[p] = "unborn"
        /\ row' = [row EXCEPT ![p] = "live"]
        /\ position' = [position EXCEPT ![p] = request[r].position]
        /\ arranged' = Append(arranged, p)
  BY DEF CreateRule
<1>3. /\ request' \in [Requests -> RequestState] /\ request'[r].pc = "done"
      /\ \A s \in Requests \ {r} : request'[s] = request[s]
  BY <1>1, DoneKeeps DEF CreateRule
<1>4. /\ row'[p] = "live" /\ \A q \in RuleIds \ {p} : row'[q] = row[q]
      /\ position'[p] = request[r].position
      /\ \A q \in RuleIds \ {p} : position'[q] = position[q]
      /\ lock' = lock /\ stale' = (stale \/ request[r].position # NextPosition)
  BY <1>1, <1>2 DEF OrderTypeOK, CreateRule
<1>5. /\ Len(arranged') = Len(arranged) + 1 /\ Len(arranged) \in Nat
      /\ arranged'[Len(arranged) + 1] = p
      /\ \A i \in 1..Len(arranged) :
           arranged'[i] = arranged[i] /\ arranged[i] \in RuleIds \ {p}
  <2>1. arranged \in Seq(RuleIds)
    BY <1>1 DEF OrderTypeOK
  <2>2. \A i \in 1..Len(arranged) : arranged[i] \in RuleIds /\ arranged[i] # p
    BY <1>2, <2>1 DEF OrderInv, Known
  <2> QED
    BY <1>2, <2>1, <2>2
<1>6. Live' = Live \cup {p}
  BY <1>4 DEF Live
<1>7. OrderTypeOK'
  BY <1>1, <1>2, <1>3, <1>4 DEF OrderTypeOK
<1>8. Known(arranged)'
  BY <1>4, <1>5 DEF OrderInv, Known
<1>9. Bounded'
  <2>1. PICK n \in Nat : \A q \in Live : position[q] <= n
    BY DEF OrderInv, Bounded
  <2>2. PICK m \in Nat : request[r].position <= m /\ n <= m
    <3>1. CASE request[r].position <= n
      BY <3>1
    <3>2. CASE request[r].position > n
      <4>1. request[r].position \in Nat
        BY <1>1, <3>2
      <4> QED
        BY <3>2, <4>1
    <3> QED
      BY <1>1, <3>1, <3>2
  <2>3. \A q \in Live : position[q] \in Int
    BY <1>1 DEF OrderTypeOK, Live
  <2>4. \A q \in Live' : position'[q] <= m
    <3> SUFFICES ASSUME NEW q \in Live \cup {p} PROVE position'[q] <= m
      BY <1>6
    <3>1. CASE q = p
      BY <1>4, <2>2, <3>1
    <3>2. CASE q # p
      BY <1>4, <2>1, <2>2, <2>3, <3>2 DEF Live
    <3> QED
      BY <3>1, <3>2
  <2> QED
    BY <2>4 DEF Bounded
<1>10. Held'
  <2> SUFFICES ASSUME NEW s \in Requests PROVE Holds(s)'
    BY DEF Held
  <2>1. CASE s = r
    BY <1>3, <2>1 DEF Holds
  <2>2. CASE s # r
    <3>1. request'[s] = request[s] /\ request[s] \in RequestState
      BY <1>1, <1>3, <2>2 DEF OrderTypeOK
    <3>2. \A k \in 1..Len(request[s].order) : request[s].order[k] \in RuleIds
      BY <3>1 DEF RequestState
    <3>3. request[s].pc = "arrange" => \A k \in 1..Len(request[s].order) :
             request[s].order[k] # p /\ row'[request[s].order[k]] = row[request[s].order[k]]
      BY <1>2, <1>4, <3>2 DEF OrderInv, Held, Holds, Known
    <3>4. Holds(s)
      BY DEF OrderInv, Held
    <3> HIDE DEF OrderInv
    <3> QED
      BY <1>4, <3>1, <3>3, <3>4 DEF Holds, Known, Distinct
  <2> QED
    BY <2>1, <2>2
<1>11. HeldForOrder'
  BY <1>1, <1>3, <1>4 DEF OrderInv, HeldForOrder
<1>12. ArrangedOrderStands'
  <2> SUFFICES ASSUME ~stale', NEW i \in 1..Len(arranged'), NEW j \in 1..Len(arranged'),
                      i < j, {arranged'[i], arranged'[j]} \subseteq Live'
               PROVE  position'[arranged'[i]] < position'[arranged'[j]]
    BY DEF ArrangedOrderStands
  <2>1. ~stale /\ request[r].position = NextPosition
    BY <1>4
  <2>2. i \in 1..Len(arranged) /\ arranged'[i] = arranged[i] /\ arranged[i] # p
        /\ arranged[i] \in Live /\ position'[arranged[i]] = position[arranged[i]]
    BY <1>4, <1>5, <1>6
  <2>3. CASE j = Len(arranged) + 1
    BY <1>1, <1>4, <1>5, <2>1, <2>2, <2>3, NextIsBehind DEF OrderInv
  <2>4. CASE j # Len(arranged) + 1
    <3>1. j \in 1..Len(arranged) /\ arranged'[j] = arranged[j] /\ arranged[j] \in Live
          /\ position'[arranged[j]] = position[arranged[j]]
      BY <1>4, <1>5, <1>6, <2>4
    <3> QED
      BY <2>1, <2>2, <3>1 DEF OrderInv, ArrangedOrderStands
  <2> QED
    BY <2>3, <2>4
<1> QED
  BY <1>7, <1>8, <1>9, <1>10, <1>11, <1>12 DEF OrderInv

\* A write of the position that is there changes nothing; any other makes the edit stale.
LEMMA UpdateRuleKeeps ==
  ASSUME OrderInv, NEW r \in Requests, UpdateRule(r)
  PROVE  OrderInv'
<1> DEFINE p == request[r].rule
           old == request[r].position
<1>1. OrderTypeOK /\ old \in Int /\ p \in RuleIds \cup {Free} /\ request[r].pc = "update"
  BY DEF OrderInv, OrderTypeOK, RequestState, UpdateRule
<1>2. /\ request' \in [Requests -> RequestState] /\ request'[r].pc = "done"
      /\ \A s \in Requests \ {r} : request'[s] = request[s]
  BY <1>1, DoneKeeps DEF UpdateRule
<1>3. /\ row' = row /\ lock' = lock /\ arranged' = arranged
      /\ position' = IF row[p] = "live" THEN [position EXCEPT ![p] = old] ELSE position
      /\ stale' = (stale \/ (row[p] = "live" /\ old # position[p]))
  BY DEF UpdateRule
<1> HIDE DEF p, old
<1>4. position' \in [RuleIds -> Int] /\ \A q \in RuleIds : q # p => position'[q] = position[q]
  BY <1>1, <1>3 DEF OrderTypeOK
<1>5. OrderTypeOK'
  BY <1>1, <1>2, <1>3, <1>4 DEF OrderTypeOK
<1>6. Known(arranged)'
  BY <1>3 DEF OrderInv, Known
<1>7. Bounded'
  <2>1. PICK n \in Nat : \A q \in Live : position[q] <= n
    BY DEF OrderInv, Bounded
  <2>2. PICK m \in Nat : old <= m /\ n <= m
    <3>1. CASE old <= n
      BY <3>1
    <3>2. CASE old > n
      <4>1. old \in Nat
        BY <1>1, <3>2
      <4> QED
        BY <3>2, <4>1
    <3> QED
      BY <1>1, <3>1, <3>2
  <2>3. \A q \in Live : q \in RuleIds /\ position[q] \in Int
    BY <1>1 DEF OrderTypeOK, Live
  <2>4. \A q \in Live : position'[q] <= m
    <3> TAKE q \in Live
    <3>1. position[q] <= m
      BY <2>1, <2>2, <2>3
    <3>2. CASE q = p
      BY <1>1, <1>3, <2>2, <2>3, <3>1, <3>2 DEF OrderTypeOK
    <3>3. CASE q # p
      BY <1>4, <2>3, <3>1, <3>3
    <3> QED
      BY <3>2, <3>3
  <2>5. Live' = Live
    BY <1>3 DEF Live
  <2> QED
    BY <2>4, <2>5 DEF Bounded
<1>8. Held'
  <2> SUFFICES ASSUME NEW s \in Requests PROVE Holds(s)'
    BY DEF Held
  <2>1. Holds(s)
    BY DEF OrderInv, Held
  <2> QED
    BY <1>2, <1>3, <2>1 DEF Holds, Known, Distinct
<1>9. HeldForOrder'
  BY <1>1, <1>2, <1>3 DEF OrderInv, HeldForOrder
<1>10. ArrangedOrderStands'
  <2>1. ~stale' => position' = position
    BY <1>1, <1>3 DEF OrderTypeOK
  <2> QED
    BY <1>3, <2>1 DEF OrderInv, ArrangedOrderStands, Live
<1> QED
  BY <1>5, <1>6, <1>7, <1>8, <1>9, <1>10 DEF OrderInv

\* A deleted rule leaves its place and its lock as they are.
LEMMA DeleteRuleKeeps ==
  ASSUME OrderInv, NEW r \in Requests, DeleteRule(r)
  PROVE  OrderInv'
<1> DEFINE p == request[r].rule
<1>1. OrderTypeOK /\ p \in RuleIds \cup {Free} /\ request[r].pc = "delete"
  BY DEF OrderInv, OrderTypeOK, RequestState, DeleteRule
<1>2. /\ request' \in [Requests -> RequestState] /\ request'[r].pc = "done"
      /\ \A s \in Requests \ {r} : request'[s] = request[s]
  BY <1>1, DoneKeeps DEF DeleteRule
<1>3. /\ row' = IF row[p] = "live" THEN [row EXCEPT ![p] = "gone"] ELSE row
      /\ UNCHANGED <<position, lock, arranged, stale>>
  BY DEF DeleteRule
<1> HIDE DEF p
<1>4. /\ row' \in [RuleIds -> {"unborn", "live", "gone"}]
      /\ \A q \in RuleIds : (row'[q] = "live" => row[q] = "live")
                            /\ (row'[q] = "unborn" => row[q] = "unborn")
  BY <1>1, <1>3 DEF OrderTypeOK
<1>5. Live' \subseteq Live
  BY <1>4 DEF Live
<1>6. OrderTypeOK'
  BY <1>1, <1>2, <1>3, <1>4 DEF OrderTypeOK
<1>7. Known(arranged)'
  <2>1. \A i \in 1..Len(arranged) : arranged[i] \in RuleIds
    BY <1>1 DEF OrderTypeOK
  <2> QED
    BY <1>3, <1>4, <2>1 DEF OrderInv, Known
<1>8. Bounded' /\ ArrangedOrderStands'
  BY <1>3, <1>5 DEF OrderInv, Bounded, ArrangedOrderStands
<1>9. Held'
  <2> SUFFICES ASSUME NEW s \in Requests PROVE Holds(s)'
    BY DEF Held
  <2>1. CASE s = r
    BY <1>2, <2>1 DEF Holds
  <2>2. CASE s # r
    <3>1. Holds(s) /\ request'[s] = request[s]
      BY <1>2, <2>2 DEF OrderInv, Held
    <3>2. \A k \in 1..Len(request[s].order) : request[s].order[k] \in RuleIds
      <4>1. request[s].order \in Seq(RuleIds)
        BY <1>1 DEF OrderTypeOK, RequestState
      <4> QED
        BY <4>1
    <3> QED
      BY <1>3, <1>4, <3>1, <3>2 DEF Holds, Known, Distinct
  <2> QED
    BY <2>1, <2>2
<1>10. HeldForOrder'
  BY <1>1, <1>2, <1>3 DEF OrderInv, HeldForOrder
<1> QED
  BY <1>6, <1>7, <1>8, <1>9, <1>10 DEF OrderInv

\* A row is taken only if no other request holds it.
LEMMA PlaceKeeps ==
  ASSUME OrderInv, NEW r \in Requests, Place(r)
  PROVE  OrderInv'
<1> DEFINE p == Wanted(r)
           order == request[r].order
           x == [request[r] EXCEPT !.step = @ + 1]
<1> USE RequestsAssumption
<1>1. OrderTypeOK /\ request[r] \in RequestState /\ request[r].pc = "arrange"
      /\ order \in Seq(RuleIds) /\ request[r].step \in Nat /\ request[r].step <= Len(order)
  BY DEF OrderInv, OrderTypeOK, RequestState, Place, Arranging
<1>2. x \in RequestState /\ x.pc = "arrange" /\ x.order = order /\ x.step = request[r].step + 1
  BY <1>1 DEF RequestState
<1>3. request' = [request EXCEPT ![r] = x]
  BY DEF Place
<1>4. /\ row[p] = "live" => lock[p] \in {Free, r}
      /\ lock' = IF row[p] = "live" THEN [lock EXCEPT ![p] = r] ELSE lock
      /\ UNCHANGED <<row, position, arranged, stale>>
  BY DEF Place
<1>5. p = order[request[r].step]
  BY DEF Wanted
<1> HIDE DEF x, p
<1>6. /\ request' \in [Requests -> RequestState] /\ request'[r] = x
      /\ \A s \in Requests \ {r} : request'[s] = request[s]
  BY <1>1, <1>2, <1>3, PutRequest
<1>7. /\ lock' \in [RuleIds -> Requests \cup {Free}]
      /\ \A q \in RuleIds : lock'[q] # lock[q] => q = p /\ row[p] = "live" /\ lock[q] \in {Free, r}
                                                 /\ lock'[q] = r
      /\ p \in RuleIds /\ row[p] = "live" => lock'[p] = r
  BY <1>1, <1>4 DEF OrderTypeOK
<1>8. OrderTypeOK'
  BY <1>1, <1>4, <1>6, <1>7 DEF OrderTypeOK
<1>9. Known(arranged)' /\ Bounded' /\ ArrangedOrderStands'
  BY <1>4 DEF OrderInv, Known, Bounded, ArrangedOrderStands, Live
<1>10. \A s \in Requests : \A k \in 1..Len(request[s].order) : request[s].order[k] \in RuleIds
  <2> TAKE s \in Requests
  <2>1. request[s].order \in Seq(RuleIds)
    BY <1>1 DEF OrderTypeOK, RequestState
  <2> QED
    BY <2>1
<1>11. Held'
  <2> SUFFICES ASSUME NEW s \in Requests PROVE Holds(s)'
    BY DEF Held
  <2>1. Holds(s)
    BY DEF OrderInv, Held
  <2>2. CASE s # r
    <3>1. request'[s] = request[s]
      BY <1>6, <2>2
    <3>2. \A q \in RuleIds : lock[q] = s => lock'[q] = s
      BY <1>7, <2>2
    <3> QED
      BY <1>4, <1>10, <2>1, <3>1, <3>2 DEF Holds, Known, Distinct
  <2>3. CASE s = r
    <3>1. Distinct(order) /\ Known(order)
      BY <1>1, <2>1, <2>3 DEF Holds
    <3>2. ASSUME NEW k \in 1..Len(order), k < x.step, row[order[k]] = "live"
          PROVE  lock'[order[k]] = r
      <4>1. order[k] \in RuleIds
        BY <1>10
      <4>2. CASE k = request[r].step
        BY <1>5, <1>7, <3>2, <4>1, <4>2
      <4>3. CASE k # request[r].step
        <5>1. k < request[r].step
          BY <1>1, <1>2, <3>2, <4>3
        <5>2. lock[order[k]] = r
          BY <1>1, <2>1, <2>3, <3>2, <5>1 DEF Holds
        <5> QED
          BY <1>7, <4>1, <5>2
      <4> QED
        BY <4>2, <4>3
    <3>3. x.step >= 1
      BY <1>1, <1>2, <2>1, <2>3 DEF Holds
    <3> QED
      BY <1>2, <1>4, <1>6, <2>3, <3>1, <3>2, <3>3 DEF Holds, Known, Distinct
  <2> QED
    BY <2>2, <2>3
<1>12. HeldForOrder'
  <2> SUFFICES ASSUME NEW s \in Requests, NEW q \in RuleIds, lock'[q] = s
               PROVE  request'[s].pc = "arrange" /\ q \in Ids(request'[s].order)
    BY DEF HeldForOrder
  <2>1. CASE lock'[q] = lock[q]
    <3>1. request[s].pc = "arrange" /\ q \in Ids(request[s].order)
      BY <2>1 DEF OrderInv, HeldForOrder
    <3> QED
      BY <1>2, <1>6, <3>1
  <2>2. CASE lock'[q] # lock[q]
    <3>1. q = p /\ s = r
      BY <1>7, <2>2
    <3>2. p \in Ids(order)
      <4>1. request[r].step >= 1
        BY <1>1 DEF OrderInv, Held, Holds
      <4> QED
        BY <1>1, <1>5, <4>1 DEF Ids
    <3> QED
      BY <1>2, <1>6, <3>1, <3>2
  <2> QED
    BY <2>1, <2>2
<1> QED
  BY <1>8, <1>9, <1>11, <1>12 DEF OrderInv

\* The locks a request lets go of are its own.
LEMMA ReleasedKeeps ==
  ASSUME OrderInv, NEW r \in Requests, Done(r), lock' = Released(r), row' = row
  PROVE  /\ lock' \in [RuleIds -> Requests \cup {Free}] /\ Held' /\ HeldForOrder'
         /\ request' \in [Requests -> RequestState]
<1> USE RequestsAssumption
<1>1. OrderTypeOK
  BY DEF OrderInv
<1>2. /\ request' \in [Requests -> RequestState] /\ request'[r].pc = "done"
      /\ \A s \in Requests \ {r} : request'[s] = request[s]
  BY <1>1, DoneKeeps
<1>3. /\ lock' \in [RuleIds -> Requests \cup {Free}]
      /\ \A p \in RuleIds : lock'[p] # r /\ (lock[p] # r => lock'[p] = lock[p])
                            /\ lock'[p] \in {Free, lock[p]}
  BY <1>1 DEF OrderTypeOK, Released
<1>4. ASSUME NEW s \in Requests PROVE Holds(s)'
  <2>1. CASE s = r
    BY <1>2, <2>1 DEF Holds
  <2>2. CASE s # r
    <3>1. Holds(s) /\ request'[s] = request[s]
      BY <1>2, <2>2 DEF OrderInv, Held
    <3>2. \A k \in 1..Len(request[s].order) : request[s].order[k] \in RuleIds
      <4>1. request[s].order \in Seq(RuleIds)
        BY <1>1 DEF OrderTypeOK, RequestState
      <4> QED
        BY <4>1
    <3>3. \A q \in RuleIds : lock[q] = s => lock'[q] = s
      BY <1>3, <2>2
    <3> QED
      BY <3>1, <3>2, <3>3 DEF Holds, Known, Distinct
  <2> QED
    BY <2>1, <2>2
<1>5. HeldForOrder'
  <2> SUFFICES ASSUME NEW s \in Requests, NEW q \in RuleIds, lock'[q] = s
               PROVE  request'[s].pc = "arrange" /\ q \in Ids(request'[s].order)
    BY DEF HeldForOrder
  <2>1. s # r /\ lock[q] = s
    BY <1>3
  <2> QED
    BY <1>2, <2>1 DEF OrderInv, HeldForOrder
<1> QED
  BY <1>2, <1>3, <1>4, <1>5 DEF Held

\* A request that fails gives its rows back as they were.
LEMMA RollbackKeeps ==
  ASSUME OrderInv, NEW r \in Requests, Done(r), lock' = Released(r),
         UNCHANGED <<row, position, arranged, stale>>
  PROVE  OrderInv'
<1>1. lock' \in [RuleIds -> Requests \cup {Free}] /\ Held' /\ HeldForOrder'
      /\ request' \in [Requests -> RequestState]
  BY ReleasedKeeps
<1>2. OrderTypeOK'
  BY <1>1 DEF OrderInv, OrderTypeOK
<1>3. Known(arranged)' /\ Bounded' /\ ArrangedOrderStands'
  BY DEF OrderInv, Known, Bounded, ArrangedOrderStands, Live
<1> QED
  BY <1>1, <1>2, <1>3 DEF OrderInv

\* At its commit a request holds every rule of its order that is still there, so that their
\* positions are all its own.
LEMMA CommitKeeps ==
  ASSUME OrderInv, NEW r \in Requests, Commit(r)
  PROVE  OrderInv'
<1> DEFINE order == request[r].order
           place(p) == CHOOSE i \in 1..Len(order) : order[i] = p
<1>1. OrderTypeOK /\ order \in Seq(RuleIds) /\ Len(order) \in Nat
      /\ request[r].pc = "arrange" /\ request[r].step > Len(order) /\ request[r].step \in Nat
  BY DEF OrderInv, OrderTypeOK, RequestState, Commit
<1>2. /\ Distinct(order) /\ Known(order)
      /\ \A k \in 1..Len(order) : row[order[k]] = "live" => lock[order[k]] = r
  BY <1>1 DEF OrderInv, Held, Holds
<1>3. \A k \in 1..Len(order) : place(order[k]) = k /\ order[k] \in RuleIds
  BY <1>1, <1>2 DEF Distinct
<1>4. /\ position' = [p \in RuleIds |-> IF lock[p] = r THEN place(p) - 1 ELSE position[p]]
      /\ lock' = Released(r) /\ arranged' = order /\ Done(r) /\ row' = row
      /\ stale' = ~(Live \subseteq Ids(order))
  BY DEF Commit
<1>5. \A p \in RuleIds : lock[p] = r => place(p) \in 1..Len(order)
  <2> SUFFICES ASSUME NEW p \in RuleIds, lock[p] = r PROVE place(p) \in 1..Len(order)
    OBVIOUS
  <2>1. PICK k \in 1..Len(order) : p = order[k]
    BY DEF OrderInv, HeldForOrder, Ids
  <2> QED
    BY <1>3, <2>1
<1> HIDE DEF place, order
<1>6. lock' \in [RuleIds -> Requests \cup {Free}] /\ Held' /\ HeldForOrder'
      /\ request' \in [Requests -> RequestState]
  BY <1>4, ReleasedKeeps
<1>7. /\ position' \in [RuleIds -> Int]
      /\ \A p \in RuleIds : position'[p] = IF lock[p] = r THEN place(p) - 1 ELSE position[p]
  <2>1. \A p \in RuleIds : (IF lock[p] = r THEN place(p) - 1 ELSE position[p]) \in Int
    BY <1>1, <1>5 DEF OrderTypeOK
  <2> QED
    BY <1>4, <2>1
<1>8. OrderTypeOK'
  BY <1>1, <1>4, <1>6, <1>7 DEF OrderTypeOK
<1>9. Known(arranged)'
  BY <1>2, <1>4 DEF Known
<1>10. Bounded'
  <2>1. PICK n \in Nat : \A p \in Live : position[p] <= n
    BY DEF OrderInv, Bounded
  <2>2. Live' = Live /\ \A p \in Live : p \in RuleIds /\ position[p] \in Int
    BY <1>1, <1>4 DEF Live, OrderTypeOK
  <2>3. \A p \in Live : position'[p] <= n + Len(order)
    <3> TAKE p \in Live
    <3>1. CASE lock[p] = r
      BY <1>1, <1>5, <1>7, <2>2, <3>1
    <3>2. CASE lock[p] # r
      BY <1>1, <1>7, <2>1, <2>2, <3>2
    <3> QED
      BY <3>1, <3>2
  <2> QED
    BY <1>1, <2>2, <2>3 DEF Bounded
<1>11. ArrangedOrderStands'
  <2> SUFFICES ASSUME NEW i \in 1..Len(order), NEW j \in 1..Len(order), i < j,
                      {order[i], order[j]} \subseteq Live'
               PROVE  position'[order[i]] < position'[order[j]]
    BY <1>4 DEF ArrangedOrderStands
  <2>1. lock[order[i]] = r /\ lock[order[j]] = r
    BY <1>2, <1>4 DEF Live
  <2>2. position'[order[i]] = i - 1 /\ position'[order[j]] = j - 1
    BY <1>3, <1>7, <2>1
  <2> QED
    BY <2>2
<1> QED
  BY <1>6, <1>8, <1>9, <1>10, <1>11 DEF OrderInv

\* Every step keeps the invariant.
LEMMA OrderInvStep == OrderInv /\ [OrderNext]_orderVars => OrderInv'
<1> SUFFICES ASSUME OrderInv, [OrderNext]_orderVars PROVE OrderInv'
  OBVIOUS
<1>1. CASE UNCHANGED orderVars
  BY <1>1 DEF orderVars, OrderInv, OrderTypeOK, Known, Distinct, Bounded, Held, Holds,
              HeldForOrder, ArrangedOrderStands, Live
<1>2. ASSUME NEW r \in Requests, Begin(r) PROVE OrderInv'
  BY <1>2, ReadNextKeeps, GetRuleKeeps, AskDeleteKeeps, ReadExistingKeeps DEF Begin
<1>3. ASSUME NEW r \in Requests, Continue(r) PROVE OrderInv'
  BY <1>3, CreateRuleKeeps, UpdateRuleKeeps, DeleteRuleKeeps, PlaceKeeps, CommitKeeps DEF Continue
<1>4. ASSUME NEW r \in Requests, DeadlockFails(r) \/ Crash(r) PROVE OrderInv'
  BY <1>4, RollbackKeeps DEF DeadlockFails, Crash
<1> QED
  BY <1>1, <1>2, <1>3, <1>4 DEF OrderNext

\* Rules, locks and requests of RuleOrder keep their types, with any number of owners who
\* create, edit, delete and arrange at once.
THEOREM OrderTypeCorrect == OrderSpec => []OrderTypeOK
<1>1. OrderInv => OrderTypeOK
  BY DEF OrderInv
<1> QED
  BY <1>1, OrderInvInit, OrderInvStep, PTL DEF OrderSpec

\* The rules stand in the order committed last, whatever the owners' requests interleave,
\* however many they are, and wherever one of them dies or loses a deadlock; only a write that
\* rests on a stale read disturbs it, and the next complete order undoes that.
THEOREM OrderStands == OrderSpec => []ArrangedOrderStands
<1>1. OrderInv => ArrangedOrderStands
  BY DEF OrderInv
<1> QED
  BY <1>1, OrderInvInit, OrderInvStep, PTL DEF OrderSpec
=============================================================================
