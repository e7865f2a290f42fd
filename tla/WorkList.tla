------------------------------- MODULE WorkList -------------------------------
(***************************************************************************)
(* What moderators and administrators are shown of the tables Moderation   *)
(* keeps: the work list and its filters, the summary of a workspace        *)
(* (moderation/repository.py) and the fleet's number of pending comments   *)
(* (admin/repository.py).  All of them are queries: no state of their own. *)
(* A workspace may have other Pages than the one Moderation is about;      *)
(* whether one of them is connected is a parameter of the queries, since   *)
(* nothing else depends on it.                                             *)
(***************************************************************************)
EXTENDS Moderation

ReviewStatus == {"DEFAULT", "PENDING", "ACTIONED", "ALL"}

\* ORDER BY occurred_at DESC, id DESC LIMIT 1, of the rows others can see.
Newest(rows) == CHOOSE i \in VisibleRows(rows) : \A j \in VisibleRows(rows) : j <= i

LatestSeverity(c) == verdicts[c][Newest(verdicts[c])].severity

LatestAction(c) ==
  IF Committed(c) = {} THEN "none" ELSE actions[c][Newest(actions[c])].kind

\* surfaced_reason is 'cleared' exactly for SAFE.
Surfaced(c) == LatestSeverity(c) # "SAFE"

\* CONNECTED_PAGE_ONLY: once a workspace has connected a Page, only comments of Pages
\* that are connected are shown.
OfConnectedPage(others) == connected \/ ~others

\* fetch_work_list, by review_status.
Listed(status, others) ==
  {c \in stored :
     /\ OfConnectedPage(others)
     /\ status # "ALL" => Surfaced(c)
     /\ status = "PENDING" => LatestAction(c) = "none"
     /\ status = "ACTIONED" => LatestAction(c) # "none"}

\* summarise_workspace.
Summary(others) ==
  LET shown == {c \in stored : OfConnectedPage(others)}
  IN  [processed    |-> shown,
       need_review  |-> {c \in shown : Surfaced(c)},
       reviewed     |-> {c \in shown : LatestAction(c) # "none"},
       pending      |-> {c \in shown : Surfaced(c) /\ LatestAction(c) = "none"},
       left_visible |-> {c \in shown : LatestAction(c) = "LEAVE"},
       deleted      |-> {c \in shown : LatestAction(c) = "DELETE"}]

\* pending_comments of the fleet view: any verdict that was not cleared, no action at
\* all, whatever Page it came from.
FleetPending ==
  {c \in stored : Committed(c) = {} /\ Found(c) \ {"SAFE"} # {}}

----------------------------------------------------------------------------

Automated(c) ==
  \/ scheduled[c] # "none"
  \/ \E i \in Committed(c) : actions[c][i].actor # "human"
  \/ \E who \in {"sync", "sweep"}, kind \in Mirrored : <<c, who, kind>> \in effects

\* Two syncs have stored this comment, and the verdict that counts cleared it although
\* the other one had surfaced it.
ClearedAgain(c) ==
  /\ ~Surfaced(c)
  /\ \E i, j \in VisibleRows(verdicts[c]) : i < j /\ verdicts[c][i].severity # "SAFE"

\* What automation hid, deleted or put on a countdown never looks untouched: the work
\* list, the summary and the fleet view agree that it is not pending.  And it is never
\* out of a moderator's sight, with two exceptions that are the code's: comments of a
\* Page that is no longer connected are not shown once another Page is; and a comment that
\* overlapping syncs stored twice leaves the lists, though neither the view of all comments
\* nor the count of reviewed ones, if the verdict of the one that began last is SAFE.
AutomationInSight ==
  \A c \in stored, others \in BOOLEAN : Automated(c) =>
    /\ c \notin Listed("PENDING", others) \cup Summary(others).pending \cup FleetPending
    /\ OfConnectedPage(others) =>
         /\ c \in Listed("ALL", others) \cap Summary(others).reviewed
         /\ \/ c \in Listed("ACTIONED", others) \cap Summary(others).need_review
            \/ ClearedAgain(c)

\* repository.py: "the queue is that Page's comments".  What automation did stays on the
\* list of what has been acted on.
AutomationAlwaysListed ==
  \A c \in stored, others \in BOOLEAN : Automated(c) => c \in Listed("ACTIONED", others)
=============================================================================
