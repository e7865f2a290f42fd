----------------------------- MODULE CommentLife -----------------------------
(***************************************************************************)
(* What the moderation core promises about one comment, whoever carries it *)
(* out, however often, and wherever somebody dies on the way: every        *)
(* decision others have seen stays and stays as it is; automation decides  *)
(* only what a verdict allows and calls Facebook only for what it has      *)
(* decided; what is said to have reached Facebook has; and a countdown is  *)
(* started by a decision and ended by a deletion that is on record, by a   *)
(* person who decides, unless that person had looked at the comment before *)
(* it was started, or for want of a Page.                                  *)
(* Moderation implements it for each of its comments.                      *)
(***************************************************************************)
EXTENDS Naturals

CONSTANT AutoRemovalEnabled

VARIABLES
  found,      \* the severities its verdicts gave
  history,    \* the decisions others can see, each at its place
  applied,    \* the places of those that have reached Facebook
  countdown,  \* to its deletion: "none", "waiting" or "due"
  deciding,   \* the places of decisions under way whose people have looked for a countdown
  unaware,    \* the places of those who had looked or decided when it was last started
  calls,      \* what Facebook was asked to do to it, and has done or says so
  gone,       \* it is no more on Facebook
  page,       \* its Page is connected
  dropping    \* somebody who came to delete it found no Page

life == <<found, history, applied, countdown, deciding, unaware, calls, gone, page, dropping>>
people == <<deciding, unaware>>

Kind   == {"HIDE", "UNHIDE", "DELETE", "LEAVE"}
Caller == {"human", "sync", "sweep"}

Decided(kind, actor) == \E d \in history : d.kind = kind /\ d.actor = actor

ToBeRemoved == Decided("HIDE", "auto-removal")

\* One decision becomes visible, not always as the last one: its place is that of the
\* beginning of the transaction that brings it.
Appears(d) == d \in history' /\ history' = history \cup {d} /\ \A e \in history : e.at # d.at

Taken(d, kind, actor) == Appears(d) /\ d.kind = kind /\ d.actor = actor

Answered(who, kind) == <<who, kind>> \in calls

Init ==
  /\ found = {} /\ history = {} /\ applied = {} /\ countdown = "none" /\ calls = {}
  /\ deciding = {} /\ unaware = {} /\ ~gone /\ page /\ ~dropping

\* A verdict, and what automation decides on it.  A countdown that is started is not
\* known to those who have looked for one or have decided.
Judge(severity) ==
  /\ found' = found \cup {severity}
  /\ \/ UNCHANGED <<history, countdown, unaware>>
     \/ /\ severity = "OFFENSIVE"
        /\ \E d \in history' : Taken(d, "HIDE", "auto-hide")
        /\ UNCHANGED <<countdown, unaware>>
     \/ /\ severity = "HARMFUL" /\ AutoRemovalEnabled
        /\ \E d \in history' : Taken(d, "DELETE", "auto-removal")
        /\ UNCHANGED <<countdown, unaware>>
     \/ /\ severity = "HARMFUL" /\ AutoRemovalEnabled
        /\ \E d \in history' : Taken(d, "HIDE", "auto-removal")
        /\ countdown = "none" /\ countdown' = "waiting"
        /\ unaware' = deciding \cup {d.at : d \in {e \in history : e.actor = "human"}}
  /\ UNCHANGED <<applied, deciding, calls, gone, page, dropping>>

\* A person who is about to decide looks for a countdown, and sees one that stands.
Look ==
  /\ \E at \in deciding' \ unaware :
       deciding' = deciding \cup {at} /\ \A d \in history : d.at # at
  /\ UNCHANGED <<found, history, applied, countdown, unaware, calls, gone, page, dropping>>

LeavesOff == \E at \in deciding : deciding' = deciding \ {at}

GiveUp ==
  /\ LeavesOff
  /\ UNCHANGED <<found, history, applied, countdown, unaware, calls, gone, page, dropping>>

\* A person decides: the countdown is over, unless it was started behind their back.
Decide ==
  /\ \E d \in history' :
       /\ Appears(d) /\ d.kind \in Kind /\ d.actor = "human"
       /\ d.at \in deciding /\ deciding' = deciding \ {d.at}
       /\ \/ UNCHANGED applied
          \/ Answered("human", d.kind) /\ applied' = applied \cup {d.at}
       /\ countdown' = "none" \/ (d.at \in unaware /\ UNCHANGED countdown)
  /\ UNCHANGED <<found, unaware, calls, gone, page, dropping>>

RunOut ==
  /\ countdown = "waiting" /\ countdown' = "due"
  /\ UNCHANGED <<found, history, applied, people, calls, gone, page, dropping>>

\* Facebook is asked to do what was decided.  It does so, while there is something to do
\* it to, or says so of a deletion; a person whose call fails gives up.
Call(who, kind) ==
  /\ who = "sync" => \/ kind = "DELETE" /\ Decided("DELETE", "auto-removal")
                     \/ kind = "HIDE" /\ (ToBeRemoved \/ Decided("HIDE", "auto-hide"))
  /\ who = "sweep" => kind = "DELETE" /\ ToBeRemoved
  /\ calls' = calls \cup {<<who, kind>>}
  /\ \/ ~gone /\ gone' = (kind = "DELETE")
     \/ kind = "DELETE" /\ UNCHANGED gone
  /\ UNCHANGED deciding \/ (who = "human" /\ LeavesOff)
  /\ UNCHANGED <<found, history, applied, countdown, unaware, page, dropping>>

\* A sync has done what was decided: the last decision of that kind is said to be applied.
Confirm ==
  /\ \E d \in history :
       /\ Answered("sync", d.kind)
       /\ \A e \in history : e.kind = d.kind => e.at <= d.at
       /\ applied' = applied \cup {d.at}
  /\ UNCHANGED <<found, history, countdown, people, calls, gone, page, dropping>>

\* The deletion at the end of the countdown is recorded, once it is done; it is the last
\* decision at that moment.
Record ==
  /\ Answered("sweep", "DELETE")
  /\ \E d \in history' :
       /\ Taken(d, "DELETE", "auto-removal") /\ applied' = applied \cup {d.at}
       /\ \A e \in history : e.at < d.at
  /\ UNCHANGED <<found, countdown, people, calls, gone, page, dropping>>

Lapse ==
  /\ Decided("DELETE", "auto-removal") \/ dropping
  /\ countdown' = "none"
  /\ dropping' => dropping
  /\ UNCHANGED <<found, history, applied, people, calls, gone, page>>

\* Somebody finds no Page, or stops.
Drop ==
  /\ dropping' => dropping \/ (~page /\ ToBeRemoved)
  /\ dropping' \in BOOLEAN
  /\ UNCHANGED <<found, history, applied, countdown, people, calls, gone, page>>

PageChanges ==
  /\ page' = ~page
  /\ UNCHANGED <<found, history, applied, countdown, people, calls, gone, dropping>>

AuthorRemoves ==
  /\ gone' = TRUE
  /\ UNCHANGED <<found, history, applied, countdown, people, calls, page, dropping>>

Next ==
  \/ \E severity \in {"HARMFUL", "OFFENSIVE", "SAFE"} : Judge(severity)
  \/ Look \/ GiveUp \/ Decide \/ RunOut \/ Confirm \/ Record \/ Lapse \/ Drop
  \/ PageChanges \/ AuthorRemoves
  \/ \E who \in Caller, kind \in Kind \ {"LEAVE"} : Call(who, kind)

Spec == Init /\ [][Next]_life
=============================================================================
