------------------------------ MODULE ReplyOnce ------------------------------
(***************************************************************************)
(* What automated replies promise, whoever carries them out and however    *)
(* often: about each comment it is decided once whether to answer; an      *)
(* answer is posted at most once, and only while the decision to post it   *)
(* is pending; the outcome is recorded once, "replied" only of a comment   *)
(* that has its answer.  A reply whose fate is not known counts as         *)
(* skipped.  AutoReply implements it.                                      *)
(***************************************************************************)
EXTENDS Naturals

CONSTANT Comments

VARIABLES
  decision,  \* about each comment
  replies    \* the answers each comment has

Init ==
  /\ decision = [c \in Comments |-> "none"]
  /\ replies = [c \in Comments |-> 0]

Decline(c) ==
  /\ decision[c] = "none"
  /\ decision' = [decision EXCEPT ![c] = "skipped"]
  /\ UNCHANGED replies

Promise(c) ==
  /\ decision[c] = "none"
  /\ decision' = [decision EXCEPT ![c] = "would_reply"]
  /\ UNCHANGED replies

Post(c) ==
  /\ decision[c] = "would_reply" /\ replies[c] = 0
  /\ replies' = [replies EXCEPT ![c] = 1]
  /\ UNCHANGED decision

Settle(c) ==
  /\ decision[c] = "would_reply"
  /\ \E outcome \in {"replied", "skipped"} :
       /\ outcome = "replied" => replies[c] = 1
       /\ decision' = [decision EXCEPT ![c] = outcome]
  /\ UNCHANGED replies

Next == \E c \in Comments : Decline(c) \/ Promise(c) \/ Post(c) \/ Settle(c)

Spec == Init /\ [][Next]_<<decision, replies>>
=============================================================================
