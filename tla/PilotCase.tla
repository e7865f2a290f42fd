------------------------------ MODULE PilotCase ------------------------------
(***************************************************************************)
(* What onboarding promises about one pilot request, whoever works on it   *)
(* and whatever overlaps: it is decided once, or replaced by a later one   *)
(* of the same person and never decided; an approval gives one workspace,  *)
(* whose link is handed out by nobody but who carries the decision out and *)
(* is used once; and who carries it out leaves nothing of it undone unless *)
(* they die on the way.  Onboarding implements it for every application.   *)
(***************************************************************************)
CONSTANTS Emails, None

VARIABLES
  state, email,   \* of the pilot request
  grant, owner,   \* what an approval gave, and to whom it came
  audited,        \* the decision is in the administrators' trail
  reached,        \* the link has left the server
  delivery,       \* the mail the administrators' queue shows
  carrying,       \* somebody carries the decision out
  receiving,      \* somebody has yet to record the receipt
  late,           \* the decision came before the record of the receipt
  died            \* somebody, somewhere, has died

case == <<state, email, grant, owner, audited, reached, delivery, carrying, receiving, late, died>>

HasLink == grant \notin {"none", "existing"}

Init ==
  /\ state = "none" /\ email = None /\ grant = "none" /\ owner = None
  /\ ~audited /\ ~reached /\ delivery = <<"none", FALSE>>
  /\ ~carrying /\ ~receiving /\ ~late /\ ~died

Submit ==
  /\ state = "none" /\ state' = "PENDING"
  /\ email' \in Emails
  /\ receiving' = TRUE
  /\ UNCHANGED <<grant, owner, audited, reached, delivery, carrying, late, died>>

Replace ==
  /\ state = "PENDING" /\ state' = "REPLACED"
  /\ UNCHANGED <<email, grant, owner, audited, reached, delivery, carrying, receiving, late, died>>

Receipt ==
  /\ receiving /\ receiving' = FALSE
  /\ \E sent \in BOOLEAN : delivery' = <<"RECEIVED", sent>>
  /\ UNCHANGED <<state, email, grant, owner, audited, reached, carrying, late, died>>

Decide ==
  /\ state = "PENDING"
  /\ \/ state' = "DECLINED" /\ grant' = "none"
     \/ state' = "APPROVED" /\ grant' \in {"existing", "open"}
  /\ ~carrying /\ carrying' = TRUE
  /\ late' = receiving
  /\ UNCHANGED <<email, owner, audited, reached, delivery, receiving, died>>

Audit ==
  /\ carrying /\ audited' = TRUE
  /\ UNCHANGED <<state, email, grant, owner, reached, delivery, carrying, receiving, late, died>>

HandOut ==
  /\ carrying /\ audited /\ HasLink /\ reached' = TRUE
  /\ UNCHANGED <<state, email, grant, owner, audited, delivery, carrying, receiving, late, died>>

Notify ==
  /\ carrying /\ audited
  /\ \E sent \in BOOLEAN : delivery' = <<"DECIDED", sent>>
  /\ UNCHANGED <<state, email, grant, owner, audited, reached, carrying, receiving, late, died>>

\* Nothing is left to be done.
Finish ==
  /\ carrying /\ carrying' = FALSE
  /\ audited /\ (delivery[1] = "DECIDED" \/ late)
  /\ reached' = (reached \/ HasLink)
  /\ UNCHANGED <<state, email, grant, owner, audited, delivery, receiving, late, died>>

Expire ==
  /\ grant = "open" /\ grant' = "expired"
  /\ UNCHANGED <<state, email, owner, audited, reached, delivery, carrying, receiving, late, died>>

\* Who has taken the link before it expired may come in afterwards.
Own ==
  /\ reached /\ grant \in {"open", "expired"} /\ grant' = "spent"
  /\ owner = None /\ owner' \in Emails
  /\ UNCHANGED <<state, email, audited, reached, delivery, carrying, receiving, late, died>>

Die ==
  /\ died' = TRUE
  /\ carrying' \in {carrying, FALSE} /\ receiving' \in {receiving, FALSE}
  /\ UNCHANGED <<state, email, grant, owner, audited, reached, delivery, late>>

Next ==
  \/ Submit \/ Replace \/ Receipt \/ Decide \/ Audit \/ HandOut \/ Notify \/ Finish
  \/ Expire \/ Own \/ Die

Spec == Init /\ [][Next]_case
=============================================================================
