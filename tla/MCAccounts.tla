------------------------------ MODULE MCAccounts ------------------------------
(***************************************************************************)
(* Accounts for TLC: one person who may come by email, through Clerk, with *)
(* that address as primary or none, and through Telegram.                  *)
(***************************************************************************)
EXTENDS Accounts, TLC

CONSTANTS e1, s1, g1, r1, r2

OneEmail == {e1}
OneSubject == {s1}
OneTelegram == {g1}
AnyPrimary == s1 :> {e1, None}
TwoRequests == {r1, r2}
=============================================================================
