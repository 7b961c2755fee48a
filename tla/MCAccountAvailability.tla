----------------------- MODULE MCAccountAvailability -----------------------
(***************************************************************************)
(* Two routes of one account: r1 has an API key, r2 has none, so that its   *)
(* credential is the account.  Each has a model of its own.                 *)
(***************************************************************************)
EXTENDS AccountAvailability, TLC

CONSTANTS r1, r2, cred, acct, quota, m1, m2, q1, q2, q3

MCKeyOf ==
  r1 :> [credential |-> cred, account |-> acct, bucket |-> quota, model |-> m1]
  @@ r2 :> [credential |-> acct, account |-> acct, bucket |-> quota, model |-> m2]
=============================================================================
