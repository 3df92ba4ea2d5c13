---------------------------- MODULE MCIdempotency ----------------------------
(* Small instances of Idempotency for TLC: pay and repay are sent under one *)
(* key with different bodies, checkout under another with the body of pay.  *)
EXTENDS Idempotency, TLC

CONSTANTS pay, repay, checkout, k1, k2, b1, b2

MCIntents == {pay, repay, checkout}
MCKeyOf == pay :> k1 @@ repay :> k1 @@ checkout :> k2
MCBodyOf == pay :> b1 @@ repay :> b2 @@ checkout :> b1
==============================================================================
