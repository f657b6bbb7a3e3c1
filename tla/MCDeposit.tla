------------------------------ MODULE MCDeposit ------------------------------
(***************************************************************************)
(* Three calls over two keys: single deposits, batches in both orders, a   *)
(* batch that repeats a key and one with an illegible document.            *)
(***************************************************************************)
EXTENDS Deposit, TLC

CONSTANTS k1, k2, r1, r2, r3

MCBatches == {<<k1>>, <<k1, k2>>, <<k2, k1>>, <<k1, k1>>, <<Illegible, k2>>}
=============================================================================
