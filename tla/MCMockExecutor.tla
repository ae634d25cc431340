---------------------------- MODULE MCMockExecutor ----------------------------
(* Two LIMIT orders, one to buy and one to sell, and one MARKET order. *)
EXTENDS MockExecutor

MCSide == <<"BUY", "SELL">>
=============================================================================
