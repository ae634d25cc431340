----------------------------- MODULE MCLiveOrders -----------------------------
(* Two orders, each filled in two parts, two attempts to place, two threads. *)
EXTENDS LiveOrders

CONSTANTS buy, sell, r1, r2

MCIntents == {buy, sell}
MCThreads == {r1, r2}
=============================================================================
