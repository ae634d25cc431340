------------------------------ MODULE TradeLedger ------------------------------
(***************************************************************************)
(* What a trading record promises, whatever decides on entries and exits:  *)
(* a trade is entered once, for a symbol that has no open one; its terms   *)
(* never change; once settled it is never touched again; and the capital   *)
(* moves exactly by what is settled.  A step may settle several trades and *)
(* then enter one.                                                         *)
(***************************************************************************)
EXTENDS Integers, Sequences, Functions

CONSTANT InitialCapital

VARIABLES
    capital,
    ledger      \* a sequence of trades [symbol, terms, status, gain]

Gains(trades) ==
    SumFunctionOnSet([k \in DOMAIN trades |-> trades[k].gain], DOMAIN trades)

LedgerInit == capital = InitialCapital /\ ledger = <<>>

\* Of the trades there were, the settled ones are final, and the open ones keep
\* their terms and are untouched while they stay open.
Settle ==
    \A k \in DOMAIN ledger :
        /\ k \in DOMAIN ledger'
        /\ ledger'[k].symbol = ledger[k].symbol /\ ledger'[k].terms = ledger[k].terms
        /\ ledger'[k].status = "OPEN" => ledger[k].status = "OPEN"
        /\ ledger'[k].status = ledger[k].status => ledger'[k] = ledger[k]

\* A trade is entered only when nothing else of its symbol is open.
Enter ==
    /\ Len(ledger') <= Len(ledger) + 1
    /\ \A k \in DOMAIN ledger' \ DOMAIN ledger :
          /\ ledger'[k].status = "OPEN" /\ ledger'[k].gain = 0
          /\ \A j \in DOMAIN ledger :
                ledger'[j].status = "OPEN" => ledger'[j].symbol # ledger'[k].symbol

LedgerNext == Settle /\ Enter /\ capital' = capital + Gains(ledger') - Gains(ledger)

LedgerSpec == LedgerInit /\ [][LedgerNext]_<<capital, ledger>>
=============================================================================
