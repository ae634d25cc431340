------------------------------ MODULE TradingGate ------------------------------
(***************************************************************************)
(* What the kill switch of RiskGuard promises, without its clocks, flags   *)
(* and limits: a gate that is open, cooling after an alarm, or latched     *)
(* after the survival floor.  It lets a trade through only while open,     *)
(* reopens by itself only after a whole Cooldown with no further alarm,    *)
(* and once latched reopens only on review by a person.                    *)
(***************************************************************************)
EXTENDS Naturals

CONSTANT Cooldown    \* cooldown_after_kill_switch_minutes

VARIABLES
    gate,       \* "open", "cooling" or "latched"
    wait,       \* minutes without an alarm, up to Cooldown
    decision    \* the answer to the last trade asked about

gateVars == <<gate, wait, decision>>

GateTypeOK ==
    /\ gate \in {"open", "cooling", "latched"}
    /\ wait \in 0 .. Cooldown
    /\ decision \in {"approved", "refused"}

GateInit ==
    /\ gate = "open"
    /\ wait = Cooldown
    /\ decision = "approved"

Engage == gate' = (IF gate = "latched" THEN "latched" ELSE "cooling") /\ wait' = 0

Latch == gate' = "latched" /\ wait' = 0

Lapse == gate = "cooling" /\ wait = Cooldown /\ gate' = "open" /\ wait' = wait

\* A check may refuse whatever the gate; it approves only through an open one.
Refuse ==
    /\ decision' = "refused"
    /\ Engage \/ Latch \/ Lapse \/ UNCHANGED <<gate, wait>>

Approve ==
    /\ gate = "open"
    /\ wait = Cooldown
    /\ decision' = "approved"
    /\ UNCHANGED <<gate, wait>>

Alarm == (Engage \/ Latch \/ Lapse) /\ UNCHANGED decision

Review == gate' = "open" /\ wait' = Cooldown /\ UNCHANGED decision

TimePasses == wait' \in wait .. Cooldown /\ UNCHANGED <<gate, decision>>

GateNext == Refuse \/ Approve \/ Alarm \/ Review \/ TimePasses

GateSpec == GateInit /\ [][GateNext]_gateVars
=============================================================================
