------------------------------ MODULE ThreePhase ------------------------------
(***************************************************************************)
(* The three-phase decision: no movement, shock, confirmation              *)
(* (src/execution/decision_engine.py), and the way out of the shock        *)
(* (SHOCKPhase, src/engine/realtime_pipeline.py). No code of the repository *)
(* wires the two together; the trader here is the one of the docstring of  *)
(* SHOCKPhase, asking the engine as its parameters provide: make_decision  *)
(* takes the phase from its caller, so that each trader keeps the phase it *)
(* was told and current_phase, which the traders of several symbols share  *)
(* with the engine, decides nothing. Prices are whole numbers, risk/reward *)
(* in tenths.                                                              *)
(***************************************************************************)
EXTENDS Integers

CONSTANTS
    Watched,    \* symbols being traded
    Entry,      \* the price a shock starts at
    Quotes,     \* prices of a tick
    TriggerBps, \* trigger_pct: the move that confirms
    Patience,   \* timeout_seconds, in ticks of the clock
    Setups,     \* the criteria of a trade: three checks and its risk/reward
    Leasts      \* risk/reward a trader asks for

PhaseAssumption ==
    /\ Entry \in Nat \ {0} /\ Quotes \subseteq Nat \ {0}
    /\ TriggerBps \in Nat \ {0} /\ Patience \in Nat \ {0} /\ Leasts \subseteq Nat
    /\ Setups \subseteq [structure : BOOLEAN, macro : BOOLEAN, invalidation : BOOLEAN, rr : Nat]
ASSUME PhaseAssumption

VARIABLES
    engine,  \* decision_engine: current_phase and whose trigger it holds
    shock,   \* per symbol: its SHOCKPhase and the status it last returned
    trader,  \* per symbol: the phase it was told, the criteria and the least
             \*   risk/reward it asked the gate with, its decision
    slumped  \* symbols whose price, in the shock, lost too much against the entry

phaseVars == <<engine, shock, trader, slumped>>

NoCriteria == [structure |-> FALSE, macro |-> FALSE, invalidation |-> FALSE, rr |-> 0]

PhaseInit ==
    /\ engine = [phase |-> "NO_MOVEMENT", trigger |-> "none"]
    /\ shock = [s \in Watched |->
                  [status |-> "none", long |-> TRUE, high |-> Entry, low |-> Entry, age |-> 0]]
    /\ trader = [s \in Watched |->
                  [phase |-> "NO_MOVEMENT", gate |-> "unasked", criteria |-> NoCriteria, least |-> 0,
                   decision |-> "none", avoidance |-> FALSE]]
    /\ slumped = {}

(***************************************************************************)
(* SHOCKPhase                                                              *)
(***************************************************************************)

\* _move_pct >= trigger_pct
Moved(k, p) == 10000 * (IF k.long THEN p - Entry ELSE Entry - p) >= TriggerBps * Entry

\* The move back, from the best price seen, beyond one and a half triggers.
Adverse(k, p) ==
    IF k.long THEN 20000 * (k.high - p) > 3 * TriggerBps * k.high
    ELSE 20000 * (p - k.low) > 3 * TriggerBps * k.low

\* The same against the price of entry.
Lost(k, p) == 20000 * (IF k.long THEN Entry - p ELSE p - Entry) > 3 * TriggerBps * Entry

\* Candlesticks looked at before the move back.
ReversalFirst(k, p, reversal) ==
    CASE k.age >= Patience -> "NO_TRADE"
      [] k.age < Patience /\ (Moved(k, p) \/ reversal) -> "CONFIRM"
      [] k.age < Patience /\ ~Moved(k, p) /\ ~reversal /\ Adverse(k, p) -> "NO_TRADE"
      [] OTHER -> "SHOCK"

\* update, once the extremes are up to date.
ShockVerdict(k, p, reversal) ==
    CASE k.age >= Patience -> "NO_TRADE"
      [] k.age < Patience /\ Moved(k, p) -> "CONFIRM"
      [] k.age < Patience /\ ~Moved(k, p) /\ Adverse(k, p) -> "NO_TRADE"
      [] k.age < Patience /\ ~Moved(k, p) /\ ~Adverse(k, p) /\ reversal -> "CONFIRM"
      [] OTHER -> "SHOCK"

(***************************************************************************)
(* DecisionEngine                                                          *)
(***************************************************************************)

UpdatePhase(triggered, moved) ==
    IF ~triggered THEN "NO_MOVEMENT" ELSE IF moved THEN "CONFIRMATION" ELSE "SHOCK"

\* check_execution_gate: the first of the four checks that fails.
FailedCheck(c, least) ==
    CASE ~c.structure -> "structure_break"
      [] c.structure /\ ~c.macro -> "macro_aligned"
      [] c.structure /\ c.macro /\ ~c.invalidation -> "invalidation_clear"
      [] c.structure /\ c.macro /\ c.invalidation /\ c.rr < least -> "rr_adequate"
      [] OTHER -> "none"

MakeDecision(phase, passed) ==
    CASE phase = "NO_MOVEMENT" -> "NO TRADE"
      [] phase = "SHOCK" -> "WAIT"
      [] phase = "CONFIRMATION" -> IF passed THEN "EXECUTE TRADE" ELSE "SKIP"

\* check_anti_avoidance: staying out although all criteria are met, with a
\* least risk/reward of its own.
IsAvoidance(decision, c) == decision \in {"SKIP", "NO TRADE"} /\ FailedCheck(c, 15) = "none"

(***************************************************************************)
(* The traders                                                             *)
(***************************************************************************)

\* A trigger: the engine goes to SHOCK for everyone, its trigger is this one's,
\* and the shock of this symbol begins.
Begin(s, long) ==
    /\ shock[s].status = "none"
    /\ engine' = [phase |-> UpdatePhase(TRUE, FALSE), trigger |-> s]
    /\ shock' = [shock EXCEPT ![s].status = "SHOCK", ![s].long = long]
    /\ trader' = [trader EXCEPT ![s].phase = UpdatePhase(TRUE, FALSE)]
    /\ UNCHANGED slumped

ClockTicks(s) ==
    /\ shock[s].status = "SHOCK" /\ shock[s].age < Patience
    /\ shock' = [shock EXCEPT ![s].age = @ + 1]
    /\ UNCHANGED <<engine, trader, slumped>>

\* A tick; when it ends the shock the trader tells the engine and keeps the
\* phase it returns.
UpdateShock(s, p, reversal) ==
    LET k == [shock[s] EXCEPT !.high = IF p > @ THEN p ELSE @, !.low = IF p < @ THEN p ELSE @]
        status == ShockVerdict(k, p, reversal)
        phase == UpdatePhase(status = "CONFIRM", status = "CONFIRM")
    IN /\ shock[s].status = "SHOCK"
       /\ shock' = [shock EXCEPT ![s] = [k EXCEPT !.status = status]]
       /\ slumped' = IF Lost(k, p) THEN slumped \cup {s} ELSE slumped
       /\ IF status = "SHOCK" THEN UNCHANGED <<engine, trader>>
          ELSE /\ engine' = [engine EXCEPT !.phase = phase]
               /\ trader' = [trader EXCEPT ![s].phase = phase]

\* check_execution_gate, once, at any time from the trigger on.
CheckExecutionGate(s, c, least) ==
    /\ shock[s].status # "none" /\ trader[s].gate = "unasked"
    /\ trader' = [trader EXCEPT ![s].gate = FailedCheck(c, least),
                                ![s].criteria = c, ![s].least = least]
    /\ UNCHANGED <<engine, shock, slumped>>

\* make_decision in the phase the trader was told, and the check of its excuse. Without an answer of the gate, the
\* gate counts as not passed.
Decide(s) ==
    LET decision == MakeDecision(trader[s].phase, trader[s].gate = "none") IN
    /\ shock[s].status \in {"SHOCK", "NO_TRADE"} \/ trader[s].gate # "unasked"
    /\ trader[s].decision \in {"none", "WAIT"}
    /\ trader' = [trader EXCEPT ![s].decision = decision,
                                ![s].avoidance = IsAvoidance(decision, trader[s].criteria)]
    /\ UNCHANGED <<engine, shock, slumped>>

PhaseNext ==
    \E s \in Watched :
        \/ \E long \in BOOLEAN : Begin(s, long)
        \/ ClockTicks(s)
        \/ \E p \in Quotes, reversal \in BOOLEAN : UpdateShock(s, p, reversal)
        \/ \E c \in Setups, least \in Leasts : CheckExecutionGate(s, c, least)
        \/ Decide(s)

PhaseSpec == PhaseInit /\ [][PhaseNext]_phaseVars

(***************************************************************************)
(* Properties                                                              *)
(***************************************************************************)

\* A trade is executed only on a shock of its own symbol that was confirmed, in
\* which the price never lost more than one and a half triggers against the entry,
\* in whatever order ticks, candlesticks, the clock and the gate's answer came; and
\* only with all four checks passed, the risk/reward against the least the trader
\* asked for (realtime_pipeline.py 585-641, decision_engine.py 28-129).
EntriesKeepFaith ==
    \A s \in Watched :
        trader[s].decision = "EXECUTE TRADE" =>
            /\ shock[s].status = "CONFIRM"
            /\ s \notin slumped
            /\ FailedCheck(trader[s].criteria, trader[s].least) = "none"
=============================================================================
