------------------------------- MODULE RiskGuard -------------------------------
(***************************************************************************)
(* The pre-trade risk guard of src/execution/risk_limits.py: the kill      *)
(* switch with its cooldown and its permanent latch, the equity            *)
(* high-water marks, the trading session with its hard stop, the exposure  *)
(* book, and check_all, the gate every proposed trade must pass.           *)
(*                                                                         *)
(* Money is in units of 100 USD.  The wall clock is abstracted to what the *)
(* code compares: whole minutes since the kill switch was last engaged     *)
(* (saturating at the cooldown) and whether more than 86400 seconds have   *)
(* passed since the daily peak was last reset.  The session loss and the   *)
(* drawdown are computed, as when check_all is called without overriding   *)
(* them, which is how every caller calls it.                               *)
(***************************************************************************)
EXTENDS Integers, Functions

CONSTANTS
    Symbols,          \* traded pairs
    BetaSymbols,      \* those in CRYPTO_BETA_SYMBOLS; the others are alts
    Equities,         \* the equity values an update may report
    InitialCapital,   \* initial_capital
    MinimumEquity,    \* absolute_equity_floor.minimum_equity
    HaltPct,          \* -global_drawdown.halt_threshold_pct, in percent
    HardStopPct,      \* -session_loss_limits.hard_stop_pct
    FlattenPct,       \* -black_swan.daily_drawdown_auto_flatten_pct
    Cooldown,         \* cooldown_after_kill_switch_minutes
    MaxNotional,      \* fat_finger_protection.max_notional
    TotalCapPct,      \* [training_mode -> cap on total notional, in percent]
    BetaCapPct,       \* correlated_exposure.crypto_beta_pct
    AltCapPct,        \* correlated_exposure.alt_beta_pct
    MaxLeverage,      \* [risk environment -> leverage_circuit_breakers limit]
    MinDistance,      \* [coin type -> margin_call_buffers minimum, in 0.1 %]
    MinNotional,      \* minimum_notional.binance_min_notional_usdt
    Proposals,        \* the trades a caller may propose to check_all
    FillNotionals,    \* notional sizes of fills
    MaxStops,         \* bound: the session-stop counter saturates at it
    MaxOpen           \* bound: long and short notionals are explored up to it

ASSUME RiskGuardAssumption ==
    /\ BetaSymbols \subseteq Symbols
    /\ Equities \subseteq Nat \ {0}
    /\ InitialCapital \in Equities
    /\ MinimumEquity \in Nat
    /\ HaltPct \in Nat \ {0}
    /\ HardStopPct \in Nat \ {0}
    /\ FlattenPct \in Nat \ {0}
    /\ Cooldown \in Nat \ {0}
    /\ FillNotionals \subseteq Nat
    /\ MaxStops \in Nat
    /\ MaxOpen \in Nat

VARIABLES
    equity,       \* equity
    peakEquity,   \* _peak_equity, the high-water mark
    dailyPeak,    \* _daily_peak_equity
    dayOver,      \* more than 86400 s since _daily_reset_time
    session,      \* _session: is one open, its start and current equity
    stops,        \* _consecutive_session_stops
    killActive,   \* _kill_switch_active
    killAge,      \* minutes since _kill_switch_time, NoTime when that is None
    permanent,    \* _permanent_kill
    exposure,     \* _open_exposure: long and short notional per symbol
    verdict,      \* "approved", or "refused" when check_all last raised
    quiet         \* observer: minutes since a check last engaged the switch

marks == <<equity, peakEquity, dailyPeak, dayOver, session>>
switch == <<stops, killActive, killAge, permanent, quiet>>
vars == <<marks, switch, exposure, verdict>>

NoTime == -1
Limits == {"kill_switch", "global_drawdown", "fat_finger_notional",
           "correlated_exposure", "leverage_circuit", "session_loss",
           "liquidation_buffer", "absolute_equity_floor", "minimum_notional"}

Larger(a, b) == IF a >= b THEN a ELSE b

\* (now - base) / base <= -pct / 100, the form of every drawdown test.
FellBy(now, base, pct) == base > 0 /\ 100 * (now - base) <= -(pct * base)

NetExposure(S) ==
    SumFunctionOnSet([s \in Symbols |-> exposure[s].long - exposure[s].short], S)

-----------------------------------------------------------------------------
(* Construction, sessions and equity.                                      *)

Init ==
    /\ equity = InitialCapital
    /\ peakEquity = InitialCapital
    /\ dailyPeak = InitialCapital
    /\ dayOver = FALSE
    /\ session = [open |-> FALSE, start |-> InitialCapital,
                  current |-> InitialCapital]
    /\ stops = 0
    /\ killActive = FALSE
    /\ killAge = NoTime
    /\ permanent = FALSE
    /\ exposure = [s \in Symbols |-> [long |-> 0, short |-> 0]]
    /\ verdict = "approved"
    /\ quiet = Cooldown

StartSession ==
    /\ session' = [open |-> TRUE, start |-> equity, current |-> equity]
    /\ stops' = 0
    /\ UNCHANGED <<equity, peakEquity, dailyPeak, dayOver, killActive, killAge,
                   permanent, quiet, exposure, verdict>>

UpdateEquity(e) ==
    /\ equity' = e
    /\ peakEquity' = Larger(peakEquity, e)
    /\ dailyPeak' = Larger(e, IF dayOver THEN InitialCapital ELSE dailyPeak)
    /\ dayOver' = FALSE
    /\ session' = IF session.open THEN [session EXCEPT !.current = e]
                                  ELSE session
    /\ UNCHANGED <<switch, exposure, verdict>>

\* get_instance on an existing instance overwrites equity, and initial_capital
\* for a caller who names one: that is left out, InitialCapital is a constant.
GetInstance(e) ==
    /\ equity' = e
    /\ UNCHANGED <<peakEquity, dailyPeak, dayOver, session, switch, exposure,
                   verdict>>

ResetDaily ==
    /\ dailyPeak' = Larger(equity, InitialCapital)
    /\ dayOver' = FALSE
    /\ UNCHANGED <<equity, peakEquity, session, switch, exposure, verdict>>

-----------------------------------------------------------------------------
(* The exposure book.  A symbol without an entry reads as zero.            *)

AddNotional(s, bucket, n) ==
    /\ exposure[s][bucket] + n <= MaxOpen
    /\ exposure' = [exposure EXCEPT ![s][bucket] = @ + n]
    /\ UNCHANGED <<marks, switch, verdict>>

RecordTrade(s, direction, n) == AddNotional(s, direction, n)

UpdatePositionFromFill(s, side, n) ==
    AddNotional(s, IF side = "BUY" THEN "long" ELSE "short", n)

ClosePosition(s, direction, n) ==
    /\ exposure' = [exposure EXCEPT ![s][direction] = Larger(0, @ - n)]
    /\ UNCHANGED <<marks, switch, verdict>>

\* flatten_all_positions empties the book whatever became of its orders.
FlattenAllPositions ==
    /\ exposure' = [s \in Symbols |-> [long |-> 0, short |-> 0]]
    /\ UNCHANGED <<marks, switch, verdict>>

-----------------------------------------------------------------------------
(* The kill switch.                                                        *)

SessionHit == session.open /\ FellBy(session.current, session.start, HardStopPct)
FloorHit(e) == e < MinimumEquity
BlackSwanHit == FellBy(equity, dailyPeak, FlattenPct)

\* check_kill_switch: an elapsed cooldown clears the switch and its time but
\* this very check still refuses; the permanent latch is never cleared here.
CooldownElapsed == killActive /\ killAge # NoTime /\ killAge >= Cooldown
LatchForgotten == killActive

Halted == killActive \/ permanent

\* A slip: an elapsed cooldown also lifts the permanent latch.
CooldownUnlatches(consulted, sessionStop, floor, other) ==
    LET engaged == sessionStop \/ floor \/ other
        released == consulted /\ CooldownElapsed
    IN  /\ killActive' = (engaged \/ (killActive /\ ~released))
        /\ killAge' = IF engaged THEN 0 ELSE IF released THEN NoTime ELSE killAge
        /\ permanent' = (floor \/ (permanent /\ ~released))
        /\ stops' = IF sessionStop /\ stops < MaxStops THEN stops + 1 ELSE stops
        /\ quiet' = IF engaged THEN 0 ELSE quiet

\* The switch after check_kill_switch (when consulted), then after the checks
\* that engage it: sessionStop and floor say which of those found a breach.
\* check_session_loss engages the switch itself, so what _increment_session_stops
\* does on reaching its threshold (engage it too) has the same effect.
SwitchAfter(consulted, sessionStop, floor, other) ==
    LET engaged == sessionStop \/ floor \/ other
        released == consulted /\ CooldownElapsed
    IN  /\ killActive' = (engaged \/ (killActive /\ ~released))
        /\ killAge' = IF engaged THEN 0 ELSE IF released THEN NoTime ELSE killAge
        /\ permanent' = (permanent \/ floor)
        /\ stops' = IF sessionStop /\ stops < MaxStops THEN stops + 1 ELSE stops
        /\ quiet' = IF engaged THEN 0 ELSE quiet

CheckKillSwitch ==
    /\ SwitchAfter(TRUE, FALSE, FALSE, FALSE)
    /\ UNCHANGED <<marks, exposure, verdict>>

CheckSessionLoss ==
    /\ SwitchAfter(FALSE, SessionHit, FALSE, FALSE)
    /\ UNCHANGED <<marks, exposure, verdict>>

CheckAbsoluteEquity(e) ==
    /\ SwitchAfter(FALSE, FALSE, FloorHit(e), FALSE)
    /\ UNCHANGED <<marks, exposure, verdict>>

CheckBlackSwan ==
    /\ SwitchAfter(FALSE, FALSE, FALSE, BlackSwanHit)
    /\ UNCHANGED <<marks, exposure, verdict>>

ResetKillSwitch ==
    /\ killActive' = FALSE
    /\ permanent' = FALSE
    /\ stops' = 0
    /\ quiet' = Cooldown
    /\ UNCHANGED <<marks, killAge, exposure, verdict>>

-----------------------------------------------------------------------------
(* check_all.                                                              *)

NotionalOK(p) ==
    /\ p.notional <= MaxNotional
    /\ 100 * (NetExposure(Symbols) + p.notional)
           <= equity * TotalCapPct[p.training]

\* The proposal counts toward the class of its own symbol only.
CorrelatedOK(p) ==
    LET within(S, cap) ==
            100 * (NetExposure(S) + IF p.symbol \in S THEN p.notional ELSE 0)
                <= equity * cap
    IN  within(BetaSymbols, BetaCapPct) /\ within(Symbols \ BetaSymbols, AltCapPct)

LeverageOK(p) == p.leverage <= MaxLeverage[p.environment]

LiquidationOK(p) == p.distance >= MinDistance[p.coin]

MinimumOK(p) == p.notional >= MinNotional

\* The limits proposal p breaches when the absolute floor is tested against e.
Breaches(p, e) ==
    {l \in Limits :
        \/ l = "kill_switch" /\ Halted
        \/ l = "global_drawdown" /\ FellBy(equity, peakEquity, HaltPct)
        \/ l = "fat_finger_notional" /\ ~NotionalOK(p)
        \/ l = "correlated_exposure" /\ ~CorrelatedOK(p)
        \/ l = "leverage_circuit" /\ ~LeverageOK(p)
        \/ l = "session_loss" /\ SessionHit
        \/ l = "liquidation_buffer" /\ ~LiquidationOK(p)
        \/ l = "absolute_equity_floor" /\ FloorHit(e)
        \/ l = "minimum_notional" /\ ~MinimumOK(p)}

\* Every check runs, with its side effects, while the list of results is
\* built; only then does the first failure raise RiskLimitExceeded.
CheckAll(p, e) ==
    /\ verdict' = IF Breaches(p, e) = {} THEN "approved" ELSE "refused"
    /\ SwitchAfter(TRUE, SessionHit, FloorHit(e), FALSE)
    /\ UNCHANGED <<marks, exposure>>

-----------------------------------------------------------------------------
(* Time.                                                                   *)

MinutePasses ==
    /\ killAge' = IF killAge \in 0 .. Cooldown - 1 THEN killAge + 1 ELSE killAge
    /\ quiet' = IF quiet < Cooldown THEN quiet + 1 ELSE quiet
    /\ UNCHANGED <<marks, stops, killActive, permanent, exposure, verdict>>

\* A day is longer than the cooldown.
DayPasses ==
    /\ dayOver' = TRUE
    /\ killAge' = IF killAge = NoTime THEN NoTime ELSE Cooldown
    /\ quiet' = Cooldown
    /\ UNCHANGED <<equity, peakEquity, dailyPeak, session, stops, killActive,
                   permanent, exposure, verdict>>

-----------------------------------------------------------------------------

EquityStep ==
    \/ StartSession
    \/ \E e \in Equities : UpdateEquity(e) \/ GetInstance(e)
    \/ ResetDaily

BookStep ==
    \/ \E s \in Symbols, n \in FillNotionals :
          \/ \E d \in {"long", "short"} : RecordTrade(s, d, n) \/ ClosePosition(s, d, n)
          \/ \E side \in {"BUY", "SELL"} : UpdatePositionFromFill(s, side, n)
    \/ FlattenAllPositions

GuardStep ==
    \/ CheckKillSwitch
    \/ CheckSessionLoss
    \/ \E e \in Equities : CheckAbsoluteEquity(e)
    \/ CheckBlackSwan
    \/ ResetKillSwitch
    \/ \E p \in Proposals, e \in Equities : CheckAll(p, e)

ClockStep == MinutePasses \/ DayPasses

Next == EquityStep \/ BookStep \/ GuardStep \/ ClockStep

Spec == Init /\ [][Next]_vars

-----------------------------------------------------------------------------
(* Properties.                                                             *)

\* Every variable keeps its type; notionals never go below zero.
TypeOK ==
    /\ equity \in Equities /\ peakEquity \in Equities /\ dailyPeak \in Equities
    /\ dayOver \in BOOLEAN
    /\ session \in [open : BOOLEAN, start : Equities, current : Equities]
    /\ stops \in 0 .. MaxStops
    /\ killActive \in BOOLEAN /\ permanent \in BOOLEAN
    /\ killAge \in {NoTime} \union (0 .. Cooldown)
    /\ quiet \in 0 .. Cooldown
    /\ exposure \in [Symbols -> [long : 0 .. MaxOpen, short : 0 .. MaxOpen]]
    /\ verdict \in {"approved", "refused"}

\* The stored kill-switch time is that of the LAST alarm, however many checks
\* re-engaged the switch in the meantime, and the flag is down only when no
\* alarm rang within the cooldown or a person reset it.
CoolingHolds == IF killActive THEN killAge = quiet ELSE quiet = Cooldown

\* No trade, whatever it asks for, can pass check_all within a cooldown of an
\* alarm, nor at any time after the survival floor was hit, until a person
\* calls reset_kill_switch.
NoApprovalWhileShut ==
    quiet < Cooldown \/ permanent =>
        \A p \in Proposals, e \in Equities : Breaches(p, e) # {}

\* The guard implements the trading gate: flags, latch and timestamp together
\* behave as open, cooling or latched, through every order of the checks.
Gate == INSTANCE TradingGate WITH
    gate <- IF permanent THEN "latched" ELSE IF killActive THEN "cooling" ELSE "open",
    wait <- quiet,
    decision <- verdict

GateImplemented == Gate!GateSpec
=============================================================================
