-------------------------------- MODULE Analyst --------------------------------
(***************************************************************************)
(* What may be traded at all: the rules of market_context.py, which the     *)
(* command "analyze" prints, and those of WorkflowAnalyzer, which picks a   *)
(* trade. Both read the same analyses of BTC and other coins, each with     *)
(* thresholds of its own.                                                   *)
(***************************************************************************)
EXTENDS Integers, Sequences

CONSTANTS
    Changes,    \* momentum of 24 hours in percent
    Strengths   \* what RSI and position in the range add to a score

AnalystAssumption == Changes \subseteq Int /\ Strengths \subseteq Nat
ASSUME AnalystAssumption

VARIABLE advice    \* the outcome of the analysis, if there was one

AnalystInit == advice = [given |-> FALSE]

Trends == {"UPTREND", "SIDEWAYS", "DOWNTREND"}
Coins == [trend : Trends, strength : Strengths]
Bitcoin == [trend : Trends, change : Changes, signal : {"BUY", "NEUTRAL", "SELL"},
            strength : Strengths]

\* determine_macro_state, and the analyzer's own, which is on only in an uptrend.
MacroState(btc) ==
    IF btc.trend = "DOWNTREND" \/ (btc.trend = "SIDEWAYS" /\ btc.change < 0) THEN "risk_off"
    ELSE "risk_on"
AnalystMacro(btc) == IF btc.trend = "UPTREND" /\ btc.change > 0 THEN "risk_on" ELSE "risk_off"

\* assess_btc_strength, and _assess_btc with other weights.
If(condition, points) == IF condition THEN points ELSE 0
BtcStrength(btc) ==
    LET weak == If(btc.trend = "DOWNTREND", 1) + If(btc.change < 0, 1)
                + If(btc.change < -3, 1) + If(btc.signal = "SELL", 1)
        strong == If(btc.trend = "UPTREND", 1) + If(btc.change > 0, 1)
                  + If(btc.change > 3, 1) + If(btc.signal = "BUY", 1)
    IN  IF weak >= 2 THEN "weakness" ELSE IF strong >= 2 THEN "strength" ELSE "neutral"

AnalystWeakness(btc) == If(btc.trend = "DOWNTREND", 2) + If(btc.change < -2, 2)
                        + If(btc.signal = "SELL", 1)

\* One sign of weakness is enough.
OneSignIsWeak(btc) == AnalystWeakness(btc) >= 1

IsWeak(btc) == AnalystWeakness(btc) >= 2

\* get_valid_trading_answers and _get_valid_answers.
ValidAnswers(macro, strength) ==
    IF macro = "risk_on" THEN {"BTC LONG", "ETH LONG", "ALT LONG", "NO TRADE"}
    ELSE {"NO TRADE", "BTC SHORT"} \cup IF strength = "strength" THEN {"BTC LONG"} ELSE {}
AnalystAnswers(btc) ==
    IF AnalystMacro(btc) = "risk_off" \/ IsWeak(btc)
    THEN [allowed |-> {"BTC SHORT", "NO TRADE"}, forbidden |-> {"ALT LONG", "BTC LONG"}]
    ELSE [allowed |-> {"BTC LONG", "ETH LONG", "ALT LONG", "NO TRADE"}, forbidden |-> {}]

\* _find_opportunity and _calc_score: a major coin counts half as much again,
\* and of equals the first is taken.
ScoreOf(a, major) == (3 * If(a.trend # "SIDEWAYS", 1) + a.strength) * (IF major THEN 3 ELSE 2)
Opportunities(btc, eth, alt) ==
    (IF btc.signal = "BUY" /\ btc.trend = "UPTREND"
     THEN <<[trade |-> "BTC LONG", score |-> ScoreOf(btc, TRUE)]>>
     ELSE IF btc.signal = "SELL" /\ btc.trend = "DOWNTREND"
          THEN <<[trade |-> "BTC SHORT", score |-> ScoreOf(btc, TRUE)]>> ELSE <<>>)
    \o (IF AnalystMacro(btc) = "risk_on" /\ eth.trend = "UPTREND"
        THEN <<[trade |-> "ETH LONG", score |-> ScoreOf(eth, TRUE)]>> ELSE <<>>)
    \o (IF AnalystMacro(btc) = "risk_on" /\ alt.trend = "UPTREND"
        THEN <<[trade |-> "ALT LONG", score |-> ScoreOf(alt, FALSE)]>> ELSE <<>>)

\* _make_decision. An alt comes under its own name, which the list of what is
\* forbidden does not hold.
Decision(btc, eth, alt) ==
    LET found == Opportunities(btc, eth, alt)
        best == CHOOSE i \in DOMAIN found :
                    /\ \A j \in DOMAIN found : found[j].score <= found[i].score
                    /\ \A j \in 1 .. i - 1 : found[j].score < found[i].score
    IN  IF found = <<>> THEN "NO TRADE"
        ELSE IF found[best].trade \in AnalystAnswers(btc).forbidden \ {"ALT LONG"} THEN "NO TRADE"
        ELSE found[best].trade

\* classify_risk_level as analyze calls it, with nothing but the fear and greed
\* index, and _classify_risk of the analyzer by its number of triggers.
RiskLevel(triggers) ==
    IF triggers >= 2 THEN "HIGH" ELSE IF triggers = 1 THEN "MODERATE" ELSE "LOW"

Analyze(btc, eth, alt, extreme) ==
    /\ ~advice.given
    /\ advice' = [given |-> TRUE, risk |-> RiskLevel(If(extreme, 1)),
                  valid |-> ValidAnswers(MacroState(btc), BtcStrength(btc)),
                  allowed |-> AnalystAnswers(btc).allowed,
                  decision |-> Decision(btc, eth, alt)]

AnalystNext ==
    \E btc \in Bitcoin, eth, alt \in Coins, extreme \in BOOLEAN : Analyze(btc, eth, alt, extreme)

AnalystSpec == AnalystInit /\ [][AnalystNext]_advice

(***************************************************************************)
(* Properties                                                              *)
(***************************************************************************)

\* The analyzer never picks what its own rules do not allow, although it misses
\* the alts when it looks a trade up, nor what the rules of analyze do not
\* allow, although both judge the market differently.
AnalystsAgree ==
    advice.given => advice.decision \in advice.allowed \cap advice.valid
=============================================================================
