--------------------------- MODULE Portfolio_proofs ---------------------------
(***************************************************************************)
(* Proofs about the components that decide on a trade and weigh it:        *)
(* RiskGuard, Allocator, Analyst, TradePlan, ThreePhase and                *)
(* PortfolioMatrix.                                                        *)
(***************************************************************************)
EXTENDS RiskGuard, Allocator, Analyst, TradePlan, ThreePhase, PortfolioMatrix,
        DataTheorems

(***************************************************************************)
(* RiskGuard                                                               *)
(***************************************************************************)

\* The larger of two members of a set is a member of it.
LEMMA LargerInSet == ASSUME NEW S, NEW a \in S, NEW b \in S
                     PROVE  Larger(a, b) \in S
BY DEF Larger

\* Whatever the checks found, the switch keeps its type.
LEMMA SwitchTypes ==
    ASSUME RiskGuardAssumption, TypeOK,
           NEW c \in BOOLEAN, NEW h \in BOOLEAN, NEW f \in BOOLEAN, NEW o \in BOOLEAN,
           SwitchAfter(c, h, f, o)
    PROVE  /\ killActive' \in BOOLEAN
           /\ permanent' \in BOOLEAN
           /\ killAge' \in {NoTime} \union (0 .. Cooldown)
           /\ quiet' \in 0 .. Cooldown
           /\ stops' \in 0 .. MaxStops
<1>1. Cooldown \in Nat /\ MaxStops \in Nat BY DEF RiskGuardAssumption
<1>2. stops' \in 0 .. MaxStops BY <1>1 DEF TypeOK, SwitchAfter
<1>3. killActive' \in BOOLEAN BY DEF SwitchAfter
<1>4. permanent' \in BOOLEAN BY DEF SwitchAfter
<1>5. quiet' \in 0 .. Cooldown BY <1>1 DEF TypeOK, SwitchAfter
<1>6. killAge' \in {NoTime} \union (0 .. Cooldown) BY <1>1 DEF TypeOK, SwitchAfter
<1>7. QED BY <1>2, <1>3, <1>4, <1>5, <1>6

\* Adding to one bucket of one symbol, within the bound, keeps the book's type.
LEMMA BookTypes ==
    ASSUME RiskGuardAssumption, TypeOK, NEW s \in Symbols,
           NEW b \in {"long", "short"}, NEW k \in 0 .. MaxOpen,
           exposure' = [exposure EXCEPT ![s][b] = k]
    PROVE  exposure' \in [Symbols -> [long : 0 .. MaxOpen, short : 0 .. MaxOpen]]
<1>1. exposure[s] \in [long : 0 .. MaxOpen, short : 0 .. MaxOpen] BY DEF TypeOK
<1>2. [exposure[s] EXCEPT ![b] = k] \in [long : 0 .. MaxOpen, short : 0 .. MaxOpen]
  <2>1. CASE b = "long" BY <1>1, <2>1
  <2>2. CASE b = "short" BY <1>1, <2>2
  <2>3. QED BY <2>1, <2>2
<1>3. exposure' = [exposure EXCEPT ![s] = [exposure[s] EXCEPT ![b] = k]]
  OBVIOUS
<1>4. QED BY <1>2, <1>3 DEF TypeOK

\* A check that found what it found keeps flag and timestamp in agreement:
\* this is the step that fails when the timestamp is not that of the last alarm.
LEMMA SwitchCooling ==
    ASSUME RiskGuardAssumption, TypeOK, CoolingHolds,
           NEW c \in BOOLEAN, NEW h \in BOOLEAN, NEW f \in BOOLEAN, NEW o \in BOOLEAN,
           SwitchAfter(c, h, f, o)
    PROVE  CoolingHolds'
<1>1. Cooldown \in Nat BY DEF RiskGuardAssumption
<1>2. CASE h \/ f \/ o BY <1>2 DEF SwitchAfter, CoolingHolds
<1>3. CASE ~(h \/ f \/ o) /\ ~(c /\ CooldownElapsed)
  BY <1>3 DEF SwitchAfter, CoolingHolds
<1>4. CASE ~(h \/ f \/ o) /\ (c /\ CooldownElapsed)
  <2>1. quiet >= Cooldown /\ quiet \in 0 .. Cooldown
    BY <1>4 DEF CooldownElapsed, CoolingHolds, TypeOK
  <2>2. quiet = Cooldown BY <1>1, <2>1
  <2>3. ~killActive' /\ quiet' = quiet BY <1>4 DEF SwitchAfter
  <2>4. QED BY <2>2, <2>3 DEF CoolingHolds
<1>5. QED BY <1>2, <1>3, <1>4

-----------------------------------------------------------------------------

\* The inductive invariant.
Inv == TypeOK /\ CoolingHolds

LEMMA InitInv == ASSUME RiskGuardAssumption, Init PROVE Inv
<1>1. Cooldown \in Nat /\ MaxStops \in Nat /\ MaxOpen \in Nat /\ InitialCapital \in Equities
  BY DEF RiskGuardAssumption
<1>2. TypeOK
  <2>1. session \in [open : BOOLEAN, start : Equities, current : Equities]
    BY <1>1 DEF Init
  <2>2. exposure \in [Symbols -> [long : 0 .. MaxOpen, short : 0 .. MaxOpen]]
    BY <1>1 DEF Init
  <2>3. stops \in 0 .. MaxStops /\ quiet \in 0 .. Cooldown
    BY <1>1 DEF Init
  <2>4. /\ dayOver \in BOOLEAN /\ killActive \in BOOLEAN /\ permanent \in BOOLEAN
        /\ verdict \in {"approved", "refused"}
        /\ killAge \in {NoTime} \union (0 .. Cooldown)
    BY DEF Init
  <2>5. QED BY <1>1, <2>1, <2>2, <2>3, <2>4 DEF Init, TypeOK
<1>3. CoolingHolds BY DEF Init, CoolingHolds
<1>4. QED BY <1>2, <1>3 DEF Inv

LEMMA TypeStep == ASSUME RiskGuardAssumption, Inv, [Next]_vars PROVE TypeOK'
<1> USE DEF Inv
<1>0. /\ Cooldown \in Nat /\ MaxStops \in Nat /\ MaxOpen \in Nat
      /\ InitialCapital \in Equities /\ FillNotionals \subseteq Nat
      /\ Equities \subseteq Nat
  BY DEF RiskGuardAssumption
<1>1. CASE EquityStep
  <2>1. CASE StartSession BY <1>0, <2>1 DEF StartSession, TypeOK
  <2>2. ASSUME NEW e \in Equities, UpdateEquity(e) PROVE TypeOK'
    <3>1. peakEquity' \in Equities
      BY <2>2, LargerInSet DEF UpdateEquity, TypeOK
    <3>2. dailyPeak' \in Equities
      BY <1>0, <2>2, LargerInSet DEF UpdateEquity, TypeOK
    <3>3. session' \in [open : BOOLEAN, start : Equities, current : Equities]
      BY <2>2 DEF UpdateEquity, TypeOK
    <3>4. QED BY <2>2, <3>1, <3>2, <3>3 DEF UpdateEquity, TypeOK, switch
  <2>3. ASSUME NEW e \in Equities, GetInstance(e) PROVE TypeOK'
    BY <2>3 DEF GetInstance, TypeOK, switch
  <2>4. CASE ResetDaily
    <3>1. dailyPeak' \in Equities BY <1>0, <2>4, LargerInSet DEF ResetDaily, TypeOK
    <3>2. QED BY <2>4, <3>1 DEF ResetDaily, TypeOK, switch
  <2>5. QED BY <1>1, <2>1, <2>2, <2>3, <2>4 DEF EquityStep
<1>2. CASE BookStep
  <2>1. ASSUME NEW s \in Symbols, NEW n \in FillNotionals,
               NEW b \in {"long", "short"}, AddNotional(s, b, n)
        PROVE  TypeOK'
    <3>1. exposure[s][b] + n \in 0 .. MaxOpen
      BY <1>0, <2>1 DEF AddNotional, TypeOK
    <3>2. exposure' = [exposure EXCEPT ![s][b] = exposure[s][b] + n]
      BY <2>1 DEF AddNotional
    <3>3. exposure' \in [Symbols -> [long : 0 .. MaxOpen, short : 0 .. MaxOpen]]
      BY <3>1, <3>2, BookTypes
    <3>4. QED BY <2>1, <3>3 DEF AddNotional, TypeOK, marks, switch
  <2>2. ASSUME NEW s \in Symbols, NEW n \in FillNotionals,
               NEW b \in {"long", "short"}, ClosePosition(s, b, n)
        PROVE  TypeOK'
    <3>0. exposure[s][b] \in 0 .. MaxOpen
      <4>1. exposure[s] \in [long : 0 .. MaxOpen, short : 0 .. MaxOpen] BY DEF TypeOK
      <4>2. QED BY <4>1
    <3>1. Larger(0, exposure[s][b] - n) \in 0 .. MaxOpen
      <4>1. n \in Nat BY <1>0
      <4>2. QED BY <1>0, <3>0, <4>1 DEF Larger
    <3>2. exposure' = [exposure EXCEPT ![s][b] = Larger(0, exposure[s][b] - n)]
      BY <2>2 DEF ClosePosition
    <3>3. exposure' \in [Symbols -> [long : 0 .. MaxOpen, short : 0 .. MaxOpen]]
      BY <3>1, <3>2, BookTypes
    <3>4. QED BY <2>2, <3>3 DEF ClosePosition, TypeOK, marks, switch
  <2>3. CASE FlattenAllPositions
    BY <1>0, <2>3 DEF FlattenAllPositions, TypeOK, marks, switch
  <2>4. ASSUME NEW s \in Symbols, NEW n \in FillNotionals,
               NEW d \in {"long", "short"}, RecordTrade(s, d, n)
        PROVE  TypeOK'
    BY <2>1, <2>4 DEF RecordTrade
  <2>5. ASSUME NEW s \in Symbols, NEW n \in FillNotionals,
               NEW side \in {"BUY", "SELL"}, UpdatePositionFromFill(s, side, n)
        PROVE  TypeOK'
    BY <2>1, <2>5 DEF UpdatePositionFromFill
  <2>6. QED BY <1>2, <2>2, <2>3, <2>4, <2>5 DEF BookStep
<1>3. CASE GuardStep
  <2>1. CASE CheckKillSwitch
    BY <2>1, SwitchTypes DEF CheckKillSwitch, TypeOK, marks
  <2>2. CASE CheckSessionLoss
    <3>1. SessionHit \in BOOLEAN BY DEF SessionHit, FellBy, TypeOK
    <3>2. QED BY <2>2, <3>1, SwitchTypes DEF CheckSessionLoss, TypeOK, marks
  <2>3. ASSUME NEW e \in Equities, CheckAbsoluteEquity(e) PROVE TypeOK'
    <3>1. FloorHit(e) \in BOOLEAN BY DEF FloorHit
    <3>2. QED BY <2>3, <3>1, SwitchTypes DEF CheckAbsoluteEquity, TypeOK, marks
  <2>4. CASE CheckBlackSwan
    <3>1. BlackSwanHit \in BOOLEAN BY DEF BlackSwanHit, FellBy
    <3>2. QED BY <2>4, <3>1, SwitchTypes DEF CheckBlackSwan, TypeOK, marks
  <2>5. CASE ResetKillSwitch
    <3>1. stops' \in 0 .. MaxStops /\ quiet' \in 0 .. Cooldown
      BY <1>0, <2>5 DEF ResetKillSwitch
    <3>2. killActive' \in BOOLEAN /\ permanent' \in BOOLEAN
      BY <2>5 DEF ResetKillSwitch
    <3>3. QED BY <2>5, <3>1, <3>2 DEF ResetKillSwitch, TypeOK, marks
  <2>6. ASSUME NEW p \in Proposals, NEW e \in Equities, CheckAll(p, e)
        PROVE  TypeOK'
    <3>1. SessionHit \in BOOLEAN /\ FloorHit(e) \in BOOLEAN
      BY DEF SessionHit, FloorHit, FellBy, TypeOK
    <3>2. verdict' \in {"approved", "refused"} BY <2>6 DEF CheckAll
    <3>3. SwitchAfter(TRUE, SessionHit, FloorHit(e), FALSE) BY <2>6 DEF CheckAll
    <3>4. QED BY <2>6, <3>1, <3>2, <3>3, SwitchTypes DEF CheckAll, TypeOK, marks
  <2>7. QED BY <1>3, <2>1, <2>2, <2>3, <2>4, <2>5, <2>6 DEF GuardStep
<1>4. CASE ClockStep
  <2>1. CASE MinutePasses BY <1>0, <2>1 DEF MinutePasses, TypeOK, marks, NoTime
  <2>2. CASE DayPasses BY <1>0, <2>2 DEF DayPasses, TypeOK, NoTime
  <2>3. QED BY <1>4, <2>1, <2>2 DEF ClockStep
<1>5. CASE UNCHANGED vars BY <1>5 DEF vars, marks, switch, TypeOK
<1>6. QED BY <1>1, <1>2, <1>3, <1>4, <1>5 DEF Next

LEMMA CoolingStep == ASSUME RiskGuardAssumption, Inv, [Next]_vars PROVE CoolingHolds'
<1> USE DEF Inv
<1>0. Cooldown \in Nat BY DEF RiskGuardAssumption
<1>1. CASE UNCHANGED switch BY <1>1 DEF switch, CoolingHolds
<1>2. CASE StartSession BY <1>2 DEF StartSession, CoolingHolds
<1>3. CASE CheckKillSwitch BY <1>3, SwitchCooling DEF CheckKillSwitch
<1>4. CASE CheckSessionLoss
  <2>1. SessionHit \in BOOLEAN BY DEF SessionHit, FellBy, TypeOK
  <2>2. QED BY <1>4, <2>1, SwitchCooling DEF CheckSessionLoss
<1>5. ASSUME NEW e \in Equities, CheckAbsoluteEquity(e) PROVE CoolingHolds'
  <2>1. FloorHit(e) \in BOOLEAN BY DEF FloorHit
  <2>2. QED BY <1>5, <2>1, SwitchCooling DEF CheckAbsoluteEquity
<1>6. CASE CheckBlackSwan
  <2>1. BlackSwanHit \in BOOLEAN BY DEF BlackSwanHit, FellBy
  <2>2. QED BY <1>6, <2>1, SwitchCooling DEF CheckBlackSwan
<1>7. CASE ResetKillSwitch BY <1>7 DEF ResetKillSwitch, CoolingHolds
<1>8. ASSUME NEW p \in Proposals, NEW e \in Equities, CheckAll(p, e)
      PROVE  CoolingHolds'
  <2>1. SessionHit \in BOOLEAN /\ FloorHit(e) \in BOOLEAN
    BY DEF SessionHit, FloorHit, FellBy, TypeOK
  <2>2. QED BY <1>8, <2>1, SwitchCooling DEF CheckAll
<1>9. CASE MinutePasses BY <1>0, <1>9 DEF MinutePasses, CoolingHolds, TypeOK, NoTime
<1>10. CASE DayPasses
  <2>1. killActive => killAge \in 0 .. Cooldown BY DEF CoolingHolds, TypeOK
  <2>2. QED BY <1>0, <1>10, <2>1 DEF DayPasses, CoolingHolds, NoTime
<1>11. CASE BookStep
  BY <1>1, <1>11 DEF BookStep, RecordTrade, UpdatePositionFromFill, AddNotional,
                     ClosePosition, FlattenAllPositions
<1>12. ASSUME NEW e \in Equities, UpdateEquity(e) \/ GetInstance(e)
       PROVE  CoolingHolds'
  BY <1>1, <1>12 DEF UpdateEquity, GetInstance
<1>13. CASE ResetDaily BY <1>1, <1>13 DEF ResetDaily
<1>14. CASE UNCHANGED vars BY <1>1, <1>14 DEF vars
<1>15. QED
  BY <1>2, <1>3, <1>4, <1>5, <1>6, <1>7, <1>8, <1>9, <1>10, <1>11, <1>12, <1>13,
     <1>14 DEF Next, EquityStep, GuardStep, ClockStep

\* The inductive invariant holds throughout.
LEMMA InvCorrect == Spec => []Inv
<1>1. Init => Inv BY InitInv, RiskGuardAssumption
<1>2. Inv /\ [Next]_vars => Inv'
  BY TypeStep, CoolingStep, RiskGuardAssumption DEF Inv
<1>3. QED BY <1>1, <1>2, PTL DEF Spec

\* The guard's variables keep their types; notionals never go below zero.
THEOREM TypeCorrect == Spec => []TypeOK
<1>1. Inv => TypeOK BY DEF Inv
<1>2. QED BY <1>1, InvCorrect, PTL

\* The kill-switch time is always that of the last alarm.
THEOREM CoolingCorrect == Spec => []CoolingHolds
<1>1. Inv => CoolingHolds BY DEF Inv
<1>2. QED BY <1>1, InvCorrect, PTL

\* While an alarm is younger than the cooldown, or the floor was ever hit, the
\* kill-switch limit is among those breached, so check_all refuses every trade.
THEOREM ShutMeansNoApproval == Spec => []NoApprovalWhileShut
<1>1. Inv => NoApprovalWhileShut
  <2>1. SUFFICES ASSUME Inv, quiet < Cooldown \/ permanent,
                        NEW p \in Proposals, NEW e \in Equities
                 PROVE  Breaches(p, e) # {}
    BY DEF NoApprovalWhileShut
  <2>2. CASE permanent BY <2>2 DEF Breaches, Limits, Halted
  <2>3. CASE quiet < Cooldown
    <3>1. Cooldown \in Nat BY RiskGuardAssumption DEF RiskGuardAssumption
    <3>2. quiet # Cooldown BY <2>1, <2>3, <3>1 DEF Inv, TypeOK
    <3>3. killActive BY <2>1, <3>2 DEF Inv, CoolingHolds
    <3>4. QED BY <3>3 DEF Breaches, Limits, Halted
  <2>4. QED BY <2>1, <2>2, <2>3
<1>2. QED BY <1>1, InvCorrect, PTL

-----------------------------------------------------------------------------
(* The guard implements the trading gate.                                  *)

\* The state of the abstract gate.
gateOf == IF permanent THEN "latched" ELSE IF killActive THEN "cooling" ELSE "open"

\* What any check does to the switch is an alarm, a lapse, or nothing.
LEMMA SwitchIsGateStep ==
    ASSUME RiskGuardAssumption, Inv,
           NEW c \in BOOLEAN, NEW h \in BOOLEAN, NEW f \in BOOLEAN, NEW o \in BOOLEAN,
           SwitchAfter(c, h, f, o)
    PROVE  Gate!Engage \/ Gate!Latch \/ Gate!Lapse \/ UNCHANGED <<gateOf, quiet>>
<1>1. CASE f BY <1>1 DEF SwitchAfter, Gate!Latch
<1>2. CASE ~f /\ (h \/ o) BY <1>2 DEF SwitchAfter, Gate!Engage
<1>3. CASE ~f /\ ~h /\ ~o /\ ~(c /\ CooldownElapsed)
  BY <1>3 DEF SwitchAfter, gateOf
<1>4. CASE ~f /\ ~h /\ ~o /\ c /\ CooldownElapsed
  <2>1. Cooldown \in Nat BY DEF RiskGuardAssumption
  <2>2. quiet >= Cooldown /\ quiet \in 0 .. Cooldown
    BY <1>4 DEF CooldownElapsed, Inv, CoolingHolds, TypeOK
  <2>3. quiet = Cooldown BY <2>1, <2>2
  <2>4. ~killActive' /\ permanent' = permanent /\ quiet' = quiet
    BY <1>4 DEF SwitchAfter, Inv, TypeOK
  <2>5. CASE permanent BY <2>4, <2>5 DEF gateOf
  <2>6. CASE ~permanent
    BY <1>4, <2>3, <2>4, <2>6 DEF Gate!Lapse, CooldownElapsed
  <2>7. QED BY <2>5, <2>6
<1>5. QED BY <1>1, <1>2, <1>3, <1>4

LEMMA GuardStepRefines ==
    ASSUME RiskGuardAssumption, Inv, GuardStep
    PROVE  Gate!GateNext \/ UNCHANGED <<gateOf, quiet, verdict>>
<1>1. ASSUME NEW c \in BOOLEAN, NEW h \in BOOLEAN, NEW f \in BOOLEAN,
             NEW o \in BOOLEAN, SwitchAfter(c, h, f, o), UNCHANGED verdict
      PROVE  Gate!GateNext \/ UNCHANGED <<gateOf, quiet, verdict>>
  BY <1>1, SwitchIsGateStep DEF Gate!GateNext, Gate!Alarm
<1>2. CASE CheckKillSwitch BY <1>1, <1>2 DEF CheckKillSwitch
<1>3. CASE CheckSessionLoss
  <2>1. SessionHit \in BOOLEAN BY DEF SessionHit, FellBy, Inv, TypeOK
  <2>2. QED BY <1>1, <1>3, <2>1 DEF CheckSessionLoss
<1>4. ASSUME NEW e \in Equities, CheckAbsoluteEquity(e)
      PROVE  Gate!GateNext \/ UNCHANGED <<gateOf, quiet, verdict>>
  <2>1. FloorHit(e) \in BOOLEAN BY DEF FloorHit
  <2>2. QED BY <1>1, <1>4, <2>1 DEF CheckAbsoluteEquity
<1>5. CASE CheckBlackSwan
  <2>1. BlackSwanHit \in BOOLEAN BY DEF BlackSwanHit, FellBy
  <2>2. QED BY <1>1, <1>5, <2>1 DEF CheckBlackSwan
<1>6. CASE ResetKillSwitch
  BY <1>6 DEF ResetKillSwitch, Gate!GateNext, Gate!Review
<1>7. ASSUME NEW p \in Proposals, NEW e \in Equities, CheckAll(p, e)
      PROVE  Gate!GateNext \/ UNCHANGED <<gateOf, quiet, verdict>>
  <2>1. SessionHit \in BOOLEAN /\ FloorHit(e) \in BOOLEAN
    BY DEF SessionHit, FloorHit, FellBy, Inv, TypeOK
  <2>2. SwitchAfter(TRUE, SessionHit, FloorHit(e), FALSE) BY <1>7 DEF CheckAll
  <2>3. Gate!Engage \/ Gate!Latch \/ Gate!Lapse \/ UNCHANGED <<gateOf, quiet>>
    BY <2>1, <2>2, SwitchIsGateStep
  <2>4. CASE Breaches(p, e) # {}
    <3>1. verdict' = "refused" BY <1>7, <2>4 DEF CheckAll
    <3>2. QED BY <2>3, <3>1 DEF gateOf, Gate!GateNext, Gate!Refuse
  <2>5. CASE Breaches(p, e) = {}
    <3>1. verdict' = "approved" BY <1>7, <2>5 DEF CheckAll
    <3>2. ~Halted /\ ~SessionHit /\ ~FloorHit(e)
      BY <2>5 DEF Breaches, Limits
    <3>3. ~killActive' /\ ~permanent' /\ quiet' = quiet
      BY <2>2, <3>2 DEF SwitchAfter, Halted
    <3>4. quiet = Cooldown BY <3>2 DEF Halted, Inv, CoolingHolds
    <3>5. QED BY <3>1, <3>2, <3>3, <3>4 DEF Halted, Gate!GateNext, Gate!Approve
  <2>6. QED BY <2>4, <2>5
<1>8. QED BY <1>2, <1>3, <1>4, <1>5, <1>6, <1>7 DEF GuardStep

LEMMA ClockStepRefines ==
    ASSUME RiskGuardAssumption, Inv, ClockStep
    PROVE  Gate!GateNext \/ UNCHANGED <<gateOf, quiet, verdict>>
<1>1. Cooldown \in Nat /\ quiet \in 0 .. Cooldown
  BY DEF RiskGuardAssumption, Inv, TypeOK
<1>2. quiet' \in quiet .. Cooldown
  BY <1>1 DEF ClockStep, MinutePasses, DayPasses
<1>3. UNCHANGED <<killActive, permanent, verdict>>
  BY DEF ClockStep, MinutePasses, DayPasses
<1>4. QED BY <1>2, <1>3 DEF Gate!GateNext, Gate!TimePasses

LEMMA EquityStepRefines ==
    ASSUME EquityStep PROVE UNCHANGED <<gateOf, quiet, verdict>>
<1>1. UNCHANGED <<killActive, permanent, quiet, verdict>>
  BY DEF EquityStep, StartSession, UpdateEquity, GetInstance, ResetDaily, switch
<1>2. QED BY <1>1 DEF gateOf

LEMMA BookStepRefines ==
    ASSUME BookStep PROVE UNCHANGED <<gateOf, quiet, verdict>>
<1>1. UNCHANGED <<killActive, permanent, quiet, verdict>>
  BY DEF BookStep, RecordTrade, UpdatePositionFromFill, AddNotional, ClosePosition,
         FlattenAllPositions, switch
<1>2. QED BY <1>1 DEF gateOf

\* RiskGuard implements TradingGate: every call is an alarm, a lapse, a refusal,
\* an approval through an open gate, a review, the passing of time, or a stutter.
THEOREM ImplementsGate == Spec => GateImplemented
<1>1. Init => Gate!GateInit BY DEF Init, Gate!GateInit
<1>2. Inv /\ [Next]_vars => [Gate!GateNext]_(Gate!gateVars)
  <2>1. SUFFICES ASSUME Inv, [Next]_vars
                 PROVE  Gate!GateNext \/ UNCHANGED <<gateOf, quiet, verdict>>
    BY DEF gateOf, Gate!gateVars
  <2>2. CASE EquityStep BY <2>2, EquityStepRefines
  <2>3. CASE BookStep BY <2>3, BookStepRefines
  <2>4. CASE GuardStep BY <2>1, <2>4, RiskGuardAssumption, GuardStepRefines
  <2>5. CASE ClockStep BY <2>1, <2>5, RiskGuardAssumption, ClockStepRefines
  <2>6. CASE UNCHANGED vars BY <2>6 DEF vars, switch, gateOf
  <2>7. QED BY <2>1, <2>2, <2>3, <2>4, <2>5, <2>6 DEF Next
<1>3. QED BY <1>1, <1>2, InvCorrect, PTL DEF Spec, GateImplemented, Gate!GateSpec

(***************************************************************************)
(* Allocator                                                               *)
(***************************************************************************)

Epoch == [ret : Int, pos : Int]

\* What every step keeps: the histories are as long as one another, so that an
\* allocation judges all the personas or none.
AllocatorInv ==
    /\ rolling \in [Voters -> Seq(Epoch)]
    /\ \A p, q \in Voters : Len(rolling[p]) = Len(rolling[q])
    /\ wonOf \in [Voters -> [wins : Nat, losses : Nat]]
    /\ fitness = [p \in Voters |-> fitness[p]]

LEMMA ProductsOfIntegers ==
    /\ \A x, y \in Int : x * y \in Int
    /\ \A x, y \in Int : x <= 0 /\ y >= 0 => x * y <= 0
    /\ \A x, y \in Int : x >= 0 /\ y >= 0 => x * y >= 0
    /\ \A x \in Int : x * x >= 0
    /\ \A x \in Int : 0 * x = 0 /\ x * 1 = x
<1> QED BY SMT

\* Summed over a history, an integer of each epoch gives an integer.
LEMMA OverType ==
    ASSUME NEW h \in Seq(Epoch), NEW f \in [DOMAIN h -> Int]
    PROVE  SumFunction(f) \in Int
<1>1. DOMAIN h = 1 .. Len(h) /\ Len(h) \in Nat
  OBVIOUS
<1>2. IsFiniteSet(DOMAIN h)
  BY <1>1, FS_Interval
<1> QED BY <1>2, SumType DEF SumFunction

\* A persona that has not earned over its window has no positive ratio.
LEMMA LosersRatio ==
    ASSUME NEW h \in Seq(Epoch), Len(h) >= 2
    PROVE  /\ Over(h, LAMBDA e : e.ret) \in Int
           /\ Sortino(h).num \in Int /\ Sortino(h).den \in Int
           /\ Over(h, LAMBDA e : e.ret) <= 0 => Sortino(h).num <= 0
<1> DEFINE n == Len(h)
           total == Over(h, LAMBDA e : e.ret)
           squares == Over(h, LAMBDA e : e.ret * e.ret)
           below == Over(h, LAMBDA e : IF e.ret < 0 THEN e.ret * e.ret ELSE 0)
           spread == n * squares - total * total
           s == Signed(total)
<1>1. \A i \in DOMAIN h : h[i].ret \in Int
  <2>1. \A i \in DOMAIN h : h[i] \in Epoch
    OBVIOUS
  <2> QED BY <2>1 DEF Epoch
<1>2. total \in Int
  <2>1. [i \in DOMAIN h |-> h[i].ret] \in [DOMAIN h -> Int]
    BY <1>1
  <2> QED BY <2>1, OverType DEF Over
<1>3. squares \in Int
  <2>1. [i \in DOMAIN h |-> h[i].ret * h[i].ret] \in [DOMAIN h -> Int]
    BY <1>1, ProductsOfIntegers
  <2> QED BY <2>1, OverType DEF Over
<1>4. below \in Int
  <2>1. [i \in DOMAIN h |-> IF h[i].ret < 0 THEN h[i].ret * h[i].ret ELSE 0] \in [DOMAIN h -> Int]
    BY <1>1, ProductsOfIntegers
  <2> QED BY <2>1, OverType DEF Over
<1>5. n \in Nat /\ n \in Int /\ n - 1 \in Nat
  OBVIOUS
<1>6. Sortino(h) = IF below > 0 THEN [num |-> s * total * total, den |-> n * below]
                   ELSE IF spread = 0 THEN [num |-> 0, den |-> 1]
                   ELSE [num |-> s * total * total * (n - 1), den |-> n * spread]
  BY DEF Sortino
<1>7. s \in Int /\ (total <= 0 => s <= 0)
  <2> HIDE DEF total
  <2> QED BY <1>2 DEF Signed
<1> HIDE DEF total, squares, below, n, s
<1>8. n * squares \in Int /\ total * total \in Int /\ total * total >= 0
  BY <1>2, <1>3, <1>5, ProductsOfIntegers
<1>9. spread \in Int
  BY <1>8
<1> HIDE DEF spread
<1>10. n * below \in Int /\ n * spread \in Int
  BY <1>4, <1>5, <1>9, ProductsOfIntegers
<1>11. s * total * total = s * (total * total)
  BY <1>2, <1>7
<1>12. s * total * total \in Int /\ (total <= 0 => s * total * total <= 0)
  BY <1>7, <1>8, <1>11, ProductsOfIntegers
<1>13. /\ s * total * total * (n - 1) \in Int
       /\ total <= 0 => s * total * total * (n - 1) <= 0
  BY <1>5, <1>12, ProductsOfIntegers
<1>14. /\ Sortino(h).num \in Int /\ Sortino(h).den \in Int
       /\ total <= 0 => Sortino(h).num <= 0
  BY <1>6, <1>10, <1>12, <1>13
<1> QED BY <1>2, <1>14 DEF total

\* A fitness is a fraction that is not negative; whoever has not earned has none.
LEMMA FitnessOfHistory ==
    ASSUME AllocatorAssumption,
           NEW h \in Seq(Epoch), Len(h) >= 2, NEW w \in [wins : Nat, losses : Nat]
    PROVE  /\ Composite(Sortino(h), w, h).num \in Int
           /\ Composite(Sortino(h), w, h).num >= 0
           /\ Composite(Sortino(h), w, h).den \in Int
           /\ Over(h, LAMBDA e : e.ret) <= 0 =>
                Composite(Sortino(h), w, h) = [num |-> 0, den |-> 1]
<1> DEFINE ratio == Sortino(h)
           played == IF w.wins + w.losses = 0 THEN 1 ELSE w.wins + w.losses
           a == Squared(w.wins * (Len(h) - 1))
           b == Squared(played * (Len(h) - 1 + Penalty * Churn(h)))
<1>1. ratio.num \in Int /\ ratio.den \in Int
  BY LosersRatio
<1>2. Churn(h) \in Int
  <2>1. \A i \in 1 .. Len(h) - 1 : h[i + 1].pos - h[i].pos \in Int
    <3>1. \A i \in 1 .. Len(h) : h[i] \in Epoch
      OBVIOUS
    <3>2. \A i \in 1 .. Len(h) - 1 : i \in 1 .. Len(h) /\ i + 1 \in 1 .. Len(h)
      OBVIOUS
    <3>3. \A e \in Epoch : e.pos \in Int
      BY DEF Epoch
    <3>4. \A m, n \in Int : m - n \in Int
      OBVIOUS
    <3> QED BY <3>1, <3>2, <3>3, <3>4
  <2> DEFINE f == [i \in 1 .. Len(h) - 1 |-> LET d == h[i + 1].pos - h[i].pos
                                             IN  IF d < 0 THEN -d ELSE d]
  <2>2. f \in [1 .. Len(h) - 1 -> Int]
    BY <2>1, SMTT(30)
  <2>3. IsFiniteSet(1 .. Len(h) - 1)
    BY FS_Interval
  <2>4. DOMAIN f = 1 .. Len(h) - 1
    OBVIOUS
  <2>5. Churn(h) = SumFunctionOnSet(f, DOMAIN f)
    BY DEF Churn, SumFunction
  <2> HIDE DEF f
  <2> QED BY <2>2, <2>3, <2>4, <2>5, SumType
<1>3. a \in Int /\ a >= 0
  <2>1. w.wins * (Len(h) - 1) \in Int
    BY ProductsOfIntegers
  <2> QED BY <2>1, ProductsOfIntegers DEF Squared
<1>4. b \in Int
  <2>1. Penalty \in Int
    BY DEF AllocatorAssumption
  <2>2. Penalty * Churn(h) \in Int
    BY <1>2, <2>1, ProductsOfIntegers
  <2>3. Len(h) - 1 + Penalty * Churn(h) \in Int
    BY <2>2
  <2>4. played \in Int
    OBVIOUS
  <2>5. played * (Len(h) - 1 + Penalty * Churn(h)) \in Int
    BY <2>3, <2>4, ProductsOfIntegers
  <2> QED BY <2>5, ProductsOfIntegers DEF Squared
<1>5. Composite(ratio, w, h) = IF ratio.num <= 0 THEN [num |-> 0, den |-> 1]
                               ELSE [num |-> ratio.num * a, den |-> ratio.den * b]
  BY DEF Composite
<1>6. Over(h, LAMBDA e : e.ret) <= 0 => ratio.num <= 0
  BY LosersRatio
<1> HIDE DEF ratio, a, b
<1>7. ratio.num * a \in Int /\ ratio.den * b \in Int
  BY <1>1, <1>3, <1>4, ProductsOfIntegers
<1>8. ratio.num > 0 => ratio.num * a >= 0
  BY <1>1, <1>3, ProductsOfIntegers
<1>9. /\ Composite(ratio, w, h).num \in Int
      /\ Composite(ratio, w, h).num >= 0
      /\ Composite(ratio, w, h).den \in Int
      /\ ratio.num <= 0 => Composite(ratio, w, h) = [num |-> 0, den |-> 1]
  BY <1>1, <1>5, <1>7, <1>8
<1> QED BY <1>6, <1>9 DEF ratio

LEMMA UpdateKeeps ==
    ASSUME AllocatorAssumption, AllocatorInv,
           NEW ret \in [Voters -> Int], NEW pos \in [Voters -> Int], UpdateAll(ret, pos)
    PROVE  AllocatorInv'
<1> DEFINE e(p) == [ret |-> ret[p], pos |-> pos[p]]
           all(p) == Append(rolling[p], e(p))
<1>1. \A p \in Voters : /\ all(p) \in Seq(Epoch) /\ all(p) # <<>>
                        /\ Len(all(p)) = Len(rolling[p]) + 1
  <2> TAKE p \in Voters
  <2>1. rolling[p] \in Seq(Epoch)
    BY DEF AllocatorInv
  <2>2. e(p) \in Epoch
    BY DEF Epoch
  <2> DEFINE x == e(p)
             s == rolling[p]
  <2>3. all(p) = Append(s, x)
    OBVIOUS
  <2> HIDE DEF x, s
  <2>4. Append(s, x) \in Seq(Epoch) /\ Append(s, x) # <<>> /\ Len(Append(s, x)) = Len(s) + 1
    <3>1. s \in Seq(Epoch) /\ x \in Epoch
      BY <2>1, <2>2 DEF s, x
    <3> QED BY <3>1, AppendProperties
  <2> QED BY <2>3, <2>4 DEF s
<1>2. \A p \in Voters : /\ Tail(all(p)) \in Seq(Epoch)
                        /\ Len(Tail(all(p))) = Len(rolling[p])
  <2> TAKE p \in Voters
  <2> DEFINE t == all(p)
  <2>1. t \in Seq(Epoch) /\ t # <<>> /\ Len(t) = Len(rolling[p]) + 1 /\ Len(rolling[p]) \in Nat
    BY <1>1, SMTT(30) DEF AllocatorInv
  <2> HIDE DEF t
  <2>2. Tail(t) \in Seq(Epoch) /\ Len(Tail(t)) = Len(t) - 1
    BY <2>1
  <2> QED BY <2>1, <2>2 DEF t
<1>3. rolling' = [p \in Voters |-> IF Len(all(p)) > Window THEN Tail(all(p)) ELSE all(p)]
  BY DEF UpdateAll
<1> HIDE DEF all
<1>4. rolling' \in [Voters -> Seq(Epoch)]
  BY <1>1, <1>2, <1>3
<1>5. \A p, q \in Voters : Len(rolling'[p]) = Len(rolling'[q])
  <2> TAKE p, q \in Voters
  <2>1. Len(rolling[p]) = Len(rolling[q])
    BY DEF AllocatorInv
  <2> QED BY <1>1, <1>2, <1>3, <2>1
<1>6. wonOf' \in [Voters -> [wins : Nat, losses : Nat]]
  <2>1. \A p \in Voters : wonOf[p].wins \in Nat /\ wonOf[p].losses \in Nat
    BY DEF AllocatorInv
  <2> QED BY <2>1 DEF UpdateAll
<1>7. fitness' = [p \in Voters |-> fitness'[p]]
  BY DEF UpdateAll, AllocatorInv
<1> QED BY <1>4, <1>5, <1>6, <1>7 DEF AllocatorInv

LEMMA AllocateKeeps == AllocatorInv /\ Allocate => AllocatorInv'
<1> SUFFICES ASSUME AllocatorInv, Allocate PROVE AllocatorInv'
  OBVIOUS
<1>1. fitness' = [p \in Voters |-> fitness'[p]]
  BY DEF Allocate
<1> QED BY <1>1 DEF Allocate, AllocatorInv

LEMMA AllocatorStepKeeps ==
    ASSUME AllocatorAssumption, AllocatorInv, [AllocatorNext]_allocatorVars
    PROVE  AllocatorInv'
<1>1. CASE Allocate
  BY <1>1, AllocateKeeps
<1>2. CASE AfterTrade
  <2>1. PICK r \in EpochReturns, vote \in [Voters -> {-1, 0, 1}], stake \in [Voters -> Stakes] :
            UpdateAll([p \in Voters |-> vote[p] * r],
                      [p \in Voters |-> IF vote[p] = 0 THEN 0 ELSE stake[p]])
    BY <1>2 DEF AfterTrade
  <2> DEFINE ret == [p \in Voters |-> vote[p] * r]
             pos == [p \in Voters |-> IF vote[p] = 0 THEN 0 ELSE stake[p]]
  <2>2. r \in Int /\ \A p \in Voters : vote[p] \in Int /\ stake[p] \in Int
    <3>1. r \in Int
      BY DEF AllocatorAssumption
    <3>2. \A p \in Voters : vote[p] \in Int
      OBVIOUS
    <3>3. \A p \in Voters : stake[p] \in Stakes
      OBVIOUS
    <3>4. Stakes \subseteq Int
      BY DEF AllocatorAssumption
    <3> QED BY <3>1, <3>2, <3>3, <3>4
  <2>3. ret \in [Voters -> Int]
    BY <2>2, ProductsOfIntegers
  <2>4. pos \in [Voters -> Int]
    BY <2>2
  <2>5. UpdateAll(ret, pos)
    BY <2>1
  <2> HIDE DEF ret, pos
  <2> QED BY <2>3, <2>4, <2>5, UpdateKeeps
<1>3. CASE AfterSkip
  <2>1. PICK held \in {0, 1} : UpdateAll([p \in Voters |-> 0], [p \in Voters |-> held])
    BY <1>3 DEF AfterSkip
  <2>2. [p \in Voters |-> 0] \in [Voters -> Int] /\ [p \in Voters |-> held] \in [Voters -> Int]
    OBVIOUS
  <2> QED BY <2>1, <2>2, UpdateKeeps
<1>4. CASE UNCHANGED allocatorVars
  BY <1>4 DEF allocatorVars, AllocatorInv
<1> QED BY <1>1, <1>2, <1>3, <1>4 DEF AllocatorNext

\* An allocation that changes anything judges every persona.
LEMMA AllocationRanksEarners ==
    ASSUME AllocatorAssumption, AllocatorInv, Allocate, fitness' # fitness,
           NEW p \in Voters, NEW q \in Voters, Outweighs(fitness', p, q)
    PROVE  Over(rolling[p], LAMBDA e : e.ret) > 0
<1> DEFINE Fit(v) == Composite(Sortino(rolling[v]), wonOf[v], rolling[v])
<1>1. \A v \in Voters : fitness'[v] = IF Len(rolling[v]) < 2 THEN fitness[v] ELSE Fit(v)
  BY DEF Allocate
<1>2. PICK v \in Voters : ~(Len(rolling[v]) < 2)
  <2> SUFFICES ASSUME \A u \in Voters : Len(rolling[u]) < 2 PROVE FALSE
    OBVIOUS
  <2>1. fitness' = [u \in Voters |-> fitness[u]]
    BY DEF Allocate
  <2> QED BY <2>1 DEF AllocatorInv
<1>3. \A u \in Voters : /\ rolling[u] \in Seq(Epoch) /\ Len(rolling[u]) >= 2
                        /\ wonOf[u] \in [wins : Nat, losses : Nat]
  <2> TAKE u \in Voters
  <2>1. Len(rolling[u]) = Len(rolling[v]) /\ Len(rolling[u]) \in Nat
    BY DEF AllocatorInv
  <2> QED BY <1>2, <2>1 DEF AllocatorInv
<1>4. fitness'[p] = Fit(p) /\ fitness'[q] = Fit(q)
  BY <1>1, <1>3
<1>5. /\ Fit(p).num \in Int /\ Fit(p).den \in Int
      /\ Over(rolling[p], LAMBDA e : e.ret) <= 0 => Fit(p) = [num |-> 0, den |-> 1]
  BY <1>3, FitnessOfHistory
<1>6. Fit(q).num \in Int /\ Fit(q).num >= 0 /\ Fit(q).den \in Int
  BY <1>3, FitnessOfHistory
<1>7. Over(rolling[p], LAMBDA e : e.ret) \in Int
  BY <1>3, LosersRatio
<1>8. Fit(p).num * Fit(q).den > Fit(q).num * Fit(p).den
  BY <1>4 DEF Outweighs
<1> HIDE DEF Fit
<1>9. SUFFICES ASSUME Over(rolling[p], LAMBDA e : e.ret) <= 0 PROVE FALSE
  BY <1>7
<1>10. Fit(p).num = 0 /\ Fit(p).den = 1
  BY <1>5, <1>9
<1>11. 0 * Fit(q).den = 0 /\ Fit(q).num * 1 = Fit(q).num
  BY <1>6, ProductsOfIntegers
<1> QED BY <1>6, <1>8, <1>10, <1>11

\* Whatever the number of voters, their returns, wins and turnover, the fitness of
\* portfolio_manager.py never ranks a voter above another unless the returns in its
\* rolling window add up to a gain: ratio, shrinkage and turnover penalty only
\* ever scale a gain, and a loser is floored at nothing.
THEOREM OnlyEarnersStandOutHolds == AllocatorSpec => OnlyEarnersStandOut
<1>1. AllocatorInit => AllocatorInv
  BY DEF AllocatorInit, AllocatorInv, Epoch
<1>2. AllocatorInv /\ [AllocatorNext]_allocatorVars => AllocatorInv'
  BY AllocatorStepKeeps, AllocatorAssumption
<1>3. AllocatorInv /\ [AllocatorNext]_allocatorVars =>
        [fitness' # fitness =>
          \A p, q \in Voters : Outweighs(fitness', p, q) =>
              Over(rolling[p], LAMBDA e : e.ret) > 0]_allocatorVars
  <2> SUFFICES ASSUME AllocatorInv, [AllocatorNext]_allocatorVars, fitness' # fitness,
                      NEW p \in Voters, NEW q \in Voters, Outweighs(fitness', p, q)
               PROVE  Over(rolling[p], LAMBDA e : e.ret) > 0
    OBVIOUS
  <2>1. Allocate
    BY DEF AllocatorNext, AfterTrade, AfterSkip, UpdateAll, allocatorVars
  <2> QED BY <2>1, AllocationRanksEarners, AllocatorAssumption
<1> QED BY <1>1, <1>2, <1>3, PTL DEF AllocatorSpec, OnlyEarnersStandOut

(***************************************************************************)
(* Analyst                                                                 *)
(***************************************************************************)

\* Of finitely many scores one is the first that no other exceeds.
LEMMA FirstBest ==
  ASSUME NEW n \in Nat \ {0}, NEW score, \A i \in 1 .. n : score[i] \in Int
  PROVE  \E i \in 1 .. n : /\ \A j \in 1 .. n : score[j] <= score[i]
                           /\ \A j \in 1 .. i - 1 : score[j] < score[i]
<1> DEFINE Best(k, i) == /\ \A j \in 1 .. k : score[j] <= score[i]
                         /\ \A j \in 1 .. i - 1 : score[j] < score[i]
           P == {k \in 0 .. n : k = 0 \/ \E i \in 1 .. k : Best(k, i)}
<1>1. 0 \in P
  OBVIOUS
<1>2. ASSUME NEW k \in 0 .. n - 1, k \in P PROVE k + 1 \in P
  <2>1. k + 1 \in 1 .. n /\ k + 1 \in 0 .. n /\ k \in Nat /\ score[k + 1] \in Int
    OBVIOUS
  <2>2. CASE k = 0
    <3>1. Best(1, 1)
      <4>1. 1 .. 1 - 1 = {} /\ \A j \in 1 .. 1 : j = 1
        OBVIOUS
      <4> QED BY <2>1, <2>2, <4>1
    <3> HIDE DEF Best
    <3> QED BY <2>1, <2>2, <3>1
  <2>3. CASE k # 0
    <3>1. PICK i \in 1 .. k : Best(k, i)
      BY <1>2, <2>3
    <3>2. i \in 1 .. n /\ score[i] \in Int /\ \A j \in 1 .. k : score[j] \in Int
      BY <2>1
    <3>3. CASE score[k + 1] <= score[i]
      <4>1. Best(k + 1, i)
        <5>1. \A j \in 1 .. k + 1 : j \in 1 .. k \/ j = k + 1
          BY <2>1
        <5> QED BY <3>1, <3>3, <5>1
      <4> HIDE DEF Best
      <4> QED BY <2>1, <4>1
    <3>4. CASE score[i] < score[k + 1]
      <4>1. Best(k + 1, k + 1)
        <5>1. \A j \in 1 .. k : score[j] < score[k + 1]
          BY <2>1, <3>1, <3>2, <3>4
        <5>2. \A j \in 1 .. k + 1 : j \in 1 .. k \/ j = k + 1
          BY <2>1
        <5>3. 1 .. (k + 1) - 1 = 1 .. k
          BY <2>1
        <5> QED BY <2>1, <3>2, <5>1, <5>2, <5>3
      <4> HIDE DEF Best
      <4> QED BY <2>1, <4>1
    <3> QED BY <2>1, <3>2, <3>3, <3>4
  <2> QED BY <2>2, <2>3
<1> HIDE DEF P
<1>3. \A k \in 0 .. n : k \in P
  BY <1>1, <1>2, Upto
<1>4. n \in P
  BY <1>3
<1> QED BY <1>4 DEF P

Trades == {"BTC LONG", "BTC SHORT", "ETH LONG", "ALT LONG"}

\* The opportunities that are dropped or that both sets of rules allow.
Fine(btc) ==
    {o \in [trade : Trades, score : Int] :
        \/ o.trade \in AnalystAnswers(btc).forbidden \ {"ALT LONG"}
        \/ o.trade \in AnalystAnswers(btc).allowed \cap ValidAnswers(MacroState(btc), BtcStrength(btc))}

\* Each opportunity is one of them: an alt is not even looked for where it is
\* forbidden, and an uptrend or a downtrend means the same to both.
LEMMA OpportunitiesAreFine ==
  ASSUME AnalystAssumption, NEW btc \in Bitcoin, NEW eth \in Coins, NEW alt \in Coins
  PROVE  Opportunities(btc, eth, alt) \in Seq(Fine(btc))
<1> DEFINE allowed == AnalystAnswers(btc).allowed
           forbidden == AnalystAnswers(btc).forbidden
           valid == ValidAnswers(MacroState(btc), BtcStrength(btc))
<1>1. /\ btc.trend \in Trends /\ btc.change \in Int /\ btc.strength \in Nat
      /\ eth.strength \in Nat /\ alt.strength \in Nat
  BY DEF Bitcoin, Coins, AnalystAssumption
<1>2. \A a, major : a.strength \in Nat => ScoreOf(a, major) \in Int
  <2> TAKE a, major
  <2>1. If(a.trend # "SIDEWAYS", 1) \in Nat
    BY DEF If
  <2> QED BY <2>1 DEF ScoreOf
<1>3. AnalystMacro(btc) = "risk_on" => btc.trend = "UPTREND" /\ ~IsWeak(btc)
  <2>1. AnalystMacro(btc) = "risk_on" => btc.trend = "UPTREND" /\ btc.change > 0
    BY DEF AnalystMacro
  <2>2. ASSUME btc.trend = "UPTREND", btc.change > 0 PROVE ~IsWeak(btc)
    <3>1. ~(btc.change < -2)
      BY <1>1, <2>2
    <3>2. AnalystWeakness(btc) = 0 + 0 + If(btc.signal = "SELL", 1)
      BY <2>2, <3>1 DEF AnalystWeakness, If
    <3>3. If(btc.signal = "SELL", 1) \in {0, 1}
      BY DEF If
    <3> QED BY <3>2, <3>3 DEF IsWeak
  <2> QED BY <2>1, <2>2
<1>4. btc.trend = "UPTREND" => {"BTC LONG", "ETH LONG", "ALT LONG", "NO TRADE"} \subseteq valid
  BY DEF MacroState, ValidAnswers
<1>5. btc.trend = "DOWNTREND" => "BTC SHORT" \in valid /\ "BTC SHORT" \in allowed
  BY DEF MacroState, ValidAnswers, AnalystAnswers, AnalystMacro
<1>6. "BTC LONG" \in forbidden \/ "BTC LONG" \in allowed
  BY DEF AnalystAnswers
<1>7. AnalystMacro(btc) = "risk_on" => "ETH LONG" \in allowed /\ "ALT LONG" \in allowed
  BY <1>3 DEF AnalystAnswers
<1> HIDE DEF allowed, forbidden, valid
<1>8. \A s \in Int, t \in Trades : t \in forbidden \ {"ALT LONG"} \/ t \in allowed \cap valid
         => [trade |-> t, score |-> s] \in Fine(btc)
  BY DEF Fine, allowed, forbidden, valid
<1> DEFINE p == IF btc.signal = "BUY" /\ btc.trend = "UPTREND"
                THEN <<[trade |-> "BTC LONG", score |-> ScoreOf(btc, TRUE)]>>
                ELSE IF btc.signal = "SELL" /\ btc.trend = "DOWNTREND"
                     THEN <<[trade |-> "BTC SHORT", score |-> ScoreOf(btc, TRUE)]>> ELSE <<>>
           q == IF AnalystMacro(btc) = "risk_on" /\ eth.trend = "UPTREND"
                THEN <<[trade |-> "ETH LONG", score |-> ScoreOf(eth, TRUE)]>> ELSE <<>>
           r == IF AnalystMacro(btc) = "risk_on" /\ alt.trend = "UPTREND"
                THEN <<[trade |-> "ALT LONG", score |-> ScoreOf(alt, FALSE)]>> ELSE <<>>
<1>9. \A o \in Fine(btc) : <<o>> \in Seq(Fine(btc))
  OBVIOUS
<1>10. p \in Seq(Fine(btc))
  <2>1. btc.trend = "UPTREND" => [trade |-> "BTC LONG", score |-> ScoreOf(btc, TRUE)] \in Fine(btc)
    <3>1. btc.trend = "UPTREND" => "BTC LONG" \in forbidden \ {"ALT LONG"} \/ "BTC LONG" \in allowed \cap valid
      BY <1>4, <1>6
    <3> QED BY <1>1, <1>2, <1>8, <3>1 DEF Trades
  <2>2. btc.trend = "DOWNTREND" => [trade |-> "BTC SHORT", score |-> ScoreOf(btc, TRUE)] \in Fine(btc)
    BY <1>1, <1>2, <1>5, <1>8 DEF Trades
  <2> QED BY <1>9, <2>1, <2>2, EmptySeq
<1>11. q \in Seq(Fine(btc))
  <2>1. AnalystMacro(btc) = "risk_on" => [trade |-> "ETH LONG", score |-> ScoreOf(eth, TRUE)] \in Fine(btc)
    BY <1>1, <1>2, <1>3, <1>4, <1>7, <1>8 DEF Trades
  <2> QED BY <1>9, <2>1, EmptySeq
<1>12. r \in Seq(Fine(btc))
  <2>1. AnalystMacro(btc) = "risk_on" => [trade |-> "ALT LONG", score |-> ScoreOf(alt, FALSE)] \in Fine(btc)
    BY <1>1, <1>2, <1>3, <1>4, <1>7, <1>8 DEF Trades
  <2> QED BY <1>9, <2>1, EmptySeq
<1>13. Opportunities(btc, eth, alt) = p \o q \o r
  BY DEF Opportunities
<1> HIDE DEF p, q, r
<1>14. p \o q \in Seq(Fine(btc))
  BY <1>10, <1>11, ConcatProperties
<1>15. (p \o q) \o r \in Seq(Fine(btc))
  BY <1>12, <1>14, ConcatProperties
<1> QED BY <1>13, <1>15

LEMMA DecisionIsAllowed ==
  ASSUME AnalystAssumption, NEW btc \in Bitcoin, NEW eth \in Coins, NEW alt \in Coins
  PROVE  Decision(btc, eth, alt) \in AnalystAnswers(btc).allowed
                                     \cap ValidAnswers(MacroState(btc), BtcStrength(btc))
<1> DEFINE found == Opportunities(btc, eth, alt)
           Best(i) == /\ \A j \in DOMAIN found : found[j].score <= found[i].score
                      /\ \A j \in 1 .. i - 1 : found[j].score < found[i].score
           best == CHOOSE i \in DOMAIN found : Best(i)
<1>1. "NO TRADE" \in AnalystAnswers(btc).allowed \cap ValidAnswers(MacroState(btc), BtcStrength(btc))
  BY DEF AnalystAnswers, ValidAnswers
<1>2. Decision(btc, eth, alt) =
        IF found = <<>> THEN "NO TRADE"
        ELSE IF found[best].trade \in AnalystAnswers(btc).forbidden \ {"ALT LONG"} THEN "NO TRADE"
        ELSE found[best].trade
  BY DEF Decision
<1>3. found \in Seq(Fine(btc))
  BY OpportunitiesAreFine
<1> HIDE DEF found
<1>4. ASSUME found # <<>> PROVE best \in DOMAIN found
  <2>1. Len(found) \in Nat \ {0} /\ DOMAIN found = 1 .. Len(found)
        /\ \A i \in 1 .. Len(found) : found[i] \in Fine(btc)
    BY <1>3, <1>4, EmptySeq, LenProperties, ElementOfSeq
  <2> DEFINE score == [i \in 1 .. Len(found) |-> found[i].score]
  <2>2. \A i \in 1 .. Len(found) : score[i] \in Int /\ score[i] = found[i].score
    BY <2>1 DEF Fine
  <2> HIDE DEF score
  <2>3. PICK i \in 1 .. Len(found) : /\ \A j \in 1 .. Len(found) : score[j] <= score[i]
                                     /\ \A j \in 1 .. i - 1 : score[j] < score[i]
    BY <2>1, <2>2, FirstBest
  <2>4. \A j \in 1 .. i - 1 : j \in 1 .. Len(found)
    BY <2>1
  <2>5. Best(i)
    BY <2>1, <2>2, <2>3, <2>4
  <2> HIDE DEF Best
  <2> QED BY <2>1, <2>5
<1> HIDE DEF best
<1>5. found # <<>> => found[best] \in Fine(btc)
  BY <1>3, <1>4, LenProperties, ElementOfSeq
<1> QED BY <1>1, <1>2, <1>5 DEF Fine

\* For any momentum and any strengths of BTC, ETH and the alt, what WorkflowAnalyzer decides is among
\* the answers its own rules allow and among those of get_valid_trading_answers,
\* two texts with different names and orders of tests.
THEOREM AnalystsAgreeHolds == AnalystSpec => []AnalystsAgree
<1>1. AnalystInit => AnalystsAgree
  BY DEF AnalystInit, AnalystsAgree
<1>2. AnalystsAgree /\ [AnalystNext]_advice => AnalystsAgree'
  <2> SUFFICES ASSUME AnalystsAgree, [AnalystNext]_advice PROVE AnalystsAgree'
    OBVIOUS
  <2>1. CASE AnalystNext
    <3>1. PICK btc \in Bitcoin, eth \in Coins, alt \in Coins, extreme \in BOOLEAN :
             Analyze(btc, eth, alt, extreme)
      BY <2>1 DEF AnalystNext
    <3>2. /\ advice'.decision = Decision(btc, eth, alt)
          /\ advice'.allowed = AnalystAnswers(btc).allowed
          /\ advice'.valid = ValidAnswers(MacroState(btc), BtcStrength(btc))
      BY <3>1 DEF Analyze
    <3> QED BY <3>2, DecisionIsAllowed, AnalystAssumption DEF AnalystsAgree
  <2>2. CASE UNCHANGED advice
    BY <2>2 DEF AnalystsAgree
  <2> QED BY <2>1, <2>2
<1> QED BY <1>1, <1>2, PTL DEF AnalystSpec

(***************************************************************************)
(* TradePlan                                                               *)
(***************************************************************************)

\* A finite set of integers that is not empty has a greatest element.
LEMMA OfTwo ==
    ASSUME NEW a \in Int, NEW b \in Int
    PROVE  /\ Min({a, b}) \in {a, b} /\ Min({a, b}) <= a /\ Min({a, b}) <= b
           /\ Max({a, b}) \in {a, b} /\ a <= Max({a, b}) /\ b <= Max({a, b})
<1> DEFINE S == {a, b}
<1>1. S \in SUBSET Int /\ S # {} /\ IsFiniteSet(S) /\ a \in S /\ b \in S
  <2>1. {a, b} = {a} \union {b}
    OBVIOUS
  <2>2. IsFiniteSet({a}) /\ IsFiniteSet({b})
    BY FS_Singleton
  <2>3. IsFiniteSet({a} \union {b})
    BY <2>2, FS_Union
  <2>4. IsFiniteSet({a, b})
    BY <2>1, <2>3
  <2> QED BY <2>4
<1> HIDE DEF S
<1>2. /\ Min(S) \in S /\ \A y \in S : Min(S) <= y
      /\ Max(S) \in S /\ \A y \in S : y <= Max(S)
  BY <1>1, GreatestElement, SmallestElement
<1>3. Min(S) \in S /\ Min(S) <= a /\ Min(S) <= b /\ Max(S) \in S /\ a <= Max(S) /\ b <= Max(S)
  BY <1>1, <1>2
<1> QED BY <1>3 DEF S

Bars == [low : Nat, high : Nat, close : Nat, volume : Nat]
Bounded(c) == c.low <= c.close /\ c.close <= c.high
Recent(cs) == SubSeq(cs, Max({1, Len(cs) - RecentWindow + 1}), Len(cs))

\* Candles that are not empty have a lowest and a highest price.
LEMMA RangeOfCandles ==
    ASSUME NEW cs \in Seq(Bars), cs # <<>>
    PROVE  /\ LowOf(cs) \in Nat /\ HighOf(cs) \in Nat
           /\ \A c \in Range(cs) : LowOf(cs) <= c.low /\ c.high <= HighOf(cs)
<1>1. /\ Range(cs) = {cs[i] : i \in 1 .. Len(cs)} /\ Len(cs) \in Nat /\ 1 \in 1 .. Len(cs)
  BY DEF Range
<1>2. IsFiniteSet(1 .. Len(cs))
  BY <1>1, FS_Interval
<1>3. IsFiniteSet(Range(cs)) /\ Range(cs) # {} /\ Range(cs) \subseteq Bars
  <2>1. cs = [i \in DOMAIN cs |-> cs[i]] /\ DOMAIN cs = 1 .. Len(cs)
    OBVIOUS
  <2>2. IsFiniteSet({cs[i] : i \in DOMAIN cs})
    BY <1>2, <2>1, FewValues
  <2> QED BY <1>1, <2>1, <2>2
<1> DEFINE lows == {c.low : c \in Range(cs)}
           highs == {c.high : c \in Range(cs)}
<1>4. /\ IsFiniteSet(lows) /\ lows # {} /\ lows \in SUBSET Int /\ lows \subseteq Nat
      /\ IsFiniteSet(highs) /\ highs # {} /\ highs \in SUBSET Int /\ highs \subseteq Nat
  <2>1. IsFiniteSet(lows)
    <3> DEFINE f == [c \in Range(cs) |-> c.low]
    <3>1. f = [c \in DOMAIN f |-> f[c]] /\ DOMAIN f = Range(cs) /\ lows = {f[c] : c \in Range(cs)}
      OBVIOUS
    <3> HIDE DEF f
    <3>2. IsFiniteSet({f[c] : c \in DOMAIN f})
      BY <1>3, <3>1, FewValues
    <3> QED BY <3>1, <3>2
  <2>2. IsFiniteSet(highs)
    <3> DEFINE f == [c \in Range(cs) |-> c.high]
    <3>1. f = [c \in DOMAIN f |-> f[c]] /\ DOMAIN f = Range(cs) /\ highs = {f[c] : c \in Range(cs)}
      OBVIOUS
    <3> HIDE DEF f
    <3>2. IsFiniteSet({f[c] : c \in DOMAIN f})
      BY <1>3, <3>1, FewValues
    <3> QED BY <3>1, <3>2
  <2>3. lows \subseteq Nat /\ highs \subseteq Nat
    BY <1>3 DEF Bars
  <2> QED BY <1>3, <2>1, <2>2, <2>3
<1>5. \A c \in Range(cs) : c.low \in lows /\ c.high \in highs
  OBVIOUS
<1>6. LowOf(cs) = Min(lows) /\ HighOf(cs) = Max(highs)
  BY DEF LowOf, HighOf
<1> HIDE DEF lows, highs
<1>7. /\ Min(lows) \in lows /\ \A y \in lows : Min(lows) <= y
      /\ Max(highs) \in highs /\ \A y \in highs : y <= Max(highs)
  BY <1>4, GreatestElement, SmallestElement
<1> QED BY <1>4, <1>5, <1>6, <1>7

\* The last two candles are recent ones.
LEMMA LastTwoAreRecent ==
    ASSUME DeskAssumption, NEW cs \in Seq(Bars), cs # <<>>
    PROVE  /\ Recent(cs) \in Seq(Bars) /\ Recent(cs) # <<>>
           /\ \A i \in 1 .. Len(cs) : i >= Len(cs) - 1 => cs[i] \in Range(Recent(cs))
<1> DEFINE n == Len(cs)
           m == Max({1, n - RecentWindow + 1})
<1>1. n \in Nat \ {0} /\ RecentWindow \in Nat /\ RecentWindow >= 2
  BY DEF DeskAssumption
<1>2. m \in Nat /\ m >= 1 /\ m <= n /\ (n >= 2 => m <= n - 1)
  <2>1. 1 \in Int /\ n - RecentWindow + 1 \in Int
    BY <1>1
  <2>2. m \in {1, n - RecentWindow + 1} /\ 1 <= m
    BY <2>1, OfTwo
  <2> HIDE DEF m, n
  <2> QED BY <1>1, <2>2
<1>3. Recent(cs) = SubSeq(cs, m, n)
  BY DEF Recent
<1> HIDE DEF m
<1>4. /\ SubSeq(cs, m, n) \in Seq(Bars)
      /\ Len(SubSeq(cs, m, n)) = n - m + 1
      /\ \A i \in 1 .. n - m + 1 : SubSeq(cs, m, n)[i] = cs[m + i - 1]
  BY <1>1, <1>2, SubSeqProperties
<1> DEFINE r == Recent(cs)
<1>5. r \in Seq(Bars) /\ r # <<>> /\ DOMAIN r = 1 .. n - m + 1
  <2>1. Len(r) = n - m + 1 /\ r \in Seq(Bars) /\ n - m + 1 >= 1
    BY <1>1, <1>2, <1>3, <1>4
  <2> HIDE DEF r
  <2> QED BY <2>1
<1>6. ASSUME NEW i \in 1 .. n, i >= n - 1 PROVE cs[i] \in Range(r)
  <2>1. i - m + 1 \in 1 .. n - m + 1 /\ m + (i - m + 1) - 1 = i
    BY <1>1, <1>2, <1>6
  <2>2. r[i - m + 1] = cs[i]
    BY <1>3, <1>4, <2>1
  <2> QED BY <1>5, <2>1, <2>2 DEF Range
<1> QED BY <1>5, <1>6

\* Whatever bins are chosen, the nodes are finitely many prices.
LEMMA FewNodes ==
    ASSUME NEW p, IsFiniteSet(DOMAIN p), \A i \in DOMAIN p : p[i].price \in Int,
           NEW K \in SUBSET DOMAIN p
    PROVE  /\ {p[k].price : k \in K} \in SUBSET Int
           /\ IsFiniteSet({p[k].price : k \in K})
<1> DEFINE f == [k \in K |-> p[k].price]
<1>1. IsFiniteSet(K)
  BY FS_Subset
<1>2. /\ f = [k \in DOMAIN f |-> f[k]] /\ DOMAIN f = K
      /\ {p[k].price : k \in K} = {f[k] : k \in K}
  OBVIOUS
<1> HIDE DEF f
<1>3. IsFiniteSet({f[k] : k \in DOMAIN f})
  BY <1>1, <1>2, FewValues
<1> QED BY <1>2, <1>3

LEMMA LevelsSound ==
    ASSUME DeskAssumption, NEW cs \in Seq(Bars), cs # <<>>
    PROVE  /\ KeyLevels(cs).low = LowOf(Recent(cs)) * Bins
           /\ KeyLevels(cs).high = HighOf(Recent(cs)) * Bins
           /\ KeyLevels(cs).lvn \in SUBSET Int /\ IsFiniteSet(KeyLevels(cs).lvn)
           /\ KeyLevels(cs).hvn \in SUBSET Int /\ IsFiniteSet(KeyLevels(cs).hvn)
<1> DEFINE low == LowOf(cs)
           high == HighOf(cs)
           p == Profile(cs)
<1>1. low \in Nat /\ high \in Nat /\ Bins \in Nat
  BY RangeOfCandles DEF DeskAssumption
<1>2. IsFiniteSet(DOMAIN p) /\ \A i \in DOMAIN p : p[i].price \in Int
  <2>1. CASE low = high
    <3> DEFINE v == MapThenSumSet(LAMBDA i : cs[i].volume, DOMAIN cs)
    <3>1. p = <<[price |-> low * Bins, volume |-> v]>>
      BY <2>1 DEF Profile
    <3> HIDE DEF v
    <3>2. DOMAIN p = {1} /\ p[1].price = low * Bins
      BY <3>1
    <3>3. low * Bins \in Int
      BY <1>1
    <3>4. IsFiniteSet({1})
      BY FS_Singleton
    <3> QED BY <3>2, <3>3, <3>4
  <2>2. CASE low # high
    <3> DEFINE V(b) == MapThenSumSet(LAMBDA i : Share(cs[i], b, cs), DOMAIN cs)
    <3>1. p = [b \in 1 .. Bins |-> [price |-> low * Bins + (b - 1) * (high - low),
                                    volume |-> V(b - 1)]]
      BY <2>2 DEF Profile
    <3> HIDE DEF V
    <3>2. DOMAIN p = 1 .. Bins
          /\ \A b \in 1 .. Bins : p[b].price = low * Bins + (b - 1) * (high - low)
      BY <3>1
    <3>3. \A b \in 1 .. Bins : low * Bins + (b - 1) * (high - low) \in Int
      BY <1>1
    <3>4. IsFiniteSet(1 .. Bins)
      BY <1>1, FS_Interval
    <3> QED BY <3>2, <3>3, <3>4
  <2> QED BY <2>1, <2>2
<1> HIDE DEF p
<1>3. Lvn(p) \in SUBSET Int /\ IsFiniteSet(Lvn(p))
  BY <1>2, FewNodes DEF Lvn, FirstNodes
<1>4. Hvn(p) \in SUBSET Int /\ IsFiniteSet(Hvn(p))
  BY <1>2, FewNodes DEF Hvn, FirstNodes
<1>5. KeyLevels(cs) = [low |-> LowOf(Recent(cs)) * Bins, high |-> HighOf(Recent(cs)) * Bins,
                       lvn |-> Lvn(p), hvn |-> Hvn(p)]
  BY DEF KeyLevels, Recent, p
<1> QED BY <1>3, <1>4, <1>5

\* The nearest node on a side of the price lies on that side.
LEMMA NearestNodes ==
    ASSUME NEW N \in SUBSET Int, IsFiniteSet(N), NEW p \in Int, NEW o
    PROVE  /\ NextAbove(N, p, o) = o \/ (NextAbove(N, p, o) \in Int /\ NextAbove(N, p, o) > p)
           /\ NextBelow(N, p, o) = o \/ (NextBelow(N, p, o) \in Int /\ NextBelow(N, p, o) < p)
<1> DEFINE above == {n \in N : n > p}
           below == {n \in N : n < p}
<1>1. above \in SUBSET Int /\ IsFiniteSet(above) /\ below \in SUBSET Int /\ IsFiniteSet(below)
  BY FS_Subset
<1>2. above # {} => Min(above) \in above
  <2> HIDE DEF above
  <2> QED BY <1>1, SmallestElement
<1>3. below # {} => Max(below) \in below
  <2> HIDE DEF below
  <2> QED BY <1>1, GreatestElement
<1>4. NextAbove(N, p, o) = IF above = {} THEN o ELSE Min(above)
  BY DEF NextAbove
<1>5. NextBelow(N, p, o) = IF below = {} THEN o ELSE Max(below)
  BY DEF NextBelow
<1>6. NextAbove(N, p, o) = o \/ (NextAbove(N, p, o) \in Int /\ NextAbove(N, p, o) > p)
  BY <1>2, <1>4
<1>7. NextBelow(N, p, o) = o \/ (NextBelow(N, p, o) \in Int /\ NextBelow(N, p, o) < p)
  BY <1>3, <1>5
<1> QED BY <1>6, <1>7

Faces(direction, price, entry, target) ==
    IF direction = "BUY" THEN entry <= price /\ entry < target
    ELSE price <= entry /\ target < entry

\* With a price between the recent low and high the plan faces its target.
LEMMA PlanFaces ==
    ASSUME NEW l, l.lvn \in SUBSET Int, IsFiniteSet(l.lvn), l.hvn \in SUBSET Int, IsFiniteSet(l.hvn),
           l.low \in Int, l.high \in Int, l.low < l.high,
           NEW p \in Int, l.low <= p, p <= l.high, NEW d
    PROVE  Faces(d, p, EntryOf(d, p, l), TargetOf(d, EntryOf(d, p, l), l))
<1> DEFINE e == EntryOf(d, p, l)
           t == TargetOf(d, e, l)
<1>1. CASE d = "BUY"
  <2>1. e = NextBelow(l.lvn, p, l.low)
    BY <1>1 DEF EntryOf
  <2>2. e \in Int /\ e <= p /\ e < l.high
    BY <2>1, NearestNodes
  <2>3. t = NextAbove(l.hvn, e, l.high)
    BY <1>1 DEF TargetOf
  <2> HIDE DEF e
  <2>4. t \in Int /\ e < t
    BY <2>2, <2>3, NearestNodes
  <2> QED BY <1>1, <2>2, <2>4 DEF Faces, e
<1>2. CASE d # "BUY"
  <2>1. e = NextAbove(l.hvn, p, l.high)
    BY <1>2 DEF EntryOf
  <2>2. e \in Int /\ p <= e /\ l.low < e
    BY <2>1, NearestNodes
  <2>3. t = NextBelow(l.lvn, e, l.low)
    BY <1>2 DEF TargetOf
  <2> HIDE DEF e
  <2>4. t \in Int /\ t < e
    BY <2>2, <2>3, NearestNodes
  <2> QED BY <1>2, <2>2, <2>4 DEF Faces, e
<1> QED BY <1>1, <1>2

\* What every step keeps: while the command waits for its candles the price it
\* read is inside the open candle, or the one before it if a tick has come since.
DeskInv ==
    /\ chart \in Seq(Bars) /\ chart # <<>>
    /\ \A i \in 1 .. Len(chart) : Bounded(chart[i])
    /\ ticks \in Nat
    /\ order \in [step : {"none", "priced", "done"}, direction : {"BUY", "SELL"},
                  coin : {"major", "small"}, risk : {"LOW", "MODERATE", "HIGH"},
                  price : Nat, since : Nat]
    /\ order.step = "priced" =>
          /\ order.since <= ticks
          /\ \E i \in 1 .. Len(chart) :
                /\ i >= Len(chart) - 1 /\ (ticks = order.since => i = Len(chart))
                /\ chart[i].low <= order.price /\ order.price <= chart[i].high
    /\ PlansFaceTheirTarget

LEMMA DeskInitially == ASSUME DeskAssumption, DeskInit PROVE DeskInv
<1>1. PICK p \in Ticks : chart = <<Candle(p)>>
  BY DEF DeskInit
<1>2. p \in Nat /\ Lot \in Nat
  BY DEF DeskAssumption
<1>3. Candle(p) \in Bars /\ Bounded(Candle(p))
  BY <1>2 DEF Candle, Bars, Bounded
<1>4. chart \in Seq(Bars) /\ chart # <<>> /\ \A i \in 1 .. Len(chart) : Bounded(chart[i])
  BY <1>1, <1>3
<1> QED BY <1>4 DEF DeskInit, DeskInv, NoOrder, NoPlan, PlansFaceTheirTarget

LEMMA MarketKeeps ==
    ASSUME DeskAssumption, DeskInv, NEW p \in Ticks, NEW closes \in BOOLEAN, MarketMoves(p, closes)
    PROVE  DeskInv'
<1> DEFINE n == Len(chart)
<1>1. p \in Nat /\ Lot \in Nat /\ n \in Nat \ {0} /\ ticks' = ticks + 1 /\ ticks' \in Nat
  BY DEF DeskAssumption, DeskInv, MarketMoves
<1>2. \A i \in 1 .. n : chart[i] \in Bars /\ Bounded(chart[i])
  BY DEF DeskInv
<1>3. /\ chart' \in Seq(Bars) /\ chart' # <<>> /\ Len(chart') \in {n, n + 1}
      /\ \A i \in 1 .. Len(chart') : Bounded(chart'[i])
      /\ Len(chart') = n + 1 => chart'[n] = chart[n]
      /\ Len(chart') = n => chart'[n].low <= chart[n].low /\ chart[n].high <= chart'[n].high
  <2>1. CASE closes
    <3>1. chart' = Append(chart, Candle(p))
      BY <2>1 DEF MarketMoves
    <3>2. Candle(p) \in Bars /\ Bounded(Candle(p))
      BY <1>1 DEF Candle, Bars, Bounded
    <3> DEFINE c == Candle(p)
    <3> HIDE DEF c
    <3>3. /\ Append(chart, c) \in Seq(Bars) /\ Len(Append(chart, c)) = n + 1
          /\ \A i \in 1 .. n : Append(chart, c)[i] = chart[i]
          /\ Append(chart, c)[n + 1] = c
      BY <3>2 DEF DeskInv, c
    <3>4. chart' = Append(chart, c)
      BY <3>1 DEF c
    <3>5. \A i \in 1 .. n + 1 : Bounded(chart'[i])
      <4> TAKE i \in 1 .. n + 1
      <4>1. i \in 1 .. n \/ i = n + 1
        BY <1>1
      <4> QED BY <1>2, <3>2, <3>3, <3>4, <4>1 DEF c
    <3>6. chart' # <<>>
      BY <1>1, <3>3, <3>4
    <3> QED BY <1>1, <3>3, <3>4, <3>5, <3>6
  <2>2. CASE ~closes
    <3> DEFINE c == chart[n]
               w == With(c, p)
    <3>1. chart' = [chart EXCEPT ![n] = w]
      BY <2>2 DEF MarketMoves
    <3>2. c \in Bars /\ c.low \in Nat /\ c.high \in Nat /\ c.volume \in Nat
      BY <1>1, <1>2 DEF Bars
    <3> HIDE DEF c
    <3>3. /\ Min({c.low, p}) \in {c.low, p} /\ Min({c.low, p}) <= c.low /\ Min({c.low, p}) <= p
          /\ Max({c.high, p}) \in {c.high, p} /\ c.high <= Max({c.high, p}) /\ p <= Max({c.high, p})
      <4>1. c.low \in Int /\ c.high \in Int /\ p \in Int
        BY <1>1, <3>2
      <4> QED BY <4>1, OfTwo
    <3>4. w = [low |-> Min({c.low, p}), high |-> Max({c.high, p}), close |-> p,
               volume |-> c.volume + Lot]
      BY DEF With
    <3>5. /\ w \in Bars /\ Bounded(w) /\ w.low <= c.low /\ c.high <= w.high
      BY <1>1, <3>2, <3>3, <3>4 DEF Bars, Bounded
    <3> HIDE DEF w
    <3>6. /\ chart' \in Seq(Bars) /\ Len(chart') = n
          /\ chart'[n] = w /\ \A i \in 1 .. n : i # n => chart'[i] = chart[i]
      BY <1>1, <3>1, <3>5 DEF DeskInv
    <3>7. \A i \in 1 .. n : Bounded(chart'[i])
      BY <1>2, <3>5, <3>6
    <3>8. chart' # <<>>
      BY <1>1, <3>6
    <3> QED BY <1>1, <3>5, <3>6, <3>7, <3>8 DEF c
  <2> QED BY <2>1, <2>2
<1>4. UNCHANGED <<order, plan>>
  BY DEF MarketMoves
<1>5. ASSUME order.step = "priced"
      PROVE  /\ order.since <= ticks' /\ ticks' # order.since
             /\ \E i \in 1 .. Len(chart') :
                  /\ i >= Len(chart') - 1
                  /\ chart'[i].low <= order.price /\ order.price <= chart'[i].high
  <2>1. ticks = order.since
    BY <1>5 DEF MarketMoves
  <2>2. chart[n].low <= order.price /\ order.price <= chart[n].high
    BY <1>5, <2>1 DEF DeskInv
  <2>3. n \in 1 .. Len(chart') /\ n >= Len(chart') - 1
    BY <1>1, <1>3
  <2>4. chart'[n].low <= order.price /\ order.price <= chart'[n].high
    <3>1. CASE Len(chart') = n + 1
      BY <1>3, <2>2, <3>1
    <3>2. CASE Len(chart') = n
      <4>1. chart'[n] \in Bars /\ chart[n] \in Bars /\ order.price \in Nat
        BY <1>1, <1>2, <1>3, <2>3 DEF DeskInv
      <4>2. /\ chart'[n].low \in Nat /\ chart'[n].high \in Nat
            /\ chart[n].low \in Nat /\ chart[n].high \in Nat
        BY <4>1 DEF Bars
      <4> QED BY <1>3, <2>2, <3>2, <4>1, <4>2
    <3> QED BY <1>3, <3>1, <3>2
  <2>5. order.since <= ticks' /\ ticks' # order.since
    BY <1>1, <2>1 DEF DeskInv
  <2> QED BY <2>3, <2>4, <2>5
<1>6. PlansFaceTheirTarget'
  BY <1>4 DEF DeskInv, PlansFaceTheirTarget
<1> QED BY <1>1, <1>3, <1>4, <1>5, <1>6 DEF DeskInv

LEMMA ReadPriceKeeps ==
    ASSUME DeskInv, NEW d \in {"BUY", "SELL"}, NEW c \in {"major", "small"},
           NEW r \in {"LOW", "MODERATE", "HIGH"}, ReadPrice(d, c, r)
    PROVE  DeskInv'
<1> DEFINE n == Len(chart)
<1>1. n \in Nat \ {0} /\ chart[n] \in Bars /\ Bounded(chart[n])
  BY DEF DeskInv
<1>2. order' = [step |-> "priced", direction |-> d, coin |-> c, risk |-> r,
                price |-> chart[n].close, since |-> ticks]
  BY DEF ReadPrice
<1>3. UNCHANGED <<chart, ticks, plan>>
  BY DEF ReadPrice
<1>4. chart[n].close \in Nat
  BY <1>1 DEF Bars
<1>5. /\ order' \in [step : {"none", "priced", "done"}, direction : {"BUY", "SELL"},
                     coin : {"major", "small"}, risk : {"LOW", "MODERATE", "HIGH"},
                     price : Nat, since : Nat]
      /\ order'.since = ticks /\ order'.price = chart[n].close
  BY <1>2, <1>4 DEF DeskInv
<1>6. /\ n \in 1 .. Len(chart) /\ n >= n - 1
      /\ chart[n].low <= order'.price /\ order'.price <= chart[n].high
  BY <1>1, <1>5 DEF Bounded
<1>7. ticks \in Nat
  BY DEF DeskInv
<1>8. PlansFaceTheirTarget'
  BY <1>3 DEF DeskInv, PlansFaceTheirTarget
<1> QED BY <1>3, <1>5, <1>6, <1>7, <1>8 DEF DeskInv

LEMMA LivePlanFaces ==
    ASSUME DeskAssumption, DeskInv, order.step = "priced", MakePlan(TRUE, chart)
    PROVE  PlansFaceTheirTarget'
<1> DEFINE l == KeyLevels(chart)
           p == order.price * Bins
           e == EntryOf(order.direction, p, l)
           t == TargetOf(order.direction, e, l)
<1>1. chart \in Seq(Bars) /\ chart # <<>> /\ order.price \in Nat /\ Bins \in Nat
  BY DEF DeskInv, DeskAssumption
<1>2. PICK i \in 1 .. Len(chart) : /\ i >= Len(chart) - 1
                                   /\ chart[i].low <= order.price /\ order.price <= chart[i].high
  BY DEF DeskInv
<1>3. /\ Recent(chart) \in Seq(Bars) /\ Recent(chart) # <<>> /\ chart[i] \in Range(Recent(chart))
  BY <1>1, <1>2, LastTwoAreRecent
<1> DEFINE low == LowOf(Recent(chart))
           high == HighOf(Recent(chart))
<1>4. low \in Nat /\ high \in Nat /\ low <= chart[i].low /\ chart[i].high <= high
  BY <1>3, RangeOfCandles
<1>5. chart[i].low \in Nat /\ chart[i].high \in Nat
  <2>1. chart[i] \in Bars
    BY <1>1
  <2> QED BY <2>1 DEF Bars
<1> HIDE DEF low, high
<1>6. low <= order.price /\ order.price <= high
  BY <1>1, <1>2, <1>4, <1>5
<1>7. /\ low * Bins \in Int /\ high * Bins \in Int /\ p \in Int
      /\ low * Bins <= p /\ p <= high * Bins
  BY <1>1, <1>4, <1>6, MulMonotone, SMTT(30)
<1>8. /\ l.low = low * Bins /\ l.high = high * Bins
      /\ l.lvn \in SUBSET Int /\ IsFiniteSet(l.lvn) /\ l.hvn \in SUBSET Int /\ IsFiniteSet(l.hvn)
  BY <1>1, LevelsSound DEF low, high
<1>9. l.low < l.high => Faces(order.direction, p, e, t)
  <2> HIDE DEF l, p
  <2> QED BY <1>7, <1>8, PlanFaces
<1>10. \/ plan' = NoPlan
       \/ /\ plan'.direction = order.direction /\ plan'.price = p /\ plan'.entry = e
          /\ plan'.target = t /\ plan'.low = l.low /\ plan'.high = l.high
  <2>1. plan' = IF ~SizeIsValid(order.coin) THEN NoPlan
                ELSE [made |-> TRUE, live |-> TRUE, direction |-> order.direction,
                      price |-> p, entry |-> e, target |-> t, low |-> l.low, high |-> l.high,
                      size |-> SizeFor(order.risk),
                      leverage |-> RecommendedLeverage(order.coin),
                      poor |-> IsPoor(e, t, order.direction)]
    BY DEF MakePlan
  <2> HIDE DEF l, p, e, t
  <2> QED BY <2>1
<1> HIDE DEF l, p, e, t
<1>11. CASE plan' = NoPlan
  BY <1>11 DEF NoPlan, PlansFaceTheirTarget
<1>12. CASE plan' # NoPlan
  <2>1. /\ plan'.direction = order.direction /\ plan'.price = p /\ plan'.entry = e
        /\ plan'.target = t /\ plan'.low = l.low /\ plan'.high = l.high
    BY <1>10, <1>12
  <2> QED BY <1>9, <2>1 DEF Faces, PlansFaceTheirTarget
<1> QED BY <1>11, <1>12

LEMMA ReadCandlesKeeps ==
    ASSUME DeskAssumption, DeskInv, ReadCandles
    PROVE  DeskInv'
<1>1. UNCHANGED <<chart, ticks>> /\ order.step = "priced" /\ order' = [order EXCEPT !.step = "done"]
  BY DEF ReadCandles
<1>2. /\ order' \in [step : {"none", "priced", "done"}, direction : {"BUY", "SELL"},
                     coin : {"major", "small"}, risk : {"LOW", "MODERATE", "HIGH"},
                     price : Nat, since : Nat]
      /\ order'.step = "done"
  BY <1>1 DEF DeskInv
<1>3. PlansFaceTheirTarget'
  <2>1. CASE MakePlan(TRUE, chart)
    BY <1>1, <2>1, LivePlanFaces
  <2>2. CASE \E k \in 1 .. Len(chart) - 1 : MakePlan(FALSE, SubSeq(chart, 1, k))
    <3>1. PICK k : MakePlan(FALSE, SubSeq(chart, 1, k))
      BY <2>2
    <3>2. ~plan'.made \/ ~plan'.live
      BY <3>1 DEF MakePlan, NoPlan
    <3> QED BY <3>2 DEF PlansFaceTheirTarget
  <2> QED BY <2>1, <2>2 DEF ReadCandles
<1> QED BY <1>1, <1>2, <1>3 DEF DeskInv

LEMMA FetchFailsKeeps == ASSUME DeskInv, FetchFails PROVE DeskInv'
<1>1. UNCHANGED <<chart, ticks, plan>> /\ order' = [order EXCEPT !.step = "done"]
  BY DEF FetchFails
<1>2. /\ order' \in [step : {"none", "priced", "done"}, direction : {"BUY", "SELL"},
                     coin : {"major", "small"}, risk : {"LOW", "MODERATE", "HIGH"},
                     price : Nat, since : Nat]
      /\ order'.step = "done"
  BY <1>1 DEF DeskInv
<1>3. PlansFaceTheirTarget'
  BY <1>1 DEF DeskInv, PlansFaceTheirTarget
<1> QED BY <1>1, <1>2, <1>3 DEF DeskInv

\* However far the market moves between the price that trade reads and its candles, and whatever
\* profile those give, a plan of create_trade_plan enters at the price or better and
\* has its target on the winning side of the entry: no level of find_entry_target
\* is taken on the wrong side.
THEOREM PlansFaceTheirTargetHolds == DeskSpec => []PlansFaceTheirTarget
<1>1. DeskInit => DeskInv
  BY DeskInitially, DeskAssumption
<1>2. DeskInv /\ [DeskNext]_deskVars => DeskInv'
  <2> SUFFICES ASSUME DeskInv, [DeskNext]_deskVars PROVE DeskInv'
    OBVIOUS
  <2>1. CASE \E p \in Ticks, closes \in BOOLEAN : MarketMoves(p, closes)
    BY <2>1, MarketKeeps, DeskAssumption
  <2>2. CASE \E direction \in {"BUY", "SELL"}, coin \in {"major", "small"},
                risk \in {"LOW", "MODERATE", "HIGH"} : ReadPrice(direction, coin, risk)
    BY <2>2, ReadPriceKeeps, DeskAssumption
  <2>3. CASE ReadCandles
    BY <2>3, ReadCandlesKeeps, DeskAssumption
  <2>4. CASE FetchFails
    BY <2>4, FetchFailsKeeps, DeskAssumption
  <2>5. CASE UNCHANGED deskVars
    BY <2>5 DEF deskVars, DeskInv, PlansFaceTheirTarget
  <2> QED BY <2>1, <2>2, <2>3, <2>4, <2>5 DEF DeskNext
<1>3. DeskInv => PlansFaceTheirTarget
  BY DEF DeskInv
<1> QED BY <1>1, <1>2, <1>3, PTL DEF DeskSpec

(***************************************************************************)
(* ThreePhase                                                              *)
(***************************************************************************)

Statuses == {"none", "SHOCK", "CONFIRM", "NO_TRADE"}
Shock == [status : Statuses, long : BOOLEAN, high : Nat, low : Nat, age : Nat]

\* A trader acts on what its own shock came to.
FollowsItsShock(t, k) ==
    /\ t.phase \in {"NO_MOVEMENT", "SHOCK", "CONFIRMATION"}
    /\ t.phase = "CONFIRMATION" => k.status = "CONFIRM"
    /\ t.gate = "none" => FailedCheck(t.criteria, t.least) = "none"
    /\ t.decision = "EXECUTE TRADE" => t.phase = "CONFIRMATION" /\ t.gate = "none"

\* The extremes of a shock surround the entry, and a price that was lost too
\* much against the entry has ended it.
EndsWhenLost(k, lost) ==
    /\ k.high >= Entry /\ k.low <= Entry
    /\ lost => k.status = "NO_TRADE"

TraderFields == {"phase", "gate", "criteria", "least", "decision", "avoidance"}

PhaseTypes ==
    /\ shock \in [Watched -> Shock]
    /\ DOMAIN trader = Watched
    /\ \A s \in Watched : DOMAIN trader[s] = TraderFields

Faithful(s) == FollowsItsShock(trader[s], shock[s]) /\ EndsWhenLost(shock[s], s \in slumped)

PhaseInv == PhaseTypes /\ \A s \in Watched : Faithful(s)

-----------------------------------------------------------------------------

LEMMA ScaledOrder == \A t, a, b \in Nat : a <= b => t * a <= t * b
  OBVIOUS

LEMMA ThreeTimes == \A t, a \in Nat : 3 * t * a = 3 * (t * a)
  OBVIOUS

\* A price that has lost too much against the entry has lost too much against
\* the best price seen, and has not confirmed the shock.
LEMMA LostIsAdverse ==
  ASSUME PhaseAssumption, NEW k \in Shock, NEW p \in Quotes,
         k.high >= Entry, k.low <= Entry, Lost(k, p)
  PROVE  Adverse(k, p) /\ ~Moved(k, p)
<1> DEFINE scaled(x) == TriggerBps * x
<1>1. /\ Entry \in Nat /\ Entry > 0 /\ TriggerBps \in Nat /\ p \in Nat /\ p > 0
      /\ k.high \in Nat /\ k.low \in Nat
  BY DEF PhaseAssumption, Shock
<1>2. /\ scaled(Entry) \in Nat /\ scaled(k.high) \in Nat /\ scaled(k.low) \in Nat
      /\ scaled(k.low) <= scaled(Entry)
      /\ scaled(k.high) = scaled(Entry) + scaled(k.high - Entry)
  BY <1>1, ScaledOrder
<1>3. CASE k.long
  <2>1. 20000 * (Entry - p) > 3 * scaled(Entry)
    BY <1>1, <1>3, ThreeTimes DEF Lost
  <2>2. 20000 * (k.high - p) > 3 * scaled(k.high)
    <3>1. TriggerBps * 3 < 20000
      <4>1. SUFFICES ASSUME TriggerBps * 3 >= 20000 PROVE FALSE
        BY <1>1
      <4>2. \A t, e \in Nat : 3 * t >= 20000 => 3 * (t * e) >= 20000 * e
        OBVIOUS
      <4>3. 3 * scaled(Entry) >= 20000 * Entry
        BY <1>1, <4>1, <4>2
      <4> HIDE DEF scaled
      <4>4. QED BY <1>1, <1>2, <2>1, <4>3
    <3>2. \A t, e \in Nat : 3 * t < 20000 => 3 * (t * e) <= 20000 * e
      OBVIOUS
    <3>3. 3 * scaled(k.high - Entry) <= 20000 * (k.high - Entry)
      BY <1>1, <3>1, <3>2
    <3>4. scaled(k.high - Entry) \in Nat
      BY <1>1
    <3> HIDE DEF scaled
    <3> QED BY <1>1, <1>2, <2>1, <3>3, <3>4
  <2>3. ~(10000 * (p - Entry) >= scaled(Entry))
    <3> HIDE DEF scaled
    <3> QED BY <1>1, <1>2, <2>1
  <2> QED BY <1>1, <1>3, <2>2, <2>3, ThreeTimes DEF Adverse, Moved
<1>4. CASE ~k.long
  <2>1. 20000 * (p - Entry) > 3 * scaled(Entry)
    BY <1>1, <1>4, ThreeTimes DEF Lost
  <2>2. 20000 * (p - k.low) > 3 * scaled(k.low)
    <3> HIDE DEF scaled
    <3> QED BY <1>1, <1>2, <2>1
  <2>3. ~(10000 * (Entry - p) >= scaled(Entry))
    <3> HIDE DEF scaled
    <3> QED BY <1>1, <1>2, <2>1
  <2> QED BY <1>1, <1>4, <2>2, <2>3, ThreeTimes DEF Adverse, Moved
<1> QED BY <1>3, <1>4

\* So a tick at such a price ends the shock without a trade.
LEMMA LostEndsShock ==
  ASSUME PhaseAssumption, NEW k \in Shock, NEW p \in Quotes, NEW reversal \in BOOLEAN,
         k.high >= Entry, k.low <= Entry, Lost(k, p)
  PROVE  ShockVerdict(k, p, reversal) = "NO_TRADE"
<1>1. Adverse(k, p) /\ ~Moved(k, p)
  BY LostIsAdverse
<1>2. k.age >= Patience \/ k.age < Patience
  BY DEF PhaseAssumption, Shock
<1> QED BY <1>1, <1>2 DEF ShockVerdict

LEMMA PhaseInitInv == ASSUME PhaseAssumption, PhaseInit PROVE PhaseInv
<1>1. PhaseTypes
  BY DEF PhaseAssumption, PhaseInit, PhaseTypes, Shock, Statuses, TraderFields
<1>2. ASSUME NEW s \in Watched PROVE FollowsItsShock(trader[s], shock[s])
  BY DEF PhaseInit, FollowsItsShock
<1>3. ASSUME NEW s \in Watched PROVE EndsWhenLost(shock[s], s \in slumped)
  BY DEF PhaseAssumption, PhaseInit, EndsWhenLost
<1> QED BY <1>1, <1>2, <1>3 DEF PhaseInv, Faithful

\* A step that leaves a symbol's shock and trader alone, and does not add it to
\* slumped, keeps what holds of it.
LEMMA UntouchedSymbol ==
  ASSUME PhaseInv, NEW s \in Watched, shock'[s] = shock[s], trader'[s] = trader[s],
         s \in slumped' <=> s \in slumped
  PROVE  Faithful(s)'
BY DEF PhaseInv, Faithful

LEMMA BeginStep ==
  ASSUME PhaseAssumption, PhaseInv, NEW s \in Watched, NEW long \in BOOLEAN, Begin(s, long)
  PROVE  PhaseInv'
<1> USE DEF PhaseInv, Faithful
<1>1. PhaseTypes'
  <2>1. [shock[s] EXCEPT !.status = "SHOCK", !.long = long] \in Shock
    BY DEF PhaseTypes, Shock, Statuses
  <2>2. shock' = [shock EXCEPT ![s] = [shock[s] EXCEPT !.status = "SHOCK", !.long = long]]
    BY DEF Begin, PhaseTypes
  <2> QED BY <2>1, <2>2 DEF PhaseTypes, Begin, TraderFields
<1>2. ASSUME NEW u \in Watched PROVE Faithful(u)'
  <2>1. CASE u = s
    <3>1. FollowsItsShock(trader[s], shock[s])'
      BY DEF PhaseTypes, Begin, UpdatePhase, FollowsItsShock, TraderFields
    <3>2. EndsWhenLost(shock[s], s \in slumped)'
      BY DEF PhaseAssumption, PhaseTypes, Begin, EndsWhenLost, Shock
    <3> QED BY <2>1, <3>1, <3>2
  <2>2. CASE u # s
    BY <2>2, UntouchedSymbol DEF PhaseTypes, Begin
  <2> QED BY <2>1, <2>2
<1> QED BY <1>1, <1>2

LEMMA TickStep ==
  ASSUME PhaseAssumption, PhaseInv, NEW s \in Watched, ClockTicks(s)
  PROVE  PhaseInv'
<1> USE DEF PhaseInv, Faithful
<1>1. PhaseTypes'
  BY DEF PhaseTypes, ClockTicks, Shock, Statuses, TraderFields
<1>2. ASSUME NEW u \in Watched PROVE Faithful(u)'
  <2>1. CASE u = s
    BY <2>1 DEF PhaseTypes, ClockTicks, FollowsItsShock, EndsWhenLost, Shock
  <2>2. CASE u # s
    BY <2>2, UntouchedSymbol DEF PhaseTypes, ClockTicks
  <2> QED BY <2>1, <2>2
<1> QED BY <1>1, <1>2

LEMMA UpdateStep ==
  ASSUME PhaseAssumption, PhaseInv, NEW s \in Watched, NEW p \in Quotes,
         NEW reversal \in BOOLEAN, UpdateShock(s, p, reversal)
  PROVE  PhaseInv'
<1> USE DEF PhaseInv, Faithful
<1> DEFINE k == [shock[s] EXCEPT !.high = IF p > @ THEN p ELSE @, !.low = IF p < @ THEN p ELSE @]
           status == ShockVerdict(k, p, reversal)
           phase == UpdatePhase(status = "CONFIRM", status = "CONFIRM")
<1>1. p \in Nat /\ Entry \in Nat /\ Patience \in Nat
  BY DEF PhaseAssumption
<1>2. shock[s] \in Shock /\ EndsWhenLost(shock[s], s \in slumped) /\ FollowsItsShock(trader[s], shock[s])
  BY DEF PhaseTypes
<1>3. k \in Shock /\ k.high >= Entry /\ k.low <= Entry /\ k.age = shock[s].age
  <2>2. /\ k.high = IF p > shock[s].high THEN p ELSE shock[s].high
        /\ k.low = IF p < shock[s].low THEN p ELSE shock[s].low
        /\ k.age = shock[s].age
    BY <1>2 DEF Shock
  <2>3. k \in Shock
    BY <1>1, <1>2 DEF Shock
  <2>4. /\ shock[s].high \in Nat /\ shock[s].low \in Nat
        /\ shock[s].high >= Entry /\ shock[s].low <= Entry
    BY <1>2 DEF Shock, EndsWhenLost
  <2> HIDE DEF k
  <2> QED BY <1>1, <2>2, <2>3, <2>4
<1>4. status \in {"SHOCK", "CONFIRM", "NO_TRADE"}
  <2> HIDE DEF k
  <2> QED BY DEF ShockVerdict
<1>5. /\ shock[s].status = "SHOCK"
      /\ shock' = [shock EXCEPT ![s] = [k EXCEPT !.status = status]]
      /\ slumped' = IF Lost(k, p) THEN slumped \cup {s} ELSE slumped
      /\ IF status = "SHOCK" THEN trader' = trader
         ELSE trader' = [trader EXCEPT ![s].phase = phase]
  BY DEF UpdateShock
<1>6. Lost(k, p) => status = "NO_TRADE"
  <2> HIDE DEF k
  <2> QED BY <1>3, LostEndsShock
<1>7. [k EXCEPT !.status = status] \in Shock
  <2> HIDE DEF k, status
  <2> QED BY <1>3, <1>4 DEF Shock, Statuses
<1>8. PhaseTypes'
  <2> HIDE DEF k, status, phase
  <2> QED BY <1>5, <1>7 DEF PhaseTypes, TraderFields
<1>9. ASSUME NEW u \in Watched PROVE Faithful(u)'
  <2>1. CASE u = s
    <3>1. EndsWhenLost(shock[s], s \in slumped)'
      <4> HIDE DEF k, status
      <4> QED BY <1>2, <1>3, <1>5, <1>6 DEF PhaseTypes, EndsWhenLost, Shock
    <3>2. FollowsItsShock(trader[s], shock[s])'
      <4>1. phase = IF status = "CONFIRM" THEN "CONFIRMATION" ELSE "NO_MOVEMENT"
        BY DEF UpdatePhase
      <4>2. shock'[s].status = status
        <5> HIDE DEF k, status
        <5> QED BY <1>3, <1>5 DEF PhaseTypes, Shock
      <4>3. trader[s].phase # "CONFIRMATION" /\ trader[s].decision # "EXECUTE TRADE"
        BY <1>2, <1>5 DEF FollowsItsShock
      <4>4. /\ trader'[s].phase = IF status = "SHOCK" THEN trader[s].phase ELSE phase
            /\ trader'[s].gate = trader[s].gate /\ trader'[s].criteria = trader[s].criteria
            /\ trader'[s].least = trader[s].least
            /\ trader'[s].decision = trader[s].decision
        <5> HIDE DEF k, status, phase
        <5> QED BY <1>5 DEF PhaseTypes, TraderFields
      <4> HIDE DEF k, status, phase
      <4> QED BY <1>2, <4>1, <4>2, <4>3, <4>4 DEF FollowsItsShock
    <3> QED BY <2>1, <3>1, <3>2
  <2>2. CASE u # s
    <3>1. shock'[u] = shock[u] /\ trader'[u] = trader[u] /\ (u \in slumped' <=> u \in slumped)
      <4> HIDE DEF k, status, phase
      <4> QED BY <2>2, <1>5 DEF PhaseTypes
    <3> QED BY <3>1, UntouchedSymbol
  <2> QED BY <2>1, <2>2
<1> QED BY <1>8, <1>9

LEMMA GateStep ==
  ASSUME PhaseAssumption, PhaseInv, NEW s \in Watched, NEW c \in Setups, NEW least \in Leasts,
         CheckExecutionGate(s, c, least)
  PROVE  PhaseInv'
<1> USE DEF PhaseInv, Faithful
<1>1. PhaseTypes'
  BY DEF PhaseTypes, CheckExecutionGate, TraderFields
<1>2. ASSUME NEW u \in Watched PROVE Faithful(u)'
  <2>1. CASE u = s
    <3>1. /\ trader'[s].gate = FailedCheck(c, least) /\ trader'[s].criteria = c
          /\ trader'[s].least = least
          /\ trader'[s].phase = trader[s].phase /\ trader'[s].decision = trader[s].decision
          /\ trader[s].gate = "unasked" /\ shock' = shock /\ slumped' = slumped
      BY DEF PhaseTypes, CheckExecutionGate, TraderFields
    <3>2. FollowsItsShock(trader[s], shock[s])'
      BY <3>1 DEF FollowsItsShock
    <3> QED BY <2>1, <3>1, <3>2 DEF EndsWhenLost
  <2>2. CASE u # s
    BY <2>2, UntouchedSymbol DEF PhaseTypes, CheckExecutionGate
  <2> QED BY <2>1, <2>2
<1> QED BY <1>1, <1>2

LEMMA DecideStep ==
  ASSUME PhaseAssumption, PhaseInv, NEW s \in Watched, Decide(s)
  PROVE  PhaseInv'
<1> USE DEF PhaseInv, Faithful
<1> DEFINE decision == MakeDecision(trader[s].phase, trader[s].gate = "none")
<1>1. PhaseTypes'
  BY DEF PhaseTypes, Decide, TraderFields
<1>2. ASSUME NEW u \in Watched PROVE Faithful(u)'
  <2>1. CASE u = s
    <3>1. /\ trader'[s].gate = trader[s].gate /\ trader'[s].criteria = trader[s].criteria
            /\ trader'[s].least = trader[s].least
          /\ trader'[s].phase = trader[s].phase /\ trader'[s].decision = decision
          /\ shock' = shock /\ slumped' = slumped
      BY DEF PhaseTypes, Decide, TraderFields
    <3>2. decision = "EXECUTE TRADE" => trader[s].phase = "CONFIRMATION" /\ trader[s].gate = "none"
      BY DEF FollowsItsShock, MakeDecision
    <3>3. FollowsItsShock(trader[s], shock[s])'
      <4> HIDE DEF decision
      <4> QED BY <3>1, <3>2 DEF FollowsItsShock
    <3> QED BY <2>1, <3>1, <3>3 DEF EndsWhenLost
  <2>2. CASE u # s
    BY <2>2, UntouchedSymbol DEF PhaseTypes, Decide
  <2> QED BY <2>1, <2>2
<1> QED BY <1>1, <1>2

LEMMA PhaseStepInv == ASSUME PhaseAssumption, PhaseInv, [PhaseNext]_phaseVars PROVE PhaseInv'
<1>1. ASSUME NEW s \in Watched, NEW long \in BOOLEAN, Begin(s, long) PROVE PhaseInv'
  BY <1>1, BeginStep
<1>2. ASSUME NEW s \in Watched, ClockTicks(s) PROVE PhaseInv'
  BY <1>2, TickStep
<1>3. ASSUME NEW s \in Watched, NEW p \in Quotes, NEW reversal \in BOOLEAN,
             UpdateShock(s, p, reversal)
      PROVE  PhaseInv'
  BY <1>3, UpdateStep
<1>4. ASSUME NEW s \in Watched, NEW c \in Setups, NEW least \in Leasts,
             CheckExecutionGate(s, c, least)
      PROVE  PhaseInv'
  BY <1>4, GateStep
<1>5. ASSUME NEW s \in Watched, Decide(s) PROVE PhaseInv'
  BY <1>5, DecideStep
<1>6. CASE UNCHANGED phaseVars
  BY <1>6 DEF phaseVars, PhaseInv, PhaseTypes, Faithful
<1> QED BY <1>1, <1>2, <1>3, <1>4, <1>5, <1>6 DEF PhaseNext

\* For any number of symbols, prices, triggers and criteria, a trade is executed
\* only on a shock of its own symbol that was confirmed and never lost too much,
\* with all four checks passed, the risk/reward against what the trader asked for.
THEOREM EntriesKeepFaithHolds == PhaseSpec => []EntriesKeepFaith
<1>1. PhaseInit => PhaseInv
  BY PhaseInitInv, PhaseAssumption
<1>2. PhaseInv /\ [PhaseNext]_phaseVars => PhaseInv'
  BY PhaseStepInv, PhaseAssumption
<1>3. PhaseInv => EntriesKeepFaith
  BY DEF PhaseInv, Faithful, FollowsItsShock, EndsWhenLost, EntriesKeepFaith
<1> QED BY <1>1, <1>2, <1>3, PTL DEF PhaseSpec

(***************************************************************************)
(* PortfolioMatrix                                                         *)
(***************************************************************************)

-----------------------------------------------------------------------------
(* Spread is CoSpread over the positions of the two series.                *)

LEMMA SpreadIsCoSpread ==
    ASSUME NEW n \in Nat \ {0}, NEW x \in Seq(Int), NEW y \in Seq(Int), Len(x) = n, Len(y) = n
    PROVE  Spread(x, y) = CoSpread(x, y, 1 .. n)
<1>1. DOMAIN x = 1 .. n /\ DOMAIN y = 1 .. n /\ Cardinality(1 .. n) = n
  <2>1. 1 <= n + 1 /\ n - 1 + 1 = n
    OBVIOUS
  <2>2. Cardinality(1 .. n) = n - 1 + 1
    BY FS_Interval
  <2>3. DOMAIN x = 1 .. n /\ DOMAIN y = 1 .. n
    BY LenProperties
  <2> QED BY <2>1, <2>2, <2>3
<1> DEFINE xy == [k \in 1 .. n |-> x[k] * y[k]]
<1>2. SumFunction(x) = Total(x, 1 .. n) /\ SumFunction(y) = Total(y, 1 .. n)
  BY <1>1 DEF SumFunction, Total
<1>3. SumFunction(xy) = Total(Times(x, y, 1 .. n), 1 .. n)
  BY DEF SumFunction, Total, Times
<1>4. Spread(x, y) = n * SumFunction(xy) - SumFunction(x) * SumFunction(y)
  BY DEF Spread
<1> QED BY <1>1, <1>2, <1>3, <1>4 DEF CoSpread

LEMMA SpreadBounds ==
    ASSUME NEW n \in Nat \ {0}, NEW x \in Seq(Int), NEW y \in Seq(Int), Len(x) = n, Len(y) = n
    PROVE  /\ Spread(x, y) \in Int /\ Spread(x, x) \in Nat /\ Spread(y, y) \in Nat
           /\ Spread(y, y) > 0 => Spread(x, y) * Spread(x, y) <= Spread(x, x) * Spread(y, y)
<1> DEFINE S == 1 .. n
<1>1. IsFiniteSet(S) /\ S # {} /\ x \in [S -> Int] /\ y \in [S -> Int]
  <2>1. 1 \in S /\ IsFiniteSet(S)
    BY FS_Interval
  <2>2. x \in [S -> Int] /\ y \in [S -> Int]
    BY ElementOfSeq, LenProperties
  <2> QED BY <2>1, <2>2
<1>2. /\ Spread(x, y) = CoSpread(x, y, S) /\ Spread(x, x) = CoSpread(x, x, S)
      /\ Spread(y, y) = CoSpread(y, y, S)
  BY SpreadIsCoSpread
<1> HIDE DEF S
<1> QED BY <1>1, <1>2, CauchySchwarz

-----------------------------------------------------------------------------
(* The thresholds of a correlation.                                        *)

Position == [symbol : Assets, direction : Directions, value : Int]

MatrixInv ==
    /\ returns \in [Assets -> Seq(Int)]
    /\ updates \in [Assets -> Nat]
    /\ positions \in Seq(Position)

\* A coefficient (n - 1)/n times another is above no threshold that the other is
\* not above, and within the range of the other.
LEMMA Shrunk ==
    ASSUME NEW n \in Nat \ {0}, NEW c \in Int, NEW p \in Int, NEW least \in Nat,
           NEW num, num = (n - 1) * c, NEW sq, sq = n * n * p
    PROVE  /\ 100 * num * num > least * least * sq => 100 * c * c > least * least * p
           /\ num > 0 => c > 0
           /\ c * c <= p => num * num <= sq
<1> DEFINE q == c * c
           m == (n - 1) * (n - 1)
           w == n * n
<1>1. q \in Nat /\ m \in Nat /\ w \in Nat /\ m <= w /\ w > 0
  OBVIOUS
<1>2. num * num = m * q /\ sq = w * p /\ 100 * num * num = 100 * (m * q)
      /\ 100 * c * c = 100 * q /\ least * least * sq = w * (least * least * p)
  OBVIOUS
<1>3. num > 0 => c > 0
  <2>1. c <= 0 => (n - 1) * c <= 0
    OBVIOUS
  <2> QED BY <2>1
<1> HIDE DEF q, m, w
<1>4. m * q <= w * q
  BY <1>1
<1>5. \A x \in Int : q <= x => w * q <= w * x
  BY <1>1
<1>6. c * c <= p => num * num <= sq
  <2>1. w * q \in Int /\ w * p \in Int /\ m * q \in Int
    BY <1>1
  <2> QED BY <1>2, <1>4, <1>5, <2>1 DEF q
<1>7. ASSUME 100 * q <= least * least * p PROVE 100 * (m * q) <= w * (least * least * p)
  <2> DEFINE r == least * least * p
  <2>1. r \in Int
    OBVIOUS
  <2> HIDE DEF r
  <2>2. \A x \in Int : 100 * q <= x => w * (100 * q) <= w * x
    BY <1>1
  <2>3. w * (100 * q) = 100 * (w * q) /\ w * q \in Int /\ m * q \in Int /\ w * r \in Int
    BY <1>1, <2>1
  <2>4. w * (100 * q) <= w * r
    BY <1>7, <2>1, <2>2 DEF r
  <2>5. 100 * (m * q) <= w * r
    BY <1>4, <2>3, <2>4
  <2> QED BY <2>5 DEF r
<1>8. 100 * q \in Int /\ least * least * p \in Int
  BY <1>1
<1>9. 100 * (m * q) \in Int /\ w * (least * least * p) \in Int
  BY <1>1, <1>8
<1> QED BY <1>2, <1>3, <1>6, <1>7, <1>8, <1>9

LEMMA NewestType ==
    ASSUME MatrixInv, NEW a \in Assets, NEW n \in Nat \ {0}, n <= Len(returns[a])
    PROVE  Newest(a, n) \in Seq(Int) /\ Len(Newest(a, n)) = n
<1> DEFINE r == returns[a]
           m == Len(r) - n + 1
<1>1. r \in Seq(Int) /\ Len(r) \in Nat /\ \A i \in 1 .. Len(r) : r[i] \in Int
  BY LenProperties, ElementOfSeq DEF MatrixInv
<1>2. m \in 1 .. Len(r) + 1 /\ Len(r) \in m - 1 .. Len(r) /\ Len(r) - m + 1 = n
  BY <1>1
<1> HIDE DEF r, m
<1>3. SubSeq(r, m, Len(r)) \in Seq(Int) /\ Len(SubSeq(r, m, Len(r))) = Len(r) - m + 1
  BY <1>1, <1>2, SubSeqProperties
<1> QED BY <1>2, <1>3 DEF Newest, r, m

\* What a coefficient is made of.
LEMMA CorrelationParts ==
    ASSUME MatrixInv, NEW a \in Assets, NEW b \in Assets, Common(a, b) >= 2
    PROVE  LET n == Common(a, b)
               c == Spread(Newest(a, n), Newest(b, n))
               p == Spread(Newest(a, n), Newest(a, n)) * Spread(Newest(b, n), Newest(b, n))
               r == Correlation(a, b)
           IN  /\ n \in Nat \ {0} /\ c \in Int /\ p \in Nat
               /\ p # 0 => c * c <= p
               /\ r.numerator = (n - 1) * c /\ r.square = n * n * p
<1> DEFINE n == Common(a, b)
           x == Newest(a, n)
           y == Newest(b, n)
           c == Spread(x, y)
           sx == Spread(x, x)
           sy == Spread(y, y)
           p == sx * sy
           r == Correlation(a, b)
<1>1. n \in Nat \ {0} /\ n <= Len(returns[a]) /\ n <= Len(returns[b])
  <2>1. Len(returns[a]) \in Nat /\ Len(returns[b]) \in Nat
    BY LenProperties DEF MatrixInv
  <2> QED BY <2>1 DEF Common
<1>2. r.numerator = (n - 1) * c /\ r.square = n * n * sx * sy
  BY DEF Correlation
<1>3. x \in Seq(Int) /\ Len(x) = n /\ y \in Seq(Int) /\ Len(y) = n
  <2> HIDE DEF n
  <2> QED BY <1>1, NewestType
<1> HIDE DEF n, x, y
<1>4. c \in Int /\ sx \in Nat /\ sy \in Nat /\ (sy > 0 => c * c <= sx * sy)
  BY <1>1, <1>3, SpreadBounds
<1> HIDE DEF c, sx, sy, r
<1>5. p \in Nat /\ n * n * sx * sy = n * n * p /\ (p # 0 => sy > 0)
  <2>1. \A s, t \in Nat : s * t \in Nat /\ n * n * s * t = n * n * (s * t)
    BY <1>1
  <2>2. sy = 0 => p = 0
    BY <1>4
  <2> QED BY <1>4, <2>1, <2>2
<1> QED BY <1>1, <1>2, <1>4, <1>5 DEF n, x, y, c, sx, sy, p, r

\* A correlation that assess_trade acts on is one of the Pearson coefficient.
LEMMA RhoIsWarranted ==
    ASSUME MatrixInv, NEW a \in Assets, NEW b \in Assets
    PROVE  Rho(a, b) \in {0, 60, 80} /\ Pearson(a, b) >= Rho(a, b)
<1> DEFINE n == Common(a, b)
           c == Spread(Newest(a, n), Newest(b, n))
           p == Spread(Newest(a, n), Newest(a, n)) * Spread(Newest(b, n), Newest(b, n))
           r == Correlation(a, b)
<1>1. \A g : Grade(g) \in {0, 60, 80}
  BY DEF Grade
<1>2. CASE n < 2
  BY <1>2 DEF Rho, Pearson
<1>3. CASE ~(n < 2)
  <2>1. n \in Nat
    BY LenProperties DEF MatrixInv, Common
  <2>2. /\ n \in Nat \ {0} /\ c \in Int /\ p \in Nat
        /\ r.numerator = (n - 1) * c /\ r.square = n * n * p
    BY <1>3, <2>1, CorrelationParts
  <2>3. Rho(a, b) = Grade(r) /\ Pearson(a, b) = Grade([numerator |-> c, square |-> p])
    BY <1>3 DEF Rho, Pearson
  <2> HIDE DEF c, p, r, n
  <2>4. p = 0 => r.square = 0
    BY <2>2
  <2>5. /\ 100 * r.numerator * r.numerator > 8 * 8 * r.square => 100 * c * c > 8 * 8 * p
        /\ 100 * r.numerator * r.numerator > 6 * 6 * r.square => 100 * c * c > 6 * 6 * p
        /\ r.numerator > 0 => c > 0
    <3>1. /\ 100 * r.numerator * r.numerator > 8 * 8 * r.square => 100 * c * c > 8 * 8 * p
          /\ r.numerator > 0 => c > 0
      BY <2>2, Shrunk
    <3>2. 100 * r.numerator * r.numerator > 6 * 6 * r.square => 100 * c * c > 6 * 6 * p
      BY <2>2, Shrunk
    <3> QED BY <3>1, <3>2
  <2>6. r.numerator \in Int /\ c \in Int
    BY <2>2
  <2> DEFINE Above(num, sq, least) == 100 * num * num > least * least * sq
  <2>7. /\ Above(r.numerator, r.square, 8) => Above(c, p, 8)
        /\ Above(r.numerator, r.square, 6) => Above(c, p, 6)
    BY <2>5
  <2>8. Above(c, p, 8) => Above(c, p, 6)
    <3>1. p >= 0 /\ 8 * 8 * p >= 6 * 6 * p /\ c * c \in Int
      BY <2>2
    <3> QED BY <2>2, <3>1
  <2>9. \A g : Grade(g) = IF g.numerator <= 0 \/ g.square = 0 THEN 0
                          ELSE IF Above(g.numerator, g.square, 8) THEN 80
                          ELSE IF Above(g.numerator, g.square, 6) THEN 60 ELSE 0
    BY DEF Grade
  <2> HIDE DEF Above
  <2>10. Grade(r) # 0 => ~(c <= 0 \/ p = 0)
    BY <2>2, <2>4, <2>5, <2>6, <2>9
  <2>11. Grade([numerator |-> c, square |-> p]) =
            IF c <= 0 \/ p = 0 THEN 0 ELSE IF Above(c, p, 8) THEN 80
            ELSE IF Above(c, p, 6) THEN 60 ELSE 0
    BY <2>9
  <2>12. Grade([numerator |-> c, square |-> p]) >= Grade(r)
    BY <1>1, <2>7, <2>8, <2>9, <2>10, <2>11
  <2> QED BY <1>1, <2>3, <2>12
<1> QED BY <1>2, <1>3

-----------------------------------------------------------------------------
(* assess_trade over the book.                                             *)

\* What a size tells of the first k positions.
Witnessed(d, a, k, opposite, least) ==
    \E j \in 1 .. k : /\ (positions[j].direction # d) = opposite
                      /\ Pearson(a, positions[j].symbol) >= least

SizedByEvidence(d, a, k, size) ==
    /\ size \in Nat
    /\ size < 100 => Witnessed(d, a, k, FALSE, 60)
    /\ size <= 25 => Witnessed(d, a, k, FALSE, 80)
    /\ size > 100 => Witnessed(d, a, k, TRUE, 60)

LEMMA WeighKeeps ==
    ASSUME MatrixInv, NEW a \in Assets, NEW d \in Directions, NEW k \in 1 .. Len(positions),
           NEW size, SizedByEvidence(d, a, k - 1, size)
    PROVE  SizedByEvidence(d, a, k, Weigh(d, a, positions[k], size))
<1> DEFINE p == positions[k]
           rho == Rho(a, p.symbol)
           w == Weigh(d, a, p, size)
           Seen(i, opposite, least) == Witnessed(d, a, i, opposite, least)
<1>1. p.symbol \in Assets
  <2>1. p \in Position
    BY LenProperties, ElementOfSeq DEF MatrixInv
  <2> QED BY <2>1 DEF Position
<1>2. rho \in {0, 60, 80} /\ Pearson(a, p.symbol) >= rho /\ Pearson(a, p.symbol) \in {0, 60, 80}
  <2>1. Pearson(a, p.symbol) \in {0, 60, 80}
    BY DEF Pearson, Grade
  <2> QED BY <1>1, <2>1, RhoIsWarranted
<1>3. k \in 1 .. k /\ \A j \in 1 .. k - 1 : j \in 1 .. k
  BY LenProperties DEF MatrixInv
<1>4. w = IF rho = 0 THEN size ELSE IF d # p.direction THEN 125
          ELSE IF size < (IF rho = 80 THEN 25 ELSE 50) THEN size ELSE IF rho = 80 THEN 25 ELSE 50
  BY DEF Weigh
<1>5. \A opposite, least : Seen(k - 1, opposite, least) => Seen(k, opposite, least)
  BY <1>3 DEF Witnessed
<1>6. /\ size \in Nat /\ (size < 100 => Seen(k, FALSE, 60)) /\ (size <= 25 => Seen(k, FALSE, 80))
      /\ size > 100 => Seen(k, TRUE, 60)
  BY <1>5 DEF SizedByEvidence
<1>7. /\ rho # 0 /\ d = p.direction => Seen(k, FALSE, 60)
      /\ rho = 80 /\ d = p.direction => Seen(k, FALSE, 80)
      /\ rho # 0 /\ d # p.direction => Seen(k, TRUE, 60)
  <2>1. rho # 0 => Pearson(a, p.symbol) >= 60
    BY <1>2
  <2>2. rho = 80 => Pearson(a, p.symbol) >= 80
    BY <1>2
  <2>3. \A opposite, least : (p.direction # d) = opposite /\ Pearson(a, p.symbol) >= least
                             => Seen(k, opposite, least)
    BY <1>3 DEF Witnessed
  <2> HIDE DEF rho, Seen
  <2>4. ASSUME rho # 0, d = p.direction PROVE Seen(k, FALSE, 60)
    BY <2>1, <2>3, <2>4
  <2>5. ASSUME rho = 80, d = p.direction PROVE Seen(k, FALSE, 80)
    BY <2>2, <2>3, <2>5
  <2>6. ASSUME rho # 0, d # p.direction PROVE Seen(k, TRUE, 60)
    BY <2>1, <2>3, <2>6
  <2> QED BY <2>4, <2>5, <2>6
<1> HIDE DEF rho, w, Seen
<1>8. /\ w \in Nat /\ (w < 100 => Seen(k, FALSE, 60)) /\ (w <= 25 => Seen(k, FALSE, 80))
      /\ w > 100 => Seen(k, TRUE, 60)
  <2>1. w = size \/ (w = 125 /\ rho # 0 /\ d # p.direction) \/ (w = 25 /\ rho = 80 /\ d = p.direction)
        \/ (w = 50 /\ rho # 0 /\ d = p.direction)
    BY <1>2, <1>4
  <2>2. CASE w = 25 /\ rho = 80 /\ d = p.direction
    <3>1. w \in Nat /\ ~(w > 100) /\ rho # 0
      BY <2>2
    <3>2. Seen(k, FALSE, 60) /\ Seen(k, FALSE, 80)
      BY <1>7, <2>2, <3>1, Zenon
    <3> QED BY <3>1, <3>2, Zenon
  <2>3. CASE w = 50 /\ rho # 0 /\ d = p.direction
    <3>1. ~(w <= 25) /\ w \in Nat /\ ~(w > 100)
      BY <2>3
    <3>2. Seen(k, FALSE, 60)
      BY <1>7, <2>3, Zenon
    <3> QED BY <3>1, <3>2, Zenon
  <2>4. CASE w = 125 /\ rho # 0 /\ d # p.direction
    <3>1. ~(w < 100) /\ ~(w <= 25) /\ w \in Nat
      BY <2>4
    <3>2. Seen(k, TRUE, 60)
      BY <1>7, <2>4, Zenon
    <3> QED BY <3>1, <3>2, Zenon
  <2> QED BY <1>6, <2>1, <2>2, <2>3, <2>4
<1> QED BY <1>8 DEF SizedByEvidence, Seen, w

\* The fold of assess_trade.
Weighed(f, d, a, book) ==
    f = [k \in 0 .. Len(book) |-> IF k = 0 THEN 100 ELSE Weigh(d, a, book[k], f[k - 1])]

LEMMA WeighedExists ==
    ASSUME NEW d, NEW a, NEW book \in Seq(Position)
    PROVE  \E f : Weighed(f, d, a, book)
<1> DEFINE n == Len(book)
           step == [x \in (1 .. n) \X Nat |-> Weigh(d, a, book[x[1]], x[2])]
<1>1. n \in Nat /\ 100 \in Nat
  BY LenProperties
<1>2. \A p, pct : pct \in Nat => Weigh(d, a, p, pct) \in Nat
  BY DEF Weigh
<1>3. step \in [(1 .. n) \X Nat -> Nat]
  BY <1>2
<1> HIDE DEF step
<1>4. PICK f \in [0 .. n -> Nat] : Follows(f, n, 100, step)
  <2> HIDE DEF n
  <2> QED BY <1>1, <1>3, RecursionExists
<1>5. ASSUME NEW k \in 1 .. n PROVE f[k] = Weigh(d, a, book[k], f[k - 1])
  <2>1. k - 1 \in 0 .. n
    BY <1>1
  <2>2. f[k] = step[<<k, f[k - 1]>>]
    BY <1>4 DEF Follows
  <2>3. f[k - 1] \in Nat
    BY <1>4, <2>1
  <2>4. <<k, f[k - 1]>> \in (1 .. n) \X Nat
    BY <2>3
  <2> HIDE DEF n
  <2> QED BY <2>2, <2>4 DEF step
<1>6. \A k \in 0 .. n : k # 0 => k \in 1 .. n
  BY <1>1
<1>7. \A k \in 0 .. n : f[k] = IF k = 0 THEN 100 ELSE Weigh(d, a, book[k], f[k - 1])
  BY <1>4, <1>5, <1>6 DEF Follows
<1> DEFINE g == [k \in 0 .. n |-> IF k = 0 THEN 100 ELSE Weigh(d, a, book[k], f[k - 1])]
<1>8. f = g
  BY <1>4, <1>7
<1> QED BY <1>8 DEF Weighed

LEMMA AssessHasEvidence ==
    ASSUME MatrixInv, NEW a \in Assets, NEW d \in Directions, Assess(d, a, positions).approved
    PROVE  SizedByEvidence(d, a, Len(positions), Assess(d, a, positions).size)
<1> DEFINE n == Len(positions)
           f == CHOOSE g : Weighed(g, d, a, positions)
           P == {k \in 0 .. n : SizedByEvidence(d, a, k, f[k])}
<1>1. n \in Nat /\ positions \in Seq(Position)
  BY LenProperties DEF MatrixInv
<1>2. Weighed(f, d, a, positions)
  BY <1>1, WeighedExists
<1>3. Assess(d, a, positions).size = f[n]
  BY DEF Assess, Weighed
<1> HIDE DEF f
<1>4. /\ f[0] = 100
      /\ \A k \in 1 .. n : f[k] = Weigh(d, a, positions[k], f[k - 1])
  <2>1. \A k \in 0 .. n : f[k] = IF k = 0 THEN 100 ELSE Weigh(d, a, positions[k], f[k - 1])
    BY <1>2 DEF Weighed
  <2>2. 0 \in 0 .. n /\ \A k \in 1 .. n : k \in 0 .. n /\ k # 0
    BY <1>1
  <2> HIDE DEF n
  <2> QED BY <2>1, <2>2
<1>5. 0 \in P
  <2>1. f[0] \in Nat /\ ~(f[0] < 100) /\ ~(f[0] <= 25) /\ ~(f[0] > 100)
    BY <1>4
  <2>2. SizedByEvidence(d, a, 0, f[0])
    BY <2>1, Zenon DEF SizedByEvidence
  <2>3. 0 \in 0 .. n
    BY <1>1
  <2> QED BY <2>2, <2>3
<1>6. ASSUME NEW k \in 0 .. n - 1, k \in P PROVE k + 1 \in P
  <2>1. k + 1 \in 1 .. n /\ (k + 1) - 1 = k /\ k + 1 \in 0 .. n
    BY <1>1
  <2>2. SizedByEvidence(d, a, (k + 1) - 1, f[k])
    BY <1>6, <2>1
  <2>3. SizedByEvidence(d, a, k + 1, Weigh(d, a, positions[k + 1], f[k]))
    BY <2>1, <2>2, WeighKeeps
  <2>4. f[k + 1] = Weigh(d, a, positions[k + 1], f[k])
    BY <1>4, <2>1
  <2> QED BY <2>1, <2>3, <2>4
<1>7. \A k \in 0 .. n : k \in P
  <2> HIDE DEF P, n
  <2> QED BY <1>1, <1>5, <1>6, Upto
<1>8. n \in P
  BY <1>1, <1>7
<1> QED BY <1>3, <1>8

-----------------------------------------------------------------------------
(* The steps.                                                              *)

LEMMA MatrixStepKeeps ==
    ASSUME PortfolioMatrixAssumption, MatrixInv, [MatrixNext]_matrixVars
    PROVE  MatrixInv'
<1>1. ASSUME NEW a \in Assets, NEW r \in Returns, Update(a, r) PROVE MatrixInv'
  <2>1. returns[a] \in Seq(Int) /\ r \in Int
    BY DEF MatrixInv, PortfolioMatrixAssumption
  <2>2. Append(returns[a], r) \in Seq(Int)
    BY <2>1, AppendProperties
  <2>3. ASSUME ~(Len(returns[a]) < Lookback) PROVE Append(Tail(returns[a]), r) \in Seq(Int)
    <3>1. returns[a] # <<>>
      BY <2>1, <2>3, EmptySeq DEF PortfolioMatrixAssumption
    <3> QED BY <2>1, <3>1, HeadTailProperties, AppendProperties
  <2>4. returns' \in [Assets -> Seq(Int)]
    BY <1>1, <2>2, <2>3 DEF MatrixInv, Update
  <2>5. updates' \in [Assets -> Nat] /\ positions' = positions
    BY <1>1, SMTT(30) DEF MatrixInv, Update
  <2> QED BY <2>4, <2>5 DEF MatrixInv
<1>2. ASSUME NEW a \in Assets, NEW d \in Directions, NEW size \in Sizes, AddPosition(a, d, size)
      PROVE  MatrixInv'
  <2> DEFINE p == [symbol |-> a, direction |-> d, value |-> Toward(d) * size]
  <2>1. p \in Position
    <3>1. size \in Nat /\ Toward(d) \in {1, -1}
      BY DEF PortfolioMatrixAssumption, Toward
    <3>2. Toward(d) * size \in Int
      BY <3>1
    <3> QED BY <3>2 DEF Position
  <2>2. positions' = Append(positions, p) /\ UNCHANGED <<returns, updates>>
    BY <1>2 DEF AddPosition
  <2> HIDE DEF p
  <2> QED BY <2>1, <2>2, AppendProperties DEF MatrixInv
<1>3. CASE UNCHANGED matrixVars
  BY <1>3 DEF MatrixInv, matrixVars
<1> QED BY <1>1, <1>2, <1>3 DEF MatrixNext

LEMMA MatrixInitially == ASSUME PortfolioMatrixAssumption, MatrixInit PROVE MatrixInv
BY EmptySeq DEF MatrixInit, MatrixInv

\* For any returns, any length of the windows and any book: assess_trade of
\* portfolio_matrix.py, whose covariance is over n and whose variances are over
\* n - 1, cuts or raises a size only for a position whose Pearson coefficient and
\* direction call for it.
THEOREM CutsAreWarrantedHolds == MatrixSpec => []CutsAreWarranted
<1>1. MatrixInit => MatrixInv
  BY MatrixInitially, PortfolioMatrixAssumption
<1>2. MatrixInv /\ [MatrixNext]_matrixVars => MatrixInv'
  BY MatrixStepKeeps, PortfolioMatrixAssumption
<1>3. MatrixInv => CutsAreWarranted
  <2> SUFFICES ASSUME MatrixInv, NEW a \in Assets, NEW d \in Directions,
                      Assess(d, a, positions).approved
               PROVE  LET size == Assess(d, a, positions).size
                          Held(opposite, least) ==
                            \E k \in DOMAIN positions :
                               /\ (positions[k].direction # d) = opposite
                               /\ Pearson(a, positions[k].symbol) >= least
                      IN  /\ size < 100 => Held(FALSE, 60)
                          /\ size <= 25 => Held(FALSE, 80)
                          /\ size > 100 => Held(TRUE, 60)
    BY DEF CutsAreWarranted
  <2> DEFINE size == Assess(d, a, positions).size
  <2>1. SizedByEvidence(d, a, Len(positions), size)
    BY AssessHasEvidence
  <2>2. DOMAIN positions = 1 .. Len(positions)
    BY LenProperties DEF MatrixInv
  <2> HIDE DEF size
  <2>3. /\ size < 100 => Witnessed(d, a, Len(positions), FALSE, 60)
        /\ size <= 25 => Witnessed(d, a, Len(positions), FALSE, 80)
        /\ size > 100 => Witnessed(d, a, Len(positions), TRUE, 60)
    BY <2>1 DEF SizedByEvidence
  <2> QED BY <2>2, <2>3 DEF Witnessed, size
<1> QED BY <1>1, <1>2, <1>3, PTL DEF MatrixSpec

\* Whatever the windows hold, the coefficient of get_correlation is within [-1, 1],
\* as its docstring says, although its covariance and its variances have different
\* divisors: by the inequality of Cauchy and Schwarz.
THEOREM CorrelationInRangeHolds == MatrixSpec => []CorrelationInRange
<1>1. MatrixInit => MatrixInv
  BY MatrixInitially, PortfolioMatrixAssumption
<1>2. MatrixInv /\ [MatrixNext]_matrixVars => MatrixInv'
  BY MatrixStepKeeps, PortfolioMatrixAssumption
<1>3. MatrixInv => CorrelationInRange
  <2> SUFFICES ASSUME MatrixInv, NEW a \in Assets, NEW b \in Assets,
                      Common(a, b) >= 2, Correlation(a, b).square # 0
               PROVE  Correlation(a, b).numerator * Correlation(a, b).numerator
                        <= Correlation(a, b).square
    BY DEF CorrelationInRange
  <2> DEFINE n == Common(a, b)
             c == Spread(Newest(a, n), Newest(b, n))
             p == Spread(Newest(a, n), Newest(a, n)) * Spread(Newest(b, n), Newest(b, n))
             r == Correlation(a, b)
  <2>1. /\ n \in Nat \ {0} /\ c \in Int /\ p \in Nat /\ (p # 0 => c * c <= p)
        /\ r.numerator = (n - 1) * c /\ r.square = n * n * p
    BY CorrelationParts
  <2> HIDE DEF n, c, p, r
  <2>2. p # 0
    BY <2>1 DEF r
  <2>3. r.numerator * r.numerator <= r.square
    BY <2>1, <2>2, Shrunk
  <2> QED BY <2>3 DEF r
<1> QED BY <1>1, <1>2, <1>3, PTL DEF MatrixSpec
===============================================================================
