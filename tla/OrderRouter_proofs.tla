-------------------------- MODULE OrderRouter_proofs --------------------------
(***************************************************************************)
(* Proofs about the two models of src/execution/order_router.py:           *)
(* LimitQueue for any number of orders and reconcilers, OrderRouting for   *)
(* any sizes, schedules and answers of the exchange.                       *)
(***************************************************************************)
EXTENDS OrderRouting, LimitQueue, DataTheorems

(***************************************************************************)
(* LimitQueue                                                              *)
(***************************************************************************)

States == {"none", "PENDING", "PARTIAL", "FILLED", "CANCELLED"}
Entry == [price : Int, kind : {"out", "untagged", "FVG", "RETRACEMENT"}]
Walk == [at : {"idle", "look", "write", "note", "pop", "record"}, order : {0} \cup QueueOrders,
         todo : SUBSET QueueOrders, saw : States \cup {"entry"}]

QueueTypeOK ==
    /\ status \in [QueueOrders -> States]
    /\ filling \in {0} \cup QueueOrders
    /\ queue \in [QueueOrders -> Entry]
    /\ placing \in [at : {"idle", "register", "tag"}, order : {0} \cup QueueOrders, entry : Entry]
    /\ cancelling \in Walk
    /\ pass \in [Reconcilers -> Walk]
    /\ history \in SUBSET (({0} \cup QueueOrders) \X ({"cancelled"} \cup Ended))
    /\ ended \in [QueueOrders -> SUBSET Ended]

\* Every hand that holds an order holds one that was submitted; whoever is about
\* to write it off has seen it come to an end, or has it written down.
Submission(o) == o \in QueueOrders /\ status[o] # "none"

HandsOK ==
    /\ filling # 0 => Submission(filling)
    /\ \A o \in Queued : Submission(o)
    /\ placing.at # "idle" =>
         Submission(placing.order) /\ placing.entry.kind \in {"FVG", "RETRACEMENT"}
    /\ cancelling.at # "idle" =>
         Submission(cancelling.order) /\ \A o \in cancelling.todo : Submission(o)
    /\ \A r \in Reconcilers : pass[r].at # "idle" => pass[r].order \in QueueOrders

EndsOK ==
    /\ \A o \in QueueOrders : status[o] \in Ended => status[o] \in ended[o]
    /\ cancelling.at \in {"pop", "record"} => ended[cancelling.order] # {}
    /\ \A r \in Reconcilers :
         /\ pass[r].at = "note" /\ pass[r].saw \in Ended => pass[r].saw \in ended[pass[r].order]
         /\ pass[r].at = "pop" => \E h \in history : h[1] = pass[r].order

QueueInv == QueueTypeOK /\ HandsOK /\ EndsOK /\ NoOrderVanishes

-----------------------------------------------------------------------------
(* Helpers.                                                                *)

LEMMA FirstIsIn ==
  ASSUME NEW S \in SUBSET QueueOrders, S # {}
  PROVE  First(S) \in S
<1>1. \E m \in S : \A k \in S : m <= k
  BY QueueAssumption, LeastElement DEF QueueAssumption
<1> QED BY <1>1 DEF First

\* After an order of its snapshot a thread looks at another one of it, or stops.
LEMMA OnwardKeeps ==
  ASSUME NEW t, t.todo \in SUBSET QueueOrders
  PROVE  /\ Onward(t) \in Walk
         /\ Onward(t).at \in {"idle", "look"}
         /\ Onward(t).at # "idle" => Onward(t).order \in t.todo
         /\ Onward(t).todo \in SUBSET t.todo
<1>1. CASE t.todo = {}
  BY <1>1 DEF Onward, Still, Walk, States
<1>2. CASE t.todo # {}
  <2>1. First(t.todo) \in t.todo
    BY <1>2, FirstIsIn
  <2> QED BY <1>2, <2>1 DEF Onward, Walk, States
<1> QED BY <1>1, <1>2

LEMMA RoundedIsInt ==
  ASSUME NEW p \in Int
  PROVE  RoundToTick(p) \in Int
BY DEF RoundToTick

\* What Submit does with the order it takes.
Submits(o, e) ==
    /\ placing.at = "idle" /\ o \in QueueOrders /\ status[o] = "none" /\ e \in Entry
    /\ e.kind \in {"FVG", "RETRACEMENT"}
    /\ Write(o, "PENDING")
    /\ placing' = [at |-> "register", order |-> o, entry |-> e]
    /\ UNCHANGED <<filling, queue, cancelling, pass, history>>

LEMMA SubmitTakesOne ==
  ASSUME NEW e \in Entry, e.kind \in {"FVG", "RETRACEMENT"}, Submit(e)
  PROVE  \E o \in QueueOrders : Submits(o, e)
<1> DEFINE S == {p \in QueueOrders : status[p] = "none"}
<1>1. S \in SUBSET QueueOrders /\ S # {}
  BY DEF Submit
<1>2. First(S) \in S
  <2> HIDE DEF S
  <2> QED BY <1>1, FirstIsIn
<1>3. Submits(First(S), e)
  BY <1>2 DEF Submit, Submits
<1> QED BY <1>2, <1>3

LEMMA PlacingSubmits ==
  ASSUME \/ \E z \in Zones : PlaceAtFvgZone(z)
         \/ \E base \in Bases, pct \in Retracements, side \in {"BUY", "SELL"} :
              PlaceAtRetracement(base, pct, side)
  PROVE  \E e \in Entry, o \in QueueOrders : Submits(o, e)
<1>1. ASSUME NEW z \in Zones, PlaceAtFvgZone(z)
      PROVE  \E e \in Entry, o \in QueueOrders : Submits(o, e)
  <2> DEFINE e == [price |-> RoundToTick(Midpoint(z)), kind |-> "FVG"]
  <2>1. Midpoint(z) \in Int
    BY QueueAssumption DEF QueueAssumption, Midpoint
  <2>2. e \in Entry /\ e.kind \in {"FVG", "RETRACEMENT"}
    BY <2>1, RoundedIsInt DEF Entry
  <2>3. Submit(e)
    BY <1>1 DEF PlaceAtFvgZone
  <2> HIDE DEF e
  <2> QED BY <2>2, <2>3, SubmitTakesOne
<1>2. ASSUME NEW base \in Bases, NEW pct \in Retracements, NEW side \in {"BUY", "SELL"},
             PlaceAtRetracement(base, pct, side)
      PROVE  \E e \in Entry, o \in QueueOrders : Submits(o, e)
  <2> DEFINE e == [price |-> RoundToTick(Retraced(base, pct, side)), kind |-> "RETRACEMENT"]
  <2>1. Retraced(base, pct, side) \in Int
    <3>1. base \in Int /\ pct \in Int
      BY QueueAssumption DEF QueueAssumption
    <3>2. base * (IF side = "BUY" THEN 100 - pct ELSE 100 + pct) \in Int
      BY <3>1
    <3> QED BY <3>2 DEF Retraced
  <2>2. e \in Entry /\ e.kind \in {"FVG", "RETRACEMENT"}
    BY <2>1, RoundedIsInt DEF Entry
  <2>3. Submit(e)
    BY <1>2 DEF PlaceAtRetracement
  <2> HIDE DEF e
  <2> QED BY <2>2, <2>3, SubmitTakesOne
<1> QED BY <1>1, <1>2

-----------------------------------------------------------------------------
(* The steps, one lemma per thread.                                        *)

LEMMA QueueInitHolds ==
  ASSUME QueueInit
  PROVE  QueueInv
<1>1. QueueTypeOK
  BY DEF QueueInit, QueueTypeOK, NotPlacing, Still, Out, Entry, Walk, States
<1>2. HandsOK
  BY DEF QueueInit, HandsOK, NotPlacing, Still, Queued
<1>3. EndsOK
  BY DEF QueueInit, EndsOK, Still, Ended
<1>4. NoOrderVanishes
  BY DEF QueueInit, NoOrderVanishes, Submitted
<1> QED BY <1>1, <1>2, <1>3, <1>4 DEF QueueInv

LEMMA FillerKeeps ==
  ASSUME QueueInv, FillerWrites \/ \E o \in QueueOrders : FillerLooks(o)
  PROVE  QueueInv'
<1> USE DEF QueueInv
<1>1. ASSUME NEW o \in QueueOrders, FillerLooks(o)
      PROVE  QueueInv'
  <2>1. QueueTypeOK'
    BY <1>1 DEF FillerLooks, QueueTypeOK
  <2>2. HandsOK'
    BY <1>1 DEF FillerLooks, HandsOK, Submission, Queued, Live
  <2>3. EndsOK'
    BY <1>1 DEF FillerLooks, EndsOK
  <2>4. NoOrderVanishes'
    BY <1>1 DEF FillerLooks, NoOrderVanishes, Submitted, InHand, Queued
  <2> QED BY <2>1, <2>2, <2>3, <2>4
<1>2. ASSUME FillerWrites
      PROVE  QueueInv'
  <2>0. /\ filling \in QueueOrders /\ status[filling] # "none"
        /\ filling' = 0 /\ UNCHANGED <<queue, placing, cancelling, pass, history>>
        /\ \/ \E s \in {"PARTIAL", "FILLED"} : Write(filling, s)
           \/ UNCHANGED <<status, ended>>
    BY <1>2 DEF FillerWrites, QueueTypeOK, HandsOK, Submission
  <2>1. QueueTypeOK'
    BY <2>0 DEF QueueTypeOK, Write, States, Ended
  <2>2. HandsOK'
    BY <2>0 DEF QueueTypeOK, HandsOK, Submission, Queued, Write
  <2>3. EndsOK'
    BY <2>0 DEF QueueTypeOK, EndsOK, HandsOK, Submission, Write, Ended
  <2>4. NoOrderVanishes'
    BY <2>0 DEF QueueTypeOK, NoOrderVanishes, Submitted, InHand, Queued, Write
  <2> QED BY <2>1, <2>2, <2>3, <2>4
<1> QED BY <1>1, <1>2

LEMMA PlacerKeeps ==
  ASSUME QueueInv,
         (\E e \in Entry, o \in QueueOrders : Submits(o, e)) \/ EnterQueue \/ Tag
  PROVE  QueueInv'
<1> USE DEF QueueInv
<1>1. ASSUME NEW e \in Entry, NEW o \in QueueOrders, Submits(o, e)
      PROVE  QueueInv'
  <2>1. QueueTypeOK'
    BY <1>1 DEF Submits, QueueTypeOK, Write, States, Ended
  <2>2. HandsOK'
    BY <1>1 DEF Submits, QueueTypeOK, HandsOK, Submission, Queued, Write
  <2>3. EndsOK'
    BY <1>1 DEF Submits, QueueTypeOK, EndsOK, Write, Ended
  <2>4. NoOrderVanishes'
    BY <1>1 DEF Submits, QueueTypeOK, NoOrderVanishes, Submitted, InHand, Queued, Write, Ended
  <2> QED BY <2>1, <2>2, <2>3, <2>4
<1>2. ASSUME EnterQueue
      PROVE  QueueInv'
  <2> DEFINE e == [placing.entry EXCEPT !.kind = "untagged"]
  <2>0. e \in Entry /\ e # Out /\ placing.order \in QueueOrders
    BY <1>2 DEF EnterQueue, QueueTypeOK, HandsOK, Submission, Entry, Out
  <2>1. QueueTypeOK'
    BY <1>2, <2>0 DEF EnterQueue, QueueTypeOK
  <2>2. HandsOK'
    BY <1>2, <2>0 DEF EnterQueue, QueueTypeOK, HandsOK, Submission, Queued
  <2>3. EndsOK'
    BY <1>2 DEF EnterQueue, EndsOK
  <2>4. NoOrderVanishes'
    BY <1>2, <2>0 DEF EnterQueue, QueueTypeOK, NoOrderVanishes, Submitted, InHand, Queued
  <2> QED BY <2>1, <2>2, <2>3, <2>4
<1>3. ASSUME Tag
      PROVE  QueueInv'
  <2>0. placing.entry \in Entry /\ placing.entry # Out /\ placing.order \in QueueOrders
    BY <1>3 DEF Tag, QueueTypeOK, HandsOK, Submission, Entry, Out
  <2>1. QueueTypeOK'
    BY <1>3, <2>0 DEF Tag, QueueTypeOK, NotPlacing, Out, Entry
  <2>2. HandsOK'
    BY <1>3, <2>0 DEF Tag, QueueTypeOK, HandsOK, Submission, Queued, NotPlacing
  <2>3. EndsOK'
    BY <1>3 DEF Tag, EndsOK
  <2>4. NoOrderVanishes'
    BY <1>3, <2>0 DEF Tag, QueueTypeOK, NoOrderVanishes, Submitted, InHand, Queued, NotPlacing
  <2> QED BY <2>1, <2>2, <2>3, <2>4
<1> QED BY <1>1, <1>2, <1>3

LEMMA CancellerKeeps ==
  ASSUME QueueInv, CancelAll \/ AskCancel \/ CancelWrites \/ PopCancelled \/ RecordCancelled
  PROVE  QueueInv'
<1> USE DEF QueueInv
<1>1. ASSUME CancelAll
      PROVE  QueueInv'
  <2> DEFINE t == [Still EXCEPT !.todo = Queued]
  <2>0. /\ Onward(t) \in Walk /\ Onward(t).at \in {"idle", "look"}
        /\ Onward(t).at # "idle" => Onward(t).order \in Queued
        /\ Onward(t).todo \in SUBSET Queued
    <3>1. t.todo = Queued /\ Queued \in SUBSET QueueOrders
      BY DEF Still, Queued
    <3> HIDE DEF t
    <3> QED BY <3>1, OnwardKeeps
  <2>1. QueueTypeOK'
    BY <1>1, <2>0 DEF CancelAll, QueueTypeOK
  <2>2. HandsOK'
    BY <1>1, <2>0 DEF CancelAll, HandsOK, Submission, Queued
  <2>3. EndsOK'
    BY <1>1, <2>0 DEF CancelAll, EndsOK
  <2>4. NoOrderVanishes'
    BY <1>1, <2>0 DEF CancelAll, NoOrderVanishes, Submitted, InHand, Queued
  <2> QED BY <2>1, <2>2, <2>3, <2>4
<1>2. ASSUME cancelling.at # "idle"
      PROVE  LET next == Onward(cancelling) IN
             /\ next \in Walk /\ next.at \in {"idle", "look"}
             /\ next.at # "idle" =>
                  Submission(next.order) /\ \A o \in next.todo : Submission(o)
  BY <1>2, OnwardKeeps DEF QueueTypeOK, HandsOK, Walk
<1>3. ASSUME AskCancel
      PROVE  QueueInv'
  <2>1. QueueTypeOK'
    BY <1>2, <1>3 DEF AskCancel, QueueTypeOK, Walk
  <2>2. HandsOK'
    BY <1>2, <1>3 DEF AskCancel, QueueTypeOK, HandsOK, Submission, Queued, Walk
  <2>3. EndsOK'
    BY <1>2, <1>3 DEF AskCancel, QueueTypeOK, EndsOK, Walk
  <2>4. NoOrderVanishes'
    BY <1>2, <1>3 DEF AskCancel, QueueTypeOK, NoOrderVanishes, Submitted, InHand, Queued, Walk
  <2> QED BY <2>1, <2>2, <2>3, <2>4
<1>4. ASSUME CancelWrites
      PROVE  QueueInv'
  <2>0. /\ cancelling.order \in QueueOrders /\ status[cancelling.order] # "none"
        /\ cancelling.at = "write"
        /\ cancelling' = [cancelling EXCEPT !.at = "pop"] /\ cancelling' \in Walk
        /\ cancelling'.at = "pop" /\ cancelling'.order = cancelling.order
        /\ UNCHANGED <<filling, queue, placing, pass, history>>
        /\ \/ Write(cancelling.order, "CANCELLED")
           \/ status[cancelling.order] \in Ended /\ UNCHANGED <<status, ended>>
    BY <1>4 DEF CancelWrites, QueueTypeOK, HandsOK, Submission, Walk
  <2>1. QueueTypeOK'
    BY <2>0 DEF QueueTypeOK, Write, States, Ended
  <2>2. HandsOK'
    BY <2>0 DEF QueueTypeOK, HandsOK, Submission, Queued, Write, Walk
  <2>3. EndsOK'
    <3>1. \A o \in QueueOrders : ended[o] \subseteq ended'[o]
      BY <2>0 DEF QueueTypeOK, Write
    <3>2. \A o \in QueueOrders : status'[o] \in Ended => status'[o] \in ended'[o]
      BY <2>0 DEF QueueTypeOK, EndsOK, Write, Ended
    <3>3. ended'[cancelling.order] # {}
      BY <2>0, <3>2 DEF QueueTypeOK, EndsOK, Write, Ended
    <3>4. \A r \in Reconcilers : pass[r].at # "idle" => pass[r].order \in QueueOrders
      BY DEF HandsOK
    <3> QED BY <2>0, <3>1, <3>2, <3>3, <3>4 DEF EndsOK
  <2>4. NoOrderVanishes'
    BY <2>0 DEF QueueTypeOK, NoOrderVanishes, Submitted, InHand, Queued, Write, Ended, Walk
  <2> QED BY <2>1, <2>2, <2>3, <2>4
<1>5. ASSUME PopCancelled
      PROVE  QueueInv'
  <2>0. cancelling.order \in QueueOrders /\ Out \in Entry /\ cancelling' \in Walk
    <3>1. cancelling \in Walk /\ cancelling.order \in QueueOrders
      BY <1>5 DEF PopCancelled, QueueTypeOK, HandsOK, Submission
    <3>2. PICK saw \in {"entry", "none"} :
             cancelling' = [cancelling EXCEPT !.at = "record", !.saw = saw]
      BY <1>5 DEF PopCancelled
    <3>3. cancelling' \in Walk
      BY <3>1, <3>2 DEF Walk, States
    <3> QED BY <3>1, <3>3 DEF Out, Entry
  <2>1. QueueTypeOK'
    BY <1>5, <2>0 DEF PopCancelled, QueueTypeOK
  <2>2. HandsOK'
    BY <1>5, <2>0 DEF PopCancelled, QueueTypeOK, HandsOK, Submission, Queued, Walk
  <2>3. EndsOK'
    BY <1>5, <2>0 DEF PopCancelled, QueueTypeOK, EndsOK, Walk
  <2>4. NoOrderVanishes'
    BY <1>5, <2>0 DEF PopCancelled, QueueTypeOK, NoOrderVanishes, Submitted, InHand, Queued, Walk
  <2> QED BY <2>1, <2>2, <2>3, <2>4
<1>6. ASSUME RecordCancelled
      PROVE  QueueInv'
  <2>0. cancelling.at = "record" /\ cancelling.order \in QueueOrders
        /\ ended[cancelling.order] # {}
    BY <1>6 DEF RecordCancelled, HandsOK, Submission, EndsOK
  <2>1. QueueTypeOK'
    BY <1>2, <1>6, <2>0 DEF RecordCancelled, QueueTypeOK
  <2>2. HandsOK'
    BY <1>2, <1>6, <2>0 DEF RecordCancelled, HandsOK, Submission, Queued
  <2>3. EndsOK'
    BY <1>2, <1>6, <2>0 DEF RecordCancelled, EndsOK
  <2>4. NoOrderVanishes'
    <3> DEFINE o == cancelling.order
               h == <<IF cancelling.saw = "none" THEN 0 ELSE o, "cancelled">>
    <3>1. history' = history \cup {h} /\ h[1] \in {0, o} /\ h[2] = "cancelled"
          /\ (InHand(o) => h[1] = o) /\ \A p : InHand(p) => p = o
      BY <1>6 DEF RecordCancelled, InHand
    <3>2. UNCHANGED <<status, queue, placing, ended>>
      BY <1>6 DEF RecordCancelled
    <3> HIDE DEF h
    <3>3. \A p \in QueueOrders : Submitted(p)' =>
             (p \in Queued)' \/ InHand(p)' \/ \E g \in history' : g[1] = p
      BY <3>1, <3>2 DEF NoOrderVanishes, Submitted, Queued
    <3>4. \A g \in history' : g[1] # 0 =>
             IF g[2] = "cancelled" THEN ended'[g[1]] # {} ELSE g[2] \in ended'[g[1]]
      BY <2>0, <3>1, <3>2 DEF NoOrderVanishes
    <3> QED BY <3>3, <3>4 DEF NoOrderVanishes
  <2> QED BY <2>1, <2>2, <2>3, <2>4
<1> QED BY <1>1, <1>3, <1>4, <1>5, <1>6

LEMMA ReconcilerKeeps ==
  ASSUME QueueInv, NEW r \in Reconcilers,
         Reconcile(r) \/ GetOrderStatus(r) \/ Note(r) \/ Remove(r)
  PROVE  QueueInv'
<1> USE DEF QueueInv
<1>1. ASSUME Reconcile(r)
      PROVE  QueueInv'
  <2> DEFINE t == [Still EXCEPT !.todo = Queued]
  <2>0. /\ Onward(t) \in Walk /\ Onward(t).at \in {"idle", "look"}
        /\ Onward(t).at # "idle" => Onward(t).order \in QueueOrders
    <3>1. t.todo = Queued /\ Queued \in SUBSET QueueOrders
      BY DEF Still, Queued
    <3> HIDE DEF t
    <3> QED BY <3>1, OnwardKeeps
  <2>1. QueueTypeOK'
    BY <1>1, <2>0 DEF Reconcile, QueueTypeOK
  <2>2. HandsOK'
    BY <1>1, <2>0 DEF Reconcile, QueueTypeOK, HandsOK, Submission, Queued
  <2>3. EndsOK'
    BY <1>1, <2>0 DEF Reconcile, QueueTypeOK, EndsOK
  <2>4. NoOrderVanishes'
    BY <1>1 DEF Reconcile, NoOrderVanishes, Submitted, InHand, Queued
  <2> QED BY <2>1, <2>2, <2>3, <2>4
<1>2. ASSUME GetOrderStatus(r)
      PROVE  QueueInv'
  <2>0. /\ pass[r].order \in QueueOrders
        /\ status[pass[r].order] \in States
        /\ pass' = [pass EXCEPT ![r] = [@ EXCEPT !.at = "note", !.saw = status[pass[r].order]]]
        /\ [pass[r] EXCEPT !.at = "note", !.saw = status[pass[r].order]] \in Walk
    BY <1>2 DEF GetOrderStatus, QueueTypeOK, HandsOK, Walk
  <2>1. QueueTypeOK'
    BY <1>2, <2>0 DEF GetOrderStatus, QueueTypeOK
  <2>2. HandsOK'
    BY <1>2, <2>0 DEF GetOrderStatus, QueueTypeOK, HandsOK, Submission, Queued, Walk
  <2>3. EndsOK'
    BY <1>2, <2>0 DEF GetOrderStatus, QueueTypeOK, EndsOK, Walk
  <2>4. NoOrderVanishes'
    BY <1>2 DEF GetOrderStatus, NoOrderVanishes, Submitted, InHand, Queued
  <2> QED BY <2>1, <2>2, <2>3, <2>4
<1>3. /\ Onward(pass[r]) \in Walk /\ Onward(pass[r]).at \in {"idle", "look"}
      /\ Onward(pass[r]).at # "idle" => Onward(pass[r]).order \in QueueOrders
  <2>1. pass[r].todo \in SUBSET QueueOrders
    BY DEF QueueTypeOK, Walk
  <2> QED BY <2>1, OnwardKeeps
<1>4. ASSUME Note(r)
      PROVE  QueueInv'
  <2> DEFINE o == pass[r].order
             over == o \in Queued /\ pass[r].saw \in Ended
  <2>0. /\ o \in QueueOrders /\ pass[r].at = "note"
        /\ history' = IF over THEN history \cup {<<o, pass[r].saw>>} ELSE history
        /\ pass' = [pass EXCEPT ![r] = IF over THEN [@ EXCEPT !.at = "pop"] ELSE Onward(@)]
        /\ [pass[r] EXCEPT !.at = "pop"] \in Walk
        /\ UNCHANGED <<status, filling, queue, placing, cancelling, ended>>
        /\ over => pass[r].saw \in ended[o] /\ pass[r].saw \in Ended
        /\ pass \in [Reconcilers -> Walk] /\ pass[r] \in Walk
    BY <1>4 DEF Note, QueueTypeOK, HandsOK, EndsOK, Walk
  <2>1. QueueTypeOK'
    <3> HIDE DEF o, over
    <3>1. history' \in SUBSET (({0} \cup QueueOrders) \X ({"cancelled"} \cup Ended))
      BY <2>0 DEF QueueTypeOK
    <3>2. pass' \in [Reconcilers -> Walk]
      BY <2>0, <1>3
    <3> QED BY <2>0, <3>1, <3>2 DEF QueueTypeOK
  <2>2. HandsOK'
    BY <1>3, <2>0 DEF QueueTypeOK, HandsOK, Submission, Queued
  <2>3. EndsOK'
    <3> HIDE DEF over
    <3>1. pass'[r] = IF over THEN [pass[r] EXCEPT !.at = "pop"] ELSE Onward(pass[r])
      BY <2>0
    <3>2. pass'[r].at = "pop" => \E h \in history' : h[1] = pass'[r].order
      <4>1. CASE over
        <5>1. <<o, pass[r].saw>> \in history' /\ pass'[r].order = o
          BY <2>0, <3>1, <4>1
        <5> QED BY <5>1
      <4>2. CASE ~over
        BY <1>3, <3>1, <4>2
      <4> QED BY <4>1, <4>2
    <3>3. pass'[r].at # "note"
      BY <1>3, <2>0, <3>1 DEF Walk
    <3>4. \A q \in Reconcilers : q # r => pass'[q] = pass[q]
      BY <2>0
    <3>5. history \subseteq history'
      BY <2>0
    <3> QED BY <2>0, <3>2, <3>3, <3>4, <3>5 DEF EndsOK
  <2>4. NoOrderVanishes'
    BY <2>0 DEF NoOrderVanishes, Submitted, InHand, Queued, Ended
  <2> QED BY <2>1, <2>2, <2>3, <2>4
<1>5. ASSUME Remove(r)
      PROVE  QueueInv'
  <2>0. /\ pass[r].order \in QueueOrders /\ Out \in Entry
        /\ \E h \in history : h[1] = pass[r].order
    BY <1>5 DEF Remove, QueueTypeOK, HandsOK, EndsOK, Out, Entry
  <2>1. QueueTypeOK'
    BY <1>3, <1>5, <2>0 DEF Remove, QueueTypeOK
  <2>2. HandsOK'
    BY <1>3, <1>5, <2>0 DEF Remove, QueueTypeOK, HandsOK, Submission, Queued
  <2>3. EndsOK'
    BY <1>3, <1>5 DEF Remove, QueueTypeOK, EndsOK
  <2>4. NoOrderVanishes'
    BY <1>5, <2>0 DEF Remove, QueueTypeOK, NoOrderVanishes, Submitted, InHand, Queued
  <2> QED BY <2>1, <2>2, <2>3, <2>4
<1> QED BY <1>1, <1>2, <1>4, <1>5

LEMMA QueueStepKeeps ==
  ASSUME QueueInv, [QueueNext]_queueVars
  PROVE  QueueInv'
<1>1. CASE UNCHANGED queueVars
  BY <1>1 DEF queueVars, QueueInv, QueueTypeOK, HandsOK, EndsOK, NoOrderVanishes, Submission,
     Queued, Submitted, InHand
<1>2. CASE QueueNext
  BY <1>2, PlacingSubmits, FillerKeeps, PlacerKeeps, CancellerKeeps, ReconcilerKeeps
     DEF QueueNext
<1> QED BY <1>1, <1>2

-----------------------------------------------------------------------------
(* Theorems.                                                               *)

\* The invariant, from which the rest follows.
THEOREM QueueInvariant == QueueSpec => []QueueInv
<1>1. QueueInit => QueueInv
  BY QueueInitHolds
<1>2. QueueInv /\ [QueueNext]_queueVars => QueueInv'
  BY QueueStepKeeps
<1> QED BY <1>1, <1>2, PTL DEF QueueSpec

\* For any number of orders, zones and concurrent reconcilers, an order once in
\* the queue of order_router.py stays there until it is in the history under
\* its own number, and no record is made of an end that did not come.
THEOREM NothingVanishes == QueueSpec => []NoOrderVanishes
<1>1. QueueInv => NoOrderVanishes
  BY DEF QueueInv
<1> QED BY <1>1, QueueInvariant, PTL

(***************************************************************************)
(* OrderRouting                                                            *)
(***************************************************************************)

FillRecord == [executor : Scheduled, gen : Nat, n : Nat, qty : Nat, price : Nat]
SessionRecord == [executor : Executors, gen : Nat, n : Nat, qty : Nat, price : Nat]

TwapRecord == [gen : Nat, left : 0 .. TwapTotal, next : Nat, fills : Seq(FillRecord),
               limits : Seq(Nat)]
VwapRecord == [gen : Nat, left : 0 .. VwapTotal, base : Int, rate : Int,
               fills : Seq(FillRecord)]

RoutingTypes ==
    /\ twap \in TwapRecord
    /\ vwap \in VwapRecord
    /\ DOMAIN call = {"todo", "open"}
    /\ sent \in [Executors -> [orders : Nat, executed : Nat]]
    /\ failed \in [Scheduled -> [routes : Nat, last : BOOLEAN]]
    /\ dropped \in Nat
    /\ session \in Seq(SessionRecord)

\* RemainingIsAccounted, one executor at a time.
TwapAccounted ==
    /\ TwapTotal - twap.left = Lesser(TwapTotal, TotalFilled(twap.fills) + dropped)
    /\ TotalFilled(twap.fills) + dropped <= sent["TWAPExecutor"].executed

VwapAccounted ==
    /\ VwapTotal - vwap.left = Lesser(VwapTotal, TotalFilled(vwap.fills))
    /\ TotalFilled(vwap.fills) <= sent["VWAPExecutor"].executed

RoutingInv == RoutingTypes /\ TwapAccounted /\ VwapAccounted /\ NoFillEscapes

-----------------------------------------------------------------------------
(* Helpers.                                                                *)

LEMMA TotalOfNone == TotalFilled(<<>>) = 0
<1>1. DOMAIN <<>> = {}
  OBVIOUS
<1> QED BY <1>1, SumOfNothing DEF TotalFilled

\* One more fill in a history adds its quantity to the total.
LEMMA TotalGrows ==
  ASSUME NEW s \in Seq(FillRecord), NEW r \in FillRecord
  PROVE  /\ Append(s, r) \in Seq(FillRecord)
         /\ TotalFilled(s) \in Nat
         /\ TotalFilled(Append(s, r)) = TotalFilled(s) + r.qty
<1> DEFINE u == Append(s, r)
           N == Len(s)
           f == QtyOf(s)
           g == QtyOf(u)
           Old == 1 .. N
           New == 1 .. N + 1
<1>1. N \in Nat /\ DOMAIN s = Old /\ DOMAIN u = New /\ u \in Seq(FillRecord)
  OBVIOUS
<1>2. \A i \in Old : f[i] = s[i].qty /\ s[i] \in FillRecord /\ u[i] = s[i] /\ g[i] = u[i].qty
  BY <1>1 DEF QtyOf
<1>3. g[N + 1] = r.qty /\ r.qty \in Nat
  <2>1. u[N + 1] = r /\ N + 1 \in DOMAIN u
    BY <1>1
  <2> QED BY <2>1 DEF QtyOf, FillRecord
<1>4. \A i \in Old : f[i] \in Nat /\ g[i] = f[i]
  BY <1>2 DEF FillRecord
<1>5. IsFiniteSet(Old) /\ IsFiniteSet(New)
  <2>1. 1 \in Int /\ N \in Int /\ N + 1 \in Int
    BY <1>1
  <2> QED BY <2>1, FS_Interval
<1>6. N + 1 \in New /\ New \ {N + 1} = Old /\ \A i \in New : i \in Old \/ i = N + 1
  BY <1>1
<1>7. TotalFilled(s) = SumFunctionOnSet(f, Old) /\ TotalFilled(u) = SumFunctionOnSet(g, New)
  BY <1>1 DEF TotalFilled
<1> HIDE DEF f, g, Old, New, N
<1>8. SumFunctionOnSet(f, Old) \in Nat
  BY <1>4, <1>5, SumNat
<1>9. SumFunctionOnSet(g, Old) = SumFunctionOnSet(f, Old)
  BY <1>4, <1>5, SumOfEquals
<1>10. SumFunctionOnSet(g, New) = g[N + 1] + SumFunctionOnSet(g, New \ {N + 1})
  <2>1. \A i \in New : g[i] \in Int
    BY <1>3, <1>4, <1>6
  <2> QED BY <1>5, <1>6, <2>1, SumRemove
<1>11. SumFunctionOnSet(g, New) = SumFunctionOnSet(f, Old) + r.qty
  <2>1. SumFunctionOnSet(g, New) = r.qty + SumFunctionOnSet(f, Old)
    BY <1>3, <1>6, <1>9, <1>10
  <2> HIDE DEF u
  <2> QED BY <2>1, <1>3, <1>8
<1>12. TotalFilled(u) = TotalFilled(s) + r.qty /\ TotalFilled(s) \in Nat
  <2> HIDE DEF u
  <2> QED BY <1>7, <1>8, <1>11
<1> QED BY <1>1, <1>12

\* Whatever the exchange answers, it executes a natural number and its count
\* does not go down.
LEMMA SentGrows ==
  ASSUME RoutingTypes, NEW e \in Executors, NEW qty, NEW outcome \in Outcomes(qty),
         PlaceOrder(e, outcome)
  PROVE  /\ outcome.executed \in Nat
         /\ sent' \in [Executors -> [orders : Nat, executed : Nat]]
         /\ \A x \in Executors : sent'[x].executed >= sent[x].executed
         /\ outcome.kind # "refused" =>
              sent'[e].executed = sent[e].executed + outcome.executed
<1>1. outcome.executed \in Nat
  BY DEF Outcomes
<1>2. CASE outcome.kind = "refused"
  BY <1>1, <1>2 DEF PlaceOrder, RoutingTypes
<1>3. CASE outcome.kind # "refused"
  <2> DEFINE more == [orders |-> sent[e].orders + 1,
                      executed |-> sent[e].executed + outcome.executed]
  <2>1. /\ sent \in [Executors -> [orders : Nat, executed : Nat]]
        /\ sent[e].orders \in Nat /\ sent[e].executed \in Nat
        /\ \A x \in Executors : sent[x].executed \in Nat
    BY DEF RoutingTypes
  <2>2. sent' = [sent EXCEPT ![e] = more]
    BY <1>3 DEF PlaceOrder
  <2>3. /\ more \in [orders : Nat, executed : Nat]
        /\ more.executed = sent[e].executed + outcome.executed
        /\ more.executed >= sent[e].executed
    BY <1>1, <2>1
  <2> HIDE DEF more
  <2>4. \A x \in Executors : sent'[x] = IF x = e THEN more ELSE sent[x]
    BY <2>1, <2>2
  <2>5. sent' \in [Executors -> [orders : Nat, executed : Nat]]
    BY <2>1, <2>2, <2>3
  <2>6. \A x \in Executors : sent'[x].executed >= sent[x].executed
    BY <2>1, <2>3, <2>4
  <2> QED BY <1>1, <2>3, <2>4, <2>5, <2>6
<1> QED BY <1>1, <1>2, <1>3

LEMMA TotalIsNat ==
  ASSUME NEW s \in Seq(FillRecord)
  PROVE  TotalFilled(s) \in Nat
<1> DEFINE f == QtyOf(s)
           D == 1 .. Len(s)
<1>1. Len(s) \in Nat /\ DOMAIN s = D
  OBVIOUS
<1>2. \A i \in D : f[i] \in Nat
  <2>1. \A i \in D : f[i] = s[i].qty /\ s[i] \in FillRecord
    BY <1>1 DEF QtyOf
  <2> QED BY <2>1 DEF FillRecord
<1>3. IsFiniteSet(D)
  BY <1>1, FS_Interval
<1>4. TotalFilled(s) = SumFunctionOnSet(f, D)
  BY <1>1 DEF TotalFilled
<1> HIDE DEF f, D
<1> QED BY <1>2, <1>3, <1>4, SumNat

LEMMA RangeGrows ==
  ASSUME NEW S, NEW s \in Seq(S), NEW t \in Seq(S)
  PROVE  /\ s \o t \in Seq(S)
         /\ Range(s) \subseteq Range(s \o t)
         /\ Range(t) \subseteq Range(s \o t)
<1>1. /\ Len(s) \in Nat /\ Len(t) \in Nat /\ s \o t \in Seq(S)
      /\ Len(s \o t) = Len(s) + Len(t)
      /\ DOMAIN s = 1 .. Len(s) /\ DOMAIN t = 1 .. Len(t)
      /\ DOMAIN (s \o t) = 1 .. Len(s) + Len(t)
  OBVIOUS
<1>2. \A i \in 1 .. Len(s) : s[i] = (s \o t)[i] /\ i \in 1 .. Len(s) + Len(t)
  BY <1>1
<1>3. \A i \in 1 .. Len(t) :
         t[i] = (s \o t)[i + Len(s)] /\ i + Len(s) \in 1 .. Len(s) + Len(t)
  BY <1>1
<1> HIDE DEF Range
<1>4. Range(s) \subseteq Range(s \o t)
  BY <1>1, <1>2 DEF Range
<1>5. Range(t) \subseteq Range(s \o t)
  BY <1>1, <1>3 DEF Range
<1> QED BY <1>1, <1>4, <1>5

\* Appending a schedule keeps the limits a sequence of prices.
LEMMA ScheduleIsTyped ==
  ASSUME NEW limits \in Seq(Nat), NEW ref \in Prices \cup {NoPrice}
  PROVE  BuildSchedule(limits, ref) \in Seq(Nat)
<1>1. ref \in Nat /\ Slices \in Nat
  BY OrderRoutingAssumption DEF OrderRoutingAssumption, NoPrice
<1>2. [k \in 1 .. Slices |-> ref] \in Seq(Nat)
  BY <1>1
<1> QED BY <1>2 DEF BuildSchedule

\* What an executor booked stays accounted for while only the exchange moves.
LEMMA AccountsStand ==
  ASSUME RoutingTypes, sent' \in [Executors -> [orders : Nat, executed : Nat]],
         \A x \in Executors : sent'[x].executed >= sent[x].executed
  PROVE  /\ TwapAccounted /\ twap'.left = twap.left /\ twap'.fills = twap.fills
              /\ dropped' = dropped
            => TwapAccounted'
         /\ VwapAccounted /\ vwap'.left = vwap.left /\ vwap'.fills = vwap.fills
            => VwapAccounted'
<1>1. /\ twap.fills \in Seq(FillRecord) /\ vwap.fills \in Seq(FillRecord)
      /\ dropped \in Nat
      /\ sent["TWAPExecutor"].executed \in Nat /\ sent["VWAPExecutor"].executed \in Nat
      /\ sent'["TWAPExecutor"].executed \in Nat /\ sent'["VWAPExecutor"].executed \in Nat
      /\ sent'["TWAPExecutor"].executed >= sent["TWAPExecutor"].executed
      /\ sent'["VWAPExecutor"].executed >= sent["VWAPExecutor"].executed
  BY DEF RoutingTypes, TwapRecord, VwapRecord, Executors
<1>2. TotalFilled(twap.fills) \in Nat /\ TotalFilled(vwap.fills) \in Nat
  BY <1>1, TotalIsNat
<1>3. ASSUME TwapAccounted, twap'.left = twap.left, twap'.fills = twap.fills,
             dropped' = dropped
      PROVE  TwapAccounted'
  <2>1. TotalFilled(twap'.fills) = TotalFilled(twap.fills)
    BY <1>3
  <2>2. TotalFilled(twap.fills) + dropped <= sent'["TWAPExecutor"].executed
    BY <1>1, <1>2, <1>3 DEF TwapAccounted
  <2> QED BY <1>3, <2>1, <2>2 DEF TwapAccounted
<1>4. ASSUME VwapAccounted, vwap'.left = vwap.left, vwap'.fills = vwap.fills
      PROVE  VwapAccounted'
  <2>1. TotalFilled(vwap'.fills) = TotalFilled(vwap.fills)
    BY <1>4
  <2>2. TotalFilled(vwap.fills) <= sent'["VWAPExecutor"].executed
    BY <1>1, <1>2, <1>4 DEF VwapAccounted
  <2> QED BY <1>4, <2>1, <2>2 DEF VwapAccounted
<1> QED BY <1>3, <1>4

\* The session only grows, so what was reported stays reported.
LEMMA ReportsStand ==
  ASSUME RoutingTypes, NoFillEscapes, NEW more,
         more \in Seq(SessionRecord),
         session' = session \o more, vwap'.fills = vwap.fills, call'.open = call.open,
         failed'["VWAPExecutor"].last = failed["VWAPExecutor"].last
  PROVE  /\ NoFillEscapes'
         /\ session' \in Seq(SessionRecord)
<1>1. session' \in Seq(SessionRecord) /\ Range(session) \subseteq Range(session')
  BY RangeGrows DEF RoutingTypes
<1>2. NoFillEscapes'
  BY <1>1 DEF NoFillEscapes
<1> QED BY <1>1, <1>2

\* More executed for one executor is a count that grows.
LEMMA ExecutedGrows ==
  ASSUME RoutingTypes, NEW e \in Executors, NEW n \in Nat,
         sent' = [sent EXCEPT ![e].executed = @ + n]
  PROVE  /\ sent' \in [Executors -> [orders : Nat, executed : Nat]]
         /\ \A x \in Executors : sent'[x].executed >= sent[x].executed
         /\ sent'[e].executed = sent[e].executed + n
<1> DEFINE more == [sent[e] EXCEPT !.executed = @ + n]
<1>1. /\ sent \in [Executors -> [orders : Nat, executed : Nat]]
      /\ \A x \in Executors : sent[x].executed \in Nat
  BY DEF RoutingTypes
<1>2. /\ more \in [orders : Nat, executed : Nat]
      /\ more.executed = sent[e].executed + n /\ more.executed >= sent[e].executed
  BY <1>1
<1>3. sent' = [sent EXCEPT ![e] = more]
  OBVIOUS
<1> HIDE DEF more
<1>4. \A x \in Executors : sent'[x] = IF x = e THEN more ELSE sent[x]
  BY <1>1, <1>3
<1>5. sent' \in [Executors -> [orders : Nat, executed : Nat]]
  BY <1>1, <1>2, <1>3
<1>6. \A x \in Executors : sent'[x].executed >= sent[x].executed
  BY <1>1, <1>2, <1>4
<1> QED BY <1>2, <1>4, <1>5, <1>6

\* Changing the slice, the quantity left and the history of a TWAP.
LEMMA TwapIsTyped ==
  ASSUME NEW x \in TwapRecord, NEW n \in Nat, NEW l \in 0 .. TwapTotal,
         NEW h \in Seq(FillRecord)
  PROVE  /\ [x EXCEPT !.next = n] \in TwapRecord
         /\ [x EXCEPT !.next = n, !.left = l] \in TwapRecord
         /\ [x EXCEPT !.next = n, !.left = l, !.fills = h] \in TwapRecord
<1> DEFINE L == 0 .. TwapTotal
           H == Seq(FillRecord)
           M == Seq(Nat)
<1>1. x \in [gen : Nat, left : L, next : Nat, fills : H, limits : M] /\ l \in L /\ h \in H
  BY DEF TwapRecord
<1> HIDE DEF L, H, M
<1>2. /\ [x EXCEPT !.next = n] \in [gen : Nat, left : L, next : Nat, fills : H, limits : M]
      /\ [x EXCEPT !.next = n, !.left = l]
           \in [gen : Nat, left : L, next : Nat, fills : H, limits : M]
      /\ [x EXCEPT !.next = n, !.left = l, !.fills = h]
           \in [gen : Nat, left : L, next : Nat, fills : H, limits : M]
  BY <1>1
<1> QED BY <1>2 DEF TwapRecord, L, H, M

LEMMA RaisingIsTyped ==
  ASSUME RoutingTypes, NEW e \in Scheduled, Raises(e) \/ Succeeds(e)
  PROVE  /\ failed' \in [Scheduled -> [routes : Nat, last : BOOLEAN]]
         /\ \A x \in Scheduled : x # e => failed'[x] = failed[x]
         /\ Raises(e) => failed'[e].last = TRUE
<1>1. failed \in [Scheduled -> [routes : Nat, last : BOOLEAN]] /\ failed[e].routes + 1 \in Nat
  BY DEF RoutingTypes
<1>2. CASE Raises(e)
  <2> DEFINE more == [routes |-> failed[e].routes + 1, last |-> TRUE]
  <2>1. more \in [routes : Nat, last : BOOLEAN] /\ more.last = TRUE
    BY <1>1
  <2>2. failed' = [failed EXCEPT ![e] = more]
    BY <1>2 DEF Raises
  <2> HIDE DEF more
  <2> QED BY <1>1, <2>1, <2>2
<1>3. CASE Succeeds(e) /\ ~Raises(e)
  <2> DEFINE more == [failed[e] EXCEPT !.last = FALSE]
  <2>1. more \in [routes : Nat, last : BOOLEAN]
    BY <1>1
  <2>2. failed' = [failed EXCEPT ![e] = more]
    BY <1>3 DEF Succeeds
  <2> HIDE DEF more
  <2> QED BY <1>1, <1>3, <2>1, <2>2
<1> QED BY <1>2, <1>3

LEMMA FillsAreReportable == \A s \in Seq(FillRecord) : s \in Seq(SessionRecord)
<1>1. \A r \in FillRecord : r \in SessionRecord
  BY DEF FillRecord, SessionRecord, Executors, Scheduled
<1>2. ASSUME NEW s \in Seq(FillRecord)
      PROVE  s \in Seq(SessionRecord)
  <2>1. Len(s) \in Nat /\ s \in [1 .. Len(s) -> FillRecord]
    OBVIOUS
  <2>2. s \in [1 .. Len(s) -> SessionRecord]
    BY <1>1, <2>1
  <2> QED BY <2>1, <2>2
<1> QED BY <1>2

LEMMA FreshIsTyped ==
  /\ \A gen \in Nat, ref \in Prices \cup {NoPrice} :
       FreshTwap(gen, ref) \in TwapRecord
  /\ \A gen \in Nat, base \in BaseRates :
       FreshVwap(gen, base) \in VwapRecord
<1>1. TwapTotal \in Nat /\ VwapTotal \in Nat /\ \A base \in BaseRates : base \in Int
  BY OrderRoutingAssumption DEF OrderRoutingAssumption
<1>2. <<>> \in Seq(FillRecord) /\ <<>> \in Seq(Nat)
  OBVIOUS
<1>3. ASSUME NEW gen \in Nat, NEW ref \in Prices \cup {NoPrice}
      PROVE  FreshTwap(gen, ref) \in TwapRecord
  <2> DEFINE limits == BuildSchedule(<<>>, ref)
  <2>1. limits \in Seq(Nat)
    BY <1>2, ScheduleIsTyped
  <2>2. FreshTwap(gen, ref) = [gen |-> gen, left |-> TwapTotal, next |-> 1, fills |-> <<>>,
                               limits |-> limits]
    BY DEF FreshTwap
  <2> HIDE DEF limits
  <2> QED BY <1>1, <1>2, <2>1, <2>2 DEF TwapRecord
<1>4. ASSUME NEW gen \in Nat, NEW base \in BaseRates
      PROVE  FreshVwap(gen, base) \in VwapRecord
  BY <1>1, <1>2 DEF FreshVwap, VwapRecord
<1> QED BY <1>3, <1>4

LEMMA RoutingInitHolds ==
  ASSUME Init
  PROVE  RoutingInv
<1>1. /\ \E ref \in Prices \cup {NoPrice} : twap = FreshTwap(1, ref)
      /\ \E base \in BaseRates : vwap = FreshVwap(1, base)
  BY DEF Init
<1>2. /\ twap.left = TwapTotal /\ twap.fills = <<>>
      /\ vwap.left = VwapTotal /\ vwap.fills = <<>> /\ dropped = 0
  BY <1>1 DEF FreshTwap, FreshVwap, Init
<1>3. RoutingTypes
  <2>1. twap \in TwapRecord /\ vwap \in VwapRecord
    BY <1>1, FreshIsTyped
  <2>2. /\ DOMAIN call = {"todo", "open"}
        /\ sent \in [Executors -> [orders : Nat, executed : Nat]]
        /\ failed \in [Scheduled -> [routes : Nat, last : BOOLEAN]]
        /\ dropped \in Nat
    BY DEF Init, NoCall
  <2>3. session \in Seq(SessionRecord)
    BY DEF Init
  <2> QED BY <2>1, <2>2, <2>3 DEF RoutingTypes
<1>4. TwapTotal \in Nat /\ VwapTotal \in Nat
  BY OrderRoutingAssumption DEF OrderRoutingAssumption
<1>5. sent["TWAPExecutor"].executed = 0 /\ sent["VWAPExecutor"].executed = 0
  BY DEF Init, Executors
<1>6. TotalFilled(twap.fills) = 0 /\ TotalFilled(vwap.fills) = 0
  BY <1>2, TotalOfNone
<1>7. TwapAccounted /\ VwapAccounted
  BY <1>2, <1>4, <1>5, <1>6 DEF TwapAccounted, VwapAccounted, Lesser
<1>8. NoFillEscapes
  BY <1>2 DEF NoFillEscapes, Range
<1> QED BY <1>3, <1>7, <1>8 DEF RoutingInv

-----------------------------------------------------------------------------
(* Each call keeps the invariant.                                          *)

LEMMA DriveTwapKeeps ==
  ASSUME RoutingInv, NEW executed \in {0, 1, SliceQty}, NEW price \in Prices,
         NEW expected \in Prices \cup {NoPrice}, DriveTwap(executed, price, expected)
  PROVE  RoutingInv'
<1> DEFINE r == Fill("TWAPExecutor", twap.gen, Len(twap.fills) + 1, executed, price)
           total == TotalFilled(twap.fills)
<1>1. executed \in Nat /\ price \in Nat /\ TwapTotal \in Nat
  BY OrderRoutingAssumption DEF OrderRoutingAssumption
<1>2. /\ twap.left \in 0 .. TwapTotal /\ twap.fills \in Seq(FillRecord) /\ twap.gen \in Nat
      /\ twap.next \in Nat /\ twap.limits \in Seq(Nat) /\ dropped \in Nat
      /\ sent["TWAPExecutor"].executed \in Nat
  BY DEF RoutingInv, RoutingTypes, TwapRecord, Executors
<1>2a. twap \in TwapRecord /\ twap.next + 1 \in Nat
  BY <1>2 DEF RoutingInv, RoutingTypes
<1>3. r \in FillRecord /\ r.qty = executed
  BY <1>1, <1>2 DEF Fill, FillRecord, Scheduled
<1>4. /\ Append(twap.fills, r) \in Seq(FillRecord) /\ total \in Nat
      /\ TotalFilled(Append(twap.fills, r)) = total + executed
  BY <1>2, <1>3, TotalGrows
<1>5. /\ TwapTotal - twap.left = Lesser(TwapTotal, total + dropped)
      /\ total + dropped <= sent["TWAPExecutor"].executed
  BY DEF RoutingInv, TwapAccounted
<1> HIDE DEF total
<1>6. /\ Greater(0, twap.left - executed) \in 0 .. TwapTotal
      /\ TwapTotal - Greater(0, twap.left - executed)
           = Lesser(TwapTotal, total + dropped + executed)
      /\ TwapTotal - Greater(0, twap.left - executed)
           = Lesser(TwapTotal, total + dropped + Lesser(executed, twap.left))
      /\ Lesser(executed, twap.left) \in Nat /\ Lesser(executed, twap.left) <= executed
  <2> DEFINE booked == total + dropped
  <2>1. booked \in Nat
    BY <1>2, <1>4
  <2>2. TwapTotal - twap.left = Lesser(TwapTotal, booked)
    BY <1>5
  <2> HIDE DEF booked
  <2>3. /\ Greater(0, twap.left - executed) \in 0 .. TwapTotal
        /\ TwapTotal - Greater(0, twap.left - executed)
             = Lesser(TwapTotal, booked + executed)
        /\ TwapTotal - Greater(0, twap.left - executed)
             = Lesser(TwapTotal, booked + Lesser(executed, twap.left))
        /\ Lesser(executed, twap.left) \in Nat /\ Lesser(executed, twap.left) <= executed
    <3>1. executed \in Nat /\ TwapTotal \in Nat /\ twap.left \in 0 .. TwapTotal
      BY <1>1, <1>2
    <3> QED BY <2>1, <2>2, <3>1 DEF Lesser, Greater
  <2> QED BY <2>3 DEF booked
<1>7. /\ UNCHANGED <<vwap, session, call, failed>>
      /\ sent' = [sent EXCEPT !["TWAPExecutor"].executed = @ + executed]
  BY DEF DriveTwap
<1>8. /\ sent' \in [Executors -> [orders : Nat, executed : Nat]]
      /\ \A x \in Executors : sent'[x].executed >= sent[x].executed
      /\ sent'["TWAPExecutor"].executed = sent["TWAPExecutor"].executed + executed
  BY <1>1, <1>7, ExecutedGrows DEF RoutingInv, Executors
<1>9. VwapAccounted'
  BY <1>7, <1>8, AccountsStand DEF RoutingInv
<1>10. NoFillEscapes'
  BY <1>7 DEF RoutingInv, NoFillEscapes
<1>11. CASE executed = 0
  <2>1. /\ twap' = [twap EXCEPT !.next = @ + 1] /\ dropped' = dropped
    BY <1>11 DEF DriveTwap
  <2>2. RoutingTypes'
    <3>1. twap' \in TwapRecord
      BY <1>2, <1>2a, <2>1, TwapIsTyped
    <3> QED BY <1>7, <1>8, <2>1, <3>1 DEF RoutingInv, RoutingTypes
  <2>3. twap'.left = twap.left /\ twap'.fills = twap.fills
    BY <2>1 DEF RoutingInv, RoutingTypes, TwapRecord
  <2>4. TwapAccounted'
    BY <1>8, <2>1, <2>3, AccountsStand DEF RoutingInv
  <2> QED BY <1>9, <1>10, <2>2, <2>4 DEF RoutingInv
<1>12. CASE executed > 0 /\ expected = NoPrice
  <2>1. /\ twap' = [twap EXCEPT !.next = @ + 1, !.left = Greater(0, @ - executed)]
        /\ dropped' = dropped + Lesser(executed, twap.left)
    BY <1>12 DEF DriveTwap, TwapRecordFill, RoutingInv, RoutingTypes, TwapRecord
  <2>2. /\ twap'.left = Greater(0, twap.left - executed) /\ twap'.fills = twap.fills
    BY <2>1 DEF RoutingInv, RoutingTypes, TwapRecord
  <2>typed. twap' \in TwapRecord
    BY <1>2, <1>6, <1>2a, <2>1, TwapIsTyped
  <2>3. dropped' \in Nat
    BY <1>2, <1>6, <2>1
  <2>4. RoutingTypes'
    BY <1>7, <1>8, <2>typed, <2>3 DEF RoutingInv, RoutingTypes
  <2>5. TotalFilled(twap'.fills) = total
    BY <2>2 DEF total
  <2>6. /\ total + dropped' = total + dropped + Lesser(executed, twap.left)
        /\ total + dropped' <= sent'["TWAPExecutor"].executed
    <3> DEFINE lost == Lesser(executed, twap.left)
    <3>1. lost \in Nat /\ lost <= executed /\ dropped' = dropped + lost
      BY <1>6, <2>1
    <3> HIDE DEF lost
    <3>2. /\ total + dropped' = total + dropped + lost
          /\ total + dropped' <= sent'["TWAPExecutor"].executed
      <4>1. \A a, b, c, d, f \in Nat : a + b <= c /\ d <= f
               => a + (b + d) = a + b + d /\ a + (b + d) <= c + f
        OBVIOUS
      <4>2. /\ total \in Nat /\ dropped \in Nat /\ executed \in Nat
            /\ sent["TWAPExecutor"].executed \in Nat
            /\ total + dropped <= sent["TWAPExecutor"].executed
        BY <1>1, <1>2, <1>4, <1>5
      <4> QED BY <1>8, <3>1, <4>1, <4>2
    <3> QED BY <3>2 DEF lost
  <2>7. TwapAccounted'
    BY <1>6, <2>2, <2>5, <2>6 DEF TwapAccounted
  <2> QED BY <1>9, <1>10, <2>4, <2>7 DEF RoutingInv
<1>13. CASE executed > 0 /\ expected # NoPrice
  <2>1. /\ twap' = [twap EXCEPT !.next = @ + 1, !.left = Greater(0, @ - executed),
                                !.fills = Append(twap.fills, r)]
        /\ dropped' = dropped
    BY <1>13 DEF DriveTwap, TwapRecordFill, Book
  <2> HIDE DEF r
  <2>2. /\ twap'.left = Greater(0, twap.left - executed)
        /\ twap'.fills = Append(twap.fills, r)
    BY <2>1 DEF RoutingInv, RoutingTypes, TwapRecord
  <2>typed. twap' \in TwapRecord
    BY <1>2, <1>4, <1>6, <1>2a, <2>1, TwapIsTyped
  <2>3. RoutingTypes'
    BY <1>2, <1>7, <1>8, <2>1, <2>typed DEF RoutingInv, RoutingTypes
  <2>4. TotalFilled(twap'.fills) = total + executed
    BY <1>4, <2>2
  <2>5. /\ total + executed + dropped' = total + dropped + executed
        /\ total + executed + dropped' <= sent'["TWAPExecutor"].executed
    <3>1. \A a, b, c, f \in Nat : a + b <= c => a + f + b = a + b + f /\ a + f + b <= c + f
      OBVIOUS
    <3>2. /\ total \in Nat /\ dropped \in Nat /\ executed \in Nat
          /\ sent["TWAPExecutor"].executed \in Nat
          /\ total + dropped <= sent["TWAPExecutor"].executed
      BY <1>1, <1>2, <1>4, <1>5
    <3> QED BY <1>8, <2>1, <3>1, <3>2
  <2>6. TwapAccounted'
    BY <1>6, <2>2, <2>4, <2>5 DEF TwapAccounted
  <2> QED BY <1>9, <1>10, <2>3, <2>6 DEF RoutingInv
<1> QED BY <1>1, <1>11, <1>12, <1>13

LEMMA RouteTwapKeeps ==
  ASSUME RoutingInv, NEW ref \in Prices \cup {NoPrice}, NEW outcome \in Outcomes(SliceQty),
         RouteTwap(ref, outcome)
  PROVE  RoutingInv'
<1>1. /\ twap \in TwapRecord /\ twap.next + 1 \in Nat /\ twap.limits \in Seq(Nat)
      /\ twap.fills \in Seq(FillRecord)
  BY DEF RoutingInv, RoutingTypes, TwapRecord
<1>2. /\ UNCHANGED <<vwap, call, dropped>>
      /\ BuildSchedule(twap.limits, ref) \in Seq(Nat)
  BY <1>1, ScheduleIsTyped DEF RouteTwap
<1>3. /\ sent' \in [Executors -> [orders : Nat, executed : Nat]]
      /\ \A x \in Executors : sent'[x].executed >= sent[x].executed
  <2>1. CASE PlaceOrder("TWAPExecutor", outcome)
    BY <2>1, SentGrows DEF RoutingInv, Executors
  <2>2. CASE UNCHANGED sent
    BY <2>2 DEF RoutingInv, RoutingTypes
  <2> QED BY <2>1, <2>2 DEF RouteTwap
<1>4. twap' \in TwapRecord /\ twap'.left = twap.left /\ twap'.fills = twap.fills
  <2> DEFINE limits == BuildSchedule(twap.limits, ref)
  <2>1. \/ twap' = [twap EXCEPT !.limits = limits]
        \/ twap' = [twap EXCEPT !.limits = limits, !.next = @ + 1]
    BY DEF RouteTwap
  <2>2. limits \in Seq(Nat)
    BY <1>2
  <2> HIDE DEF limits
  <2> QED BY <1>1, <2>1, <2>2 DEF TwapRecord
<1>5. TwapAccounted' /\ VwapAccounted'
  BY <1>2, <1>3, <1>4, AccountsStand DEF RoutingInv
<1>6. /\ failed' \in [Scheduled -> [routes : Nat, last : BOOLEAN]]
      /\ failed'["VWAPExecutor"] = failed["VWAPExecutor"]
  <2>1. CASE Raises("TWAPExecutor")
    BY <2>1, RaisingIsTyped DEF RoutingInv, Scheduled
  <2>2. CASE Succeeds("TWAPExecutor")
    BY <2>2, RaisingIsTyped DEF RoutingInv, Scheduled
  <2> QED BY <2>1, <2>2 DEF RouteTwap
<1>7. NoFillEscapes' /\ session' \in Seq(SessionRecord)
  <2>1. \/ session' = session \o twap.fills
        \/ session' = session \o <<>>
    BY DEF RouteTwap, RoutingInv, RoutingTypes
  <2>2. twap.fills \in Seq(SessionRecord) /\ <<>> \in Seq(SessionRecord)
    BY <1>1, FillsAreReportable
  <2> QED BY <1>2, <1>6, <2>1, <2>2, ReportsStand DEF RoutingInv
<1> QED BY <1>2, <1>3, <1>4, <1>5, <1>6, <1>7 DEF RoutingInv, RoutingTypes

LEMMA AdjustForMomentumKeeps ==
  ASSUME RoutingInv, NEW busy \in BOOLEAN, AdjustForMomentum(busy)
  PROVE  RoutingInv'
<1> DEFINE rate == AdjustedRate(vwap, busy)
<1>1. vwap' = [vwap EXCEPT !.rate = rate] /\ UNCHANGED <<twap, session, call, sent, failed, dropped>>
  BY DEF AdjustForMomentum
<1>2. rate \in Int
  BY OrderRoutingAssumption, SMTT(30)
     DEF OrderRoutingAssumption, AdjustedRate, Greater, Lesser, RoutingInv, RoutingTypes,
         VwapRecord
<1> HIDE DEF rate
<1>3. vwap' \in VwapRecord /\ vwap'.left = vwap.left /\ vwap'.fills = vwap.fills
  BY <1>1, <1>2 DEF RoutingInv, RoutingTypes, VwapRecord
<1>4. /\ sent' \in [Executors -> [orders : Nat, executed : Nat]]
      /\ \A x \in Executors : sent'[x].executed >= sent[x].executed
  BY <1>1 DEF RoutingInv, RoutingTypes
<1>5. TwapAccounted' /\ VwapAccounted'
  BY <1>1, <1>3, <1>4, AccountsStand DEF RoutingInv
<1> QED BY <1>1, <1>3, <1>5 DEF RoutingInv, RoutingTypes, NoFillEscapes

LEMMA RouteVwapKeeps ==
  ASSUME RoutingInv, NEW volume \in Volumes, RouteVwap(volume)
  PROVE  RoutingInv'
<1>1. UNCHANGED <<twap, vwap, session, sent, failed, dropped>>
  BY DEF RouteVwap
<1>2. DOMAIN call' = {"todo", "open"} /\ call'.open = TRUE
  BY DEF RouteVwap
<1>3. TwapAccounted' /\ VwapAccounted'
  BY <1>1 DEF RoutingInv, TwapAccounted, VwapAccounted
<1> QED BY <1>1, <1>2, <1>3 DEF RoutingInv, RoutingTypes, NoFillEscapes

LEMMA SendChildKeeps ==
  ASSUME RoutingInv, NEW qty, NEW outcome \in Outcomes(qty), SendChild(outcome)
  PROVE  RoutingInv'
<1> DEFINE n == outcome.executed
           r == Fill("VWAPExecutor", vwap.gen, Len(vwap.fills) + 1, n, outcome.price)
           total == TotalFilled(vwap.fills)
<1>1. UNCHANGED <<twap, session, dropped>> /\ PlaceOrder("VWAPExecutor", outcome)
  BY DEF SendChild
<1>2. /\ n \in Nat
      /\ sent' \in [Executors -> [orders : Nat, executed : Nat]]
      /\ \A x \in Executors : sent'[x].executed >= sent[x].executed
      /\ outcome.kind # "refused" =>
           sent'["VWAPExecutor"].executed = sent["VWAPExecutor"].executed + n
  BY <1>1, SentGrows DEF RoutingInv, Executors
<1>3. TwapAccounted'
  BY <1>1, <1>2, AccountsStand DEF RoutingInv
<1>4. CASE outcome.kind = "answered" /\ outcome.executed > 0 /\ outcome.price > 0
  <2>1. /\ vwap' = [vwap EXCEPT !.left = Greater(0, @ - n), !.fills = Append(vwap.fills, r)]
        /\ call' = [call EXCEPT !.todo = Tail(@)] /\ failed' = failed /\ call.open
    BY <1>4 DEF SendChild, VwapRecordFill, Book
  <2>2. /\ vwap.left \in 0 .. VwapTotal /\ vwap.fills \in Seq(FillRecord) /\ vwap.gen \in Nat
        /\ vwap \in VwapRecord /\ sent["VWAPExecutor"].executed \in Nat
        /\ VwapTotal \in Nat /\ outcome.price \in Nat
    <3>1. /\ VwapTotal \in Nat /\ \A price \in Prices \cup {NoPrice} : price \in Nat
      BY OrderRoutingAssumption DEF OrderRoutingAssumption, NoPrice
    <3>2. outcome.price \in Prices \cup {NoPrice}
      BY DEF Outcomes
    <3>3. vwap \in VwapRecord /\ sent["VWAPExecutor"].executed \in Nat
      BY DEF RoutingInv, RoutingTypes, Executors
    <3> QED BY <3>1, <3>2, <3>3 DEF VwapRecord
  <2>3. r \in FillRecord /\ r.qty = n
    BY <1>2, <2>2 DEF Fill, FillRecord, Scheduled
  <2> HIDE DEF r
  <2>4. /\ Append(vwap.fills, r) \in Seq(FillRecord) /\ total \in Nat
        /\ TotalFilled(Append(vwap.fills, r)) = total + n
    BY <2>2, <2>3, TotalGrows
  <2>5. /\ VwapTotal - vwap.left = Lesser(VwapTotal, total)
        /\ total <= sent["VWAPExecutor"].executed
    BY DEF RoutingInv, VwapAccounted
  <2> HIDE DEF total, n
  <2>6. /\ Greater(0, vwap.left - n) \in 0 .. VwapTotal
        /\ VwapTotal - Greater(0, vwap.left - n) = Lesser(VwapTotal, total + n)
    <3>1. n \in Nat /\ total \in Nat /\ VwapTotal \in Nat /\ vwap.left \in 0 .. VwapTotal
      BY <1>2, <2>2, <2>4
    <3>2. VwapTotal - vwap.left = Lesser(VwapTotal, total)
      BY <2>5
    <3> QED BY <3>1, <3>2 DEF Lesser, Greater
  <2>7. /\ vwap'.left = Greater(0, vwap.left - n) /\ vwap'.fills = Append(vwap.fills, r)
        /\ vwap' \in VwapRecord
    <3> DEFINE l == Greater(0, vwap.left - n)
               h == Append(vwap.fills, r)
    <3>1. l \in 0 .. VwapTotal /\ h \in Seq(FillRecord)
      BY <2>4, <2>6
    <3>2. vwap' = [vwap EXCEPT !.left = l, !.fills = h]
      BY <2>1
    <3> HIDE DEF l, h
    <3>3. vwap'.left = l /\ vwap'.fills = h /\ vwap' \in VwapRecord
      BY <2>2, <3>1, <3>2 DEF VwapRecord
    <3> QED BY <3>3 DEF l, h
  <2>8. total + n <= sent'["VWAPExecutor"].executed
    <3>1. sent'["VWAPExecutor"].executed = sent["VWAPExecutor"].executed + n
      BY <1>2, <1>4
    <3> QED BY <1>2, <2>2, <2>4, <2>5, <3>1
  <2>9. VwapAccounted'
    <3>1. TotalFilled(vwap'.fills) = total + n
      BY <2>4, <2>7
    <3> QED BY <2>6, <2>7, <2>8, <3>1 DEF VwapAccounted
  <2>10. DOMAIN call' = {"todo", "open"} /\ call'.open
    BY <2>1 DEF RoutingInv, RoutingTypes
  <2> QED BY <1>1, <1>2, <1>3, <2>1, <2>7, <2>9, <2>10 DEF RoutingInv, RoutingTypes, NoFillEscapes
<1>5. CASE ~(outcome.kind = "answered" /\ outcome.executed > 0 /\ outcome.price > 0)
  <2>1. Raises("VWAPExecutor") /\ call' = NoCall /\ UNCHANGED vwap
    BY <1>5 DEF SendChild
  <2>2. /\ failed' \in [Scheduled -> [routes : Nat, last : BOOLEAN]]
        /\ failed'["VWAPExecutor"].last = TRUE
    BY <2>1, RaisingIsTyped DEF RoutingInv, Scheduled
  <2>3. VwapAccounted'
    BY <1>2, <2>1, AccountsStand DEF RoutingInv
  <2>4. DOMAIN call' = {"todo", "open"}
    BY <2>1 DEF NoCall
  <2> QED BY <1>1, <1>2, <1>3, <2>1, <2>2, <2>3, <2>4 DEF RoutingInv, RoutingTypes, NoFillEscapes
<1> QED BY <1>4, <1>5

LEMMA EndVwapKeeps ==
  ASSUME RoutingInv, EndVwap
  PROVE  RoutingInv'
<1>1. /\ UNCHANGED <<twap, vwap, sent, dropped>> /\ call' = NoCall
      /\ session' = session \o vwap.fills /\ Succeeds("VWAPExecutor")
  BY DEF EndVwap
<1>2. failed' \in [Scheduled -> [routes : Nat, last : BOOLEAN]]
  BY <1>1, RaisingIsTyped DEF RoutingInv, Scheduled
<1>3. session \in Seq(SessionRecord) /\ vwap.fills \in Seq(SessionRecord)
  BY FillsAreReportable DEF RoutingInv, RoutingTypes, VwapRecord
<1>4. session' \in Seq(SessionRecord) /\ Range(vwap.fills) \subseteq Range(session')
  BY <1>1, <1>3, RangeGrows
<1>5. TwapAccounted' /\ VwapAccounted'
  BY <1>1 DEF RoutingInv, TwapAccounted, VwapAccounted
<1>6. NoFillEscapes'
  BY <1>1, <1>4 DEF NoFillEscapes
<1>7. DOMAIN call' = {"todo", "open"}
  BY <1>1 DEF NoCall
<1> QED BY <1>1, <1>2, <1>4, <1>5, <1>6, <1>7 DEF RoutingInv, RoutingTypes

LEMMA RouteMarketKeeps ==
  ASSUME RoutingInv, NEW outcome \in Outcomes(MarketQty), RouteMarket(outcome)
  PROVE  RoutingInv'
<1> DEFINE r == Fill("MarketExecutor", 0, 0, outcome.executed, outcome.price)
<1>1. /\ UNCHANGED <<twap, vwap, call, failed, dropped>>
      /\ PlaceOrder("MarketExecutor", outcome)
      /\ session' = session \o <<r>> \/ session' = session \o <<>>
  <2>1. /\ UNCHANGED <<twap, vwap, call, failed, dropped>>
        /\ PlaceOrder("MarketExecutor", outcome)
        /\ session' = Append(session, r) \/ session' = session
    BY DEF RouteMarket
  <2>2. session \in Seq(SessionRecord)
    BY DEF RoutingInv, RoutingTypes
  <2> HIDE DEF r
  <2>3. Append(session, r) = session \o <<r>> /\ session = session \o <<>>
    BY <2>2
  <2> QED BY <2>1, <2>3
<1>2. /\ outcome.executed \in Nat
      /\ sent' \in [Executors -> [orders : Nat, executed : Nat]]
      /\ \A x \in Executors : sent'[x].executed >= sent[x].executed
  BY <1>1, SentGrows DEF RoutingInv, Executors
<1>3. r \in SessionRecord
  <2>1. outcome.price \in Prices \cup {NoPrice}
    BY DEF Outcomes
  <2>2. outcome.price \in Nat
    <3>1. \A price \in Prices \cup {NoPrice} : price \in Nat
      BY OrderRoutingAssumption DEF OrderRoutingAssumption, NoPrice
    <3> QED BY <2>1, <3>1
  <2> QED BY <1>2, <2>2 DEF Fill, SessionRecord, Executors
<1> HIDE DEF r
<1>4. NoFillEscapes' /\ session' \in Seq(SessionRecord)
  <2>1. <<r>> \in Seq(SessionRecord) /\ <<>> \in Seq(SessionRecord)
    BY <1>3
  <2> QED BY <1>1, <2>1, ReportsStand DEF RoutingInv
<1>5. TwapAccounted' /\ VwapAccounted'
  BY <1>1, <1>2, AccountsStand DEF RoutingInv
<1> QED BY <1>1, <1>2, <1>4, <1>5 DEF RoutingInv, RoutingTypes

LEMMA RouteQueueKeeps ==
  ASSUME RoutingInv, NEW placed \in BOOLEAN, RouteQueue(placed)
  PROVE  RoutingInv'
<1>1. /\ UNCHANGED <<twap, vwap, session, call, failed, dropped>>
      /\ \/ sent' = [sent EXCEPT !["LimitOrderQueue"].orders = @ + 1]
         \/ sent' = sent
  BY DEF RouteQueue
<1>2. /\ sent' \in [Executors -> [orders : Nat, executed : Nat]]
      /\ \A x \in Executors : sent'[x].executed >= sent[x].executed
  <2> DEFINE o == "LimitOrderQueue"
             more == [sent[o] EXCEPT !.orders = @ + 1]
  <2>1. /\ sent \in [Executors -> [orders : Nat, executed : Nat]] /\ o \in Executors
        /\ \A x \in Executors : sent[x].executed \in Nat
    BY DEF RoutingInv, RoutingTypes, Executors
  <2>2. more \in [orders : Nat, executed : Nat] /\ more.executed = sent[o].executed
    BY <2>1
  <2>3. sent' = [sent EXCEPT ![o] = more] \/ sent' = sent
    BY <1>1
  <2> HIDE DEF more, o
  <2> QED BY <2>1, <2>2, <2>3
<1>3. TwapAccounted' /\ VwapAccounted'
  BY <1>1, <1>2, AccountsStand DEF RoutingInv
<1> QED BY <1>1, <1>2, <1>3 DEF RoutingInv, RoutingTypes, NoFillEscapes

LEMMA RegisterKeeps ==
  ASSUME RoutingInv, NEW e \in Scheduled, NEW base \in BaseRates, Register(e, base)
  PROVE  RoutingInv'
<1> DEFINE none == [orders |-> 0, executed |-> 0]
           calm == [routes |-> 0, last |-> FALSE]
<1>1. /\ UNCHANGED <<session, call>> /\ e \in Executors
      /\ sent' = [sent EXCEPT ![e] = none] /\ failed' = [failed EXCEPT ![e] = calm]
  BY DEF Register, Executors, Scheduled
<1>2. /\ none \in [orders : Nat, executed : Nat] /\ none.executed = 0
      /\ calm \in [routes : Nat, last : BOOLEAN]
  OBVIOUS
<1>3. /\ sent \in [Executors -> [orders : Nat, executed : Nat]]
      /\ failed \in [Scheduled -> [routes : Nat, last : BOOLEAN]]
      /\ twap \in TwapRecord /\ vwap \in VwapRecord /\ dropped \in Nat
      /\ session \in Seq(SessionRecord) /\ DOMAIN call = {"todo", "open"}
  BY DEF RoutingInv, RoutingTypes
<1> HIDE DEF none, calm
<1>4. /\ sent' \in [Executors -> [orders : Nat, executed : Nat]]
      /\ failed' \in [Scheduled -> [routes : Nat, last : BOOLEAN]]
      /\ sent'[e] = none /\ \A x \in Executors \ {e} : sent'[x] = sent[x]
      /\ \A x \in Scheduled \ {e} : failed'[x] = failed[x]
  BY <1>1, <1>2, <1>3
<1>5. TwapTotal \in Nat /\ VwapTotal \in Nat /\ NoPrice \in Prices \cup {NoPrice}
  BY OrderRoutingAssumption DEF OrderRoutingAssumption
<1>6. twap.gen + 1 \in Nat /\ vwap.gen + 1 \in Nat
  BY <1>3, SMTT(30) DEF TwapRecord, VwapRecord
<1>7. CASE e = "TWAPExecutor"
  <2>1. twap' = FreshTwap(twap.gen + 1, NoPrice) /\ vwap' = vwap /\ dropped' = 0
    BY <1>7 DEF Register
  <2>2. twap'.left = TwapTotal /\ twap'.fills = <<>>
    BY <2>1 DEF FreshTwap
  <2>3. RoutingTypes'
    BY <1>1, <1>3, <1>4, <1>5, <1>6, <2>1, FreshIsTyped DEF RoutingTypes
  <2>4. TotalFilled(twap'.fills) = 0
    BY <2>2, TotalOfNone
  <2>5. sent'["TWAPExecutor"].executed = 0 /\ sent'["VWAPExecutor"] = sent["VWAPExecutor"]
    BY <1>2, <1>4, <1>7 DEF Executors
  <2>6. TwapAccounted'
    BY <1>5, <2>1, <2>2, <2>4, <2>5 DEF TwapAccounted, Lesser
  <2>7. VwapAccounted'
    BY <2>1, <2>5 DEF RoutingInv, VwapAccounted
  <2>8. NoFillEscapes'
    BY <1>1, <1>4, <1>7, <2>1 DEF RoutingInv, NoFillEscapes, Scheduled
  <2> QED BY <2>3, <2>6, <2>7, <2>8 DEF RoutingInv
<1>8. CASE e = "VWAPExecutor"
  <2>1. vwap' = FreshVwap(vwap.gen + 1, base) /\ twap' = twap /\ dropped' = dropped
    BY <1>8 DEF Register
  <2>2. vwap'.left = VwapTotal /\ vwap'.fills = <<>>
    BY <2>1 DEF FreshVwap
  <2>3. RoutingTypes'
    BY <1>1, <1>3, <1>4, <1>6, <2>1, FreshIsTyped DEF RoutingTypes
  <2>4. TotalFilled(vwap'.fills) = 0
    BY <2>2, TotalOfNone
  <2>5. sent'["VWAPExecutor"].executed = 0 /\ sent'["TWAPExecutor"] = sent["TWAPExecutor"]
    BY <1>2, <1>4, <1>8 DEF Executors
  <2>6. VwapAccounted'
    BY <1>5, <2>2, <2>4, <2>5 DEF VwapAccounted, Lesser
  <2>7. TwapAccounted'
    BY <2>1, <2>5 DEF RoutingInv, TwapAccounted
  <2>8. NoFillEscapes'
    BY <2>2 DEF NoFillEscapes, Range
  <2> QED BY <2>3, <2>6, <2>7, <2>8 DEF RoutingInv
<1> QED BY <1>7, <1>8 DEF Scheduled

LEMMA RoutingStepKeeps ==
  ASSUME RoutingInv, [Next]_vars
  PROVE  RoutingInv'
<1>1. CASE UNCHANGED vars
  BY <1>1 DEF vars, RoutingInv, RoutingTypes, TwapAccounted, VwapAccounted, NoFillEscapes
<1>2. CASE Next
  <2>1. ASSUME NEW executed \in {0, 1, SliceQty}, NEW price \in Prices,
               NEW expected \in Prices \cup {NoPrice}, DriveTwap(executed, price, expected)
        PROVE  RoutingInv'
    BY <2>1, DriveTwapKeeps
  <2>2. ASSUME NEW busy \in BOOLEAN, AdjustForMomentum(busy)
        PROVE  RoutingInv'
    BY <2>2, AdjustForMomentumKeeps
  <2>3. ASSUME NEW ref \in Prices \cup {NoPrice}, NEW outcome \in Outcomes(SliceQty),
               RouteTwap(ref, outcome)
        PROVE  RoutingInv'
    BY <2>3, RouteTwapKeeps
  <2>4. ASSUME NEW volume \in Volumes, RouteVwap(volume)
        PROVE  RoutingInv'
    BY <2>4, RouteVwapKeeps
  <2>5. ASSUME NEW outcome \in Outcomes(IF call.todo = <<>> THEN 0 ELSE Head(call.todo)),
               SendChild(outcome)
        PROVE  RoutingInv'
    BY <2>5, SendChildKeeps
  <2>6. ASSUME NEW outcome \in Outcomes(MarketQty), RouteMarket(outcome)
        PROVE  RoutingInv'
    BY <2>6, RouteMarketKeeps
  <2>7. ASSUME NEW placed \in BOOLEAN, RouteQueue(placed)
        PROVE  RoutingInv'
    BY <2>7, RouteQueueKeeps
  <2>8. ASSUME NEW e \in Scheduled, NEW base \in BaseRates, Register(e, base)
        PROVE  RoutingInv'
    BY <2>8, RegisterKeeps
  <2> QED BY <1>2, <2>1, <2>2, <2>3, <2>4, <2>5, <2>6, <2>7, <2>8, EndVwapKeeps DEF Next
<1> QED BY <1>1, <1>2

-----------------------------------------------------------------------------
(* Theorems.                                                               *)

\* The invariant, from which the rest follows.
THEOREM RoutingInvariant == Spec => []RoutingInv
<1>1. Init => RoutingInv
  BY RoutingInitHolds
<1>2. RoutingInv /\ [Next]_vars => RoutingInv'
  BY RoutingStepKeeps
<1> QED BY <1>1, <1>2, PTL DEF Spec

\* For any order sizes, curve, rates and prices, and whatever the exchange
\* answers to place_order, an executor of order_router.py has left what its
\* total is short of what it booked or dropped, and booked no more than was
\* executed.
THEOREM AccountsAgree == Spec => []RemainingIsAccounted
<1>1. RoutingInv => RemainingIsAccounted
  <2> SUFFICES ASSUME RoutingInv
               PROVE  RemainingIsAccounted
    OBVIOUS
  <2>1. /\ Booked("TWAPExecutor") = TotalFilled(twap.fills) + dropped
        /\ Booked("VWAPExecutor") = TotalFilled(vwap.fills) + 0
        /\ TotalFilled(vwap.fills) \in Nat
    BY TotalIsNat DEF Booked, RoutingInv, RoutingTypes, VwapRecord
  <2>2. Booked("VWAPExecutor") = TotalFilled(vwap.fills)
    BY <2>1
  <2> QED BY <2>1, <2>2 DEF RoutingInv, TwapAccounted, VwapAccounted, RemainingIsAccounted, Scheduled
<1> QED BY <1>1, RoutingInvariant, PTL

\* Likewise, when the last VWAP route came to its end no fill of the executor
\* is missing from the session report, even one of a route that raised.
THEOREM EveryFillReported == Spec => []NoFillEscapes
<1>1. RoutingInv => NoFillEscapes
  BY DEF RoutingInv
<1> QED BY <1>1, RoutingInvariant, PTL
===============================================================================
