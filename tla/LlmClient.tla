------------------------------ MODULE LlmClient ------------------------------
(***************************************************************************)
(* LLMClient with its circuit breaker, its retries and its answer cache,   *)
(* shared by callers of four kinds: a trading persona, the reflexion after *)
(* a loss, the macro risk officer and the older trade adviser. What each   *)
(* makes of an answer is an operator of its own. An answer is what can be  *)
(* told of the model's text; prices are basis points from the entry,       *)
(* positive on the winning side, 0 where there is no number.               *)
(***************************************************************************)
EXTENDS Integers, FiniteSets

CONSTANTS
    Callers,      \* threads and tasks that share the client
    Prompts,      \* messages with a temperature, as the cache key tells them apart
    Answers,      \* the answers tried
    MaxRetries,   \* attempts of one call
    FailuresMax,  \* circuit_breaker_failures
    Cooldown,     \* circuit_breaker_cooldown, in ticks
    CacheTtl      \* cache_ttl, in ticks

LlmAssumption ==
    /\ IsFiniteSet(Callers)
    /\ MaxRetries \in Nat \ {0} /\ FailuresMax \in Nat \ {0}
    /\ Cooldown \in Nat \ {0} /\ CacheTtl \in Nat \ {0}
    /\ Answers \subseteq [json : BOOLEAN, whole : BOOLEAN, side : STRING,
                          confidence : Int, leverage : Int, stop : Int, target : Int]
ASSUME LlmAssumption

VARIABLES
    failures,   \* _cb_failures
    open,       \* ticks until _cb_open_until
    cache,      \* _response_cache: the answer to a prompt and its age
    call,       \* per caller: where it is, what for, the prompt, the attempt
    result,     \* per caller: what its last request came to
    outage      \* history: ticks since the breaker opened, 0 while it is closed,
                \*   counted to one more than LongestOutage

llmVars == <<failures, open, cache, call, result, outage>>

LongestOutage == Cooldown * Cardinality(Callers)
Kinds == {"persona", "reflexion", "macro", "advice"}
Sides == {"LONG", "SHORT", "NEUTRAL"}
NoAnswer == [json |-> FALSE, whole |-> FALSE, side |-> "NEUTRAL", confidence |-> 0,
             leverage |-> 1, stop |-> 0, target |-> 0]
Clamped(n, low, high) == IF n < low THEN low ELSE IF n > high THEN high ELSE n

(***************************************************************************)
(* What the callers make of an answer                                      *)
(***************************************************************************)

Stay(kind) == [kind |-> kind, side |-> "NEUTRAL", confidence |-> 0, leverage |-> 1,
               stop |-> 0, target |-> 0]

\* _parse_signal_response: a field that is missing makes the answer neutral, a
\* direction that is not one of the three counts as neutral.
PersonaSignal(a) ==
    IF ~a.json \/ ~a.whole THEN Stay("persona")
    ELSE [Stay("persona") EXCEPT
              !.side = IF a.side \in Sides THEN a.side ELSE "NEUTRAL",
              !.confidence = Clamped(a.confidence, 0, 100),
              !.leverage = Clamped(a.leverage, 1, 10)]

\* get_llm_macro_context advises; whatever is missing or unknown is NEUTRAL.
MacroContext(a) ==
    [Stay("macro") EXCEPT !.side = IF a.json /\ a.whole /\ a.side \in Sides THEN a.side
                                   ELSE "NEUTRAL"]

\* reflect_on_loss returns a sentence in every case, if need be about itself.
Reflexion(a) == Stay("reflexion")

\* The distance without its sign.
StopFitsEitherSide(a) == a.stop \in -250 .. -50 \cup 50 .. 250

StopFits(a) == a.stop \in -250 .. -50

\* A target is only looked at if there is one.
TargetFits(a) == a.target = 0 \/ 2 * a.target >= -3 * a.stop

\* analyze_market: a decision without a fitting stop, or with a target too
\* near or on the losing side, becomes NO_TRADE.
Advice(a) ==
    IF ~a.json \/ a.side \notin {"LONG", "SHORT"} \/ ~StopFits(a) \/ ~TargetFits(a)
    THEN Stay("advice")
    ELSE [Stay("advice") EXCEPT !.side = a.side, !.stop = a.stop, !.target = a.target]

Reading(kind, a) ==
    CASE kind = "persona" -> PersonaSignal(a)
      [] kind = "macro" -> MacroContext(a)
      [] kind = "reflexion" -> Reflexion(a)
      [] kind = "advice" -> Advice(a)

\* What a call that raised comes to. The adviser catches other exceptions than
\* those of the client.
Fallback(kind) == [Stay(kind) EXCEPT !.side = IF kind = "advice" THEN "raised" ELSE "NEUTRAL"]

(***************************************************************************)
(* chat and async_chat                                                     *)
(***************************************************************************)

NoCall == [at |-> "idle", kind |-> "macro", prompt |-> CHOOSE p \in Prompts : TRUE, tries |-> 0]

LlmInit ==
    /\ failures = 0
    /\ open = 0
    /\ cache = [p \in Prompts |-> [answer |-> NoAnswer, age |-> CacheTtl]]
    /\ call = [c \in Callers |-> NoCall]
    /\ result = [c \in Callers |-> Stay("macro")]
    /\ outage = 0

Return(c, r) ==
    /\ call' = [call EXCEPT ![c] = NoCall]
    /\ result' = [result EXCEPT ![c] = r]

\* A refusal that counts like a failure.
RefusalProlongs == open' = Cooldown

\* A call that an open breaker refuses leaves it as it is.
Refusal == UNCHANGED open

\* The breaker is asked before the cache.
Ask(c, kind, p) ==
    /\ call[c].at = "idle"
    /\ IF open > 0 THEN Refusal /\ Return(c, Fallback(kind))
       ELSE /\ UNCHANGED open
            /\ IF cache[p].age < CacheTtl THEN Return(c, Reading(kind, cache[p].answer))
               ELSE /\ call' = [call EXCEPT ![c] = [at |-> "calling", kind |-> kind,
                                                    prompt |-> p, tries |-> 1]]
                    /\ UNCHANGED result
    /\ UNCHANGED <<failures, cache, outage>>

\* 429, 5xx and errors of the connection or of the HTTP status.
Retry(c) ==
    /\ call[c].at = "calling" /\ call[c].tries < MaxRetries
    /\ call' = [call EXCEPT ![c].tries = @ + 1]
    /\ UNCHANGED <<failures, open, cache, result, outage>>

\* The last attempt failed. The count is not reset when the breaker closes
\* again, so that one more failure then opens it.
GiveUp(c) ==
    /\ call[c].at = "calling" /\ call[c].tries = MaxRetries
    /\ failures' = IF failures < FailuresMax THEN failures + 1 ELSE failures
    /\ open' = IF failures + 1 >= FailuresMax THEN Cooldown ELSE open
    /\ Return(c, Fallback(call[c].kind))
    /\ UNCHANGED <<cache, outage>>

\* An answer 200 that carries an error of the API, and in async_chat a timeout,
\* leave at once and count neither way.
ApiError(c) ==
    /\ call[c].at = "calling"
    /\ Return(c, Fallback(call[c].kind))
    /\ UNCHANGED <<failures, open, cache, outage>>

Answered(c, a) ==
    /\ call[c].at = "calling"
    /\ failures' = 0
    /\ cache' = [cache EXCEPT ![call[c].prompt] = [answer |-> a, age |-> 0]]
    /\ Return(c, Reading(call[c].kind, a))
    /\ UNCHANGED <<open, outage>>

Tick ==
    /\ open' = IF open > 0 THEN open - 1 ELSE 0
    /\ outage' = IF open' = 0 THEN 0 ELSE IF outage > LongestOutage THEN outage ELSE outage + 1
    /\ cache' = [p \in Prompts |-> [cache[p] EXCEPT !.age = IF @ < CacheTtl THEN @ + 1 ELSE @]]
    /\ <<open', cache'>> # <<open, cache>>
    /\ UNCHANGED <<failures, call, result>>

LlmNext ==
    \/ \E c \in Callers :
          \/ \E kind \in Kinds, p \in Prompts : Ask(c, kind, p)
          \/ Retry(c) \/ GiveUp(c) \/ ApiError(c)
          \/ \E a \in Answers : Answered(c, a)
    \/ Tick

(***************************************************************************)
(* Properties                                                              *)
(***************************************************************************)

\* How long an outage can last whatever the provider does: a call that was under
\* way when the breaker opened can open it anew when it fails in its turn, but
\* while it is open no call starts, so each caller prolongs it once at most.
OutageIsBounded == outage <= LongestOutage
=============================================================================
