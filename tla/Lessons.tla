-------------------------------- MODULE Lessons --------------------------------
(***************************************************************************)
(* What the personas learn from losses: the lessons of MemoryBank          *)
(* (src/data/memory.py), the reflexion loop of the Chronos engine that     *)
(* writes them and the prompts that quote them (src/data/personas.py), and *)
(* the rules of ReflexionEvolver (src/models/meta_learning.py). Engines of *)
(* several processes, in live mode or rehearsing, share the two tables.    *)
(* A lesson is abstracted to what its text is: a rule, a rule that looks   *)
(* like an injected instruction, an excuse (an error or an empty answer,   *)
(* which are saved like rules) or the note of a dry run.                   *)
(***************************************************************************)
EXTENDS Integers, SequencesExt, Functions, Selection

CONSTANTS
    Engines,    \* processes running a ChronosBacktester
    Live,       \* those in live mode
    Students,   \* the personas, in the order they are asked
    Anomalies,  \* anomaly types
    PastLimit,  \* limit of retrieve_lessons
    MaxLosses   \* bound: losing trades

LessonAssumption ==
    /\ Live \subseteq Engines /\ Students \in Seq(Range(Students)) /\ Anomalies # {}
    /\ PastLimit \in Nat \ {0} /\ MaxLosses \in Nat
ASSUME LessonAssumption

VARIABLES
    bank,    \* the table lessons, by id
    rules,   \* the table rlhf_lessons
    reflexion, \* per engine: where its reflexion is
    told,    \* per engine and persona: the lessons in its last prompt
    losses   \* how many losing trades there were

lessonVars == <<bank, rules, reflexion, told, losses>>

Mode(e) == IF e \in Live THEN "LIVE" ELSE "DRY_RUN"
Texts(e) == IF e \in Live THEN {"rule", "suspect", "excuse"} ELSE {"dry"}

Quiet == [at |-> "idle", anomaly |-> CHOOSE a \in Anomalies : TRUE, side |-> "LONG",
          todo |-> <<>>, loaded |-> <<>>]

LessonInit ==
    /\ bank = <<>>
    /\ rules = <<>>
    /\ reflexion = [e \in Engines |-> Quiet]
    /\ told = [e \in Engines |-> [p \in Range(Students) |-> <<>>]]
    /\ losses = 0

(***************************************************************************)
(* Retrieval and prompts                                                   *)
(***************************************************************************)

Latest(s) == IF Len(s) <= PastLimit THEN Reverse(s) ELSE SubSeq(Reverse(s), 1, PastLimit)

\* A retrieval that forgets where a lesson comes from.
OfAnySource(e, p, a) ==
    Latest(Picked(bank, {i \in DOMAIN bank : bank[i].persona = p /\ bank[i].anomaly = a}))

\* retrieve_lessons and, for all personas at once, retrieve_lessons_batch: the
\* latest ones of the persona, the anomaly and the reflexion's mode, newest first.
RetrieveLessons(e, p, a) ==
    Latest(Picked(bank, {i \in DOMAIN bank : /\ bank[i].persona = p /\ bank[i].anomaly = a
                                            /\ bank[i].mode = Mode(e)}))

\* _inject_lessons_into_system: what looks like an instruction is left out, after
\* it has taken one of the places. A dry run prompts no one.
Prompted(e, lessons) ==
    IF e \in Live THEN Picked(lessons, {i \in DOMAIN lessons : lessons[i].text # "suspect"})
    ELSE <<>>

(***************************************************************************)
(* The reflexion loop                                                      *)
(***************************************************************************)

\* An event that becomes a losing trade: the personas are asked with their
\* lessons; those that voted for the losing side will have to reflect. Without
\* one the loop returns, evolver and all.
Lose(e, a, side, losers) ==
    /\ reflexion[e].at = "idle" /\ losses < MaxLosses
    /\ losses' = losses + 1
    /\ told' = [told EXCEPT ![e] = [p \in Range(Students) |-> Prompted(e, RetrieveLessons(e, p, a))]]
    /\ reflexion' = [reflexion EXCEPT ![e] =
                    IF losers = <<>> THEN Quiet
                    ELSE [Quiet EXCEPT !.at = "reflect", !.anomaly = a, !.side = side, !.todo = losers]]
    /\ UNCHANGED <<bank, rules>>

\* The psychologist's prompt for the next of them.
AskPsychologist(e) ==
    /\ reflexion[e].at = "reflect"
    /\ told' = [told EXCEPT ![e][Head(reflexion[e].todo)] =
                  Prompted(e, RetrieveLessons(e, Head(reflexion[e].todo), reflexion[e].anomaly))]
    /\ reflexion' = [reflexion EXCEPT ![e].at = "save"]
    /\ UNCHANGED <<bank, rules, losses>>

\* save_lesson: whatever reflect_on_loss returned is a lesson.
SaveLesson(e, text) ==
    /\ reflexion[e].at = "save"
    /\ bank' = Append(bank, [persona |-> Head(reflexion[e].todo), anomaly |-> reflexion[e].anomaly,
                             mode |-> Mode(e), text |-> text])
    /\ reflexion' = [reflexion EXCEPT ![e].todo = Tail(@),
                                ![e].at = IF Len(reflexion[e].todo) = 1 THEN "evolve" ELSE "reflect"]
    /\ UNCHANGED <<rules, told, losses>>

\* The database is locked for longer than the timeout, or sqlite3 fails in some
\* other way: the run ends, whatever was left to reflect on.
DatabaseFails(e) ==
    /\ reflexion[e].at # "idle"
    /\ reflexion' = [reflexion EXCEPT ![e] = Quiet]
    /\ UNCHANGED <<bank, rules, told, losses>>

(***************************************************************************)
(* ReflexionEvolver                                                        *)
(***************************************************************************)

\* evolve_from_trades: _load_existing_lessons on a connection of its own.
LoadRules(e) ==
    /\ reflexion[e].at = "evolve"
    /\ reflexion' = [reflexion EXCEPT ![e].at = "store", ![e].loaded = rules]
    /\ UNCHANGED <<bank, rules, told, losses>>

\* _generate_lesson_text: one sentence for every loss, "... Do not re-enter on
\* similar structure without confirming volume.", with the side, the anomaly
\* and the amount filled in. (The engine hands over the side as the persona.)
RuleOf(e) == [by |-> e, side |-> reflexion[e].side, anomaly |-> reflexion[e].anomaly]

\* The three words after the first "not", wherever the texts differ, and the
\* words of the text they are looked for in.
Negated(rule) == {"re-enter", "on", "similar"}
Mentioned(rule) == {"signal", "failed", "re-enter", "on", "similar", "structure",
                    "without", "confirming", "volume", rule.side, rule.anomaly}

\* prune_contradictory: a word negated in the new text that an old one has.
Contradicts(rule, old) == Negated(rule) \cap Mentioned(old) # {}

\* _is_duplicate, by whatever similarity is installed: the same text is similar
\* to itself, another one may be.
StoreRule(e, similar) ==
    LET new == RuleOf(e)
        old == reflexion[e].loaded
        refused == (old # <<>> /\ similar) \/ (\E i \in DOMAIN old : Contradicts(new, old[i]))
    IN /\ reflexion[e].at = "store"
       /\ rules' = IF refused THEN rules ELSE Append(rules, new)
       /\ reflexion' = [reflexion EXCEPT ![e] = Quiet]
       /\ UNCHANGED <<bank, told, losses>>

LessonNext ==
    \E e \in Engines :
        \/ \E a \in Anomalies, side \in {"LONG", "SHORT"}, losers \in SUBSET Range(Students) :
             Lose(e, a, side, Picked(Students, {i \in DOMAIN Students : Students[i] \in losers}))
        \/ AskPsychologist(e)
        \/ \E text \in Texts(e) : SaveLesson(e, text)
        \/ DatabaseFails(e)
        \/ LoadRules(e)
        \/ \E similar \in BOOLEAN : StoreRule(e, similar)

LessonSpec == LessonInit /\ [][LessonNext]_lessonVars

(***************************************************************************)
(* Properties                                                              *)
(***************************************************************************)

\* No prompt of a live engine quotes a rehearsal: every lesson a persona is
\* told was its own, on the anomaly at hand or, before that, on the one of its
\* last prompt, from a live loss, whichever engines wrote to the bank meanwhile
\* (chronos_engine.py 207, 482, 1319: "L6 fix").
RehearsalStaysOut ==
    \A e \in Engines, p \in Range(Students) :
        LET lessons == told[e][p] IN
        /\ \A i \in DOMAIN lessons :
               e \in Live /\ lessons[i].mode = "LIVE" /\ lessons[i].persona = p
               /\ lessons[i].text \in {"rule", "excuse"}
               /\ lessons[i].anomaly = lessons[1].anomaly
        /\ reflexion[e].at # "idle" /\ lessons # <<>> => lessons[1].anomaly = reflexion[e].anomaly

\* An engine adds at most one rule to the evolver's table in all its runs: every
\* later text negates what the first one in the table says, and the table is
\* only found empty twice by engines that race
\* (meta_learning.py 897-949, 1056-1070).
OneRulePerEngine ==
    \A i, j \in DOMAIN rules : i # j => rules[i].by # rules[j].by
=============================================================================
