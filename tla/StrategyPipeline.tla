-------------------------- MODULE StrategyPipeline --------------------------
(***************************************************************************)
(* crates/phantom-strategy/src/registry.rs and pipeline.rs: operators      *)
(* register, enable, disable and unregister strategies while tasks         *)
(* evaluate orders against the enabled ones.                               *)
(*                                                                         *)
(* The registry is a sharded map: a walk of it sees every name at a moment *)
(* of its own.  The answers of the strategies touch nothing shared and     *)
(* arrive in one step.                                                     *)
(***************************************************************************)
EXTENDS Integers, Sequences, FiniteSets

CONSTANTS
    Evaluators,    \* tasks in evaluate_order
    Strategies,    \* names of strategies
    Priorities,    \* priorities a strategy may have, lower ones first
    Decisions,     \* what a strategy may recommend: profit and confidence
    MaxConcurrent, \* config.max_concurrent_evaluations
    MinConfidence, \* config.min_confidence
    MinProfit,     \* config.min_profit_wei
    ScoreMax,      \* U256::MAX
    MaxOperations  \* bound of the operators' calls, for TLC

ASSUME PipelineAssumption ==
    /\ MaxConcurrent \in Nat /\ MinConfidence \in Nat /\ MinProfit \in Nat
    /\ ScoreMax \in Nat /\ Priorities \subseteq Nat
    /\ Decisions \subseteq [profit : Nat, confidence : Nat]

VARIABLES
    registry,    \* the entry of each name, a set of at most one
    evaluation,  \* per task: where it is, walk, strategies, decisions, choice
    operations   \* number of calls of the operators

pipelineVars == <<registry, evaluation, operations>>

\* `steady` are the names whose entry has not changed since the walk began.
NoEvaluation == [at |-> "idle", left |-> {}, found |-> << >>, heard |-> << >>,
                 chosen |-> {}, steady |-> {}]

PipelineInit ==
    /\ registry = [s \in Strategies |-> {}]
    /\ evaluation = [t \in Evaluators |-> NoEvaluation]
    /\ operations = 0

-----------------------------------------------------------------------------
(* registry.rs                                                             *)

Sets(s, entry) ==
    /\ operations < MaxOperations
    /\ operations' = operations + 1
    /\ registry' = [registry EXCEPT ![s] = entry]
    /\ evaluation' = [t \in Evaluators |->
                        [evaluation[t] EXCEPT !.steady = @ \ {s}]]

RegisterStrategy(s, priority) == Sets(s, {[priority |-> priority, enabled |-> TRUE]})

UnregisterStrategy(s) == registry[s] # {} /\ Sets(s, {})

EnableStrategy(s, on) ==
    \E e \in registry[s] : e.enabled # on /\ Sets(s, {[e EXCEPT !.enabled = on]})

Enabled(s) == {e \in registry[s] : e.enabled}

-----------------------------------------------------------------------------
(* pipeline.rs                                                             *)

\* active_strategies begins its walk.
EvaluationBegins(t) ==
    /\ evaluation[t].at = "idle"
    /\ evaluation' = [evaluation EXCEPT ![t] =
         [NoEvaluation EXCEPT !.at = "walking", !.left = Strategies,
                              !.steady = {s \in Strategies : Enabled(s) # {}}]]
    /\ UNCHANGED <<registry, operations>>

VisitStrategy(t, s) ==
    /\ evaluation[t].at = "walking" /\ s \in evaluation[t].left
    /\ \/ /\ Enabled(s) = {}
          /\ evaluation' = [evaluation EXCEPT ![t].left = @ \ {s}]
       \/ \E e \in Enabled(s) :
             evaluation' = [evaluation EXCEPT ![t].left = @ \ {s},
                ![t].found = Append(@, [name |-> s, priority |-> e.priority])]
    /\ UNCHANGED <<registry, operations>>

\* sort_by_key is stable: equal priorities stay in the order of the walk.
Before(found, i) ==
    {j \in DOMAIN found : \/ found[j].priority < found[i].priority
                          \/ found[j].priority = found[i].priority /\ j < i}
Sorted(found) ==
    [k \in 1 .. Len(found) |->
        found[CHOOSE i \in DOMAIN found : Cardinality(Before(found, i)) = k - 1]]

\* take(max_concurrent_evaluations): the others are not asked later either.
Take(seq) ==
    [k \in 1 .. (IF Len(seq) < MaxConcurrent THEN Len(seq) ELSE MaxConcurrent) |-> seq[k]]

\* Faulty: the first ones are taken before they are in order.
FirstStrategies_Unsorted(found) == Sorted(Take(found))

FirstStrategies(found) == Take(Sorted(found))

\* With no active strategy nothing is decided.
NothingToAsk(t) ==
    /\ evaluation[t].at = "walking" /\ evaluation[t].left = {}
    /\ evaluation[t].found = << >>
    /\ evaluation' = [evaluation EXCEPT ![t].at = "evaluated"]
    /\ UNCHANGED <<registry, operations>>

AskStrategies(t) ==
    /\ evaluation[t].at = "walking" /\ evaluation[t].left = {}
    /\ evaluation[t].found # << >>
    /\ evaluation' = [evaluation EXCEPT ![t].at = "asking", ![t].found = FirstStrategies(@)]
    /\ UNCHANGED <<registry, operations>>

\* composite_score: profit by confidence, saturating, in hundreds.
Saturated(d) == IF d.profit * d.confidence > ScoreMax THEN ScoreMax ELSE d.profit * d.confidence
CompositeScore(d) == Saturated(d) \div 100

\* The places of the recommendations that pass both thresholds.
Passing(heard) ==
    {i \in DOMAIN heard : heard[i].confidence >= MinConfidence /\ heard[i].profit >= MinProfit}

\* select_best: max_by_key keeps the last of equal ones.
SelectBest(heard) ==
    {heard[i] : i \in {i \in Passing(heard) : \A j \in Passing(heard) :
        /\ CompositeScore(heard[j]) <= CompositeScore(heard[i])
        /\ j > i => CompositeScore(heard[j]) < CompositeScore(heard[i])}}

\* The strategies asked have answered: some with a decision, in their order; the
\* others see no reason to fill, fail or time out.
StrategiesAnswer(t, answers) ==
    LET asked == evaluation[t].found
        heard == [i \in DOMAIN answers |->
                    [name |-> asked[i].name, profit |-> answers[i].profit,
                     confidence |-> answers[i].confidence]]
    IN
    /\ evaluation[t].at = "asking"
    /\ evaluation' = [evaluation EXCEPT ![t].at = "evaluated", ![t].heard = heard,
                                        ![t].chosen = SelectBest(heard)]
    /\ UNCHANGED <<registry, operations>>

\* The caller has its answer.
EvaluationUsed(t) ==
    /\ evaluation[t].at = "evaluated"
    /\ evaluation' = [evaluation EXCEPT ![t] = NoEvaluation]
    /\ UNCHANGED <<registry, operations>>

Operate(s) ==
    \/ \E priority \in Priorities : RegisterStrategy(s, priority)
    \/ UnregisterStrategy(s)
    \/ \E on \in BOOLEAN : EnableStrategy(s, on)

EvaluationStep(t) ==
    \/ EvaluationBegins(t)
    \/ \E s \in Strategies : VisitStrategy(t, s)
    \/ NothingToAsk(t) \/ AskStrategies(t)
    \/ \E answering \in SUBSET DOMAIN evaluation[t].found :
           \E answers \in [answering -> Decisions] : StrategiesAnswer(t, answers)
    \/ EvaluationUsed(t)

PipelineNext ==
    \/ \E s \in Strategies : Operate(s)
    \/ \E t \in Evaluators : EvaluationStep(t)

PipelineSpec == PipelineInit /\ [][PipelineNext]_pipelineVars

-----------------------------------------------------------------------------
(* Properties                                                              *)

Names(seq) == {seq[i].name : i \in DOMAIN seq}

\* "Evaluates an order against all active strategies", of which
\* max_concurrent_evaluations bounds how many run at once (pipeline.rs:23-24,
\* 69-73): every strategy that was enabled and left alone all through the walk is
\* asked.  It is not when there are more than that: take() drops the rest for
\* good (pipeline.rs:122), and with them maybe the best decision.
AllActiveAsked ==
    \A t \in Evaluators : evaluation[t].at = "asking" =>
        evaluation[t].steady \subseteq Names(evaluation[t].found)

\* What holds instead: a strategy that was enabled and left alone all through the
\* walk is dropped only for as many as allowed that come before it or share its
\* priority, whoever is registered, enabled or disabled meanwhile
\* (registry.rs:69-78, pipeline.rs:112-136).
NobodyPassedOver ==
    \A t \in Evaluators : evaluation[t].at = "asking" =>
        \A s \in evaluation[t].steady \ Names(evaluation[t].found) :
            /\ Len(evaluation[t].found) = MaxConcurrent
            /\ \A i \in DOMAIN evaluation[t].found, e \in registry[s] :
                   evaluation[t].found[i].priority <= e.priority

\* The decision returned is a recommendation that was heard and passes both
\* thresholds; of those that pass none has a product of profit and confidence,
\* up to the ceiling of the score, that is larger by more than the rounding of
\* the score hides (pipeline.rs:169-188).
BestIsChosen ==
    \A t \in Evaluators : evaluation[t].at = "evaluated" =>
        LET heard == evaluation[t].heard IN
        /\ evaluation[t].chosen = {} <=> Passing(heard) = {}
        /\ \A c \in evaluation[t].chosen, i \in Passing(heard) :
             /\ c \in {heard[j] : j \in Passing(heard)}
             /\ Saturated(heard[i]) < Saturated(c) + 100

\* Both at once: the decision of an evaluation is the best of those that the
\* strategies it asks recommend, and those are the first by priority, although not
\* all (AllActiveAsked; pipeline.rs:112-188).
BestOfTheAsked == NobodyPassedOver /\ BestIsChosen
=============================================================================
