-------------------------- MODULE CompletionBudget --------------------------
(***************************************************************************)
(* The budget of one response, CompletionBudget, and the completions drawn *)
(* on it through BudgetedChatCompletionClient: main's attempts, turn by    *)
(* turn, and the helpers (summarizer, advisor, server tools), which may    *)
(* run at the same time.  A completion is limited by what is left when it  *)
(* starts and charged when it ends.                                        *)
(*                                                                         *)
(* A rate is a number of output tokens times Scale.                        *)
(***************************************************************************)
EXTENDS Totals, FiniteSetsExt, Functions

CONSTANTS
    Main, Helpers,
    Unlimited,        \* None as a number of tokens
    Grants,           \* values of max_output_tokens, Unlimited for none
    Caps,             \* values of a request's own max_completion_tokens
    Scale,
    Equivalences,     \* OutputEquivalence: records uncached, cached, output
    ReasoningRate,    \* reasoning_to_output
    Inputs,           \* numbers of input tokens
    MaxOutput,        \* bound on the output of a completion without limit
    MaxCalls          \* bound on the completions of a response

BudgetAssumption ==
    /\ Scale \in Nat \ {0} /\ ReasoningRate \in Nat
    /\ Equivalences \subseteq [uncached : Nat, cached : Nat, output : Nat \ {0}]
    /\ Equivalences # {} /\ IsFiniteSet(Equivalences) /\ IsFiniteSet(Helpers)
    /\ Inputs # {} /\ IsFiniteSet(Inputs)
    /\ Main \notin Helpers /\ Unlimited \notin Int
    /\ Grants \subseteq (Nat \ {0}) \cup {Unlimited} /\ Caps \subseteq Nat \cup {Unlimited}
    /\ Inputs \subseteq Nat /\ MaxOutput \in Nat /\ MaxCalls \in Nat
ASSUME BudgetAssumption

Callers == {Main} \cup Helpers

VARIABLES
    grant,        \* max_output_tokens
    remaining,    \* _remaining
    charges,      \* _charges; by and result are for the properties
    input,        \* _input, as an index into charges, or 0
    running,      \* the callers' completions: equivalence and limit
    first,        \* first_main_attempt_usage of the turn, or 0
    answer,       \* the usage of main's last result in the turn, or 0
    phase,        \* turn, between, exhausted, finished or failed
    report,       \* what finish returns; empty for None
    calls         \* completions so far

vars == <<grant, remaining, charges, input, running, first, answer, phase, report, calls>>

Idle == DOMAIN running = {}

Init ==
    /\ grant \in Grants /\ remaining = grant
    /\ charges = <<>> /\ input = 0 /\ running = <<>>
    /\ first = 0 /\ answer = 0 /\ phase = "turn" /\ report = <<>> /\ calls = 0

-----------------------------------------------------------------------------
(* Costs.                                                                  *)

Floor(a, b) == a \div b
Ceil(a, b) == (a + b - 1) \div b
Lesser(a, b) == IF a < b THEN a ELSE b
Greater(a, b) == IF a > b THEN a ELSE b

Cached(u) == Lesser(u.cached, u.input)
VisibleTokens(u) == Greater(0, u.output - u.reasoning)
OutputEquivalent(u) == VisibleTokens(u) + Ceil(u.reasoning * ReasoningRate, Scale)
OutputCost(c) == Ceil(c.equivalence.output * OutputEquivalent(c.usage), Scale)
InternalCost(c) ==
    Ceil((c.usage.input - Cached(c.usage)) * c.equivalence.uncached
            + Cached(c.usage) * c.equivalence.cached
            + c.equivalence.output * OutputEquivalent(c.usage), Scale)

\* Mutated form: rounded up, a completion may cost more than is left.
AffordableRoundedUp(e) == Ceil(Greater(remaining, 0) * Scale, e.output)
\* The output tokens that what is left pays for.
Affordable(e) == Floor(Greater(remaining, 0) * Scale, e.output)

\* _completion_limit.
Limit(e, cap) ==
    IF remaining = Unlimited THEN cap
    ELSE IF cap = Unlimited THEN Affordable(e)
    ELSE Lesser(Affordable(e), cap)

-----------------------------------------------------------------------------
(* Completions.                                                            *)

\* Helpers also run between main's turns.
MayCall(c) == phase = "turn" \/ (phase = "between" /\ c \in Helpers)

\* _limit_request.
Start(c) ==
    /\ MayCall(c) /\ c \notin DOMAIN running /\ calls < MaxCalls
    /\ \E e \in Equivalences, cap \in Caps :
        /\ Limit(e, cap) # 0
        /\ running' = [d \in DOMAIN running \cup {c} |->
                IF d = c THEN [equivalence |-> e, limit |-> Limit(e, cap)] ELSE running[d]]
    /\ calls' = calls + 1
    /\ UNCHANGED <<grant, remaining, charges, input, first, answer, phase, report>>

\* What a provider that keeps to its limit may report.
Usages(limit) ==
    LET most == IF limit = Unlimited THEN MaxOutput ELSE limit IN
    {u \in [input : Inputs, cached : Inputs, output : 0..most, reasoning : 0..most] :
        u.reasoning <= u.output}

\* _record_completion with a usage: at the end of complete or stream, or, of
\* an abandoned stream that had its usage, whenever it is closed.  A stream
\* that breaks off after its usage has no result, and main does not see it.
Record(c) ==
    /\ c \in DOMAIN running
    /\ \E u \in Usages(running[c].limit), result \in BOOLEAN :
        LET charge == [equivalence |-> running[c].equivalence, usage |-> u,
                       by |-> c, result |-> result] IN
        /\ result \/ c = Main
        /\ charges' = Append(charges, charge)
        /\ remaining' =
            IF remaining = Unlimited THEN remaining ELSE remaining - InternalCost(charge)
        /\ answer' = IF c # Main THEN answer ELSE IF result THEN Len(charges') ELSE 0
        /\ first' = IF c = Main /\ result /\ first = 0 THEN Len(charges') ELSE first
    /\ running' = Restrict(running, DOMAIN running \ {c})
    /\ UNCHANGED <<grant, input, phase, report, calls>>

\* A completion that ends without usage: not reported, failed or cancelled.
Unreported(c) ==
    /\ c \in DOMAIN running
    /\ running' = Restrict(running, DOMAIN running \ {c})
    /\ answer' = IF c = Main THEN 0 ELSE answer
    /\ UNCHANGED <<grant, remaining, charges, input, first, phase, report, calls>>

-----------------------------------------------------------------------------
(* Turns.                                                                  *)

\* Mutated form: the last turn's input is reported.
AnchorLast == IF first = 0 THEN input ELSE first
\* anchor, in the finally of a turn.
Anchor == IF input # 0 THEN input ELSE first

EndTurnIn(p) ==
    /\ phase = "turn" /\ Main \notin DOMAIN running
    /\ phase' = p /\ input' = Anchor /\ first' = 0
    /\ UNCHANGED <<grant, remaining, charges, running, answer, report, calls>>

\* A result is accepted; the turn's task group has ended.
EndTurn == calls > 0 /\ Idle /\ EndTurnIn("between")

\* Main's next attempt is refused.  The helpers' tasks are cancelled, but an
\* abandoned stream may be closed later.
Exhausted ==
    /\ \E e \in Equivalences, cap \in Caps : Limit(e, cap) = 0
    /\ EndTurnIn("exhausted")

\* The turn raises anything else: the response fails, and finish is not called.
TurnFails == EndTurnIn("failed")

NextTurn ==
    /\ phase = "between" /\ Idle
    /\ phase' = "turn" /\ answer' = 0
    /\ UNCHANGED <<grant, remaining, charges, input, running, first, report, calls>>

-----------------------------------------------------------------------------
(* finish.                                                                 *)

Output == IF phase = "exhausted" THEN 0 ELSE answer

\* Mutated form: the answer's input stays charged.
KeptCharge == 0
\* What finish gives back: the answer's input is reported as input.
Reclassified ==
    IF Output = 0 THEN 0 ELSE InternalCost(charges[Output]) - OutputCost(charges[Output])

Normalized ==
    Total([i \in DOMAIN charges |->
              IF i = Output THEN OutputCost(charges[i]) ELSE InternalCost(charges[i])])

\* Mutated form: a discounted answer is reported as shorter than it is.
ReportedDiscounted(visible, spent) == spent
Reported(visible, spent) == Greater(visible, spent)

\* _build_usage.
BuildUsage ==
    LET anchor == charges[IF input # 0 THEN input ELSE IF Output # 0 THEN Output ELSE 1].usage
        visible == IF Output = 0 THEN 0 ELSE VisibleTokens(charges[Output].usage)
        output == Reported(visible, Normalized)
    IN IF charges = <<>> THEN <<>>
       ELSE <<[input |-> anchor.input, cached |-> Cached(anchor),
               output |-> output, reasoning |-> output - visible]>>

Finish ==
    /\ phase = "exhausted" \/ (phase = "between" /\ Idle)
    /\ phase' = "finished"
    /\ remaining' = IF remaining = Unlimited THEN remaining ELSE remaining + Reclassified
    /\ report' = BuildUsage
    /\ UNCHANGED <<grant, charges, input, running, first, answer, calls>>

Over ==
    /\ phase \in {"finished", "failed"} /\ Idle
    /\ UNCHANGED vars

Next ==
    \/ \E c \in Callers : Start(c) \/ Record(c) \/ Unreported(c)
    \/ EndTurn \/ Exhausted \/ TurnFails \/ NextTurn \/ Finish \/ Over

Spec == Init /\ [][Next]_vars

-----------------------------------------------------------------------------
(* Properties.                                                             *)

Tokens == Nat \cup {Unlimited}
Usage == [input : Nat, cached : Nat, output : Nat, reasoning : Nat]

\* Reported counts are never negative, whatever the rates.
TypeOK ==
    /\ grant \in Tokens /\ remaining \in Int \cup {Unlimited}
    /\ charges \in Seq([equivalence : Equivalences, usage : Usage, by : Callers, result : BOOLEAN])
    /\ input \in 0..Len(charges) /\ first \in 0..Len(charges) /\ answer \in 0..Len(charges)
    /\ DOMAIN running \subseteq Callers
    /\ Range(running) \subseteq [equivalence : Equivalences, limit : Tokens]
    /\ phase \in {"turn", "between", "exhausted", "finished", "failed"}
    /\ report \in Seq(Usage) /\ Len(report) <= 1 /\ calls \in 0..MaxCalls

\* The most that the input of one completion costs.
InputCost ==
    Max({Ceil(i * Greater(e.uncached, e.cached), Scale) : i \in Inputs, e \in Equivalences})

\* With reasoning no dearer than output, n callers at once overdraw the budget
\* by no more than n - 1 times the grant and what their inputs cost: one alone
\* overdraws it by an input only.
OverdraftBounded ==
    remaining # Unlimited /\ ReasoningRate <= Scale =>
        LET n == 1 + Cardinality(Helpers) IN remaining >= -((n - 1) * grant + n * InputCost)

\* The client is shown what the budget was charged, or the answer's length when
\* that is more.
ReportAgrees ==
    [][phase' = "finished" /\ phase # "finished" /\ grant # Unlimited /\ report' # <<>> =>
        LET u == Head(report')
        IN u.output = Greater(u.output - u.reasoning, grant - remaining')]_vars

MainResults == {i \in DOMAIN charges : charges[i].by = Main /\ charges[i].result}

\* The input tokens shown are those of main's first result that reported any,
\* whatever helpers reported before it and however many turns followed.
AnchoredOnFirst ==
    phase = "finished" /\ MainResults # {} =>
        Head(report).input = charges[Min(MainResults)].usage.input
=============================================================================
