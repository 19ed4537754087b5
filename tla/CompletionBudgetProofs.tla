----------------------- MODULE CompletionBudgetProofs -----------------------
(***************************************************************************)
(* The budget's properties for all rates, grants, limits and inputs, any   *)
(* number of helpers and completions.                                      *)
(***************************************************************************)
EXTENDS CompletionBudget, NumberLemmas, SequenceTheorems

-----------------------------------------------------------------------------
(* Costs.                                                                  *)

\* A quotient rounded up is the least number that reaches the dividend.
LEMMA Ceiling ==
    ASSUME NEW a \in Int, NEW b \in Nat \ {0}
    PROVE  /\ Ceil(a, b) \in Int
           /\ \A q \in Int : a <= b * q => Ceil(a, b) <= q
           /\ \A q \in Int : b * q <= a => q <= Ceil(a, b)
           /\ a <= b * Ceil(a, b)
<1> DEFINE d == a + b - 1
<1>1. /\ d \div b \in Int
      /\ b * (d \div b) <= d
      /\ d < b * (d \div b) + b
  BY Division
<1>2. ASSUME NEW q \in Int, a <= b * q PROVE d \div b <= q
  <2>1. d < b * q + b
    BY <1>2
  <2> QED  BY <2>1, QuotientBounds
<1>3. ASSUME NEW q \in Int, b * q <= a PROVE q <= d \div b
  <2>1. b * q <= d
    BY <1>3
  <2> QED  BY <2>1, QuotientBounds
<1> QED  BY <1>1, <1>2, <1>3 DEF Ceil

\* Rounding up a sum whose one part is a multiple rounds the other part.
LEMMA CeilingOfSum ==
    ASSUME NEW a \in Int, NEW b \in Nat \ {0}, NEW c \in Int, NEW q \in Int, c <= b * q
    PROVE  Ceil(a + c, b) <= Ceil(a, b) + q
<1>1. Ceil(a, b) \in Int /\ a <= b * Ceil(a, b)
  BY Ceiling
<1>2. b * (Ceil(a, b) + q) = b * Ceil(a, b) + b * q
  BY <1>1
<1>3. a + c <= b * (Ceil(a, b) + q)
  BY <1>1, <1>2
<1> QED  BY <1>1, <1>3, Ceiling

Charge == [equivalence : Equivalences, usage : Usage, by : Callers, result : BOOLEAN]

\* What BudgetAssumption says of one equivalence.
LEMMA Rates ==
    ASSUME NEW e \in Equivalences
    PROVE  e.uncached \in Nat /\ e.cached \in Nat /\ e.output \in Nat \ {0}
BY BudgetAssumption DEF BudgetAssumption

\* Output is never negative, and counts no more than its tokens when reasoning
\* is no dearer than output.
LEMMA OutputCounts ==
    ASSUME NEW u \in Usage
    PROVE  /\ OutputEquivalent(u) \in Nat /\ VisibleTokens(u) \in Nat
           /\ u.reasoning <= u.output /\ ReasoningRate <= Scale => OutputEquivalent(u) <= u.output
<1> USE BudgetAssumption DEF BudgetAssumption
<1>1. /\ u.output \in Nat /\ u.reasoning \in Nat
      /\ VisibleTokens(u) \in Nat
      /\ u.reasoning <= u.output => VisibleTokens(u) = u.output - u.reasoning
  BY DEF Usage, VisibleTokens, Greater
<1>2. u.reasoning * ReasoningRate \in Nat
  BY <1>1
<1>3. Ceil(u.reasoning * ReasoningRate, Scale) \in Nat
  <2>1. Scale * 0 <= u.reasoning * ReasoningRate
    BY <1>2
  <2> QED  BY <1>2, <2>1, Ceiling
<1>4. ReasoningRate <= Scale => Ceil(u.reasoning * ReasoningRate, Scale) <= u.reasoning
  <2>1. ReasoningRate <= Scale => u.reasoning * ReasoningRate <= Scale * u.reasoning
    BY <1>1
  <2> QED  BY <1>1, <1>2, <2>1, Ceiling
<1> QED  BY <1>1, <1>3, <1>4 DEF OutputEquivalent

InputPart(e, u) == (u.input - Cached(u)) * e.uncached + Cached(u) * e.cached

\* The input's part of a cost is never negative, and at most all the input at
\* the dearer of its two rates.
LEMMA InputCounts ==
    ASSUME NEW e \in Equivalences, NEW u \in Usage
    PROVE  /\ InputPart(e, u) \in Nat /\ Cached(u) \in Nat
           /\ InputPart(e, u) <= u.input * Greater(e.uncached, e.cached)
<1>1. e.uncached \in Nat /\ e.cached \in Nat /\ u.input \in Nat /\ u.cached \in Nat
  BY Rates DEF Usage
<1> DEFINE c == Cached(u)
           f == u.input - c
           m == Greater(e.uncached, e.cached)
<1>2. c \in Nat /\ f \in Nat /\ u.input = f + c
  BY <1>1 DEF Cached, Lesser
<1>3. m \in Nat /\ e.uncached <= m /\ e.cached <= m
  BY <1>1 DEF Greater
<1> HIDE DEF c, f, m
<1>4. f * e.uncached <= f * m /\ f * e.uncached \in Nat
  BY <1>1, <1>2, <1>3
<1>5. c * e.cached <= c * m /\ c * e.cached \in Nat
  BY <1>1, <1>2, <1>3
<1>6. u.input * m = f * m + c * m /\ f * m \in Nat /\ c * m \in Nat
  BY <1>2, <1>3
<1>7. InputPart(e, u) = f * e.uncached + c * e.cached
  BY DEF InputPart, f, c
<1> QED  BY <1>2, <1>4, <1>5, <1>6, <1>7 DEF c, m

\* A charge costs something or nothing, its output no more than all of it.
LEMMA CostsAreNat ==
    ASSUME NEW c \in Charge
    PROVE  /\ OutputCost(c) \in Nat /\ InternalCost(c) \in Nat
           /\ OutputCost(c) <= InternalCost(c)
<1> USE BudgetAssumption DEF BudgetAssumption
<1> DEFINE out == c.equivalence.output * OutputEquivalent(c.usage)
           in == InputPart(c.equivalence, c.usage)
<1>1. c.equivalence \in Equivalences /\ c.usage \in Usage
  BY DEF Charge
<1>2. out \in Nat
  BY <1>1, Rates, OutputCounts
<1>3. in \in Nat
  BY <1>1, InputCounts
<1>4. OutputCost(c) = Ceil(out, Scale) /\ InternalCost(c) = Ceil(in + out, Scale)
  BY DEF OutputCost, InternalCost, InputPart
<1> HIDE DEF out, in
<1>5. Ceil(out, Scale) \in Nat
  <2>1. Scale * 0 <= out
    BY <1>2
  <2> QED  BY <1>2, <2>1, Ceiling
<1>6. Ceil(in + out, Scale) \in Int /\ in + out <= Scale * Ceil(in + out, Scale)
  BY <1>2, <1>3, Ceiling
<1>7. out <= Scale * Ceil(in + out, Scale)
  BY <1>2, <1>3, <1>6
<1>8. Ceil(out, Scale) <= Ceil(in + out, Scale)
  BY <1>2, <1>6, <1>7, Ceiling
<1> QED  BY <1>4, <1>5, <1>6, <1>8
\* No input costs more than InputCost: inputs and rates are finitely many.
LEMMA InputCostBounds ==
    /\ InputCost \in Nat
    /\ \A i \in Inputs, e \in Equivalences :
          Ceil(i * Greater(e.uncached, e.cached), Scale) <= InputCost
<1> USE BudgetAssumption DEF BudgetAssumption
<1> DEFINE cost(i, e) == Ceil(i * Greater(e.uncached, e.cached), Scale)
           Costs == {cost(i, e) : i \in Inputs, e \in Equivalences}
           Pairs == Inputs \X Equivalences
           price == [p \in Pairs |-> cost(p[1], p[2])]
<1>1. ASSUME NEW i \in Inputs, NEW e \in Equivalences PROVE cost(i, e) \in Nat
  <2>1. i \in Nat /\ Greater(e.uncached, e.cached) \in Nat
    BY Rates DEF Greater
  <2>2. i * Greater(e.uncached, e.cached) \in Nat
    BY <2>1
  <2>3. Scale * 0 <= i * Greater(e.uncached, e.cached)
    BY <2>2
  <2> QED  BY <2>2, <2>3, Ceiling
<1> HIDE DEF cost
<1>2. Costs \in SUBSET Int /\ Costs # {} /\ Costs \subseteq Nat
  <2>1. \A x \in Costs : x \in Nat
    BY <1>1
  <2>2. PICK i \in Inputs, e \in Equivalences : TRUE
    OBVIOUS
  <2>3. cost(i, e) \in Costs
    OBVIOUS
  <2> HIDE DEF Costs
  <2> QED  BY <2>1, <2>3
<1>3. price \in Surjection(Pairs, Costs)
  <2>1. price \in [Pairs -> Costs]
    OBVIOUS
  <2>2. ASSUME NEW t \in Costs PROVE \E p \in Pairs : price[p] = t
    <3>1. PICK i \in Inputs, e \in Equivalences : t = cost(i, e)
      OBVIOUS
    <3>2. <<i, e>> \in Pairs /\ price[<<i, e>>] = t
      BY <3>1
    <3> QED  BY <3>2
  <2> HIDE DEF price, Costs, Pairs
  <2> QED  BY <2>1, <2>2 DEF Surjection
<1>4. IsFiniteSet(Costs)
  <2> HIDE DEF Costs, Pairs, price
  <2>1. IsFiniteSet(Pairs)
    BY FS_Product DEF Pairs
  <2> QED  BY <1>3, <2>1, FS_Surjection
<1>5. \E x \in Costs : \A y \in Costs : x >= y
  <2> HIDE DEF Costs
  <2> QED  BY <1>2, <1>4, LargestNumber
<1>6. InputCost = CHOOSE x \in Costs : \A y \in Costs : x >= y
  BY DEF InputCost, Max, cost
<1>7. InputCost \in Costs /\ \A y \in Costs : InputCost >= y
  <2> HIDE DEF Costs
  <2> QED  BY <1>5, <1>6
<1>8. \A i \in Inputs, e \in Equivalences : cost(i, e) \in Costs
  OBVIOUS
<1>9. \A i \in Inputs, e \in Equivalences : cost(i, e) <= InputCost
  <2> HIDE DEF Costs
  <2> QED  BY <1>1, <1>2, <1>7, <1>8
<1> QED  BY <1>2, <1>7, <1>9 DEF cost

\* A completion that kept to a limit which b output tokens pay for costs no
\* more than b and its input.
LEMMA CostBounded ==
    ASSUME NEW c \in Charge, NEW b \in Nat, c.usage.input \in Inputs,
           c.usage.reasoning <= c.usage.output, ReasoningRate <= Scale,
           c.equivalence.output * c.usage.output <= b * Scale
    PROVE  InternalCost(c) <= b + InputCost
<1> USE BudgetAssumption DEF BudgetAssumption
<1> DEFINE e == c.equivalence
           u == c.usage
           in == u.input * Greater(e.uncached, e.cached)
           out == e.output * OutputEquivalent(u)
<1>1. /\ e \in Equivalences /\ u \in Usage
      /\ e.output \in Nat /\ e.uncached \in Nat /\ e.cached \in Nat
      /\ u.output \in Nat /\ u.input \in Nat
  BY Rates DEF Charge, Usage
<1>2. out \in Nat /\ out <= Scale * b
  <2>1. OutputEquivalent(u) \in Nat /\ OutputEquivalent(u) <= u.output
    BY <1>1, OutputCounts
  <2>2. out <= e.output * u.output /\ out \in Nat
    BY <1>1, <2>1
  <2> QED  BY <1>1, <2>2
<1>3. in \in Nat /\ InputPart(e, u) \in Nat /\ InputPart(e, u) <= in
  <2>1. Greater(e.uncached, e.cached) \in Nat
    BY <1>1 DEF Greater
  <2> QED  BY <1>1, <2>1, InputCounts
<1>4. InternalCost(c) = Ceil(InputPart(e, u) + out, Scale)
  BY DEF InternalCost, InputPart
<1>5. Ceil(in, Scale) <= InputCost /\ InputCost \in Nat
  BY <1>1, InputCostBounds
<1> HIDE DEF in, out, e, u
<1>6. Ceil(InputPart(e, u) + out, Scale) <= Ceil(InputPart(e, u), Scale) + b
  <2>1. InputPart(e, u) \in Int /\ out \in Int /\ b \in Int /\ out <= Scale * b
    BY <1>2, <1>3
  <2> QED  BY <2>1, CeilingOfSum
<1>7. Ceil(InputPart(e, u), Scale) <= Ceil(in, Scale)
  <2>1. Ceil(in, Scale) \in Int /\ in <= Scale * Ceil(in, Scale)
    BY <1>3, Ceiling
  <2>2. InputPart(e, u) <= Scale * Ceil(in, Scale)
    BY <1>3, <2>1
  <2> QED  BY <1>3, <2>1, <2>2, Ceiling
<1>8. /\ Ceil(InputPart(e, u) + out, Scale) \in Int
      /\ Ceil(InputPart(e, u), Scale) \in Int /\ Ceil(in, Scale) \in Int
  BY <1>2, <1>3, Ceiling
<1> QED  BY <1>4, <1>5, <1>6, <1>7, <1>8

\* What is left pays for the tokens that it affords, and is more than nothing
\* when it affords one.
LEMMA AffordablePays ==
    ASSUME remaining \in Int, NEW e \in Equivalences
    PROVE  /\ Affordable(e) \in Nat
           /\ e.output * Affordable(e) <= Greater(remaining, 0) * Scale
           /\ Affordable(e) # 0 => remaining > 0
<1> USE BudgetAssumption DEF BudgetAssumption
<1> DEFINE r == Greater(remaining, 0)
<1>1. r \in Nat /\ (remaining <= 0 => r = 0)
  BY DEF Greater
<1> HIDE DEF r
<1>2. r * Scale \in Nat /\ e.output \in Nat \ {0}
  BY <1>1, Rates
<1>3. Affordable(e) = (r * Scale) \div e.output
  BY DEF Affordable, Floor, r
<1>4. Affordable(e) \in Int /\ e.output * Affordable(e) <= r * Scale
  <2>1. r * Scale \in Int
    BY <1>2
  <2> QED  BY <1>2, <1>3, <2>1, Division
<1>5. Affordable(e) >= 0
  <2>1. e.output * 0 <= r * Scale
    BY <1>2
  <2> QED  BY <1>2, <1>3, <2>1, QuotientBounds
<1>6. remaining <= 0 => Affordable(e) <= 0
  <2> SUFFICES ASSUME remaining <= 0 PROVE Affordable(e) <= 0
    OBVIOUS
  <2>1. r * Scale = 0
    BY <1>1
  <2>2. r * Scale < e.output * 0 + e.output
    BY <1>2, <2>1
  <2> QED  BY <1>2, <1>3, <2>2, QuotientBounds
<1> QED  BY <1>4, <1>5, <1>6 DEF r

-----------------------------------------------------------------------------
(* The inductive invariant.                                                *)

Costs == [i \in DOMAIN charges |-> InternalCost(charges[i])]

\* Until it is finished, the budget is the grant less what was charged.
Balanced ==
    /\ grant = Unlimited <=> remaining = Unlimited
    /\ remaining # Unlimited /\ phase # "finished" => remaining = grant - Total(Costs)

\* Main's completions are those of a turn.  The anchor of earlier turns, or
\* the turn's own, is main's first result.
Leads(i) == i \in MainResults /\ \A j \in MainResults : i <= j

Anchored ==
    /\ phase # "turn" => first = 0 /\ Main \notin DOMAIN running
    /\ input # 0 => Leads(input)
    /\ input = 0 /\ first # 0 => Leads(first)
    /\ input = 0 /\ first = 0 => MainResults = {}

\* The report has the anchor's input.
Reports ==
    phase = "finished" /\ MainResults # {} =>
        /\ report # <<>> /\ input # 0
        /\ Head(report).input = charges[input].usage.input

\* b output tokens pay for all the output that c's limit allows.
Pays(b, c) == running[c].equivalence.output * running[c].limit <= b * Scale

LimitsKept ==
    remaining # Unlimited =>
        \A c \in DOMAIN running : running[c].limit # Unlimited /\ Pays(grant, c)

\* What may still be overdrawn.
Slack == remaining + (Cardinality(Helpers) * grant + (1 + Cardinality(Helpers)) * InputCost)

\* The running completions take no more than the slack.  Of the last one
\* started it is known what was left for it, of the others that this was at
\* most the grant.
SlackKept ==
    remaining # Unlimited /\ ReasoningRate <= Scale =>
        IF DOMAIN running = {} THEN Slack >= 0
        ELSE \E c \in DOMAIN running, b \in 0..grant :
                /\ Pays(b, c)
                /\ Slack >= (Cardinality(DOMAIN running) - 1) * (grant + InputCost) + (b + InputCost)

IInv == TypeOK /\ Balanced /\ Anchored /\ Reports /\ LimitsKept /\ SlackKept

-----------------------------------------------------------------------------
(* The callers' completions.                                               *)

\* A started completion joins the others, with an affordable limit.
LEMMA Started ==
    ASSUME TypeOK, NEW c \in Callers, Start(c)
    PROVE  \E e \in Equivalences, cap \in Caps :
              /\ Limit(e, cap) # 0
              /\ DOMAIN running' = DOMAIN running \cup {c} /\ c \notin DOMAIN running
              /\ running'[c] = [equivalence |-> e, limit |-> Limit(e, cap)]
              /\ \A d \in DOMAIN running : running'[d] = running[d]
<1>1. PICK e \in Equivalences, cap \in Caps :
        /\ Limit(e, cap) # 0
        /\ running' = [d \in DOMAIN running \cup {c} |->
                IF d = c THEN [equivalence |-> e, limit |-> Limit(e, cap)] ELSE running[d]]
  BY DEF Start
<1>2. c \notin DOMAIN running
  BY DEF Start
<1> HIDE DEF Limit
<1> QED  BY <1>1, <1>2

\* What a completion that starts is given keeps to what is left.
LEMMA StartedLimit ==
    ASSUME TypeOK, NEW e \in Equivalences, NEW cap \in Caps, Limit(e, cap) # 0
    PROVE  /\ Limit(e, cap) \in Tokens
           /\ remaining # Unlimited =>
                 /\ remaining \in Nat \ {0} /\ Limit(e, cap) # Unlimited
                 /\ e.output * Limit(e, cap) <= remaining * Scale
<1> USE BudgetAssumption DEF BudgetAssumption
<1>1. cap \in Tokens /\ e.output \in Nat
  BY Rates DEF Tokens
<1>2. CASE remaining = Unlimited
  BY <1>1, <1>2 DEF Limit
<1>3. CASE remaining # Unlimited
  <2>1. remaining \in Int
    BY <1>3 DEF TypeOK
  <2>2. /\ Affordable(e) \in Nat
        /\ e.output * Affordable(e) <= Greater(remaining, 0) * Scale
        /\ Affordable(e) # 0 => remaining > 0
    BY <2>1, AffordablePays
  <2>3. /\ Limit(e, cap) \in Nat /\ Limit(e, cap) <= Affordable(e)
    BY <1>1, <1>3, <2>2 DEF Limit, Lesser, Tokens
  <2>4. e.output * Limit(e, cap) <= e.output * Affordable(e)
    BY <1>1, <2>2, <2>3
  <2>5. remaining > 0
    BY <2>2, <2>3
  <2>6. Greater(remaining, 0) = remaining
    BY <2>1, <2>5 DEF Greater
  <2>7. e.output * Limit(e, cap) \in Int /\ e.output * Affordable(e) \in Int /\ remaining * Scale \in Int
    BY <1>1, <2>1, <2>2, <2>3
  <2> QED  BY <2>1, <2>2, <2>3, <2>4, <2>5, <2>6, <2>7 DEF Tokens
<1> QED  BY <1>2, <1>3

\* A completion that ends leaves the others as they were.
LEMMA Ended ==
    ASSUME NEW c \in DOMAIN running, running' = Restrict(running, DOMAIN running \ {c})
    PROVE  /\ DOMAIN running' = DOMAIN running \ {c}
           /\ \A d \in DOMAIN running' : running'[d] = running[d]
BY DEF Restrict

\* The records of the completions that run.
LEMMA RunningType ==
    ASSUME TypeOK, NEW c \in DOMAIN running
    PROVE  /\ c \in Callers /\ running[c].equivalence \in Equivalences
           /\ running[c].limit \in Tokens
BY DEF TypeOK, Range

\* A usage that the provider may report, as a charge.
LEMMA Recorded ==
    ASSUME TypeOK, NEW c \in Callers, Record(c)
    PROVE  \E u \in Usages(running[c].limit), result \in BOOLEAN :
              LET charge == [equivalence |-> running[c].equivalence, usage |-> u,
                             by |-> c, result |-> result]
              IN /\ charge \in Charge
                 /\ result \/ c = Main
                 /\ charges' = Append(charges, charge)
                 /\ remaining' = IF remaining = Unlimited THEN remaining
                                 ELSE remaining - InternalCost(charge)
                 /\ answer' = IF c # Main THEN answer ELSE IF result THEN Len(charges') ELSE 0
                 /\ first' = IF c = Main /\ result /\ first = 0 THEN Len(charges') ELSE first
                 /\ u.input \in Inputs /\ u.reasoning <= u.output /\ u.output \in Nat
                 /\ running[c].limit # Unlimited => u.output <= running[c].limit
<1> USE BudgetAssumption DEF BudgetAssumption
<1>1. PICK u \in Usages(running[c].limit), result \in BOOLEAN :
        LET charge == [equivalence |-> running[c].equivalence, usage |-> u,
                       by |-> c, result |-> result]
        IN /\ result \/ c = Main
           /\ charges' = Append(charges, charge)
           /\ remaining' = IF remaining = Unlimited THEN remaining
                           ELSE remaining - InternalCost(charge)
           /\ answer' = IF c # Main THEN answer ELSE IF result THEN Len(charges') ELSE 0
           /\ first' = IF c = Main /\ result /\ first = 0 THEN Len(charges') ELSE first
  BY Zenon DEF Record
<1>2. running[c].equivalence \in Equivalences /\ running[c].limit \in Tokens
  BY RunningType DEF Record
<1>3. /\ u \in Usage /\ u.input \in Inputs /\ u.reasoning <= u.output /\ u.output \in Nat
      /\ running[c].limit # Unlimited => u.output <= running[c].limit
  <2> DEFINE most == IF running[c].limit = Unlimited THEN MaxOutput ELSE running[c].limit
  <2>1. most \in Nat
    BY <1>2 DEF Tokens
  <2>2. /\ u \in [input : Inputs, cached : Inputs, output : 0..most, reasoning : 0..most]
        /\ u.reasoning <= u.output
    BY DEF Usages
  <2>3. u.output \in 0..most /\ u.reasoning \in 0..most /\ u.input \in Inputs /\ u.cached \in Inputs
    BY <2>2
  <2>4. u \in Usage
    <3>1. 0..most \subseteq Nat
      BY <2>1
    <3> HIDE DEF most
    <3> QED  BY <2>2, <3>1 DEF Usage
  <2> QED  BY <2>1, <2>2, <2>3, <2>4
<1>4. [equivalence |-> running[c].equivalence, usage |-> u, by |-> c, result |-> result] \in Charge
  BY <1>2, <1>3 DEF Charge
<1> QED  BY <1>1, <1>3, <1>4

-----------------------------------------------------------------------------
(* TypeOK.                                                                 *)

\* A budget starts well typed.
LEMMA TypeInit == Init => TypeOK
BY BudgetAssumption DEF BudgetAssumption, Init, TypeOK, Tokens, Range

\* The charges are charges.
LEMMA ChargesType ==
    ASSUME TypeOK
    PROVE  /\ charges \in Seq(Charge) /\ DOMAIN charges = 1..Len(charges) /\ Len(charges) \in Nat
           /\ \A i \in 1..Len(charges) : charges[i] \in Charge /\ charges[i].usage \in Usage
<1>1. charges \in Seq(Charge)
  BY DEF TypeOK, Charge
<1>2. \A i \in 1..Len(charges) : charges[i] \in Charge
  BY <1>1
<1>3. \A c \in Charge : c.usage \in Usage
  BY DEF Charge
<1> QED  BY <1>1, <1>2, <1>3

\* What finish returns has no negative count.
LEMMA ReportType ==
    ASSUME TypeOK
    PROVE  BuildUsage \in Seq(Usage) /\ Len(BuildUsage) <= 1
<1> DEFINE costs == [i \in DOMAIN charges |->
              IF i = Output THEN OutputCost(charges[i]) ELSE InternalCost(charges[i])]
           anchor == charges[IF input # 0 THEN input ELSE IF Output # 0 THEN Output ELSE 1].usage
           visible == IF Output = 0 THEN 0 ELSE VisibleTokens(charges[Output].usage)
           output == Reported(visible, Normalized)
<1>1. /\ charges \in Seq(Charge) /\ DOMAIN charges = 1..Len(charges) /\ Len(charges) \in Nat
      /\ Output \in 0..Len(charges) /\ input \in 0..Len(charges)
  BY ChargesType DEF TypeOK, Output
<1>2. CASE charges = <<>>
  BY <1>2 DEF BuildUsage
<1>3. CASE charges # <<>>
  <2>1. \A i \in 1..Len(charges) : charges[i] \in Charge /\ charges[i].usage \in Usage
    BY ChargesType
  <2>2. costs \in Seq(Int)
    <3>1. \A i \in 1..Len(charges) : costs[i] \in Int
      BY <1>1, <2>1, CostsAreNat
    <3>2. DOMAIN costs = 1..Len(charges) /\ Len(charges) \in Nat
      BY <1>1
    <3> HIDE DEF costs
    <3> QED  BY <3>1, <3>2 DEF costs
  <2>3. Normalized \in Int
    BY <2>2, TotalType DEF Normalized
  <2>4. anchor \in Usage
    BY <1>1, <1>3, <2>1
  <2>5. visible \in Nat
    BY <1>1, <2>1, OutputCounts
  <2>6. output \in Nat /\ output - visible \in Nat
    BY <2>3, <2>5 DEF Reported, Greater
  <2>7. anchor.input \in Nat /\ Cached(anchor) \in Nat
    BY <2>4 DEF Usage, Cached, Lesser
  <2>8. BuildUsage = <<[input |-> anchor.input, cached |-> Cached(anchor),
                        output |-> output, reasoning |-> output - visible]>>
    BY <1>3 DEF BuildUsage
  <2>9. [input |-> anchor.input, cached |-> Cached(anchor),
         output |-> output, reasoning |-> output - visible] \in Usage
    BY <2>6, <2>7 DEF Usage
  <2> QED  BY <2>8, <2>9
<1> QED  BY <1>2, <1>3

\* Each step keeps the types; a completion that starts has a limit, one that
\* ends a usage.
LEMMA TypeStep ==
    ASSUME TypeOK, [Next]_vars
    PROVE  TypeOK'
<1> USE BudgetAssumption DEF BudgetAssumption
<1>1. ASSUME NEW c \in Callers, Start(c) PROVE TypeOK'
  <2>1. PICK e \in Equivalences, cap \in Caps :
          /\ Limit(e, cap) # 0
          /\ DOMAIN running' = DOMAIN running \cup {c} /\ c \notin DOMAIN running
          /\ running'[c] = [equivalence |-> e, limit |-> Limit(e, cap)]
          /\ \A d \in DOMAIN running : running'[d] = running[d]
    BY <1>1, Started
  <2>2. Limit(e, cap) \in Tokens
    BY <2>1, StartedLimit
  <2>3. DOMAIN running' \subseteq Callers
    BY <2>1 DEF TypeOK
  <2>4. Range(running') \subseteq [equivalence : Equivalences, limit : Tokens]
    <3> SUFFICES ASSUME NEW d \in DOMAIN running'
                 PROVE  running'[d] \in [equivalence : Equivalences, limit : Tokens]
      BY DEF Range
    <3>1. CASE d = c
      BY <3>1, <2>1, <2>2
    <3>2. CASE d # c
      BY <3>2, <2>1 DEF TypeOK, Range
    <3> QED  BY <3>1, <3>2
  <2>5. calls' \in 0..MaxCalls
    BY <1>1 DEF Start, TypeOK
  <2> QED  BY <1>1, <2>3, <2>4, <2>5 DEF TypeOK, Start
<1>2. ASSUME NEW c \in Callers, Record(c) PROVE TypeOK'
  <2>1. PICK u \in Usages(running[c].limit), result \in BOOLEAN :
          LET charge == [equivalence |-> running[c].equivalence, usage |-> u,
                         by |-> c, result |-> result]
          IN /\ charge \in Charge
             /\ charges' = Append(charges, charge)
             /\ remaining' = IF remaining = Unlimited THEN remaining
                             ELSE remaining - InternalCost(charge)
             /\ answer' = IF c # Main THEN answer ELSE IF result THEN Len(charges') ELSE 0
             /\ first' = IF c = Main /\ result /\ first = 0 THEN Len(charges') ELSE first
    BY <1>2, Recorded
  <2> DEFINE charge == [equivalence |-> running[c].equivalence, usage |-> u,
                        by |-> c, result |-> result]
  <2>2. charge \in Charge /\ charges' = Append(charges, charge)
    BY <2>1
  <2>3. InternalCost(charge) \in Nat
    BY <2>2, CostsAreNat
  <2>4. remaining' \in Int \cup {Unlimited}
    BY <2>1, <2>3 DEF TypeOK
  <2>5. /\ charges' \in Seq(Charge) /\ Len(charges') = Len(charges) + 1 /\ Len(charges) \in Nat
    <3> HIDE DEF charge
    <3> QED  BY <2>2, ChargesType
  <2>6. answer' \in 0..Len(charges') /\ first' \in 0..Len(charges') /\ input' \in 0..Len(charges')
    BY <1>2, <2>1, <2>5 DEF TypeOK, Record
  <2>7. /\ DOMAIN running' = DOMAIN running \ {c}
        /\ \A d \in DOMAIN running' : running'[d] = running[d]
    BY <1>2, Ended DEF Record
  <2>8. /\ DOMAIN running' \subseteq Callers
        /\ Range(running') \subseteq [equivalence : Equivalences, limit : Tokens]
    BY <2>7 DEF TypeOK, Range
  <2>9. UNCHANGED <<grant, phase, report, calls>>
    BY <1>2 DEF Record
  <2> QED  BY <2>4, <2>5, <2>6, <2>8, <2>9 DEF TypeOK, Charge
<1>3. ASSUME NEW c \in Callers, Unreported(c) PROVE TypeOK'
  <2>1. /\ DOMAIN running' = DOMAIN running \ {c}
        /\ \A d \in DOMAIN running' : running'[d] = running[d]
    BY <1>3, Ended DEF Unreported
  <2>2. /\ DOMAIN running' \subseteq Callers
        /\ Range(running') \subseteq [equivalence : Equivalences, limit : Tokens]
    BY <2>1 DEF TypeOK, Range
  <2>3. answer' \in 0..Len(charges)
    BY <1>3, ChargesType DEF Unreported, TypeOK
  <2> QED  BY <1>3, <2>2, <2>3 DEF TypeOK, Unreported
<1>4. ASSUME NEW p \in {"between", "exhausted", "failed"}, EndTurnIn(p) PROVE TypeOK'
  <2>1. UNCHANGED <<grant, remaining, charges, running, answer, report, calls>>
    BY <1>4 DEF EndTurnIn
  <2>2. input' \in 0..Len(charges) /\ first' \in 0..Len(charges)
    BY <1>4, ChargesType DEF EndTurnIn, Anchor, TypeOK
  <2>3. phase' \in {"turn", "between", "exhausted", "finished", "failed"}
    BY <1>4 DEF EndTurnIn
  <2> QED  BY <2>1, <2>2, <2>3 DEF TypeOK
<1>5. CASE NextTurn
  BY <1>5, ChargesType DEF TypeOK, NextTurn
<1>6. CASE Finish
  <2>1. report' \in Seq(Usage) /\ Len(report') <= 1
    BY <1>6, ReportType DEF Finish
  <2>2. remaining' \in Int \cup {Unlimited}
    <3>1. Output \in 0..Len(charges)
      BY ChargesType DEF TypeOK, Output
    <3>2. Reclassified \in Int
      BY <3>1, ChargesType, CostsAreNat DEF Reclassified
    <3> QED  BY <1>6, <3>2 DEF Finish, TypeOK
  <2> QED  BY <1>6, <2>1, <2>2 DEF TypeOK, Finish
<1>7. CASE Over \/ UNCHANGED vars
  BY <1>7 DEF Over, vars, TypeOK
<1> QED
  BY <1>1, <1>2, <1>3, <1>4, <1>5, <1>6, <1>7 DEF Next, EndTurn, Exhausted, TurnFails

-----------------------------------------------------------------------------
(* The balance.                                                            *)

\* A function on 1..n is a sequence of n elements.
LEMMA SequenceMade ==
    ASSUME NEW n \in Nat, NEW S, NEW f, f = [i \in 1..n |-> f[i]], \A i \in 1..n : f[i] \in S
    PROVE  f \in Seq(S) /\ Len(f) = n
OBVIOUS

\* Two sequences of one length with the same elements are one.
LEMMA SequencesEqual ==
    ASSUME NEW n \in Nat, NEW S, NEW a \in Seq(S), NEW b \in Seq(S), Len(a) = n, Len(b) = n,
           \A i \in 1..n : a[i] = b[i]
    PROVE  a = b
OBVIOUS

\* The internal costs of the charged calls are whole numbers, none below zero.
LEMMA CostsType ==
    ASSUME TypeOK
    PROVE  /\ Costs \in Seq(Int) /\ Len(Costs) = Len(charges) /\ Total(Costs) \in Nat
           /\ \A i \in 1..Len(charges) : Costs[i] = InternalCost(charges[i])
<1>1. \A i \in 1..Len(charges) : Costs[i] = InternalCost(charges[i]) /\ Costs[i] \in Nat
  BY ChargesType, CostsAreNat DEF Costs
<1>2. DOMAIN Costs = 1..Len(charges) /\ Len(charges) \in Nat
  BY ChargesType DEF Costs
<1>3. Costs \in Seq(Nat) /\ Len(Costs) = Len(charges)
  BY <1>1, <1>2, SequenceMade DEF Costs
<1>4. Costs \in Seq(Int)
  BY <1>3
<1> QED  BY <1>1, <1>3, <1>4, TotalNat

\* Before it is finished, the budget has the grant less the charges: each
\* record takes from it what it adds to them.
LEMMA BalancedStep ==
    ASSUME TypeOK, TypeOK', Balanced, [Next]_vars
    PROVE  Balanced'
<1> USE BudgetAssumption DEF BudgetAssumption
<1>1. ASSUME NEW c \in Callers, Record(c) PROVE Balanced'
  <2>1. PICK u \in Usages(running[c].limit), result \in BOOLEAN :
          LET charge == [equivalence |-> running[c].equivalence, usage |-> u,
                         by |-> c, result |-> result]
          IN /\ charge \in Charge
             /\ charges' = Append(charges, charge)
             /\ remaining' = IF remaining = Unlimited THEN remaining
                             ELSE remaining - InternalCost(charge)
    BY <1>1, Recorded
  <2> DEFINE charge == [equivalence |-> running[c].equivalence, usage |-> u,
                        by |-> c, result |-> result]
  <2>2. /\ charge \in Charge /\ charges' = Append(charges, charge)
        /\ remaining' = IF remaining = Unlimited THEN remaining
                        ELSE remaining - InternalCost(charge)
    BY <2>1
  <2> HIDE DEF charge
  <2>3. InternalCost(charge) \in Int
    BY <2>2, CostsAreNat
  <2>4. Costs' = Append(Costs, InternalCost(charge))
    <3>1. /\ charges \in Seq(Charge) /\ Len(charges) \in Nat
          /\ charges' \in Seq(Charge) /\ Len(charges') = Len(charges) + 1
          /\ \A i \in 1..Len(charges') :
                charges'[i] = IF i = Len(charges) + 1 THEN charge ELSE charges[i]
      BY <2>2, ChargesType
    <3>2. /\ DOMAIN Costs' = 1..(Len(charges) + 1)
          /\ \A i \in 1..(Len(charges) + 1) : Costs'[i] = InternalCost(charges'[i])
      BY <3>1 DEF Costs
    <3>3. Append(Costs, InternalCost(charge)) \in Seq(Int)
      BY <2>3, CostsType
    <3>4. /\ Len(Append(Costs, InternalCost(charge))) = Len(charges) + 1
          /\ \A i \in 1..(Len(charges) + 1) : Append(Costs, InternalCost(charge))[i]
                = IF i = Len(charges) + 1 THEN InternalCost(charge) ELSE Costs[i]
      BY <2>3, <3>1, CostsType
    <3>5. \A i \in 1..(Len(charges) + 1) : Costs'[i] = Append(Costs, InternalCost(charge))[i]
      BY <3>1, <3>2, <3>4, CostsType
    <3>6. Costs' \in Seq(Int) /\ Len(Costs') = Len(charges) + 1
      <4>1. \A i \in 1..(Len(charges) + 1) : Costs'[i] \in Int
        BY <3>1, <3>2, CostsAreNat
      <4>2. Costs' = [i \in 1..(Len(charges) + 1) |-> Costs'[i]]
        BY <3>2 DEF Costs
      <4>3. Len(charges) + 1 \in Nat
        BY <3>1
      <4> QED  BY <4>1, <4>2, <4>3, SequenceMade
    <3>7. Len(charges) + 1 \in Nat
      BY <3>1
    <3> HIDE DEF Costs
    <3> QED  BY <3>3, <3>4, <3>5, <3>6, <3>7, SequencesEqual
  <2>5. Total(Costs') = Total(Costs) + InternalCost(charge)
    BY <2>3, <2>4, CostsType, TotalAppend
  <2>6. grant' = grant /\ phase' = phase
    BY <1>1 DEF Record
  <2>7. grant # Unlimited => grant \in Int /\ remaining \in Int
    BY DEF TypeOK, Tokens, Balanced
  <2> QED  BY <2>2, <2>3, <2>5, <2>6, <2>7, CostsType DEF Balanced
<1>2. ASSUME UNCHANGED <<grant, charges>>,
             \/ UNCHANGED <<remaining, phase>>
             \/ phase # "finished" /\ remaining' = remaining
             \/ Finish
      PROVE  Balanced'
  <2>1. Costs' = Costs
    BY <1>2 DEF Costs
  <2>2. Reclassified \in Int
    <3>1. Output \in 0..Len(charges)
      BY ChargesType DEF TypeOK, Output
    <3> QED  BY <3>1, ChargesType, CostsAreNat DEF Reclassified
  <2>3. remaining # Unlimited => remaining \in Int
    BY DEF TypeOK, Tokens
  <2>4. grant' = Unlimited <=> remaining' = Unlimited
    BY <1>2, <2>2, <2>3 DEF Balanced, Finish
  <2>5. remaining' # Unlimited /\ phase' # "finished" => remaining' = grant' - Total(Costs')
    BY <1>2, <2>1 DEF Balanced, Finish
  <2> QED  BY <2>4, <2>5 DEF Balanced
<1>3. ASSUME NEW c \in Callers, Start(c) \/ Unreported(c) PROVE Balanced'
  BY <1>2, <1>3 DEF Start, Unreported
<1>4. ASSUME NEW p, EndTurnIn(p) PROVE Balanced'
  BY <1>2, <1>4 DEF EndTurnIn
<1>5. CASE NextTurn
  BY <1>2, <1>5 DEF NextTurn
<1>6. CASE Finish
  BY <1>2, <1>6 DEF Finish
<1>7. CASE Over \/ UNCHANGED vars
  BY <1>2, <1>7 DEF Over, vars
<1> QED
  BY <1>1, <1>3, <1>4, <1>5, <1>6, <1>7 DEF Next, EndTurn, Exhausted, TurnFails

-----------------------------------------------------------------------------
(* The anchor and the report.                                              *)

\* Main's results are kept, and a new one comes after them.
LEMMA ResultsStep ==
    ASSUME TypeOK, NEW charge, charges' = Append(charges, charge)
    PROVE  /\ Len(charges') = Len(charges) + 1
           /\ \A i \in 1..Len(charges) : charges'[i] = charges[i]
           /\ MainResults \subseteq 1..Len(charges)
           /\ MainResults' = MainResults \cup
                (IF charge.by = Main /\ charge.result THEN {Len(charges) + 1} ELSE {})
<1>1. /\ charges \in Seq(Charge) /\ DOMAIN charges = 1..Len(charges) /\ Len(charges) \in Nat
  BY ChargesType
<1>2. /\ Len(charges') = Len(charges) + 1 /\ DOMAIN charges' = 1..(Len(charges) + 1)
      /\ \A i \in 1..Len(charges) : charges'[i] = charges[i]
      /\ charges'[Len(charges) + 1] = charge
  BY <1>1
<1>3. MainResults' = {i \in 1..(Len(charges) + 1) : charges'[i].by = Main /\ charges'[i].result}
  BY <1>2 DEF MainResults
<1>4. MainResults = {i \in 1..Len(charges) : charges[i].by = Main /\ charges[i].result}
  BY <1>1 DEF MainResults
<1>5. \A i : i \in 1..(Len(charges) + 1) <=> i \in 1..Len(charges) \/ i = Len(charges) + 1
  BY <1>1
<1> QED  BY <1>2, <1>3, <1>4, <1>5

\* The anchor is main's first result, whoever reports when.
LEMMA AnchoredStep ==
    ASSUME TypeOK, TypeOK', Anchored, [Next]_vars
    PROVE  Anchored'
<1>1. ASSUME NEW c \in Callers, Record(c) PROVE Anchored'
  <2>1. PICK u \in Usages(running[c].limit), result \in BOOLEAN :
          LET charge == [equivalence |-> running[c].equivalence, usage |-> u,
                         by |-> c, result |-> result]
          IN /\ charge \in Charge
             /\ charges' = Append(charges, charge)
             /\ first' = IF c = Main /\ result /\ first = 0 THEN Len(charges') ELSE first
    BY <1>1, Recorded
  <2> DEFINE charge == [equivalence |-> running[c].equivalence, usage |-> u,
                        by |-> c, result |-> result]
  <2>2. /\ charges' = Append(charges, charge) /\ charge.by = c /\ charge.result = result
        /\ first' = IF c = Main /\ result /\ first = 0 THEN Len(charges') ELSE first
    BY <2>1
  <2> HIDE DEF charge
  <2>3. /\ Len(charges') = Len(charges) + 1 /\ Len(charges) \in Nat
        /\ MainResults \subseteq 1..Len(charges)
        /\ MainResults' = MainResults \cup
             (IF c = Main /\ result THEN {Len(charges) + 1} ELSE {})
    BY <2>2, ResultsStep, ChargesType
  <2>4. /\ input' = input /\ phase' = phase /\ c \in DOMAIN running
        /\ DOMAIN running' = DOMAIN running \ {c}
    BY <1>1, Ended DEF Record
  <2>5. ASSUME NEW i, Leads(i) PROVE Leads(i)'
    BY <2>3, <2>5 DEF Leads
  <2>6. phase' # "turn" => first' = 0 /\ Main \notin DOMAIN running'
    BY <2>2, <2>4 DEF Anchored
  <2>7. input' # 0 => Leads(input)'
    BY <2>4, <2>5 DEF Anchored, Leads
  <2>8. input' = 0 /\ first' # 0 => Leads(first)'
    <3>1. CASE first # 0
      BY <2>2, <2>4, <2>5, <3>1 DEF Anchored, Leads
    <3>2. CASE first = 0
      BY <2>2, <2>3, <2>4, <3>2 DEF Anchored, Leads
    <3> QED  BY <3>1, <3>2
  <2>9. input' = 0 /\ first' = 0 => MainResults' = {}
    <3>1. CASE c = Main /\ result
      <4>1. first' # 0
        BY <2>2, <2>3, <3>1
      <4> QED  BY <4>1
    <3>2. CASE ~(c = Main /\ result)
      <4>1. MainResults' = MainResults /\ first' = first
        BY <2>2, <2>3, <3>2
      <4> QED  BY <2>4, <4>1 DEF Anchored
    <3> QED  BY <3>1, <3>2
  <2> QED  BY <2>6, <2>7, <2>8, <2>9 DEF Anchored
<1>2. ASSUME UNCHANGED <<charges, input, first>>,
             phase' # "turn" =>
                phase # "turn" /\ (Main \in DOMAIN running' => Main \in DOMAIN running)
      PROVE  Anchored'
  BY <1>2 DEF Anchored, Leads, MainResults
<1>3. ASSUME NEW c \in Callers, Start(c) PROVE Anchored'
  <2>1. DOMAIN running' = DOMAIN running \cup {c}
    BY <1>3, Started
  <2>2. phase = "turn" \/ c # Main
    BY <1>3, BudgetAssumption DEF Start, MayCall, BudgetAssumption
  <2>3. UNCHANGED <<charges, input, first, phase>>
    BY <1>3 DEF Start
  <2> QED  BY <1>2, <2>1, <2>2, <2>3
<1>4. ASSUME NEW c \in Callers, Unreported(c) PROVE Anchored'
  <2>1. DOMAIN running' = DOMAIN running \ {c}
    BY <1>4, Ended DEF Unreported
  <2>2. UNCHANGED <<charges, input, first, phase>>
    BY <1>4 DEF Unreported
  <2> QED  BY <1>2, <2>1, <2>2
<1>5. ASSUME NEW p \in {"between", "exhausted", "failed"}, EndTurnIn(p) PROVE Anchored'
  BY <1>5 DEF Anchored, EndTurnIn, Anchor, Leads, MainResults
<1>6. CASE NextTurn
  BY <1>2, <1>6 DEF NextTurn
<1>7. CASE Finish
  BY <1>2, <1>7 DEF Finish
<1>8. CASE Over \/ UNCHANGED vars
  BY <1>8 DEF Over, vars, Anchored, Leads, MainResults
<1> QED
  BY <1>1, <1>3, <1>4, <1>5, <1>6, <1>7, <1>8 DEF Next, EndTurn, Exhausted, TurnFails

\* The report has the input of main's first result; later charges are the
\* helpers'.
LEMMA ReportsStep ==
    ASSUME TypeOK, Anchored, Reports, [Next]_vars
    PROVE  Reports'
<1>1. ASSUME NEW c \in Callers, Record(c) PROVE Reports'
  <2>1. PICK u \in Usages(running[c].limit), result \in BOOLEAN :
          LET charge == [equivalence |-> running[c].equivalence, usage |-> u,
                         by |-> c, result |-> result]
          IN charges' = Append(charges, charge)
    BY <1>1, Recorded
  <2> DEFINE charge == [equivalence |-> running[c].equivalence, usage |-> u,
                        by |-> c, result |-> result]
  <2>2. charges' = Append(charges, charge) /\ charge.by = c
    BY <2>1
  <2> HIDE DEF charge
  <2>3. /\ \A i \in 1..Len(charges) : charges'[i] = charges[i]
        /\ c # Main => MainResults' = MainResults
    BY <2>2, ResultsStep
  <2>4. UNCHANGED <<phase, input, report>> /\ c \in DOMAIN running
    BY <1>1 DEF Record
  <2>5. input # 0 => input \in 1..Len(charges)
    BY ChargesType DEF TypeOK
  <2>6. phase = "finished" => c # Main
    BY <2>4 DEF Anchored
  <2> QED  BY <2>3, <2>4, <2>5, <2>6 DEF Reports
<1>2. CASE Finish
  <2> SUFFICES ASSUME MainResults # {}
               PROVE  /\ report' # <<>> /\ input # 0
                      /\ Head(report').input = charges[input].usage.input
    BY <1>2 DEF Finish, Reports, MainResults
  <2>1. input # 0
    BY <1>2 DEF Finish, Anchored
  <2>2. charges # <<>>
    BY ChargesType DEF MainResults
  <2>3. \E v, w : report' = <<[input |-> charges[input].usage.input, cached |-> Cached(charges[input].usage),
                        output |-> v, reasoning |-> w]>>
    BY <1>2, <2>1, <2>2 DEF Finish, BuildUsage
  <2> QED  BY <2>1, <2>3
<1>3. ASSUME UNCHANGED <<charges, input, report>> \/ phase' # "finished",
             phase' = "finished" => phase = "finished"
      PROVE  Reports'
  BY <1>3 DEF Reports, MainResults
<1>4. ASSUME NEW c \in Callers, Start(c) \/ Unreported(c) PROVE Reports'
  BY <1>3, <1>4 DEF Start, Unreported
<1>5. ASSUME NEW p \in {"between", "exhausted", "failed"}, EndTurnIn(p) PROVE Reports'
  BY <1>3, <1>5 DEF EndTurnIn
<1>6. CASE NextTurn
  BY <1>3, <1>6 DEF NextTurn
<1>7. CASE Over \/ UNCHANGED vars
  BY <1>3, <1>7 DEF Over, vars
<1> QED
  BY <1>1, <1>2, <1>4, <1>5, <1>6, <1>7 DEF Next, EndTurn, Exhausted, TurnFails

-----------------------------------------------------------------------------
(* The overdraft.                                                          *)

\* What is left is never more than the grant until the budget is finished.
LEMMA WithinGrant ==
    ASSUME TypeOK, Balanced, remaining # Unlimited
    PROVE  /\ remaining \in Int /\ grant \in Nat
           /\ phase # "finished" => remaining <= grant
<1>1. remaining \in Int /\ grant \in Nat
  BY DEF TypeOK, Balanced, Tokens
<1>2. phase # "finished" => remaining <= grant
  BY <1>1, CostsType DEF Balanced
<1> QED  BY <1>1, <1>2

\* The grant pays for what any running completion may put out.
LEMMA LimitsStep ==
    ASSUME TypeOK, Balanced, LimitsKept, [Next]_vars
    PROVE  LimitsKept'
<1> USE BudgetAssumption DEF BudgetAssumption
<1>1. ASSUME NEW c \in Callers, Start(c) PROVE LimitsKept'
  <2>1. PICK e \in Equivalences, cap \in Caps :
          /\ Limit(e, cap) # 0
          /\ DOMAIN running' = DOMAIN running \cup {c} /\ c \notin DOMAIN running
          /\ running'[c] = [equivalence |-> e, limit |-> Limit(e, cap)]
          /\ \A d \in DOMAIN running : running'[d] = running[d]
    BY <1>1, Started
  <2>2. UNCHANGED <<grant, remaining>> /\ phase # "finished"
    BY <1>1 DEF Start, MayCall
  <2> SUFFICES ASSUME remaining # Unlimited, NEW d \in DOMAIN running'
               PROVE  running'[d].limit # Unlimited /\ Pays(grant, d)'
    BY <2>2 DEF LimitsKept
  <2>3. CASE d = c
    <3>1. /\ Limit(e, cap) \in Tokens /\ Limit(e, cap) # Unlimited
          /\ e.output * Limit(e, cap) <= remaining * Scale
      BY <2>1, StartedLimit
    <3>2. remaining \in Int /\ grant \in Int /\ remaining <= grant
      BY <2>2, WithinGrant
    <3>3. remaining * Scale <= grant * Scale /\ remaining * Scale \in Int /\ grant * Scale \in Int
      BY <3>2
    <3>4. e.output * Limit(e, cap) \in Int
      BY <3>1, Rates DEF Tokens
    <3>5. running'[d].limit = Limit(e, cap) /\ running'[d].equivalence = e
      BY <2>1, <2>3
    <3> QED  BY <2>2, <3>1, <3>3, <3>4, <3>5 DEF Pays
  <2>4. CASE d # c
    BY <2>1, <2>2, <2>4 DEF LimitsKept, Pays
  <2> QED  BY <2>3, <2>4
<1>2. ASSUME grant' = grant, remaining' # Unlimited => remaining # Unlimited,
             DOMAIN running' \subseteq DOMAIN running,
             \A d \in DOMAIN running' : running'[d] = running[d]
      PROVE  LimitsKept'
  BY <1>2 DEF LimitsKept, Pays
<1>3. ASSUME NEW c \in Callers, Record(c) \/ Unreported(c) PROVE LimitsKept'
  <2>1. /\ DOMAIN running' = DOMAIN running \ {c}
        /\ \A d \in DOMAIN running' : running'[d] = running[d]
    BY <1>3, Ended DEF Record, Unreported
  <2> QED  BY <1>2, <1>3, <2>1 DEF Record, Unreported
<1>4. ASSUME UNCHANGED <<grant, running>>, remaining' # Unlimited => remaining # Unlimited
      PROVE  LimitsKept'
  BY <1>2, <1>4
<1>5. ASSUME NEW p, EndTurnIn(p) PROVE LimitsKept'
  BY <1>4, <1>5 DEF EndTurnIn
<1>6. CASE NextTurn
  BY <1>4, <1>6 DEF NextTurn
<1>7. CASE Finish
  BY <1>4, <1>7 DEF Finish
<1>8. CASE Over \/ UNCHANGED vars
  BY <1>4, <1>8 DEF Over, vars
<1> QED
  BY <1>1, <1>3, <1>5, <1>6, <1>7, <1>8 DEF Next, EndTurn, Exhausted, TurnFails

\* The numbers of the slack, and of callers.
LEMMA SlackType ==
    ASSUME TypeOK, Balanced, remaining # Unlimited
    PROVE  /\ remaining \in Int /\ grant \in Nat /\ InputCost \in Nat
           /\ Cardinality(Helpers) \in Nat /\ Slack \in Int
           /\ IsFiniteSet(DOMAIN running) /\ Cardinality(DOMAIN running) \in Nat
           /\ Cardinality(DOMAIN running) <= 1 + Cardinality(Helpers)
           /\ DOMAIN running # {} => Cardinality(DOMAIN running) >= 1
<1> USE BudgetAssumption DEF BudgetAssumption
<1>1. remaining \in Int /\ grant \in Nat /\ InputCost \in Nat
  BY WithinGrant, InputCostBounds
<1>2. Cardinality(Helpers) \in Nat
  BY FS_CardinalityType
<1>3. IsFiniteSet(Callers) /\ Cardinality(Callers) = 1 + Cardinality(Helpers)
  <2>1. Callers = Helpers \cup {Main} /\ Main \notin Helpers
    BY DEF Callers
  <2> QED  BY <1>2, <2>1, FS_AddElement
<1>4. /\ IsFiniteSet(DOMAIN running)
      /\ Cardinality(DOMAIN running) <= Cardinality(Callers)
  BY <1>3, FS_Subset DEF TypeOK
<1>5. Cardinality(DOMAIN running) \in Nat /\ (DOMAIN running # {} => Cardinality(DOMAIN running) # 0)
  BY <1>4, FS_CardinalityType, FS_EmptySet
<1>6. Slack \in Int
  BY <1>1, <1>2 DEF Slack
<1> QED  BY <1>1, <1>2, <1>3, <1>4, <1>5, <1>6

\* Products with the number of completions: one fewer, and at most all others.
LEMMA OneFewer ==
    ASSUME NEW k \in Nat \ {0}, NEW x \in Nat
    PROVE  (k - 1) * x \in Nat /\ ((k - 1) - 1) * x = (k - 1) * x - x
OBVIOUS

\* A completion that ends at a cost which any balance that pays for its output
\* covers leaves the others their slack.
LEMMA EndedSlack ==
    ASSUME TypeOK, Balanced, LimitsKept, SlackKept,
           NEW c \in DOMAIN running, running' = Restrict(running, DOMAIN running \ {c}),
           grant' = grant, NEW cost \in Nat, remaining' = remaining - cost,
           remaining # Unlimited, ReasoningRate <= Scale,
           \A b \in 0..grant : Pays(b, c) => cost <= b + InputCost
    PROVE  SlackKept'
<1> DEFINE K == Cardinality(DOMAIN running)
           x == grant + InputCost
<1>1. /\ remaining \in Int /\ grant \in Nat /\ InputCost \in Nat
      /\ Cardinality(Helpers) \in Nat /\ Slack \in Int
      /\ IsFiniteSet(DOMAIN running) /\ K \in Nat \ {0} /\ x \in Nat
  BY SlackType
<1>2. /\ DOMAIN running' = DOMAIN running \ {c}
      /\ \A d \in DOMAIN running' : running'[d] = running[d]
  BY Ended
<1>3. Cardinality(DOMAIN running') = K - 1
  <2> PICK S : S = DOMAIN running
    OBVIOUS
  <2>1. IsFiniteSet(S) /\ c \in S /\ DOMAIN running' = S \ {c}
    BY <1>1, <1>2
  <2>2. Cardinality(S \ {c}) = Cardinality(S) - 1
    BY <2>1, FS_RemoveElement
  <2> QED  BY <2>1, <2>2
<1>4. Slack' = Slack - cost
  BY <1>1 DEF Slack, InputCost
<1>5. InputCost' = InputCost /\ \A b, d : d \in DOMAIN running' => (Pays(b, d)' <=> Pays(b, d))
  BY <1>2 DEF InputCost, Pays
<1>6. PICK w \in DOMAIN running, b \in 0..grant :
        Pays(b, w) /\ Slack >= (K - 1) * x + (b + InputCost)
  BY DEF SlackKept
<1>7. (K - 1) * x \in Nat /\ ((K - 1) - 1) * x = (K - 1) * x - x
  BY <1>1, OneFewer
<1> HIDE DEF K, x
<1>8. CASE w = c
  <2>1. Slack' >= (K - 1) * x
    BY <1>1, <1>4, <1>6, <1>7, <1>8
  <2>2. CASE DOMAIN running' = {}
    BY <1>1, <1>4, <1>7, <2>1, <2>2 DEF SlackKept
  <2>3. CASE DOMAIN running' # {}
    <3>1. PICK d \in DOMAIN running' : TRUE
      BY <2>3
    <3>2. Pays(grant, d)'
      BY <1>2, <1>5, <3>1 DEF LimitsKept, Pays
    <3>3. Slack' >= ((K - 1) - 1) * x + x
      BY <1>1, <1>4, <1>7, <2>1
    <3>4. Slack' >= (Cardinality(DOMAIN running') - 1) * (grant' + InputCost') + (grant + InputCost')
      BY <1>3, <1>5, <3>3 DEF x
    <3>5. grant \in 0..grant'
      BY <1>1
    <3> QED  BY <2>3, <3>2, <3>4, <3>5 DEF SlackKept
  <2> QED  BY <2>2, <2>3
<1>9. CASE w # c
  <2>1. w \in DOMAIN running' /\ Pays(b, w)'
    BY <1>2, <1>5, <1>6, <1>9
  <2>2. cost <= x
    <3>1. Pays(grant, c) /\ grant \in 0..grant
      BY <1>1 DEF LimitsKept
    <3> QED  BY <3>1 DEF x
  <2>3. Slack' >= ((K - 1) - 1) * x + (b + InputCost)
    BY <1>1, <1>4, <1>6, <1>7, <2>2
  <2>4. Slack' >= (Cardinality(DOMAIN running') - 1) * (grant' + InputCost') + (b + InputCost')
    BY <1>3, <1>5, <2>3 DEF x
  <2> QED  BY <2>1, <2>4 DEF SlackKept
<1> QED  BY <1>8, <1>9

\* A new completion takes what is left, the others at most the grant each.
LEMMA StartedSlack ==
    ASSUME TypeOK, TypeOK', Balanced, NEW c \in Callers, Start(c),
           remaining # Unlimited, ReasoningRate <= Scale
    PROVE  SlackKept'
<1> DEFINE K == Cardinality(DOMAIN running)
           h == Cardinality(Helpers)
           x == grant + InputCost
<1>1. PICK e \in Equivalences, cap \in Caps :
        /\ Limit(e, cap) # 0
        /\ DOMAIN running' = DOMAIN running \cup {c} /\ c \notin DOMAIN running
        /\ running'[c] = [equivalence |-> e, limit |-> Limit(e, cap)]
  BY Started
<1>2. UNCHANGED <<grant, remaining, charges, phase>> /\ phase # "finished"
  BY DEF Start, MayCall
<1>3. /\ remaining \in Int /\ grant \in Nat /\ InputCost \in Nat /\ h \in Nat
      /\ IsFiniteSet(DOMAIN running) /\ K \in Nat /\ x \in Nat
  BY SlackType
<1>4. Cardinality(DOMAIN running') = K + 1
  BY <1>1, <1>3, FS_AddElement
<1>5. K <= h
  <2>1. IsFiniteSet(Callers) /\ Cardinality(Callers) = 1 + h
    <3>1. Callers = Helpers \cup {Main} /\ Main \notin Helpers /\ IsFiniteSet(Helpers)
      BY BudgetAssumption DEF Callers, BudgetAssumption
    <3> QED  BY <1>3, <3>1, FS_AddElement
  <2>2. Cardinality(DOMAIN running') <= Cardinality(Callers)
    BY <2>1, FS_Subset DEF TypeOK
  <2> QED  BY <1>3, <1>4, <2>1, <2>2
<1>6. InputCost' = InputCost
  BY DEF InputCost
<1>7. /\ remaining \in Nat \ {0} /\ remaining <= grant
      /\ e.output * Limit(e, cap) <= remaining * Scale
  BY <1>1, <1>2, StartedLimit, WithinGrant
<1>8. PICK b \in Nat : b = remaining
  BY <1>7
<1>9. b \in 0..grant' /\ Pays(b, c)'
  BY <1>1, <1>2, <1>3, <1>7, <1>8 DEF Pays
<1>10. Slack' = b + (h * x + InputCost)
  BY <1>2, <1>3, <1>6, <1>8 DEF Slack
<1> HIDE DEF K, h, x
<1>11. K * x <= h * x /\ K * x \in Int /\ h * x \in Int
  BY <1>3, <1>5
<1>12. Slack' >= ((K + 1) - 1) * x + (b + InputCost)
  <2>1. (K + 1) - 1 = K
    BY <1>3
  <2> QED  BY <1>3, <1>8, <1>10, <1>11, <2>1
<1>13. Slack' >= (Cardinality(DOMAIN running') - 1) * (grant' + InputCost') + (b + InputCost')
  BY <1>2, <1>4, <1>6, <1>12 DEF x
<1>14. c \in DOMAIN running' /\ DOMAIN running' # {}
  BY <1>1
<1> QED  BY <1>9, <1>13, <1>14 DEF SlackKept

\* The costs of the running completions never exceed the slack.
LEMMA SlackStep ==
    ASSUME TypeOK, TypeOK', Balanced, LimitsKept, SlackKept, [Next]_vars
    PROVE  SlackKept'
<1> USE BudgetAssumption DEF BudgetAssumption
<1> SUFFICES ASSUME remaining' # Unlimited, ReasoningRate <= Scale PROVE SlackKept'
  BY DEF SlackKept
<1>1. ASSUME NEW c \in Callers, Start(c) PROVE SlackKept'
  BY <1>1, StartedSlack DEF Start
<1>2. ASSUME NEW c \in Callers, Record(c) PROVE SlackKept'
  <2>1. PICK u \in Usages(running[c].limit), result \in BOOLEAN :
          LET charge == [equivalence |-> running[c].equivalence, usage |-> u,
                         by |-> c, result |-> result]
          IN /\ charge \in Charge
             /\ remaining' = IF remaining = Unlimited THEN remaining
                             ELSE remaining - InternalCost(charge)
             /\ u.input \in Inputs /\ u.reasoning <= u.output /\ u.output \in Nat
             /\ running[c].limit # Unlimited => u.output <= running[c].limit
    BY <1>2, Recorded
  <2> DEFINE charge == [equivalence |-> running[c].equivalence, usage |-> u,
                        by |-> c, result |-> result]
  <2>2. /\ charge \in Charge /\ charge.usage = u /\ charge.equivalence = running[c].equivalence
        /\ remaining' = IF remaining = Unlimited THEN remaining
                        ELSE remaining - InternalCost(charge)
    BY <2>1
  <2> HIDE DEF charge
  <2>3. /\ c \in DOMAIN running /\ grant' = grant /\ remaining # Unlimited
        /\ running' = Restrict(running, DOMAIN running \ {c})
    BY <1>2, <2>2 DEF Record
  <2>4. /\ running[c].limit # Unlimited /\ running[c].limit \in Nat
        /\ running[c].equivalence.output \in Nat
    BY <2>3, RunningType, Rates DEF LimitsKept, Tokens
  <2>5. grant \in Nat
    BY <2>3, WithinGrant
  <2>6. ASSUME NEW b \in 0..grant, Pays(b, c) PROVE InternalCost(charge) <= b + InputCost
    <3> DEFINE rate == running[c].equivalence.output
               limit == running[c].limit
    <3>1. b \in Nat /\ u.output \in Nat /\ u.output <= limit
      BY <2>1, <2>4, <2>5
    <3>2. rate * u.output <= rate * limit
      BY <2>4, <3>1
    <3>3. rate * limit <= b * Scale
      BY <2>6 DEF Pays
    <3>4. rate * u.output <= b * Scale
      <4>1. rate * u.output \in Int /\ rate * limit \in Int /\ b * Scale \in Int
        BY <2>4, <3>1
      <4> HIDE DEF rate, limit
      <4> QED  BY <3>2, <3>3, <4>1
    <3> QED  BY <2>1, <2>2, <3>1, <3>4, CostBounded
  <2>7. InternalCost(charge) \in Nat
    BY <2>2, CostsAreNat
  <2> QED  BY <2>2, <2>3, <2>6, <2>7, EndedSlack
<1>3. ASSUME NEW c \in Callers, Unreported(c) PROVE SlackKept'
  <2>1. /\ c \in DOMAIN running /\ grant' = grant /\ remaining' = remaining
        /\ running' = Restrict(running, DOMAIN running \ {c})
    BY <1>3 DEF Unreported
  <2>2. remaining \in Int /\ grant \in Nat /\ InputCost \in Nat
    BY <2>1, WithinGrant, InputCostBounds
  <2>3. remaining' = remaining - 0 /\ \A b \in 0..grant : 0 <= b + InputCost
    BY <2>1, <2>2
  <2> QED  BY <2>1, <2>3, EndedSlack
<1>4. ASSUME UNCHANGED <<grant, running>>, remaining # Unlimited,
             NEW back \in Nat, remaining' = remaining + back
      PROVE  SlackKept'
  <2>1. InputCost' = InputCost /\ \A b, c : Pays(b, c)' <=> Pays(b, c)
    BY <1>4 DEF InputCost, Pays
  <2>2. Slack \in Int /\ Slack' = Slack + back
    BY <1>4, <2>1, SlackType DEF Slack
  <2>3. CASE DOMAIN running = {}
    BY <1>4, <2>2, <2>3 DEF SlackKept
  <2>4. CASE DOMAIN running # {}
    <3>1. PICK c \in DOMAIN running, b \in 0..grant :
            /\ Pays(b, c)
            /\ Slack >= (Cardinality(DOMAIN running) - 1) * (grant + InputCost) + (b + InputCost)
      BY <1>4, <2>4 DEF SlackKept
    <3>2. (Cardinality(DOMAIN running) - 1) * (grant + InputCost) + (b + InputCost) \in Int
      BY <1>4, SlackType
    <3>3. Slack' >= (Cardinality(DOMAIN running') - 1) * (grant' + InputCost') + (b + InputCost')
      BY <1>4, <2>1, <2>2, <3>1, <3>2
    <3>4. c \in DOMAIN running' /\ b \in 0..grant' /\ Pays(b, c)'
      BY <1>4, <2>1, <3>1
    <3> QED  BY <1>4, <2>4, <3>3, <3>4 DEF SlackKept
  <2> QED  BY <2>3, <2>4
<1>5. ASSUME UNCHANGED <<grant, running, remaining>> PROVE SlackKept'
  <2>1. remaining' = remaining + 0
    BY <1>5, WithinGrant
  <2> QED  BY <1>4, <1>5, <2>1
<1>6. ASSUME NEW p, EndTurnIn(p) PROVE SlackKept'
  BY <1>5, <1>6 DEF EndTurnIn
<1>7. CASE NextTurn
  BY <1>5, <1>7 DEF NextTurn
<1>8. CASE Finish
  <2>1. Reclassified \in Nat
    <3>1. Output \in 0..Len(charges)
      BY ChargesType DEF TypeOK, Output
    <3> QED  BY <3>1, ChargesType, CostsAreNat DEF Reclassified
  <2>2. UNCHANGED <<grant, running>> /\ remaining # Unlimited /\ remaining' = remaining + Reclassified
    BY <1>8 DEF Finish
  <2> QED  BY <1>4, <2>1, <2>2
<1>9. CASE Over \/ UNCHANGED vars
  BY <1>5, <1>9 DEF Over, vars
<1> QED
  BY <1>1, <1>2, <1>3, <1>6, <1>7, <1>8, <1>9 DEF Next, EndTurn, Exhausted, TurnFails

-----------------------------------------------------------------------------
(* Theorems.                                                               *)

\* A budget that nothing was charged to satisfies the invariant.
LEMMA InitIInv == Init => IInv
<1> SUFFICES ASSUME Init PROVE IInv
  OBVIOUS
<1> USE BudgetAssumption DEF BudgetAssumption
<1>1. TypeOK
  BY TypeInit
<1>2. Anchored /\ Reports /\ LimitsKept
  BY DEF Init, Anchored, Reports, LimitsKept, Leads, MainResults
<1>3. Balanced
  <2>1. Costs = <<>>
    BY DEF Init, Costs
  <2>2. Total(Costs) = 0
    BY <2>1, TotalEmpty
  <2> QED  BY <1>1, <2>2 DEF Init, Balanced, TypeOK, Tokens
<1>4. SlackKept
  <2> SUFFICES ASSUME remaining # Unlimited PROVE DOMAIN running = {} /\ Slack >= 0
    BY DEF SlackKept
  <2>1. /\ remaining \in Nat /\ grant \in Nat /\ InputCost \in Nat /\ Cardinality(Helpers) \in Nat
    BY <1>1, <1>3, SlackType DEF Init
  <2>2. Cardinality(Helpers) * grant \in Nat /\ (1 + Cardinality(Helpers)) * InputCost \in Nat
    BY <2>1
  <2>3. Slack >= 0
    BY <2>1, <2>2 DEF Slack
  <2> QED  BY <2>3 DEF Init
<1> QED  BY <1>1, <1>2, <1>3, <1>4 DEF IInv

\* IInv is inductive.
THEOREM Invariance == Spec => []IInv
<1>1. Init => IInv
  BY InitIInv
<1>2. IInv /\ [Next]_vars => IInv'
  <2> SUFFICES ASSUME IInv, [Next]_vars PROVE IInv'
    OBVIOUS
  <2>1. TypeOK'
    BY TypeStep DEF IInv
  <2> QED  BY <2>1, BalancedStep, AnchoredStep, ReportsStep, LimitsStep, SlackStep DEF IInv
<1> QED  BY <1>1, <1>2, PTL DEF Spec

\* TypeOK for any rates: whatever is charged and given back, the report has
\* no negative count.
THEOREM TypeCorrect == Spec => []TypeOK
<1>1. IInv => TypeOK
  BY DEF IInv
<1> QED  BY <1>1, Invariance, PTL

\* OverdraftBounded for any number of helpers, grant, rates and inputs.
THEOREM Overdraft == Spec => []OverdraftBounded
<1>1. IInv => OverdraftBounded
  <2> SUFFICES ASSUME IInv, remaining # Unlimited, ReasoningRate <= Scale
               PROVE  remaining >= -(((1 + Cardinality(Helpers)) - 1) * grant
                                        + (1 + Cardinality(Helpers)) * InputCost)
    BY DEF OverdraftBounded
  <2>1. /\ remaining \in Int /\ grant \in Nat /\ InputCost \in Nat
        /\ Cardinality(Helpers) \in Nat /\ Slack \in Int
        /\ Cardinality(DOMAIN running) \in Nat
        /\ DOMAIN running # {} => Cardinality(DOMAIN running) >= 1
    BY SlackType DEF IInv
  <2>2. Slack >= 0
    <3>1. CASE DOMAIN running = {}
      BY <3>1 DEF IInv, SlackKept
    <3>2. CASE DOMAIN running # {}
      <4>1. PICK c \in DOMAIN running, b \in 0..grant :
              Slack >= (Cardinality(DOMAIN running) - 1) * (grant + InputCost) + (b + InputCost)
        BY <3>2 DEF IInv, SlackKept
      <4>2. (Cardinality(DOMAIN running) - 1) * (grant + InputCost) \in Nat
        BY <2>1, <3>2, OneFewer
      <4> QED  BY <2>1, <4>1, <4>2
    <3> QED  BY <3>1, <3>2
  <2>3. (1 + Cardinality(Helpers)) - 1 = Cardinality(Helpers)
    BY <2>1
  <2> QED  BY <2>1, <2>2, <2>3 DEF Slack
<1> QED  BY <1>1, Invariance, PTL

\* AnchoredOnFirst for any interleaving of turns and helpers.
THEOREM AnchorIsFirst == Spec => []AnchoredOnFirst
<1>1. IInv => AnchoredOnFirst
  <2> SUFFICES ASSUME IInv, phase = "finished", MainResults # {}
               PROVE  Head(report).input = charges[Min(MainResults)].usage.input
    BY DEF AnchoredOnFirst
  <2>1. input # 0 /\ Leads(input)
    BY DEF IInv, Reports, Anchored
  <2>2. \A i \in MainResults : i \in Nat
    BY ChargesType DEF IInv, MainResults
  <2>3. Min(MainResults) = input
    <3>1. \A i \in MainResults : (\A j \in MainResults : i <= j) => i = input
      BY <2>1, <2>2 DEF Leads
    <3> QED  BY <2>1, <3>1 DEF Leads, Min
  <2> QED  BY <2>3 DEF IInv, Reports
<1> QED  BY <1>1, Invariance, PTL

\* finish reports what the budget was charged, once the answer's input is
\* given back.
LEMMA NormalizedIsCharged ==
    ASSUME IInv, Finish, remaining # Unlimited
    PROVE  Normalized = grant - remaining'
<1> DEFINE costs == [i \in DOMAIN charges |->
              IF i = Output THEN OutputCost(charges[i]) ELSE InternalCost(charges[i])]
<1>1. TypeOK /\ Balanced /\ phase # "finished"
  BY DEF IInv, Finish
<1>2. /\ DOMAIN charges = 1..Len(charges) /\ Len(charges) \in Nat
      /\ \A i \in 1..Len(charges) : OutputCost(charges[i]) \in Int /\ InternalCost(charges[i]) \in Int
  BY <1>1, ChargesType, CostsAreNat
<1>3. /\ Costs \in Seq(Int) /\ Len(Costs) = Len(charges) /\ Total(Costs) \in Int
      /\ \A i \in 1..Len(charges) : Costs[i] = InternalCost(charges[i])
  BY <1>1, CostsType
<1>4. /\ costs \in Seq(Int) /\ Len(costs) = Len(charges)
      /\ \A i \in 1..Len(charges) : costs[i] =
            IF i = Output THEN OutputCost(charges[i]) ELSE InternalCost(charges[i])
  <2>1. \A i \in 1..Len(charges) : costs[i] \in Int
    BY <1>2
  <2> QED  BY <1>2, <2>1, SequenceMade
<1>5. Normalized = Total(costs)
  BY DEF Normalized
<1>6. grant \in Int /\ remaining = grant - Total(Costs) /\ remaining' = remaining + Reclassified
  BY <1>1, WithinGrant DEF Balanced, Finish
<1> HIDE DEF costs
<1>7. CASE Output = 0
  <2>1. costs = Costs
    BY <1>2, <1>7 DEF costs, Costs
  <2>2. Reclassified = 0
    BY <1>7 DEF Reclassified
  <2> QED  BY <1>3, <1>5, <1>6, <2>1, <2>2
<1>8. CASE Output # 0
  <2>1. Output \in 1..Len(charges)
    BY <1>1, <1>2, <1>8 DEF TypeOK, Output
  <2>2. Total(costs) = Total(Costs) + (costs[Output] - Costs[Output])
    BY <1>3, <1>4, <2>1, TotalChange
  <2>3. Reclassified = InternalCost(charges[Output]) - OutputCost(charges[Output])
    BY <1>8 DEF Reclassified
  <2>4. /\ costs[Output] = OutputCost(charges[Output])
        /\ Costs[Output] = InternalCost(charges[Output])
        /\ OutputCost(charges[Output]) \in Int /\ InternalCost(charges[Output]) \in Int
    BY <1>2, <1>3, <1>4, <2>1
  <2>5. PICK a \in Int, b \in Int : a = OutputCost(charges[Output]) /\ b = InternalCost(charges[Output])
    BY <2>4
  <2>6. Reclassified = b - a /\ Total(costs) = Total(Costs) + (a - b)
    BY <2>2, <2>3, <2>4, <2>5
  <2> QED  BY <1>3, <1>5, <1>6, <2>6
<1> QED  BY <1>7, <1>8

\* ReportAgrees for any rates and any number of charges: the client is shown
\* what the budget lost.
THEOREM ReportShowsCharges == Spec => ReportAgrees
<1> DEFINE Agrees == phase' = "finished" /\ phase # "finished" /\ grant # Unlimited /\ report' # <<>> =>
        LET u == Head(report')
        IN u.output = Greater(u.output - u.reasoning, grant - remaining')
<1>1. IInv /\ [Next]_vars => [Agrees]_vars
  <2> SUFFICES ASSUME IInv, Next, phase' = "finished", phase # "finished",
                      grant # Unlimited, report' # <<>>
               PROVE  Head(report').output
                        = Greater(Head(report').output - Head(report').reasoning, grant - remaining')
    OBVIOUS
  <2>1. Finish
    BY DEF Next, Start, Record, Unreported, EndTurn, Exhausted, TurnFails, EndTurnIn, NextTurn,
           Over, vars
  <2>2. remaining # Unlimited /\ TypeOK
    BY DEF IInv, Balanced
  <2> DEFINE visible == IF Output = 0 THEN 0 ELSE VisibleTokens(charges[Output].usage)
             output == Greater(visible, grant - remaining')
  <2>3. report' = BuildUsage /\ charges # <<>>
    BY <2>1 DEF Finish, BuildUsage
  <2>4. \E v, w : report' = <<[input |-> v, cached |-> w,
                               output |-> output, reasoning |-> output - visible]>>
    BY <2>1, <2>2, <2>3, NormalizedIsCharged DEF BuildUsage, Reported
  <2>5. visible \in Int
    <3>1. Output \in 0..Len(charges)
      BY <2>2, ChargesType DEF TypeOK, Output
    <3> QED  BY <2>2, <3>1, ChargesType, OutputCounts
  <2>6. grant - remaining' \in Int
    <3>1. grant \in Int /\ remaining' \in Int \cup {Unlimited} /\ remaining' # Unlimited
      <4>1. TypeOK' /\ Balanced'
        BY <2>2, TypeStep, BalancedStep DEF IInv
      <4>2. grant' = grant
        BY <2>1 DEF Finish
      <4>3. remaining # Unlimited
        BY <2>2
      <4>4. grant \in Int /\ grant # Unlimited
        BY <2>2, <4>3, WithinGrant DEF Balanced, IInv
      <4> QED  BY <4>1, <4>2, <4>4 DEF TypeOK, Balanced, Tokens
    <3> QED  BY <3>1
  <2>7. output \in Int
    BY <2>5, <2>6 DEF Greater
  <2> HIDE DEF visible
  <2>8. Head(report').output = output /\ Head(report').reasoning = output - visible
    BY <2>4
  <2>9. output - (output - visible) = visible
    BY <2>5, <2>7
  <2> QED  BY <2>8, <2>9
<1> QED  BY <1>1, Invariance, PTL DEF Spec, ReportAgrees
=============================================================================
