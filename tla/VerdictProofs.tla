--------------------------- MODULE VerdictProofs ----------------------------
(***************************************************************************)
(* Proofs about Verdict, for any agents out of WEIGHTS, any integer an     *)
(* agent or the Verifier may answer, any signals and either way a half     *)
(* point is rounded: the arithmetic of the gate first, then the invariant  *)
(* and the properties of the runs.                                         *)
(***************************************************************************)
EXTENDS Verdict, FiniteSetTheorems, TLAPS

-----------------------------------------------------------------------------
(* Rounding *)

\* Division, as the lemmas below use it.
LEMMA Division ==
  ASSUME NEW num \in Int, NEW den \in Nat \ {0}
  PROVE  /\ num \div den \in Int /\ num % den \in 0 .. den - 1
         /\ num = den * (num \div den) + (num % den)
  OBVIOUS

\* round() is within half a point of the quotient.
LEMMA RoundIsNear ==
  ASSUME NEW num \in Int, NEW den \in Nat \ {0}, NEW x
  PROVE  /\ Round(num, den, x) \in Int
         /\ 2 * (den * Round(num, den, x)) =< 2 * num + den
         /\ 2 * (den * Round(num, den, x)) >= 2 * num - den
<1> DEFINE q == num \div den
           r == num % den
<1>1. q \in Int /\ r \in 0 .. den - 1 /\ num = den * q + r
  BY Division
<1>2. den * (q + 1) = den * q + den
  BY <1>1
<1>3. CASE Round(num, den, x) = q /\ 2 * r =< den
  BY <1>1, <1>3
<1>4. CASE Round(num, den, x) = q + 1 /\ 2 * r >= den
  BY <1>1, <1>2, <1>4
<1>5. QED
  BY <1>1, <1>3, <1>4 DEF Round

\* A quotient between two integers is rounded to something between them.
LEMMA RoundIsBetween ==
  ASSUME NEW num \in Int, NEW den \in Nat \ {0}, NEW x,
         NEW lo \in Int, NEW hi \in Int,
         den * lo =< num, num =< den * hi
  PROVE  Round(num, den, x) \in lo .. hi
<1> DEFINE n == Round(num, den, x)
<1>1. n \in Int /\ 2 * (den * n) =< 2 * num + den /\ 2 * (den * n) >= 2 * num - den
  BY RoundIsNear
<1>2. ASSUME n < lo PROVE FALSE
  <2>1. den * n =< den * lo - den
    BY <1>1, <1>2
  <2>2. QED
    BY <1>1, <2>1
<1>3. ASSUME n > hi PROVE FALSE
  <2>1. den * n >= den * hi + den
    BY <1>1, <1>3
  <2>2. QED
    BY <1>1, <2>1
<1>4. QED
  BY <1>1, <1>2, <1>3

\* A share of at most 100 % is rounded to a percentage.
LEMMA RoundIsPercentage ==
  ASSUME NEW num \in Int, NEW den \in Nat \ {0}, NEW x,
         0 =< num, num =< 100 * den
  PROVE  Round(num, den, x) \in 0 .. 100
<1> DEFINE n == Round(num, den, x)
<1>1. n \in Int /\ 2 * (den * n) =< 2 * num + den /\ 2 * (den * n) >= 2 * num - den
  BY RoundIsNear
<1>2. ASSUME n < 0 PROVE FALSE
  <2>1. den * n =< -den
    BY <1>1, <1>2
  <2>2. QED
    BY <1>1, <2>1
<1>3. ASSUME n > 100 PROVE FALSE
  <2>1. den * n >= 101 * den
    BY <1>1, <1>3
  <2>2. QED
    BY <1>1, <2>1
<1>4. QED
  BY <1>1, <1>2, <1>3

\* Rounding over one denominator is monotone, when equal quotients are rounded
\* alike.
LEMMA RoundIsMonotone ==
  ASSUME NEW m \in Int, NEW n \in Int, NEW den \in Nat \ {0}, NEW x, NEW y,
         m =< n, m = n => x = y
  PROVE  Round(m, den, x) =< Round(n, den, y)
<1> DEFINE a == Round(m, den, x)
           b == Round(n, den, y)
<1>1. /\ a \in Int /\ 2 * (den * a) =< 2 * m + den
      /\ b \in Int /\ 2 * (den * b) >= 2 * n - den
  BY RoundIsNear
<1>2. CASE m = n
  BY <1>1, <1>2
<1>3. ASSUME m < n, a > b PROVE FALSE
  <2>1. den * a >= den * b + den
    BY <1>1, <1>3
  <2>2. QED
    BY <1>1, <1>3, <2>1
<1>4. QED
  BY <1>1, <1>2, <1>3

-----------------------------------------------------------------------------
(* The weighted mean *)

LEMMA Names ==
  /\ AgentNames = {"problem", "solution", "tam", "team", "moat", "unit_economics",
                   "gtm", "risk", "timing", "ask", "yc_signal", "lovers_test"}
  /\ \A a \in AgentNames : WEIGHTS[a] \in 80 .. 120
  BY DEF AgentNames, WEIGHTS

\* A sum over the agents grows with its terms, and with any one of them.
LEMMA TotalIsMonotone ==
  ASSUME NEW f \in [AgentNames -> Int], NEW g \in [AgentNames -> Int],
         \A a \in AgentNames : f[a] =< g[a]
  PROVE  /\ Total(f) \in Int /\ Total(g) \in Int
         /\ Total(f) =< Total(g)
         /\ Total(f) = Total(g) => \A a \in AgentNames : f[a] = g[a]
<1>1. /\ f["problem"] \in Int /\ f["solution"] \in Int /\ f["tam"] \in Int
      /\ f["team"] \in Int /\ f["moat"] \in Int /\ f["unit_economics"] \in Int
      /\ f["gtm"] \in Int /\ f["risk"] \in Int /\ f["timing"] \in Int
      /\ f["ask"] \in Int /\ f["yc_signal"] \in Int /\ f["lovers_test"] \in Int
  BY Names
<1>2. /\ g["problem"] \in Int /\ g["solution"] \in Int /\ g["tam"] \in Int
      /\ g["team"] \in Int /\ g["moat"] \in Int /\ g["unit_economics"] \in Int
      /\ g["gtm"] \in Int /\ g["risk"] \in Int /\ g["timing"] \in Int
      /\ g["ask"] \in Int /\ g["yc_signal"] \in Int /\ g["lovers_test"] \in Int
  BY Names
<1>3. /\ f["problem"] =< g["problem"] /\ f["solution"] =< g["solution"]
      /\ f["tam"] =< g["tam"] /\ f["team"] =< g["team"] /\ f["moat"] =< g["moat"]
      /\ f["unit_economics"] =< g["unit_economics"] /\ f["gtm"] =< g["gtm"]
      /\ f["risk"] =< g["risk"] /\ f["timing"] =< g["timing"]
      /\ f["ask"] =< g["ask"] /\ f["yc_signal"] =< g["yc_signal"]
      /\ f["lovers_test"] =< g["lovers_test"]
  BY Names
<1>4. Total(f) \in Int /\ Total(g) \in Int
  BY <1>1, <1>2 DEF Total
<1>5. Total(f) =< Total(g)
  BY <1>1, <1>2, <1>3 DEF Total
<1>6. ASSUME Total(f) = Total(g), NEW a \in AgentNames
      PROVE  f[a] = g[a]
  <2>1. /\ f["problem"] = g["problem"] /\ f["solution"] = g["solution"]
        /\ f["tam"] = g["tam"] /\ f["team"] = g["team"] /\ f["moat"] = g["moat"]
        /\ f["unit_economics"] = g["unit_economics"] /\ f["gtm"] = g["gtm"]
        /\ f["risk"] = g["risk"] /\ f["timing"] = g["timing"]
        /\ f["ask"] = g["ask"] /\ f["yc_signal"] = g["yc_signal"]
        /\ f["lovers_test"] = g["lovers_test"]
    BY <1>1, <1>2, <1>3, <1>6 DEF Total
  <2>2. QED
    BY <2>1, Names
<1>7. QED
  BY <1>4, <1>5, <1>6

LEMMA SumScales ==
  ASSUME NEW k \in Int, NEW n1 \in Int, NEW n2 \in Int, NEW n3 \in Int, NEW n4 \in Int
  PROVE  k * n1 + k * n2 + k * n3 + k * n4 = k * (n1 + n2 + n3 + n4)
<1>1. k * (n1 + n2) = k * n1 + k * n2 /\ k * (n3 + n4) = k * n3 + k * n4
  OBVIOUS
<1>2. k * (n1 + n2 + n3 + n4) = k * (n1 + n2) + k * (n3 + n4)
  OBVIOUS
<1>3. QED
  BY <1>1, <1>2

LEMMA TotalScales ==
  ASSUME NEW f \in [AgentNames -> Int], NEW k \in Int
  PROVE  Total([a \in AgentNames |-> k * f[a]]) = k * Total(f)
<1> DEFINE g == [a \in AgentNames |-> k * f[a]]
<1>1. /\ f["problem"] \in Int /\ f["solution"] \in Int /\ f["tam"] \in Int
      /\ f["team"] \in Int /\ f["moat"] \in Int /\ f["unit_economics"] \in Int
      /\ f["gtm"] \in Int /\ f["risk"] \in Int /\ f["timing"] \in Int
      /\ f["ask"] \in Int /\ f["yc_signal"] \in Int /\ f["lovers_test"] \in Int
  BY Names
<1>2. /\ g["problem"] = k * f["problem"] /\ g["solution"] = k * f["solution"]
      /\ g["tam"] = k * f["tam"] /\ g["team"] = k * f["team"]
      /\ g["moat"] = k * f["moat"] /\ g["gtm"] = k * f["gtm"]
      /\ g["unit_economics"] = k * f["unit_economics"]
      /\ g["risk"] = k * f["risk"] /\ g["timing"] = k * f["timing"]
      /\ g["ask"] = k * f["ask"] /\ g["yc_signal"] = k * f["yc_signal"]
      /\ g["lovers_test"] = k * f["lovers_test"]
  BY Names
<1> HIDE DEF g
<1> DEFINE b == f["problem"] + f["solution"] + f["tam"] + f["team"]
           c == f["moat"] + f["unit_economics"] + f["gtm"] + f["risk"]
           d == f["timing"] + f["ask"] + f["yc_signal"] + f["lovers_test"]
<1>3. /\ b \in Int /\ g["problem"] + g["solution"] + g["tam"] + g["team"] = k * b
      /\ c \in Int /\ g["moat"] + g["unit_economics"] + g["gtm"] + g["risk"] = k * c
      /\ d \in Int /\ g["timing"] + g["ask"] + g["yc_signal"] + g["lovers_test"] = k * d
  BY <1>1, <1>2, SumScales
<1>4. Total(f) = b + c + d
  BY <1>1 DEF Total
<1>5. Total(g) = k * b + k * c + k * d
  <2>1. \A a \in AgentNames : g[a] \in Int
    BY DEF g
  <2>2. QED
    BY <1>1, <1>2, <1>3 DEF Total
<1> HIDE DEF b, c, d
<1>6. k * (b + c + d) = k * b + k * c + k * d
  BY <1>3
<1>7. QED
  BY <1>4, <1>5, <1>6 DEF g

\* The terms of the two sums of aggregate_results.
Weights(s) == [a \in AgentNames |-> IF a \in DOMAIN s THEN WEIGHTS[a] ELSE 0]
Terms(s) == [a \in AgentNames |-> IF a \in DOMAIN s THEN WEIGHTS[a] * s[a] ELSE 0]

\* Some agents out of WEIGHTS and what they answered, any integers.
ScoreMap(s) == s \in [DOMAIN s -> Int] /\ DOMAIN s \subseteq AgentNames

LEMMA TermsType ==
  ASSUME NEW s, ScoreMap(s)
  PROVE  Weights(s) \in [AgentNames -> Nat] /\ Terms(s) \in [AgentNames -> Int]
<1>1. ASSUME NEW a \in DOMAIN s PROVE WEIGHTS[a] * s[a] \in Int
  BY Names DEF ScoreMap
<1>2. QED
  BY <1>1, Names DEF Weights, Terms

LEMMA TotalsType ==
  ASSUME NEW s, ScoreMap(s)
  PROVE  /\ WeightTotal(s) = Total(Weights(s)) /\ WeightedSum(s) = Total(Terms(s))
         /\ WeightTotal(s) \in Nat /\ WeightedSum(s) \in Int
         /\ DOMAIN s # {} => WeightTotal(s) > 0
<1> DEFINE none == [a \in AgentNames |-> 0]
<1>1. WeightTotal(s) = Total(Weights(s)) /\ WeightedSum(s) = Total(Terms(s))
  BY DEF WeightTotal, WeightedSum, Weights, Terms
<1>2. Total(none) = 0
  BY Names DEF Total
<1>3. Total(Weights(s)) \in Int /\ Total(none) =< Total(Weights(s))
  <2>1. \A a \in AgentNames : none[a] =< Weights(s)[a]
    BY TermsType
  <2>2. none \in [AgentNames -> Int] /\ Weights(s) \in [AgentNames -> Int]
    BY TermsType
  <2>3. QED
    BY <2>1, <2>2, TotalIsMonotone
<1>4. Total(Terms(s)) \in Int
  BY TermsType, TotalIsMonotone
<1>5. ASSUME DOMAIN s # {} PROVE Total(none) # Total(Weights(s))
  <2>1. PICK a \in DOMAIN s : TRUE
    BY <1>5
  <2>2. a \in AgentNames /\ Weights(s)[a] # none[a]
    BY Names DEF ScoreMap, Weights
  <2>3. QED
    BY <2>2, TermsType, TotalIsMonotone
<1>6. QED
  BY <1>1, <1>2, <1>3, <1>4, <1>5

LEMMA ClampType ==
  ASSUME NEW lo \in Int, NEW hi \in Int, NEW n \in Int, lo =< hi
  PROVE  Clamp(lo, hi, n) \in lo .. hi
  BY DEF Clamp

\* The score is a percentage, whatever integers the agents answered.
LEMMA AggregateType ==
  ASSUME NEW s, ScoreMap(s)
  PROVE  Aggregate(s) \in 0 .. 100
<1> DEFINE den == WeightTotal(s)
           num == Clamp(0, 100 * den, 10 * WeightedSum(s))
<1>1. CASE DOMAIN s = {}
  BY <1>1 DEF Aggregate
<1>2. CASE DOMAIN s # {}
  <2>1. den \in Nat \ {0} /\ WeightedSum(s) \in Int
    BY <1>2, TotalsType
  <2>2. num \in 0 .. 100 * den
    <3>1. 100 * den \in Nat /\ 10 * WeightedSum(s) \in Int
      BY <2>1
    <3>2. QED
      BY <3>1, ClampType
  <2>3. num \in Int /\ 0 =< num /\ num =< 100 * den
    BY <2>1, <2>2
  <2>4. Round(num, den, s) \in 0 .. 100
    BY <2>1, <2>3, RoundIsPercentage
  <2>5. QED
    BY <1>2, <2>4 DEF Aggregate
<1>3. QED
  BY <1>1, <1>2

\* More from every agent is not a lower score.
LEMMA AggregateIsMonotone ==
  ASSUME NEW s, NEW t, ScoreMap(s), ScoreMap(t), NoneLower(s, t)
  PROVE  Aggregate(s) =< Aggregate(t)
<1> DEFINE den == WeightTotal(s)
           m == 10 * WeightedSum(s)
           n == 10 * WeightedSum(t)
<1>1. DOMAIN s = DOMAIN t
  BY DEF NoneLower
<1>2. CASE DOMAIN s = {}
  BY <1>1, <1>2 DEF Aggregate
<1>3. CASE DOMAIN s # {}
  <2>1. WeightTotal(t) = den
    BY <1>1, TotalsType DEF Weights
  <2>2. den \in Nat \ {0} /\ m \in Int /\ n \in Int
    BY <1>3, TotalsType
  <2>3. \A a \in DOMAIN s : WEIGHTS[a] * s[a] =< WEIGHTS[a] * t[a]
    <3>1. SUFFICES ASSUME NEW a \in DOMAIN s
                   PROVE  WEIGHTS[a] * s[a] =< WEIGHTS[a] * t[a]
      OBVIOUS
    <3>2. WEIGHTS[a] \in Nat /\ s[a] \in Int /\ t[a] \in Int /\ s[a] =< t[a]
      BY <1>1, Names DEF ScoreMap, NoneLower
    <3>3. QED
      BY <3>2
  <2>4. \A a \in AgentNames : Terms(s)[a] =< Terms(t)[a]
    BY <1>1, <2>3 DEF Terms
  <2>5. m =< n
    BY <2>4, TermsType, TotalIsMonotone, TotalsType
  <2>6. ASSUME m = n PROVE s = t
    <3>1. \A a \in AgentNames : Terms(s)[a] = Terms(t)[a]
      BY <2>4, <2>6, TermsType, TotalIsMonotone, TotalsType
    <3>2. \A a \in DOMAIN s : s[a] = t[a]
      <4>1. SUFFICES ASSUME NEW a \in DOMAIN s
                     PROVE  s[a] = t[a]
        OBVIOUS
      <4>2. WEIGHTS[a] \in 80 .. 120 /\ s[a] \in Int /\ t[a] \in Int
        BY <1>1, Names DEF ScoreMap
      <4>3. WEIGHTS[a] * s[a] = WEIGHTS[a] * t[a]
        BY <1>1, <3>1 DEF Terms, ScoreMap
      <4>4. QED
        BY <4>2, <4>3
    <3>3. s = [a \in DOMAIN s |-> s[a]] /\ t = [a \in DOMAIN s |-> t[a]]
      BY <1>1 DEF ScoreMap
    <3>4. QED
      BY <3>2, <3>3
  <2>7. /\ Aggregate(s) = Round(Clamp(0, 100 * den, m), den, s)
        /\ Aggregate(t) = Round(Clamp(0, 100 * den, n), den, t)
    BY <1>1, <1>3, <2>1 DEF Aggregate
  <2> HIDE DEF den, m, n
  <2>8. CASE m =< 0
    <3>1. Clamp(0, 100 * den, m) = 0
      BY <2>2, <2>8 DEF Clamp
    <3>2. Aggregate(s) = 0
      <4>1. 0 % den = 0 /\ 0 \div den = 0
        BY <2>2
      <4>2. QED
        BY <2>2, <2>7, <3>1, <4>1 DEF Round
    <3>3. QED
      BY <3>2, AggregateType
  <2>9. CASE n >= 100 * den
    <3>1. Clamp(0, 100 * den, n) = 100 * den
      BY <2>2, <2>9 DEF Clamp
    <3>2. Aggregate(t) = 100
      <4>1. (100 * den) % den = 0 /\ (100 * den) \div den = 100
        <5> DEFINE q == (100 * den) \div den
                   r == (100 * den) % den
        <5>1. q \in Int /\ r \in 0 .. den - 1 /\ 100 * den = den * q + r
          <6>1. 100 * den \in Int
            BY <2>2
          <6>2. QED
            BY <2>2, <6>1, Division
        <5> HIDE DEF q, r
        <5>2. ASSUME q >= 101 PROVE FALSE
          <6>1. den * q >= den * 101
            BY <2>2, <5>1, <5>2
          <6>2. QED
            BY <2>2, <5>1, <6>1
        <5>3. ASSUME q =< 99 PROVE FALSE
          <6>1. den * q =< den * 99
            BY <2>2, <5>1, <5>3
          <6>2. QED
            BY <2>2, <5>1, <6>1
        <5>4. q = 100
          BY <5>1, <5>2, <5>3
        <5>5. r = 0
          BY <2>2, <5>1, <5>4
        <5>6. QED
          BY <5>4, <5>5 DEF q, r
      <4>2. QED
        BY <2>2, <2>7, <3>1, <4>1 DEF Round
    <3>3. QED
      BY <3>2, AggregateType
  <2>10. CASE m > 0 /\ n < 100 * den
    <3>1. Clamp(0, 100 * den, m) = m /\ Clamp(0, 100 * den, n) = n
      BY <2>2, <2>5, <2>10 DEF Clamp
    <3>2. QED
      BY <2>2, <2>5, <2>6, <2>7, <3>1, RoundIsMonotone
  <2>11. QED
    BY <2>2, <2>8, <2>9, <2>10
<1>4. QED
  BY <1>2, <1>3

\* "The average is computed over whoever's actually present": the score lies
\* between ten times the lowest and ten times the highest answer, whichever
\* agents are absent.
THEOREM AbsentAgentsAreNeutral ==
  ASSUME NEW s, ScoreMap(s), DOMAIN s # {},
         NEW lo \in 0 .. 10, NEW hi \in 0 .. 10,
         \A a \in DOMAIN s : s[a] \in lo .. hi
  PROVE  Aggregate(s) \in 10 * lo .. 10 * hi
<1> DEFINE w == Weights(s)
           below == [a \in AgentNames |-> lo * w[a]]
           above == [a \in AgentNames |-> hi * w[a]]
           den == WeightTotal(s)
           sum == WeightedSum(s)
<1>1. \A a \in AgentNames : w[a] \in Nat
  BY TermsType
<1>2. below \in [AgentNames -> Int] /\ above \in [AgentNames -> Int]
  BY <1>1
<1>3. \A a \in AgentNames : below[a] =< Terms(s)[a] /\ Terms(s)[a] =< above[a]
  <2>1. SUFFICES ASSUME NEW a \in AgentNames
                 PROVE  below[a] =< Terms(s)[a] /\ Terms(s)[a] =< above[a]
    OBVIOUS
  <2>2. CASE a \notin DOMAIN s
    BY <2>2 DEF Weights, Terms
  <2>3. CASE a \in DOMAIN s
    <3>1. w[a] = WEIGHTS[a] /\ Terms(s)[a] = WEIGHTS[a] * s[a]
      BY <2>3 DEF Weights, Terms
    <3>2. WEIGHTS[a] \in Nat /\ s[a] \in Int /\ lo =< s[a] /\ s[a] =< hi
      BY <2>3, Names
    <3>3. lo * WEIGHTS[a] =< WEIGHTS[a] * s[a] /\ WEIGHTS[a] * s[a] =< hi * WEIGHTS[a]
      BY <3>2
    <3>4. QED
      BY <3>1, <3>3
  <2>4. QED
    BY <2>2, <2>3
<1>4. Total(below) = lo * Total(w) /\ Total(above) = hi * Total(w)
  BY TermsType, TotalScales
<1>5. Total(below) =< sum /\ sum =< Total(above)
  BY <1>2, <1>3, TermsType, TotalIsMonotone, TotalsType
<1>6. den \in Nat \ {0} /\ sum \in Int /\ den = Total(w)
  BY TotalsType
<1>7. den * (10 * lo) =< 10 * sum /\ 10 * sum =< den * (10 * hi)
  BY <1>4, <1>5, <1>6
<1>8. Clamp(0, 100 * den, 10 * sum) = 10 * sum
  <2>1. 0 =< den * (10 * lo) /\ den * (10 * hi) =< 100 * den
    BY <1>6
  <2>2. QED
    BY <1>6, <1>7, <2>1 DEF Clamp
<1>9. Aggregate(s) = Round(10 * sum, den, s)
  BY <1>8 DEF Aggregate
<1>10. 10 * lo \in Int /\ 10 * hi \in Int /\ 10 * sum \in Int
  BY <1>6
<1>11. Round(10 * sum, den, s) \in 10 * lo .. 10 * hi
  <2> DEFINE l == 10 * lo
             h == 10 * hi
             n == 10 * sum
  <2>1. l \in Int /\ h \in Int /\ n \in Int /\ den * l =< n /\ n =< den * h
    BY <1>7, <1>10
  <2> HIDE DEF l, h, n
  <2>2. Round(n, den, s) \in l .. h
    BY <1>6, <2>1, RoundIsBetween
  <2>3. QED
    BY <2>2 DEF l, h, n
<1>12. QED
  BY <1>9, <1>11

-----------------------------------------------------------------------------
(* The penalty and the verdict *)

LEMMA PenalisedType ==
  ASSUME NEW raw \in 0 .. 100, NEW c \in Int
  PROVE  Penalised(raw, c) \in 0 .. 100
<1> DEFINE p == raw * (70 + 3 * c)
           num == Clamp(0, 10000, p)
           x == [raw |-> raw, confidence |-> c]
<1>1. p \in Int
  OBVIOUS
<1>2. Penalised(raw, c) = Round(num, 100, x)
  BY DEF Penalised
<1> HIDE DEF p
<1>3. num \in Int /\ 0 =< num /\ num =< 100 * 100
  BY <1>1 DEF Clamp
<1> HIDE DEF num, x
<1>4. Round(num, 100, x) \in 0 .. 100
  <2> DEFINE den == 100
  <2>1. den \in Nat \ {0} /\ num =< 100 * den
    BY <1>3
  <2> HIDE DEF den
  <2>2. Round(num, den, x) \in 0 .. 100
    BY <1>3, <2>1, RoundIsPercentage
  <2>3. QED
    BY <2>2 DEF den
<1>5. QED
  BY <1>2, <1>4

\* apply_verifier_penalty, for a Verifier within its rubric: nothing is added
\* and at most 30 % taken, up to the rounding.
THEOREM PenaltyIsBounded ==
  ASSUME NEW raw \in 0 .. 100, NEW c \in 0 .. 10
  PROVE  /\ Penalised(raw, c) =< raw
         /\ 100 * Penalised(raw, c) >= 70 * raw - 50
<1> DEFINE num == raw * (70 + 3 * c)
           x == [raw |-> raw, confidence |-> c]
           n == Penalised(raw, c)
<1>1. num \in Int /\ 70 * raw =< num /\ num =< 100 * raw
  <2>1. 70 =< 70 + 3 * c /\ 70 + 3 * c =< 100
    OBVIOUS
  <2>2. raw * 70 =< num /\ num =< raw * 100
    BY <2>1
  <2>3. QED
    BY <2>2
<1>2. Penalised(raw, c) = Round(num, 100, x)
  BY <1>1 DEF Penalised, Clamp
<1> HIDE DEF num, x
<1>3. n \in Int /\ 2 * (100 * n) =< 2 * num + 100 /\ 2 * (100 * n) >= 2 * num - 100
  BY <1>1, <1>2, RoundIsNear
<1> HIDE DEF n
<1>5. n =< raw /\ 100 * n >= 70 * raw - 50
  BY <1>1, <1>3
<1>6. QED
  BY <1>5 DEF n

\* Within the rubric the penalty keeps the order of any two ideas: a better raw
\* score and no less confidence never end below, however halves are rounded.
THEOREM PenaltyKeepsOrder ==
  ASSUME NEW raw1 \in 0 .. 100, NEW raw2 \in 0 .. 100, raw1 =< raw2,
         NEW c1 \in 0 .. 10, NEW c2 \in 0 .. 10, c1 =< c2
  PROVE  Penalised(raw1, c1) =< Penalised(raw2, c2)
<1> DEFINE f1 == 70 + 3 * c1
           f2 == 70 + 3 * c2
           m == raw1 * f1
           mid == raw2 * f1
           n == raw2 * f2
<1>1. /\ f1 \in 70 .. 100 /\ f2 \in 70 .. 100 /\ f1 =< f2
      /\ f1 = f2 => c1 = c2
  OBVIOUS
<1>2. /\ Penalised(raw1, c1) = Round(Clamp(0, 10000, m), 100, [raw |-> raw1, confidence |-> c1])
      /\ Penalised(raw2, c2) = Round(Clamp(0, 10000, n), 100, [raw |-> raw2, confidence |-> c2])
  BY DEF Penalised
<1> HIDE DEF f1, f2
<1>3. m \in Int /\ mid \in Int /\ n \in Int
  BY <1>1
<1>4. m =< mid /\ mid =< n
  <2>1. m =< mid
    BY <1>1
  <2>2. mid =< n
    BY <1>1
  <2>3. QED
    BY <2>1, <2>2
<1>5. /\ raw1 < raw2 => m < mid
      /\ raw2 > 0 /\ f1 < f2 => mid < n
      /\ raw1 = 0 => m = 0
  <2>1. ASSUME raw1 < raw2 PROVE m < mid
    BY <1>1, <2>1
  <2>2. ASSUME raw2 > 0, f1 < f2 PROVE mid < n
    BY <1>1, <2>2
  <2>3. ASSUME raw1 = 0 PROVE m = 0
    BY <1>1, <2>3
  <2>4. QED
    BY <2>1, <2>2, <2>3
<1>6. m >= 0 /\ n =< 100 * f2
  <2>1. m >= 0
    BY <1>1
  <2>2. n =< 100 * f2
    BY <1>1
  <2>3. QED
    BY <2>1, <2>2
<1> HIDE DEF m, mid, n
<1>8. m \in Int /\ n \in Int /\ m >= 0 /\ m =< n /\ n =< 10000
  BY <1>1, <1>3, <1>4, <1>6
<1>10. Clamp(0, 10000, m) = m /\ Clamp(0, 10000, n) = n
  BY <1>8 DEF Clamp
<1>11. m = n => m = 0 \/ (raw1 = raw2 /\ c1 = c2)
  BY <1>1, <1>3, <1>4, <1>5
<1>7. CASE m = n /\ m = 0
  <2>1. \A x : Round(0, 100, x) = 0
    BY DEF Round
  <2>2. QED
    BY <1>2, <1>10, <1>7, <2>1
<1>9. CASE ~(m = n /\ m = 0)
  <2>1. m = n => [raw |-> raw1, confidence |-> c1] = [raw |-> raw2, confidence |-> c2]
    BY <1>11, <1>9
  <2> DEFINE x == [raw |-> raw1, confidence |-> c1]
             y == [raw |-> raw2, confidence |-> c2]
             den == 100
  <2>2. den \in Nat \ {0} /\ (m = n => x = y)
    BY <2>1
  <2>3. Penalised(raw1, c1) = Round(m, den, x) /\ Penalised(raw2, c2) = Round(n, den, y)
    BY <1>2, <1>10
  <2> HIDE DEF x, y, den
  <2>4. Round(m, den, x) =< Round(n, den, y)
    BY <1>8, <2>2, RoundIsMonotone
  <2>5. QED
    BY <2>3, <2>4
<1>12. QED
  BY <1>7, <1>9

LEMMA VerdictType ==
  ASSUME NEW score \in Int
  PROVE  VerdictFor(score) \in Verdicts
  BY DEF VerdictFor, Verdicts

\* A lower score is not a better verdict; an equal verdict is not a worse one.
LEMMA VerdictIsMonotone ==
  ASSUME NEW m \in Int, NEW n \in Int, m =< n
  PROVE  ~Worse(VerdictFor(n), VerdictFor(m))
  BY DEF Worse, VerdictFor, GO_THRESHOLD, PIVOT_THRESHOLD

LEMMA WorseIsOrder ==
  /\ \A v \in Verdicts : ~Worse(v, v)
  /\ \A v, w \in Verdicts : v = w \/ Worse(v, w) \/ Worse(w, v)
  /\ \A u, v, w \in Verdicts : ~Worse(u, v) /\ ~Worse(v, w) => ~Worse(u, w)
<1>1. \A v \in Verdicts : ~Worse(v, v)
  BY DEF Verdicts, Worse
<1>2. \A v, w \in Verdicts : v = w \/ Worse(v, w) \/ Worse(w, v)
  BY DEF Verdicts, Worse
<1>3. \A u, v, w \in Verdicts : ~Worse(u, v) /\ ~Worse(v, w) => ~Worse(u, w)
  BY DEF Verdicts, Worse
<1>4. QED
  BY <1>1, <1>2, <1>3

-----------------------------------------------------------------------------
(* The invariant *)

\* A snapshot's score aggregates its scores, and what it discloses is about its
\* signals: true of what is written and of what a re-run finds to carry forward.
Consistent(d) ==
  /\ d.raw = Aggregate(d.scores)
  /\ d.sources = DOMAIN d.signals
  /\ d.quality = ReportQuality(d.signals) /\ d.conflicts = Conflicts(d.signals)
  /\ IsFiniteSet(DOMAIN d.signals)

\* A report's verdict is that of its raw score, or of the penalised one; once
\* the Verifier has answered, its score and the flag are kept.
Gated ==
  LET d == report.snapshot
  IN  /\ stage = "none" => confidence = None
      /\ report.tier = IF d.raw >= PIVOT_THRESHOLD THEN 2 ELSE 1
      /\ report.low <=> LowConfidence(d.signals)
      /\ \/ d.verdict = VerdictFor(d.raw)
         \/ confidence # None /\ d.verdict = VerdictFor(Penalised(d.raw, confidence))
      /\ confidence # None => /\ d.adjusted = Penalised(d.raw, confidence)
                              /\ report.flips <=> Flips(d.raw, d.adjusted)

\* A report has the fields of a ReportDocument.
Shaped(r) ==
  LET d == r.snapshot
  IN  r = [snapshot |-> [scores |-> d.scores,
                         sources |-> d.sources, signals |-> d.signals,
                         quality |-> d.quality, conflicts |-> d.conflicts,
                         raw |-> d.raw, adjusted |-> d.adjusted,
                         verdict |-> d.verdict],
           gating |-> r.gating, flips |-> r.flips, low |-> r.low, tier |-> r.tier]

IInv ==
  /\ TypeOK
  /\ Shaped(report)
  /\ Consistent(report.snapshot) /\ Consistent(latest)
  /\ Gated

LEMMA ScoreMapsAreScoreMaps ==
  ASSUME NEW dims, dims \subseteq AgentNames, NEW s \in ScoreMaps(dims)
  PROVE  ScoreMap(s) /\ DOMAIN s \subseteq dims
  BY VerdictAssumption DEF ScoreMaps, ScoreMap

\* What _persist_report and record_snapshot build is well-typed.
LEMMA SnapshotType ==
  ASSUME NEW scores \in ScoreMaps(Agents), NEW signals, NEW verdict \in Verdicts,
         NEW adjusted \in 0 .. 100 \cup {None}, IsFiniteSet(DOMAIN signals)
  PROVE  LET d == Snapshot(scores, Said(signals), Aggregate(scores), adjusted, verdict)
         IN  SnapshotOK(d) /\ Consistent(d)
<1>1. Aggregate(scores) \in 0 .. 100
  BY VerdictAssumption, ScoreMapsAreScoreMaps, AggregateType
<1>2. QED
  BY <1>1 DEF Snapshot, Said, SnapshotOK, Consistent

LEMMA MergeType ==
  ASSUME NEW s \in ScoreMaps(Agents), NEW dims, NEW t \in ScoreMaps(Agents \cap dims)
  PROVE  Merge(s, t) \in ScoreMaps(Agents)
<1>1. /\ DOMAIN s \subseteq Agents /\ \A a \in DOMAIN s : s[a] \in Scores
      /\ DOMAIN t \subseteq Agents /\ \A a \in DOMAIN t : t[a] \in Scores
  BY DEF ScoreMaps
<1>2. Merge(s, t) \in [DOMAIN s \cup DOMAIN t -> Scores]
  BY <1>1 DEF Merge
<1>3. QED
  BY <1>1, <1>2 DEF ScoreMaps

LEMMA NoReportIsSound ==
  /\ SnapshotOK(NoReport.snapshot) /\ Consistent(NoReport.snapshot)
  /\ NoReport.gating = "raw" /\ NoReport.flips = FALSE /\ NoReport.tier = 1
  /\ NoReport.low \in BOOLEAN /\ NoReport.low = LowConfidence(NoReport.snapshot.signals)
  /\ NoReport.snapshot.verdict = VerdictFor(NoReport.snapshot.raw)
  /\ NoReport.snapshot.raw = 0
<1> DEFINE none == [a \in {} |-> 0]
<1>1. none \in ScoreMaps(Agents)
  <2>1. none \in [{} -> Scores]
    OBVIOUS
  <2>2. QED
    BY <2>1 DEF ScoreMaps
<1>2. Aggregate(none) = 0
  BY DEF Aggregate
<1>3. IsFiniteSet(DOMAIN NoSignals) /\ DOMAIN NoSignals = {}
  BY FS_EmptySet DEF NoSignals
<1>4. NoReport.snapshot = Snapshot(none, Said(NoSignals), Aggregate(none), None, "no-go")
  BY DEF NoReport, Report
<1>5. SnapshotOK(NoReport.snapshot) /\ Consistent(NoReport.snapshot)
  <2>1. None \in 0 .. 100 \cup {None} /\ "no-go" \in Verdicts
    BY DEF Verdicts
  <2>2. QED
    BY <1>1, <1>3, <1>4, <2>1, SnapshotType
<1>6. /\ NoReport.gating = "raw" /\ NoReport.flips = FALSE /\ NoReport.tier = 1
      /\ NoReport.low = LowConfidence(NoSignals)
  BY <1>2 DEF NoReport, Report, PIVOT_THRESHOLD
<1>7. /\ NoReport.snapshot.verdict = "no-go" /\ NoReport.snapshot.raw = 0
      /\ NoReport.snapshot.signals = NoSignals
  BY <1>2, <1>4 DEF Snapshot, Said
<1>8. VerdictFor(0) = "no-go"
  BY DEF VerdictFor, GO_THRESHOLD, PIVOT_THRESHOLD
<1>9. LowConfidence(NoSignals) \in BOOLEAN
  BY DEF LowConfidence
<1>10. QED
  BY <1>5, <1>6, <1>7, <1>8, <1>9

LEMMA InvariantInit == Init => IInv
<1> SUFFICES ASSUME Init
             PROVE  IInv
  OBVIOUS
<1>1. TypeOK
  BY NoReportIsSound DEF Init, TypeOK
<1>2. Consistent(report.snapshot) /\ Consistent(latest)
  BY NoReportIsSound DEF Init
<1>3. Gated
  BY NoReportIsSound DEF Init, Gated, PIVOT_THRESHOLD
<1>4. Shaped(report)
  BY DEF Init, Shaped, NoReport, Report, Snapshot
<1>5. QED
  BY <1>1, <1>2, <1>3, <1>4 DEF IInv

\* A report as either way of gating builds it, and what the Verifier has said,
\* keep the invariant.
LEMMA NewReportKeeps ==
  ASSUME IInv, stage' = "reported",
         blocking' = blocking, latest' = latest,
         NEW scores \in ScoreMaps(Agents), NEW signals \in Submitted,
         NEW adjusted \in 0 .. 100 \cup {None}, NEW verdict \in Verdicts,
         NEW gating \in {"raw", "adjusted"}, NEW flips \in BOOLEAN,
         report' = Report(scores, signals, adjusted, verdict, gating, flips),
         confidence' \in Confidences \cup {None},
         \/ verdict = VerdictFor(Aggregate(scores))
         \/ /\ confidence' # None
            /\ verdict = VerdictFor(Penalised(Aggregate(scores), confidence')),
         confidence' # None =>
           /\ adjusted = Penalised(Aggregate(scores), confidence')
           /\ flips <=> Flips(Aggregate(scores), adjusted)
  PROVE  IInv'
<1>0. PICK r : r = Report(scores, signals, adjusted, verdict, gating, flips)
  OBVIOUS
<1>1. /\ SnapshotOK(r.snapshot) /\ Consistent(r.snapshot) /\ Shaped(r)
      /\ r.snapshot.raw = Aggregate(scores) /\ r.snapshot.raw \in 0 .. 100
      /\ r.snapshot.adjusted = adjusted /\ r.snapshot.verdict = verdict
      /\ r.snapshot.signals = signals
      /\ r.gating = gating /\ r.flips = flips
      /\ r.low = LowConfidence(signals) /\ r.low \in BOOLEAN
      /\ r.tier = IF r.snapshot.raw >= PIVOT_THRESHOLD THEN 2 ELSE 1
  <2>1. IsFiniteSet(DOMAIN signals)
    BY VerdictAssumption
  <2>2. r.snapshot = Snapshot(scores, Said(signals), Aggregate(scores),
                               adjusted, verdict)
    BY <1>0 DEF Report
  <2>3. SnapshotOK(r.snapshot) /\ Consistent(r.snapshot)
    BY <2>1, <2>2, SnapshotType
  <2>4. /\ r.snapshot.raw = Aggregate(scores)
        /\ r.snapshot.adjusted = adjusted /\ r.snapshot.verdict = verdict
        /\ r.snapshot.signals = signals
    BY <2>2 DEF Snapshot, Said
  <2>5. /\ r.gating = gating /\ r.flips = flips /\ r.low = LowConfidence(signals)
        /\ r.tier = IF r.snapshot.raw >= PIVOT_THRESHOLD THEN 2 ELSE 1
    BY <1>0, <2>4 DEF Report
  <2>6. r.snapshot.raw \in 0 .. 100
    BY <2>3 DEF SnapshotOK
  <2>7. r.low \in BOOLEAN
    BY <2>5 DEF LowConfidence
  <2>8. Shaped(r)
    BY <1>0 DEF Shaped, Report, Snapshot
  <2>9. QED
    BY <2>3, <2>4, <2>5, <2>6, <2>7, <2>8
<1>2. report' = r
  BY <1>0
<1>3. TypeOK'
  <2>1. r.tier \in {1, 2}
    BY <1>1
  <2>2. r.flips \in BOOLEAN /\ r.gating \in {"raw", "adjusted"}
    BY <1>1
  <2>3. SnapshotOK(latest)' /\ SnapshotOK(report.snapshot)'
    BY <1>1, <1>2 DEF IInv, TypeOK, SnapshotOK
  <2>4. blocking' \in BOOLEAN
    BY DEF IInv, TypeOK
  <2>5. QED
    BY <1>1, <1>2, <2>1, <2>2, <2>3, <2>4, Zenon DEF TypeOK
<1>4. Consistent(report.snapshot)' /\ Consistent(latest)'
  BY <1>1, <1>2 DEF IInv, Consistent
<1>5. Gated'
  <2>1. report'.tier = IF report'.snapshot.raw >= PIVOT_THRESHOLD THEN 2 ELSE 1
    BY <1>1, <1>2
  <2>2. /\ report'.snapshot.verdict = verdict /\ report'.snapshot.raw = Aggregate(scores)
        /\ report'.snapshot.adjusted = adjusted /\ report'.flips = flips
        /\ report'.low = LowConfidence(report'.snapshot.signals)
    BY <1>1, <1>2, Zenon
  <2>3. stage' # "none"
    OBVIOUS
  <2>4. QED
    BY <2>1, <2>2, <2>3, Zenon DEF Gated
<1>6. Shaped(report)'
  BY <1>1, <1>2, Zenon DEF Shaped
<1>7. QED
  BY <1>3, <1>4, <1>5, <1>6 DEF IInv

LEMMA AnalyzeOnRawKeeps ==
  ASSUME IInv, NEW scores \in ScoreMaps(Agents), NEW signals \in Submitted,
         AnalyzeOnRaw(scores, signals)
  PROVE  IInv'
<1> DEFINE verdict == VerdictFor(Aggregate(scores))
<1>1. verdict \in Verdicts
  BY VerdictAssumption, ScoreMapsAreScoreMaps, AggregateType, VerdictType
<1>2. /\ stage' = "reported" /\ blocking' = blocking /\ latest' = latest
      /\ report' = Report(scores, signals, None, verdict, "raw", FALSE)
      /\ confidence' = None
  BY DEF AnalyzeOnRaw, IInv, Gated
<1>3. None \in 0 .. 100 \cup {None} /\ confidence' \in Confidences \cup {None}
  BY <1>2
<1>4. verdict = VerdictFor(Aggregate(scores))
  OBVIOUS
<1> HIDE DEF verdict
<1>5. QED
  BY <1>1, <1>2, <1>3, <1>4, NewReportKeeps

LEMMA AnalyzeOnAdjustedKeeps ==
  ASSUME IInv, NEW scores \in ScoreMaps(Agents), NEW signals \in Submitted,
         NEW c \in Confidences, AnalyzeOnAdjusted(scores, signals, c)
  PROVE  IInv'
<1> DEFINE raw == Aggregate(scores)
           adjusted == Penalised(raw, c)
           verdict == VerdictFor(adjusted)
           flips == Flips(raw, adjusted)
<1>1. raw \in 0 .. 100
  BY VerdictAssumption, ScoreMapsAreScoreMaps, AggregateType
<1>2. adjusted \in 0 .. 100
  BY <1>1, VerdictAssumption, PenalisedType
<1>3. verdict \in Verdicts /\ flips \in BOOLEAN
  BY <1>2, VerdictType DEF Flips
<1>4. /\ stage' = "reported" /\ blocking' = blocking /\ latest' = latest
      /\ report' = Report(scores, signals, adjusted, verdict, "adjusted", flips)
      /\ confidence' = c
  BY DEF AnalyzeOnAdjusted
<1>5. /\ confidence' # None
      /\ verdict = VerdictFor(Penalised(Aggregate(scores), confidence'))
      /\ adjusted = Penalised(Aggregate(scores), confidence')
      /\ flips <=> Flips(Aggregate(scores), adjusted)
  BY <1>4, VerdictAssumption
<1>6. adjusted \in 0 .. 100 \cup {None} /\ confidence' \in Confidences \cup {None}
  BY <1>2, <1>4
<1> HIDE DEF adjusted, verdict, flips
<1>7. QED
  BY <1>3, <1>4, <1>5, <1>6, NewReportKeeps

LEMMA PatchVerifierKeeps ==
  ASSUME IInv, NEW c \in Confidences, PatchVerifier(c)
  PROVE  IInv'
<1> DEFINE d == report.snapshot
           adjusted == Penalised(d.raw, c)
<1>1. SnapshotOK(d) /\ Consistent(d) /\ d.raw \in 0 .. 100
  BY DEF IInv, TypeOK, SnapshotOK
<1>2. adjusted \in 0 .. 100
  BY <1>1, VerdictAssumption, PenalisedType
<1>3. /\ report' = [report EXCEPT !.snapshot.adjusted = adjusted,
                                  !.flips = Flips(d.raw, adjusted)]
      /\ confidence = None /\ confidence' = c /\ stage = "reported"
      /\ UNCHANGED <<blocking, stage, latest>>
  BY DEF PatchVerifier
<1>4. /\ report'.snapshot.scores = d.scores /\ report'.snapshot.signals = d.signals
      /\ report'.snapshot.sources = d.sources
      /\ report'.snapshot.quality = d.quality
      /\ report'.snapshot.conflicts = d.conflicts
      /\ report'.snapshot.raw = d.raw /\ report'.snapshot.verdict = d.verdict
      /\ report'.snapshot.adjusted = adjusted
      /\ report'.gating = report.gating /\ report'.low = report.low
      /\ report'.tier = report.tier /\ report'.flips = Flips(d.raw, adjusted)
      /\ Shaped(report')
  <2>1. Shaped(report)
    BY DEF IInv
  <2> DEFINE flips == Flips(d.raw, adjusted)
             e == [scores |-> d.scores,
                   sources |-> d.sources, signals |-> d.signals,
                   quality |-> d.quality, conflicts |-> d.conflicts,
                   raw |-> d.raw, adjusted |-> adjusted, verdict |-> d.verdict]
  <2> HIDE DEF adjusted, flips
  <2>2. d = [scores |-> d.scores,
             sources |-> d.sources, signals |-> d.signals,
             quality |-> d.quality, conflicts |-> d.conflicts,
             raw |-> d.raw, adjusted |-> d.adjusted, verdict |-> d.verdict]
    BY <2>1 DEF Shaped
  <2>3. [d EXCEPT !.adjusted = adjusted] = e
    BY <2>2
  <2>4. report' = [report EXCEPT !.snapshot = e, !.flips = flips]
    BY <1>3, <2>3 DEF flips
  <2>5. report' = [snapshot |-> e, gating |-> report.gating, flips |-> flips,
                   low |-> report.low, tier |-> report.tier]
    BY <2>1, <2>4 DEF Shaped
  <2>6. QED
    BY <2>5 DEF Shaped, flips
<1>5. Flips(d.raw, adjusted) \in BOOLEAN
  BY DEF Flips
<1>6. TypeOK'
  <2>1. SnapshotOK(latest)' /\ SnapshotOK(report.snapshot)'
    BY <1>1, <1>2, <1>3, <1>4 DEF IInv, TypeOK, SnapshotOK
  <2>2. QED
    BY <1>3, <1>4, <1>5, <2>1 DEF IInv, TypeOK
<1>7. Consistent(report.snapshot)' /\ Consistent(latest)'
  BY <1>1, <1>3, <1>4 DEF IInv, Consistent
<1>8. Gated'
  <2>1. /\ report'.tier = IF report'.snapshot.raw >= PIVOT_THRESHOLD THEN 2 ELSE 1
        /\ report'.low <=> LowConfidence(report'.snapshot.signals)
    BY <1>4, Zenon DEF IInv, Gated
  <2>2. d.verdict = VerdictFor(d.raw)
    BY <1>3, Zenon DEF IInv, Gated
  <2>3. QED
    BY <1>3, <1>4, <2>1, <2>2, Zenon DEF Gated
<1>9. QED
  BY <1>4, <1>6, <1>7, <1>8 DEF IInv, Shaped

LEMMA PromoteKeeps ==
  ASSUME IInv, Promote
  PROVE  IInv'
<1> DEFINE d == report.snapshot
<1>1. /\ latest' = [scores |-> d.scores,
                    sources |-> DOMAIN d.signals, signals |-> d.signals,
                    quality |-> d.quality, conflicts |-> d.conflicts,
                    raw |-> d.raw, adjusted |-> d.adjusted, verdict |-> d.verdict]
  <2>1. d = [scores |-> d.scores,
             sources |-> d.sources, signals |-> d.signals,
             quality |-> d.quality, conflicts |-> d.conflicts,
             raw |-> d.raw, adjusted |-> d.adjusted, verdict |-> d.verdict]
    BY DEF IInv, Shaped
  <2>2. latest' = [d EXCEPT !.sources = DOMAIN d.signals]
    BY DEF Promote
  <2>3. QED
    BY <2>1, <2>2
<1>2. SnapshotOK(d) /\ Consistent(d)
  BY DEF IInv, TypeOK
<1>3. SnapshotOK(latest)' /\ Consistent(latest)'
  BY <1>1, <1>2 DEF SnapshotOK, Consistent
<1>4. report' = NoReport /\ confidence' = None /\ stage' = "logged" /\ blocking' = blocking
  BY DEF Promote
<1>5. TypeOK'
  <2>1. SnapshotOK(report.snapshot)'
    BY <1>4, NoReportIsSound DEF SnapshotOK
  <2>2. QED
    BY <1>3, <1>4, <2>1, NoReportIsSound DEF IInv, TypeOK
<1>6. Consistent(report.snapshot)'
  BY <1>4, NoReportIsSound DEF Consistent
<1>7. Gated'
  BY <1>4, NoReportIsSound DEF Gated, PIVOT_THRESHOLD
<1>8. Shaped(report)'
  BY <1>4 DEF Shaped, NoReport, Report, Snapshot
<1>9. QED
  BY <1>3, <1>5, <1>6, <1>7, <1>8 DEF IInv

\* A field that is passed is taken, and one that is left out is the log's.
LEMMA GivenValue ==
  ASSUME NEW value, NEW default
  PROVE  Given({value}, default) = value /\ Given({}, default) = default
  BY DEF Given

\* What a re-run writes of the market data: what was said of the signals it
\* gathered, or the four fields of the snapshot before it.
LEMMA CarriedOverIs ==
  /\ CarriedOver(NothingGiven) =
       [sources |-> latest.sources, signals |-> latest.signals,
        quality |-> latest.quality, conflicts |-> latest.conflicts]
  /\ \A signals : CarriedOver(AllGiven(signals)) = Said(signals)
<1>1. CarriedOver(NothingGiven) =
        [sources |-> latest.sources, signals |-> latest.signals,
         quality |-> latest.quality, conflicts |-> latest.conflicts]
  BY GivenValue DEF CarriedOver, NothingGiven
<1>2. ASSUME NEW signals
      PROVE  CarriedOver(AllGiven(signals)) = Said(signals)
  <2> DEFINE quality == ReportQuality(signals)
             conflicts == Conflicts(signals)
             given == AllGiven(signals)
  <2>1. /\ given.sources = {DOMAIN signals} /\ given.signals = {signals}
        /\ given.quality = {quality} /\ given.conflicts = {conflicts}
    BY DEF AllGiven
  <2> HIDE DEF quality, conflicts, given
  <2>2. CarriedOver(given) = [sources |-> DOMAIN signals, signals |-> signals,
                              quality |-> quality, conflicts |-> conflicts]
    BY <2>1, GivenValue DEF CarriedOver
  <2>3. QED
    BY <2>2 DEF quality, conflicts, given, Said
<1>3. QED
  BY <1>1, <1>2

\* Either way it agrees with itself: the one was computed, the other is inherited.
LEMMA SaidAgrees ==
  ASSUME IInv, NEW given,
         \/ given = NothingGiven
         \/ \E signals : IsFiniteSet(DOMAIN signals) /\ given = AllGiven(signals)
  PROVE  LET said == CarriedOver(given)
         IN  /\ said.sources = DOMAIN said.signals
             /\ said.quality = ReportQuality(said.signals)
             /\ said.conflicts = Conflicts(said.signals)
             /\ IsFiniteSet(DOMAIN said.signals)
<1>1. CASE given = NothingGiven
  <2>1. Consistent(latest)
    BY DEF IInv
  <2>2. QED
    BY <1>1, <2>1, CarriedOverIs DEF Consistent
<1>2. CASE \E signals : IsFiniteSet(DOMAIN signals) /\ given = AllGiven(signals)
  <2>1. PICK signals : IsFiniteSet(DOMAIN signals) /\ given = AllGiven(signals)
    BY <1>2
  <2>2. CarriedOver(given) = Said(signals)
    BY <2>1, CarriedOverIs
  <2>3. QED
    BY <2>1, <2>2 DEF Said
<1>3. QED
  BY <1>1, <1>2

\* A re-run: what it records, and that it keeps the invariant.
LEMMA RerunKeeps ==
  ASSUME IInv, stage = "logged",
         NEW dims, NEW updated \in ScoreMaps(Agents \cap dims),
         NEW given,
         \/ given = NothingGiven
         \/ \E signals : IsFiniteSet(DOMAIN signals) /\ given = AllGiven(signals),
         Record(updated, given),
         UNCHANGED <<blocking, stage, report, confidence>>
  PROVE  /\ IInv'
         /\ latest'.raw = Aggregate(latest'.scores)
         /\ latest'.verdict = VerdictFor(latest'.raw)
<1> DEFINE scores == Merge(latest.scores, updated)
           raw == Aggregate(scores)
           said == CarriedOver(given)
<1>1. scores \in ScoreMaps(Agents)
  BY MergeType DEF IInv, TypeOK, SnapshotOK
<1>2. raw \in 0 .. 100 /\ VerdictFor(raw) \in Verdicts
  BY <1>1, VerdictAssumption, ScoreMapsAreScoreMaps, AggregateType, VerdictType
<1>3. latest' = Snapshot(scores, said, raw, raw, VerdictFor(raw))
  BY DEF Record
<1>4. /\ said.sources = DOMAIN said.signals
      /\ said.quality = ReportQuality(said.signals)
      /\ said.conflicts = Conflicts(said.signals)
      /\ IsFiniteSet(DOMAIN said.signals)
  BY SaidAgrees
<1>5. /\ latest'.scores = scores /\ latest'.raw = raw /\ latest'.adjusted = raw
      /\ latest'.verdict = VerdictFor(raw)
      /\ latest'.sources = said.sources /\ latest'.signals = said.signals
      /\ latest'.quality = said.quality /\ latest'.conflicts = said.conflicts
  BY <1>3 DEF Snapshot
<1>6. raw = Aggregate(scores)
  OBVIOUS
<1> HIDE DEF scores, raw, said
<1>7. SnapshotOK(latest') /\ Consistent(latest')
  BY <1>1, <1>2, <1>4, <1>5, <1>6 DEF SnapshotOK, Consistent
<1>8. TypeOK'
  <2>1. SnapshotOK(latest)' /\ SnapshotOK(report.snapshot)'
    BY <1>7 DEF IInv, TypeOK, SnapshotOK
  <2>2. QED
    BY <2>1 DEF IInv, TypeOK
<1>9. Consistent(report.snapshot)' /\ Consistent(latest)'
  BY <1>7 DEF IInv, Consistent
<1>10. Gated' /\ Shaped(report)'
  BY DEF IInv, Gated, Shaped
<1>11. QED
  BY <1>5, <1>6, <1>8, <1>9, <1>10 DEF IInv

LEMMA InvariantNext == IInv /\ [Next]_vars => IInv'
<1> SUFFICES ASSUME IInv, [Next]_vars
             PROVE  IInv'
  OBVIOUS
<1>1. ASSUME NEW scores \in ScoreMaps(Agents), NEW signals \in Submitted,
             AnalyzeOnRaw(scores, signals)
      PROVE  IInv'
  BY <1>1, AnalyzeOnRawKeeps
<1>2. ASSUME NEW scores \in ScoreMaps(Agents), NEW signals \in Submitted,
             NEW c \in Confidences, AnalyzeOnAdjusted(scores, signals, c)
      PROVE  IInv'
  BY <1>2, AnalyzeOnAdjustedKeeps
<1>3. ASSUME NEW c \in Confidences, PatchVerifier(c)
      PROVE  IInv'
  BY <1>3, PatchVerifierKeeps
<1>4. CASE Promote
  BY <1>4, PromoteKeeps
<1>5. ASSUME NEW updated \in ScoreMaps(Agents \cap ALWAYS_RERUN_DIMENSIONS),
             NEW signals \in Gathered, MarketRerun(updated, signals)
      PROVE  IInv'
  BY <1>5, RerunKeeps, VerdictAssumption DEF MarketRerun
<1>6. ASSUME NEW updated \in ScoreMaps(Agents \cap EVIDENCE_GATED_DIMENSIONS),
             EvidenceRerun(updated)
      PROVE  IInv'
  BY <1>6, RerunKeeps DEF EvidenceRerun
<1>7. CASE UNCHANGED vars
  <2>1. /\ blocking' = blocking /\ stage' = stage /\ report' = report
        /\ confidence' = confidence /\ latest' = latest
    BY <1>7 DEF vars
  <2>2. TypeOK'
    BY <2>1 DEF IInv, TypeOK, SnapshotOK
  <2>3. Consistent(report.snapshot)' /\ Consistent(latest)'
    BY <2>1 DEF IInv, Consistent
  <2>4. Gated' /\ Shaped(report)'
    BY <2>1 DEF IInv, Gated, Shaped
  <2>5. QED
    BY <2>2, <2>3, <2>4 DEF IInv
<1>8. QED
  BY <1>1, <1>2, <1>3, <1>4, <1>5, <1>6, <1>7 DEF Next

-----------------------------------------------------------------------------
(* The properties of the runs *)

\* The invariant, for any agents, answers and signals.
THEOREM Invariant == Spec => []IInv
<1>1. QED
  BY InvariantInit, InvariantNext, PTL DEF Spec

\* Scores are percentages and verdicts verdicts, whatever is answered.
THEOREM TypeCorrect == Spec => []TypeOK
<1>1. IInv => TypeOK
  BY DEF IInv
<1>2. QED
  BY <1>1, Invariant, PTL

LEMMA VerifierBound == IInv => VerifierOnlyLowers
<1> SUFFICES ASSUME IInv, stage = "reported", confidence \in 0 .. 10
             PROVE  LET d == report.snapshot
                    IN  /\ d.adjusted =< d.raw /\ 100 * d.adjusted >= 70 * d.raw - 50
                        /\ ~Worse(VerdictFor(d.raw), d.verdict)
                        /\ report.flips <=> Worse(VerdictFor(d.adjusted), VerdictFor(d.raw))
                        /\ d.verdict = "go" => report.tier = 2
  BY DEF VerifierOnlyLowers
<1> DEFINE d == report.snapshot
<1>1. confidence # None /\ confidence \in Int /\ d.raw \in 0 .. 100
  BY DEF IInv, TypeOK, SnapshotOK, None
<1>2. d.adjusted = Penalised(d.raw, confidence)
  BY <1>1 DEF IInv, Gated
<1>3. d.adjusted \in 0 .. 100
  BY <1>1, <1>2, PenalisedType
<1>4. d.adjusted =< d.raw /\ 100 * d.adjusted >= 70 * d.raw - 50
  BY <1>1, <1>2, PenaltyIsBounded
<1>5. ~Worse(VerdictFor(d.raw), VerdictFor(d.adjusted))
  <2>1. d.adjusted \in Int /\ d.raw \in Int
    BY <1>1, <1>3
  <2>2. QED
    BY <2>1, <1>4, VerdictIsMonotone, Zenon
<1>6. VerdictFor(d.raw) \in Verdicts /\ VerdictFor(d.adjusted) \in Verdicts
  BY <1>1, <1>3, VerdictType
<1>7. d.verdict = VerdictFor(d.raw) \/ d.verdict = VerdictFor(d.adjusted)
  BY <1>2 DEF IInv, Gated
<1>8. ~Worse(VerdictFor(d.raw), d.verdict)
  BY <1>5, <1>6, <1>7, WorseIsOrder
<1>9. report.flips <=> Worse(VerdictFor(d.adjusted), VerdictFor(d.raw))
  <2>1. report.flips <=> Flips(d.raw, d.adjusted)
    BY <1>1, Zenon DEF IInv, Gated
  <2>2. Flips(d.raw, d.adjusted) <=> Worse(VerdictFor(d.adjusted), VerdictFor(d.raw))
    BY <1>5, <1>6, WorseIsOrder, Zenon DEF Flips
  <2>3. QED
    BY <2>1, <2>2, Zenon
<1>10. ASSUME d.verdict = "go" PROVE report.tier = 2
  <2>1. d.raw >= PIVOT_THRESHOLD
    BY <1>1, <1>3, <1>4, <1>7, <1>10 DEF VerdictFor, GO_THRESHOLD, PIVOT_THRESHOLD
  <2>2. QED
    BY <2>1 DEF IInv, Gated
<1>11. QED
  BY <1>4, <1>8, <1>9, <1>10, Zenon

\* A Verifier that answers within its rubric only lowers, by at most 30 %, and
\* never beyond what is flagged, for any scores.
THEOREM VerifierOnlyLowersHolds == Spec => []VerifierOnlyLowers
<1>1. QED
  BY VerifierBound, Invariant, PTL

\* What the log discloses with a score stays about the signals it keeps, through
\* any number of re-runs that gather anew or carry the four fields forward.
THEOREM DisclosureHolds == Spec => []DisclosureMatchesSignals
<1>1. IInv => DisclosureMatchesSignals
  BY DEF IInv, Consistent, DisclosureMatchesSignals
<1>2. QED
  BY <1>1, Invariant, PTL

LEMMA ScoresMove ==
  ASSUME IInv, IInv', stage = "logged",
         latest'.verdict = VerdictFor(latest'.raw)
  PROVE  ScoresMoveVerdict(latest, latest')
<1> DEFINE s == latest.scores
           t == latest'.scores
<1>1. ScoreMap(s) /\ ScoreMap(t)
  BY ScoreMapsAreScoreMaps, VerdictAssumption DEF IInv, TypeOK, SnapshotOK
<1>2. /\ latest.raw = Aggregate(s) /\ latest'.raw = Aggregate(t)
      /\ latest.raw \in 0 .. 100 /\ latest'.raw \in 0 .. 100
      /\ latest.verdict \in Verdicts /\ latest'.verdict \in Verdicts
  BY DEF IInv, TypeOK, SnapshotOK, Consistent
<1>3. VerdictFor(latest.raw) \in Verdicts /\ VerdictFor(latest'.raw) \in Verdicts
  BY <1>2, VerdictType
<1>4. ASSUME NoneLower(s, t)
      PROVE  /\ latest.raw =< latest'.raw
             /\ ~Worse(VerdictFor(latest.raw), latest.verdict)
                  => ~Worse(latest'.verdict, latest.verdict)
  <2>1. latest.raw =< latest'.raw
    BY <1>1, <1>2, <1>4, AggregateIsMonotone
  <2>2. ~Worse(VerdictFor(latest'.raw), VerdictFor(latest.raw))
    <3>1. latest.raw \in Int /\ latest'.raw \in Int
      BY <1>2
    <3>2. QED
      BY <2>1, <3>1, VerdictIsMonotone
  <2>3. QED
    BY <1>2, <1>3, <2>1, <2>2, WorseIsOrder
<1>5. ASSUME NoneLower(t, s)
      PROVE  /\ latest'.raw =< latest.raw
             /\ latest.verdict = VerdictFor(latest.raw)
                  => ~Worse(latest.verdict, latest'.verdict)
  <2>1. latest'.raw =< latest.raw
    BY <1>1, <1>2, <1>5, AggregateIsMonotone
  <2>2. ~Worse(VerdictFor(latest.raw), VerdictFor(latest'.raw))
    BY <1>2, <2>1, VerdictIsMonotone
  <2>3. QED
    BY <2>1, <2>2
<1>6. QED
  BY <1>4, <1>5 DEF ScoresMoveVerdict

\* A step of an idea in the log is a re-run, and its raw score gates.
LEMMA RerunVerdict ==
  ASSUME IInv, Next, stage = "logged", stage' = "logged"
  PROVE  /\ latest'.verdict = VerdictFor(latest'.raw)
         /\ latest'.raw = Aggregate(latest'.scores)
<1>1. ASSUME NEW updated \in ScoreMaps(Agents \cap ALWAYS_RERUN_DIMENSIONS),
             NEW signals \in Gathered, MarketRerun(updated, signals)
      PROVE  /\ latest'.verdict = VerdictFor(latest'.raw)
             /\ latest'.raw = Aggregate(latest'.scores)
  BY <1>1, RerunKeeps, VerdictAssumption DEF MarketRerun
<1>2. ASSUME NEW updated \in ScoreMaps(Agents \cap EVIDENCE_GATED_DIMENSIONS),
             EvidenceRerun(updated)
      PROVE  /\ latest'.verdict = VerdictFor(latest'.raw)
             /\ latest'.raw = Aggregate(latest'.scores)
  BY <1>2, RerunKeeps DEF EvidenceRerun
<1>3. ~Promote /\ \A c \in Confidences : ~PatchVerifier(c)
  BY DEF Promote, PatchVerifier
<1>4. \A scores, signals : /\ ~AnalyzeOnRaw(scores, signals)
                           /\ \A c : ~AnalyzeOnAdjusted(scores, signals, c)
  BY DEF AnalyzeOnRaw, AnalyzeOnAdjusted
<1>5. QED
  BY <1>1, <1>2, <1>3, <1>4 DEF Next

\* A re-run moves score and verdict only in the direction of the scores.
THEOREM VerdictFollowsScoresHolds == Spec => VerdictFollowsScores
<1>1. IInv /\ [Next]_vars =>
        [stage = "logged" /\ stage' = "logged" => ScoresMoveVerdict(latest, latest')]_vars
  <2> SUFFICES ASSUME IInv, Next, stage = "logged", stage' = "logged"
               PROVE  ScoresMoveVerdict(latest, latest')
    OBVIOUS
  <2>1. IInv'
    BY InvariantNext
  <2>2. latest'.verdict = VerdictFor(latest'.raw)
    BY RerunVerdict
  <2>3. QED
    BY <2>1, <2>2, ScoresMove
<1>2. QED
  BY <1>1, Invariant, PTL DEF Spec, VerdictFollowsScores

\* A gated verdict gives way once, to that of the raw score; after that the
\* verdict of an idea moves with its scores alone.
THEOREM VerdictMovesOnceAtMostHolds == Spec => VerdictMovesOnceAtMost
<1>1. IInv /\ [Next]_vars =>
        [stage = "logged" /\ stage' = "logged" => UngatedOnce(latest, latest')]_vars
  <2> SUFFICES ASSUME IInv, Next, stage = "logged", stage' = "logged"
               PROVE  UngatedOnce(latest, latest')
    OBVIOUS
  <2>1. latest.raw = Aggregate(latest.scores)
    BY DEF IInv, Consistent
  <2>2. QED
    BY <2>1, RerunVerdict DEF UngatedOnce
<1>2. QED
  BY <1>1, Invariant, PTL DEF Spec, VerdictMovesOnceAtMost

-----------------------------------------------------------------------------
\* With the Verifier in shadow, no verdict is gated by it.
Shadowed ==
  /\ ~blocking
  /\ report.snapshot.verdict = VerdictFor(report.snapshot.raw)
  /\ latest.verdict = VerdictFor(latest.raw)

LEMMA ShadowedStep ==
  ASSUME IInv, Shadowed, [Next]_vars
  PROVE  Shadowed'
<1> USE DEF Shadowed
<1>1. ASSUME NEW scores \in ScoreMaps(Agents), NEW signals \in Submitted,
             AnalyzeOnRaw(scores, signals)
      PROVE  Shadowed'
  <2>1. report'.snapshot = Snapshot(scores, Said(signals), Aggregate(scores), None,
                                    VerdictFor(Aggregate(scores)))
    BY <1>1 DEF AnalyzeOnRaw, Report
  <2>2. /\ report'.snapshot.raw = Aggregate(scores)
        /\ report'.snapshot.verdict = VerdictFor(Aggregate(scores))
    BY <2>1 DEF Snapshot
  <2>3. blocking' = blocking /\ latest' = latest
    BY <1>1 DEF AnalyzeOnRaw
  <2>4. QED
    BY <2>2, <2>3
<1>2. ASSUME NEW scores \in ScoreMaps(Agents), NEW signals \in Submitted,
             NEW c \in Confidences, AnalyzeOnAdjusted(scores, signals, c)
      PROVE  Shadowed'
  BY <1>2 DEF AnalyzeOnAdjusted
<1>3. ASSUME NEW c \in Confidences, PatchVerifier(c)
      PROVE  Shadowed'
  <2>1. Shaped(report)
    BY DEF IInv
  <2>2. /\ report'.snapshot.raw = report.snapshot.raw
        /\ report'.snapshot.verdict = report.snapshot.verdict
    BY <1>3, <2>1 DEF PatchVerifier, Shaped
  <2>3. QED
    BY <1>3, <2>2 DEF PatchVerifier
<1>4. CASE Promote
  <2>1. Shaped(report)
    BY DEF IInv
  <2>2. /\ latest'.raw = report.snapshot.raw
        /\ latest'.verdict = report.snapshot.verdict
    BY <1>4, <2>1 DEF Promote, Shaped
  <2>3. QED
    BY <1>4, <2>2, NoReportIsSound DEF Promote
<1>5. ASSUME stage = "logged", stage' = "logged", Next, UNCHANGED <<blocking, report>>
      PROVE  Shadowed'
  BY <1>5, RerunVerdict
<1>6. CASE UNCHANGED vars
  BY <1>6 DEF vars
<1>7. QED
  BY <1>1, <1>2, <1>3, <1>4, <1>5, <1>6 DEF Next, MarketRerun, EvidenceRerun

\* "The score moves only on evidence", of the verdict too, for every idea of a
\* server whose Verifier is in shadow: no re-run that changes no score moves it.
THEOREM ShadowVerdictMovesOnlyOnEvidence ==
  Spec /\ ~blocking => VerdictMovesOnlyOnEvidence
<1>1. Init /\ ~blocking => Shadowed
  BY NoReportIsSound DEF Init, Shadowed
<1>2. IInv /\ Shadowed /\ [Next]_vars => Shadowed'
  BY ShadowedStep
<1>3. IInv /\ Shadowed /\ [Next]_vars =>
        [stage = "logged" /\ stage' = "logged" /\ latest'.scores = latest.scores
           => latest'.verdict = latest.verdict]_vars
  <2> SUFFICES ASSUME IInv, Shadowed, Next, stage = "logged", stage' = "logged",
                      latest'.scores = latest.scores
               PROVE  latest'.verdict = latest.verdict
    OBVIOUS
  <2>1. latest.raw = Aggregate(latest.scores)
    BY DEF IInv, Consistent
  <2>2. QED
    BY <2>1, RerunVerdict DEF Shadowed
<1>4. QED
  BY <1>1, <1>2, <1>3, Invariant, PTL DEF Spec, VerdictMovesOnlyOnEvidence
=============================================================================
