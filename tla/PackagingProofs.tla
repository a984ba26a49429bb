-------------------------- MODULE PackagingProofs --------------------------
(***************************************************************************)
(* What ParsePackaging and the methods of a packaging compute, for inputs   *)
(* of any length.                                                           *)
(*                                                                         *)
(* The theorems are inductions over the parts of the input.  The provers    *)
(* cannot instantiate the induction theorems of the library, whose          *)
(* parameter is a predicate; an induction is therefore stated over the set  *)
(* of the numbers that satisfy it, and follows from the well-foundedness of *)
(* the natural numbers.                                                     *)
(***************************************************************************)
EXTENDS MCOrderStore, Integers, Sequences, FiniteSets, FiniteSetTheorems, SequenceTheorems,
        WellFoundedInduction, TLAPS

\* Induction, over a set instead of a predicate.
LEMMA SetInduction ==
    ASSUME NEW S, S \subseteq Nat, 0 \in S, \A n \in S : n + 1 \in S
    PROVE  S = Nat
<1> DEFINE R == OpToRel(<, Nat)
           T == Nat \ S
<1>1. SUFFICES ASSUME T # {} PROVE FALSE
  OBVIOUS
<1>2. IsWellFoundedOn(R, Nat)
  BY NatLessThanWellFounded
<1>2a. T \subseteq Nat
  OBVIOUS
<1> HIDE DEF T
<1>3. PICK x \in T : \A y \in T : <<y, x>> \notin R
  <2> HIDE DEF R
  <2> QED BY <1>1, <1>2, <1>2a, WFMin
<1> USE DEF T
<1>4. x # 0 /\ x \in Nat /\ x - 1 \in Nat
  OBVIOUS
<1>5. <<x - 1, x>> \in R
  BY <1>4 DEF OpToRel
<1>6. x - 1 \in S
  BY <1>3, <1>4, <1>5
<1> QED
  BY <1>4, <1>6
 
\* g are the values of an iteration: s0, and then F[n] of the value before.
Iteration(g, L, s0, F) == g[0] = s0 /\ \A n \in 1..L : g[n] = F[n][g[n - 1]]

\* Every iteration has its values.
LEMMA Iterates ==
    ASSUME NEW S, NEW L \in Nat, NEW s0 \in S, NEW F \in [1..L -> [S -> S]]
    PROVE  \E g \in [0..L -> S] : Iteration(g, L, s0, F)
<1> DEFINE P(m) == \E g \in [0..m -> S] : g[0] = s0 /\ \A n \in 1..m : g[n] = F[n][g[n - 1]]
           N == {m \in Nat : m <= L => P(m)}
<1>1. 0 \in N
  <2> DEFINE g == [i \in 0..0 |-> s0]
  <2>1. g \in [0..0 -> S] /\ g[0] = s0 /\ \A n \in 1..0 : g[n] = F[n][g[n - 1]]
    OBVIOUS
  <2> QED BY <2>1
<1>2. ASSUME NEW m \in N PROVE m + 1 \in N
  <2> SUFFICES ASSUME m + 1 <= L PROVE P(m + 1)
    OBVIOUS
  <2>1. P(m)
    OBVIOUS
  <2>2. PICK g \in [0..m -> S] : g[0] = s0 /\ \A n \in 1..m : g[n] = F[n][g[n - 1]]
    BY <2>1
  <2> DEFINE h == [i \in 0..(m + 1) |-> IF i = m + 1 THEN F[m + 1][g[m]] ELSE g[i]]
  <2>3. h \in [0..(m + 1) -> S]
    BY <2>2
  <2>4. h[0] = s0
    BY <2>2
  <2>5. ASSUME NEW n \in 1..(m + 1) PROVE h[n] = F[n][h[n - 1]]
    BY <2>2
  <2> HIDE DEF h
  <2> QED
    BY <2>3, <2>4, <2>5
<1>3. N = Nat
  <2> HIDE DEF N
  <2>1. N \subseteq Nat
    BY DEF N
  <2> QED
    BY <1>1, <1>2, <2>1, SetInduction
<1> QED
  BY <1>3 DEF Iteration

-----------------------------------------------------------------------------
\* The parser and the price as recursions.

ParseErrors == {"", "unknown", "combined"}

\* The states of the loop.
Parses == [error : ParseErrors, mains : Nat, strategies : Seq(PackagingTypes)]

\* An iteration of the loop yields a state of the loop.
LEMMA PartType ==
    ASSUME NEW s \in Parses, NEW t \in Parts
    PROVE  Part(s, t) \in Parses
<1>1. CASE s.error # ""
  BY <1>1 DEF Part
<1>2. CASE s.error = "" /\ t \notin PackagingTypes
  BY <1>2 DEF Part, Parses, ParseErrors
<1>3. CASE s.error = "" /\ t \in PackagingTypes
  <2> DEFINE mains == s.mains + (IF StrategyMain(t) THEN 1 ELSE 0)
             longer == Append(s.strategies, t)
  <2>1. s.mains \in Nat /\ s.strategies \in Seq(PackagingTypes)
    BY DEF Parses
  <2>2. mains \in Nat
    BY <2>1
  <2>3. longer \in Seq(PackagingTypes)
    BY <1>3, <2>1, AppendProperties
  <2>4. Part(s, t) = IF mains > 1 THEN [s EXCEPT !.error = "combined"]
                     ELSE [error |-> "", mains |-> mains, strategies |-> longer]
    BY <1>3 DEF Part
  <2> HIDE DEF mains, longer
  <2>5. [s EXCEPT !.error = "combined"] \in Parses
    BY DEF Parses, ParseErrors
  <2>6. [error |-> "", mains |-> mains, strategies |-> longer] \in Parses
    BY <2>2, <2>3 DEF Parses, ParseErrors
  <2> QED
    BY <2>4, <2>5, <2>6
<1> QED
  BY <1>1, <1>2, <1>3

\* The loop is well defined: it starts with nothing and goes part by part.
LEMMA ParsingDef ==
    ASSUME NEW input \in Seq(Parts)
    PROVE  /\ Parsing(input) \in [0..Len(input) -> Parses]
           /\ Parsing(input)[0] = NothingParsed
           /\ \A n \in 1..Len(input) :
                  Parsing(input)[n] = Part(Parsing(input)[n - 1], input[n])
<1> DEFINE L == Len(input)
           F == [n \in 1..L |-> [s \in Parses |-> Part(s, input[n])]]
           Def(g) == [n \in 0..L |-> IF n = 0 THEN NothingParsed ELSE Part(g[n - 1], input[n])]
<1>1. L \in Nat /\ \A n \in 1..L : input[n] \in Parts
  OBVIOUS
<1>2. NothingParsed \in Parses
  BY DEF NothingParsed, Parses, ParseErrors
<1>3. F \in [1..L -> [Parses -> Parses]]
  BY <1>1, PartType
<1>4. PICK g \in [0..L -> Parses] : Iteration(g, L, NothingParsed, F)
  <2>1. L \in Nat
    BY <1>1
  <2> HIDE DEF F, L
  <2> QED
    BY <1>2, <1>3, <2>1, Iterates
<1>5. ASSUME NEW n \in 1..L PROVE g[n] = Part(g[n - 1], input[n])
  <2>1. n - 1 \in 0..L
    BY <1>1
  <2> QED
    BY <1>4, <2>1 DEF Iteration
<1>6. g = Def(g)
  BY <1>1, <1>4, <1>5 DEF Iteration
<1>7. Parsing(input) = CHOOSE f : f = Def(f)
  BY DEF Parsing
<1>8. Parsing(input) = Def(Parsing(input))
  <2> HIDE DEF Def
  <2> QED
    BY <1>6, <1>7
<1>9. /\ Parsing(input)[0] = NothingParsed
      /\ \A n \in 1..L : Parsing(input)[n] = Part(Parsing(input)[n - 1], input[n])
  BY <1>1, <1>8
<1> DEFINE N == {n \in Nat : n <= L => Parsing(input)[n] \in Parses}
<1>10. 0 \in N
  BY <1>2, <1>9
<1>11. ASSUME NEW n \in N PROVE n + 1 \in N
  <2> SUFFICES ASSUME n + 1 <= L PROVE Parsing(input)[n + 1] \in Parses
    OBVIOUS
  <2>1. n + 1 \in 1..L /\ (n + 1) - 1 = n
    BY <1>1
  <2>2. Parsing(input)[n + 1] = Part(Parsing(input)[n], input[n + 1])
    BY <1>9, <2>1
  <2> QED
    BY <1>1, <2>1, <2>2, PartType
<1>12. N = Nat
  <2> N \subseteq Nat
    OBVIOUS
  <2> HIDE DEF N
  <2> QED
    BY <1>10, <1>11, SetInduction
<1>13. \A n \in 0..L : Parsing(input)[n] \in Parses
  BY <1>1, <1>12
<1>14. DOMAIN Parsing(input) = 0..L /\ Parsing(input) = [n \in 0..L |-> Parsing(input)[n]]
  BY <1>8
<1> QED
  BY <1>9, <1>13, <1>14

\* The prices.
LEMMA PriceValues ==
    /\ StrategyPrice("package") = 5
    /\ StrategyPrice("box") = 20
    /\ StrategyPrice("film") = 1
BY DEF StrategyPrice

\* The sum of the prices is well defined.
LEMMA AddingDef ==
    ASSUME NEW strategies \in Seq(PackagingTypes)
    PROVE  /\ Adding(strategies)[0] = 0
           /\ \A n \in 1..Len(strategies) :
                  Adding(strategies)[n] = Adding(strategies)[n - 1] + StrategyPrice(strategies[n])
<1> DEFINE L == Len(strategies)
           F == [n \in 1..L |-> [s \in Nat |-> s + StrategyPrice(strategies[n])]]
           Def(g) == [n \in 0..L |-> IF n = 0 THEN 0 ELSE g[n - 1] + StrategyPrice(strategies[n])]
<1>1. L \in Nat /\ \A n \in 1..L : StrategyPrice(strategies[n]) \in Nat
  BY PriceValues DEF PackagingTypes
<1>2. F \in [1..L -> [Nat -> Nat]]
  BY <1>1
<1>3. PICK g \in [0..L -> Nat] : Iteration(g, L, 0, F)
  <2>1. L \in Nat
    BY <1>1
  <2> HIDE DEF F, L
  <2> QED
    BY <1>2, <2>1, Iterates
<1>4. ASSUME NEW n \in 1..L PROVE g[n] = g[n - 1] + StrategyPrice(strategies[n])
  <2>1. n - 1 \in 0..L
    BY <1>1
  <2> QED
    BY <1>3, <2>1 DEF Iteration
<1>5. g = Def(g)
  BY <1>1, <1>3, <1>4 DEF Iteration
<1>6. Adding(strategies) = CHOOSE f : f = Def(f)
  BY DEF Adding
<1>7. Adding(strategies) = Def(Adding(strategies))
  <2> HIDE DEF Def
  <2> QED
    BY <1>5, <1>6
<1> QED
  BY <1>1, <1>7

-----------------------------------------------------------------------------
\* Counting.

\* One part more is one place more for it, and none for the others.
LEMMA PlacesNext ==
    ASSUME NEW t, NEW input, NEW n \in Nat
    PROVE  Places(t, input, n + 1) = IF input[n + 1] = t THEN Places(t, input, n) \cup {n + 1}
                                                         ELSE Places(t, input, n)
BY DEF Places

\* How often a part is named among the first n.
Named(t, input, n) == Cardinality(Places(t, input, n))

\* The places of a part are finitely many.
LEMMA NamedType ==
    ASSUME NEW t, NEW input, NEW n \in Nat
    PROVE  IsFiniteSet(Places(t, input, n)) /\ Named(t, input, n) \in Nat
<1>1. IsFiniteSet(1..n)
  BY FS_Interval
<1>2. Places(t, input, n) \subseteq 1..n
  BY DEF Places
<1> QED
  BY <1>1, <1>2, FS_Subset, FS_CardinalityType DEF Named

\* Nothing is named at first.
LEMMA NamedNone ==
    ASSUME NEW t, NEW input
    PROVE  Named(t, input, 0) = 0
<1>1. Places(t, input, 0) = {}
  BY DEF Places
<1> QED
  BY <1>1, FS_EmptySet DEF Named

\* The count goes part by part.
LEMMA NamedNext ==
    ASSUME NEW t, NEW input, NEW n \in Nat
    PROVE  Named(t, input, n + 1) = Named(t, input, n) + (IF input[n + 1] = t THEN 1 ELSE 0)
<1>1. Named(t, input, n) \in Nat /\ IsFiniteSet(Places(t, input, n))
  BY NamedType
<1>2. CASE input[n + 1] = t
  <2>1. n + 1 \notin Places(t, input, n)
    BY DEF Places
  <2>2. Cardinality(Places(t, input, n) \cup {n + 1}) = Cardinality(Places(t, input, n)) + 1
    BY <1>1, <2>1, FS_AddElement
  <2>3. Places(t, input, n + 1) = Places(t, input, n) \cup {n + 1}
    BY <1>2, PlacesNext
  <2> QED
    BY <1>2, <2>2, <2>3 DEF Named
<1>3. CASE input[n + 1] # t
  <2>1. Places(t, input, n + 1) = Places(t, input, n)
    BY <1>3, PlacesNext
  <2> QED
    BY <1>1, <1>3, <2>1 DEF Named
<1> QED
  BY <1>2, <1>3

\* A part that is named is named somewhere.
LEMMA NamedSome ==
    ASSUME NEW t, NEW input, NEW n \in Nat
    PROVE  Named(t, input, n) > 0 <=> \E i \in 1..n : input[i] = t
<1>1. IsFiniteSet(Places(t, input, n)) /\ Named(t, input, n) \in Nat
  BY NamedType
<1>2. Cardinality(Places(t, input, n)) = 0 <=> Places(t, input, n) = {}
  BY <1>1, FS_EmptySet
<1>3. Places(t, input, n) = {} <=> ~\E i \in 1..n : input[i] = t
  BY DEF Places
<1> QED
  BY <1>1, <1>2, <1>3 DEF Named

-----------------------------------------------------------------------------
\* The loop invariant of ParsePackaging.

Mains(input, n) == Named("package", input, n) + Named("box", input, n)

PermissibleSoFar(input, n) == Named("other", input, n) = 0 /\ Mains(input, n) <= 1

\* After n parts there is an error exactly if they are not permissible; without an
\* error, the parts are the strategies, and the main ones among them are counted.
ParsedSoFar(input, n) ==
    LET s == Parsing(input)[n]
    IN  /\ s.error # "" => ~PermissibleSoFar(input, n)
        /\ s.error = "" => /\ PermissibleSoFar(input, n)
                           /\ s.mains = Mains(input, n)
                           /\ Len(s.strategies) = n
                           /\ \A i \in 1..n : s.strategies[i] = input[i]

\* The invariant holds before the first part.
LEMMA ParsedNothing ==
    ASSUME NEW input \in Seq(Parts)
    PROVE  ParsedSoFar(input, 0)
<1>1. Parsing(input)[0] = NothingParsed
  BY ParsingDef
<1>2. Mains(input, 0) = 0
  BY NamedNone DEF Mains
<1>3. PermissibleSoFar(input, 0)
  BY <1>2, NamedNone DEF PermissibleSoFar
<1>4. /\ NothingParsed.error = ""
      /\ NothingParsed.mains = 0
      /\ Len(NothingParsed.strategies) = 0
  BY DEF NothingParsed
<1>5. \A i \in 1..0 : NothingParsed.strategies[i] = input[i]
  OBVIOUS
<1> QED
  BY <1>1, <1>2, <1>3, <1>4, <1>5, Zenon DEF ParsedSoFar

\* Every iteration keeps it.
LEMMA ParsedNext ==
    ASSUME NEW input \in Seq(Parts), NEW n \in Nat, n + 1 <= Len(input), ParsedSoFar(input, n)
    PROVE  ParsedSoFar(input, n + 1)
<1> DEFINE s == Parsing(input)[n]
           t == input[n + 1]
           u == Parsing(input)[n + 1]
<1>1. n + 1 \in 1..Len(input) /\ n \in 0..Len(input) /\ (n + 1) - 1 = n
  OBVIOUS
<1>2. s \in Parses /\ t \in Parts /\ u = Part(s, t)
  BY <1>1, ParsingDef
<1>3. /\ Named("other", input, n) \in Nat
      /\ t = "other" => Named("other", input, n + 1) = Named("other", input, n) + 1
      /\ t # "other" => Named("other", input, n + 1) = Named("other", input, n)
  BY NamedType, NamedNext
<1>4. /\ Mains(input, n) \in Nat
      /\ StrategyMain(t)  => Mains(input, n + 1) = Mains(input, n) + 1
      /\ ~StrategyMain(t) => Mains(input, n + 1) = Mains(input, n)
  <2>1. Named("package", input, n) \in Nat /\ Named("box", input, n) \in Nat
    BY NamedType
  <2>2. Named("package", input, n + 1) = Named("package", input, n) + (IF t = "package" THEN 1 ELSE 0)
    BY NamedNext
  <2>3. Named("box", input, n + 1) = Named("box", input, n) + (IF t = "box" THEN 1 ELSE 0)
    BY NamedNext
  <2> HIDE DEF t
  <2> QED
    BY <2>1, <2>2, <2>3 DEF Mains, StrategyMain
<1>5. s.error = "" => /\ PermissibleSoFar(input, n)
                      /\ s.mains = Mains(input, n)
                      /\ Len(s.strategies) = n
                      /\ \A i \in 1..n : s.strategies[i] = input[i]
  BY DEF ParsedSoFar
<1>5a. s.error # "" => ~PermissibleSoFar(input, n)
  BY DEF ParsedSoFar
<1>6. s.strategies \in Seq(PackagingTypes)
  BY <1>2 DEF Parses
<1>7. SUFFICES /\ u.error # "" => ~PermissibleSoFar(input, n + 1)
               /\ u.error = "" => /\ PermissibleSoFar(input, n + 1)
                                  /\ u.mains = Mains(input, n + 1)
                                  /\ Len(u.strategies) = n + 1
                                  /\ \A i \in 1..(n + 1) : u.strategies[i] = input[i]
  BY DEF ParsedSoFar
<1>8. t \in PackagingTypes <=> t # "other"
  BY <1>2 DEF Parts, PackagingTypes
<1> HIDE DEF s, t, u
<1>9. CASE s.error # ""
  <2>1. u = s
    BY <1>2, <1>9 DEF Part
  <2>2. Named("other", input, n) # 0 \/ ~(Mains(input, n) <= 1)
    BY <1>5a, <1>9 DEF PermissibleSoFar
  <2>3. /\ Named("other", input, n) # 0 => Named("other", input, n + 1) # 0
        /\ ~(Mains(input, n) <= 1) => ~(Mains(input, n + 1) <= 1)
    BY <1>3, <1>4
  <2>4. ~PermissibleSoFar(input, n + 1)
    BY <2>2, <2>3 DEF PermissibleSoFar
  <2> QED
    BY <1>9, <2>1, <2>4
<1>10. CASE s.error = "" /\ t = "other"
  <2>1. u = [s EXCEPT !.error = "unknown"]
    BY <1>2, <1>8, <1>10 DEF Part
  <2>2. u.error = "unknown"
    BY <1>2, <2>1 DEF Parses
  <2>3. ~PermissibleSoFar(input, n + 1)
    <3>1. Named("other", input, n + 1) = Named("other", input, n) + 1
      BY <1>3, <1>10
    <3>2. Named("other", input, n + 1) # 0
      BY <1>3, <3>1
    <3> QED
      BY <3>2 DEF PermissibleSoFar
  <2> QED
    BY <2>2, <2>3
<1>11. CASE s.error = "" /\ t # "other"
  <2> DEFINE mains == s.mains + (IF StrategyMain(t) THEN 1 ELSE 0)
  <2>1. mains = Mains(input, n + 1) /\ mains \in Nat
    <3>1. s.mains = Mains(input, n)
      BY <1>5, <1>11
    <3> QED
      BY <1>4, <3>1
  <2>2. PermissibleSoFar(input, n + 1) <=> ~(mains > 1)
    <3>1. Named("other", input, n) = 0
      BY <1>5, <1>11 DEF PermissibleSoFar
    <3>2. Named("other", input, n + 1) = 0
      BY <1>3, <1>11, <3>1
    <3>3. Mains(input, n + 1) <= 1 <=> ~(mains > 1)
      BY <2>1
    <3> QED
      BY <3>2, <3>3 DEF PermissibleSoFar
  <2>3. u = IF mains > 1 THEN [s EXCEPT !.error = "combined"]
            ELSE [error |-> "", mains |-> mains, strategies |-> Append(s.strategies, t)]
    BY <1>2, <1>8, <1>11 DEF Part
  <2> HIDE DEF mains
  <2>4. CASE mains > 1
    <3>1. u.error = "combined"
      BY <1>2, <2>3, <2>4 DEF Parses
    <3> QED
      BY <2>2, <2>4, <3>1
  <2>5. CASE ~(mains > 1)
    <3> DEFINE longer == Append(s.strategies, t)
    <3>1. /\ Len(longer) = n + 1
          /\ \A i \in 1..n : longer[i] = s.strategies[i]
          /\ longer[n + 1] = t
      <4>1. t \in PackagingTypes
        BY <1>8, <1>11
      <4>2. Len(s.strategies) = n
        BY <1>5, <1>11
      <4>3. /\ Len(longer) = Len(s.strategies) + 1
            /\ \A i \in 1..Len(s.strategies) : longer[i] = s.strategies[i]
            /\ longer[Len(s.strategies) + 1] = t
        BY <1>6, <4>1, AppendProperties
      <4> HIDE DEF longer
      <4> QED
        BY <4>2, <4>3
    <3> HIDE DEF longer
    <3>2. u.error = "" /\ u.mains = mains /\ u.strategies = longer
      BY <2>3, <2>5 DEF longer
    <3>3. ASSUME NEW i \in 1..(n + 1) PROVE longer[i] = input[i]
      <4>1. CASE i = n + 1
        BY <3>1, <4>1 DEF t
      <4>2. CASE i # n + 1
        <5>1. i \in 1..n
          BY <4>2
        <5>2. s.strategies[i] = input[i]
          BY <1>5, <1>11, <5>1
        <5> QED
          BY <3>1, <5>1, <5>2
      <4> QED
        BY <4>1, <4>2
    <3> QED
      BY <2>1, <2>2, <2>5, <3>1, <3>2, <3>3
  <2> QED
    BY <2>4, <2>5
<1> QED
  BY <1>9, <1>10, <1>11

\* It holds after every part.
LEMMA ParsedAlways ==
    ASSUME NEW input \in Seq(Parts)
    PROVE  \A n \in 0..Len(input) : ParsedSoFar(input, n)
<1> DEFINE N == {n \in Nat : n <= Len(input) => ParsedSoFar(input, n)}
<1>1. 0 \in N
  BY ParsedNothing
<1>2. ASSUME NEW n \in N PROVE n + 1 \in N
  BY ParsedNext
<1>3. N = Nat
  <2> N \subseteq Nat
    OBVIOUS
  <2> HIDE DEF N
  <2> QED
    BY <1>1, <1>2, SetInduction
<1> QED
  BY <1>3

\* The price of what has only known parts is what the parts cost.
LEMMA PriceSoFar ==
    ASSUME NEW input \in Seq(PackagingTypes)
    PROVE  \A n \in 0..Len(input) :
               Adding(input)[n] = 5 * Named("package", input, n) + 20 * Named("box", input, n)
                                  + Named("film", input, n)
<1> DEFINE Cost(n) == 5 * Named("package", input, n) + 20 * Named("box", input, n)
                      + Named("film", input, n)
           N == {n \in Nat : n <= Len(input) => Adding(input)[n] = Cost(n)}
<1>1. 0 \in N
  BY AddingDef, NamedNone
<1>2. ASSUME NEW n \in N PROVE n + 1 \in N
  <2> SUFFICES ASSUME n + 1 <= Len(input) PROVE Adding(input)[n + 1] = Cost(n + 1)
    OBVIOUS
  <2> DEFINE t == input[n + 1]
  <2>1. n + 1 \in 1..Len(input) /\ (n + 1) - 1 = n /\ t \in PackagingTypes
    OBVIOUS
  <2>2. Adding(input)[n + 1] = Adding(input)[n] + StrategyPrice(t)
    BY <2>1, AddingDef
  <2>3. Adding(input)[n] = Cost(n)
    OBVIOUS
  <2>4. /\ Named("package", input, n) \in Nat
        /\ Named("box", input, n) \in Nat
        /\ Named("film", input, n) \in Nat
    BY NamedType
  <2>5. /\ Named("package", input, n + 1) = Named("package", input, n) + (IF t = "package" THEN 1 ELSE 0)
        /\ Named("box", input, n + 1) = Named("box", input, n) + (IF t = "box" THEN 1 ELSE 0)
        /\ Named("film", input, n + 1) = Named("film", input, n) + (IF t = "film" THEN 1 ELSE 0)
    BY NamedNext
  <2> HIDE DEF t
  <2> QED
    BY <2>1, <2>2, <2>3, <2>4, <2>5, PriceValues DEF PackagingTypes
<1>3. N = Nat
  <2> N \subseteq Nat
    OBVIOUS
  <2> HIDE DEF N
  <2> QED
    BY <1>1, <1>2, SetInduction
<1> QED
  BY <1>3

-----------------------------------------------------------------------------

\* ParsePackaging accepts an input of any length exactly if its parts are known and at
\* most one of them is a main packaging; what it accepts costs the sum of its parts and
\* may weigh what the strictest of them allows.
THEOREM PackagingIsRight ==
    ASSUME NEW input \in Seq(Parts), NEW weight \in Int
    PROVE  Agrees(input, weight)
<1> DEFINE L == Len(input)
           parsed == ParsePackaging(input)
<1>1. L \in Nat /\ L \in 0..L
  OBVIOUS
<1>2. parsed \in Parses /\ parsed = Parsing(input)[L]
  BY <1>1, ParsingDef DEF ParsePackaging
<1>3. ParsedSoFar(input, L)
  BY <1>1, ParsedAlways
<1>4. \A t : Count(t, input) = Named(t, input, L)
  BY DEF Count, Named
<1>5. (parsed.error = "") = Permissible(input)
  <2>1. PermissibleSoFar(input, L) <=> Permissible(input)
    BY <1>4 DEF PermissibleSoFar, Permissible, Mains
  <2>2. /\ parsed.error = "" => PermissibleSoFar(input, L)
        /\ parsed.error # "" => ~PermissibleSoFar(input, L)
    BY <1>2, <1>3 DEF ParsedSoFar
  <2>3. Permissible(input) \in BOOLEAN
    BY DEF Permissible
  <2> QED
    BY <2>1, <2>2, <2>3
<1>6. ASSUME parsed.error = ""
      PROVE  /\ CalculatePrice(parsed.strategies) = Price(input)
             /\ CheckWeight(parsed.strategies, weight) = Fits(input, weight)
  <2>1. parsed.strategies \in Seq(PackagingTypes)
    BY <1>2 DEF Parses
  <2>2. parsed.strategies = input
    <3>1. /\ Len(parsed.strategies) = L
          /\ \A i \in 1..L : parsed.strategies[i] = input[i]
      BY <1>2, <1>3, <1>6 DEF ParsedSoFar
    <3> HIDE DEF parsed
    <3> QED
      BY <2>1, <3>1, SeqEqual
  <2>3. CalculatePrice(input) = Price(input)
    BY <1>1, <1>4, <2>1, <2>2, PriceSoFar DEF CalculatePrice, Price
  <2>4. CheckWeight(input, weight) = Fits(input, weight)
    <3>1. \A i \in 1..L : input[i] \in PackagingTypes
      BY <2>1, <2>2
    <3>2. \A t : Count(t, input) > 0 <=> \E i \in 1..L : input[i] = t
      BY <1>1, <1>4, NamedSome
    <3>3. ASSUME NEW i \in 1..L
          PROVE  StrategyWeight(input[i], weight) <=> /\ input[i] = "package" => weight < 10
                                                      /\ input[i] = "box" => weight < 30
      <4> DEFINE t == input[i]
      <4>1. t \in {"package", "box", "film"}
        BY <3>1 DEF PackagingTypes
      <4> HIDE DEF t
      <4>2. StrategyWeight(t, weight) <=> /\ t = "package" => weight < 10
                                          /\ t = "box" => weight < 30
        BY <4>1 DEF StrategyWeight
      <4> QED
        BY <4>2 DEF t
    <3>4. CheckWeight(input, weight) <=> \A i \in 1..L : StrategyWeight(input[i], weight)
      BY DEF CheckWeight
    <3>5. Fits(input, weight) <=> /\ Count("package", input) > 0 => weight < 10
                                  /\ Count("box", input) > 0 => weight < 30
      BY DEF Fits
    <3> QED
      BY <3>2, <3>3, <3>4, <3>5 DEF CheckWeight, Fits
  <2> QED
    BY <2>2, <2>3, <2>4
<1> QED
  BY <1>5, <1>6 DEF Agrees

\* The run's instance of it: in OrderStore, what AcceptPrepare relies on.
THEOREM PackagingAlwaysAgrees == Spec => []PackagingAgrees
<1>1. ASSUME NEW n \in 1..3, NEW input \in [1..n -> Parts], NEW weight \in {0, 9, 10, 29, 30}
      PROVE  Agrees(input, weight)
  <2>1. input \in Seq(Parts)
    OBVIOUS
  <2> QED
    BY <2>1, PackagingIsRight
<1>2. AllAgree
  BY <1>1 DEF AllAgree, PackagingInputs, PackagingWeights
<1>3. PackagingAgrees
  BY <1>2 DEF PackagingAgrees
<1> QED
  BY <1>3, PTL

=============================================================================
