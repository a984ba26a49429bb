----------------------------- MODULE Packaging -----------------------------
(***************************************************************************)
(* The packaging of an order: what a client writes ("box+film") is parsed   *)
(* into one packaging or a composite of several, which checks the weight    *)
(* and adds to the price (internal/domain/packaging.go and                  *)
(* internal/repository/repoutils).  A packaging is the sequence of its      *)
(* strategies.                                                              *)
(***************************************************************************)
EXTENDS Integers, Sequences, FiniteSets

PackagingTypes == {"package", "box", "film"}

\* What stands between the "+" of an input; the empty string is an "other", too.
Parts == PackagingTypes \cup {"other"}

StrategyPrice(t)     == CASE t = "package" -> 5 [] t = "box" -> 20 [] t = "film" -> 1
StrategyWeight(t, w) == CASE t = "package" -> w < 10 [] t = "box" -> w < 30 [] t = "film" -> TRUE
StrategyMain(t)      == t \in {"package", "box"}

\* Mutant: the main packagings are counted before the new one.
PartLate(s, t) ==
    IF s.error # "" THEN s
    ELSE IF t \notin PackagingTypes THEN [s EXCEPT !.error = "unknown"]
    ELSE IF s.mains > 1 THEN [s EXCEPT !.error = "combined"]
    ELSE [error |-> "", mains |-> s.mains + (IF StrategyMain(t) THEN 1 ELSE 0),
          strategies |-> Append(s.strategies, t)]

\* An iteration of the loop; an error ends it.
Part(s, t) ==
    LET mains == s.mains + (IF StrategyMain(t) THEN 1 ELSE 0)
    IN  IF s.error # "" THEN s
        ELSE IF t \notin PackagingTypes THEN [s EXCEPT !.error = "unknown"]
        ELSE IF mains > 1 THEN [s EXCEPT !.error = "combined"]
        ELSE [error |-> "", mains |-> mains, strategies |-> Append(s.strategies, t)]

NothingParsed == [error |-> "", mains |-> 0, strategies |-> <<>>]

\* The loop over the parts, after its first n iterations.
Parsing(input) ==
    LET after[n \in 0..Len(input)] == IF n = 0 THEN NothingParsed ELSE Part(after[n - 1], input[n])
    IN  after

ParsePackaging(input) == Parsing(input)[Len(input)]

\* The methods of a CompositePackaging, which for one strategy are its own.
Adding(strategies) ==
    LET res[n \in 0..Len(strategies)] ==
            IF n = 0 THEN 0 ELSE res[n - 1] + StrategyPrice(strategies[n])
    IN  res

CalculatePrice(strategies) == Adding(strategies)[Len(strategies)]

CheckWeight(strategies, weight) ==
    \A i \in 1..Len(strategies) : StrategyWeight(strategies[i], weight)

-----------------------------------------------------------------------------
\* The reference: what counts is how often each part is named.

Places(t, input, n) == {i \in 1..n : input[i] = t}

Count(t, input) == Cardinality(Places(t, input, Len(input)))

Permissible(input) == Count("other", input) = 0 /\ Count("package", input) + Count("box", input) <= 1

Price(input) == 5 * Count("package", input) + 20 * Count("box", input) + Count("film", input)

Fits(input, weight) == /\ Count("package", input) > 0 => weight < 10
                       /\ Count("box", input) > 0 => weight < 30

\* An input is accepted, or not, whatever the order of its parts and whichever error
\* is met first, and the price and the weights agree with the reference.
Agrees(input, weight) ==
    LET parsed == ParsePackaging(input)
    IN  /\ (parsed.error = "") = Permissible(input)
        /\ parsed.error = "" => /\ CalculatePrice(parsed.strategies) = Price(input)
                                /\ CheckWeight(parsed.strategies, weight) = Fits(input, weight)

=============================================================================
