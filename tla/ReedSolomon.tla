------------------------------ MODULE ReedSolomon ------------------------------
(***************************************************************************)
(* The correction of a block of codewords in static/js/jsQR.js (its        *)
(* reedsolomon module): syndromes, Euclidean algorithm, Chien's search and *)
(* Forney's formula.  The empty sequence stands for null.                  *)
(***************************************************************************)
EXTENDS GaloisField, FiniteSets

Null == <<>>

-----------------------------------------------------------------------------
(* The Euclidean algorithm.                                                *)

LessThanDivisor(r, d) == Degree(r) < Degree(d)

(* One division: q and r with p = q * d + r.                               *)
RECURSIVE Divided(_, _, _, _)
Divided(field, q, r, d) ==
    IF LessThanDivisor(r, d) \/ IsZero(r) THEN [q |-> q, r |-> r]
    ELSE LET degreeDiff == Degree(r) - Degree(d)
             scale == Multiply(field, r[1], InverseGF(field, d[1]))
         IN  Divided(field, AddPolys(q, Monomial(degreeDiff, scale)),
                     AddPolys(r, MultiplyByMonomial(field, d, degreeDiff, scale)), d)

(* Its loop; the last remainder and the factor of b in it.                 *)
RECURSIVE Remainders(_, _, _, _, _, _)
Remainders(field, rLast, r, tLast, t, R) ==
    LET Following(division) ==
            IF Degree(division.r) >= Degree(r) THEN [t |-> Null, r |-> Null]
            ELSE Now(LAMBDA factor : Remainders(field, r, division.r, t, factor, R),
                     AddPolys(MultiplyPolys(field, division.q, t), tLast))
    IN  IF 2 * Degree(r) < R THEN [t |-> t, r |-> r]
        ELSE IF IsZero(r) THEN [t |-> Null, r |-> Null]
        ELSE Following(Divided(field, Zero, rLast, r))

(* The locator and the evaluator of the errors.                            *)
NoErrors == [sigma |-> Null, omega |-> Null]

Normalized(field, last) ==
    IF last.t = Null \/ Coefficient(last.t, 0) = 0 THEN NoErrors
    ELSE LET inverse == InverseGF(field, Coefficient(last.t, 0))
         IN  [sigma |-> Scale(field, last.t, inverse), omega |-> Scale(field, last.r, inverse)]

RunEuclideanAlgorithm(field, a, b, R) ==
    LET longer  == IF Degree(a) < Degree(b) THEN b ELSE a
        shorter == IF Degree(a) < Degree(b) THEN a ELSE b
    IN  Normalized(field, Remainders(field, longer, shorter, Zero, One, R))

-----------------------------------------------------------------------------
(* The errors.                                                             *)

TooFew(field)  == 1..field.size - 2      \* a mutant: the search ends too soon
Nonzero(field) == 1..field.size - 1

(* The inverses of the locator's roots, which all must be found.           *)
Found(field, errorLocator) ==
    {i \in Nonzero(field) : EvaluateAt(field, errorLocator, i) = 0}

AllFound(errorLocator, roots) == Cardinality(roots) = Degree(errorLocator)

ErrorLocations(field, errorLocator) ==
    IF Degree(errorLocator) = 1 THEN {Coefficient(errorLocator, 1)}
    ELSE {InverseGF(field, i) : i \in Found(field, errorLocator)}

(* Forney's formula for the error at location x.                           *)
ErrorMagnitude(field, errorEvaluator, errorLocations, x) ==
    LET inverse == InverseGF(field, x)
        denominator == FoldSet(LAMBDA y, product :
                                   Multiply(field, product,
                                            AddOrSubtractGF(1, Multiply(field, y, inverse))),
                               1, errorLocations \ {x})
        magnitude == Multiply(field, EvaluateAt(field, errorEvaluator, inverse),
                              InverseGF(field, denominator))
    IN  IF field.generatorBase # 0 THEN Multiply(field, magnitude, inverse) ELSE magnitude

-----------------------------------------------------------------------------
Syndromes(field, poly, twoS) ==
    Evaluated([i \in 1..twoS |->
        EvaluateAt(field, poly, Exp(field, twoS - i + field.generatorBase))])

CorrectAt(field, bytes, omega, locations) ==
    LET Position(x) == Len(bytes) - Log(field, x)
    IN  IF \E x \in locations : Position(x) < 1 THEN Null
        ELSE [i \in DOMAIN bytes |->
                 IF \E x \in locations : Position(x) = i
                 THEN AddOrSubtractGF(bytes[i],
                          ErrorMagnitude(field, omega, locations,
                                         CHOOSE x \in locations : Position(x) = i))
                 ELSE bytes[i]]

Correct(field, bytes, errors) ==
    IF \/ errors.sigma = Null
       \/ Degree(errors.sigma) # 1 /\ ~ AllFound(errors.sigma, Found(field, errors.sigma))
    THEN Null
    ELSE CorrectAt(field, bytes, errors.omega, ErrorLocations(field, errors.sigma))

CorrectBy(field, bytes, twoS, syndromes) ==
    IF \A i \in 1..twoS : syndromes[i] = 0 THEN bytes
    ELSE Correct(field, bytes,
             RunEuclideanAlgorithm(field, Monomial(twoS, 1), Poly(syndromes), twoS))

DecodeBlock(field, bytes, twoS) ==
    CorrectBy(field, bytes, twoS, Syndromes(field, Poly(bytes), twoS))
=============================================================================
