------------------------------ MODULE GaloisField ------------------------------
(***************************************************************************)
(* The finite fields of static/js/jsQR.js (GenericGF) and the polynomials  *)
(* over them (GenericGFPoly).  A polynomial is the sequence of its         *)
(* coefficients, the highest first, without leading zeros.                 *)
(***************************************************************************)
EXTENDS Bitwise, Evaluation

AddOrSubtractGF(a, b) == a ^^ b

RECURSIVE Powers(_, _, _)
Powers(primitive, size, s) ==
    LET x == 2 * s[Len(s)]
    IN  IF Len(s) = size THEN s
        ELSE Powers(primitive, size,
                    Append(s, IF x < size THEN x
                              ELSE AddOrSubtractGF(x % size, primitive % size)))

(* exp and log are the tables of the constructor.                          *)
Field(primitive, size, genBase) ==
    LET powers == Powers(primitive, size, <<1>>)
    IN  [size          |-> size,
         generatorBase |-> genBase,
         expTable      |-> powers,
         logTable      |-> Evaluated([a \in 1..size - 1 |->
                               CHOOSE i \in 0..size - 2 : powers[i + 1] = a])]

Exp(field, a) == field.expTable[a + 1]
Log(field, a) == field.logTable[a]

Multiply(field, a, b) ==
    IF a = 0 \/ b = 0 THEN 0
    ELSE Exp(field, (Log(field, a) + Log(field, b)) % (field.size - 1))

InverseGF(field, a) == Exp(field, field.size - Log(field, a) - 1)

-----------------------------------------------------------------------------
Zero == <<0>>
One  == <<1>>

RECURSIVE Stripped(_)
Stripped(p) == IF Len(p) = 1 \/ p[1] # 0 THEN p ELSE Stripped(Tail(p))

Poly(coefficients) == Stripped(Evaluated(coefficients))

Degree(p) == Len(p) - 1

IsZero(p) == p[1] = 0

Coefficient(p, degree) == p[Len(p) - degree]

Monomial(degree, coefficient) ==
    Poly([i \in 1..degree + 1 |-> IF i = 1 THEN coefficient ELSE 0])

AddPolys(p, q) ==
    LET size == Max({Len(p), Len(q)})
        At(r, i) == IF i > size - Len(r) THEN r[i - (size - Len(r))] ELSE 0
    IN  Poly([i \in 1..size |-> AddOrSubtractGF(At(p, i), At(q, i))])

Scale(field, p, scalar) ==
    Poly([i \in DOMAIN p |-> Multiply(field, p[i], scalar)])

MultiplyByMonomial(field, p, degree, coefficient) ==
    Poly([i \in 1..Len(p) + degree |->
             IF i > Len(p) THEN 0 ELSE Multiply(field, p[i], coefficient)])

MultiplyPolys(field, p, q) ==
    Folded(LAMBDA sum, i : AddPolys(sum, MultiplyByMonomial(field, q, Len(p) - i, p[i])),
           Zero, [i \in DOMAIN p |-> i])

(* Horner's rule.                                                          *)
EvaluateAt(field, p, a) ==
    Folded(LAMBDA result, c : AddOrSubtractGF(Multiply(field, a, result), c), 0, p)
=============================================================================
