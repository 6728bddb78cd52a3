------------------------------ MODULE Evaluation ------------------------------
(***************************************************************************)
(* Long sequences in a form that TLC evaluates well.                       *)
(***************************************************************************)
EXTENDS Integers, SequencesExt

(* The sequence s: TLC else computes an element at every use of it.        *)
Evaluated(s) == s \o <<>>

(* F of the value of e, which is computed first.                           *)
Now(F(_), e) == CHOOSE result \in {F(value) : value \in {e}} : TRUE

(* FoldLeft(op, base, s), half by half: a recursion that is not deep.      *)
Folded(op(_, _), base, s) ==
    LET RECURSIVE Part(_, _, _)
        Part(value, i, j) ==
            IF i = j THEN op(value, s[i])
            ELSE Now(LAMBDA half : Part(half, (i + j) \div 2 + 1, j),
                     Part(value, i, (i + j) \div 2))
    IN  IF s = <<>> THEN base ELSE Part(base, 1, Len(s))

(* The same for an associative op and a sequence that is not empty.        *)
Joined(op(_, _), s) ==
    LET part[i \in DOMAIN s, j \in DOMAIN s] ==
            IF i = j THEN s[i]
            ELSE op(part[i, (i + j) \div 2], part[(i + j) \div 2 + 1, j])
    IN  part[1, Len(s)]
=============================================================================
