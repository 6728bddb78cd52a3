------------------------------- MODULE BillText -------------------------------
(***************************************************************************)
(* The text of a bill's QR code (parseIpsQr in static/js/app.js) and the   *)
(* form of a new post that is filled from it (applyCodes).  A text is the  *)
(* sequence of its parts [key, value]; a part without a colon has the key  *)
(* "".  The value of I is a currency, a whole number and up to two         *)
(* decimals, or NoAmount for what is none; N and S are texts, "" the empty *)
(* one.  Amounts are in hundredths, 0 stands for an empty field.           *)
(***************************************************************************)
EXTENDS Integers, Sequences

NoAmount == [currency |-> "RSD", whole |-> 0, decimals |-> <<>>]

(* Of parts with the same key the last one counts.                         *)
ValueOf(parts, key, default) ==
    LET places == {i \in DOMAIN parts : parts[i].key = key}
    IN  IF places = {} THEN default
        ELSE parts[CHOOSE i \in places : \A j \in places : j <= i].value

IsBill(parts) == ValueOf(parts, "K", "") \in {"PR", "PT", "PK", "EK"}

DecimalsAsNumber(decimals) ==   \* a mutant: 3,5 is three and five hundredths
    CASE Len(decimals) = 0 -> 0
      [] Len(decimals) = 1 -> decimals[1]
      [] Len(decimals) = 2 -> 10 * decimals[1] + decimals[2]

Hundredths(decimals) ==
    CASE Len(decimals) = 0 -> 0
      [] Len(decimals) = 1 -> 10 * decimals[1]
      [] Len(decimals) = 2 -> 10 * decimals[1] + decimals[2]

ParseIpsQr(parts) ==
    LET amount == ValueOf(parts, "I", NoAmount)
    IN  [currency    |-> amount.currency,
         amount      |-> 100 * amount.whole + Hundredths(amount.decimals),
         description |-> SelectSeq(<<ValueOf(parts, "N", ""), ValueOf(parts, "S", "")>>,
                                   LAMBDA text : text # "")]

(* The first bill of the codes fills the form; without one it stays as it  *)
(* is.                                                                     *)
ApplyCodes(form, codes) ==
    LET bills == SelectSeq(codes, IsBill)
        payment == ParseIpsQr(Head(bills))
    IN  IF bills = <<>> THEN form
        ELSE [amount  |-> IF payment.currency = "EUR" THEN 0 ELSE payment.amount,
              amounte |-> IF payment.currency = "EUR" THEN payment.amount ELSE 0,
              description |-> IF payment.description # <<>> THEN payment.description
                              ELSE form.description]
=============================================================================
