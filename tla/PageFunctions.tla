---------------------------- MODULE PageFunctions ----------------------------
(***************************************************************************)
(* Calls of the functions of the pages that compute something: the reader  *)
(* of QR codes, the form that is filled from a bill and the periods of the *)
(* filter.  A call is made and then answered.                              *)
(***************************************************************************)
EXTENDS QRReference, BillText, FilterPeriods

CONSTANTS
    BlockData,     \* data of blocks over SmallField
    TextCalls,     \* texts, codes, photographs, days and bills: the inputs
    CodeCalls,
    PhotoCalls,
    Days,
    BillCalls

VARIABLES
    pageCall,      \* the function and its arguments
    pageResult     \* <<>>, then <<what it returned>>

pageVars == <<pageCall, pageResult>>

Called(call) ==
    /\ pageCall.kind = "none"
    /\ pageCall' = call
    /\ UNCHANGED pageResult

Returned(kind, value) ==
    /\ pageCall.kind = kind
    /\ pageResult = <<>>
    /\ pageResult' = <<value>>
    /\ UNCHANGED pageCall

-----------------------------------------------------------------------------
(* Blocks of codewords, over a field whose blocks can be enumerated: any   *)
(* two of SmallCheck = 4 check codewords' blocks can be corrected.         *)

SmallField == Field(19, 16, 0)
SmallCheck == 4

Block(data) == data \o ErrorCodewords(SmallField, data, SmallCheck)

Received(block, errors) ==
    Evaluated([i \in DOMAIN block |->
                  IF i \in DOMAIN errors THEN block[i] ^^ errors[i] ELSE block[i]])

CallCorrection ==
    \E data \in BlockData :
        \E wrong \in {s \in SUBSET (1..Len(data) + SmallCheck) : 2 * Cardinality(s) <= SmallCheck} :
            \E errors \in [wrong -> 1..15] :
                Called([kind |-> "block", data |-> data, errors |-> errors])

CorrectBlock ==
    LET received == Received(Block(pageCall.data), pageCall.errors)
    IN  Returned("block", DecodeBlock(SmallField, received, SmallCheck))

-----------------------------------------------------------------------------
(* Data codewords, with spare ones or without.                             *)

TextCall(segments, version, spare) ==
    [kind |-> "text", segments |-> segments, version |-> version, spare |-> spare]

CallText == \E call \in TextCalls : Called(call)

ReadText ==
    LET needed == (Len(SegmentsBits(pageCall.segments, pageCall.version)) + 7) \div 8
        bytes  == DataBytes(pageCall.segments, pageCall.version, needed + pageCall.spare)
    IN  Returned("text", DecodeData(bytes, pageCall.version))

-----------------------------------------------------------------------------
(* Codes as they were located: with wrong codewords and wrong bits of      *)
(* format and version, mirrored, and not at the first place that was tried.*)

CodeCall(segments, version, level, mask, damage, mirrored, place) ==
    [kind |-> "code", segments |-> segments, version |-> version, level |-> level,
     mask |-> mask, damage |-> damage, mirrored |-> mirrored, place |-> place]

CallCode == \E call \in CodeCalls : Called(call)

Orders == [version \in {call.version : call \in CodeCalls \cup PhotoCalls} |-> Evaluated(Order(version))]

(* The code of a call; damage is [first, wrong, flipped].                  *)
CodeOf(call, damage) ==
    Written(Codewords(call.segments, call.version, call.level, damage.first, damage.wrong),
            Orders[call.version], call.version, call.level, call.mask, damage.flipped)

Faced(matrix, mirrored) ==
    IF mirrored THEN [matrix EXCEPT !.dark = {<<p[2], p[1]>> : p \in @}] ELSE matrix

Nowhere == [dimension |-> 21, dark |-> {}]

ReadAt(place, matrices) ==
    LET before == IF place = "first" THEN <<>> ELSE <<Nowhere>>
    IN  JsQR(IF place = "inverted" THEN before ELSE before \o matrices, matrices)

ReadCode ==
    Returned("code",
        ReadAt(pageCall.place, <<Faced(CodeOf(pageCall, pageCall.damage), pageCall.mirrored)>>))

-----------------------------------------------------------------------------
(* Photographs of codes, turned by quarters.                               *)

PhotoCall(segments, version, level, mask, scale, extra, fading, negative, turns, mirrored) ==
    [kind |-> "photo", segments |-> segments, version |-> version, level |-> level,
     mask |-> mask, scale |-> scale, extra |-> extra, fading |-> fading,
     negative |-> negative, turns |-> turns, mirrored |-> mirrored]

CallPhoto == \E call \in PhotoCalls : Called(call)

Undamaged == [first |-> 1, wrong |-> 0, flipped |-> <<{}, {}>>]

PhotoOf(call) ==
    LET code   == CodeOf(call, Undamaged)
        drawn  == [code EXCEPT !.dark = @ \cup Patterns(call.version)]
        turned == Folded(LAMBDA matrix, i : Turned(matrix), drawn, [i \in 1..call.turns |-> i])
    IN  Photograph(Faced(turned, call.mirrored), call.scale, call.extra, call.fading, call.negative)

(* The codes that are extracted where a matrix may have one.               *)
Extracted(matrix) ==
    LET ExtractAt(locations) ==
            Evaluated([i \in DOMAIN locations |-> Extract(matrix, locations[i])])
    IN  ExtractAt(Locate(matrix))

Seen(binarized) == JsQR(Extracted(binarized), Extracted(Inverted(binarized)))

ReadPhoto == Returned("photo", Seen(Binarize(PhotoOf(pageCall))))

-----------------------------------------------------------------------------
(* The forms.                                                              *)

CallPeriod ==
    \E period \in Periods, today \in Days :
        Called([kind |-> "period", period |-> period, today |-> today])

FillPeriod == Returned("period", PeriodOf(pageCall.period, pageCall.today))

(* A bill of an amount in hundredths, written with some decimals; other    *)
(* codes may come before it.                                               *)
BillCall(currency, amount, decimals, payee, purpose, before) ==
    [kind |-> "bill", currency |-> currency, amount |-> amount, decimals |-> decimals,
     payee |-> payee, purpose |-> purpose, before |-> before]

CallBill == \E call \in BillCalls : Called(call)

BillParts(call) ==
    LET both == <<(call.amount \div 10) % 10, call.amount % 10>>
    IN  <<[key |-> "K", value |-> "PR"], [key |-> "N", value |-> call.payee],
          [key |-> "I", value |-> [currency |-> call.currency, whole |-> call.amount \div 100,
                                   decimals |-> SubSeq(both, 1, call.decimals)]],
          [key |-> "S", value |-> call.purpose]>>

EnteredForm == [amount |-> 700, amounte |-> 0, description |-> <<"entered">>]

FillBill ==
    Returned("bill", ApplyCodes(EnteredForm, Append(pageCall.before, BillParts(pageCall))))

-----------------------------------------------------------------------------
InitPage ==
    /\ pageCall = [kind |-> "none"]
    /\ pageResult = <<>>

NextPage ==
    \/ CallCorrection \/ CallText \/ CallCode \/ CallPhoto \/ CallPeriod \/ CallBill
    \/ CorrectBlock \/ ReadText \/ ReadCode \/ ReadPhoto \/ FillPeriod \/ FillBill

-----------------------------------------------------------------------------
(* Properties.                                                             *)

Answers(kinds) == pageResult # <<>> /\ pageCall.kind \in kinds

(* Whichever codewords of a block are wrong, as many as its check          *)
(* codewords can correct, and however they are wrong, the block becomes    *)
(* what was sent.                                                          *)
BlocksCorrected == Answers({"block"}) => pageResult[1] = Block(pageCall.data)

(* What is written after the standard is read by jsQR as it was meant: in  *)
(* every mode, version and mask, from damaged, mirrored, turned, inverted  *)
(* and badly lit codes.                                                    *)
ReadAsWritten ==
    Answers({"text", "code", "photo"}) =>
        pageResult[1].ok /\ pageResult[1].text = SegmentsText(pageCall.segments)

(* A period is the days that its name says, also around leap days and the  *)
(* ends of years; of a bill, the whole amount goes to the field of its     *)
(* currency and the other field is emptied.                                *)
FieldsFilled ==
    /\ Answers({"period"}) =>
           [i \in 1..2 |-> Day(pageResult[1][i].y, pageResult[1][i].m, pageResult[1][i].d)]
           = DaysOf(pageCall.period, pageCall.today)
    /\ Answers({"bill"}) =>
           /\ <<pageResult[1].amount, pageResult[1].amounte>>
              = IF pageCall.currency = "EUR" THEN <<0, pageCall.amount>>
                ELSE <<pageCall.amount, 0>>
           /\ pageResult[1].description
              = IF pageCall.payee = "" /\ pageCall.purpose = "" THEN EnteredForm.description
                ELSE SelectSeq(<<pageCall.payee, pageCall.purpose>>, LAMBDA text : text # "")
=============================================================================
