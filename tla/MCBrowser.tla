------------------------------- MODULE MCBrowser -------------------------------
(***************************************************************************)
(* What users meet outside the list of posts: the parts of the pages in    *)
(* the browser, and the links mailed to new users, one of them in each     *)
(* behaviour.                                                              *)
(***************************************************************************)
EXTENDS PageFunctions, Scanner, Confirmation, ServiceWorker, Registration

CONSTANTS
    Subjects,
    FirstBuild     \* served where the worker does nothing

VARIABLE subject

vars == <<subject, pageVars, scannerVars, confirmationVars, workerVars, registrationVars>>

Init ==
    /\ subject \in Subjects
    /\ InitPage /\ InitScanner /\ InitConfirmation /\ InitWorker
    /\ InitRegistration
    /\ subject # "worker" => served = FirstBuild
    /\ subject # "links" => zone = 0

Next ==
    /\ UNCHANGED subject
    /\ \/ subject = "page" /\ NextPage
       \/ subject # "page" /\ UNCHANGED pageVars
    /\ \/ subject = "scanner" /\ NextScanner
       \/ subject # "scanner" /\ UNCHANGED scannerVars
    /\ \/ subject = "confirmation" /\ NextConfirmation
       \/ subject # "confirmation" /\ UNCHANGED confirmationVars
    /\ \/ subject = "worker" /\ NextWorker
       \/ subject # "worker" /\ UNCHANGED workerVars
    /\ \/ subject = "links" /\ NextRegistration
       \/ subject # "links" /\ UNCHANGED registrationVars

Spec == Init /\ [][Next]_vars /\ ScannerFairness /\ LinksFairness

AnyZone == {-1, 0, 1}

-----------------------------------------------------------------------------
(* The inputs of the functions.                                            *)

AllBlockData == {<<1, 9>>}

(* Shift JIS codes and characters: the ends of the signs, of the letters   *)
(* and lines, and of the two halves of the kanji.                          *)
SignPairs ==
    <<<<\H8140, \H3000>>, <<\H815F, \H5C>>, <<\H81AC, \H3013>>, <<\H81FC, \H25EF>>>>
LetterPairs ==
    <<<<\H8258, \HFF19>>, <<\H8279, \HFF3A>>, <<\H829A, \HFF5A>>, <<\H82F1, \H3093>>,
      <<\H8340, \H30A1>>, <<\H837E, \H30DF>>, <<\H8380, \H30E0>>, <<\H8396, \H30F6>>,
      <<\H83B0, \H3A3>>, <<\H83D6, \H3C9>>, <<\H8446, \H401>>, <<\H8447, \H416>>,
      <<\H8476, \H451>>, <<\H8491, \H44F>>, <<\H849F, \H2500>>, <<\H84BE, \H2542>>>>
KanjiPairs ==
    LET codes == <<\H889F, \H9372, \H9FFC, \HE040, \HE4AA, \HEAA4>>
    IN  [i \in DOMAIN codes |-> <<codes[i], KanjiOf(codes[i])>>]

(* Every length of a last group, every length of a UTF-8 character at its  *)
(* limits, every length of an ECI number.                                  *)
Segment1 ==
    {<<1, <<>>>>, <<1, <<7>>>>, <<1, <<0, 9>>>>, <<1, <<9, 9, 9>>>>, <<1, <<0, 0, 1, 0>>>>,
     <<2, <<44>>>>, <<2, <<0, 44>>>>, <<2, <<44, 44, 10>>>>,
     <<4, <<127, 128>>>>, <<4, <<2047, 2048, 55295>>>>, <<4, <<57344, 65535>>>>,
     <<4, <<65536, 1114111>>>>, <<8, SignPairs \o KanjiPairs>>}

AllTextCalls ==
    {TextCall(<<s, t>>, version, spare) :
        s \in Segment1 \cup {<<7, <<127>>>>, <<7, <<16383>>>>, <<7, <<999999>>>>},
        t \in Segment1, version \in {9, 10, 27}, spare \in {0, 2}}
    \cup {TextCall(<<s>>, version, spare) :
             s \in Segment1 \cup {<<8, LetterPairs>>},
             version \in {1, 26, 40}, spare \in 0..1}

Sample == <<<<1, <<2, 0, 2, 6>>>>, <<2, <<10, 36, 35>>>>, <<4, <<75, 269>>>>>>

(* As many wrong codewords in each block as can be corrected, and three    *)
(* wrong bits in each copy of the format and of the version.               *)
Worst(version, level, first) ==
    [first |-> first, wrong |-> Correctable(version, level), flipped |-> <<{0, 7, 14}, {3, 4, 5}>>]

(* Every level and mask; small versions, those of several blocks and those *)
(* with words of their version; mirrored codes and other places.           *)
AllCodeCalls ==
    {CodeCall(Sample, 2, level, mask, Undamaged, FALSE, "first") : level \in 0..3, mask \in 0..7}
    \cup {CodeCall(Sample, version, level, 1, Worst(version, level, first), FALSE, "first") :
             version \in {2, 5}, level \in 0..3, first \in {1, 9}}
    \cup {CodeCall(Sample, 7, 3, 6, Worst(7, 3, 2), FALSE, "first"),
          CodeCall(<<<<4, <<75, 58>>>>>>, 1, 1, 4, Undamaged, FALSE, "first")}
    \cup {CodeCall(Sample, 2, 1, mask, Worst(2, 1, 3), mirrored, place) :
             mask \in {2}, mirrored \in BOOLEAN, place \in {"first", "second", "inverted"}}

AllPhotoCalls ==
    {PhotoCall(Sample, 2, 1, 3, 2, 3, 40, FALSE, 0, FALSE),
     PhotoCall(Sample, 2, 0, 2, 3, 0, 0, TRUE, 1, FALSE),
     PhotoCall(Sample, 3, 2, 5, 2, 5, 60, FALSE, 2, TRUE),
     PhotoCall(<<<<4, <<75, 58>>>>>>, 1, 1, 4, 3, 1, 20, FALSE, 3, FALSE)}

(* The ends of months, of leap years and of centuries.                     *)
AllDays ==
    {DateOf(y, m, d) : y \in {2000, 2023, 2024, 2100}, m \in 1..12, d \in {1, 2, 15, 28}}
    \cup UNION {{DateOf(y, m, d) : d \in 29..DaysIn(y, m)} : y \in {2023, 2024}, m \in 1..12}

OtherCode == <<[key |-> "", value |-> "text"]>>

AllBillCalls ==
    {BillCall(currency, amount, 2, payee, purpose, <<OtherCode>>) :
        currency \in {"RSD", "EUR"}, amount \in {0, 5, 150, 99999},
        payee \in {"", "payee"}, purpose \in {"", "purpose"}}
    \cup {BillCall(currency, 10 * tenths, 1, "payee", "", <<>>) :
             currency \in {"RSD", "EUR"}, tenths \in {3, 35}}
    \cup {BillCall("RSD", 700, 0, "", "", <<OtherCode, OtherCode>>)}
=============================================================================
