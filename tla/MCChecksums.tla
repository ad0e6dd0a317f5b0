----------------------------- MODULE MCChecksums -----------------------------
(***************************************************************************)
(* A supplier prints a number, made as its standard says; it is read off   *)
(* the invoice, maybe with one digit wrong or two neighbours exchanged;    *)
(* the rule of its field is applied to what was read.                      *)
(***************************************************************************)
EXTENDS RuleCalls, Checksums

CONSTANTS Digits,     \* the digits that bodies are made of
          Numbers     \* [kind, text]: what suppliers print

VARIABLES kind, printed, read

numberVars == <<kind, printed, read>>

passed == IF kind = "iban" THEN iban_checksum(read)
          ELSE IF kind = "business_id" THEN business_id_checksum(read) ELSE reference_number(read)

\* ISO 7064: the check digits are 98 less the remainder of the text with 00 in
\* their place; the text is spelt out in decimal before the remainder is taken.
Spelt(text) ==
    LET upTo[n \in 0..Len(text)] ==
            IF n = 0 THEN <<>>
            ELSE IF text[n] < 10 THEN Append(upTo[n - 1], text[n])
            ELSE Append(Append(upTo[n - 1], text[n] \div 10), text[n] % 10)
    IN  upTo[Len(text)]
Rest97(digits) ==
    LET after[n \in 0..Len(digits)] == IF n = 0 THEN 0 ELSE (after[n - 1] * 10 + digits[n]) % 97
    IN  after[Len(digits)]
CheckDigits(letters, body) == 98 - Rest97(Append(Append(Spelt(body \o letters), 0), 0))
WithCheckDigits(letters, body) ==
    LET check == CheckDigits(letters, body)
    IN  letters \o <<check \div 10, check % 10>> \o body

\* A text whose third and fourth character are the check digits of the others.
Checked(text) ==
    /\ \A i \in DOMAIN text : text[i] \in 0..35
    /\ text[3] \in 0..9 /\ text[4] \in 0..9
    /\ text[3] * 10 + text[4] = CheckDigits(SubSeq(text, 1, 2), SubSeq(text, 5, Len(text)))

\* A Finnish reference ends with the digit that makes the sum of its digits,
\* weighted 1, 7, 3, 1, 7, 3, ... from the right, a multiple of ten.
WeightFromRight(i) == IF i = 1 THEN 1 ELSE <<7, 3, 1>>[((i - 2) % 3) + 1]
Balanced(s) == SumOf([i \in DOMAIN s |-> s[(Len(s) + 1) - i] * WeightFromRight(i)]) % 10 = 0

\* A business id's digits, weighted 7 9 10 5 8 4 2 1, sum to a multiple of eleven.
Elevenfold(s) == (s[9] + SumOf([i \in 1..7 |-> s[i] * <<7, 9, 10, 5, 8, 4, 2>>[i]])) % 11 = 0

\* A number as the standard of its kind has it.
MadeRight(k, s) ==
    \/ k = "iban" /\ Len(s) \in 15..34 /\ isAlpha(s[1]) /\ isAlpha(s[2]) /\ Checked(s)
       /\ (s[1] = F /\ s[2] = I => Len(s) = 18)
    \/ k = "creditor" /\ Len(s) \in 5..25 /\ s[1] = R /\ s[2] = F /\ Checked(s)
    \/ k = "finnish" /\ Len(s) \in 4..20 /\ AllDigits(s) /\ Balanced(s)
    \/ k = "business_id" /\ Len(s) = 9 /\ s[8] = Hyphen /\ (\A i \in 1..9 \ {8} : isDigit(s[i])) /\ Elevenfold(s)

ASSUME NumbersAssumption ==
    \A x \in Numbers : x.text \in Seq(0..37) /\ MadeRight(x.kind, x.text)

Bodies(n) == [1..n -> Digits]
Printed(k, texts) == {[kind |-> k, text |-> s] : s \in texts}
SomeNumbers ==
    Printed("iban",
        {WithCheckDigits(<<F, I>>, <<b[1], 2, 3, 4, 5, 6, b[2], 0, 0, 0, 7, 8, 5, b[3]>>) : b \in Bodies(3)}
        \union {WithCheckDigits(<<28, 14>>, <<5, 0, 0, 0, 0, 0, b[1], 5, 8, 3, b[2], 8, 2, 5, 7, 4, 6, 6, 0, b[3]>>) : b \in Bodies(3)})
    \union Printed("creditor",
        {WithCheckDigits(<<R, F>>, b) : b \in Bodies(2) \union [1..3 -> Digits \union {11, 35}]})
    \union Printed("finnish",
        {s \in {Append(b, c) : b \in [1..3 -> Digits \union {2}] \union Bodies(4), c \in 0..9} : Balanced(s)})
    \union Printed("business_id",
        {s \in {b \o <<Hyphen, c>> : b \in Bodies(7), c \in 0..9} : Elevenfold(s)})

NumberInit == phase = "idle" /\ kind = "finnish" /\ printed = <<>> /\ read = <<>>

PrintNumber(x) == phase' = "read" /\ kind' = x.kind /\ printed' = x.text /\ read' = x.text

\* One digit is taken for another.
Misread(i, d) == /\ isDigit(read[i]) /\ d # read[i]
                 /\ phase' = "misread" /\ read' = [read EXCEPT ![i] = d]
                 /\ UNCHANGED <<kind, printed>>

\* Two digits next to each other change places.
Exchange(i) == /\ i + 1 \in DOMAIN read
               /\ isDigit(read[i]) /\ isDigit(read[i + 1]) /\ read[i] # read[i + 1]
               /\ phase' = "exchanged" /\ read' = [read EXCEPT ![i] = read[i + 1], ![i + 1] = read[i]]
               /\ UNCHANGED <<kind, printed>>

NumberDone == /\ phase \in {"read", "misread", "exchanged"}
              /\ phase' = "idle" /\ kind' = "finnish" /\ printed' = <<>> /\ read' = <<>>

NumberNext == \/ phase = "idle" /\ \E x \in Numbers : PrintNumber(x)
              \/ phase = "read" /\ \E i \in DOMAIN read : Exchange(i) \/ \E d \in 0..9 : Misread(i, d)
              \/ NumberDone

NumberSpec == NumberInit /\ [][NumberNext]_<<phase, numberVars>>

-----------------------------------------------------------------------------
\* A number made as its standard says passes the rule of its field, so a correct
\* invoice is not sent to review for it (iban_checksum, reference_number,
\* business_id_checksum).
CorrectIsPassed == phase = "read" => passed

\* A number read with one digit wrong never passes, nor, except for a Finnish
\* reference whose exchanged digits differ by five, one with two neighbouring
\* digits exchanged.
WrongIsCaught ==
    /\ phase = "misread" => ~passed
    /\ phase = "exchanged" /\ kind # "finnish" => ~passed
    /\ phase = "exchanged" /\ kind = "finnish" /\ passed =>
           \E i \in DOMAIN read : read[i] # printed[i] /\ read[i] - printed[i] \in {-5, 5}
=============================================================================
