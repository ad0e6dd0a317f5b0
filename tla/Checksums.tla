------------------------------ MODULE Checksums ------------------------------
(***************************************************************************)
(* The checksum rules of P02 (validators/reference.py, iban.py and         *)
(* business_id.py).  A text, spaces taken out and upper case as _compact   *)
(* leaves it, is a sequence of characters: a digit is its value 0..9, a    *)
(* letter 10..35 as ISO 13616 counts it, "-" is Hyphen and Other is any    *)
(* character that is none of these.  Digits other than 0-9, which          *)
(* str.isdigit also accepts, are left out.                                 *)
(***************************************************************************)
EXTENDS Sums

Hyphen == 36
Other == 37

isDigit(c) == c \in 0..9
isAlpha(c) == c \in 10..35
R == 27
F == 15
I == 18

AllDigits(s) == \A i \in DOMAIN s : isDigit(s[i])

FI_WEIGHTS == <<7, 3, 1>>
WEIGHTS == <<7, 9, 10, 5, 8, 4, 2>>

\* int("".join(digits)) % 97 with the remainder taken as the digits come in.
remainder(chars) ==
    LET after[n \in 0..Len(chars)] ==
            IF n = 0 THEN 0 ELSE (after[n - 1] * (IF isDigit(chars[n]) THEN 10 ELSE 100) + chars[n]) % 97
    IN  after[Len(chars)]

_mod97(iban) ==
    LET rearranged == SubSeq(iban, 5, Len(iban)) \o SubSeq(iban, 1, 4)
    IN  IF \E i \in DOMAIN iban : ~(isDigit(iban[i]) \/ isAlpha(iban[i])) THEN -1 ELSE remainder(rearranged)

iban_checksum(compact) ==
    /\ Len(compact) \in 15..34
    /\ isAlpha(compact[1]) /\ isAlpha(compact[2]) /\ isDigit(compact[3]) /\ isDigit(compact[4])
    /\ SubSeq(compact, 1, 2) = <<F, I>> => Len(compact) = 18
    /\ _mod97(compact) = 1

Weighted(digits) == SumOf([i \in DOMAIN digits |-> digits[i] * FI_WEIGHTS[((i - 1) % 3) + 1]])

\* Mutant of _finnish_check_digit: weighted from the left.
_finnish_check_digitForward(body) == (10 - (Weighted(body) % 10)) % 10

reversed(body) == [i \in DOMAIN body |-> body[(Len(body) + 1) - i]]

_finnish_check_digit(body) == (10 - (Weighted(reversed(body)) % 10)) % 10

_finnish_reference(compact) ==
    /\ AllDigits(compact) /\ Len(compact) \in 4..20
    /\ compact[Len(compact)] = _finnish_check_digit(SubSeq(compact, 1, Len(compact) - 1))

_rf_reference(compact) ==
    /\ Len(compact) \in 5..25
    /\ isDigit(compact[3]) /\ isDigit(compact[4])
    /\ \A i \in 5..Len(compact) : isDigit(compact[i]) \/ isAlpha(compact[i])
    /\ _mod97(compact) = 1

reference_number(compact) ==
    IF Len(compact) >= 2 /\ compact[1] = R /\ compact[2] = F THEN _rf_reference(compact)
    ELSE compact # <<>> /\ _finnish_reference(compact)

\* Mutant of business_id_checksum: remainder 1 asks for the check digit 0.
business_id_checksumTen(raw) ==
    /\ Len(raw) = 9 /\ raw[8] = Hyphen
    /\ AllDigits(SubSeq(raw, 1, 7)) /\ isDigit(raw[9])
    /\ LET rest == SumOf([i \in 1..7 |-> raw[i] * WEIGHTS[i]]) % 11
       IN  raw[9] = IF rest \in {0, 1} THEN 0 ELSE 11 - rest

\* NNNNNNN-N; a body whose remainder is 1 has no check digit.
business_id_checksum(raw) ==
    /\ Len(raw) = 9 /\ raw[8] = Hyphen
    /\ AllDigits(SubSeq(raw, 1, 7)) /\ isDigit(raw[9])
    /\ LET rest == SumOf([i \in 1..7 |-> raw[i] * WEIGHTS[i]]) % 11
       IN  rest # 1 /\ raw[9] = IF rest = 0 THEN 0 ELSE 11 - rest
=============================================================================
