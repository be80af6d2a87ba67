----------------------------- MODULE Parameters -----------------------------
(***************************************************************************)
(* The integers of paths and query strings: strconv.ParseInt followed by   *)
(* the look at the first byte that makes the accepted texts canonical.  A  *)
(* text is a sequence of characters, an absent parameter is NoText.  A     *)
(* parse yields the set of its one value, or {}.                           *)
(***************************************************************************)
EXTENDS Integers, Sequences

CONSTANTS MaxInt64,    \* last int64 and last BIGSERIAL, scaled down
          MaxPage,     \* MaxMismatchPeerLimit, MaxInspectionHistoryLimit
          DefaultPage, \* DefaultMismatchPeerLimit, DefaultInspectionHistoryLimit
          NoText

ASSUME ParametersAssumption == /\ MaxInt64 \in Nat \ {0}
                               /\ MaxPage \in 1..MaxInt64
                               /\ DefaultPage \in 1..MaxPage

Digits == <<"0", "1", "2", "3", "4", "5", "6", "7", "8", "9">>

DigitValue == [c \in {Digits[k] : k \in DOMAIN Digits} |->
                 (CHOOSE k \in DOMAIN Digits : Digits[k] = c) - 1]

\* What a sequence of digits says in base 10.
ValueOf(digits) ==
  LET upTo[k \in 0..Len(digits)] ==
        IF k = 0 THEN 0 ELSE 10 * upTo[k - 1] + DigitValue[digits[k]]
  IN  upTo[Len(digits)]

Signs == {"+", "-"}

\* strconv.ParseInt(text, 10, 64): an optional sign, digits, within range.
ParseInt(text) ==
  LET signed == text # <<>> /\ text[1] \in Signs
      digits == IF signed THEN Tail(text) ELSE text
      value  == IF signed /\ text[1] = "-" THEN - ValueOf(digits) ELSE ValueOf(digits)
  IN  IF digits = <<>> \/ \E k \in DOMAIN digits : digits[k] \notin DOMAIN DigitValue
      THEN {}
      ELSE {value} \cap (- MaxInt64 - 1 .. MaxInt64)

\* The first byte is one of '1' to '9'.
Canonical(text) == text[1] \in DOMAIN DigitValue \ {"0"}

\* Mutant: ParseInt's own leniency is let through.
ParsePositiveIDLenient(text) == {n \in ParseInt(text) : n > 0}

ParsePositiveID(text) == {n \in ParseInt(text) : n > 0 /\ Canonical(text)}

ParseLimit(text) ==
  IF text = NoText THEN {DefaultPage}
  ELSE {n \in ParseInt(text) : n \in 1..MaxPage /\ Canonical(text)}

\* fmt's %d, by which a client puts an id it was given into the next request.
Numeral[n \in 0..MaxInt64] ==
  IF n < 10 THEN <<Digits[n + 1]>>
  ELSE Append(Numeral[n \div 10], Digits[(n % 10) + 1])
=============================================================================
