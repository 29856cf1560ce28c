----------------------------- MODULE FixedPoint -----------------------------
(***************************************************************************)
(* hw1/fixedpoint.c: sign and magnitude numbers of two unsigned words, the *)
(* whole and the fractional part, and a tag.  A program keeps one value    *)
(* and passes it to one function after another; every call and what it     *)
(* returned is in `call' until the next.                                   *)
(*                                                                         *)
(* A word is Digits digits of base Base (16 of base 16 in the code), and   *)
(* its arithmetic wraps.  A text is a sequence of characters.  The assert  *)
(* at the head of a function is its guard here.                            *)
(***************************************************************************)
EXTENDS Integers, SequencesExt

CONSTANTS Base, Digits

ASSUME WordAssumption == Base \in 2 .. 16 /\ Base % 2 = 0 /\ Digits \in Nat \ {0}

\* Base to the n-th.
Power[n \in Nat] == IF n = 0 THEN 1 ELSE Base * Power[n - 1]
Word == Power[Digits]
Words == 0 .. Word - 1
Half == Word \div 2     \* the halves place of a fraction

Tags == {"VALID_NONNEG", "VALID_NEG", "ERROR_VALUE", "POS_OVERFLOW", "NEG_OVERFLOW",
         "POS_UNDERFLOW", "NEG_UNDERFLOW"}
Fixedpoint == [whole_p : Words, frac_p : Words, tag : Tags]

Value(w, f, t) == [whole_p |-> w, frac_p |-> f, tag |-> t]
ErrorValue == Value(0, 0, "ERROR_VALUE")

is_valid(v) == v.tag \in {"VALID_NEG", "VALID_NONNEG"}
is_zero(v) == v.whole_p = 0 /\ v.frac_p = 0
is_neg(v) == v.tag = "VALID_NEG"
Valid == {v \in Fixedpoint : is_valid(v)}

-----------------------------------------------------------------------------

negate(v) == IF is_zero(v) THEN v
             ELSE [v EXCEPT !.tag = IF is_neg(v) THEN "VALID_NONNEG" ELSE "VALID_NEG"]

\* Greater, less or equal by the words, as 1, -1 or 0.
Order(a, b) == CASE a.whole_p > b.whole_p -> 1
                 [] a.whole_p < b.whole_p -> -1
                 [] OTHER -> IF a.frac_p > b.frac_p THEN 1
                             ELSE IF a.frac_p < b.frac_p THEN -1 ELSE 0

\* Forgets that the order of two negative values is the other way round.
CompareMagnitudes(a, b) == IF a.tag # b.tag THEN (IF is_neg(b) THEN 1 ELSE -1) ELSE Order(a, b)

compare(a, b) == IF a.tag # b.tag THEN (IF is_neg(b) THEN 1 ELSE -1)
                 ELSE IF is_neg(a) THEN -Order(a, b) ELSE Order(a, b)

\* |a| - |b| for |a| > |b|, with the sign of a.
Minus(a, b) ==
    LET borrow == IF b.frac_p > a.frac_p THEN 1 ELSE 0
    IN  Value((a.whole_p - b.whole_p - borrow) % Word, (a.frac_p - b.frac_p) % Word, a.tag)

\* Takes no carry into account when it looks for an overflow.
PlusCarryUnseen(a, b) ==
    LET frac == (a.frac_p + b.frac_p) % Word
        carry == IF frac < a.frac_p THEN 1 ELSE 0
        whole == (a.whole_p + b.whole_p + carry) % Word
    IN  Value(whole, frac,
              IF whole < a.whole_p
              THEN IF is_neg(a) THEN "NEG_OVERFLOW" ELSE "POS_OVERFLOW" ELSE a.tag)

Plus(a, b) ==
    LET frac == (a.frac_p + b.frac_p) % Word
        carry == IF frac < a.frac_p THEN 1 ELSE 0
        whole == (a.whole_p + b.whole_p + carry) % Word
        overflow == whole < a.whole_p \/ (whole = a.whole_p /\ b.whole_p # 0)
    IN  Value(whole, frac,
              IF ~overflow THEN a.tag
              ELSE IF is_neg(a) THEN "NEG_OVERFLOW" ELSE "POS_OVERFLOW")

add(a, b) ==
    IF a.tag = b.tag THEN Plus(a, b)
    ELSE LET order == IF is_neg(a) THEN compare(negate(a), b) ELSE compare(a, negate(b))
         IN  CASE order = 0  -> Value(0, 0, "VALID_NONNEG")
               [] order = 1  -> Minus(a, b)
               [] order = -1 -> Minus(b, a)

sub(a, b) == add(a, negate(b))

halve(v) ==
    Value(v.whole_p \div 2, v.frac_p \div 2 + (v.whole_p % 2) * Half,
          IF v.frac_p % 2 = 0 THEN v.tag
          ELSE IF is_neg(v) THEN "NEG_UNDERFLOW" ELSE "POS_UNDERFLOW")

double(v) == add(v, v)

-----------------------------------------------------------------------------
DigitChars == SubSeq(<<"0", "1", "2", "3", "4", "5", "6", "7", "8", "9",
                       "a", "b", "c", "d", "e", "f">>, 1, Base)
IsDigit(c) == c \in ToSet(DigitChars)
DigitValue(c) == CHOOSE d \in 0 .. Base - 1 : DigitChars[d + 1] = c

\* strtoull.
Number(s) == FoldLeft(LAMBDA n, c : n * Base + DigitValue(c), 0, s)
Zeroes(n) == [i \in 1 .. n |-> "0"]
\* %0*llx.
DigitsOf(n) == [i \in 1 .. Digits |-> DigitChars[((n \div Power[Digits - i]) % Base) + 1]]

Before(s, c) == LET at == {i \in 1 .. Len(s) : s[i] = c}
                IN  IF at = {} THEN s
                    ELSE SubSeq(s, 1, (CHOOSE i \in at : \A j \in at : i <= j) - 1)

\* The fraction read as if its digits were the last, not the first.
FractionUnpadded(s) == Number(s)
\* Zeroes are appended up to the length of a word.
Fraction(s) == Number(s \o Zeroes(Digits - Len(s)))

TooLong(s) == Len(s) > Digits

\* For runs of up to Digits + 1 digits, which fit wholeS and fracS.  The lengths
\* are compared after the digits have been stored (lines 38, 53, then 62): a longer
\* run is written past the end of its array, and has no result here.
create_from_hex(text) ==
    LET negative == Len(text) > 0 /\ text[1] = "-"
        body == IF negative THEN Tail(text) ELSE text
        whole == Before(body, ".")
        frac == SubSeq(body, Len(whole) + 2, Len(body))
    IN  IF \/ \E c \in ToSet(whole \o frac) : ~IsDigit(c)
           \/ TooLong(whole) \/ TooLong(frac)
           \/ whole = <<>> /\ frac = <<>>
        THEN ErrorValue
        ELSE Value(Number(whole), Fraction(frac),
                   IF negative THEN "VALID_NEG" ELSE "VALID_NONNEG")

WithoutLeading(s) == LET at == {i \in 1 .. Len(s) : s[i] # "0"} \cup {Len(s)}
                     IN  SubSeq(s, CHOOSE i \in at : \A j \in at : i <= j, Len(s))
WithoutTrailing(s) == SubSeq(s, 1, CHOOSE i \in 1 .. Len(s) :
                                       s[i] # "0" /\ \A j \in i + 1 .. Len(s) : s[j] = "0")

format_as_hex(v) ==
    (IF is_neg(v) THEN <<"-">> ELSE <<>>)
    \o WithoutLeading(DigitsOf(v.whole_p))
    \o (IF v.frac_p = 0 THEN <<>> ELSE <<".">> \o WithoutTrailing(DigitsOf(v.frac_p)))

-----------------------------------------------------------------------------
VARIABLES val,   \* the value in hand
          call   \* the last call: its name, operands and result

vars == <<val, call>>

NoCall == [op |-> "none"]

\* What is parsed: up to one digit too many before and after the point, which is as
\* many as the arrays of create_from_hex hold, a second point and a character that
\* is no digit.
DigitRuns == UNION {[1 .. n -> ToSet(DigitChars)] : n \in 0 .. Digits + 1}
Texts == {sign \o whole \o rest : sign \in {<<>>, <<"-">>}, whole \in DigitRuns,
                                  rest \in {<<>>} \cup {<<".">> \o frac : frac \in DigitRuns}
                                           \cup {<<".", "1", ".">>, <<"x">>, <<".", "x">>}}

Init == val = Value(0, 0, "VALID_NONNEG") /\ call = NoCall

Return(name, left, right, result) ==
    /\ call = NoCall
    /\ call' = [op |-> name, left |-> left, right |-> right, result |-> result]

Yields(name, right, result) == Return(name, val, right, result) /\ val' = result

Create2(w, f) == call = NoCall /\ val' = Value(w, f, "VALID_NONNEG") /\ UNCHANGED call
Parse(text) == /\ Return("create_from_hex", text, text, create_from_hex(text))
               /\ val' = create_from_hex(text)
Add(x) == is_valid(val) /\ Yields("add", x, add(val, x))
Subtract(x) == is_valid(val) /\ Yields("sub", x, sub(val, x))
Negate == is_valid(val) /\ Yields("negate", val, negate(val))
Halve == is_valid(val) /\ Yields("halve", val, halve(val))
Double == is_valid(val) /\ Yields("double", val, double(val))
Compare(x) == is_valid(val) /\ Return("compare", val, x, compare(val, x)) /\ UNCHANGED val
Format == is_valid(val) /\ Return("format_as_hex", val, val, format_as_hex(val)) /\ UNCHANGED val
Returned == call # NoCall /\ call' = NoCall /\ UNCHANGED val

Next == \/ \E w, f \in Words : Create2(w, f)
        \/ \E text \in Texts : Parse(text)
        \/ \E x \in Valid : Add(x) \/ Subtract(x) \/ Compare(x)
        \/ Negate \/ Halve \/ Double \/ Format
        \/ Returned

Spec == Init /\ [][Next]_vars

-----------------------------------------------------------------------------
\* The number a valid value stands for, in units of its lowest bit.
Num(v) == (IF is_neg(v) THEN -1 ELSE 1) * (v.whole_p * Word + v.frac_p)
NegativeZero(v) == is_neg(v) /\ is_zero(v)
InRange(n) == n \in -(Word * Word - 1) .. Word * Word - 1

\* A value has its words and its tag; no call leaves an invalid value but an
\* overflow, an underflow or an error.
TypeOK == /\ val \in Fixedpoint
          /\ call # NoCall =>
                call.op \in {"create_from_hex", "add", "sub", "negate", "halve", "double",
                             "compare", "format_as_hex"}

Exactly(n) == IF InRange(n) THEN is_valid(call.result) /\ Num(call.result) = n
              ELSE call.result.tag = IF n < 0 THEN "NEG_OVERFLOW" ELSE "POS_OVERFLOW"

\* A sum, a difference and a double are exact or say on which side they left
\* the range, with every carry between the words and every wrap-around
\* (fixedpoint.h's contract of add, sub and double).
SumsExact == /\ call.op = "add" => Exactly(Num(call.left) + Num(call.right))
             /\ call.op = "sub" => Exactly(Num(call.left) - Num(call.right))
             /\ call.op = "double" => Exactly(2 * Num(call.left))

\* Halving is exact or says that a bit was lost and with which sign.
HalvesExact ==
    call.op = "halve" =>
        IF Num(call.left) % 2 = 0
        THEN is_valid(call.result) /\ 2 * Num(call.result) = Num(call.left)
        ELSE call.result.tag = IF is_neg(call.left) THEN "NEG_UNDERFLOW" ELSE "POS_UNDERFLOW"

Sign(n) == IF n > 0 THEN 1 ELSE IF n < 0 THEN -1 ELSE 0

\* compare orders values as their numbers are ordered.  A zero parsed with a
\* minus sign, and sums of such zeroes, are the exception: their tag alone
\* decides (fixedpoint.c:189).
ComparesNumbers ==
    call.op = "compare" /\ ~NegativeZero(call.left) /\ ~NegativeZero(call.right) =>
        call.result = Sign(Num(call.left) - Num(call.right))

\* No arithmetic makes a negative zero of operands that are not.
NoNewNegativeZero ==
    call.op \in {"add", "sub", "negate", "halve", "double"} /\ NegativeZero(call.result) =>
        NegativeZero(call.left)

\* Arithmetic is exact or says what was lost, and makes no negative zero.
ArithmeticExact == TypeOK /\ SumsExact /\ HalvesExact /\ NoNewNegativeZero

\* What format_as_hex prints, create_from_hex reads back as the same value.
RoundTrip == call.op = "format_as_hex" => create_from_hex(call.result) = call.left
=============================================================================
