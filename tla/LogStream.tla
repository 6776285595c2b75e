----------------------------- MODULE LogStream ------------------------------
(***************************************************************************)
(* LogStream and FixedBuffer: a log line is put together piece by piece in *)
(* a buffer of fixed size, and a piece that does not fit is left out.      *)
(*                                                                         *)
(* A stream is the sequence of the pieces it kept and the bytes they use.  *)
(* Of a text only the length matters; numbers are really converted.        *)
(***************************************************************************)
EXTENDS Integers, Sequences, SequencesExt

CONSTANTS
  SIZE,             \* of the buffer (kSmallBuffer, 4000)
  kMaxNumericSize,  \* what a number may need (48)
  IntMax            \* the greatest int

\* staticCheck measures the numbers in powers of ten.
tens[n \in 0..kMaxNumericSize] == IF n = 0 THEN 1 ELSE 10 * tens[n - 1]

\* kMaxNumericSize has room for the digits of an int, its sign and one more (the
\* code's static_assert leaves ten).
ASSUME LogStreamAssumption ==
  /\ SIZE \in Nat /\ kMaxNumericSize \in Nat
  /\ IntMax \in Nat
  /\ kMaxNumericSize > 3 /\ IntMax < tens[kMaxNumericSize - 3]

-----------------------------------------------------------------------------
(* Numbers.                                                                *)

IntMin == -IntMax - 1

\* C's quotient and remainder, truncated toward zero.
Quot(i, n) == IF i < 0 THEN -((-i) \div n) ELSE i \div n
Rem(i, n) == i - n * Quot(i, n)

\* The table digits, entered in its middle, at zero.
digits == <<9, 8, 7, 6, 5, 4, 3, 2, 1, 0, 1, 2, 3, 4, 5, 6, 7, 8, 9>>

\* Mutant of zero: the table holds no digits for negative remainders.
zeroPositive(lsd) == digits[10 + (lsd % 10)]

zero(lsd) == digits[10 + lsd]
Minus == -1  \* the character

\* The digits of i, the last one first: the do loop.
Loop(base) ==
  LET loop[i \in IntMin..IntMax] ==
        <<IF base = 10 THEN zero(Rem(i, 10)) ELSE Rem(i, base)>>
          \o IF Quot(i, base) = 0 THEN <<>> ELSE loop[Quot(i, base)]
  IN  loop

convert ==
  [value \in IntMin..IntMax |->
     Reverse(Loop(10)[value] \o IF value < 0 THEN <<Minus>> ELSE <<>>)]

\* A pointer is not negative.
convertHex == [value \in 0..IntMax |-> Reverse(Loop(16)[value])]

\* What the characters of a number mean.
ValueOf(chars, base) ==
  LET negative == chars[1] = Minus
      abs == FoldLeft(LAMBDA acc, d : acc * base + d, 0,
                      IF negative THEN Tail(chars) ELSE chars)
  IN  IF negative THEN -abs ELSE abs

-----------------------------------------------------------------------------
(* The stream.                                                             *)

EmptyStream == [kept |-> <<>>, used |-> 0]
avail(s) == SIZE - s.used

\* Mutant of append: the last byte is used too.
appendToBrim(s, name, len) ==
  IF avail(s) >= len THEN [kept |-> Append(s.kept, name), used |-> s.used + len] ELSE s

\* FixedBuffer::append, operator<< of a bool, a char, a text, a source file.
append(s, name, len) ==
  IF avail(s) > len THEN [kept |-> Append(s.kept, name), used |-> s.used + len] ELSE s

\* formatInteger, operator<< of the integral types; a null character follows.
formatInteger(s, name, v) ==
  IF avail(s) >= kMaxNumericSize
  THEN [kept |-> Append(s.kept, name), used |-> s.used + Len(convert[v])] ELSE s

\* operator<< of a pointer: "0x" and hexadecimal digits.
formatPointer(s, name, v) ==
  IF avail(s) >= kMaxNumericSize
  THEN [kept |-> Append(s.kept, name), used |-> s.used + 2 + Len(convertHex[v])] ELSE s

\* operator<< of a double, which snprintf writes in at most len characters.
formatDouble(s, name, len) ==
  IF avail(s) >= kMaxNumericSize
  THEN [kept |-> Append(s.kept, name), used |-> s.used + len] ELSE s

\* A piece is a text or a double of a length, an integer or a pointer.
Put(s, p) ==
  CASE p.kind = "text" -> append(s, p.name, p.size)
    [] p.kind = "double" -> formatDouble(s, p.name, p.size)
    [] p.kind = "int" -> formatInteger(s, p.name, p.size)
    [] p.kind = "pointer" -> formatPointer(s, p.name, p.size)
PutAll(s, pieces) == FoldLeft(Put, s, pieces)
=============================================================================
