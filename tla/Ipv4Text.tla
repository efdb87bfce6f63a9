------------------------------ MODULE Ipv4Text ------------------------------
(***************************************************************************)
(* The conversion of return codes between dotted text and number           *)
(* (IPv4StrToUint32 and Uint32ToIPv4Str in src/src/helpers.go).  A uint32   *)
(* is the sequence of its four bytes, most significant first.              *)
(*                                                                         *)
(* A text is a sequence of characters; each state of the specification is  *)
(* one text.                                                               *)
(***************************************************************************)
EXTENDS Naturals, Sequences, Functions

CONSTANTS
  Digits,     \* bound: the digits that occur, as numbers
  Dot, Other, \* the character ".", and any that is neither dot nor digit
  MaxLen      \* bound: length of a text

ASSUME Ipv4TextAssumption ==
  /\ Digits \subseteq 0..9 /\ MaxLen \in Nat
  /\ Dot # Other /\ {Dot, Other} \cap 0..9 = {}

VARIABLE text

----------------------------------------------------------------------------
Zero == <<0, 0, 0, 0>>

\* result<<8 | octet.
Shifted(result, octet) == <<result[2], result[3], result[4], octet>>

Start == [result |-> Zero, octet |-> 0, dots |-> 0, ok |-> TRUE]
Fail  == [Start EXCEPT !.ok = FALSE]

\* Mutant: the octet is not reset after a dot.
scanMutant(s, c) ==
  IF ~s.ok \/ c = Other \/ (c = Dot /\ s.dots = 3) THEN Fail
  ELSE IF c = Dot
    THEN [s EXCEPT !.result = Shifted(s.result, s.octet), !.dots = @ + 1]
  ELSE IF s.octet * 10 + c > 255 THEN Fail ELSE [s EXCEPT !.octet = @ * 10 + c]

\* The loop body for character c; Fail stands for having returned 0.
scan(s, c) ==
  IF ~s.ok \/ c = Other \/ (c = Dot /\ s.dots = 3) THEN Fail
  ELSE IF c = Dot
    THEN [s EXCEPT !.result = Shifted(s.result, s.octet), !.octet = 0,
                   !.dots = @ + 1]
  ELSE IF s.octet * 10 + c > 255 THEN Fail ELSE [s EXCEPT !.octet = @ * 10 + c]

\* The states of the loop: before the first character, and after each.
scans(t) ==
  LET at[n \in 0..Len(t)] == IF n = 0 THEN Start ELSE scan(at[n - 1], t[n])
  IN at

IPv4StrToUint32(t) ==
  LET s == scans(t)[Len(t)] IN
  IF s.ok /\ s.dots = 3 THEN Shifted(s.result, s.octet) ELSE Zero

\* Mutant: the tens of a number with three digits are not reduced.
appendUint8Mutant(v) ==
  IF v >= 100 THEN <<v \div 100, (v \div 10) % 100, v % 10>>
  ELSE IF v >= 10 THEN <<v \div 10, v % 10>>
  ELSE <<v>>

\* The digits of a byte.
appendUint8(v) ==
  IF v >= 100 THEN <<v \div 100, (v \div 10) % 10, v % 10>>
  ELSE IF v >= 10 THEN <<v \div 10, v % 10>>
  ELSE <<v>>

Uint32ToIPv4Str(n) ==
  appendUint8(n[1]) \o <<Dot>> \o appendUint8(n[2]) \o <<Dot>>
    \o appendUint8(n[3]) \o <<Dot>> \o appendUint8(n[4])

----------------------------------------------------------------------------
\* A text gets longer until the scan of it has failed.
longer ==
  /\ Len(text) < MaxLen
  /\ scans(text)[Len(text)].ok
  /\ \E c \in Digits \cup {Dot, Other} : text' = Append(text, c)

TextSpec == text = <<>> /\ [][longer]_text

----------------------------------------------------------------------------
(* Properties                                                              *)

Dots(t) == {k \in DOMAIN t : t[k] = Dot}

\* 1, 10, 100, ...
tens(n) ==
  LET power[k \in 0..n] == IF k = 0 THEN 1 ELSE 10 * power[k - 1] IN power[n]

\* The number that the digits of t between positions i and j are written for,
\* and 0 if there are none.
Number(t, i, j) ==
  LET sum[k \in i..(j - 1)] ==
        IF k = i THEN 0 ELSE sum[k - 1] + t[k] * tens((j - 1) - k)
  IN sum[j - 1]

\* The numbers before, between and behind the dots at i, j and k.
Numbers(t, i, j, k) ==
  <<Number(t, 0, i), Number(t, i, j), Number(t, j, k),
    Number(t, k, Len(t) + 1)>>

\* t is four numbers up to 255 with dots between them, and these are the dots.
Quad(t, i, j, k) ==
  /\ Other \notin Range(t)
  /\ Dots(t) = {i, j, k} /\ i < j /\ j < k
  /\ \A n \in 1..4 : Numbers(t, i, j, k)[n] <= 255

\* Some part of t has no digits.
EmptyPart(t) == \E k \in Dots(t) : k = 1 \/ k = Len(t) \/ t[k - 1] = Dot

\* IPv4StrToUint32 gives the bytes the four parts of a dotted text are written
\* for, and 0 for a text with another number of parts, with a part above 255 or
\* with another character.  Nothing is said of texts with four parts of which
\* some are empty: the comment on the function promises 0 "for any invalid
\* input", the code takes an empty part for 0 and keeps the others.
ParsesExactly ==
  /\ \A i, j, k \in Dots(text) :
       Quad(text, i, j, k) /\ ~EmptyPart(text) =>
         IPv4StrToUint32(text) = Numbers(text, i, j, k)
  /\ (\A i, j, k \in Dots(text) : ~Quad(text, i, j, k)) =>
       IPv4StrToUint32(text) = Zero

\* A return code that is stored in etcd as text and read back after a restart
\* is the one the request gave.
RoundTrip ==
  LET n == IPv4StrToUint32(text) IN IPv4StrToUint32(Uint32ToIPv4Str(n)) = n
=============================================================================
