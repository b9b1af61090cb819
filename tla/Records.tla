------------------------------- MODULE Records -------------------------------
(***************************************************************************)
(* What is streamed to a log statement becomes the message of its record   *)
(* (plog/Record.h with Helpers/HexDump.h, AscDump.h and PrintVar.h).       *)
(*                                                                         *)
(* A string is a sequence of symbols, "nul" one of them: C++ strings may   *)
(* contain it, and C strings end at it.  A stream is what has been written *)
(* and whether numbers are written in hexadecimal.                         *)
(***************************************************************************)
EXTENDS Naturals, Sequences, SequencesExt

Nul == "nul"
Space == "space"

(* What is read of a C string.                                             *)
UpToNul(s) == SubSeq(s, 1, SelectInSeq(Append(s, Nul), LAMBDA c : c = Nul) - 1)

Without(s, symbols) ==
  FlattenSeq([i \in DOMAIN s |-> IF s[i] \in symbols THEN <<>> ELSE <<s[i]>>])

(* Splitting at a symbol: there is one part more than symbols to split at. *)
SplitSymbol(parts, c, symbol) ==
  IF c = symbol THEN Append(parts, <<>>)
                ELSE [parts EXCEPT ![Len(parts)] = Append(@, c)]

Split(s, symbol) ==
  LET split[i \in 0..Len(s)] ==
        IF i = 0 THEN << <<>> >> ELSE SplitSymbol(split[i - 1], s[i], symbol)
  IN  split[Len(s)]

-----------------------------------------------------------------------------
(* The values a statement streams.                                         *)

String(s) == [kind |-> "string", of |-> s]
Char(c) == [kind |-> "char", of |-> c]
Number(n) == [kind |-> "number", of |-> n]
Null == [kind |-> "null"]
Pair(v, w) == [kind |-> "pair", first |-> v, second |-> w]
Container(values) == [kind |-> "container", of |-> values]
Hex(bytes, group) == [kind |-> "hex", of |-> bytes, group |-> group]
Asc(bytes) == [kind |-> "asc", of |-> bytes]

(* PLOG_PRINT_VAR: names and values, for the log statement to stream.      *)
PrintVar(names, values) ==
  FlattenSeq([i \in DOMAIN values |->
    (IF i = 1 THEN <<>> ELSE <<String(<<",", Space>>)>>)
      \o <<String(<<names[i], ":", Space>>), values[i]>>])

-----------------------------------------------------------------------------
(* Streaming.                                                              *)

Record == [chars |-> <<>>, hex |-> FALSE]

Put(stream, s) == [stream EXCEPT !.chars = @ \o s]

Digits == <<"0", "1", "2", "3", "4", "5", "6", "7", "8", "9", "a", "b", "c", "d", "e", "f">>
TwoDigits(n, base) == <<Digits[(n \div base) + 1], Digits[(n % base) + 1]>>

(* The digits of a number.                                                 *)
Numeral(n, base) ==
  LET digits[k \in Nat] ==
        IF k < base THEN <<Digits[k + 1]>>
                    ELSE Append(digits[k \div base], Digits[(k % base) + 1])
  IN  digits[n]

OutNumber(stream, n) == Put(stream, Numeral(n, IF stream.hex THEN 16 ELSE 10))

(* const char*; a null pointer would stop the stream.                      *)
OutCString(stream, s) == Put(stream, UpToNul(s))
OutNull(stream) == Put(stream, <<"(null)">>)

(* Fault: the whole string is streamed.                                    *)
OutWholeString(stream, s) == Put(stream, s)

(* std::string is streamed as a C string: its own end may be lost, but not *)
(* what is streamed after it.                                              *)
OutString(stream, s) == OutCString(stream, s)

(* Fault: the index of the byte just written decides.                      *)
GroupEndsEarly(i, group) == group > 0 /\ (i - 1) % group = 0

(* After the i-th byte of a dump comes the separator of groups.            *)
GroupEnds(i, group) == group > 0 /\ i % group = 0

(* Two spaces; between the bytes of a group there is one.                  *)
groupSeparator == "spaces"

(* HexDump; std::hex is never taken back.                                  *)
OutHex(stream, bytes, group) ==
  LET Separator(i) == IF i = Len(bytes) THEN <<>>
                      ELSE IF GroupEnds(i, group) THEN <<groupSeparator>> ELSE <<Space>>
      dump == FlattenSeq([i \in DOMAIN bytes |-> TwoDigits(bytes[i], 16) \o Separator(i)])
  IN  Put([stream EXCEPT !.hex = TRUE], dump)

(* AscDump: a letter stands for those that can be printed.                 *)
isprint(byte) == byte \in 32..126
OutAsc(stream, bytes) ==
  Put(stream, [i \in DOMAIN bytes |-> IF isprint(bytes[i]) THEN "letter" ELSE "."])

(* A char inside a pair or a container is the stream's own affair.         *)
OutElement(stream, v) ==
  CASE v.kind = "string" -> OutString(stream, v.of)
    [] v.kind = "number" -> OutNumber(stream, v.of)
    [] v.kind = "null" -> OutNull(stream)
    [] v.kind = "char" -> Put(stream, <<v.of>>)

OutPair(stream, v) ==
  IF v.kind = "pair"
  THEN OutElement(Put(OutElement(stream, v.first), <<":">>), v.second)
  ELSE OutElement(stream, v)

OutContainer(stream, values) ==
  LET Element(i) == OutPair([stream EXCEPT !.chars = <<>>], values[i]).chars
      Separator(i) == IF i = Len(values) THEN <<>> ELSE <<",", Space>>
      elements == FlattenSeq([i \in DOMAIN values |-> Element(i) \o Separator(i)])
  IN  Put(stream, <<"[">> \o elements \o <<"]">>)

(* A char alone becomes a C string of one.                                 *)
OutChar(stream, c) == OutCString(stream, <<c>>)

(* Record::operator<<.                                                     *)
Out(stream, v) ==
  CASE v.kind = "char" -> OutChar(stream, v.of)
    [] v.kind = "container" -> OutContainer(stream, v.of)
    [] v.kind = "hex" -> OutHex(stream, v.of, v.group)
    [] v.kind = "asc" -> OutAsc(stream, v.of)
    [] OTHER -> OutPair(stream, v)

(* A statement streams its values one after the other.                     *)
Streamed(stream, values) ==
  LET streamed[i \in 0..Len(values)] ==
        IF i = 0 THEN stream ELSE Out(streamed[i - 1], values[i])
  IN  streamed[Len(values)]

getMessage(stream) == UpToNul(stream.chars)
=============================================================================
