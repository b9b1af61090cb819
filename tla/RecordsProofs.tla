--------------------------- MODULE RecordsProofs ---------------------------
(***************************************************************************)
(* Theorems about modules Records and Formats, for every set of symbols    *)
(* and every string however long: that what is dumped can be read from the *)
(* dump, and that a line has all that was streamed to its record.          *)
(***************************************************************************)
EXTENDS FormatsProofs

-----------------------------------------------------------------------------
(* Reading a dump.  A state of the reading, and what a symbol does to it.  *)

DumpSet == DigitSet \cup {groupSeparator, Space}

(* The dump s has been split into the groups Q and another that has the    *)
(* bytes q and the symbols e of one more.                                  *)
Reached(s, Q, q, e) ==
  \E p \in Seq(Seq(DumpSet)), l \in Seq(DumpSet) :
    /\ s \in Seq(DumpSet) /\ q \in Seq(Seq(DumpSet)) /\ e \in Seq(DumpSet)
    /\ Q \in Seq(Seq(Seq(DumpSet)))
    /\ Split(s, groupSeparator) = Grown(p, l)
    /\ Split(l, Space) = Grown(q, e)
    /\ Len(Q) = Len(p) /\ \A g \in 1..Len(p) : Q[g] = Split(p[g], Space)

LEMMA ReachedFirst == Reached(<<>>, <<>>, <<>>, <<>>)
<1> DEFINE e == <<>>
<1>1. e \in Seq(DumpSet) /\ e \in Seq(Seq(DumpSet)) /\ e \in Seq(Seq(Seq(DumpSet))) /\ Len(e) = 0
  OBVIOUS
<1>2. Grown(e, e) = << <<>> >>
  BY DEF Grown
<1>3. \A symbol : Split(e, symbol) = Grown(e, e)
  BY <1>2, SplitNothing
<1> HIDE DEF e
<1>4. Len(e) = Len(e) /\ \A g \in 1..Len(e) : e[g] = Split(e[g], Space)
  BY <1>1
<1>5. Split(e, groupSeparator) = Grown(e, e) /\ Split(e, Space) = Grown(e, e)
  BY <1>3
<1>6. Reached(e, e, e, e)
  BY <1>1, <1>4, <1>5, Zenon DEF Reached
<1> QED BY <1>6 DEF e

(* A digit belongs to the byte that was begun, ...                         *)
LEMMA ReachedDigit ==
  ASSUME NEW s, NEW Q, NEW q, NEW e, Reached(s, Q, q, e), NEW c \in DigitSet
  PROVE  Reached(Append(s, c), Q, q, Append(e, c))
<1> DEFINE S == DumpSet
<1>1. PICK p \in Seq(Seq(S)), l \in Seq(S) :
        /\ s \in Seq(S) /\ q \in Seq(Seq(S)) /\ e \in Seq(S) /\ Q \in Seq(Seq(Seq(S)))
        /\ Split(s, groupSeparator) = Grown(p, l)
        /\ Split(l, Space) = Grown(q, e)
        /\ Len(Q) = Len(p) /\ \A g \in 1..Len(p) : Q[g] = Split(p[g], Space)
  BY DEF Reached
<1>2. c \in S /\ c # groupSeparator /\ c # Space
  BY DEF DumpSet, DigitSet, groupSeparator, Space
<1> HIDE DEF S
<1> DEFINE sc == Append(s, c)
           lc == Append(l, c)
           ec == Append(e, c)
<1>3. sc \in Seq(S) /\ lc \in Seq(S) /\ ec \in Seq(S)
  BY <1>1, <1>2
<1>4. Split(sc, groupSeparator) = SplitSymbol(Grown(p, l), c, groupSeparator)
  BY <1>1, <1>2, SplitAppended
<1>5. SplitSymbol(Grown(p, l), c, groupSeparator) = Grown(p, lc)
  BY <1>1, <1>2, SplitLast DEF Grown
<1>6. Split(lc, Space) = SplitSymbol(Grown(q, e), c, Space)
  BY <1>1, <1>2, SplitAppended
<1>7. SplitSymbol(Grown(q, e), c, Space) = Grown(q, ec)
  BY <1>1, <1>2, SplitLast DEF Grown
<1> HIDE DEF sc, lc, ec
<1>8. Reached(sc, Q, q, ec)
  BY <1>1, <1>3, <1>4, <1>5, <1>6, <1>7 DEF Reached, S
<1> QED BY <1>8 DEF sc, ec

(* ... a space ends the byte, ...                                          *)
LEMMA ReachedByte ==
  ASSUME NEW s, NEW Q, NEW q, NEW e, Reached(s, Q, q, e)
  PROVE  Reached(Append(s, Space), Q, Append(q, e), <<>>)
<1> DEFINE S == DumpSet
           c == Space
<1>1. PICK p \in Seq(Seq(S)), l \in Seq(S) :
        /\ s \in Seq(S) /\ q \in Seq(Seq(S)) /\ e \in Seq(S) /\ Q \in Seq(Seq(Seq(S)))
        /\ Split(s, groupSeparator) = Grown(p, l)
        /\ Split(l, Space) = Grown(q, e)
        /\ Len(Q) = Len(p) /\ \A g \in 1..Len(p) : Q[g] = Split(p[g], Space)
  BY DEF Reached
<1>2. c \in S /\ c # groupSeparator /\ c = Space
  BY DEF DumpSet, groupSeparator, Space
<1> HIDE DEF S, c
<1> DEFINE sc == Append(s, c)
           lc == Append(l, c)
           qe == Append(q, e)
           none == <<>>
<1>3. sc \in Seq(S) /\ lc \in Seq(S) /\ qe \in Seq(Seq(S)) /\ none \in Seq(S)
  BY <1>1, <1>2
<1>4. Split(sc, groupSeparator) = SplitSymbol(Grown(p, l), c, groupSeparator)
  BY <1>1, <1>2, SplitAppended
<1>5. SplitSymbol(Grown(p, l), c, groupSeparator) = Grown(p, lc)
  BY <1>1, <1>2, SplitLast DEF Grown
<1>6. Split(lc, Space) = SplitSymbol(Grown(q, e), c, Space)
  BY <1>1, <1>2, SplitAppended
<1>7. SplitSymbol(Grown(q, e), c, Space) = Grown(qe, none)
  BY <1>1, <1>2, SplitLast DEF Grown
<1> HIDE DEF sc, lc, qe, none
<1>8. Reached(sc, Q, qe, none)
  BY <1>1, <1>3, <1>4, <1>5, <1>6, <1>7 DEF Reached, S
<1> QED BY <1>2, <1>8 DEF sc, qe, none

(* ... a separator the byte and the group.                                 *)
LEMMA ReachedGroup ==
  ASSUME NEW s, NEW Q, NEW q, NEW e, Reached(s, Q, q, e)
  PROVE  Reached(Append(s, groupSeparator), Append(Q, Append(q, e)), <<>>, <<>>)
<1> DEFINE S == DumpSet
           c == groupSeparator
<1>1. PICK p \in Seq(Seq(S)), l \in Seq(S) :
        /\ s \in Seq(S) /\ q \in Seq(Seq(S)) /\ e \in Seq(S) /\ Q \in Seq(Seq(Seq(S)))
        /\ Split(s, groupSeparator) = Grown(p, l)
        /\ Split(l, Space) = Grown(q, e)
        /\ Len(Q) = Len(p) /\ \A g \in 1..Len(p) : Q[g] = Split(p[g], Space)
  BY DEF Reached
<1>2. c \in S /\ c = groupSeparator
  BY DEF DumpSet
<1> HIDE DEF S, c
<1> DEFINE sc == Append(s, c)
           pl == Append(p, l)
           qe == Append(q, e)
           Qq == Append(Q, qe)
           none == <<>>
<1>3. /\ sc \in Seq(S) /\ qe \in Seq(Seq(S)) /\ none \in Seq(S) /\ none \in Seq(Seq(S))
      /\ pl \in Seq(Seq(S))
  BY <1>1, <1>2
<1>4. Split(sc, groupSeparator) = SplitSymbol(Grown(p, l), c, groupSeparator)
  BY <1>1, <1>2, SplitAppended
<1>5. SplitSymbol(Grown(p, l), c, groupSeparator) = Grown(pl, none)
  BY <1>1, <1>2, SplitLast DEF Grown
<1>6. Split(none, Space) = Grown(none, none)
  BY SplitNothing DEF Grown
<1>7. Split(l, Space) = qe
  BY <1>1 DEF Grown
<1> HIDE DEF sc, qe, none
<1>8. /\ Qq \in Seq(Seq(Seq(S))) /\ Len(Qq) = Len(Q) + 1 /\ Qq[Len(Q) + 1] = qe
      /\ \A g \in 1..Len(Q) : Qq[g] = Q[g]
  <2>1. Q \in Seq(Seq(Seq(S))) /\ qe \in Seq(Seq(S))
    BY <1>1, <1>3
  <2> QED BY <2>1, OneMore
<1>9. /\ Len(pl) = Len(p) + 1 /\ pl[Len(p) + 1] = l /\ \A g \in 1..Len(p) : pl[g] = p[g]
  <2>1. p \in Seq(Seq(S)) /\ l \in Seq(S)
    BY <1>1
  <2> QED BY <2>1, OneMore
<1>10. Len(Qq) = Len(pl) /\ \A g \in 1..Len(pl) : Qq[g] = Split(pl[g], Space)
  <2>1. Len(p) \in Nat /\ Len(Q) = Len(p) /\ \A g \in 1..Len(p) : Q[g] = Split(p[g], Space)
    BY <1>1, LenProperties
  <2>2. Qq[Len(p) + 1] = Split(pl[Len(p) + 1], Space)
    BY <2>1, <1>7, <1>8, <1>9
  <2>3. ASSUME NEW g \in 1..Len(p) PROVE Qq[g] = Split(pl[g], Space)
    BY <2>1, <1>8, <1>9
  <2>4. Len(pl) = Len(p) + 1 /\ Len(Qq) = Len(p) + 1
    BY <2>1, <1>8, <1>9
  <2> HIDE DEF Qq, pl
  <2> QED BY <2>1, <2>2, <2>3, <2>4
<1> HIDE DEF Qq, pl
<1>11. Reached(sc, Qq, none, none)
  BY <1>3, <1>4, <1>5, <1>6, <1>8, <1>10 DEF Reached, S
<1> QED BY <1>2, <1>11 DEF sc, Qq, qe, none

(* The number of a digit.                                                  *)
Nibble(digit) == SelectInSeq(Digits, LAMBDA d : d = digit) - 1

LEMMA NibbleIs ==
  ASSUME NEW k \in 1..16
  PROVE  Nibble(Digits[k]) = k - 1
<1> DEFINE T == {i \in 1..Len(Digits) : Digits[i] = Digits[k]}
<1>1. Len(Digits) = 16
  BY DEF Digits
<1>2. k \in T /\ T \subseteq Nat /\ \A m \in T : k <= m
  BY <1>1, DigitsDiffer
<1> HIDE DEF T
<1>3. Min(T) = k /\ T # {}
  BY <1>2, MinIs
<1>4. Nibble(Digits[k]) = (IF T # {} THEN Min(T) ELSE 0) - 1
  BY DEF Nibble, SelectInSeq, T
<1> QED BY <1>3, <1>4

(* The number of a byte is found from its two digits.                      *)
LEMMA ByteRead ==
  ASSUME NEW byte \in 0..255
  PROVE  LET pair == TwoDigits(byte, 16)
         IN  16 * Nibble(pair[1]) + Nibble(pair[2]) = byte
<1> DEFINE hi == byte \div 16
           lo == byte % 16
<1>1. hi \in 0..15 /\ lo \in 0..15 /\ byte = 16 * hi + lo
  <2>1. hi \in Nat /\ lo \in 0..15 /\ byte = 16 * hi + lo
    BY LastDigit
  <2> HIDE DEF hi, lo
  <2> QED BY <2>1
<1> HIDE DEF hi, lo
<1> DEFINE i == hi + 1
           j == lo + 1
           a == Digits[i]
           b == Digits[j]
<1>2. i \in 1..16 /\ j \in 1..16 /\ i - 1 = hi /\ j - 1 = lo
  BY <1>1
<1>3. TwoDigits(byte, 16) = <<a, b>>
  BY DEF TwoDigits, hi, lo
<1> HIDE DEF i, j
<1>4. Nibble(Digits[i]) = i - 1 /\ Nibble(Digits[j]) = j - 1
  BY <1>2, NibbleIs
<1>5. Nibble(a) = hi /\ Nibble(b) = lo
  BY <1>2, <1>4
<1> HIDE DEF a, b
<1>6. <<a, b>>[1] = a /\ <<a, b>>[2] = b
  OBVIOUS
<1>7. TwoDigits(byte, 16)[1] = a /\ TwoDigits(byte, 16)[2] = b
  BY <1>3, <1>6
<1> QED BY <1>1, <1>5, <1>7

(* A multiple of g between -g and g, g included.                           *)
LEMMA NoMultiple ==
  ASSUME NEW g \in Nat, g > 0, NEW x \in Int, NEW y \in Int, g * x = y, -g < y, y <= g
  PROVE  x = 0 \/ x = 1
<1>1. x >= 2 => g * x >= g + g
  <2>1. x >= 2 => g * x = g * (x - 2) + g + g /\ g * (x - 2) >= 0
    OBVIOUS
  <2> QED BY <2>1
<1>2. x <= -1 => g * x <= -g
  <2>1. x <= -1 => g * x = g * (x + 1) - g /\ g * (x + 1) <= 0
    OBVIOUS
  <2> QED BY <2>1
<1> QED BY <1>1, <1>2

LEMMA NextRemainder ==
  ASSUME NEW g \in Nat, g > 0, NEW n \in Nat
  PROVE  /\ n % g \in 0..(g - 1)
         /\ (n + 1) % g = IF (n % g) + 1 = g THEN 0 ELSE (n % g) + 1
<1> DEFINE d == n \div g
           e == (n + 1) \div g
           p == n % g
           q == (n + 1) % g
<1>1. n = g * d + p /\ d \in Int /\ p \in 0..(g - 1)
  OBVIOUS
<1>2. n + 1 = g * e + q /\ e \in Int /\ q \in 0..(g - 1)
  OBVIOUS
<1> HIDE DEF d, e, p, q
<1>3. g * (e - d) = p + 1 - q
  BY <1>1, <1>2
<1>4. e - d = 0 \/ e - d = 1
  <2>1. e - d \in Int /\ p + 1 - q \in Int /\ -g < p + 1 - q /\ p + 1 - q <= g
    BY <1>1, <1>2
  <2> QED BY <1>3, <2>1, NoMultiple
<1>5. CASE e - d = 0
  BY <1>1, <1>2, <1>3, <1>5 DEF p, q
<1>6. CASE e - d = 1
  BY <1>1, <1>2, <1>3, <1>6 DEF p, q
<1> QED BY <1>4, <1>5, <1>6

ByteDigits(byte) == TwoDigits(byte, 16)
ByteDigitsIn(bytes, n) == [i \in 1..n |-> ByteDigits(bytes[i])]
SeparatorAfter(i, group) == IF GroupEnds(i, group) THEN <<groupSeparator>> ELSE <<Space>>
(* The dump of the first n bytes when others follow.                       *)
Written(bytes, group, n) ==
  FlattenSeq([i \in 1..n |-> ByteDigits(bytes[i]) \o SeparatorAfter(i, group)])

LEMMA ByteDigitsAre ==
  ASSUME NEW byte \in 0..255
  PROVE  \E a \in DigitSet, b \in DigitSet : ByteDigits(byte) = <<a, b>>
<1> DEFINE hi == byte \div 16
           lo == byte % 16
<1>1. hi \in 0..15 /\ lo \in 0..15
  <2>1. hi \in Nat /\ lo \in 0..15 /\ byte = 16 * hi + lo
    BY LastDigit
  <2> HIDE DEF hi, lo
  <2> QED BY <2>1
<1> HIDE DEF hi, lo
<1>2. hi + 1 \in 1..16 /\ lo + 1 \in 1..16
  BY <1>1
<1>3. Digits[hi + 1] \in DigitSet /\ Digits[lo + 1] \in DigitSet
  BY <1>2, DigitsDiffer
<1>4. ByteDigits(byte) = <<Digits[hi + 1], Digits[lo + 1]>>
  BY DEF ByteDigits, TwoDigits, hi, lo
<1> QED BY <1>3, <1>4

LEMMA DumpTypes ==
  ASSUME NEW byte \in 0..255, NEW i, NEW group
  PROVE  /\ ByteDigits(byte) \in Seq(DumpSet) /\ SeparatorAfter(i, group) \in Seq(DumpSet)
         /\ ByteDigits(byte) \o SeparatorAfter(i, group) \in Seq(DumpSet)
<1>1. PICK a \in DigitSet, b \in DigitSet : ByteDigits(byte) = <<a, b>>
  BY ByteDigitsAre
<1>2. ByteDigits(byte) \in Seq(DumpSet)
  BY <1>1 DEF DumpSet
<1>3. SeparatorAfter(i, group) \in Seq(DumpSet)
  <2>1. <<groupSeparator>> \in Seq(DumpSet) /\ <<Space>> \in Seq(DumpSet)
    BY DEF DumpSet
  <2>2. SeparatorAfter(i, group) = <<groupSeparator>> \/ SeparatorAfter(i, group) = <<Space>>
    BY Zenon DEF SeparatorAfter
  <2> QED BY <2>1, <2>2
<1> QED BY <1>2, <1>3, ConcatProperties

(* The dump grows by a byte and what follows it.                           *)
LEMMA WrittenNext ==
  ASSUME NEW bytes, NEW group, NEW n \in Nat, \A i \in 1..(n + 1) : bytes[i] \in 0..255
  PROVE  /\ Written(bytes, group, n) \in Seq(DumpSet)
         /\ Written(bytes, group, n + 1) =
              Written(bytes, group, n) \o (ByteDigits(bytes[n + 1]) \o SeparatorAfter(n + 1, group))
<1> DEFINE f == [i \in 1..n |-> ByteDigits(bytes[i]) \o SeparatorAfter(i, group)]
           g == [i \in 1..(n + 1) |-> ByteDigits(bytes[i]) \o SeparatorAfter(i, group)]
<1>1. \A i \in 1..(n + 1) : ByteDigits(bytes[i]) \o SeparatorAfter(i, group) \in Seq(DumpSet)
  BY DumpTypes
<1>2. /\ f \in [1..n -> Seq(DumpSet)] /\ g \in [1..(n + 1) -> Seq(DumpSet)] /\ \A i \in 1..n : g[i] = f[i]
      /\ g[n + 1] = ByteDigits(bytes[n + 1]) \o SeparatorAfter(n + 1, group)
  BY <1>1
<1>3. Written(bytes, group, n) = FlattenSeq(f) /\ Written(bytes, group, n + 1) = FlattenSeq(g)
  BY DEF Written
<1> HIDE DEF f, g
<1>4. FlattenSeq(g) = FlattenSeq(f) \o g[n + 1] /\ FlattenSeq(f) \in Seq(DumpSet)
  BY <1>2, FlattenLonger
<1> QED BY <1>2, <1>3, <1>4

(* The two digits of a byte.                                               *)
LEMMA ReachedPair ==
  ASSUME NEW s, NEW Q, NEW q, Reached(s, Q, q, <<>>), NEW byte \in 0..255
  PROVE  Reached(s \o ByteDigits(byte), Q, q, ByteDigits(byte))
<1>1. PICK a \in DigitSet, b \in DigitSet : ByteDigits(byte) = <<a, b>>
  BY ByteDigitsAre
<1> DEFINE e == <<>>
           ea == Append(e, a)
           sa == Append(s, a)
           eab == Append(ea, b)
           sab == Append(sa, b)
<1>2. Reached(sa, Q, q, ea)
  <2>1. Reached(s, Q, q, e)
    OBVIOUS
  <2> HIDE DEF e
  <2> QED BY <2>1, ReachedDigit
<1>3. Reached(sab, Q, q, eab)
  <2> HIDE DEF sa, ea
  <2> QED BY <1>2, ReachedDigit
<1>4. eab = <<a, b>>
  <2>1. ea = <<a>>
    OBVIOUS
  <2> QED BY <2>1, PairAppended
<1>5. sab = s \o <<a, b>>
  <2> DEFINE S == DumpSet
             one == <<a>>
  <2>1. s \in Seq(S) /\ a \in S /\ b \in S /\ one \in Seq(S)
    BY DEF Reached, DumpSet
  <2>2. sa = s \o one
    <3> HIDE DEF S
    <3> QED BY <2>1, AppendIsConcat
  <2>3. Append(one, b) = <<a, b>>
    BY PairAppended
  <2>4. s \o Append(one, b) = Append(s \o one, b)
    <3> HIDE DEF S, one
    <3> QED BY <2>1, AppendToConcat
  <2> QED BY <2>2, <2>3, <2>4
<1> QED BY <1>1, <1>3, <1>4, <1>5

LEMMA WrittenStep ==
  ASSUME NEW bytes, NEW group, NEW n \in Nat, \A i \in 1..(n + 1) : bytes[i] \in 0..255,
         NEW Q, NEW q, Reached(Written(bytes, group, n), Q, q, <<>>)
  PROVE  LET w == ByteDigits(bytes[n + 1])
         IN  /\ Reached(Written(bytes, group, n) \o w, Q, q, w)
             /\ IF GroupEnds(n + 1, group)
                THEN Reached(Written(bytes, group, n + 1), Append(Q, Append(q, w)), <<>>, <<>>)
                ELSE Reached(Written(bytes, group, n + 1), Q, Append(q, w), <<>>)
<1> DEFINE w == ByteDigits(bytes[n + 1])
           s == Written(bytes, group, n)
           t == s \o w
           sep == SeparatorAfter(n + 1, group)
<1>1. bytes[n + 1] \in 0..255
  OBVIOUS
<1>2. Reached(t, Q, q, w)
  BY <1>1, ReachedPair
<1>3. s \in Seq(DumpSet) /\ Written(bytes, group, n + 1) = s \o (w \o sep)
  BY WrittenNext
<1>4. w \in Seq(DumpSet) /\ sep \in Seq(DumpSet)
  BY <1>1, DumpTypes
<1>5. s \o (w \o sep) = t \o sep
  <2> DEFINE S == DumpSet
  <2> HIDE DEF s, w, sep, S
  <2>1. s \in Seq(S) /\ w \in Seq(S) /\ sep \in Seq(S)
    BY <1>3, <1>4 DEF S
  <2> QED BY <2>1, ConcatAssociative
<1>6. t \in Seq(DumpSet)
  BY <1>2 DEF Reached
<1> HIDE DEF s, w, t
<1>7. CASE GroupEnds(n + 1, group)
  <2>1. sep = <<groupSeparator>>
    BY <1>7 DEF SeparatorAfter
  <2>2. groupSeparator \in DumpSet
    BY DEF DumpSet
  <2>3. t \o <<groupSeparator>> = Append(t, groupSeparator)
    BY <1>6, <2>2, AppendIsConcat
  <2>4. Reached(Append(t, groupSeparator), Append(Q, Append(q, w)), <<>>, <<>>)
    BY <1>2, ReachedGroup
  <2>5. Written(bytes, group, n + 1) = Append(t, groupSeparator)
    BY <1>3, <1>5, <2>1, <2>3
  <2> QED BY <1>2, <1>7, <2>4, <2>5 DEF t, s, w
<1>8. CASE ~GroupEnds(n + 1, group)
  <2>1. sep = <<Space>>
    BY <1>8 DEF SeparatorAfter
  <2>2. Space \in DumpSet
    BY DEF DumpSet
  <2>3. t \o <<Space>> = Append(t, Space)
    BY <1>6, <2>2, AppendIsConcat
  <2>4. Reached(Append(t, Space), Q, Append(q, w), <<>>)
    BY <1>2, ReachedByte
  <2>5. Written(bytes, group, n + 1) = Append(t, Space)
    BY <1>3, <1>5, <2>1, <2>3
  <2> QED BY <1>2, <1>8, <2>4, <2>5 DEF t, s, w
<1> QED BY <1>7, <1>8

-----------------------------------------------------------------------------
(* Writing a dump.                                                         *)

(* Of n bytes, the groups Q are complete and the bytes q begin another.    *)
Grouping(bytes, group, n, Q, q) ==
  /\ Q \in Seq(Seq(Seq(DumpSet))) /\ q \in Seq(Seq(DumpSet))
  /\ FlattenSeq(Q) \o q = ByteDigitsIn(bytes, n)
  /\ group = 0 => Len(Q) = 0 /\ Len(q) = n
  /\ group > 0 => Len(q) = n % group /\ \A g \in 1..Len(Q) : Len(Q[g]) = group

GroupsWith(bytes, group, n, Q, q) ==
  LET qw == Append(q, ByteDigits(bytes[n + 1]))
      Qq == Append(Q, qw)
  IN  /\ FlattenSeq(Qq) = ByteDigitsIn(bytes, n + 1)
      /\ Len(qw) = IF group = 0 THEN n + 1 ELSE (n % group) + 1
      /\ Len(Qq) = Len(Q) + 1 /\ Qq[Len(Q) + 1] = qw
      /\ \A g \in 1..Len(Q) : Qq[g] = Q[g]
      /\ Qq \in Seq(Seq(Seq(DumpSet))) /\ qw \in Seq(Seq(DumpSet))
      /\ FlattenSeq(Q) \o qw = ByteDigitsIn(bytes, n + 1)

(* One byte more, whether or not it completes a group.                     *)
LEMMA GroupingNext ==
  ASSUME NEW bytes, NEW group \in Nat, NEW n \in Nat, \A i \in 1..(n + 1) : bytes[i] \in 0..255,
         NEW Q, NEW q, Grouping(bytes, group, n, Q, q)
  PROVE  GroupsWith(bytes, group, n, Q, q)
<1> DEFINE w == ByteDigits(bytes[n + 1])
           qw == Append(q, w)
           Qq == Append(Q, qw)
           U == Seq(DumpSet)
           was == ByteDigitsIn(bytes, n)
           now == ByteDigitsIn(bytes, n + 1)
<1>1. /\ Q \in Seq(Seq(U)) /\ q \in Seq(U) /\ FlattenSeq(Q) \o q = was
      /\ group = 0 => Len(q) = n
      /\ group > 0 => Len(q) = n % group
  BY DEF Grouping
<1>2. \A i \in 1..(n + 1) : ByteDigits(bytes[i]) \in U
  BY DumpTypes
<1>3. was \in Seq(U) /\ now \in Seq(U) /\ w \in U /\ now = Append(was, w)
  <2>1. /\ was \in Seq(U) /\ now \in Seq(U) /\ w \in U /\ Len(was) = n /\ Len(now) = n + 1
        /\ now[n + 1] = w /\ \A i \in 1..n : now[i] = was[i]
    <3> HIDE DEF U
    <3> QED BY <1>2 DEF ByteDigitsIn
  <2> HIDE DEF was, now, w, U
  <2>2. Len(now) = Len(was) + 1 /\ now[Len(was) + 1] = w /\ \A i \in 1..Len(was) : now[i] = was[i]
    BY <2>1
  <2> QED BY <2>1, <2>2, IsAppended
<1> HIDE DEF w, U, was, now
<1>4. qw \in Seq(U) /\ Len(qw) = Len(q) + 1
  BY <1>1, <1>3, OneMore
<1>5. FlattenSeq(Q) \o qw = now
  <2>1. FlattenSeq(Q) \in Seq(U)
    BY <1>1, FlattenType
  <2>2. FlattenSeq(Q) \o Append(q, w) = Append(FlattenSeq(Q) \o q, w)
    BY <1>1, <1>3, <2>1, AppendToConcat
  <2> QED BY <1>1, <1>3, <2>2
<1> HIDE DEF qw
<1>6. /\ Qq \in Seq(Seq(U)) /\ Len(Qq) = Len(Q) + 1 /\ Qq[Len(Q) + 1] = qw
      /\ \A g \in 1..Len(Q) : Qq[g] = Q[g]
  BY <1>1, <1>4, OneMore
<1>7. FlattenSeq(Qq) = FlattenSeq(Q) \o qw
  BY <1>1, <1>4, FlattenAppended
<1>8. Len(qw) = IF group = 0 THEN n + 1 ELSE (n % group) + 1
  BY <1>1, <1>4
<1> HIDE DEF Qq
<1> QED BY <1>4, <1>5, <1>6, <1>7, <1>8, Zenon DEF Qq, qw, w, now, U, GroupsWith

(* The same, by the code's test for the end of a group.                    *)
LEMMA GroupingStep ==
  ASSUME NEW bytes, NEW group \in Nat, NEW n \in Nat, \A i \in 1..(n + 1) : bytes[i] \in 0..255,
         NEW Q, NEW q, Grouping(bytes, group, n, Q, q)
  PROVE  LET qw == Append(q, ByteDigits(bytes[n + 1]))
         IN  IF GroupEnds(n + 1, group) THEN Grouping(bytes, group, n + 1, Append(Q, qw), <<>>)
                                        ELSE Grouping(bytes, group, n + 1, Q, qw)
<1> DEFINE qw == Append(q, ByteDigits(bytes[n + 1]))
           Qq == Append(Q, qw)
           none == <<>>
<1>1. /\ FlattenSeq(Qq) = ByteDigitsIn(bytes, n + 1)
      /\ Len(qw) = IF group = 0 THEN n + 1 ELSE (n % group) + 1
      /\ Len(Qq) = Len(Q) + 1 /\ Qq[Len(Q) + 1] = qw
      /\ \A g \in 1..Len(Q) : Qq[g] = Q[g]
      /\ Qq \in Seq(Seq(Seq(DumpSet))) /\ qw \in Seq(Seq(DumpSet))
      /\ FlattenSeq(Q) \o qw = ByteDigitsIn(bytes, n + 1)
  <2>1. GroupsWith(bytes, group, n, Q, q)
    BY GroupingNext
  <2> QED BY <2>1, Zenon DEF GroupsWith
<1>2. /\ Q \in Seq(Seq(Seq(DumpSet)))
      /\ group = 0 => Len(Q) = 0
      /\ group > 0 => \A g \in 1..Len(Q) : Len(Q[g]) = group
  BY DEF Grouping
<1>3. group > 0 => /\ n % group \in 0..(group - 1)
                   /\ (n + 1) % group = IF (n % group) + 1 = group THEN 0 ELSE (n % group) + 1
  BY NextRemainder
<1> HIDE DEF qw, Qq
<1>4. CASE GroupEnds(n + 1, group)
  <2>1. group > 0 /\ (n + 1) % group = 0
    BY <1>4 DEF GroupEnds
  <2>2. Len(qw) = group
    BY <1>1, <1>3, <2>1
  <2>3. \A g \in 1..Len(Qq) : Len(Qq[g]) = group
    <3>1. Len(Q) \in Nat
      BY <1>2, LenProperties
    <3>2. \A g \in 1..(Len(Q) + 1) : g \in 1..Len(Q) \/ g = Len(Q) + 1
      BY <3>1
    <3> QED BY <1>1, <1>2, <2>1, <2>2, <3>2
  <2>4. FlattenSeq(Qq) \o none = ByteDigitsIn(bytes, n + 1)
    <3>1. FlattenSeq(Qq) \in Seq(Seq(DumpSet))
      BY <1>1, FlattenType
    <3>2. FlattenSeq(Qq) \o <<>> = FlattenSeq(Qq)
      BY <3>1, ConcatEmptySeq
    <3> QED BY <1>1, <3>2
  <2>5. Len(none) = 0 /\ none \in Seq(Seq(DumpSet))
    OBVIOUS
  <2> HIDE DEF none
  <2>6. Grouping(bytes, group, n + 1, Qq, none)
    BY <1>1, <2>1, <2>3, <2>4, <2>5 DEF Grouping
  <2> QED BY <1>4, <2>6 DEF none, Qq, qw
<1>5. CASE ~GroupEnds(n + 1, group)
  <2>1. group = 0 => Len(Q) = 0 /\ Len(qw) = n + 1
    BY <1>1, <1>2
  <2>2. group > 0 => Len(qw) = (n + 1) % group
    <3>1. group > 0 => (n + 1) % group # 0
      BY <1>5 DEF GroupEnds
    <3> QED BY <1>1, <1>3, <3>1
  <2>3. Grouping(bytes, group, n + 1, Q, qw)
    BY <1>1, <1>2, <2>1, <2>2 DEF Grouping
  <2> QED BY <1>5, <2>3 DEF qw
<1> QED BY <1>4, <1>5

(* What has been split of the dump of the first n bytes.                   *)
LEMMA DumpSplit ==
  ASSUME NEW bytes, NEW group \in Nat
  PROVE  \A n \in Nat : (\A i \in 1..n : bytes[i] \in 0..255) =>
           \E Q, q : Reached(Written(bytes, group, n), Q, q, <<>>) /\ Grouping(bytes, group, n, Q, q)
<1> DEFINE Good(n) == \A i \in 1..n : bytes[i] \in 0..255
           Fine(n) == \E Q, q : Reached(Written(bytes, group, n), Q, q, <<>>) /\ Grouping(bytes, group, n, Q, q)
           T == {n \in Nat : Good(n) => Fine(n)}
<1>1. 0 \in T
  <2> DEFINE e == <<>>
  <2>1. Written(bytes, group, 0) = e
    <3>1. [i \in 1..0 |-> ByteDigits(bytes[i]) \o SeparatorAfter(i, group)] = <<>>
      OBVIOUS
    <3> QED BY <3>1, FlattenEmpty DEF Written
  <2>2. Reached(e, e, e, <<>>)
    BY ReachedFirst
  <2>3. Grouping(bytes, group, 0, e, e)
    <3>1. FlattenSeq(e) \o e = e /\ ByteDigitsIn(bytes, 0) = e
      <4>1. FlattenSeq(e) = e
        BY FlattenEmpty
      <4>2. e \o e = e
        OBVIOUS
      <4>3. ByteDigitsIn(bytes, 0) = e
        BY DEF ByteDigitsIn
      <4> QED BY <4>1, <4>2, <4>3
    <3>2. Len(e) = 0 /\ e \in Seq(Seq(Seq(DumpSet))) /\ e \in Seq(Seq(DumpSet))
      OBVIOUS
    <3>3. group > 0 => 0 % group = 0
      <4>1. group > 0 => 0 = group * (0 \div group) + (0 % group) /\ 0 % group \in 0..(group - 1)
        OBVIOUS
      <4> QED OBVIOUS
    <3> HIDE DEF e
    <3> QED BY <3>1, <3>2, <3>3 DEF Grouping
  <2> HIDE DEF e
  <2> QED BY <2>1, <2>2, <2>3
<1>2. ASSUME NEW n \in Nat, n \in T PROVE n + 1 \in T
  <2> SUFFICES ASSUME Good(n + 1) PROVE Fine(n + 1)
    OBVIOUS
  <2>1. Good(n)
    OBVIOUS
  <2>2. PICK Q, q : Reached(Written(bytes, group, n), Q, q, <<>>) /\ Grouping(bytes, group, n, Q, q)
    BY <1>2, <2>1
  <2> DEFINE qw == Append(q, ByteDigits(bytes[n + 1]))
             Qq == Append(Q, qw)
  <2>3. IF GroupEnds(n + 1, group) THEN Reached(Written(bytes, group, n + 1), Qq, <<>>, <<>>)
                                   ELSE Reached(Written(bytes, group, n + 1), Q, qw, <<>>)
    BY <2>2, WrittenStep
  <2>4. IF GroupEnds(n + 1, group) THEN Grouping(bytes, group, n + 1, Qq, <<>>)
                                   ELSE Grouping(bytes, group, n + 1, Q, qw)
    BY <2>2, GroupingStep
  <2> HIDE DEF qw, Qq
  <2> QED BY <2>3, <2>4, Zenon
<1>3. Nat \subseteq T
  <2> HIDE DEF T
  <2> QED BY <1>1, <1>2, Induction
<1> QED BY <1>3

-----------------------------------------------------------------------------
(* What is written is what is read.                                        *)

Dump(bytes, group) == OutHex(Record, bytes, group).chars
Groups(dump) ==
  LET parts == Split(dump, groupSeparator) IN [g \in DOMAIN parts |-> Split(parts[g], Space)]

LEMMA FunctionIsSeq ==
  ASSUME NEW U, NEW m \in Nat, NEW f \in [1..m -> U]
  PROVE  f \in Seq(U) /\ Len(f) = m
OBVIOUS

(* After the last byte of a dump there is no separator.                    *)
LEMMA DumpIs ==
  ASSUME NEW n \in Nat, NEW bytes \in Seq(0..255), Len(bytes) = n + 1, NEW group
  PROVE  Dump(bytes, group) = Written(bytes, group, n) \o ByteDigits(bytes[n + 1])
<1> DEFINE U == Seq(DumpSet)
           Separator(i) == IF i = Len(bytes) THEN <<>>
                           ELSE IF GroupEnds(i, group) THEN <<groupSeparator>> ELSE <<Space>>
           f == [i \in 1..n |-> ByteDigits(bytes[i]) \o SeparatorAfter(i, group)]
           g == [i \in DOMAIN bytes |-> TwoDigits(bytes[i], 16) \o Separator(i)]
           w == ByteDigits(bytes[n + 1])
<1>1. \A i \in 1..(n + 1) : bytes[i] \in 0..255
  <2>1. \A i \in 1..Len(bytes) : bytes[i] \in 0..255
    BY ElementOfSeq
  <2> QED BY <2>1
<1>2. \A i \in 1..(n + 1) : ByteDigits(bytes[i]) \in U /\ ByteDigits(bytes[i]) \o SeparatorAfter(i, group) \in U
  BY <1>1, DumpTypes
<1>3. \A i \in 1..n : g[i] = ByteDigits(bytes[i]) \o SeparatorAfter(i, group)
  <2> SUFFICES ASSUME NEW i \in 1..n PROVE g[i] = ByteDigits(bytes[i]) \o SeparatorAfter(i, group)
    OBVIOUS
  <2>1. i \in DOMAIN bytes /\ i # Len(bytes)
    OBVIOUS
  <2>2. g[i] = TwoDigits(bytes[i], 16) \o Separator(i)
    BY <2>1, Zenon
  <2>3. Separator(i) = SeparatorAfter(i, group)
    BY <2>1, Zenon DEF SeparatorAfter
  <2> HIDE DEF g, Separator
  <2> QED BY <2>2, <2>3 DEF ByteDigits
<1>4. g[n + 1] = w
  <2>1. n + 1 \in DOMAIN bytes
    OBVIOUS
  <2>2. Separator(n + 1) = <<>>
    OBVIOUS
  <2>3. g[n + 1] = w \o Separator(n + 1)
    BY <2>1, Zenon DEF ByteDigits
  <2>4. n + 1 \in 1..(n + 1)
    OBVIOUS
  <2>5. w \in U
    BY <1>2, <2>4
  <2> HIDE DEF g, w, Separator
  <2>6. w \o <<>> = w
    BY <2>5, ConcatEmptySeq
  <2> QED BY <2>2, <2>3, <2>6
<1>5. f \in [1..n -> U] /\ \A i \in 1..n : f[i] = ByteDigits(bytes[i]) \o SeparatorAfter(i, group)
  <2> HIDE DEF U
  <2> QED BY <1>2
<1>6. g \in [1..(n + 1) -> U]
  <2>1. DOMAIN g = 1..(n + 1) /\ g = [i \in 1..(n + 1) |-> g[i]]
    <3>1. DOMAIN bytes = 1..(n + 1)
      OBVIOUS
    <3> QED BY <3>1, Zenon
  <2>2. \A i \in 1..(n + 1) : g[i] \in U
    <3>1. \A i \in 1..(n + 1) : i \in 1..n \/ i = n + 1
      OBVIOUS
    <3>2. n + 1 \in 1..(n + 1)
      OBVIOUS
    <3> HIDE DEF g, U
    <3> QED BY <1>2, <1>3, <1>4, <3>1, <3>2
  <2> HIDE DEF g, U
  <2> QED BY <2>1, <2>2
<1>7. Written(bytes, group, n) = FlattenSeq(f)
  BY DEF Written
<1>8. Dump(bytes, group) = <<>> \o FlattenSeq(g)
  <2>1. OutHex(Record, bytes, group) = Put([Record EXCEPT !.hex = TRUE], FlattenSeq(g))
    BY Zenon DEF OutHex
  <2> HIDE DEF g
  <2> QED BY <2>1 DEF Dump, Put, Record
<1> HIDE DEF f, g, w
<1>11. \A i \in 1..n : g[i] = f[i]
  BY <1>3, <1>5
<1>9. FlattenSeq(g) = FlattenSeq(f) \o g[n + 1] /\ FlattenSeq(g) \in U
  <2>1. f \in [1..n -> U]
    BY <1>5
  <2>2. g \in [1..(n + 1) -> U] /\ \A i \in 1..n : g[i] = f[i]
    BY <1>6, <1>11
  <2> QED BY <2>1, <2>2, FlattenLonger
<1>10. <<>> \o FlattenSeq(g) = FlattenSeq(g)
  <2> DEFINE d == FlattenSeq(g)
  <2> HIDE DEF d
  <2>1. d \in Seq(DumpSet)
    BY <1>9 DEF d
  <2>2. <<>> \o d = d
    BY <2>1, ConcatEmptySeq
  <2> QED BY <2>2 DEF d
<1> QED BY <1>4, <1>7, <1>8, <1>9, <1>10 DEF w

(* The groups that are found are those that were written.                  *)
LEMMA GroupsFound ==
  ASSUME NEW s, NEW Q, NEW q, NEW e, Reached(s, Q, q, e)
  PROVE  Groups(s) = Append(Q, Append(q, e)) /\ Append(q, e) \in Seq(Seq(DumpSet))
<1>1. PICK p \in Seq(Seq(DumpSet)), l \in Seq(DumpSet) :
        /\ s \in Seq(DumpSet) /\ q \in Seq(Seq(DumpSet)) /\ e \in Seq(DumpSet)
        /\ Q \in Seq(Seq(Seq(DumpSet)))
        /\ Split(s, groupSeparator) = Grown(p, l)
        /\ Split(l, Space) = Grown(q, e)
        /\ Len(Q) = Len(p) /\ \A g \in 1..Len(p) : Q[g] = Split(p[g], Space)
  BY Zenon DEF Reached
<1> DEFINE pl == Append(p, l)
           qe == Append(q, e)
           G == [g \in DOMAIN pl |-> Split(pl[g], Space)]
           U == Seq(Seq(DumpSet))
<1>2. qe \in U /\ Split(l, Space) = qe
  BY <1>1 DEF Grown
<1>3. Groups(s) = G
  BY <1>1 DEF Groups, Grown
<1>4. /\ pl \in Seq(Seq(DumpSet)) /\ Len(pl) = Len(p) + 1 /\ pl[Len(p) + 1] = l
      /\ \A g \in 1..Len(p) : pl[g] = p[g]
  <2>1. p \in Seq(Seq(DumpSet)) /\ l \in Seq(DumpSet)
    OBVIOUS
  <2> QED BY <2>1, OneMore
<1> HIDE DEF pl, qe
<1>5. Len(p) \in Nat /\ DOMAIN pl = 1..(Len(p) + 1)
  BY <1>4, LenProperties
<1>6. DOMAIN G = 1..(Len(p) + 1) /\ \A g \in 1..(Len(p) + 1) : G[g] = Split(pl[g], Space)
  BY <1>5
<1>7. (\A g \in 1..Len(p) : G[g] = Q[g]) /\ G[Len(p) + 1] = qe
  <2>1. \A g \in 1..Len(p) : g \in 1..(Len(p) + 1)
    BY <1>5
  <2>2. Len(p) + 1 \in 1..(Len(p) + 1)
    BY <1>5
  <2> HIDE DEF G
  <2> QED BY <1>1, <1>2, <1>4, <1>6, <2>1, <2>2
<1>8. Q \in Seq(U) /\ Len(Q) = Len(p) /\ \A g \in 1..Len(p) : Q[g] \in U
  BY <1>1
<1>9. G \in Seq(U) /\ Len(G) = Len(p) + 1
  <2>1. \A g \in 1..(Len(p) + 1) : G[g] \in U
    <3>1. \A g \in 1..(Len(p) + 1) : g \in 1..Len(p) \/ g = Len(p) + 1
      BY <1>5
    <3> HIDE DEF G, U
    <3> QED BY <1>2, <1>7, <1>8, <3>1
  <2>2. G = [g \in 1..(Len(p) + 1) |-> G[g]]
    BY <1>6
  <2> HIDE DEF G, U
  <2>3. G \in [1..(Len(p) + 1) -> U]
    BY <2>1, <2>2
  <2>4. Len(p) + 1 \in Nat
    BY <1>5
  <2> QED BY <2>3, <2>4, FunctionIsSeq
<1> HIDE DEF G, U
<1>10. Len(G) = Len(Q) + 1 /\ (\A g \in 1..Len(Q) : G[g] = Q[g]) /\ G[Len(Q) + 1] = qe
  BY <1>7, <1>8, <1>9
<1>11. G = Append(Q, qe)
  BY <1>2, <1>8, <1>9, <1>10, IsAppended
<1> QED BY <1>2, <1>3, <1>11 DEF qe, U

(* What DumpGrouped says of the dump.                                      *)
LEMMA DumpRead ==
  ASSUME NEW bytes \in Seq(0..255), bytes # <<>>, NEW group \in Nat
  PROVE  LET groups == Groups(Dump(bytes, group))
             size == IF group = 0 THEN Len(bytes) ELSE group
         IN  /\ FlattenSeq(groups) = ByteDigitsIn(bytes, Len(bytes))
             /\ Len(groups) \in Nat /\ Len(groups) > 0
             /\ \A g \in 1..(Len(groups) - 1) : Len(groups[g]) = size
             /\ Len(groups[Len(groups)]) \in 1..size
<1> DEFINE n == Len(bytes) - 1
           N == n + 1
<1>1. n \in Nat /\ Len(bytes) = N
  BY EmptySeq, LenProperties
<1> HIDE DEF n
<1>2. (\A i \in 1..N : bytes[i] \in 0..255) /\ \A i \in 1..n : bytes[i] \in 0..255
  <2>1. \A i \in 1..Len(bytes) : bytes[i] \in 0..255
    BY ElementOfSeq
  <2>2. \A i \in 1..n : i \in 1..N
    BY <1>1
  <2> QED BY <1>1, <2>1, <2>2
<1>3. PICK Q, q : Reached(Written(bytes, group, n), Q, q, <<>>) /\ Grouping(bytes, group, n, Q, q)
  BY <1>1, <1>2, DumpSplit
<1> DEFINE w == ByteDigits(bytes[n + 1])
           qw == Append(q, w)
           Qq == Append(Q, qw)
<1>4. Reached(Written(bytes, group, n) \o w, Q, q, w)
  BY <1>1, <1>2, <1>3, WrittenStep
<1>5. Dump(bytes, group) = Written(bytes, group, n) \o w
  BY <1>1, DumpIs
<1>6. Groups(Dump(bytes, group)) = Qq
  BY <1>4, <1>5, GroupsFound
<1>7. GroupsWith(bytes, group, n, Q, q)
  BY <1>1, <1>2, <1>3, GroupingNext
<1>8. /\ FlattenSeq(Qq) = ByteDigitsIn(bytes, n + 1)
      /\ Len(qw) = IF group = 0 THEN n + 1 ELSE (n % group) + 1
      /\ Len(Qq) = Len(Q) + 1 /\ Qq[Len(Q) + 1] = qw
      /\ \A g \in 1..Len(Q) : Qq[g] = Q[g]
  BY <1>7, Zenon DEF GroupsWith
<1>9. /\ Q \in Seq(Seq(Seq(DumpSet)))
      /\ group = 0 => Len(Q) = 0
      /\ group > 0 => \A g \in 1..Len(Q) : Len(Q[g]) = group
  BY <1>3 DEF Grouping
<1>10. group > 0 => n % group \in 0..(group - 1)
  BY <1>1, NextRemainder
<1> HIDE DEF Qq, qw, w
<1> DEFINE size == IF group = 0 THEN Len(bytes) ELSE group
<1>11. Len(Q) \in Nat
  BY <1>9, LenProperties
<1>12. Len(Qq) - 1 = Len(Q) /\ Len(Qq) \in Nat /\ Len(Qq) > 0 /\ Qq[Len(Qq)] = qw
  BY <1>8, <1>11
<1>13. Len(qw) \in 1..size
  <2>1. CASE group = 0
    BY <1>1, <1>8, <2>1
  <2>2. CASE group > 0
    BY <1>8, <1>10, <2>2
  <2> QED BY <2>1, <2>2
<1>14. \A g \in 1..Len(Q) : Len(Qq[g]) = size
  <2>1. CASE group = 0
    BY <1>9, <2>1
  <2>2. CASE group > 0
    <3>1. size = group /\ \A g \in 1..Len(Q) : Len(Q[g]) = group
      BY <1>9, <2>2
    <3>2. \A g \in 1..Len(Q) : Qq[g] = Q[g]
      BY <1>8
    <3> HIDE DEF size
    <3> QED BY <3>1, <3>2
  <2> QED BY <2>1, <2>2
<1>15. FlattenSeq(Qq) = ByteDigitsIn(bytes, Len(bytes))
  BY <1>1, <1>8
<1> HIDE DEF size
<1> QED BY <1>6, <1>12, <1>13, <1>14, <1>15 DEF size

-----------------------------------------------------------------------------
(* Characters.                                                             *)

(* Codes of symbols are bytes, and those of control characters not printed.*)
LEMMA CodeIs ==
  /\ \A symbol : Code(symbol) \in 0..127
  /\ \A symbol \in {Nul, Newline, Return} : Code(symbol) \notin 32..126
<1>1. \A symbol : Code(symbol) \in 0..127
  BY DEF Code
<1>2. Code(Nul) = 0 /\ Code(Newline) = 10 /\ Code(Return) = 13
  BY DEF Code, Nul, Newline, Return, Space, Quote, Semicolon
<1>3. 0 \notin 32..126 /\ 10 \notin 32..126 /\ 13 \notin 32..126
  OBVIOUS
<1>4. ASSUME NEW symbol \in {Nul, Newline, Return} PROVE Code(symbol) \notin 32..126
  BY <1>2, <1>3
<1> QED BY <1>1, <1>4

LEMMA CodesType ==
  ASSUME NEW S, NEW s \in Seq(S)
  PROVE  /\ [i \in DOMAIN s |-> Code(s[i])] \in Seq(0..255)
         /\ Len([i \in DOMAIN s |-> Code(s[i])]) = Len(s)
         /\ Len(s) \in Nat /\ DOMAIN s = 1..Len(s)
         /\ \A i \in 1..Len(s) : [j \in DOMAIN s |-> Code(s[j])][i] = Code(s[i])
<1> DEFINE n == Len(s)
           bytes == [i \in 1..n |-> Code(s[i])]
<1>1. n \in Nat /\ DOMAIN s = 1..n
  BY LenProperties
<1>2. \A i \in 1..n : Code(s[i]) \in 0..255
  <2>1. \A symbol : Code(symbol) \in 0..127
    BY CodeIs
  <2>2. 0..127 \subseteq 0..255
    OBVIOUS
  <2> QED BY <2>1, <2>2
<1>3. bytes \in [1..n -> 0..255]
  BY <1>2
<1>4. \A i \in 1..n : bytes[i] = Code(s[i])
  OBVIOUS
<1> HIDE DEF n
<1>5. bytes \in Seq(0..255) /\ Len(bytes) = n
  <2> HIDE DEF bytes
  <2> QED BY <1>1, <1>3, FunctionIsSeq
<1>6. [i \in DOMAIN s |-> Code(s[i])] = bytes
  BY <1>1
<1> HIDE DEF bytes
<1> QED BY <1>1, <1>4, <1>5, <1>6 DEF n

(* Dumped as characters, control characters are dots.                      *)
LEMMA AscDumped ==
  ASSUME NEW S, NEW s \in Seq(S)
  PROVE  LET asc == OutAsc(Record, [i \in DOMAIN s |-> Code(s[i])]).chars
         IN  /\ Len(asc) = Len(s)
             /\ \A i \in DOMAIN s : s[i] \in {Nul, Newline, Return} => asc[i] = "."
<1> DEFINE n == Len(s)
           bytes == [i \in DOMAIN s |-> Code(s[i])]
           c == [i \in DOMAIN bytes |-> IF isprint(bytes[i]) THEN "letter" ELSE "."]
           P == {"letter", "."}
<1>1. n \in Nat /\ bytes \in Seq(0..255) /\ Len(bytes) = n /\ DOMAIN s = 1..n
      /\ \A i \in 1..n : bytes[i] = Code(s[i])
  BY CodesType
<1> HIDE DEF bytes
<1>2. DOMAIN bytes = 1..n
  BY <1>1
<1> HIDE DEF n
<1>3. c \in [1..n -> P] /\ \A i \in 1..n : c[i] = IF isprint(bytes[i]) THEN "letter" ELSE "."
  BY <1>2
<1>4. OutAsc(Record, bytes).chars = <<>> \o c
  <2> HIDE DEF c
  <2>1. OutAsc(Record, bytes) = Put(Record, c)
    BY Zenon DEF OutAsc, c
  <2> QED BY <2>1 DEF Put, Record
<1> HIDE DEF c, P
<1>5. c \in Seq(P) /\ Len(c) = n
  BY <1>1, <1>3, FunctionIsSeq
<1>6. OutAsc(Record, bytes).chars = c
  <2>1. <<>> \o c = c
    BY <1>5, ConcatEmptySeq
  <2> QED BY <1>4, <2>1
<1>7. ASSUME NEW i \in 1..n, s[i] \in {Nul, Newline, Return} PROVE c[i] = "."
  <2>1. bytes[i] \notin 32..126
    BY <1>1, <1>7, CodeIs
  <2> QED BY <1>3, <2>1 DEF isprint
<1> QED BY <1>1, <1>5, <1>6, <1>7 DEF bytes, n

(* The bytes of a dump of any length can be read from it, and are in groups*)
(* of the given size but for the last, which is not empty; without a size  *)
(* there is one group.  Dumped as characters they have one each, none of   *)
(* them a control character that would break the line (HexDump.h:48-70,    *)
(* AscDump.h:23-31).                                                       *)
THEOREM DumpsGrouped == Spec => []DumpGrouped
<1>1. TypeOK => DumpGrouped
  <2> SUFFICES ASSUME TypeOK, NEW group \in 0..(Len(text) + 1)
               PROVE  LET bytes == [i \in DOMAIN text |-> Code(text[i])]
                          parts == Split(OutHex(Record, bytes, group).chars, groupSeparator)
                          groups == [g \in DOMAIN parts |-> Split(parts[g], Space)]
                          size == IF group = 0 THEN Len(bytes) ELSE group
                          NibbleOf(digit) == SelectInSeq(Digits, LAMBDA d : d = digit) - 1
                          read == [b \in DOMAIN FlattenSeq(groups) |->
                                    LET pair == FlattenSeq(groups)[b]
                                    IN  16 * NibbleOf(pair[1]) + NibbleOf(pair[2])]
                          asc == OutAsc(Record, bytes).chars
                      IN  /\ text # <<>> =>
                               /\ read = bytes
                               /\ \A g \in 1..(Len(groups) - 1) : Len(groups[g]) = size
                               /\ Len(Last(groups)) \in 1..size
                          /\ Len(asc) = Len(text)
                          /\ \A i \in DOMAIN text : text[i] \in {Nul, Newline, Return} => asc[i] = "."
    BY Zenon DEF DumpGrouped
  <2> DEFINE bytes == [i \in DOMAIN text |-> Code(text[i])]
             groups == Groups(Dump(bytes, group))
             size == IF group = 0 THEN Len(bytes) ELSE group
             all == FlattenSeq(groups)
             read == [b \in DOMAIN all |-> LET pair == all[b]
                                           IN  16 * Nibble(pair[1]) + Nibble(pair[2])]
             asc == OutAsc(Record, bytes).chars
             n == Len(bytes)
  <2>1. /\ text \in Seq(Symbols) /\ bytes \in Seq(0..255) /\ n = Len(text) /\ n \in Nat
        /\ DOMAIN text = 1..n /\ group \in Nat
    <3>1. text \in Seq(Symbols)
      BY DEF TypeOK
    <3>2. /\ bytes \in Seq(0..255) /\ n = Len(text) /\ Len(text) \in Nat
          /\ DOMAIN text = 1..Len(text)
      BY <3>1, CodesType
    <3> QED BY <3>1, <3>2
  <2>2. /\ Len(asc) = Len(text)
        /\ \A i \in DOMAIN text : text[i] \in {Nul, Newline, Return} => asc[i] = "."
    BY <2>1, AscDumped
  <2>3. ASSUME text # <<>>
        PROVE  /\ read = bytes
               /\ \A g \in 1..(Len(groups) - 1) : Len(groups[g]) = size
               /\ Len(Last(groups)) \in 1..size
    <3> HIDE DEF bytes
    <3>1. bytes # <<>>
      BY <2>1, <2>3
    <3>2. /\ all = ByteDigitsIn(bytes, n)
          /\ \A g \in 1..(Len(groups) - 1) : Len(groups[g]) = size
          /\ Len(groups[Len(groups)]) \in 1..size
      BY <2>1, <3>1, DumpRead
    <3>3. DOMAIN all = 1..n /\ \A b \in 1..n : all[b] = TwoDigits(bytes[b], 16)
      BY <3>2 DEF ByteDigitsIn, ByteDigits
    <3>4. ASSUME NEW b \in 1..n PROVE read[b] = bytes[b]
      <4>1. bytes[b] \in 0..255
        BY <2>1, ElementOfSeq
      <4>2. 16 * Nibble(TwoDigits(bytes[b], 16)[1]) + Nibble(TwoDigits(bytes[b], 16)[2]) = bytes[b]
        BY <4>1, ByteRead
      <4> HIDE DEF all
      <4> QED BY <3>3, <4>2
    <3>5. read = bytes
      <4>1. DOMAIN bytes = 1..n /\ bytes = [b \in 1..n |-> bytes[b]]
        BY <2>1
      <4>2. DOMAIN read = 1..n /\ read = [b \in 1..n |-> read[b]]
        BY <3>3
      <4> HIDE DEF read
      <4> QED BY <3>4, <4>1, <4>2
    <3> QED BY <3>2, <3>5 DEF Last
  <2> QED BY <2>2, <2>3, Zenon DEF Groups, Dump, Nibble
<1> QED BY <1>1, TypeCorrect, PTL

-----------------------------------------------------------------------------
(* Streaming value by value.                                               *)

(* f[i] is the record after i values.                                      *)
IsStreamed(f, stream, values, n) ==
  f = [i \in 0..n |-> IF i = 0 THEN stream ELSE Out(f[i - 1], values[i])]

LEMMA StreamedExists ==
  ASSUME NEW stream, NEW values
  PROVE  \A n \in Nat : \E f : IsStreamed(f, stream, values, n)
<1> DEFINE T == {n \in Nat : \E f : IsStreamed(f, stream, values, n)}
<1>1. 0 \in T
  <2>1. IsStreamed([i \in 0..0 |-> stream], stream, values, 0)
    BY DEF IsStreamed
  <2> QED BY <2>1
<1>2. ASSUME NEW n \in Nat, n \in T PROVE n + 1 \in T
  <2>1. PICK f : IsStreamed(f, stream, values, n)
    BY <1>2
  <2> DEFINE g == [i \in 0..(n + 1) |-> IF i = 0 THEN stream ELSE Out(f[i - 1], values[i])]
  <2>2. \A i \in 0..n : f[i] = IF i = 0 THEN stream ELSE Out(f[i - 1], values[i])
    BY <2>1 DEF IsStreamed
  <2>3. \A i \in 0..n : g[i] = f[i]
    BY <2>2
  <2>4. \A i \in 0..(n + 1) : i # 0 => i - 1 \in 0..n
    OBVIOUS
  <2>5. g = [i \in 0..(n + 1) |-> IF i = 0 THEN stream ELSE Out(g[i - 1], values[i])]
    BY <2>3, <2>4
  <2>6. IsStreamed(g, stream, values, n + 1)
    BY <2>5, Zenon DEF IsStreamed
  <2> QED BY <2>6
<1>3. Nat \subseteq T
  <2> HIDE DEF T
  <2> QED BY <1>1, <1>2, Induction
<1> QED BY <1>3

LEMMA StreamedIs ==
  ASSUME NEW stream, NEW values, Len(values) \in Nat
  PROVE  \E f : /\ \A i \in 0..Len(values) : f[i] = IF i = 0 THEN stream ELSE Out(f[i - 1], values[i])
                /\ Streamed(stream, values) = f[Len(values)]
<1> DEFINE f == CHOOSE f : f = [i \in 0..Len(values) |->
                                  IF i = 0 THEN stream ELSE Out(f[i - 1], values[i])]
<1>1. \E g : IsStreamed(g, stream, values, Len(values))
  BY StreamedExists
<1>2. f = [i \in 0..Len(values) |-> IF i = 0 THEN stream ELSE Out(f[i - 1], values[i])]
  BY <1>1, Zenon DEF IsStreamed
<1>3. Streamed(stream, values) = f[Len(values)]
  BY Zenon DEF Streamed
<1> HIDE DEF f
<1>4. \A i \in 0..Len(values) : f[i] = IF i = 0 THEN stream ELSE Out(f[i - 1], values[i])
  BY <1>2
<1> QED BY <1>3, <1>4

LEMMA StreamedNothing == \A stream : Streamed(stream, <<>>) = stream
<1>1. Len(<<>>) = 0
  OBVIOUS
<1> QED BY <1>1, StreamedIs

(* One value more is put after the others.                                 *)
LEMMA StreamedAppended ==
  ASSUME NEW S, NEW stream, NEW s \in Seq(S), NEW c \in S
  PROVE  Streamed(stream, Append(s, c)) = Out(Streamed(stream, s), c)
<1> DEFINE t == Append(s, c)
           n == Len(s)
<1>1. n \in Nat /\ Len(t) = n + 1 /\ t[n + 1] = c /\ \A i \in 1..n : t[i] = s[i]
  BY AppendProperties, LenProperties
<1> HIDE DEF t
<1>2. PICK g : /\ \A i \in 0..(n + 1) : g[i] = IF i = 0 THEN stream ELSE Out(g[i - 1], t[i])
               /\ Streamed(stream, t) = g[n + 1]
  BY <1>1, StreamedIs
<1>3. PICK f : /\ \A i \in 0..n : f[i] = IF i = 0 THEN stream ELSE Out(f[i - 1], s[i])
               /\ Streamed(stream, s) = f[n]
  BY <1>1, StreamedIs
<1> HIDE DEF n
<1> DEFINE T == {i \in Nat : i \in 0..n => f[i] = g[i]}
<1>4. 0 \in T
  BY <1>1, <1>2, <1>3
<1>5. ASSUME NEW i \in Nat, i \in T PROVE i + 1 \in T
  <2> SUFFICES ASSUME i + 1 \in 0..n PROVE f[i + 1] = g[i + 1]
    OBVIOUS
  <2>1. i + 1 \in 0..n /\ i + 1 # 0 /\ (i + 1) - 1 = i /\ i \in 0..n /\ i + 1 \in 0..(n + 1) /\ i + 1 \in 1..n
    BY <1>1
  <2>2. f[i + 1] = Out(f[i], s[i + 1]) /\ g[i + 1] = Out(g[i], t[i + 1])
    BY <1>2, <1>3, <2>1
  <2> QED BY <1>1, <1>5, <2>1, <2>2
<1>6. Nat \subseteq T
  <2> HIDE DEF T
  <2> QED BY <1>4, <1>5, Induction
<1>7. f[n] = g[n]
  BY <1>1, <1>6
<1>8. g[n + 1] = Out(g[n], c)
  <2>1. n + 1 \in 0..(n + 1) /\ n + 1 # 0 /\ (n + 1) - 1 = n
    BY <1>1
  <2> QED BY <1>1, <1>2, <2>1
<1> QED BY <1>2, <1>3, <1>7, <1>8 DEF t

LEMMA StreamedThree ==
  ASSUME NEW V, NEW r, NEW u \in V, NEW v \in V, NEW w \in V
  PROVE  Streamed(r, <<u, v, w>>) = Out(Out(Out(r, u), v), w)
<1> DEFINE e == <<>>
           a == <<u>>
           b == <<u, v>>
           c == <<u, v, w>>
<1>1. e \in Seq(V) /\ a \in Seq(V) /\ b \in Seq(V)
  OBVIOUS
<1>2. a = Append(e, u) /\ b = Append(a, v) /\ c = Append(b, w)
  BY PairAppended, TripleAppended
<1>3. Streamed(r, e) = r
  BY StreamedNothing
<1> HIDE DEF e, a, b, c
<1>4. Streamed(r, Append(e, u)) = Out(Streamed(r, e), u)
  BY <1>1, StreamedAppended
<1>5. Streamed(r, Append(a, v)) = Out(Streamed(r, a), v)
  BY <1>1, StreamedAppended
<1>6. Streamed(r, Append(b, w)) = Out(Streamed(r, b), w)
  BY <1>1, StreamedAppended
<1> QED BY <1>2, <1>3, <1>4, <1>5, <1>6 DEF c

LEMMA FiveAppended ==
  ASSUME NEW S, NEW a \in S, NEW b \in S, NEW c \in S, NEW d \in S, NEW e \in S
  PROVE  Append(<<a, b, c, d>>, e) = <<a, b, c, d, e>> /\ <<a, b, c, d, e>> \in Seq(S)
<1> DEFINE s == <<a, b, c, d>>
           t == <<a, b, c, d, e>>
<1>1. s \in Seq(S) /\ t \in Seq(S) /\ Len(s) = 4 /\ Len(t) = 5
  OBVIOUS
<1>2. /\ s[1] = a /\ s[2] = b /\ s[3] = c /\ s[4] = d
      /\ t[1] = a /\ t[2] = b /\ t[3] = c /\ t[4] = d /\ t[5] = e
  OBVIOUS
<1> HIDE DEF s, t
<1>3. Len(t) = Len(s) + 1 /\ (\A i \in 1..Len(s) : t[i] = s[i]) /\ t[Len(s) + 1] = e
  BY <1>1, <1>2
<1>4. t = Append(s, e)
  BY <1>1, <1>3, IsAppended
<1> QED BY <1>1, <1>4 DEF s, t

LEMMA StreamedFive ==
  ASSUME NEW V, NEW r, NEW u \in V, NEW v \in V, NEW w \in V, NEW x \in V, NEW y \in V
  PROVE  Streamed(r, <<u, v, w, x, y>>) = Out(Out(Out(Out(Out(r, u), v), w), x), y)
<1> DEFINE c == <<u, v, w>>
           d == <<u, v, w, x>>
           e == <<u, v, w, x, y>>
<1>1. c \in Seq(V) /\ d \in Seq(V)
  OBVIOUS
<1>2. d = Append(c, x) /\ e = Append(d, y)
  BY FourAppended, FiveAppended
<1>3. Streamed(r, c) = Out(Out(Out(r, u), v), w)
  BY StreamedThree
<1> HIDE DEF c, d, e
<1>4. Streamed(r, Append(c, x)) = Out(Streamed(r, c), x)
  BY <1>1, StreamedAppended
<1>5. Streamed(r, Append(d, y)) = Out(Streamed(r, d), y)
  BY <1>1, StreamedAppended
<1> QED BY <1>2, <1>3, <1>4, <1>5 DEF e

-----------------------------------------------------------------------------
(* What has been written in decimal and in hexadecimal.                    *)
Dec(chars) == [chars |-> chars, hex |-> FALSE]
Sixteen(chars) == [chars |-> chars, hex |-> TRUE]

LEMMA Changed ==
  ASSUME NEW c, NEW t
  PROVE  /\ [Dec(c) EXCEPT !.chars = t] = Dec(t)
         /\ [Sixteen(c) EXCEPT !.chars = t] = Sixteen(t)
         /\ [Dec(c) EXCEPT !.hex = TRUE] = Sixteen(c)
<1>1. ASSUME NEW h, NEW g PROVE [[chars |-> c, hex |-> h] EXCEPT !.chars = t] = [chars |-> t, hex |-> h]
  OBVIOUS
<1>2. ASSUME NEW h, NEW g PROVE [[chars |-> c, hex |-> h] EXCEPT !.hex = g] = [chars |-> c, hex |-> g]
  OBVIOUS
<1> QED BY <1>1, <1>2, Zenon DEF Dec, Sixteen

LEMMA PutIs ==
  /\ \A c, s : Put(Dec(c), s) = Dec(c \o s) /\ Put(Sixteen(c), s) = Sixteen(c \o s)
  /\ Record = Dec(<<>>)
  /\ \A c : [Dec(c) EXCEPT !.hex = TRUE] = Sixteen(c)
<1>1. ASSUME NEW c, NEW s PROVE Put(Dec(c), s) = Dec(c \o s) /\ Put(Sixteen(c), s) = Sixteen(c \o s)
  <2> DEFINE t == c \o s
  <2>1. Dec(c).chars = c /\ Sixteen(c).chars = c
    BY DEF Dec, Sixteen
  <2>2. Put(Dec(c), s) = [Dec(c) EXCEPT !.chars = t] /\ Put(Sixteen(c), s) = [Sixteen(c) EXCEPT !.chars = t]
    BY <2>1 DEF Put
  <2> HIDE DEF t
  <2>3. [Dec(c) EXCEPT !.chars = t] = Dec(t) /\ [Sixteen(c) EXCEPT !.chars = t] = Sixteen(t)
    BY Changed
  <2> QED BY <2>2, <2>3 DEF t
<1>2. Record = Dec(<<>>)
  BY DEF Record, Dec
<1>3. \A c : [Dec(c) EXCEPT !.hex = TRUE] = Sixteen(c)
  BY Changed
<1> QED BY <1>1, <1>2, <1>3

(* What each kind of value adds, inside a container ...                    *)
LEMMA ElementIs ==
  /\ \A c, s : OutElement(Dec(c), String(s)) = Dec(c \o UpToNul(s))
  /\ \A c, s : OutElement(Sixteen(c), String(s)) = Sixteen(c \o UpToNul(s))
  /\ \A c, n : OutElement(Dec(c), Number(n)) = Dec(c \o Numeral(n, 10))
  /\ \A c, n : OutElement(Sixteen(c), Number(n)) = Sixteen(c \o Numeral(n, 16))
  /\ \A c : OutElement(Dec(c), Null) = Dec(c \o <<"(null)">>)
<1>1. \A s : String(s).kind = "string" /\ String(s).of = s
  BY DEF String
<1>2. \A n : Number(n).kind = "number" /\ Number(n).of = n
  BY DEF Number
<1>3. Null.kind = "null"
  BY DEF Null
<1>4. \A c : ~Dec(c).hex /\ Sixteen(c).hex
  BY DEF Dec, Sixteen
<1>5. \A r, s : OutElement(r, String(s)) = Put(r, UpToNul(s))
  <2>1. \A r, s : OutElement(r, String(s)) = OutString(r, s)
    BY <1>1 DEF OutElement
  <2> QED BY <2>1 DEF OutString, OutCString
<1>6. \A r, n : OutElement(r, Number(n)) = OutNumber(r, n)
  BY <1>2 DEF OutElement
<1>7. \A r : OutElement(r, Null) = OutNull(r)
  BY <1>3 DEF OutElement
<1>8. \A c, n : /\ OutNumber(Dec(c), n) = Put(Dec(c), Numeral(n, 10))
               /\ OutNumber(Sixteen(c), n) = Put(Sixteen(c), Numeral(n, 16))
  BY <1>4 DEF OutNumber
<1>9. \A c : OutNull(Dec(c)) = Put(Dec(c), <<"(null)">>)
  BY Zenon DEF OutNull
<1>10. \A c, s : Put(Dec(c), s) = Dec(c \o s) /\ Put(Sixteen(c), s) = Sixteen(c \o s)
  BY PutIs
<1>11. /\ \A c, s : OutElement(Dec(c), String(s)) = Dec(c \o UpToNul(s))
       /\ \A c, s : OutElement(Sixteen(c), String(s)) = Sixteen(c \o UpToNul(s))
  BY <1>5, <1>10
<1>12. /\ \A c, n : OutElement(Dec(c), Number(n)) = Dec(c \o Numeral(n, 10))
       /\ \A c, n : OutElement(Sixteen(c), Number(n)) = Sixteen(c \o Numeral(n, 16))
  BY <1>6, <1>8, <1>10
<1>13. \A c : OutElement(Dec(c), Null) = Dec(c \o <<"(null)">>)
  BY <1>7, <1>9, <1>10
<1> QED BY <1>11, <1>12, <1>13

(* ... and streamed to the record itself, which treats most of them alike. *)
LEMMA OutIs ==
  /\ \A r, s : Out(r, String(s)) = OutElement(r, String(s)) /\ OutPair(r, String(s)) = OutElement(r, String(s))
  /\ \A r, n : Out(r, Number(n)) = OutElement(r, Number(n))
  /\ \A r : Out(r, Null) = OutElement(r, Null)
  /\ \A r, v, w : Out(r, Pair(v, w)) = OutElement(Put(OutElement(r, v), <<":">>), w)
  /\ \A r, v, w : OutPair(r, Pair(v, w)) = OutElement(Put(OutElement(r, v), <<":">>), w)
<1>1. /\ \A s : String(s).kind = "string"
      /\ \A n : Number(n).kind = "number"
      /\ Null.kind = "null"
      /\ \A v, w : Pair(v, w).kind = "pair" /\ Pair(v, w).first = v /\ Pair(v, w).second = w
  BY DEF String, Number, Null, Pair
<1>2. ASSUME NEW r, NEW x, x.kind \in {"string", "number", "null", "pair"} PROVE Out(r, x) = OutPair(r, x)
  BY <1>2 DEF Out
<1>3. ASSUME NEW r, NEW x, x.kind # "pair" PROVE OutPair(r, x) = OutElement(r, x)
  BY <1>3, Zenon DEF OutPair
<1>4. \A r, v, w : OutPair(r, Pair(v, w)) = OutElement(Put(OutElement(r, v), <<":">>), w)
  BY <1>1 DEF OutPair
<1>5. /\ \A r, s : Out(r, String(s)) = OutPair(r, String(s))
      /\ \A r, n : Out(r, Number(n)) = OutPair(r, Number(n))
      /\ \A r : Out(r, Null) = OutPair(r, Null)
      /\ \A r, v, w : Out(r, Pair(v, w)) = OutPair(r, Pair(v, w))
  BY <1>1, <1>2
<1>6. /\ \A r, s : OutPair(r, String(s)) = OutElement(r, String(s))
      /\ \A r, n : OutPair(r, Number(n)) = OutElement(r, Number(n))
      /\ \A r : OutPair(r, Null) = OutElement(r, Null)
  BY <1>1, <1>3
<1> QED BY <1>4, <1>5, <1>6

-----------------------------------------------------------------------------
(* The end of a line.                                                      *)

LEMMA SixAppended ==
  ASSUME NEW S, NEW a \in S, NEW b \in S, NEW c \in S, NEW d \in S, NEW e \in S, NEW f \in S
  PROVE  Append(<<a, b, c, d, e>>, f) = <<a, b, c, d, e, f>> /\ <<a, b, c, d, e, f>> \in Seq(S)
<1> DEFINE s == <<a, b, c, d, e>>
           t == <<a, b, c, d, e, f>>
<1>1. s \in Seq(S) /\ t \in Seq(S) /\ Len(s) = 5 /\ Len(t) = 6
  OBVIOUS
<1>2. /\ s[1] = a /\ s[2] = b /\ s[3] = c /\ s[4] = d /\ s[5] = e
      /\ t[1] = a /\ t[2] = b /\ t[3] = c /\ t[4] = d /\ t[5] = e /\ t[6] = f
  OBVIOUS
<1> HIDE DEF s, t
<1>3. Len(t) = Len(s) + 1 /\ (\A i \in 1..Len(s) : t[i] = s[i]) /\ t[Len(s) + 1] = f
  BY <1>1, <1>2
<1>4. t = Append(s, f)
  BY <1>1, <1>3, IsAppended
<1> QED BY <1>1, <1>4 DEF s, t

(* The symbols of a tuple are added one after the other.                   *)
LEMMA OneAdded ==
  ASSUME NEW S, NEW s \in Seq(S), NEW a \in S
  PROVE  s \o <<a>> = Append(s, a) /\ Append(s, a) \in Seq(S)
BY AppendIsConcat

LEMMA TwoAdded ==
  ASSUME NEW S, NEW s \in Seq(S), NEW a \in S, NEW b \in S
  PROVE  s \o <<a, b>> = Append(Append(s, a), b) /\ Append(Append(s, a), b) \in Seq(S)
<1> DEFINE p == <<a>>
<1>1. p \in Seq(S) /\ s \o p = Append(s, a) /\ Append(s, a) \in Seq(S)
  BY OneAdded
<1>2. <<a, b>> = Append(p, b)
  BY PairAppended
<1> HIDE DEF p
<1>3. s \o Append(p, b) = Append(s \o p, b)
  <2>1. p \in Seq(S)
    BY <1>1
  <2> QED BY <2>1, AppendToConcat
<1> QED BY <1>1, <1>2, <1>3

LEMMA ThreeAdded ==
  ASSUME NEW S, NEW s \in Seq(S), NEW a \in S, NEW b \in S, NEW c \in S
  PROVE  /\ s \o <<a, b, c>> = Append(Append(Append(s, a), b), c)
         /\ Append(Append(Append(s, a), b), c) \in Seq(S)
<1> DEFINE p == <<a, b>>
           q == Append(Append(s, a), b)
<1>1. p \in Seq(S) /\ s \o p = q /\ q \in Seq(S)
  BY TwoAdded
<1>2. <<a, b, c>> = Append(p, c)
  BY TripleAppended
<1> HIDE DEF p, q
<1>3. s \o Append(p, c) = Append(s \o p, c)
  <2>1. p \in Seq(S)
    BY <1>1
  <2> QED BY <2>1, AppendToConcat
<1>4. Append(q, c) \in Seq(S)
  BY <1>1
<1> QED BY <1>1, <1>2, <1>3, <1>4 DEF q

LEMMA FourAdded ==
  ASSUME NEW S, NEW s \in Seq(S), NEW a \in S, NEW b \in S, NEW c \in S, NEW d \in S
  PROVE  /\ s \o <<a, b, c, d>> = Append(Append(Append(Append(s, a), b), c), d)
         /\ Append(Append(Append(Append(s, a), b), c), d) \in Seq(S)
<1> DEFINE p == <<a, b, c>>
           q == Append(Append(Append(s, a), b), c)
<1>1. p \in Seq(S) /\ s \o p = q /\ q \in Seq(S)
  BY ThreeAdded
<1>2. <<a, b, c, d>> = Append(p, d)
  BY FourAppended
<1> HIDE DEF p, q
<1>3. s \o Append(p, d) = Append(s \o p, d)
  <2>1. p \in Seq(S)
    BY <1>1
  <2> QED BY <2>1, AppendToConcat
<1>4. Append(q, d) \in Seq(S)
  BY <1>1
<1> QED BY <1>1, <1>2, <1>3, <1>4 DEF q

LEMMA FiveAdded ==
  ASSUME NEW S, NEW s \in Seq(S), NEW a \in S, NEW b \in S, NEW c \in S, NEW d \in S, NEW e \in S
  PROVE  /\ s \o <<a, b, c, d, e>> = Append(Append(Append(Append(Append(s, a), b), c), d), e)
         /\ Append(Append(Append(Append(Append(s, a), b), c), d), e) \in Seq(S)
<1> DEFINE p == <<a, b, c, d>>
           q == Append(Append(Append(Append(s, a), b), c), d)
<1>1. p \in Seq(S) /\ s \o p = q /\ q \in Seq(S)
  BY FourAdded
<1>2. <<a, b, c, d, e>> = Append(p, e)
  BY FiveAppended
<1> HIDE DEF p, q
<1>3. s \o Append(p, e) = Append(s \o p, e)
  <2>1. p \in Seq(S)
    BY <1>1
  <2> QED BY <2>1, AppendToConcat
<1>4. Append(q, e) \in Seq(S)
  BY <1>1
<1> QED BY <1>1, <1>2, <1>3, <1>4 DEF q

-----------------------------------------------------------------------------
(* What is appended is a suffix.                                           *)
LEMMA EndIsSuffix ==
  ASSUME NEW S, NEW x \in Seq(S), NEW s \in Seq(S)
  PROVE  IsSuffix(s, x \o s)
<1> DEFINE t == x \o s
           n == Len(s)
           m == Len(x)
           rs == [i \in 1..n |-> s[(n - i) + 1]]
           rt == [i \in 1..(m + n) |-> t[((m + n) - i) + 1]]
<1>1. n \in Nat /\ m \in Nat
  BY LenProperties
<1>2. t \in Seq(S) /\ Len(t) = m + n /\ \A i \in 1..n : t[m + i] = s[i]
  BY ConcatProperties
<1>3. Reverse(s) = rs /\ Reverse(t) = rt
  BY <1>2 DEF Reverse
<1> HIDE DEF t, n, m
<1>4. rs \in [1..n -> S] /\ rt \in [1..(m + n) -> S]
  <2>1. \A i \in 1..n : (n - i) + 1 \in 1..n
    BY <1>1
  <2>2. \A i \in 1..(m + n) : ((m + n) - i) + 1 \in 1..(m + n)
    BY <1>1
  <2>3. (\A i \in 1..n : s[i] \in S) /\ \A i \in 1..(m + n) : t[i] \in S
    BY <1>2, ElementOfSeq DEF n
  <2> QED BY <2>1, <2>2, <2>3
<1>5. \A i \in 1..n : rs[i] = rt[i]
  <2> SUFFICES ASSUME NEW i \in 1..n PROVE rs[i] = rt[i]
    OBVIOUS
  <2>1. rs[i] = s[(n - i) + 1]
    OBVIOUS
  <2>2. i \in 1..(m + n) /\ (n - i) + 1 \in 1..n /\ ((m + n) - i) + 1 = m + ((n - i) + 1)
    BY <1>1
  <2>3. rt[i] = t[((m + n) - i) + 1]
    BY <2>2
  <2>4. t[m + ((n - i) + 1)] = s[(n - i) + 1]
    BY <1>2, <2>2
  <2> HIDE DEF rs, rt
  <2> QED BY <2>1, <2>2, <2>3, <2>4
<1> HIDE DEF rs, rt
<1>6. rs \in Seq(S) /\ Len(rs) = n /\ rt \in Seq(S) /\ Len(rt) = m + n
  BY <1>1, <1>4, FunctionIsSeq
<1>7. SubSeq(rs, 1, n) = SubSeq(rt, 1, n)
  <2>1. SubSeq(rs, 1, n) = [i \in 1..n |-> rs[i]] /\ SubSeq(rt, 1, n) = [i \in 1..n |-> rt[i]]
    BY <1>1, <1>6
  <2> QED BY <1>5, <2>1
<1>8. n <= m + n
  BY <1>1
<1>9. IsPrefix(rs, rt)
  BY <1>6, <1>7, <1>8 DEF IsPrefix
<1> QED BY <1>3, <1>9 DEF IsSuffix, t

LineWords == {"date", "time", "tid", "[", "]", ":", "@", "line", "name", "(", ")", "I", "NFO", Space, Newline}

(* The function of the record of MessageComplete.                          *)
LEMMA LineNameFound ==
  ASSUME NEW S, LineWords \subseteq S
  PROVE  processFuncName(<<"name", "(", ")">>) = <<"name">>
<1> DEFINE n == <<"name">>
           o == <<"(">>
           p == <<")">>
           no == <<"name", "(">>
<1>1. "name" \in S /\ "(" \in S /\ ")" \in S /\ Space \in S
  BY DEF LineWords
<1>2. n \in Seq(S \ {Space, "("}) /\ p \in Seq(S) /\ n \in Seq(S) /\ no \in Seq(S)
  BY <1>1 DEF Space
<1>3. n \o <<"(">> = no
  <2>1. n \o <<"(">> = Append(n, "(")
    BY <1>1, <1>2, OneAdded
  <2>2. Append(n, "(") = no
    BY <1>1, PairAppended
  <2> QED BY <2>1, <2>2
<1>4. no \o <<")">> = <<"name", "(", ")">>
  <2>1. no \o <<")">> = Append(no, ")")
    BY <1>1, <1>2, OneAdded
  <2>2. Append(no, ")") = <<"name", "(", ")">>
    BY <1>1, TripleAppended
  <2> QED BY <2>1, <2>2
<1>5. processFuncName(n \o <<"(">> \o p) = n
  <2> DEFINE e == <<>>
  <2>1. e \in Seq(S \ {"("})
    OBVIOUS
  <2> HIDE DEF n, p, e
  <2> QED BY <1>1, <1>2, <2>1, FuncNameIs
<1> QED BY <1>3, <1>4, <1>5

LEMMA Regroup ==
  ASSUME NEW S, NEW a \in Seq(S), NEW b \in Seq(S), NEW c \in Seq(S)
  PROVE  (a \o b) \o c = a \o (b \o c)
BY ConcatAssociative

LEMMA Joined ==
  ASSUME NEW S, NEW a \in Seq(S), NEW b \in Seq(S)
  PROVE  a \o b \in Seq(S)
BY ConcatProperties

(* From "[" on, and after what precedes it.                                *)
LineTail(b, f, e, t, n) == (b \o f \o e) \o (t \o n)
Sequences(S, x, b, f, e, t, n) ==
  /\ x \in Seq(S) /\ b \in Seq(S) /\ f \in Seq(S)
  /\ e \in Seq(S) /\ t \in Seq(S) /\ n \in Seq(S)

LEMMA FormattedTail ==
  ASSUME NEW S, NEW x, NEW b, NEW f, NEW e, NEW t, NEW n, Sequences(S, x, b, f, e, t, n)
  PROVE  /\ (x \o b) \o f \o e \o t \o n = x \o LineTail(b, f, e, t, n)
         /\ LineTail(b, f, e, t, n) \in Seq(S)
<1> DEFINE bf == b \o f
           bfe == bf \o e
           y == x \o bfe
           tn == t \o n
           g == bfe \o tn
<1>1. x \in Seq(S)
  BY DEF Sequences
<1>2. b \in Seq(S)
  BY DEF Sequences
<1>3. f \in Seq(S)
  BY DEF Sequences
<1>4. e \in Seq(S)
  BY DEF Sequences
<1>5. t \in Seq(S)
  BY DEF Sequences
<1>6. n \in Seq(S)
  BY DEF Sequences
<1>7. (x \o b) \o f = x \o bf
  BY <1>1, <1>2, <1>3, Regroup
<1>8. bf \in Seq(S)
  BY <1>2, <1>3, Joined
<1> HIDE DEF bf
<1>9. (x \o bf) \o e = x \o bfe
  BY <1>1, <1>8, <1>4, Regroup
<1>10. bfe \in Seq(S)
  BY <1>8, <1>4, Joined
<1> HIDE DEF bfe
<1>11. y \in Seq(S)
  BY <1>1, <1>10, Joined
<1> HIDE DEF y
<1>12. (y \o t) \o n = y \o tn
  BY <1>11, <1>5, <1>6, Regroup
<1>13. tn \in Seq(S)
  BY <1>5, <1>6, Joined
<1> HIDE DEF tn
<1>14. (x \o bfe) \o tn = x \o g
  BY <1>1, <1>10, <1>13, Regroup
<1>15. g \in Seq(S)
  BY <1>10, <1>13, Joined
<1> HIDE DEF g
<1>16. (x \o b) \o f \o e \o t \o n = x \o g
  BY <1>7, <1>9, <1>12, <1>14, Zenon DEF y
<1> QED BY <1>15, <1>16, Zenon DEF g, bfe, bf, tn, LineTail

LEMMA LineHeads ==
  ASSUME NEW S, LineWords \subseteq S
  PROVE  /\ NameAndLine \in Seq(S)
         /\ NameAndLine \o <<":", Space>> = <<"name", "@", "line", ":", Space>>
         /\ NameAndLine \o <<":", Space>> \in Seq(S)
         /\ <<"[">> \in Seq(S) /\ <<"]", Space>> \in Seq(S) /\ <<Newline>> \in Seq(S)
         /\ <<"[">> \o NameAndLine \o <<"]", Space>> = <<"[", "name", "@", "line", "]", Space>>
<1> DEFINE four == <<"[", "name", "@", "line">>
           open == <<"[">>
<1>1. /\ "[" \in S /\ "]" \in S /\ ":" \in S /\ "@" \in S /\ "line" \in S /\ "name" \in S
      /\ Space \in S /\ Newline \in S
  BY DEF LineWords
<1>2. NameAndLine \in Seq(S) /\ open \in Seq(S) /\ <<"]", Space>> \in Seq(S) /\ <<Newline>> \in Seq(S)
  BY <1>1, TripleAppended, PairAppended DEF NameAndLine
<1>3. NameAndLine \o <<":", Space>> = <<"name", "@", "line", ":", Space>>
  <2>1. /\ Append(NameAndLine, ":") = <<"name", "@", "line", ":">>
        /\ Append(<<"name", "@", "line", ":">>, Space) = <<"name", "@", "line", ":", Space>>
    BY <1>1, FourAppended, FiveAppended DEF NameAndLine
  <2>2. NameAndLine \o <<":", Space>> = Append(Append(NameAndLine, ":"), Space)
    BY <1>1, <1>2, TwoAdded
  <2> QED BY <2>1, <2>2
<1>4. <<"name", "@", "line", ":", Space>> \in Seq(S)
  BY <1>1, FiveAppended
<1>5. open \o NameAndLine = four /\ four \in Seq(S)
  <2>1. open \o <<"name", "@", "line">> = Append(Append(Append(open, "name"), "@"), "line")
    <3> HIDE DEF open
    <3> QED BY <1>1, <1>2, ThreeAdded
  <2>2. /\ Append(open, "name") = <<"[", "name">> /\ Append(<<"[", "name">>, "@") = <<"[", "name", "@">>
        /\ Append(<<"[", "name", "@">>, "line") = four /\ four \in Seq(S)
    BY <1>1, PairAppended, TripleAppended, FourAppended
  <2> QED BY <2>1, <2>2 DEF NameAndLine
<1>6. four \o <<"]", Space>> = <<"[", "name", "@", "line", "]", Space>>
  <2>1. four \o <<"]", Space>> = Append(Append(four, "]"), Space)
    <3> HIDE DEF four
    <3> QED BY <1>1, <1>5, TwoAdded
  <2>2. /\ Append(four, "]") = <<"[", "name", "@", "line", "]">>
        /\ Append(<<"[", "name", "@", "line", "]">>, Space) = <<"[", "name", "@", "line", "]", Space>>
    BY <1>1, FiveAppended, SixAppended
  <2> QED BY <2>1, <2>2
<1> QED BY <1>2, <1>3, <1>4, <1>5, <1>6

(* A message whose symbols are what the statement streamed ends its line,  *)
(* whichever formatter writes it.                                          *)
LEMMA LineFound ==
  ASSUME NEW S, LineWords \subseteq S, NEW t \in Seq(S \ {Nul}), NEW stream, Streamed(Record, stream).chars = t
  PROVE  LineEndsWith(stream, t)
<1> DEFINE record == [severity |-> "info", func |-> <<"name", "(", ")">>,
                      message |-> Streamed(Record, stream)]
           nl == <<Newline>>
           line == t \o nl
           head == NameAndLine \o <<":", Space>>
           open == <<"[">>
           close == <<"]", Space>>
<1>1. t \in Seq(S)
  BY SeqMonotonic
<1>2. getMessage(record.message) = t
  BY NulFree DEF getMessage
<1>3. FuncAndLine(record) = NameAndLine
  <2> DEFINE n == <<"name">>
             l == <<"@", "line">>
  <2>1. "name" \in S /\ "@" \in S /\ "line" \in S
    BY DEF LineWords
  <2>2. FuncAndLine(record) = n \o l
    BY LineNameFound DEF FuncAndLine
  <2>3. n \in Seq(S)
    BY <2>1
  <2>4. n \o l = Append(Append(n, "@"), "line")
    <3> HIDE DEF n
    <3> QED BY <2>1, <2>3, TwoAdded
  <2>5. Append(n, "@") = <<"name", "@">> /\ Append(<<"name", "@">>, "line") = NameAndLine
    BY <2>1, PairAppended, TripleAppended DEF NameAndLine
  <2> QED BY <2>2, <2>4, <2>5
<1>4. record.severity = "info"
  OBVIOUS
<1> HIDE DEF record
<1>5. /\ NameAndLine \in Seq(S) /\ head = <<"name", "@", "line", ":", Space>> /\ head \in Seq(S)
      /\ open \in Seq(S) /\ close \in Seq(S) /\ nl \in Seq(S)
      /\ open \o NameAndLine \o close = <<"[", "name", "@", "line", "]", Space>>
  BY LineHeads
<1>6. MessageOnlyFormat(record) = line
  BY <1>2 DEF MessageOnlyFormat
<1>7. FuncMessageFormat(record) = <<"name", "@", "line", ":", Space>> \o line
  <2>1. FuncMessageFormat(record) = (head \o t) \o nl
    BY <1>2, <1>3, Zenon DEF FuncMessageFormat
  <2>2. (head \o t) \o nl = head \o (t \o nl)
    <3>1. head \in Seq(S) /\ nl \in Seq(S)
      BY <1>5
    <3> HIDE DEF head, nl
    <3> QED BY <1>1, <3>1, ConcatAssociative
  <2> QED BY <1>5, <2>1, <2>2
<1>8. IsSuffix(<<"[", "name", "@", "line", "]", Space>> \o line, TxtFormat(record))
  <2> DEFINE sev == severityToString("info")
             dates == <<"date", Space, "time", Space>>
             tid == <<Space, "[", "tid", "]", Space>>
             ds == dates \o sev
             x == ds \o tid
             six == <<Space, "[", "tid", "]", Space, "[">>
  <2>1. /\ "date" \in S /\ "time" \in S /\ "tid" \in S /\ "[" \in S /\ "]" \in S /\ Space \in S
        /\ "I" \in S /\ "NFO" \in S
    BY DEF LineWords
  <2>2. sev \in Seq(S)
    <3>1. sev = <<"I", "NFO">>
      BY DEF severityToString
    <3> QED BY <2>1, <3>1, PairAppended
  <2>3. dates \in Seq(S) /\ tid \in Seq(S) /\ six = Append(tid, "[")
    BY <2>1, FourAppended, FiveAppended, SixAppended
  <2> HIDE DEF sev, dates, tid, six
  <2>4. ds \in Seq(S)
    BY <2>2, <2>3, ConcatProperties
  <2> HIDE DEF ds
  <2>5. x \in Seq(S)
    BY <2>3, <2>4, ConcatProperties
  <2>6. ds \o six = x \o open
    <3>1. ds \o Append(tid, "[") = Append(ds \o tid, "[")
      <4>1. tid \in Seq(S)
        BY <2>3
      <4> QED BY <2>1, <2>4, <4>1, AppendToConcat
    <3> HIDE DEF x
    <3>2. x \o <<"[">> = Append(x, "[")
      BY <2>1, <2>5, OneAdded
    <3> QED BY <2>3, <3>1, <3>2 DEF x
  <2> HIDE DEF x
  <2>7. TxtFormat(record) = ds \o six \o NameAndLine \o close \o t \o nl
    BY <1>2, <1>3, <1>4, Zenon DEF TxtFormat, ds, sev, dates, six
  <2> HIDE DEF open, close, nl
  <2> DEFINE g == LineTail(open, NameAndLine, close, t, nl)
  <2>8. (x \o open) \o NameAndLine \o close \o t \o nl = x \o g /\ g \in Seq(S)
    <3>1. open \in Seq(S) /\ close \in Seq(S) /\ nl \in Seq(S) /\ NameAndLine \in Seq(S)
      BY <1>5
    <3>2. Sequences(S, x, open, NameAndLine, close, t, nl)
      BY <1>1, <2>5, <3>1 DEF Sequences
    <3> QED BY <3>2, FormattedTail
  <2> HIDE DEF g
  <2>9. IsSuffix(g, x \o g)
    BY <2>5, <2>8, EndIsSuffix
  <2>10. g = <<"[", "name", "@", "line", "]", Space>> \o line
    BY <1>5, Zenon DEF g, LineTail
  <2> QED BY <2>6, <2>7, <2>8, <2>9, <2>10
<1> QED BY <1>6, <1>7, <1>8, Zenon DEF LineEndsWith, record

TextWords == LineWords \cup DigitSet \cup {"(null)", ","}
TextSet == Symbols \cup TextWords

LEMMA TextWordsAre ==
  /\ TextWords \subseteq TextSet \ {Nul} /\ LineWords \subseteq TextSet /\ DigitSet \subseteq TextWords
  /\ ":" \in TextWords /\ "[" \in TextWords /\ "]" \in TextWords /\ "," \in TextWords
  /\ "(null)" \in TextWords /\ Space \in TextWords
<1>1. \A c \in LineWords : c # Nul
  BY DEF LineWords, Nul, Space, Newline
<1>2. \A c \in DigitSet : c # Nul
  BY DEF DigitSet, Nul
<1>3. "(null)" # Nul /\ "," # Nul
  BY DEF Nul
<1>4. ":" \in LineWords /\ "[" \in LineWords /\ "]" \in LineWords /\ Space \in LineWords
  BY DEF LineWords
<1> QED BY <1>1, <1>2, <1>3, <1>4 DEF TextWords, TextSet

(* The numerals of the numbers that are streamed.                          *)
LEMMA Numerals ==
  /\ Numeral(16, 10) = <<"1", "6">> /\ Numeral(16, 16) = <<"1", "0">>
  /\ Numeral(10, 10) = <<"1", "0">> /\ Numeral(5, 10) = <<"5">>
<1>1. Digits[1] = "0" /\ Digits[2] = "1" /\ Digits[6] = "5" /\ Digits[7] = "6"
  BY DEF Digits
<1>2. Numeral(1, 10) = <<"1">> /\ Numeral(1, 16) = <<"1">> /\ Numeral(5, 10) = <<"5">>
  <2>1. Numeral(1, 10) = <<Digits[1 + 1]>> /\ Numeral(1, 16) = <<Digits[1 + 1]>> /\ Numeral(5, 10) = <<Digits[5 + 1]>>
    BY NumeralIs
  <2> QED BY <1>1, <2>1
<1>3. /\ Numeral(16, 10) = Append(Numeral(1, 10), Digits[7])
      /\ Numeral(16, 16) = Append(Numeral(1, 16), Digits[1])
      /\ Numeral(10, 10) = Append(Numeral(1, 10), Digits[1])
  <2>1. /\ 16 \div 10 = 1 /\ 16 \div 16 = 1 /\ 10 \div 10 = 1
        /\ (16 % 10) + 1 = 7 /\ (16 % 16) + 1 = 1 /\ (10 % 10) + 1 = 1
    OBVIOUS
  <2>2. /\ Numeral(16, 10) = Append(Numeral(16 \div 10, 10), Digits[(16 % 10) + 1])
        /\ Numeral(16, 16) = Append(Numeral(16 \div 16, 16), Digits[(16 % 16) + 1])
        /\ Numeral(10, 10) = Append(Numeral(10 \div 10, 10), Digits[(10 % 10) + 1])
    <3>1. ASSUME NEW base \in {10, 16}, NEW n \in Nat, n >= base
          PROVE  Numeral(n, base) = Append(Numeral(n \div base, base), Digits[(n % base) + 1])
      <4>1. ~(n < base)
        BY <3>1
      <4> QED BY <4>1, NumeralIs
    <3>2. 16 >= 10 /\ 16 >= 16 /\ 10 >= 10 /\ 16 \in Nat /\ 10 \in Nat /\ 10 \in {10, 16} /\ 16 \in {10, 16}
      OBVIOUS
    <3> QED BY <3>1, <3>2, Zenon
  <2> QED BY <2>1, <2>2
<1>4. /\ Append(<<"1">>, "6") = <<"1", "6">> /\ Append(<<"1">>, "0") = <<"1", "0">>
  <2>1. "1" \in DigitSet /\ "6" \in DigitSet /\ "0" \in DigitSet
    BY DEF DigitSet
  <2> QED BY <2>1, PairAppended
<1> QED BY <1>1, <1>2, <1>3, <1>4

(* What the values of MessageComplete add to what has been streamed.       *)
LEMMA StreamIs ==
  ASSUME NEW c, NEW s, NEW n
  PROVE  /\ Out(Dec(c), String(s)) = Dec(c \o UpToNul(s))
         /\ Out(Sixteen(c), String(s)) = Sixteen(c \o UpToNul(s))
         /\ Out(Dec(c), Number(n)) = Dec(c \o Numeral(n, 10))
         /\ Out(Sixteen(c), Number(n)) = Sixteen(c \o Numeral(n, 16))
         /\ Out(Dec(c), Null) = Dec(c \o <<"(null)">>)
         /\ Out(Dec(c), Pair(String(s), Number(n))) = Dec(((c \o UpToNul(s)) \o <<":">>) \o Numeral(n, 10))
         /\ OutPair(Dec(c), Pair(Null, String(s))) = Dec(((c \o <<"(null)">>) \o <<":">>) \o UpToNul(s))
<1>1. /\ Out(Dec(c), String(s)) = Dec(c \o UpToNul(s))
      /\ Out(Sixteen(c), String(s)) = Sixteen(c \o UpToNul(s))
      /\ Out(Dec(c), Number(n)) = Dec(c \o Numeral(n, 10))
      /\ Out(Sixteen(c), Number(n)) = Sixteen(c \o Numeral(n, 16))
      /\ Out(Dec(c), Null) = Dec(c \o <<"(null)">>)
  BY OutIs, ElementIs
<1>2. Out(Dec(c), Pair(String(s), Number(n))) = Dec(((c \o UpToNul(s)) \o <<":">>) \o Numeral(n, 10))
  <2> DEFINE d == c \o UpToNul(s)
             e == d \o <<":">>
  <2>1. Out(Dec(c), Pair(String(s), Number(n))) = OutElement(Put(OutElement(Dec(c), String(s)), <<":">>), Number(n))
    BY OutIs
  <2>2. OutElement(Dec(c), String(s)) = Dec(d)
    BY ElementIs
  <2>3. Put(Dec(d), <<":">>) = Dec(e)
    BY PutIs
  <2>4. OutElement(Dec(e), Number(n)) = Dec(e \o Numeral(n, 10))
    BY ElementIs
  <2> QED BY <2>1, <2>2, <2>3, <2>4, Zenon
<1>3. OutPair(Dec(c), Pair(Null, String(s))) = Dec(((c \o <<"(null)">>) \o <<":">>) \o UpToNul(s))
  <2> DEFINE d == c \o <<"(null)">>
             e == d \o <<":">>
  <2>1. OutPair(Dec(c), Pair(Null, String(s))) = OutElement(Put(OutElement(Dec(c), Null), <<":">>), String(s))
    BY OutIs
  <2>2. OutElement(Dec(c), Null) = Dec(d)
    BY ElementIs
  <2>3. Put(Dec(d), <<":">>) = Dec(e)
    BY PutIs
  <2>4. OutElement(Dec(e), String(s)) = Dec(e \o UpToNul(s))
    BY ElementIs
  <2> QED BY <2>1, <2>2, <2>3, <2>4, Zenon
<1> QED BY <1>1, <1>2, <1>3

LEMMA SevenDumped ==
  ASSUME NEW c
  PROVE  Out(Dec(c), Hex(<<7>>, 8)) = Sixteen(c \o <<"0", "7">>)
<1> DEFINE bytes == <<7>>
           v == Hex(bytes, 8)
           dump == FlattenSeq([i \in DOMAIN bytes |-> TwoDigits(bytes[i], 16) \o
                     (IF i = Len(bytes) THEN <<>> ELSE IF GroupEnds(i, 8) THEN <<groupSeparator>> ELSE <<Space>>)])
<1>1. v.kind = "hex" /\ v.of = bytes /\ v.group = 8
  BY DEF Hex
<1>2. Out(Dec(c), v) = OutHex(Dec(c), bytes, 8)
  <2> HIDE DEF v, bytes
  <2> QED BY <1>1 DEF Out
<1>3. OutHex(Dec(c), bytes, 8) = Put([Dec(c) EXCEPT !.hex = TRUE], dump)
  BY Zenon DEF OutHex
<1>4. dump = <<"0", "7">>
  <2> DEFINE f == [i \in DOMAIN bytes |-> TwoDigits(bytes[i], 16) \o
                     (IF i = Len(bytes) THEN <<>> ELSE IF GroupEnds(i, 8) THEN <<groupSeparator>> ELSE <<Space>>)]
             t == <<"0", "7">>
             none == <<>>
  <2>1. TwoDigits(7, 16) = t
    <3>1. 7 \div 16 = 0 /\ 7 % 16 = 7
      OBVIOUS
    <3> QED BY <3>1 DEF TwoDigits, Digits
  <2>2. t \in Seq(DigitSet)
    BY DEF DigitSet
  <2>3. DOMAIN bytes = 1..1 /\ Len(bytes) = 1 /\ bytes[1] = 7
    OBVIOUS
  <2>4. f = [i \in 1..1 |-> t]
    <3>1. t \o none = t
      <4> HIDE DEF t
      <4> QED BY <2>2, ConcatEmptySeq
    <3>2. f[1] = TwoDigits(7, 16) \o none
      BY <2>3
    <3> HIDE DEF t, bytes
    <3> QED BY <2>1, <2>3, <3>1, <3>2
  <2> HIDE DEF t, f
  <2>5. FlattenSeq([i \in 1..1 |-> t]) = FlattenSeq([i \in 1..0 |-> t]) \o t
    <3> DEFINE g == [i \in 1..0 |-> t]
               h == [i \in 1..(0 + 1) |-> t]
    <3>1. g \in [1..0 -> Seq(DigitSet)] /\ h \in [1..(0 + 1) -> Seq(DigitSet)] /\ \A i \in 1..0 : h[i] = g[i]
      BY <2>2
    <3>2. h[0 + 1] = t /\ h = [i \in 1..1 |-> t]
      OBVIOUS
    <3> HIDE DEF g, h
    <3>3. FlattenSeq(h) = FlattenSeq(g) \o h[0 + 1]
      BY <3>1, FlattenLonger
    <3> QED BY <3>2, <3>3 DEF g
  <2>6. FlattenSeq([i \in 1..0 |-> t]) = none
    <3>1. [i \in 1..0 |-> t] = <<>>
      OBVIOUS
    <3> QED BY <3>1, FlattenEmpty
  <2>7. none \o t = t
    BY <2>2, ConcatEmptySeq
  <2> QED BY <2>4, <2>5, <2>6, <2>7 DEF t, f
<1> HIDE DEF bytes, dump
<1>5. Put([Dec(c) EXCEPT !.hex = TRUE], dump) = Sixteen(c \o dump)
  BY PutIs
<1> QED BY <1>2, <1>3, <1>4, <1>5 DEF bytes

TextSymbols == TextSet \ {Nul}

LEMMA StringText ==
  ASSUME NEW s \in Seq(TextSet)
  PROVE  UpToNul(s) \in Seq(TextSymbols)
BY UpToNulType DEF TextSymbols

LEMMA WordsText ==
  /\ \A c \in {":", "[", "]", ",", "(null)", Space} \cup DigitSet : c \in TextSymbols
  /\ "0" \in TextSymbols /\ "1" \in TextSymbols /\ "5" \in TextSymbols /\ "6" \in TextSymbols
  /\ "7" \in TextSymbols /\ "a" \in TextSymbols /\ "b" \in TextSymbols
<1>1. \A c \in {":", "[", "]", ",", "(null)", Space} \cup DigitSet : c \in TextSymbols
  BY TextWordsAre DEF TextSymbols
<1>2. /\ "0" \in DigitSet /\ "1" \in DigitSet /\ "5" \in DigitSet /\ "6" \in DigitSet
      /\ "7" \in DigitSet /\ "a" \in DigitSet /\ "b" \in DigitSet
  BY DEF DigitSet
<1> QED BY <1>1, <1>2

(* A line ends with the text of its stream.                                *)
LEMMA TextFound ==
  ASSUME NEW t \in Seq(TextSymbols), NEW stream, Streamed(Record, stream).chars = t
  PROVE  LineEndsWith(stream, t)
<1>1. LineWords \subseteq TextSet /\ t \in Seq(TextSet \ {Nul})
  BY TextWordsAre DEF TextSymbols
<1> QED BY <1>1, LineFound

LEMMA NothingBefore ==
  ASSUME NEW S, NEW s \in Seq(S)
  PROVE  <<>> \o s = s
BY ConcatEmptySeq

(* The statements of MessageComplete: a string, a number and a string are  *)
(* streamed; ...                                                           *)
LEMMA FirstStatement ==
  ASSUME NEW s \in Seq(TextSet), NEW r \in Seq(TextSet)
  PROVE  LineEndsWith(<<String(s), Number(16), String(r)>>, UpToNul(s) \o <<"1", "6">> \o UpToNul(r))
<1> DEFINE V == {String(s), Number(16), String(r)}
           stream == <<String(s), Number(16), String(r)>>
           us == UpToNul(s)
           ur == UpToNul(r)
           n == <<"1", "6">>
           a == us \o n
           t == a \o ur
           e == <<>>
<1>1. us \in Seq(TextSymbols) /\ ur \in Seq(TextSymbols)
  BY StringText
<1>2. n \in Seq(TextSymbols)
  BY WordsText, PairAppended
<1>3. Streamed(Record, stream) = Out(Out(Out(Record, String(s)), Number(16)), String(r))
  <2> DEFINE u == String(s)
             v == Number(16)
             w == String(r)
  <2>1. u \in V /\ v \in V /\ w \in V
    OBVIOUS
  <2> HIDE DEF u, v, w, V
  <2>2. Streamed(Record, <<u, v, w>>) = Out(Out(Out(Record, u), v), w)
    BY <2>1, StreamedThree
  <2> QED BY <2>2, Zenon DEF u, v, w
<1>4. Record = Dec(e)
  BY PutIs
<1> HIDE DEF us, ur, n
<1>5. Out(Dec(e), String(s)) = Dec(us)
  <2>1. Out(Dec(e), String(s)) = Dec(e \o us)
    BY StreamIs DEF us
  <2>2. e \o us = us
    BY <1>1, NothingBefore
  <2> QED BY <2>1, <2>2
<1> HIDE DEF e
<1>6. Out(Dec(us), Number(16)) = Dec(a)
  <2>1. Out(Dec(us), Number(16)) = Dec(us \o Numeral(16, 10))
    BY StreamIs
  <2> QED BY <2>1, Numerals DEF n
<1>7. a \in Seq(TextSymbols)
  BY <1>1, <1>2, Joined
<1> HIDE DEF a
<1>8. Out(Dec(a), String(r)) = Dec(t)
  BY StreamIs DEF ur
<1>9. t \in Seq(TextSymbols)
  BY <1>1, <1>7, Joined
<1> HIDE DEF t
<1>10. Streamed(Record, stream).chars = t
  BY <1>3, <1>4, <1>5, <1>6, <1>8 DEF Dec
<1>11. LineEndsWith(stream, t)
  <2> HIDE DEF stream
  <2> QED BY <1>9, <1>10, TextFound
<1> QED BY <1>11 DEF t, a, us, n, ur

LEMMA FiveSymbols ==
  ASSUME NEW S, NEW s \in Seq(S), NEW a \in S, NEW b \in S, NEW c \in S, NEW d \in S, NEW e \in S
  PROVE  /\ ((s \o <<a>>) \o <<b, c>>) \o <<d, e>> = s \o <<a, b, c, d, e>>
         /\ s \o <<a, b, c, d, e>> \in Seq(S)
<1> DEFINE p == Append(s, a)
           q == Append(Append(p, b), c)
<1>1. s \o <<a>> = p /\ p \in Seq(S)
  BY OneAdded
<1>2. s \o <<a, b, c, d, e>> = Append(Append(q, d), e) /\ Append(Append(q, d), e) \in Seq(S)
  BY FiveAdded
<1> HIDE DEF p
<1>3. p \o <<b, c>> = q /\ q \in Seq(S)
  <2>1. p \in Seq(S)
    BY <1>1
  <2> QED BY <2>1, TwoAdded
<1> HIDE DEF q
<1>4. q \o <<d, e>> = Append(Append(q, d), e)
  <2>1. q \in Seq(S)
    BY <1>3
  <2> QED BY <2>1, TwoAdded
<1> QED BY <1>1, <1>2, <1>3, <1>4

(* ... a null pointer and a dump come between, and the number is in        *)
(* hexadecimal.                                                            *)
LEMMA SecondStatement ==
  ASSUME NEW s \in Seq(TextSet), NEW r \in Seq(TextSet)
  PROVE  LineEndsWith(<<String(s), Null, Hex(<<7>>, 8), Number(16), String(r)>>,
                      UpToNul(s) \o <<"(null)", "0", "7", "1", "0">> \o UpToNul(r))
<1> DEFINE V == {String(s), Null, Hex(<<7>>, 8), Number(16), String(r)}
           stream == <<String(s), Null, Hex(<<7>>, 8), Number(16), String(r)>>
           us == UpToNul(s)
           ur == UpToNul(r)
           a == us \o <<"(null)">>
           b == a \o <<"0", "7">>
           c == b \o <<"1", "0">>
           t == c \o ur
           e == <<>>
<1>1. us \in Seq(TextSymbols) /\ ur \in Seq(TextSymbols)
  BY StringText
<1>2. us \in Seq(TextSymbols)
  BY <1>1
<1>3. Streamed(Record, stream) = Out(Out(Out(Out(Out(Record, String(s)), Null), Hex(<<7>>, 8)), Number(16)), String(r))
  <2> DEFINE u == String(s)
             v == Null
             w == Hex(<<7>>, 8)
             x == Number(16)
             y == String(r)
  <2>1. u \in V /\ v \in V /\ w \in V /\ x \in V /\ y \in V
    OBVIOUS
  <2> HIDE DEF u, v, w, x, y, V
  <2>2. Streamed(Record, <<u, v, w, x, y>>) = Out(Out(Out(Out(Out(Record, u), v), w), x), y)
    BY <2>1, StreamedFive
  <2> QED BY <2>2, Zenon DEF u, v, w, x, y
<1>4. Record = Dec(e)
  BY PutIs
<1> HIDE DEF us, ur
<1>5. Out(Dec(e), String(s)) = Dec(us)
  <2>1. Out(Dec(e), String(s)) = Dec(e \o us)
    BY StreamIs DEF us
  <2>2. e \o us = us
    BY <1>1, NothingBefore
  <2> QED BY <2>1, <2>2
<1> HIDE DEF e
<1>6. c = us \o <<"(null)", "0", "7", "1", "0">> /\ c \in Seq(TextSymbols)
  <2> DEFINE null == "(null)"
             zero == "0"
             seven == "7"
             one == "1"
  <2>1. null \in TextSymbols /\ zero \in TextSymbols /\ seven \in TextSymbols /\ one \in TextSymbols
    BY WordsText
  <2> HIDE DEF null, zero, seven, one
  <2>2. /\ ((us \o <<null>>) \o <<zero, seven>>) \o <<one, zero>> = us \o <<null, zero, seven, one, zero>>
        /\ us \o <<null, zero, seven, one, zero>> \in Seq(TextSymbols)
    BY <1>2, <2>1, FiveSymbols
  <2> QED BY <2>2, Zenon DEF null, zero, seven, one
<1>7. Out(Dec(us), Null) = Dec(a)
  BY StreamIs
<1> HIDE DEF a
<1>8. Out(Dec(a), Hex(<<7>>, 8)) = Sixteen(b)
  BY SevenDumped
<1> HIDE DEF b
<1>9. Out(Sixteen(b), Number(16)) = Sixteen(c)
  <2>1. Out(Sixteen(b), Number(16)) = Sixteen(b \o Numeral(16, 16))
    BY StreamIs
  <2> QED BY <2>1, Numerals
<1> HIDE DEF c
<1>10. Out(Sixteen(c), String(r)) = Sixteen(t)
  BY StreamIs DEF ur
<1>11. t \in Seq(TextSymbols)
  <2>1. c \in Seq(TextSymbols)
    BY <1>6
  <2> QED BY <1>1, <2>1, Joined
<1> HIDE DEF t
<1>12. Streamed(Record, stream).chars = t
  <2>1. Streamed(Record, stream) = Sixteen(t)
    BY <1>3, <1>4, <1>5, <1>7, <1>8, <1>9, <1>10, Zenon
  <2> HIDE DEF stream
  <2> QED BY <2>1 DEF Sixteen
<1>13. LineEndsWith(stream, t)
  <2> HIDE DEF stream
  <2> QED BY <1>11, <1>12, TextFound
<1> QED BY <1>6, <1>13, Zenon DEF t, us, ur

-----------------------------------------------------------------------------
(* Containers.  The separators are before every element but the first; to  *)
(* append an element they are better after every element but the last.     *)

(* An element of a list with the separator before it unless it is the first,*)
(* after it, and after it unless it is the last; the lists made of them.   *)
Second(w, sep, i) == (IF i = 1 THEN <<>> ELSE sep) \o w[i]
First(w, sep, i) == w[i] \o sep
InnerFirst(w, sep, i, n) == w[i] \o (IF i = n THEN <<>> ELSE sep)
Preceded(w, sep, n) == FlattenSeq([i \in 1..n |-> Second(w, sep, i)])
Followed(w, sep, n) == FlattenSeq([i \in 1..n |-> First(w, sep, i)])
Joint(w, sep, n) == FlattenSeq([i \in 1..n |-> InnerFirst(w, sep, i, n)])

LEMMA ElementsAre ==
  ASSUME NEW S, NEW sep \in Seq(S), NEW w, NEW i, w[i] \in Seq(S)
  PROVE  /\ i = 1 => Second(w, sep, i) = w[i]
         /\ i # 1 => Second(w, sep, i) = sep \o w[i]
         /\ InnerFirst(w, sep, i, i) = w[i]
         /\ \A n : n # i => InnerFirst(w, sep, i, n) = First(w, sep, i)
         /\ Second(w, sep, i) \in Seq(S) /\ First(w, sep, i) \in Seq(S)
<1> DEFINE x == w[i]
<1>1. x \in Seq(S)
  OBVIOUS
<1>2. /\ Second(w, sep, i) = (IF i = 1 THEN <<>> ELSE sep) \o x
      /\ InnerFirst(w, sep, i, i) = x \o <<>>
      /\ First(w, sep, i) = x \o sep
      /\ \A n : n # i => InnerFirst(w, sep, i, n) = First(w, sep, i)
  BY DEF Second, First, InnerFirst
<1> HIDE DEF x
<1>3. x \o <<>> = x /\ <<>> \o x = x
  BY <1>1, ConcatEmptySeq
<1>4. sep \o x \in Seq(S) /\ x \o sep \in Seq(S)
  BY <1>1, Joined
<1>5. Second(w, sep, i) = IF i = 1 THEN x ELSE sep \o x
  BY <1>2, <1>3
<1> QED BY <1>1, <1>2, <1>3, <1>4, <1>5 DEF x

LEMMA NoElements ==
  \A w, sep : Preceded(w, sep, 0) = <<>> /\ Followed(w, sep, 0) = <<>> /\ Joint(w, sep, 0) = <<>>
<1> TAKE w, sep
<1>1. /\ [i \in 1..0 |-> Second(w, sep, i)] = <<>> /\ [i \in 1..0 |-> First(w, sep, i)] = <<>>
      /\ [i \in 1..0 |-> InnerFirst(w, sep, i, 0)] = <<>>
  OBVIOUS
<1> QED BY <1>1, FlattenEmpty DEF Preceded, Followed, Joint

LEMMA AroundSeparators ==
  ASSUME NEW S, NEW b \in Seq(S), NEW s \in Seq(S), NEW w \in Seq(S)
  PROVE  (b \o s) \o (w \o s) = (b \o (s \o w)) \o s
<1> DEFINE bs == b \o s
           bsw == b \o (s \o w)
<1>1. bs \in Seq(S)
  BY Joined
<1>2. bs \o w = bsw
  BY Regroup
<1>3. (bs \o w) \o s = bs \o (w \o s)
  <2> HIDE DEF bs
  <2> QED BY <1>1, Regroup
<1> QED BY <1>2, <1>3

LEMMA PrecededNext ==
  ASSUME NEW S, NEW sep \in Seq(S), NEW w, NEW n \in Nat, \A i \in 1..(n + 1) : w[i] \in Seq(S)
  PROVE  /\ Preceded(w, sep, n) \in Seq(S)
         /\ Preceded(w, sep, n + 1) = Preceded(w, sep, n) \o (IF n = 0 THEN w[n + 1] ELSE sep \o w[n + 1])
<1> DEFINE f == [i \in 1..n |-> Second(w, sep, i)]
           g == [i \in 1..(n + 1) |-> Second(w, sep, i)]
<1>1. Preceded(w, sep, n) = FlattenSeq(f) /\ Preceded(w, sep, n + 1) = FlattenSeq(g)
  BY DEF Preceded
<1>2. \A i \in 1..(n + 1) : Second(w, sep, i) \in Seq(S)
  BY ElementsAre
<1>3. f \in [1..n -> Seq(S)] /\ g \in [1..(n + 1) -> Seq(S)] /\ \A i \in 1..n : g[i] = f[i]
  BY <1>2
<1>4. g[n + 1] = IF n = 0 THEN w[n + 1] ELSE sep \o w[n + 1]
  <2>1. g[n + 1] = Second(w, sep, n + 1) /\ n + 1 \in 1..(n + 1)
    OBVIOUS
  <2>2. \A i \in 1..(n + 1) : /\ i = 1 => Second(w, sep, i) = w[i]
                              /\ i # 1 => Second(w, sep, i) = sep \o w[i]
    <3> SUFFICES ASSUME NEW i \in 1..(n + 1)
                 PROVE  /\ i = 1 => Second(w, sep, i) = w[i]
                        /\ i # 1 => Second(w, sep, i) = sep \o w[i]
      OBVIOUS
    <3>1. w[i] \in Seq(S)
      OBVIOUS
    <3>2. Second(w, sep, i) \in Seq(S) /\ (i = 1 => Second(w, sep, i) = w[i])
      BY <3>1, ElementsAre
    <3>3. i # 1 => Second(w, sep, i) = sep \o w[i]
      BY Zenon DEF Second
    <3> QED BY <3>2, <3>3
  <2>3. /\ n + 1 = 1 => Second(w, sep, n + 1) = w[n + 1]
        /\ n + 1 # 1 => Second(w, sep, n + 1) = sep \o w[n + 1]
    BY <2>1, <2>2, Zenon
  <2> HIDE DEF g
  <2>4. CASE n = 0
    <3>1. n + 1 = 1
      BY <2>4
    <3> QED BY <2>1, <2>3, <2>4, <3>1, Zenon
  <2>5. CASE n # 0
    <3>1. n + 1 # 1
      BY <2>5
    <3> QED BY <2>1, <2>3, <2>5, <3>1, Zenon
  <2> QED BY <2>4, <2>5
<1> HIDE DEF f, g
<1>5. FlattenSeq(g) = FlattenSeq(f) \o g[n + 1] /\ FlattenSeq(f) \in Seq(S)
  BY <1>3, FlattenLonger
<1> QED BY <1>1, <1>4, <1>5

LEMMA FollowedNext ==
  ASSUME NEW S, NEW sep \in Seq(S), NEW w, NEW n \in Nat, \A i \in 1..(n + 1) : w[i] \in Seq(S)
  PROVE  /\ Followed(w, sep, n) \in Seq(S)
         /\ Followed(w, sep, n + 1) = Followed(w, sep, n) \o First(w, sep, n + 1)
         /\ Joint(w, sep, n + 1) = Followed(w, sep, n) \o w[n + 1]
<1> DEFINE f == [i \in 1..n |-> First(w, sep, i)]
           g == [i \in 1..(n + 1) |-> First(w, sep, i)]
           h == [i \in 1..(n + 1) |-> InnerFirst(w, sep, i, n + 1)]
<1>1. /\ Followed(w, sep, n) = FlattenSeq(f) /\ Followed(w, sep, n + 1) = FlattenSeq(g)
      /\ Joint(w, sep, n + 1) = FlattenSeq(h)
  BY DEF Followed, Joint
<1>2. /\ \A i \in 1..(n + 1) : First(w, sep, i) \in Seq(S)
      /\ \A i \in 1..n : InnerFirst(w, sep, i, n + 1) = First(w, sep, i)
  <2>1. \A i \in 1..n : i \in 1..(n + 1) /\ n + 1 # i
    OBVIOUS
  <2> QED BY <2>1, ElementsAre
<1>3. f \in [1..n -> Seq(S)] /\ g \in [1..(n + 1) -> Seq(S)] /\ \A i \in 1..n : g[i] = f[i]
  BY <1>2
<1>4. g[n + 1] = First(w, sep, n + 1)
  OBVIOUS
<1>5. h[n + 1] = w[n + 1] /\ w[n + 1] \in Seq(S)
  <2>1. h[n + 1] = InnerFirst(w, sep, n + 1, n + 1) /\ w[n + 1] \in Seq(S)
    OBVIOUS
  <2>2. \A i \in 1..(n + 1) : InnerFirst(w, sep, i, i) = w[i]
    BY ElementsAre
  <2>3. n + 1 \in 1..(n + 1)
    OBVIOUS
  <2> QED BY <2>1, <2>2, <2>3
<1>6. \A i \in 1..n : h[i] = f[i]
  BY <1>2
<1>7. h \in [1..(n + 1) -> Seq(S)]
  <2>1. \A i \in 1..(n + 1) : h[i] \in Seq(S)
    <3>1. \A i \in 1..(n + 1) : i \in 1..n \/ i = n + 1
      OBVIOUS
    <3>2. \A i \in 1..n : h[i] \in Seq(S)
      BY <1>2
    <3> HIDE DEF h
    <3> QED BY <1>5, <3>1, <3>2
  <2> QED BY <2>1
<1> HIDE DEF f, g, h
<1>8. FlattenSeq(g) = FlattenSeq(f) \o g[n + 1] /\ FlattenSeq(f) \in Seq(S)
  BY <1>3, FlattenLonger
<1>9. FlattenSeq(h) = FlattenSeq(f) \o h[n + 1]
  BY <1>3, <1>6, <1>7, FlattenLonger
<1> QED BY <1>1, <1>4, <1>5, <1>8, <1>9

(* Separators before are separators after.                                 *)
LEMMA SeparatorsMove ==
  ASSUME NEW S, NEW sep \in Seq(S), NEW w
  PROVE  \A n \in Nat : n # 0 /\ (\A i \in 1..n : w[i] \in Seq(S)) =>
           Followed(w, sep, n) = Preceded(w, sep, n) \o sep
<1> DEFINE Typed(n) == \A i \in 1..n : w[i] \in Seq(S)
           T == {n \in Nat : n # 0 /\ Typed(n) => Followed(w, sep, n) = Preceded(w, sep, n) \o sep}
<1>1. 0 \in T
  OBVIOUS
<1>2. ASSUME NEW n \in Nat, n \in T PROVE n + 1 \in T
  <2> SUFFICES ASSUME Typed(n + 1)
               PROVE  Followed(w, sep, n + 1) = Preceded(w, sep, n + 1) \o sep
    OBVIOUS
  <2> DEFINE x == w[n + 1]
             p == Preceded(w, sep, n)
             q == Preceded(w, sep, n + 1)
             a == Followed(w, sep, n)
             b == Followed(w, sep, n + 1)
  <2>1. x \in Seq(S)
    OBVIOUS
  <2>2. p \in Seq(S) /\ q = p \o (IF n = 0 THEN x ELSE sep \o x)
    BY PrecededNext
  <2>3. a \in Seq(S) /\ b = a \o (x \o sep)
    <3>1. a \in Seq(S) /\ b = a \o First(w, sep, n + 1)
      BY FollowedNext
    <3> QED BY <3>1, Zenon DEF First
  <2>4. CASE n = 0
    <3>1. p = <<>> /\ a = <<>>
      BY <2>4, NoElements
    <3> HIDE DEF p, q, a, b, x
    <3>2. q = x
      <4>1. <<>> \o x = x
        BY <2>1, NothingBefore
      <4> QED BY <2>2, <2>4, <3>1, <4>1
    <3>3. b = x \o sep
      <4> DEFINE y == x \o sep
      <4>1. y \in Seq(S)
        BY <2>1, Joined
      <4> HIDE DEF y
      <4>2. <<>> \o y = y
        BY <4>1, NothingBefore
      <4> QED BY <2>3, <3>1, <4>2 DEF y
    <3> QED BY <3>2, <3>3 DEF q, b
  <2>5. CASE n # 0
    <3>1. a = p \o sep
      <4>1. Typed(n)
        OBVIOUS
      <4> HIDE DEF Typed
      <4> QED BY <1>2, <2>5, <4>1
    <3> HIDE DEF p, q, a, b, x, T, Typed
    <3>2. (p \o sep) \o (x \o sep) = (p \o (sep \o x)) \o sep
      <4>1. p \in Seq(S) /\ x \in Seq(S)
        BY <2>1, <2>2
      <4> QED BY <4>1, AroundSeparators
    <3>3. q = p \o (sep \o x)
      BY <2>2, <2>5
    <3> QED BY <2>3, <3>1, <3>2, <3>3 DEF q, b
  <2> QED BY <2>4, <2>5
<1>3. Nat \subseteq T
  <2> HIDE DEF T
  <2> QED BY <1>1, <1>2, Induction
<1> QED BY <1>3

(* What a container shows between its brackets.                            *)
LEMMA JointIs ==
  ASSUME NEW S, NEW sep \in Seq(S), NEW w, NEW n \in Nat, \A i \in 1..n : w[i] \in Seq(S)
  PROVE  Joint(w, sep, n) = Preceded(w, sep, n) /\ Preceded(w, sep, n) \in Seq(S)
<1>1. CASE n = 0
  <2>1. Joint(w, sep, n) = <<>> /\ Preceded(w, sep, n) = <<>>
    BY <1>1, NoElements
  <2> QED BY <2>1
<1>2. CASE n # 0
  <2> DEFINE m == n - 1
             x == w[m + 1]
             p == Preceded(w, sep, m)
             a == Followed(w, sep, m)
  <2>1. m \in Nat /\ m + 1 = n
    BY <1>2
  <2> HIDE DEF m
  <2>2. \A i \in 1..(m + 1) : w[i] \in Seq(S)
    BY <2>1
  <2>3. x \in Seq(S)
    BY <2>1, <2>2
  <2>4. a \in Seq(S) /\ Joint(w, sep, m + 1) = a \o x
    <3>1. m \in Nat
      BY <2>1
    <3> QED BY <3>1, <2>2, FollowedNext
  <2>5. p \in Seq(S) /\ Preceded(w, sep, m + 1) = p \o (IF m = 0 THEN x ELSE sep \o x)
    <3>1. m \in Nat
      BY <2>1
    <3> QED BY <3>1, <2>2, PrecededNext
  <2>6. Preceded(w, sep, m + 1) = a \o x
    <3>1. CASE m = 0
      <4>1. p = <<>> /\ a = <<>>
        BY <3>1, NoElements
      <4> QED BY <2>5, <3>1, <4>1
    <3>2. CASE m # 0
      <4>1. a = p \o sep
        <5>1. \A i \in 1..m : w[i] \in Seq(S)
          BY <2>1, <2>2
        <5> QED BY <2>1, <3>2, <5>1, SeparatorsMove
      <4> HIDE DEF p, a, x
      <4>2. (p \o sep) \o x = p \o (sep \o x)
        <5>1. p \in Seq(S)
          BY <2>5
        <5> QED BY <2>3, <5>1, Regroup
      <4> QED BY <2>5, <3>2, <4>1, <4>2
    <3> QED BY <3>1, <3>2
  <2>7. a \o x \in Seq(S)
    <3> HIDE DEF a, x
    <3>1. a \in Seq(S)
      BY <2>4
    <3> QED BY <2>3, <3>1, Joined
  <2> QED BY <2>1, <2>4, <2>6, <2>7
<1> QED BY <1>1, <1>2

Comma == <<",", Space>>
Bracketed(s) == <<"[">> \o s \o <<"]">>
Shown(s) == [i \in 1..Len(s) |-> UpToNul(<<s[i]>>)]
CharStrings(s) == [i \in DOMAIN s |-> String(<<s[i]>>)]

LEMMA BracketedType ==
  ASSUME NEW s \in Seq(TextSymbols)
  PROVE  Bracketed(s) \in Seq(TextSymbols)
<1> DEFINE a == <<"[">>
           b == <<"]">>
           as == a \o s
<1>1. a \in Seq(TextSymbols) /\ b \in Seq(TextSymbols)
  <2>1. "[" \in TextSymbols /\ "]" \in TextSymbols
    BY WordsText
  <2> QED BY <2>1
<1>2. Bracketed(s) = as \o b
  BY DEF Bracketed
<1> HIDE DEF a, b
<1>3. as \in Seq(TextSymbols)
  BY <1>1, Joined
<1> HIDE DEF as
<1>4. as \o b \in Seq(TextSymbols)
  BY <1>1, <1>3, Joined
<1> QED BY <1>2, <1>4

LEMMA ShownIs ==
  ASSUME NEW s \in Seq(TextSet)
  PROVE  \A i \in 1..Len(s) : Shown(s)[i] = UpToNul(<<s[i]>>) /\ Shown(s)[i] \in Seq(TextSymbols)
<1> SUFFICES ASSUME NEW i \in 1..Len(s)
             PROVE  Shown(s)[i] = UpToNul(<<s[i]>>) /\ Shown(s)[i] \in Seq(TextSymbols)
  OBVIOUS
<1> DEFINE x == <<s[i]>>
<1>1. x \in Seq(TextSet)
  OBVIOUS
<1>2. Shown(s)[i] = UpToNul(x)
  BY DEF Shown
<1> HIDE DEF x
<1>3. UpToNul(x) \in Seq(TextSymbols)
  BY <1>1, StringText
<1> QED BY <1>2, <1>3 DEF x

(* The loop over the elements of a container.                              *)
LEMMA ContainerIs ==
  ASSUME NEW c, NEW values, NEW n \in Nat, DOMAIN values = 1..n, Len(values) = n, NEW w,
         \A i \in 1..n : OutPair(Dec(<<>>), values[i]) = Dec(w[i])
  PROVE  Out(Dec(c), Container(values)) = Dec(c \o Bracketed(Joint(w, Comma, n)))
<1> DEFINE v == Container(values)
           empty == [Dec(c) EXCEPT !.chars = <<>>]
           f == [i \in DOMAIN values |-> OutPair(empty, values[i]).chars \o
                                          (IF i = Len(values) THEN <<>> ELSE <<",", Space>>)]
           g == [i \in 1..n |-> InnerFirst(w, Comma, i, n)]
<1>1. v.kind = "container" /\ v.of = values
  BY DEF Container
<1>2. Out(Dec(c), v) = OutContainer(Dec(c), values)
  <2> HIDE DEF v
  <2> QED BY <1>1 DEF Out
<1>3. OutContainer(Dec(c), values) = Put(Dec(c), <<"[">> \o FlattenSeq(f) \o <<"]">>)
  BY Zenon DEF OutContainer
<1>4. empty = Dec(<<>>)
  BY Changed
<1> HIDE DEF empty
<1>5. f = g
  <2>1. \A i \in 1..n : OutPair(empty, values[i]).chars = w[i]
    <3>1. \A x : Dec(x).chars = x
      BY DEF Dec
    <3> QED BY <1>4, <3>1
  <2>2. \A i \in 1..n : f[i] = w[i] \o (IF i = n THEN <<>> ELSE <<",", Space>>)
    BY <2>1, Zenon
  <2>3. \A i \in 1..n : f[i] = InnerFirst(w, Comma, i, n)
    BY <2>2, Zenon DEF InnerFirst, Comma
  <2>4. f = [i \in 1..n |-> f[i]]
    OBVIOUS
  <2> HIDE DEF f
  <2> QED BY <2>3, <2>4
<1>6. FlattenSeq(g) = Joint(w, Comma, n)
  BY DEF Joint
<1> HIDE DEF f, g
<1>7. Put(Dec(c), Bracketed(Joint(w, Comma, n))) = Dec(c \o Bracketed(Joint(w, Comma, n)))
  BY PutIs
<1> QED BY <1>2, <1>3, <1>5, <1>6, <1>7, Zenon DEF Bracketed

LEMMA CommaType == Comma \in Seq(TextSymbols)
<1>1. "," \in TextSymbols /\ Space \in TextSymbols
  BY WordsText
<1> QED BY <1>1, PairAppended DEF Comma

(* A container of strings of one symbol is shown as such a list.           *)
LEMMA CharsOut ==
  ASSUME NEW s \in Seq(TextSet), NEW c
  PROVE  /\ Out(Dec(c), Container(CharStrings(s))) = Dec(c \o Bracketed(Preceded(Shown(s), Comma, Len(s))))
         /\ Preceded(Shown(s), Comma, Len(s)) \in Seq(TextSymbols)
<1> DEFINE n == Len(s)
           w == Shown(s)
           values == CharStrings(s)
<1>1. n \in Nat /\ DOMAIN s = 1..n
  BY LenProperties
<1>2. \A i \in 1..n : w[i] = UpToNul(<<s[i]>>) /\ w[i] \in Seq(TextSymbols)
  BY ShownIs
<1>3. DOMAIN values = 1..n /\ \A i \in 1..n : values[i] = String(<<s[i]>>)
  BY <1>1 DEF CharStrings
<1>4. Len(values) = n
  <2> DEFINE V == {String(<<s[i]>>) : i \in 1..n}
  <2>1. values \in [1..n -> V]
    BY <1>1 DEF CharStrings
  <2> HIDE DEF V, n, values
  <2> QED BY <1>1, <2>1, FunctionIsSeq
<1>5. ASSUME NEW i \in 1..n PROVE OutPair(Dec(<<>>), values[i]) = Dec(w[i])
  <2> DEFINE x == <<s[i]>>
             e == <<>>
  <2>1. values[i] = String(x) /\ w[i] = UpToNul(x) /\ w[i] \in Seq(TextSymbols)
    BY <1>2, <1>3
  <2> HIDE DEF x, w, values, n
  <2>2. OutPair(Dec(e), String(x)) = OutElement(Dec(e), String(x))
    BY OutIs
  <2>3. OutElement(Dec(e), String(x)) = Dec(e \o UpToNul(x))
    BY ElementIs
  <2>4. e \o w[i] = w[i]
    BY <2>1, NothingBefore
  <2> QED BY <2>1, <2>2, <2>3, <2>4
<1> HIDE DEF n, w, values
<1>6. Out(Dec(c), Container(values)) = Dec(c \o Bracketed(Joint(w, Comma, n)))
  BY <1>1, <1>3, <1>4, <1>5, ContainerIs
<1>7. Joint(w, Comma, n) = Preceded(w, Comma, n) /\ Preceded(w, Comma, n) \in Seq(TextSymbols)
  BY <1>1, <1>2, CommaType, JointIs
<1> QED BY <1>6, <1>7 DEF n, w, values

(* The list that MessageComplete describes.                                *)
LEMMA ListIs ==
  ASSUME NEW s \in Seq(TextSet)
  PROVE  <<"[">> \o FlattenSeq([i \in DOMAIN s |->
           (IF i = 1 THEN <<>> ELSE <<",", Space>>) \o UpToNul(<<s[i]>>)]) \o <<"]">> =
         Bracketed(Preceded(Shown(s), Comma, Len(s)))
<1> DEFINE f == [i \in DOMAIN s |-> (IF i = 1 THEN <<>> ELSE <<",", Space>>) \o UpToNul(<<s[i]>>)]
           n == Len(s)
           w == Shown(s)
<1>1. DOMAIN s = 1..n
  BY LenProperties
<1>2. \A i \in 1..n : w[i] = UpToNul(<<s[i]>>)
  BY ShownIs
<1> HIDE DEF w
<1>3. \A i \in 1..n : f[i] = (IF i = 1 THEN <<>> ELSE <<",", Space>>) \o w[i]
  BY <1>1, <1>2, Zenon
<1>4. \A i \in 1..n : f[i] = Second(w, Comma, i)
  BY <1>3, Zenon DEF Second, Comma
<1>5. f = [i \in 1..n |-> f[i]]
  BY <1>1
<1> HIDE DEF f
<1>6. f = [i \in 1..n |-> Second(w, Comma, i)]
  BY <1>4, <1>5
<1>7. FlattenSeq(f) = Preceded(w, Comma, n)
  BY <1>6 DEF Preceded
<1> QED BY <1>7, Zenon DEF f, w, Bracketed

LEMMA TwoSymbols ==
  ASSUME NEW S, NEW s \in Seq(S), NEW a \in S, NEW b \in S
  PROVE  (s \o <<a>>) \o <<b>> = s \o <<a, b>> /\ s \o <<a, b>> \in Seq(S)
<1> DEFINE p == Append(s, a)
<1>1. s \o <<a>> = p /\ p \in Seq(S)
  BY OneAdded
<1>2. s \o <<a, b>> = Append(p, b) /\ Append(p, b) \in Seq(S)
  BY TwoAdded
<1> HIDE DEF p
<1>3. p \o <<b>> = Append(p, b)
  <2>1. p \in Seq(S)
    BY <1>1
  <2> QED BY <2>1, OneAdded
<1> QED BY <1>1, <1>2, <1>3

(* A container, a pair and a string are streamed.                          *)
LEMMA ThirdStatement ==
  ASSUME NEW s \in Seq(TextSet), NEW r \in Seq(TextSet)
  PROVE  LineEndsWith(<<Container(CharStrings(s)), Pair(String(s), Number(5)), String(r)>>,
                      Bracketed(Preceded(Shown(s), Comma, Len(s))) \o UpToNul(s) \o <<":", "5">> \o UpToNul(r))
<1> DEFINE u == Container(CharStrings(s))
           v == Pair(String(s), Number(5))
           w == String(r)
           stream == <<u, v, w>>
           us == UpToNul(s)
           ur == UpToNul(r)
           l == Bracketed(Preceded(Shown(s), Comma, Len(s)))
           lu == l \o us
           c == lu \o <<":", "5">>
           t == c \o ur
           e == <<>>
<1>1. us \in Seq(TextSymbols) /\ ur \in Seq(TextSymbols)
  BY StringText
<1>2. l \in Seq(TextSymbols)
  BY CharsOut, BracketedType
<1>3. Streamed(Record, stream) = Out(Out(Out(Record, u), v), w)
  <2> DEFINE V == {u, v, w}
  <2>1. u \in V /\ v \in V /\ w \in V
    OBVIOUS
  <2> HIDE DEF u, v, w, V
  <2> QED BY <2>1, StreamedThree
<1>4. Record = Dec(e)
  BY PutIs
<1>5. Out(Dec(e), u) = Dec(e \o l)
  BY CharsOut
<1>6. \A x : Out(Dec(x), v) = Dec(((x \o us) \o <<":">>) \o Numeral(5, 10))
  BY StreamIs
<1>7. \A x : Out(Dec(x), w) = Dec(x \o ur)
  BY StreamIs
<1> HIDE DEF us, ur, l, u, v, w
<1>8. e \o l = l
  BY <1>2, NothingBefore
<1> HIDE DEF e
<1>9. lu \in Seq(TextSymbols)
  BY <1>1, <1>2, Joined
<1> HIDE DEF lu
<1>10. (lu \o <<":">>) \o Numeral(5, 10) = c /\ c \in Seq(TextSymbols)
  <2> DEFINE colon == ":"
             five == "5"
  <2>1. colon \in TextSymbols /\ five \in TextSymbols
    BY WordsText
  <2> HIDE DEF colon, five
  <2>2. (lu \o <<colon>>) \o <<five>> = lu \o <<colon, five>> /\ lu \o <<colon, five>> \in Seq(TextSymbols)
    BY <1>9, <2>1, TwoSymbols
  <2> QED BY <2>2, Numerals, Zenon DEF colon, five
<1> HIDE DEF c
<1>11. t \in Seq(TextSymbols)
  <2>1. c \in Seq(TextSymbols)
    BY <1>10
  <2> QED BY <1>1, <2>1, Joined
<1>12. Streamed(Record, stream) = Dec(t)
  <2>1. Out(Dec(l), v) = Dec(c)
    BY <1>6, <1>10 DEF lu
  <2> QED BY <1>3, <1>4, <1>5, <1>7, <1>8, <2>1
<1> HIDE DEF t, stream
<1>13. Streamed(Record, stream).chars = t
  BY <1>12 DEF Dec
<1>14. LineEndsWith(stream, t)
  BY <1>11, <1>13, TextFound
<1> QED BY <1>14, Zenon DEF t, c, lu, l, us, ur, stream, u, v, w

-----------------------------------------------------------------------------
CharValues(s) == [i \in DOMAIN s |-> Char(s[i])]

(* A char alone; nul is not written.                                       *)
LEMMA CharOut ==
  ASSUME NEW S, NEW c \in S, NEW x
  PROVE  Out(Dec(x), Char(c)) = Dec(x \o (IF c \in {Nul} THEN <<>> ELSE <<c>>))
<1> DEFINE one == <<c>>
           none == <<>>
           v == Char(c)
<1>1. v.kind = "char" /\ v.of = c
  BY DEF Char
<1>2. Out(Dec(x), v) = OutChar(Dec(x), c)
  <2> HIDE DEF v
  <2> QED BY <1>1 DEF Out
<1>3. OutChar(Dec(x), c) = Put(Dec(x), UpToNul(one))
  BY Zenon DEF OutChar, OutCString
<1>4. Put(Dec(x), UpToNul(one)) = Dec(x \o UpToNul(one))
  BY PutIs
<1>5. UpToNul(one) = IF c \in {Nul} THEN none ELSE one
  <2>1. one \in Seq(S) /\ Len(one) = 1 /\ one[1] = c
    OBVIOUS
  <2>2. CASE c = Nul
    <3>1. SubSeq(one, 1, 0) = none
      OBVIOUS
    <3> HIDE DEF one, none
    <3>2. PICK k \in 0..Len(one) : UpToNul(one) = SubSeq(one, 1, k) /\ \A i \in 1..k : one[i] # Nul
      BY <2>1, UpToNulIs
    <3>3. k = 0
      BY <2>1, <2>2, <3>2
    <3> QED BY <2>2, <3>1, <3>2, <3>3
  <2>3. CASE c # Nul
    <3>1. one \in Seq(S \ {Nul})
      BY <2>3
    <3> HIDE DEF one, none
    <3>2. UpToNul(one) = one
      BY <3>1, NulFree
    <3> QED BY <2>3, <3>2
  <2> QED BY <2>2, <2>3
<1> QED BY <1>2, <1>3, <1>4, <1>5, Zenon

LEMMA CharsStreamed ==
  ASSUME NEW S
  PROVE  \A s \in Seq(S) : /\ Streamed(Record, CharValues(s)) = Dec(Without(s, {Nul}))
                           /\ CharValues(s) \in Seq({Char(c) : c \in S})
<1> DEFINE V == {Char(c) : c \in S}
           T == {s \in Seq(S) : /\ Streamed(Record, CharValues(s)) = Dec(Without(s, {Nul}))
                                /\ CharValues(s) \in Seq(V)}
<1>1. <<>> \in T
  <2> DEFINE e == <<>>
  <2>1. CharValues(e) = e /\ e \in Seq(S) /\ e \in Seq(V)
    BY DEF CharValues
  <2>2. Streamed(Record, e) = Record /\ Record = Dec(e) /\ Without(e, {Nul}) = e
    BY StreamedNothing, PutIs, WithoutEmpty
  <2> QED BY <2>1, <2>2
<1>2. ASSUME NEW s \in Seq(S), NEW c \in S, s \in T PROVE Append(s, c) \in T
  <2> DEFINE sc == Append(s, c)
             n == Len(s)
  <2>1. Char(c) \in V
    OBVIOUS
  <2>2. n \in Nat /\ DOMAIN s = 1..n /\ sc \in Seq(S) /\ Len(sc) = n + 1 /\ DOMAIN sc = 1..(n + 1)
    BY AppendProperties, LenProperties
  <2>3. sc[n + 1] = c /\ \A i \in 1..n : sc[i] = s[i]
    BY AppendProperties
  <2> HIDE DEF sc
  <2>4. CharValues(s) \in Seq(V) /\ Len(CharValues(s)) = n /\ \A i \in 1..n : CharValues(s)[i] = Char(s[i])
    <3>1. CharValues(s) \in [1..n -> V]
      <4>1. \A i \in 1..n : s[i] \in S
        BY <2>2
      <4> QED BY <2>2, <4>1 DEF CharValues
    <3>2. \A i \in 1..n : CharValues(s)[i] = Char(s[i])
      BY <2>2 DEF CharValues
    <3> HIDE DEF V, n
    <3> QED BY <2>2, <3>1, <3>2, FunctionIsSeq
  <2>5. /\ CharValues(sc) \in Seq(V) /\ Len(CharValues(sc)) = n + 1
        /\ \A i \in 1..(n + 1) : CharValues(sc)[i] = Char(sc[i])
    <3>1. CharValues(sc) \in [1..(n + 1) -> V]
      <4>1. \A i \in 1..(n + 1) : sc[i] \in S
        BY <2>2
      <4> QED BY <2>2, <4>1 DEF CharValues
    <3>2. \A i \in 1..(n + 1) : CharValues(sc)[i] = Char(sc[i])
      BY <2>2 DEF CharValues
    <3> HIDE DEF V, n
    <3>3. n + 1 \in Nat
      BY <2>2
    <3> QED BY <3>1, <3>2, <3>3, FunctionIsSeq
  <2> HIDE DEF V
  <2>6. CharValues(sc) = Append(CharValues(s), Char(c))
    <3> DEFINE a == CharValues(s)
               b == CharValues(sc)
               d == Char(c)
    <3>1. /\ a \in Seq(V) /\ b \in Seq(V) /\ d \in V /\ Len(b) = Len(a) + 1
          /\ (\A i \in 1..Len(a) : b[i] = a[i]) /\ b[Len(a) + 1] = d
      BY <2>1, <2>2, <2>3, <2>4, <2>5
    <3> HIDE DEF a, b, d, n
    <3>2. b = Append(a, d)
      BY <3>1, IsAppended
    <3> QED BY <3>2 DEF a, b, d
  <2>7. Streamed(Record, Append(CharValues(s), Char(c))) = Out(Streamed(Record, CharValues(s)), Char(c))
    BY <2>1, <2>4, StreamedAppended
  <2>8. Streamed(Record, CharValues(s)) = Dec(Without(s, {Nul}))
    BY <1>2
  <2>9. Out(Dec(Without(s, {Nul})), Char(c)) = Dec(Without(s, {Nul}) \o (IF c \in {Nul} THEN <<>> ELSE <<c>>))
    BY CharOut, Zenon
  <2>10. Without(Append(s, c), {Nul}) = Without(s, {Nul}) \o (IF c \in {Nul} THEN <<>> ELSE <<c>>)
    <3>1. Without(Append(s, c), {Nul}) =
            IF c \in {Nul} THEN Without(s, {Nul}) \o <<>> ELSE Without(s, {Nul}) \o <<c>>
      BY WithoutAppended, Zenon
    <3> QED BY <3>1, Zenon
  <2>11. Streamed(Record, CharValues(sc)) = Dec(Without(sc, {Nul}))
    BY <2>6, <2>7, <2>8, <2>9, <2>10, Zenon DEF sc
  <2> QED BY <2>2, <2>5, <2>11 DEF sc
<1>3. Seq(S) \subseteq T
  <2> HIDE DEF T
  <2> QED BY <1>1, <1>2, StringInduction
<1> QED BY <1>3

-----------------------------------------------------------------------------
(* Pairs and PRINT_VAR.                                                    *)

LEMMA FlattenTwo ==
  ASSUME NEW S, NEW f \in [1..2 -> Seq(S)]
  PROVE  FlattenSeq(f) = f[1] \o f[2]
<1> DEFINE zero == 0
           one == 1
           a == f[1]
           none == <<>>
           g == [i \in 1..one |-> a]
<1>1. zero \in Nat /\ one \in Nat /\ zero + 1 = one /\ one + 1 = 2
  OBVIOUS
<1>2. none \in [1..zero -> Seq(S)] /\ \A i \in 1..zero : g[i] = none[i]
  OBVIOUS
<1>3. g \in [1..one -> Seq(S)] /\ a \in Seq(S) /\ g[one] = a
  OBVIOUS
<1>4. \A i \in 1..one : f[i] = g[i]
  OBVIOUS
<1> HIDE DEF zero, one, none, g, a
<1>5. FlattenSeq(g) = FlattenSeq(none) \o g[zero + 1]
  <2>1. g \in [1..(zero + 1) -> Seq(S)]
    BY <1>1, <1>3
  <2> QED BY <1>1, <1>2, <2>1, FlattenLonger
<1>6. FlattenSeq(f) = FlattenSeq(g) \o f[one + 1]
  <2>1. f \in [1..(one + 1) -> Seq(S)]
    BY <1>1
  <2> QED BY <1>1, <1>3, <1>4, <2>1, FlattenLonger
<1>7. FlattenSeq(none) = <<>>
  BY FlattenEmpty DEF none
<1>8. <<>> \o a = a
  BY <1>3, NothingBefore
<1> QED BY <1>1, <1>3, <1>5, <1>6, <1>7, <1>8, Zenon DEF a

LEMMA TwoAndThree ==
  ASSUME NEW V, NEW a \in V, NEW x \in V, NEW c \in V, NEW b \in V, NEW y \in V
  PROVE  /\ <<a, x>> \in Seq(V) /\ <<c>> \o <<b, y>> \in Seq(V)
         /\ <<a, x>> \o (<<c>> \o <<b, y>>) = <<a, x, c, b, y>>
<1> DEFINE p == <<a, x>>
           q == <<c, b, y>>
           one == <<c>>
<1>1. p \in Seq(V) /\ q \in Seq(V) /\ one \in Seq(V)
  OBVIOUS
<1>2. one \o <<b, y>> = q
  <2>1. one \o <<b, y>> = Append(Append(one, b), y)
    <3> HIDE DEF one
    <3> QED BY <1>1, TwoAdded
  <2>2. Append(one, b) = <<c, b>> /\ Append(<<c, b>>, y) = q
    BY PairAppended, TripleAppended
  <2> QED BY <2>1, <2>2
<1>3. p \o q = <<a, x, c, b, y>>
  <2>1. p \o q = Append(Append(Append(p, c), b), y)
    <3> HIDE DEF p
    <3> QED BY <1>1, ThreeAdded
  <2>2. /\ Append(p, c) = <<a, x, c>> /\ Append(<<a, x, c>>, b) = <<a, x, c, b>>
        /\ Append(<<a, x, c, b>>, y) = <<a, x, c, b, y>>
    BY TripleAppended, FourAppended, FiveAppended
  <2> QED BY <2>1, <2>2
<1> QED BY <1>1, <1>2, <1>3

(* What PRINT_VAR streams.                                                 *)
LEMMA PrintVarIs ==
  ASSUME NEW x, NEW y
  PROVE  PrintVar(<<"a", "b">>, <<x, y>>) =
           <<String(<<"a", ":", Space>>), x, String(<<",", Space>>), String(<<"b", ":", Space>>), y>>
<1> DEFINE names == <<"a", "b">>
           values == <<x, y>>
           f == [i \in DOMAIN values |-> (IF i = 1 THEN <<>> ELSE <<String(<<",", Space>>)>>)
                                           \o <<String(<<names[i], ":", Space>>), values[i]>>]
           a == String(<<"a", ":", Space>>)
           b == String(<<"b", ":", Space>>)
           c == String(<<",", Space>>)
           V == {a, b, c, x, y}
           p == <<a, x>>
           q == <<c>> \o <<b, y>>
<1>1. PrintVar(names, values) = FlattenSeq(f)
  BY Zenon DEF PrintVar
<1>2. DOMAIN values = 1..2
  OBVIOUS
<1>3. 1 \in DOMAIN values /\ 2 \in DOMAIN values
  OBVIOUS
<1>4. values[1] = x /\ values[2] = y /\ names[1] = "a" /\ names[2] = "b"
  OBVIOUS
<1> HIDE DEF names, values
<1>5. f[1] = <<>> \o p
  <2>1. f[1] = (IF 1 = 1 THEN <<>> ELSE <<String(<<",", Space>>)>>) \o <<String(<<names[1], ":", Space>>), values[1]>>
    BY <1>3, Zenon
  <2> QED BY <1>4, <2>1, Zenon
<1>6. f[2] = q
  <2>1. f[2] = (IF 2 = 1 THEN <<>> ELSE <<String(<<",", Space>>)>>) \o <<String(<<names[2], ":", Space>>), values[2]>>
    BY <1>3, Zenon
  <2>2. 2 # 1
    OBVIOUS
  <2> QED BY <1>4, <2>1, <2>2, Zenon
<1>7. f = [i \in 1..2 |-> f[i]]
  BY <1>2
<1> HIDE DEF f
<1>8. a \in V /\ b \in V /\ c \in V /\ x \in V /\ y \in V
  OBVIOUS
<1> HIDE DEF a, b, c, V
<1>9. p \in Seq(V) /\ q \in Seq(V) /\ p \o q = <<a, x, c, b, y>>
  BY <1>8, TwoAndThree
<1>10. p \in Seq(V) /\ q \in Seq(V)
  BY <1>9
<1> HIDE DEF p, q
<1>11. <<>> \o p = p
  BY <1>10, NothingBefore
<1>12. FlattenSeq(f) = p \o q
  <2>1. f \in [1..2 -> Seq(V)]
    <3>1. \A i \in 1..2 : f[i] \in Seq(V)
      <4>1. \A i \in 1..2 : i = 1 \/ i = 2
        OBVIOUS
      <4>2. f[1] \in Seq(V) /\ f[2] \in Seq(V)
        BY <1>5, <1>6, <1>10, <1>11
      <4> QED BY <4>1, <4>2
    <3> QED BY <1>7, <3>1
  <2>2. FlattenSeq(f) = f[1] \o f[2]
    BY <2>1, FlattenTwo
  <2> QED BY <1>5, <1>6, <1>11, <2>2
<1> QED BY <1>1, <1>9, <1>12, Zenon DEF names, values, a, b, c

PairText(s) == ((<<"(null)">> \o <<":">>) \o UpToNul(s))

LEMMA OneJoint ==
  ASSUME NEW S, NEW sep \in Seq(S), NEW w, w[1] \in Seq(S)
  PROVE  Joint(w, sep, 1) = w[1]
<1> DEFINE x == w[0 + 1]
<1>1. \A i \in 1..(0 + 1) : w[i] \in Seq(S)
  OBVIOUS
<1>2. Joint(w, sep, 0 + 1) = Followed(w, sep, 0) \o w[0 + 1]
  <2>1. 0 \in Nat
    OBVIOUS
  <2>2. ASSUME NEW n \in Nat, \A i \in 1..(n + 1) : w[i] \in Seq(S)
        PROVE  Joint(w, sep, n + 1) = Followed(w, sep, n) \o w[n + 1]
    BY <2>2, FollowedNext
  <2> QED BY <1>1, <2>1, <2>2, Zenon
<1>3. Followed(w, sep, 0) = <<>>
  BY NoElements
<1>4. x \in Seq(S)
  OBVIOUS
<1> HIDE DEF x
<1>5. <<>> \o x = x
  BY <1>4, NothingBefore
<1>6. Joint(w, sep, 0 + 1) = x
  BY <1>2, <1>3, <1>5, Zenon DEF x
<1>7. 0 + 1 = 1
  OBVIOUS
<1> QED BY <1>6, <1>7, Zenon DEF x

(* A container of one pair.                                                *)
LEMMA PairOut ==
  ASSUME NEW s \in Seq(TextSet), NEW c
  PROVE  /\ Out(Dec(c), Container(<<Pair(Null, String(s))>>)) = Dec(c \o Bracketed(PairText(s)))
         /\ PairText(s) \in Seq(TextSymbols)
<1> DEFINE v == Pair(Null, String(s))
           values == <<v>>
           x == PairText(s)
           w == <<x>>
           null == <<"(null)">>
           colon == <<":">>
           e == <<>>
           one == 1
<1>1. x \in Seq(TextSymbols)
  <2> DEFINE y == null \o colon
             us == UpToNul(s)
  <2>1. null \in Seq(TextSymbols) /\ colon \in Seq(TextSymbols)
    <3>1. "(null)" \in TextSymbols /\ ":" \in TextSymbols
      BY WordsText
    <3> QED BY <3>1
  <2>2. us \in Seq(TextSymbols)
    BY StringText
  <2>3. x = y \o us
    BY Zenon DEF PairText
  <2> HIDE DEF null, colon, us, x
  <2>4. y \in Seq(TextSymbols)
    BY <2>1, Joined
  <2> HIDE DEF y
  <2> QED BY <2>2, <2>3, <2>4, Joined
<1>2. DOMAIN values = 1..one /\ Len(values) = one /\ one \in Nat
  OBVIOUS
<1>3. values[1] = v /\ w[1] = x
  OBVIOUS
<1>4. OutPair(Dec(e), v) = Dec(x)
  <2>1. OutPair(Dec(e), v) = Dec(((e \o null) \o colon) \o UpToNul(s))
    BY StreamIs
  <2>2. e \o null = null
    OBVIOUS
  <2> QED BY <2>1, <2>2, Zenon DEF PairText
<1> HIDE DEF values, w, v, x, e
<1>5. \A i \in 1..one : OutPair(Dec(e), values[i]) = Dec(w[i])
  BY <1>3, <1>4
<1> HIDE DEF one
<1>6. Out(Dec(c), Container(values)) = Dec(c \o Bracketed(Joint(w, Comma, one)))
  <2>1. \A i \in 1..one : OutPair(Dec(<<>>), values[i]) = Dec(w[i])
    BY <1>5 DEF e
  <2> QED BY <1>2, <2>1, ContainerIs
<1>7. Joint(w, Comma, one) = x
  <2>1. Joint(w, Comma, 1) = w[1]
    BY <1>1, <1>3, CommaType, OneJoint
  <2> QED BY <1>3, <2>1, Zenon DEF one
<1> QED BY <1>1, <1>6, <1>7 DEF values, v, x

LEMMA StreamedSix ==
  ASSUME NEW V, NEW r, NEW s \in Seq(V), NEW k \in V,
         NEW u \in V, NEW v \in V, NEW w \in V, NEW x \in V, NEW y \in V
  PROVE  Streamed(r, (s \o <<k>>) \o <<u, v, w, x, y>>) =
           Out(Out(Out(Out(Out(Out(Streamed(r, s), k), u), v), w), x), y)
<1> DEFINE a == Append(s, k)
           b == Append(a, u)
           c == Append(b, v)
           d == Append(c, w)
           e == Append(d, x)
           f == Append(e, y)
<1>1. s \o <<k>> = a /\ a \in Seq(V)
  BY OneAdded
<1>2. a \in Seq(V)
  BY <1>1
<1>3. Streamed(r, a) = Out(Streamed(r, s), k)
  BY StreamedAppended
<1> HIDE DEF a
<1>4. a \o <<u, v, w, x, y>> = f
  BY <1>2, FiveAdded
<1>5. b \in Seq(V) /\ Streamed(r, b) = Out(Streamed(r, a), u)
  BY <1>2, StreamedAppended
<1>6. b \in Seq(V)
  BY <1>5
<1> HIDE DEF b
<1>7. c \in Seq(V) /\ Streamed(r, c) = Out(Streamed(r, b), v)
  BY <1>6, StreamedAppended
<1>8. c \in Seq(V)
  BY <1>7
<1> HIDE DEF c
<1>9. d \in Seq(V) /\ Streamed(r, d) = Out(Streamed(r, c), w)
  BY <1>8, StreamedAppended
<1>10. d \in Seq(V)
  BY <1>9
<1> HIDE DEF d
<1>11. e \in Seq(V) /\ Streamed(r, e) = Out(Streamed(r, d), x)
  BY <1>10, StreamedAppended
<1>12. e \in Seq(V)
  BY <1>11
<1> HIDE DEF e
<1>13. Streamed(r, f) = Out(Streamed(r, e), y)
  BY <1>12, StreamedAppended
<1> HIDE DEF f
<1> QED BY <1>1, <1>3, <1>4, <1>5, <1>7, <1>9, <1>11, <1>13

LEMMA ThreeAndTwo ==
  ASSUME NEW S, NEW s \in Seq(S), NEW a \in S, NEW b \in S, NEW c \in S, NEW d \in S, NEW e \in S
  PROVE  (s \o <<a, b, c>>) \o <<d, e>> = s \o <<a, b, c, d, e>> /\ s \o <<a, b, c, d, e>> \in Seq(S)
<1> DEFINE p == Append(Append(Append(s, a), b), c)
<1>1. s \o <<a, b, c>> = p /\ p \in Seq(S)
  BY ThreeAdded
<1>2. s \o <<a, b, c, d, e>> = Append(Append(p, d), e) /\ Append(Append(p, d), e) \in Seq(S)
  BY FiveAdded
<1> HIDE DEF p
<1>3. p \o <<d, e>> = Append(Append(p, d), e)
  <2>1. p \in Seq(S)
    BY <1>1
  <2> QED BY <2>1, TwoAdded
<1> QED BY <1>1, <1>2, <1>3

LEMMA PairBracketed ==
  ASSUME NEW s \in Seq(TextSet), NEW x \in Seq(TextSymbols)
  PROVE  x \o Bracketed(PairText(s)) = ((x \o <<"[", "(null)", ":">>) \o UpToNul(s)) \o <<"]">>
<1> DEFINE open == <<"[">>
           null == <<"(null)">>
           colon == <<":">>
           close == <<"]">>
           us == UpToNul(s)
           nc == null \o colon
           onc == open \o nc
           m == <<"[", "(null)", ":">>
           mu == m \o us
           xm == x \o m
<1>1. "[" \in TextSymbols /\ "(null)" \in TextSymbols /\ ":" \in TextSymbols /\ "]" \in TextSymbols
  BY WordsText
<1>2. open \in Seq(TextSymbols) /\ null \in Seq(TextSymbols) /\ colon \in Seq(TextSymbols) /\ close \in Seq(TextSymbols)
  BY <1>1
<1>3. us \in Seq(TextSymbols)
  BY StringText
<1>4. Bracketed(PairText(s)) = (open \o (nc \o us)) \o close
  BY Zenon DEF Bracketed, PairText
<1>5. m \in Seq(TextSymbols) /\ onc = m
  <2>1. nc = <<"(null)", ":">>
    <3>1. nc = Append(null, ":")
      <4> HIDE DEF null
      <4> QED BY <1>1, <1>2, OneAdded
    <3> QED BY <1>1, <3>1, PairAppended
  <2>2. open \o <<"(null)", ":">> = Append(Append(open, "(null)"), ":")
    <3> HIDE DEF open
    <3> QED BY <1>1, <1>2, TwoAdded
  <2>3. Append(open, "(null)") = <<"[", "(null)">> /\ Append(<<"[", "(null)">>, ":") = m /\ m \in Seq(TextSymbols)
    BY <1>1, PairAppended, TripleAppended
  <2> QED BY <2>1, <2>2, <2>3
<1>6. nc \in Seq(TextSymbols)
  <2> HIDE DEF null, colon
  <2> QED BY <1>2, Joined
<1> HIDE DEF open, null, colon, close, us, nc
<1>7. open \o (nc \o us) = mu
  <2>1. (open \o nc) \o us = open \o (nc \o us)
    <3>1. open \in Seq(TextSymbols)
      BY <1>2
    <3> QED BY <3>1, <1>3, <1>6, Regroup
  <2> QED BY <1>5, <2>1
<1>8. m \in Seq(TextSymbols)
  BY <1>5
<1> HIDE DEF m
<1>9. mu \in Seq(TextSymbols)
  BY <1>3, <1>8, Joined
<1>10. xm \o us = x \o mu
  BY <1>3, <1>8, Regroup
<1> HIDE DEF mu
<1>11. (x \o mu) \o close = x \o (mu \o close)
  <2>1. close \in Seq(TextSymbols)
    BY <1>2
  <2> QED BY <2>1, <1>9, Regroup
<1> QED BY <1>4, <1>7, <1>10, <1>11, Zenon DEF m, us, close, open

NameText(c) == <<c, ":", Space>>

LEMMA NameTexts ==
  /\ NameText("a") \in Seq(TextSymbols) /\ NameText("b") \in Seq(TextSymbols)
  /\ UpToNul(NameText("a")) = NameText("a") /\ UpToNul(NameText("b")) = NameText("b")
  /\ UpToNul(Comma) = Comma
<1>1. "a" \in TextSymbols /\ "b" \in TextSymbols /\ ":" \in TextSymbols /\ Space \in TextSymbols
  BY WordsText
<1>2. NameText("a") \in Seq(TextSymbols) /\ NameText("b") \in Seq(TextSymbols)
  BY <1>1, TripleAppended DEF NameText
<1>3. ASSUME NEW t \in Seq(TextSymbols) PROVE UpToNul(t) = t
  <2>1. t \in Seq(TextSet \ {Nul})
    BY DEF TextSymbols
  <2> QED BY <2>1, NulFree
<1> QED BY <1>2, <1>3, CommaType

(* What the last statement streams, and what is found of it.               *)
LastStream(s, r) ==
  CharValues(s) \o <<Container(<<Pair(Null, String(s))>>)>>
    \o PrintVar(<<"a", "b">>, <<String(r), Number(10)>>)

LastText(s, r) ==
  Without(s, {Nul}) \o <<"[", "(null)", ":">> \o UpToNul(s) \o <<"]">>
    \o NameText("a") \o UpToNul(r) \o Comma \o <<"b", ":", Space, "1", "0">>

LEMMA LastStreamed ==
  ASSUME NEW s \in Seq(TextSet), NEW r \in Seq(TextSet)
  PROVE  Streamed(Record, LastStream(s, r)) =
           Dec((((((Without(s, {Nul}) \o Bracketed(PairText(s))) \o NameText("a")) \o UpToNul(r)) \o Comma)
                 \o NameText("b")) \o <<"1", "0">>)
<1> DEFINE k == Container(<<Pair(Null, String(s))>>)
           u == String(NameText("a"))
           v == String(r)
           w == String(Comma)
           x == String(NameText("b"))
           y == Number(10)
           q == CharValues(s)
           Q == {Char(c) : c \in TextSet}
           V == Q \cup {k, u, v, w, x, y}
           B == Bracketed(PairText(s))
           W == Without(s, {Nul})
           a == NameText("a")
           b == NameText("b")
           t == <<"1", "0">>
           ur == UpToNul(r)
<1>1. q \in Seq(V) /\ Streamed(Record, q) = Dec(W)
  <2>1. q \in Seq(Q) /\ Streamed(Record, q) = Dec(W)
    BY CharsStreamed
  <2>2. Q \subseteq V
    OBVIOUS
  <2> HIDE DEF Q, V, q, W
  <2> QED BY <2>1, <2>2, SeqMonotonic
<1>2. k \in V /\ u \in V /\ v \in V /\ w \in V /\ x \in V /\ y \in V
  OBVIOUS
<1>3. LastStream(s, r) = (q \o <<k>>) \o <<u, v, w, x, y>>
  <2>1. PrintVar(<<"a", "b">>, <<v, y>>) = <<u, v, w, x, y>>
    BY PrintVarIs DEF NameText, Comma
  <2> QED BY <2>1, Zenon DEF LastStream
<1>4. \A c : Out(Dec(c), k) = Dec(c \o B)
  BY PairOut
<1>5. /\ \A c : Out(Dec(c), u) = Dec(c \o UpToNul(a))
      /\ \A c : Out(Dec(c), v) = Dec(c \o ur)
      /\ \A c : Out(Dec(c), w) = Dec(c \o UpToNul(Comma))
      /\ \A c : Out(Dec(c), x) = Dec(c \o UpToNul(b))
  BY StreamIs
<1>6. \A c : Out(Dec(c), y) = Dec(c \o t)
  <2>1. \A c : Out(Dec(c), y) = Dec(c \o Numeral(10, 10))
    BY StreamIs
  <2>2. Numeral(10, 10) = t
    BY Numerals
  <2> HIDE DEF t, y
  <2> QED BY <2>1, <2>2
<1>7. UpToNul(a) = a /\ UpToNul(b) = b /\ UpToNul(Comma) = Comma
  BY NameTexts
<1> HIDE DEF k, u, v, w, x, y, q, V, B, W, a, b, t, ur
<1>8. q \in Seq(V)
  BY <1>1
<1>9. Streamed(Record, (q \o <<k>>) \o <<u, v, w, x, y>>) =
        Out(Out(Out(Out(Out(Out(Streamed(Record, q), k), u), v), w), x), y)
  BY <1>2, <1>8, StreamedSix
<1>10. Out(Out(Out(Out(Out(Out(Dec(W), k), u), v), w), x), y) =
         Dec((((((W \o B) \o a) \o ur) \o Comma) \o b) \o t)
  BY <1>4, <1>5, <1>6, <1>7
<1> QED BY <1>1, <1>3, <1>9, <1>10, Zenon DEF B, W, a, b, t, ur

LEMMA LastTextIs ==
  ASSUME NEW s \in Seq(TextSet), NEW r \in Seq(TextSet)
  PROVE  /\ (((((Without(s, {Nul}) \o Bracketed(PairText(s))) \o NameText("a")) \o UpToNul(r)) \o Comma)
                 \o NameText("b")) \o <<"1", "0">> = LastText(s, r)
         /\ LastText(s, r) \in Seq(TextSymbols)
<1> DEFINE B == Bracketed(PairText(s))
           W == Without(s, {Nul})
           a == NameText("a")
           ur == UpToNul(r)
           x == W \o B
           xa == x \o a
           xar == xa \o ur
           xarc == xar \o Comma
<1>1. W \in Seq(TextSymbols)
  BY WithoutType DEF TextSymbols
<1>2. B \in Seq(TextSymbols)
  BY PairOut, BracketedType
<1>3. a \in Seq(TextSymbols)
  BY NameTexts
<1>4. ur \in Seq(TextSymbols)
  BY StringText
<1>5. x = ((W \o <<"[", "(null)", ":">>) \o UpToNul(s)) \o <<"]">>
  BY <1>1, PairBracketed
<1> HIDE DEF W, B, a, ur
<1>6. x \in Seq(TextSymbols)
  BY <1>1, <1>2, Joined
<1> HIDE DEF x
<1>7. xa \in Seq(TextSymbols)
  BY <1>3, <1>6, Joined
<1> HIDE DEF xa
<1>8. xar \in Seq(TextSymbols)
  BY <1>4, <1>7, Joined
<1> HIDE DEF xar
<1>9. xarc \in Seq(TextSymbols)
  BY <1>8, CommaType, Joined
<1> HIDE DEF xarc
<1>10. /\ (xarc \o NameText("b")) \o <<"1", "0">> = xarc \o <<"b", ":", Space, "1", "0">>
       /\ xarc \o <<"b", ":", Space, "1", "0">> \in Seq(TextSymbols)
  <2> DEFINE b == "b"
             c == ":"
             d == "1"
             e == "0"
  <2>1. b \in TextSymbols /\ c \in TextSymbols /\ d \in TextSymbols /\ e \in TextSymbols /\ Space \in TextSymbols
    BY WordsText
  <2> HIDE DEF b, c, d, e
  <2>2. /\ (xarc \o <<b, c, Space>>) \o <<d, e>> = xarc \o <<b, c, Space, d, e>>
        /\ xarc \o <<b, c, Space, d, e>> \in Seq(TextSymbols)
    BY <1>9, <2>1, ThreeAndTwo
  <2> QED BY <2>2, Zenon DEF NameText, b, c, d, e
<1>11. LastText(s, r) = xarc \o <<"b", ":", Space, "1", "0">>
  BY <1>5, Zenon DEF LastText, xarc, xar, xa, a, ur, W
<1> QED BY <1>10, <1>11, Zenon DEF xarc, xar, xa, x, a, ur, W, B

(* Characters, a container of a pair, and two variables are streamed.      *)
LEMMA LastStatement ==
  ASSUME NEW s \in Seq(TextSet), NEW r \in Seq(TextSet)
  PROVE  LineEndsWith(LastStream(s, r), LastText(s, r))
<1> DEFINE stream == LastStream(s, r)
           t == LastText(s, r)
<1>1. Streamed(Record, stream) = Dec(t)
  BY LastStreamed, LastTextIs, Zenon
<1>2. t \in Seq(TextSymbols)
  BY LastTextIs
<1> HIDE DEF stream, t
<1>3. Streamed(Record, stream).chars = t
  BY <1>1 DEF Dec
<1>4. LineEndsWith(stream, t)
  BY <1>2, <1>3, TextFound
<1> QED BY <1>4 DEF stream, t

(* What is streamed to a record is found in its line, whichever formatter  *)
(* writes it and however long the strings are: no value is lost or changed *)
(* by those before it, a string that contains nul loses its end but not    *)
(* what follows it, a null pointer is named, and numbers are in hexadecimal*)
(* after a dump (Record.h:112-174, 243-247, 292-318, 369-373,              *)
(* HexDump.h:50).                                                          *)
THEOREM MessagesComplete == Spec => []MessageComplete
<1>1. TypeOK => MessageComplete
  <2> SUFFICES ASSUME TypeOK, NEW k \in 0..Len(text)
               PROVE  LET s == SubSeq(text, 1, k)
                          r == SubSeq(text, k + 1, Len(text))
                          Chars(t) == [i \in DOMAIN t |-> String(<<t[i]>>)]
                          List(t) ==
                            <<"[">> \o FlattenSeq([i \in DOMAIN t |->
                               (IF i = 1 THEN <<>> ELSE <<",", Space>>) \o UpToNul(<<t[i]>>)]) \o <<"]">>
                      IN  /\ LineEndsWith(<<String(s), Number(16), String(r)>>,
                                          UpToNul(s) \o <<"1", "6">> \o UpToNul(r))
                          /\ LineEndsWith(<<String(s), Null, Hex(<<7>>, 8), Number(16), String(r)>>,
                                          UpToNul(s) \o <<"(null)", "0", "7", "1", "0">> \o UpToNul(r))
                          /\ LineEndsWith(<<Container(Chars(s)), Pair(String(s), Number(5)), String(r)>>,
                                          List(s) \o UpToNul(s) \o <<":", "5">> \o UpToNul(r))
                          /\ LineEndsWith([i \in DOMAIN s |-> Char(s[i])] \o <<Container(<<Pair(Null, String(s))>>)>>
                                            \o PrintVar(<<"a", "b">>, <<String(r), Number(10)>>),
                                          Without(s, {Nul}) \o <<"[", "(null)", ":">> \o UpToNul(s) \o <<"]">>
                                            \o <<"a", ":", Space>> \o UpToNul(r) \o <<",", Space>>
                                            \o <<"b", ":", Space, "1", "0">>)
    BY Zenon DEF MessageComplete
  <2> DEFINE s == SubSeq(text, 1, k)
             r == SubSeq(text, k + 1, Len(text))
  <2>1. text \in Seq(TextSet) /\ Len(text) \in Nat
    <3>1. Symbols \subseteq TextSet
      BY DEF TextSet
    <3>2. text \in Seq(TextSet)
      BY <3>1, SeqMonotonic DEF TypeOK
    <3> QED BY <3>2, LenProperties
  <2>2. s \in Seq(TextSet) /\ r \in Seq(TextSet)
    <3>1. 1 \in 1..(Len(text) + 1) /\ k + 1 \in 1..(Len(text) + 1) /\ Len(text) \in 0..Len(text)
      BY <2>1
    <3> QED BY <2>1, <3>1, Part
  <2> HIDE DEF s, r
  <2>3. LineEndsWith(<<String(s), Number(16), String(r)>>, UpToNul(s) \o <<"1", "6">> \o UpToNul(r))
    BY <2>2, FirstStatement
  <2>4. LineEndsWith(<<String(s), Null, Hex(<<7>>, 8), Number(16), String(r)>>,
                     UpToNul(s) \o <<"(null)", "0", "7", "1", "0">> \o UpToNul(r))
    BY <2>2, SecondStatement
  <2>5. LineEndsWith(<<Container([i \in DOMAIN s |-> String(<<s[i]>>)]), Pair(String(s), Number(5)), String(r)>>,
                     (<<"[">> \o FlattenSeq([i \in DOMAIN s |->
                        (IF i = 1 THEN <<>> ELSE <<",", Space>>) \o UpToNul(<<s[i]>>)]) \o <<"]">>)
                       \o UpToNul(s) \o <<":", "5">> \o UpToNul(r))
    <3>1. LineEndsWith(<<Container(CharStrings(s)), Pair(String(s), Number(5)), String(r)>>,
                       Bracketed(Preceded(Shown(s), Comma, Len(s))) \o UpToNul(s) \o <<":", "5">> \o UpToNul(r))
      BY <2>2, ThirdStatement
    <3>2. <<"[">> \o FlattenSeq([i \in DOMAIN s |->
            (IF i = 1 THEN <<>> ELSE <<",", Space>>) \o UpToNul(<<s[i]>>)]) \o <<"]">> =
          Bracketed(Preceded(Shown(s), Comma, Len(s)))
      BY <2>2, ListIs, Zenon
    <3> QED BY <3>1, <3>2, Zenon DEF CharStrings
  <2>6. LineEndsWith([i \in DOMAIN s |-> Char(s[i])] \o <<Container(<<Pair(Null, String(s))>>)>>
                       \o PrintVar(<<"a", "b">>, <<String(r), Number(10)>>),
                     Without(s, {Nul}) \o <<"[", "(null)", ":">> \o UpToNul(s) \o <<"]">>
                       \o <<"a", ":", Space>> \o UpToNul(r) \o <<",", Space>>
                       \o <<"b", ":", Space, "1", "0">>)
    <3>1. LineEndsWith(LastStream(s, r), LastText(s, r))
      BY <2>2, LastStatement
    <3> QED BY <3>1, Zenon DEF LastStream, LastText, CharValues, NameText, Comma
  <2> QED BY <2>3, <2>4, <2>5, <2>6, Zenon DEF s, r
<1> QED BY <1>1, TypeCorrect, PTL
=============================================================================
