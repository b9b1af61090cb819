--------------------------- MODULE FormatsProofs ---------------------------
(***************************************************************************)
(* Theorems about module Formats, for every set of symbols, every limit of *)
(* a message and every string however long: the function name that is      *)
(* found, the names of rolled files, and that a CSV log is read back as it *)
(* was written.  RecordsProofs goes on from here.                          *)
(*                                                                         *)
(* What a conversion computes is the value of a recursive function or of a *)
(* fold.  For each of them four lemmas come first: a function that         *)
(* satisfies the recursion exists up to n, the operator is its value at n, *)
(* the value at nothing, and the value when a symbol is appended.  What    *)
(* follows is by induction over numbers or strings, which is a theorem     *)
(* about sets here: instead of a property, the set of the numbers that     *)
(* have it.                                                                *)
(***************************************************************************)
EXTENDS Formats, SequenceTheorems, FiniteSetTheorems, WellFoundedInduction, TLAPS

-----------------------------------------------------------------------------
(* Induction.                                                              *)

(* A set of numbers has a least element: of the initial segments they end, *)
(* which are finite, one includes no other.                                *)
LEMMA Least ==
  ASSUME NEW T, T \subseteq Nat, T # {}
  PROVE  \E n \in T : \A m \in T : n <= m
<1> DEFINE U == {0..n : n \in T}
<1>1. IsWellFoundedOn(StrictSubsetOrdering(Nat), FiniteSubsetsOf(Nat))
  BY FS_StrictSubsetOrderingWellFounded
<1>2. \A n \in T : 0..n \in FiniteSubsetsOf(Nat)
  <2> TAKE n \in T
  <2>1. 0 \in Int /\ n \in Int
    OBVIOUS
  <2>2. IsFiniteSet(0..n)
    BY <2>1, FS_Interval
  <2>3. 0..n \subseteq Nat
    OBVIOUS
  <2> QED BY <2>2, <2>3 DEF FiniteSubsetsOf
<1>3. U \subseteq FiniteSubsetsOf(Nat) /\ U # {}
  BY <1>2
<1>4. PICK x \in U : \A y \in U : ~(<<y, x>> \in StrictSubsetOrdering(Nat))
  <2> HIDE DEF U
  <2> QED BY <1>1, <1>3, WFMin
<1>5. PICK n \in T : x = 0..n
  OBVIOUS
<1>6. ASSUME NEW m \in T PROVE n <= m
  <2>1. <<0..m, 0..n>> \notin StrictSubsetOrdering(Nat)
    BY <1>4, <1>5
  <2>2. ~(0..m \subseteq 0..n /\ 0..m # 0..n)
    BY <2>1 DEF StrictSubsetOrdering
  <2>3. CASE m < n
    <3>1. 0..m \subseteq 0..n
      BY <2>3
    <3>2. n \in 0..n /\ n \notin 0..m
      BY <2>3
    <3> QED BY <2>2, <3>1, <3>2
  <2> QED BY <2>3
<1> QED BY <1>6

(* A set that has 0, and with a number the next, has all.                  *)
LEMMA Induction ==
  ASSUME NEW T, 0 \in T, \A n \in Nat : n \in T => n + 1 \in T
  PROVE  Nat \subseteq T
<1>1. SUFFICES ASSUME Nat \ T # {} PROVE FALSE
  OBVIOUS
<1>2. PICK n \in Nat \ T : \A m \in Nat \ T : n <= m
  BY <1>1, Least
<1>3. n - 1 \in Nat /\ n - 1 \in T
  BY <1>2
<1> QED BY <1>2, <1>3

(* Strings are made by appending symbols.                                  *)
LEMMA StringInduction ==
  ASSUME NEW S, NEW T, <<>> \in T,
         \A s \in Seq(S), c \in S : s \in T => Append(s, c) \in T
  PROVE  Seq(S) \subseteq T
<1> DEFINE U == {n \in Nat : \A s \in Seq(S) : Len(s) = n => s \in T}
<1>1. 0 \in U
  BY EmptySeq
<1>2. ASSUME NEW n \in Nat, n \in U PROVE n + 1 \in U
  <2> SUFFICES ASSUME NEW s \in Seq(S), Len(s) = n + 1 PROVE s \in T
    OBVIOUS
  <2>1. s # <<>>
    BY EmptySeq
  <2>2. PICK t \in Seq(S), c \in S : s = Append(t, c)
    BY <2>1, SequenceEmptyOrAppend
  <2>3. Len(s) = Len(t) + 1 /\ Len(t) \in Nat
    BY <2>2, AppendProperties, LenProperties
  <2>4. t \in T
    BY <1>2, <2>3
  <2> QED BY <2>2, <2>4
<1>3. Nat \subseteq U
  <2> HIDE DEF U
  <2> QED BY <1>1, <1>2, Induction
<1> QED BY <1>3, LenProperties

-----------------------------------------------------------------------------
(* The first and the last index with a property.                           *)

LEMMA Highest ==
  ASSUME NEW n \in Nat, NEW T, T \subseteq 1..n, T # {}
  PROVE  \E m \in T : \A k \in T : k <= m
<1> DEFINE U == {n - k : k \in T}
<1>1. U \subseteq Nat /\ U # {}
  <2>1. \A k \in T : n - k \in Nat
    OBVIOUS
  <2> QED BY <2>1
<1>2. PICK u \in U : \A v \in U : u <= v
  <2> HIDE DEF U
  <2> QED BY <1>1, Least
<1>3. PICK m \in T : u = n - m
  OBVIOUS
<1>4. ASSUME NEW k \in T PROVE k <= m
  <2>1. n - m <= n - k
    BY <1>2, <1>3
  <2> QED BY <2>1
<1> QED BY <1>4

LEMMA MinIs ==
  ASSUME NEW T, T \subseteq Nat, NEW n \in T, \A m \in T : n <= m
  PROVE  Min(T) = n
<1>1. n \in T /\ \A m \in T : n <= m
  OBVIOUS
<1>2. Min(T) \in T /\ \A m \in T : Min(T) <= m
  BY <1>1, Zenon DEF Min
<1>3. n \in Nat /\ Min(T) \in Nat
  BY <1>2
<1>4. n <= Min(T) /\ Min(T) <= n
  BY <1>1, <1>2
<1> QED BY <1>3, <1>4

LEMMA MaxIs ==
  ASSUME NEW T, T \subseteq Nat, NEW n \in T, \A m \in T : m <= n
  PROVE  Max(T) = n
<1>1. n \in T /\ \A m \in T : n >= m
  OBVIOUS
<1>2. Max(T) \in T /\ \A m \in T : Max(T) >= m
  BY <1>1, Zenon DEF Max
<1>3. n \in Nat /\ Max(T) \in Nat
  BY <1>2
<1>4. Max(T) <= n /\ n <= Max(T)
  BY <1>1, <1>2
<1> QED BY <1>3, <1>4

-----------------------------------------------------------------------------
(* Concatenation of a sequence of strings.                                 *)

(* f[i] concatenates the first i strings of ss.                            *)
IsFlatten(f, ss, n) ==
  f = [i \in 1..n |-> IF i = 1 THEN ss[i] ELSE f[i - 1] \o ss[i]]

LEMMA FlattenExists ==
  ASSUME NEW ss
  PROVE  \A n \in Nat : \E f : IsFlatten(f, ss, n)
<1> DEFINE T == {n \in Nat : \E f : IsFlatten(f, ss, n)}
<1>1. 0 \in T
  <2>1. IsFlatten([i \in 1..0 |-> 0], ss, 0)
    BY DEF IsFlatten
  <2> QED BY <2>1
<1>2. ASSUME NEW n \in Nat, n \in T PROVE n + 1 \in T
  <2>1. PICK f : IsFlatten(f, ss, n)
    BY <1>2
  <2> DEFINE g == [i \in 1..(n + 1) |-> IF i = 1 THEN ss[i] ELSE f[i - 1] \o ss[i]]
  <2>2. \A i \in 1..n : f[i] = IF i = 1 THEN ss[i] ELSE f[i - 1] \o ss[i]
    BY <2>1 DEF IsFlatten
  <2>3. \A i \in 1..n : g[i] = f[i]
    BY <2>2
  <2>4. \A i \in 1..(n + 1) : i # 1 => i - 1 \in 1..n
    OBVIOUS
  <2>5. g = [i \in 1..(n + 1) |-> IF i = 1 THEN ss[i] ELSE g[i - 1] \o ss[i]]
    BY <2>3, <2>4
  <2>6. IsFlatten(g, ss, n + 1)
    BY <2>5, Zenon DEF IsFlatten
  <2> QED BY <2>6
<1>3. Nat \subseteq T
  <2> HIDE DEF T
  <2> QED BY <1>1, <1>2, Induction
<1> QED BY <1>3

(* FlattenSeq is the value of any such function.                           *)
LEMMA FlattenIs ==
  ASSUME NEW S, NEW ss \in Seq(S), ss # <<>>
  PROVE  \E f : IsFlatten(f, ss, Len(ss)) /\ FlattenSeq(ss) = f[Len(ss)]
<1> DEFINE f == CHOOSE f : f = [i \in 1..Len(ss) |-> IF i = 1 THEN ss[i] ELSE f[i - 1] \o ss[i]]
<1>1. Len(ss) \in Nat /\ Len(ss) # 0
  BY EmptySeq
<1>2. \E g : IsFlatten(g, ss, Len(ss))
  BY <1>1, FlattenExists
<1>3. f = [i \in 1..Len(ss) |-> IF i = 1 THEN ss[i] ELSE f[i - 1] \o ss[i]]
  BY <1>2, Zenon DEF IsFlatten
<1>4. FlattenSeq(ss) = f[Len(ss)]
  BY <1>1, Zenon DEF FlattenSeq
<1>5. IsFlatten(f, ss, Len(ss))
  BY <1>3, Zenon DEF IsFlatten
<1> QED BY <1>4, <1>5, Zenon

LEMMA FlattenEmpty == FlattenSeq(<<>>) = <<>>
BY EmptySeq DEF FlattenSeq

(* One string more.                                                        *)
LEMMA FlattenAppended ==
  ASSUME NEW S, NEW ss \in Seq(Seq(S)), NEW x \in Seq(S)
  PROVE  FlattenSeq(Append(ss, x)) = FlattenSeq(ss) \o x
<1> DEFINE tt == Append(ss, x)
           n == Len(ss)
<1>1. n \in Nat /\ tt \in Seq(Seq(S)) /\ tt # <<>> /\ Len(tt) = n + 1 /\ tt[n + 1] = x
      /\ \A i \in 1..n : tt[i] = ss[i]
  BY AppendProperties
<1> HIDE DEF tt
<1>2. PICK g : IsFlatten(g, tt, n + 1) /\ FlattenSeq(tt) = g[n + 1]
  BY <1>1, FlattenIs
<1>3. \A i \in 1..(n + 1) : g[i] = IF i = 1 THEN tt[i] ELSE g[i - 1] \o tt[i]
  BY <1>2 DEF IsFlatten
<1>4. CASE ss = <<>>
  <2>1. n = 0
    BY <1>4, EmptySeq
  <2>2. g[n + 1] = x
    BY <1>1, <1>3, <2>1
  <2> QED BY <1>2, <2>2, <1>4, FlattenEmpty, ConcatEmptySeq DEF tt
<1>5. CASE ss # <<>>
  <2>1. PICK f : IsFlatten(f, ss, n) /\ FlattenSeq(ss) = f[n]
    BY <1>5, FlattenIs
  <2>2. \A i \in 1..n : f[i] = IF i = 1 THEN ss[i] ELSE f[i - 1] \o ss[i]
    BY <2>1 DEF IsFlatten
  <2> DEFINE T == {i \in Nat : i \in 1..n => f[i] = g[i]}
  <2>3. 0 \in T
    OBVIOUS
  <2>4. ASSUME NEW i \in Nat, i \in T PROVE i + 1 \in T
    <3> SUFFICES ASSUME i + 1 \in 1..n PROVE f[i + 1] = g[i + 1]
      OBVIOUS
    <3>1. f[i + 1] = IF i + 1 = 1 THEN ss[i + 1] ELSE f[i] \o ss[i + 1]
      BY <2>2
    <3>2. g[i + 1] = IF i + 1 = 1 THEN ss[i + 1] ELSE g[i] \o ss[i + 1]
      BY <1>3, <1>1
    <3>3. i + 1 # 1 => f[i] = g[i]
      BY <2>4
    <3> QED BY <3>1, <3>2, <3>3
  <2>5. Nat \subseteq T
    <3> HIDE DEF T
    <3> QED BY <2>3, <2>4, Induction
  <2>6. n # 0
    BY <1>5, EmptySeq
  <2>7. f[n] = g[n]
    BY <2>5, <2>6, <1>1
  <2>8. g[n + 1] = g[n] \o x
    <3>1. n + 1 \in 1..(n + 1) /\ n + 1 # 1 /\ (n + 1) - 1 = n
      BY <1>1, <2>6
    <3>2. g[n + 1] = g[(n + 1) - 1] \o tt[n + 1]
      BY <1>3, <3>1
    <3> QED BY <1>1, <3>1, <3>2
  <2> QED BY <1>2, <2>1, <2>7, <2>8 DEF tt
<1> QED BY <1>4, <1>5

LEMMA FlattenType ==
  ASSUME NEW S, NEW ss \in Seq(Seq(S))
  PROVE  FlattenSeq(ss) \in Seq(S)
<1> DEFINE T == {tt \in Seq(Seq(S)) : FlattenSeq(tt) \in Seq(S)}
<1>1. <<>> \in T
  BY FlattenEmpty, EmptySeq
<1>2. ASSUME NEW tt \in Seq(Seq(S)), NEW x \in Seq(S), tt \in T PROVE Append(tt, x) \in T
  <2>1. FlattenSeq(Append(tt, x)) = FlattenSeq(tt) \o x
    BY FlattenAppended
  <2>2. FlattenSeq(tt) \in Seq(S)
    BY <1>2
  <2> QED BY <2>1, <2>2, ConcatProperties, AppendProperties
<1>3. Seq(Seq(S)) \subseteq T
  <2> HIDE DEF T
  <2> QED BY <1>1, <1>2, StringInduction
<1> QED BY <1>3

-----------------------------------------------------------------------------
(* What is kept of a string.                                               *)

(* A sequence with one element more than another and the same before it.   *)
LEMMA IsAppended ==
  ASSUME NEW S, NEW s \in Seq(S), NEW c \in S, NEW t \in Seq(S), Len(t) = Len(s) + 1,
         \A i \in 1..Len(s) : t[i] = s[i], t[Len(s) + 1] = c
  PROVE  t = Append(s, c)
<1>1. /\ Append(s, c) \in Seq(S) /\ Len(Append(s, c)) = Len(s) + 1
      /\ \A i \in 1..Len(s) : Append(s, c)[i] = s[i]
      /\ Append(s, c)[Len(s) + 1] = c
  BY AppendProperties
<1>2. Len(s) \in Nat
  OBVIOUS
<1>3. \A i \in 1..(Len(s) + 1) : t[i] = Append(s, c)[i]
  BY <1>1, <1>2
<1> QED BY <1>1, <1>2, <1>3, SeqEqual

LEMMA WithoutEmpty == \A symbols : Without(<<>>, symbols) = <<>>
<1> SUFFICES ASSUME NEW symbols PROVE Without(<<>>, symbols) = <<>>
  OBVIOUS
<1> DEFINE parts == [i \in DOMAIN <<>> |-> IF <<>>[i] \in symbols THEN <<>> ELSE <<<<>>[i]>>]
<1>1. parts = <<>>
  OBVIOUS
<1> QED BY <1>1, FlattenEmpty, Zenon DEF Without

(* One symbol more is kept or dropped.                                     *)
LEMMA WithoutAppended ==
  ASSUME NEW S, NEW s \in Seq(S), NEW c \in S, NEW symbols
  PROVE  Without(Append(s, c), symbols) =
           IF c \in symbols THEN Without(s, symbols) \o <<>> ELSE Without(s, symbols) \o <<c>>
<1> DEFINE part(d) == IF d \in symbols THEN <<>> ELSE <<d>>
           parts(t) == [i \in DOMAIN t |-> IF t[i] \in symbols THEN <<>> ELSE <<t[i]>>]
           sc == Append(s, c)
<1>1. \A d \in S : part(d) \in Seq(S)
  OBVIOUS
<1>2. \A t \in Seq(S) : /\ parts(t) \in Seq(Seq(S)) /\ Len(parts(t)) = Len(t)
                        /\ \A i \in 1..Len(t) : parts(t)[i] = part(t[i])
  <2> TAKE t \in Seq(S)
  <2>1. DOMAIN t = 1..Len(t) /\ Len(t) \in Nat /\ \A i \in 1..Len(t) : t[i] \in S
    BY LenProperties, ElementOfSeq
  <2>2. parts(t) \in [1..Len(t) -> Seq(S)]
    BY <1>1, <2>1
  <2> QED BY <2>1, <2>2
<1>3. /\ sc \in Seq(S) /\ Len(sc) = Len(s) + 1 /\ Len(s) \in Nat
      /\ \A i \in 1..Len(s) : sc[i] = s[i]
      /\ sc[Len(s) + 1] = c
  BY AppendProperties, LenProperties
<1>4. parts(sc) = Append(parts(s), part(c))
  <2>1. parts(sc) \in Seq(Seq(S)) /\ Len(parts(sc)) = Len(s) + 1
    BY <1>2, <1>3
  <2>2. parts(s) \in Seq(Seq(S)) /\ Len(parts(s)) = Len(s) /\ part(c) \in Seq(S)
    BY <1>1, <1>2
  <2>3. \A i \in 1..Len(s) : parts(sc)[i] = parts(s)[i]
    <3> TAKE i \in 1..Len(s)
    <3>1. i \in 1..(Len(s) + 1) /\ sc[i] = s[i]
      BY <1>3
    <3> QED BY <1>2, <1>3, <3>1
  <2>4. parts(sc)[Len(s) + 1] = part(c)
    <3>1. Len(s) + 1 \in 1..(Len(s) + 1)
      BY <1>3
    <3> QED BY <1>2, <1>3, <3>1
  <2> HIDE DEF parts, part
  <2> QED BY <2>1, <2>2, <2>3, <2>4, IsAppended
<1>5. FlattenSeq(parts(sc)) = FlattenSeq(parts(s)) \o part(c)
  <2>1. parts(s) \in Seq(Seq(S)) /\ part(c) \in Seq(S)
    BY <1>1, <1>2
  <2> HIDE DEF parts, part
  <2> QED BY <1>4, <2>1, FlattenAppended
<1>6. Without(sc, symbols) = FlattenSeq(parts(sc)) /\ Without(s, symbols) = FlattenSeq(parts(s))
  BY Zenon DEF Without
<1> QED BY <1>5, <1>6

LEMMA WithoutType ==
  ASSUME NEW S, NEW s \in Seq(S), NEW symbols
  PROVE  Without(s, symbols) \in Seq(S \ symbols)
<1> DEFINE T == {t \in Seq(S) : Without(t, symbols) \in Seq(S \ symbols)}
<1>1. <<>> \in T
  BY WithoutEmpty, EmptySeq
<1>2. ASSUME NEW t \in Seq(S), NEW c \in S, t \in T PROVE Append(t, c) \in T
  <2>1. Without(t, symbols) \in Seq(S \ symbols) /\ Append(t, c) \in Seq(S)
    BY <1>2
  <2>2. CASE c \in symbols
    <3>1. Without(Append(t, c), symbols) = Without(t, symbols) \o <<>>
      BY <2>2, WithoutAppended
    <3>2. Without(Append(t, c), symbols) \in Seq(S \ symbols)
      BY <2>1, <3>1, ConcatEmptySeq
    <3> QED BY <2>1, <3>2
  <2>3. CASE c \notin symbols
    <3>1. <<c>> \in Seq(S \ symbols)
      BY <2>3
    <3>2. Without(Append(t, c), symbols) = Without(t, symbols) \o <<c>>
      BY <2>3, WithoutAppended
    <3>3. Without(Append(t, c), symbols) \in Seq(S \ symbols)
      BY <2>1, <3>1, <3>2, ConcatProperties
    <3> QED BY <2>1, <3>3
  <2> QED BY <2>2, <2>3
<1>3. Seq(S) \subseteq T
  <2> HIDE DEF T
  <2> QED BY <1>1, <1>2, StringInduction
<1> QED BY <1>3

-----------------------------------------------------------------------------

(* What is found when the first parenthesis is at e and the last space     *)
(* before it, if any, at k.                                                *)
LEMMA NameBetween ==
  ASSUME NEW S, NEW w \in Seq(S), NEW e \in 1..Len(w), w[e] = "(",
         \A i \in 1..(e - 1) : w[i] # "(",
         NEW k \in 0..(e - 1), k # 0 => w[k] = Space,
         \A i \in (k + 1)..(e - 1) : w[i] # Space
  PROVE  processFuncName(w) = SubSeq(w, k + 1, e - 1)
<1> DEFINE ends == {i \in 1..Len(w) : w[i] = "("}
           spaces == {i \in 1..(e - 1) : w[i] = Space}
<1>1. Len(w) \in Nat /\ e \in Nat /\ k \in Nat
  BY LenProperties
<1>2. ends # {} /\ Min(ends) = e
  <2>1. ends \subseteq Nat /\ e \in ends
    BY <1>1
  <2>2. \A m \in ends : e <= m
    <3> SUFFICES ASSUME NEW m \in 1..Len(w), w[m] = "(", ~(e <= m) PROVE FALSE
      OBVIOUS
    <3>1. m \in 1..(e - 1)
      BY <1>1
    <3> QED BY <3>1
  <2> HIDE DEF ends
  <2> QED BY <2>1, <2>2, MinIs
<1>3. (IF spaces # {} THEN Max(spaces) ELSE 0) = k
  <2>1. \A m \in spaces : m <= k
    <3> SUFFICES ASSUME NEW m \in 1..(e - 1), w[m] = Space, ~(m <= k) PROVE FALSE
      OBVIOUS
    <3>1. m \in (k + 1)..(e - 1)
      BY <1>1
    <3> QED BY <3>1
  <2>2. CASE k = 0
    BY <2>1, <2>2
  <2>3. CASE k # 0
    <3>1. spaces \subseteq Nat /\ k \in spaces
      BY <1>1, <2>3
    <3> HIDE DEF spaces
    <3> QED BY <2>1, <3>1, MaxIs
  <2> QED BY <2>2, <2>3
<1>4. processFuncName(w) =
        LET funcEnd == IF ends # {} THEN Min(ends) ELSE 0
            before == {i \in 1..(funcEnd - 1) : w[i] = Space}
            space == IF before # {} THEN Max(before) ELSE 0
        IN  IF funcEnd = 0 THEN w ELSE SubSeq(w, space + 1, funcEnd - 1)
  BY DEF processFuncName, SelectInSeq, SelectLastInSubSeq
<1>5. processFuncName(w) =
        LET space == IF spaces # {} THEN Max(spaces) ELSE 0
        IN  IF e = 0 THEN w ELSE SubSeq(w, space + 1, e - 1)
  BY <1>2, <1>4
<1>6. processFuncName(w) = IF e = 0 THEN w ELSE SubSeq(w, k + 1, e - 1)
  <2> HIDE DEF spaces
  <2> QED BY <1>3, <1>5
<1> QED BY <1>6, <1>1

(* With a type before the name, ...                                        *)
LEMMA FuncNameAfter ==
  ASSUME NEW S, "(" \in S, NEW p \in Seq(S \ {"("}), p # <<>> => p[Len(p)] = Space,
         NEW name \in Seq(S \ {Space, "("}), NEW parameters \in Seq(S)
  PROVE  processFuncName(p \o name \o <<"(">> \o parameters) = name
<1> DEFINE pn == p \o name
           pne == pn \o <<"(">>
           w == pne \o parameters
           k == Len(p)
           n == Len(name)
           e == k + n + 1
<1>1. /\ p \in Seq(S) /\ name \in Seq(S) /\ <<"(">> \in Seq(S)
      /\ k \in Nat /\ n \in Nat
      /\ \A i \in 1..k : p[i] # "("
      /\ \A i \in 1..n : name[i] \notin {Space, "("}
  <2>1. S \ {"("} \subseteq S /\ S \ {Space, "("} \subseteq S
    OBVIOUS
  <2>2. p \in Seq(S) /\ name \in Seq(S)
    BY <2>1, SeqMonotonic
  <2>3. \A i \in 1..k : p[i] \in S \ {"("}
    BY ElementOfSeq
  <2>4. \A i \in 1..n : name[i] \in S \ {Space, "("}
    BY ElementOfSeq
  <2> QED BY <2>2, <2>3, <2>4, LenProperties
<1>2. /\ pn \in Seq(S) /\ Len(pn) = k + n
      /\ \A i \in 1..(k + n) : pn[i] = IF i <= k THEN p[i] ELSE name[i - k]
  BY <1>1, ConcatProperties
<1> HIDE DEF pn
<1>3. /\ pne \in Seq(S) /\ Len(pne) = e
      /\ \A i \in 1..e : pne[i] = IF i <= k + n THEN pn[i] ELSE <<"(">>[i - (k + n)]
  <2>1. Len(<<"(">>) = 1
    OBVIOUS
  <2> QED BY <1>1, <1>2, <2>1, ConcatProperties
<1> HIDE DEF pne
<1>4. /\ w \in Seq(S) /\ Len(w) \in Nat /\ e <= Len(w) /\ e \in Nat
      /\ \A i \in 1..e : w[i] = pne[i]
  <2>1. /\ w \in Seq(S) /\ Len(w) = e + Len(parameters) /\ Len(parameters) \in Nat
        /\ \A i \in 1..(e + Len(parameters)) : w[i] = IF i <= e THEN pne[i] ELSE parameters[i - e]
    <3>1. /\ w \in Seq(S) /\ Len(w) = Len(pne) + Len(parameters)
          /\ \A i \in 1..(Len(pne) + Len(parameters)) :
               w[i] = IF i <= Len(pne) THEN pne[i] ELSE parameters[i - Len(pne)]
      <4>1. pne \in Seq(S)
        BY <1>3
      <4> QED BY <4>1, ConcatProperties
    <3>2. Len(pne) = e /\ Len(parameters) \in Nat
      BY <1>3, LenProperties
    <3> HIDE DEF e, w
    <3> QED BY <3>1, <3>2
  <2> QED BY <1>1, <2>1
<1> HIDE DEF w
<1>5. /\ e \in 1..Len(w) /\ w[e] = "("
      /\ \A i \in 1..k : w[i] = p[i]
      /\ \A i \in (k + 1)..(e - 1) : w[i] = name[i - k] /\ i - k \in 1..n
  <2>1. e \in 1..Len(w) /\ e \in 1..e
    BY <1>1, <1>4
  <2>2. w[e] = <<"(">>[1]
    BY <1>1, <1>3, <1>4, <2>1
  <2>3. ASSUME NEW i \in 1..k PROVE w[i] = p[i]
    <3>1. i \in 1..e /\ i <= k + n /\ i \in 1..(k + n) /\ i <= k
      BY <1>1
    <3> QED BY <1>2, <1>3, <1>4, <3>1
  <2>4. ASSUME NEW i \in (k + 1)..(e - 1) PROVE w[i] = name[i - k] /\ i - k \in 1..n
    <3>1. i \in 1..e /\ i <= k + n /\ i \in 1..(k + n) /\ ~(i <= k) /\ i - k \in 1..n
      BY <1>1
    <3> QED BY <1>2, <1>3, <1>4, <3>1
  <2> QED BY <2>1, <2>2, <2>3, <2>4
<1>6. \A i \in 1..(e - 1) : w[i] # "("
  <2> TAKE i \in 1..(e - 1)
  <2>1. i \in 1..k \/ i \in (k + 1)..(e - 1)
    BY <1>1
  <2> QED BY <1>1, <1>5, <2>1
<1>7. /\ k \in 0..(e - 1)
      /\ k # 0 => w[k] = Space
      /\ \A i \in (k + 1)..(e - 1) : w[i] # Space
  <2>1. k # 0 => p # <<>> /\ k \in 1..k
    BY <1>1, EmptySeq
  <2> QED BY <1>1, <1>5, <2>1
<1>8. processFuncName(w) = SubSeq(w, k + 1, e - 1)
  <2> HIDE DEF k, e
  <2> QED BY <1>4, <1>5, <1>6, <1>7, NameBetween
<1>9. SubSeq(w, k + 1, e - 1) = name
  <2> DEFINE u == SubSeq(w, k + 1, e - 1)
  <2>1. \A i \in (k + 1)..(e - 1) : w[i] \in S
    <3>1. \A i \in (k + 1)..(e - 1) : i \in 1..Len(w)
      BY <1>1, <1>4
    <3> QED BY <1>4, <3>1, ElementOfSeq
  <2>2. k + 1 \in Int /\ e - 1 \in Int
    BY <1>1
  <2>3. /\ u \in Seq(S)
        /\ Len(u) = IF k + 1 <= e - 1 THEN (e - 1) - (k + 1) + 1 ELSE 0
        /\ \A i \in 1..((e - 1) - (k + 1) + 1) : u[i] = w[k + 1 + i - 1]
    <3> HIDE DEF k, e
    <3> QED BY <2>1, <2>2, SubSeqProperties
  <2> HIDE DEF u
  <2>4. Len(u) = n
    BY <1>1, <2>3
  <2>5. ASSUME NEW i \in 1..n PROVE u[i] = name[i]
    <3>1. i \in 1..((e - 1) - (k + 1) + 1) /\ k + 1 + i - 1 = k + i /\ k + i \in (k + 1)..(e - 1)
          /\ (k + i) - k = i
      BY <1>1
    <3> QED BY <1>5, <2>3, <3>1
  <2>6. u = name
    BY <1>1, <2>3, <2>4, <2>5, SeqEqual
  <2> QED BY <2>6 DEF u
<1> QED BY <1>8, <1>9 DEF w, pne, pn

(* ... and without.                                                        *)
LEMMA FuncNameIs ==
  ASSUME NEW S, "(" \in S, Space \in S, NEW type \in Seq(S \ {"("}),
         NEW name \in Seq(S \ {Space, "("}), NEW parameters \in Seq(S)
  PROVE  /\ processFuncName(type \o <<Space>> \o name \o <<"(">> \o parameters) = name
         /\ processFuncName(name \o <<"(">> \o parameters) = name
<1>1. processFuncName(name \o <<"(">> \o parameters) = name
  <2>1. <<>> \in Seq(S \ {"("})
    OBVIOUS
  <2>2. processFuncName(<<>> \o name \o <<"(">> \o parameters) = name
    BY <2>1, FuncNameAfter
  <2>3. <<>> \o name = name
    BY ConcatEmptySeq
  <2> QED BY <2>2, <2>3
<1>2. processFuncName(type \o <<Space>> \o name \o <<"(">> \o parameters) = name
  <2> DEFINE p == type \o <<Space>>
  <2>1. <<Space>> \in Seq(S \ {"("}) /\ Len(<<Space>>) = 1 /\ <<Space>>[1] = Space
    <3>1. Space # "("
      BY DEF Space
    <3> QED BY <3>1
  <2>2. p \in Seq(S \ {"("}) /\ p[Len(p)] = Space
    <3>1. /\ p \in Seq(S \ {"("}) /\ Len(p) = Len(type) + 1
          /\ \A i \in 1..(Len(type) + 1) : p[i] = IF i <= Len(type) THEN type[i] ELSE <<Space>>[i - Len(type)]
      BY <2>1, ConcatProperties
    <3>2. Len(type) \in Nat
      BY LenProperties
    <3>3. Len(type) + 1 \in 1..(Len(type) + 1) /\ ~(Len(type) + 1 <= Len(type)) /\ (Len(type) + 1) - Len(type) = 1
      BY <3>2
    <3> QED BY <2>1, <3>1, <3>3
  <2> HIDE DEF p
  <2>3. processFuncName(p \o name \o <<"(">> \o parameters) = name
    BY <2>2, FuncNameAfter
  <2> QED BY <2>3 DEF p
<1> QED BY <1>1, <1>2

-----------------------------------------------------------------------------
(* Strings are made of the symbols.                                        *)
TypeOK == text \in Seq(Symbols)

(* The text stays a string of the symbols that strings are made of.        *)
THEOREM TypeCorrect == Spec => []TypeOK
<1>1. Init => TypeOK
  BY DEF Init, TypeOK
<1>2. TypeOK /\ [Next]_text => TypeOK'
  BY DEF TypeOK, Next, Type, Done
<1> QED BY <1>1, <1>2, PTL DEF Spec

NameSet == Symbols \cup {"(", Space}

(* What SubSeq returns.                                                    *)
LEMMA Part ==
  ASSUME NEW S, NEW s \in Seq(S), NEW m \in 1..(Len(s) + 1), NEW n \in 0..Len(s)
  PROVE  /\ SubSeq(s, m, n) \in Seq(S)
         /\ Len(SubSeq(s, m, n)) = IF m <= n THEN n - m + 1 ELSE 0
         /\ \A i \in 1..(n - m + 1) : SubSeq(s, m, n)[i] = s[m + i - 1]
<1>1. Len(s) \in Nat
  BY LenProperties
<1>2. \A i \in m..n : s[i] \in S
  <2>1. \A i \in m..n : i \in 1..Len(s)
    BY <1>1
  <2> QED BY <2>1, ElementOfSeq
<1> QED BY <1>1, <1>2, SubSeqProperties

(* From "<type> <name>(<parameters>" processFuncName takes the name,       *)
(* whatever the types of the parameters are, for names and parameters of   *)
(* any length (Util.h:298-322).                                            *)
THEOREM FuncNamesFound == Spec => []FuncNameFound
<1>1. TypeOK => FuncNameFound
  <2> SUFFICES ASSUME TypeOK, NEW k \in 0..Len(text)
               PROVE  LET name == Without(SubSeq(text, 1, k), {Space, "("})
                          parameters == SubSeq(text, k + 1, Len(text))
                          type == Without(parameters, {"("})
                      IN  /\ processFuncName(type \o <<Space>> \o name \o <<"(">> \o parameters) = name
                          /\ processFuncName(name \o <<"(">> \o parameters) = name
    BY DEF FuncNameFound
  <2> DEFINE name == Without(SubSeq(text, 1, k), {Space, "("})
             parameters == SubSeq(text, k + 1, Len(text))
             type == Without(parameters, {"("})
  <2>1. text \in Seq(NameSet) /\ Len(text) \in Nat /\ "(" \in NameSet /\ Space \in NameSet
    <3>1. Symbols \subseteq NameSet
      BY DEF NameSet
    <3>2. text \in Seq(NameSet)
      BY <3>1, SeqMonotonic DEF TypeOK
    <3>3. "(" \in NameSet /\ Space \in NameSet
      BY DEF NameSet, Space
    <3>4. Len(text) \in Nat
      BY <3>2, LenProperties
    <3> QED BY <3>2, <3>3, <3>4
  <2>2. SubSeq(text, 1, k) \in Seq(NameSet) /\ parameters \in Seq(NameSet)
    <3>1. 1 \in 1..(Len(text) + 1) /\ k + 1 \in 1..(Len(text) + 1) /\ Len(text) \in 0..Len(text)
      BY <2>1
    <3> QED BY <2>1, <3>1, Part
  <2>3. name \in Seq(NameSet \ {Space, "("}) /\ type \in Seq(NameSet \ {"("})
    BY <2>2, WithoutType
  <2> HIDE DEF name, type, parameters
  <2>4. /\ processFuncName(type \o <<Space>> \o name \o <<"(">> \o parameters) = name
        /\ processFuncName(name \o <<"(">> \o parameters) = name
    BY <2>1, <2>2, <2>3, FuncNameIs
  <2> QED BY <2>4 DEF name, type, parameters
<1> QED BY <1>1, TypeCorrect, PTL

-----------------------------------------------------------------------------
(* Numerals.                                                               *)

DigitSet == {"0", "1", "2", "3", "4", "5", "6", "7", "8", "9", "a", "b", "c", "d", "e", "f"}

(* Hexadecimal digits.                                                     *)
LEMMA DigitsDiffer ==
  /\ \A i \in 1..16 : Digits[i] \in DigitSet
  /\ \A i, j \in 1..16 : Digits[i] = Digits[j] => i = j
<1>1. \A i \in 1..16 : Digits[i] \in DigitSet
  BY DEF Digits, DigitSet
<1>2. \A i, j \in 1..16 : Digits[i] = Digits[j] => i = j
  BY DEF Digits
<1> QED BY <1>1, <1>2

(* A number is its last digit and what is left without it.                 *)
LEMMA LastDigit ==
  ASSUME NEW base \in {10, 16}, NEW k \in Nat
  PROVE  /\ k \div base \in Nat /\ k % base \in 0..(base - 1)
         /\ k = base * (k \div base) + (k % base)
         /\ k >= base => k \div base < k
<1>1. CASE base = 10
  BY <1>1
<1>2. CASE base = 16
  BY <1>2
<1> QED BY <1>1, <1>2

IsDigits(f, base, n) ==
  f = [k \in 0..n |-> IF k < base THEN <<Digits[k + 1]>>
                                 ELSE Append(f[k \div base], Digits[(k % base) + 1])]

LEMMA DigitsAt ==
  ASSUME NEW base \in {10, 16}, NEW n \in Nat, NEW f, IsDigits(f, base, n), NEW k \in 0..n
  PROVE  f[k] = IF k < base THEN <<Digits[k + 1]>>
                            ELSE Append(f[k \div base], Digits[(k % base) + 1])
<1> DEFINE g == [i \in 0..n |-> IF i < base THEN <<Digits[i + 1]>>
                                ELSE Append(f[i \div base], Digits[(i % base) + 1])]
<1>1. f = g
  BY Zenon DEF IsDigits
<1>2. g[k] = IF k < base THEN <<Digits[k + 1]>>
                         ELSE Append(f[k \div base], Digits[(k % base) + 1])
  OBVIOUS
<1> HIDE DEF g
<1> QED BY <1>1, <1>2

LEMMA DigitsAgree ==
  ASSUME NEW base \in {10, 16}, NEW n \in Nat, NEW m \in Nat, NEW f, NEW g,
         IsDigits(f, base, n), IsDigits(g, base, m)
  PROVE  \A k \in Nat : k <= n /\ k <= m => f[k] = g[k]
<1> DEFINE T == {k \in Nat : k <= n /\ k <= m /\ f[k] # g[k]}
<1>1. SUFFICES ASSUME T # {} PROVE FALSE
  OBVIOUS
<1>2. PICK k \in T : \A i \in T : k <= i
  <2>1. T \subseteq Nat
    OBVIOUS
  <2> HIDE DEF T
  <2> QED BY <1>1, <2>1, Least
<1>3. k \in 0..n /\ k \in 0..m /\ f[k] # g[k]
  OBVIOUS
<1> DEFINE q == k \div base
           r == Digits[(k % base) + 1]
<1>4. f[k] = IF k < base THEN <<Digits[k + 1]>> ELSE Append(f[q], r)
  BY <1>3, DigitsAt
<1>5. g[k] = IF k < base THEN <<Digits[k + 1]>> ELSE Append(g[q], r)
  BY <1>3, DigitsAt
<1>6. k >= base => q \in Nat /\ q < k
  BY LastDigit
<1> HIDE DEF q, r
<1>7. k >= base => f[q] = g[q]
  <2> SUFFICES ASSUME k >= base, f[q] # g[q] PROVE FALSE
    OBVIOUS
  <2>1. q \in T /\ q < k
    BY <1>3, <1>6
  <2>2. k <= q
    BY <1>2, <2>1
  <2> QED BY <2>1, <2>2
<1>8. k < base \/ k >= base
  OBVIOUS
<1> QED BY <1>3, <1>4, <1>5, <1>7, <1>8

LEMMA DigitsExist ==
  ASSUME NEW base \in {10, 16}
  PROVE  \A n \in Nat : \E f : IsDigits(f, base, n)
<1> DEFINE T == {n \in Nat : \E f : IsDigits(f, base, n)}
           e(f, k) == IF k < base THEN <<Digits[k + 1]>>
                                  ELSE Append(f[k \div base], Digits[(k % base) + 1])
<1>1. 0 \in T
  <2> DEFINE f == [k \in 0..0 |-> <<Digits[k + 1]>>]
  <2>1. f = [k \in 0..0 |-> e(f, k)]
    <3>1. \A k \in 0..0 : k < base
      OBVIOUS
    <3> QED BY <3>1
  <2>2. IsDigits(f, base, 0)
    BY <2>1, Zenon DEF IsDigits
  <2> QED BY <2>2
<1>2. ASSUME NEW n \in Nat, n \in T PROVE n + 1 \in T
  <2>1. PICK f : IsDigits(f, base, n)
    BY <1>2
  <2> DEFINE g == [k \in 0..(n + 1) |-> e(f, k)]
  <2>2. \A k \in 0..n : f[k] = e(f, k)
    BY <2>1, DigitsAt
  <2>3. \A k \in 0..n : g[k] = f[k]
    BY <2>2
  <2>4. \A k \in 0..(n + 1) : e(f, k) = e(g, k)
    <3> TAKE k \in 0..(n + 1)
    <3>1. k >= base => k \div base \in 0..n
      BY LastDigit
    <3>2. k >= base => g[k \div base] = f[k \div base]
      BY <2>3, <3>1
    <3>3. k < base \/ k >= base
      OBVIOUS
    <3> HIDE DEF g
    <3> QED BY <3>2, <3>3
  <2>5. g = [k \in 0..(n + 1) |-> e(g, k)]
    <3> DEFINE h == [k \in 0..(n + 1) |-> e(g, k)]
    <3>1. \A k \in 0..(n + 1) : g[k] = h[k]
      BY <2>4
    <3> QED BY <3>1
  <2>6. IsDigits(g, base, n + 1)
    BY <2>5, Zenon DEF IsDigits
  <2> QED BY <2>6
<1>3. Nat \subseteq T
  <2> HIDE DEF T
  <2> QED BY <1>1, <1>2, Induction
<1> QED BY <1>3

(* Any number of digits.                                                   *)
LEMMA NumeralIs ==
  ASSUME NEW base \in {10, 16}, NEW n \in Nat
  PROVE  Numeral(n, base) = IF n < base THEN <<Digits[n + 1]>>
                            ELSE Append(Numeral(n \div base, base), Digits[(n % base) + 1])
<1> DEFINE F(k) == CHOOSE f : IsDigits(f, base, k)
           g == [k \in Nat |-> F(k)[k]]
           e(f, k) == IF k < base THEN <<Digits[k + 1]>>
                                  ELSE Append(f[k \div base], Digits[(k % base) + 1])
           digits == CHOOSE f : f = [k \in Nat |-> e(f, k)]
<1>1. \A k \in Nat : IsDigits(F(k), base, k)
  BY DigitsExist, Zenon
<1> HIDE DEF F
<1>2. \A k \in Nat : g[k] = e(g, k)
  <2> TAKE k \in Nat
  <2>1. k \in 0..k
    OBVIOUS
  <2>2. F(k)[k] = e(F(k), k)
    BY <1>1, <2>1, DigitsAt
  <2> DEFINE q == k \div base
  <2>3. k >= base => q \in Nat /\ q < k
    BY LastDigit
  <2>4. k >= base => F(k)[q] = F(q)[q]
    <3> HIDE DEF q
    <3> QED BY <1>1, <2>3, DigitsAgree
  <2>5. k >= base => g[q] = F(k)[q]
    BY <2>3, <2>4
  <2>6. k < base \/ k >= base
    OBVIOUS
  <2>7. g[k] = F(k)[k]
    OBVIOUS
  <2> HIDE DEF g, q
  <2>8. e(g, k) = e(F(k), k)
    BY <2>5, <2>6 DEF q
  <2> QED BY <2>2, <2>7, <2>8
<1>3. g = [k \in Nat |-> e(g, k)]
  <2> DEFINE h == [k \in Nat |-> e(g, k)]
  <2>1. \A k \in Nat : g[k] = h[k]
    BY <1>2
  <2> QED BY <2>1
<1>4. digits = [k \in Nat |-> e(digits, k)]
  <2> HIDE DEF g
  <2> QED BY <1>3, Zenon
<1>5. \A k \in Nat : Numeral(k, base) = digits[k]
  BY Zenon DEF Numeral
<1>6. \A k \in Nat : digits[k] = e(digits, k)
  <2> DEFINE h == [k \in Nat |-> e(digits, k)]
  <2>1. \A k \in Nat : h[k] = e(digits, k)
    OBVIOUS
  <2> HIDE DEF digits, h
  <2> QED BY <1>4, <2>1 DEF h
<1> HIDE DEF digits
<1>7. n \div base \in Nat
  BY LastDigit
<1> QED BY <1>5, <1>6, <1>7

(* A numeral is a string of digits, and not empty.                         *)
LEMMA NumeralType ==
  ASSUME NEW base \in {10, 16}
  PROVE  \A n \in Nat : Numeral(n, base) \in Seq(DigitSet) /\ Numeral(n, base) # <<>>
<1> DEFINE T == {n \in Nat : ~(Numeral(n, base) \in Seq(DigitSet) /\ Numeral(n, base) # <<>>)}
<1>1. SUFFICES ASSUME T # {} PROVE FALSE
  OBVIOUS
<1>2. PICK n \in T : \A i \in T : n <= i
  <2>1. T \subseteq Nat
    OBVIOUS
  <2> HIDE DEF T
  <2> QED BY <1>1, <2>1, Least
<1>3. n \in Nat
  OBVIOUS
<1> DEFINE q == n \div base
           r == n % base
<1>4. Numeral(n, base) = IF n < base THEN <<Digits[n + 1]>> ELSE Append(Numeral(q, base), Digits[r + 1])
  BY <1>3, NumeralIs
<1>5. n < base \/ (n >= base /\ q \in Nat /\ q < n /\ r \in Nat /\ r < base)
  BY LastDigit, <1>3
<1> HIDE DEF q, r
<1>6. CASE n < base
  <2>1. n + 1 \in 1..16
    BY <1>3, <1>6
  <2>2. Digits[n + 1] \in DigitSet
    BY <2>1, DigitsDiffer
  <2>3. <<Digits[n + 1]>> \in Seq(DigitSet) /\ <<Digits[n + 1]>> # <<>>
    BY <2>2
  <2>4. Numeral(n, base) = <<Digits[n + 1]>>
    BY <1>4, <1>6
  <2> QED BY <2>3, <2>4
<1>7. CASE ~(n < base)
  <2>1. r + 1 \in 1..16
    BY <1>5, <1>7
  <2>2. Digits[r + 1] \in DigitSet
    BY <2>1, DigitsDiffer
  <2>3. Numeral(q, base) \in Seq(DigitSet)
    <3>1. q \notin T
      BY <1>2, <1>3, <1>5, <1>7
    <3> QED BY <1>5, <1>7, <3>1
  <2>4. Append(Numeral(q, base), Digits[r + 1]) \in Seq(DigitSet) \ {<<>>}
    BY <2>2, <2>3, AppendProperties
  <2> QED BY <1>4, <1>7, <2>4
<1> QED BY <1>6, <1>7

(* Different numbers have different numerals.                              *)
LEMMA NumeralsDiffer ==
  ASSUME NEW base \in {10, 16}
  PROVE  \A n, m \in Nat : Numeral(n, base) = Numeral(m, base) => n = m
<1> DEFINE T == {n \in Nat : \E m \in Nat : Numeral(n, base) = Numeral(m, base) /\ n # m}
<1>1. SUFFICES ASSUME T # {} PROVE FALSE
  OBVIOUS
<1>2. PICK n \in T : \A i \in T : n <= i
  <2>1. T \subseteq Nat
    OBVIOUS
  <2> HIDE DEF T
  <2> QED BY <1>1, <2>1, Least
<1>3. PICK m \in Nat : n \in Nat /\ Numeral(n, base) = Numeral(m, base) /\ n # m
  OBVIOUS
<1> DEFINE Rest(k) == Numeral(k \div base, base)
           Digit(k) == Digits[(k % base) + 1]
<1>4. \A k \in Nat : Numeral(k, base) = IF k < base THEN <<Digits[k + 1]>> ELSE Append(Rest(k), Digit(k))
  BY NumeralIs
<1>5. \A k \in Nat : Rest(k) \in Seq(DigitSet) /\ Rest(k) # <<>> /\ Digit(k) \in DigitSet
  <2> TAKE k \in Nat
  <2>1. k \div base \in Nat /\ (k % base) + 1 \in 1..16
    BY LastDigit
  <2> QED BY <2>1, NumeralType, DigitsDiffer
<1>6. \A k \in Nat : k < base => Digits[k + 1] \in DigitSet /\ k + 1 \in 1..16
  <2> TAKE k \in Nat
  <2>1. k < base => k + 1 \in 1..16
    OBVIOUS
  <2> QED BY <2>1, DigitsDiffer
<1>7. \A k \in Nat : IF k < base THEN Len(Numeral(k, base)) = 1 ELSE Len(Numeral(k, base)) # 1
  <2> TAKE k \in Nat
  <2>1. CASE k < base
    BY <1>4, <2>1
  <2>2. CASE ~(k < base)
    <3>1. Len(Numeral(k, base)) = Len(Rest(k)) + 1
      <4>1. Numeral(k, base) = Append(Rest(k), Digit(k))
        BY <1>4, <2>2
      <4>2. Rest(k) \in Seq(DigitSet) /\ Digit(k) \in DigitSet
        BY <1>5
      <4> HIDE DEF Rest, Digit
      <4> QED BY <4>1, <4>2, AppendProperties
    <3>2. Len(Rest(k)) \in Nat \ {0}
      <4> HIDE DEF Rest
      <4> QED BY <1>5, EmptySeq
    <3> QED BY <2>2, <3>1, <3>2
  <2> QED BY <2>1, <2>2
<1>8. n < base <=> m < base
  BY <1>3, <1>7
<1>9. CASE n < base
  <2>1. <<Digits[n + 1]>> = <<Digits[m + 1]>>
    BY <1>3, <1>4, <1>8, <1>9
  <2>2. Digits[n + 1] = Digits[m + 1]
    BY <2>1
  <2>3. n + 1 = m + 1
    BY <1>3, <1>6, <1>8, <1>9, <2>2, DigitsDiffer
  <2> QED BY <1>3, <2>3
<1>10. CASE ~(n < base)
  <2>1. Append(Rest(n), Digit(n)) = Append(Rest(m), Digit(m))
    BY <1>3, <1>4, <1>8, <1>10
  <2>2. Rest(n) = Rest(m) /\ Digit(n) = Digit(m)
    <3>1. /\ Rest(n) \in Seq(DigitSet) /\ Digit(n) \in DigitSet
          /\ Rest(m) \in Seq(DigitSet) /\ Digit(m) \in DigitSet
      BY <1>3, <1>5
    <3> HIDE DEF Rest, Digit
    <3> QED BY <2>1, <3>1, AppendInjective
  <2>3. /\ n \div base \in Nat /\ m \div base \in Nat /\ n \div base < n
        /\ n % base \in 0..(base - 1) /\ m % base \in 0..(base - 1)
        /\ n = base * (n \div base) + (n % base) /\ m = base * (m \div base) + (m % base)
    BY <1>3, <1>10, LastDigit
  <2> DEFINE q == n \div base
             p == m \div base
             r == n % base
             u == m % base
  <2>4. q = p
    <3>1. q \notin T
      <4> HIDE DEF T
      <4> QED BY <1>2, <1>3, <2>3
    <3> QED BY <2>2, <2>3, <3>1
  <2>5. r = u
    <3>1. r + 1 \in 1..16 /\ u + 1 \in 1..16
      BY <2>3
    <3>2. r + 1 = u + 1
      BY <2>2, <3>1, DigitsDiffer
    <3> QED BY <2>3, <3>2
  <2> QED BY <1>3, <2>3, <2>4, <2>5
<1> QED BY <1>9, <1>10

-----------------------------------------------------------------------------
(* What a C string has: all of it or what precedes its first nul.          *)
LEMMA UpToNulIs ==
  ASSUME NEW S, NEW s \in Seq(S)
  PROVE  \E e \in 0..Len(s) : /\ UpToNul(s) = SubSeq(s, 1, e)
                              /\ \A i \in 1..e : s[i] # Nul
                              /\ e = Len(s) \/ s[e + 1] = Nul
<1> DEFINE t == Append(s, Nul)
           T == {i \in 1..Len(t) : t[i] = Nul}
           SN == S \cup {Nul}
<1>1. /\ t \in Seq(SN) /\ Len(t) = Len(s) + 1 /\ Len(s) \in Nat
      /\ \A i \in 1..Len(s) : t[i] = s[i]
      /\ t[Len(s) + 1] = Nul
  <2>1. s \in Seq(SN) /\ Nul \in SN
    BY SeqMonotonic
  <2> HIDE DEF SN
  <2> QED BY <2>1, AppendProperties, LenProperties
<1> HIDE DEF t
<1>2. T \subseteq Nat /\ T # {}
  BY <1>1
<1>3. PICK f \in T : \A m \in T : f <= m
  <2> HIDE DEF T
  <2> QED BY <1>2, Least
<1>4. Min(T) = f
  <2> HIDE DEF T
  <2> QED BY <1>2, <1>3, MinIs
<1>5. UpToNul(s) = SubSeq(s, 1, (IF T # {} THEN Min(T) ELSE 0) - 1)
  BY DEF UpToNul, SelectInSeq, t
<1>6. UpToNul(s) = SubSeq(s, 1, f - 1)
  <2> HIDE DEF T
  <2> QED BY <1>2, <1>4, <1>5
<1>7. f - 1 \in 0..Len(s) /\ t[f] = Nul
  BY <1>1
<1>8. ASSUME NEW i \in 1..(f - 1) PROVE s[i] # Nul
  <2>1. i \in 1..Len(s) /\ i \in 1..Len(t) /\ ~(f <= i)
    BY <1>1, <1>7
  <2>2. t[i] # Nul
    BY <1>3, <2>1
  <2> QED BY <1>1, <2>1, <2>2
<1>9. f - 1 = Len(s) \/ s[(f - 1) + 1] = Nul
  <2>1. f \in 1..(Len(s) + 1) /\ (f - 1) + 1 = f
    BY <1>1, <1>7
  <2>2. f = Len(s) + 1 \/ f \in 1..Len(s)
    BY <1>1, <2>1
  <2> QED BY <1>1, <1>7, <2>1, <2>2
<1> QED BY <1>6, <1>7, <1>8, <1>9

LEMMA UpToNulType ==
  ASSUME NEW S, NEW s \in Seq(S)
  PROVE  UpToNul(s) \in Seq(S \ {Nul}) /\ UpToNul(s) \in Seq(S)
<1>1. PICK e \in 0..Len(s) : UpToNul(s) = SubSeq(s, 1, e) /\ \A i \in 1..e : s[i] # Nul
  BY UpToNulIs
<1>2. Len(s) \in Nat
  BY LenProperties
<1>3. \A i \in 1..e : s[i] \in S \ {Nul}
  <2> TAKE i \in 1..e
  <2>1. i \in 1..Len(s)
    BY <1>2
  <2> QED BY <1>1, <2>1, ElementOfSeq
<1>4. SubSeq(s, 1, e) \in Seq(S \ {Nul})
  <2>1. 1 \in Int /\ e \in Int
    BY <1>2
  <2> QED BY <1>3, <2>1, SubSeqProperties
<1>5. S \ {Nul} \subseteq S
  OBVIOUS
<1> QED BY <1>1, <1>4, <1>5, SeqMonotonic

-----------------------------------------------------------------------------
(* The last occurrence of a symbol, 0 if there is none.                    *)
IsLast(s, c, k) ==
  k \in 0..Len(s) /\ (k # 0 => s[k] = c) /\ \A i \in (k + 1)..Len(s) : s[i] # c

(* There is one and strrchr finds it, ...                                  *)
LEMMA LastFound ==
  ASSUME NEW S, NEW s \in Seq(S), NEW c
  PROVE  LET T == {i \in 1..Len(s) : s[i] = c} IN IsLast(s, c, IF T # {} THEN Max(T) ELSE 0)
<1> DEFINE T == {i \in 1..Len(s) : s[i] = c}
<1>1. Len(s) \in Nat
  BY LenProperties
<1>2. CASE T = {}
  <2>1. IsLast(s, c, 0)
    BY <1>1, <1>2 DEF IsLast
  <2> QED BY <1>2, <2>1
<1>3. CASE T # {}
  <2>1. T \subseteq 1..Len(s) /\ T \subseteq Nat
    BY <1>1
  <2>2. PICK k \in T : \A m \in T : m <= k
    <3> HIDE DEF T
    <3> QED BY <1>1, <1>3, <2>1, Highest
  <2>3. Max(T) = k
    <3> HIDE DEF T
    <3> QED BY <2>1, <2>2, MaxIs
  <2>4. \A i \in (k + 1)..Len(s) : s[i] # c
    <3> SUFFICES ASSUME NEW i \in (k + 1)..Len(s), s[i] = c PROVE FALSE
      OBVIOUS
    <3>1. i \in T /\ ~(i <= k)
      BY <1>1, <2>1
    <3> QED BY <2>2, <3>1
  <2>5. IsLast(s, c, k)
    BY <1>1, <2>4 DEF IsLast
  <2> QED BY <1>3, <2>3, <2>5
<1> QED BY <1>2, <1>3

(* ... and there is only one.                                              *)
LEMMA LastUnique ==
  ASSUME NEW S, NEW s \in Seq(S), NEW c, NEW k, NEW m, IsLast(s, c, k), IsLast(s, c, m)
  PROVE  k = m
<1>1. Len(s) \in Nat
  BY LenProperties
<1>2. k \in Nat /\ m \in Nat /\ k <= Len(s) /\ m <= Len(s)
  BY <1>1 DEF IsLast
<1>3. ~(k < m)
  <2> SUFFICES ASSUME k < m PROVE FALSE
    OBVIOUS
  <2>1. m \in (k + 1)..Len(s) /\ m # 0
    BY <1>1, <1>2
  <2> QED BY <2>1 DEF IsLast
<1>4. ~(m < k)
  <2> SUFFICES ASSUME m < k PROVE FALSE
    OBVIOUS
  <2>1. k \in (m + 1)..Len(s) /\ k # 0
    BY <1>1, <1>2
  <2> QED BY <2>1 DEF IsLast
<1> QED BY <1>2, <1>3, <1>4

LEMMA DotIs ==
  ASSUME NEW S, NEW s \in Seq(S)
  PROVE  IsLast(s, ".", findExtensionDot(s))
BY LastFound DEF findExtensionDot, SelectLastInSeq

LEMMA DirectoryIs ==
  ASSUME NEW S, NEW s \in Seq(S)
  PROVE  \E k : IsLast(s, "/", k) /\ Directory(s) = SubSeq(s, 1, k)
BY LastFound DEF Directory, SelectLastInSeq

Lacks(s, c) == \A i \in 1..Len(s) : s[i] # c

(* A symbol that is in neither string is not in both together.             *)
LEMMA LacksConcat ==
  ASSUME NEW S, NEW a \in Seq(S), NEW b \in Seq(S), NEW c, Lacks(a, c), Lacks(b, c)
  PROVE  Lacks(a \o b, c)
<1>1. /\ Len(a \o b) = Len(a) + Len(b) /\ Len(a) \in Nat /\ Len(b) \in Nat
      /\ \A i \in 1..(Len(a) + Len(b)) : (a \o b)[i] = IF i <= Len(a) THEN a[i] ELSE b[i - Len(a)]
  BY ConcatProperties, LenProperties
<1> DEFINE ab == a \o b
<1> HIDE DEF ab
<1>2. ASSUME NEW i \in 1..Len(ab) PROVE ab[i] # c
  <2>1. i \in 1..(Len(a) + Len(b))
    BY <1>1 DEF ab
  <2>2. CASE i <= Len(a)
    <3>1. i \in 1..Len(a) /\ ab[i] = a[i]
      BY <1>1, <2>1, <2>2 DEF ab
    <3> QED BY <3>1 DEF Lacks
  <2>3. CASE ~(i <= Len(a))
    <3>1. i - Len(a) \in 1..Len(b) /\ ab[i] = b[i - Len(a)]
      BY <1>1, <2>1, <2>3 DEF ab
    <3> QED BY <3>1 DEF Lacks
  <2> QED BY <2>2, <2>3
<1> QED BY <1>2 DEF Lacks, ab

LEMMA LastBefore ==
  ASSUME NEW S, NEW a \in Seq(S), NEW b \in Seq(S), NEW c, NEW k, IsLast(a, c, k), Lacks(b, c)
  PROVE  IsLast(a \o b, c, k)
<1>1. /\ Len(a \o b) = Len(a) + Len(b) /\ Len(a) \in Nat /\ Len(b) \in Nat
      /\ \A i \in 1..(Len(a) + Len(b)) : (a \o b)[i] = IF i <= Len(a) THEN a[i] ELSE b[i - Len(a)]
  BY ConcatProperties, LenProperties
<1> DEFINE ab == a \o b
<1> HIDE DEF ab
<1>2. k \in 0..Len(a) /\ (k # 0 => a[k] = c) /\ \A i \in (k + 1)..Len(a) : a[i] # c
  BY DEF IsLast
<1>3. k \in 0..Len(ab) /\ (k # 0 => ab[k] = c)
  <2>1. k \in 0..Len(ab)
    BY <1>1, <1>2 DEF ab
  <2>2. k # 0 => k \in 1..(Len(a) + Len(b)) /\ k <= Len(a)
    BY <1>1, <1>2
  <2> QED BY <1>1, <1>2, <2>1, <2>2 DEF ab
<1>4. ASSUME NEW i \in (k + 1)..Len(ab) PROVE ab[i] # c
  <2>1. i \in 1..(Len(a) + Len(b)) /\ i > k
    BY <1>1, <1>2 DEF ab
  <2>2. CASE i <= Len(a)
    <3>1. i \in (k + 1)..Len(a) /\ ab[i] = a[i]
      BY <1>1, <1>2, <2>1, <2>2 DEF ab
    <3> QED BY <1>2, <3>1
  <2>3. CASE ~(i <= Len(a))
    <3>1. i - Len(a) \in 1..Len(b) /\ ab[i] = b[i - Len(a)]
      BY <1>1, <2>1, <2>3 DEF ab
    <3> QED BY <3>1 DEF Lacks
  <2> QED BY <2>2, <2>3
<1> QED BY <1>3, <1>4 DEF IsLast, ab

(* A symbol between two strings, the second of which lacks it.             *)
LEMMA LastBetween ==
  ASSUME NEW S, NEW a \in Seq(S), NEW b \in Seq(S), NEW c \in S, Lacks(b, c)
  PROVE  /\ IsLast(a \o (<<c>> \o b), c, Len(a) + 1)
         /\ a \o (<<c>> \o b) \in Seq(S)
         /\ Len(a \o (<<c>> \o b)) = Len(a) + 1 + Len(b)
         /\ SubSeq(a \o (<<c>> \o b), 1, Len(a)) = a
         /\ SubSeq(a \o (<<c>> \o b), Len(a) + 1, Len(a) + 1 + Len(b)) = <<c>> \o b
<1> DEFINE cb == <<c>> \o b
           s == a \o cb
<1>1. /\ cb \in Seq(S) /\ Len(cb) = 1 + Len(b) /\ cb[1] = c
      /\ \A i \in 2..(1 + Len(b)) : cb[i] = b[i - 1]
      /\ Len(a) \in Nat /\ Len(b) \in Nat
  <2>1. <<c>> \in Seq(S) /\ Len(<<c>>) = 1 /\ <<c>>[1] = c
    OBVIOUS
  <2>2. /\ cb \in Seq(S) /\ Len(cb) = 1 + Len(b)
        /\ \A i \in 1..(1 + Len(b)) : cb[i] = IF i <= 1 THEN <<c>>[i] ELSE b[i - 1]
    BY <2>1, ConcatProperties
  <2>3. Len(a) \in Nat /\ Len(b) \in Nat
    BY LenProperties
  <2> HIDE DEF cb
  <2>4. 1 \in 1..(1 + Len(b))
    BY <2>3
  <2>5. cb[1] = c
    BY <2>1, <2>2, <2>4
  <2>6. \A i \in 2..(1 + Len(b)) : cb[i] = b[i - 1]
    <3> TAKE i \in 2..(1 + Len(b))
    <3>1. i \in 1..(1 + Len(b)) /\ ~(i <= 1)
      BY <2>3
    <3> QED BY <2>2, <3>1
  <2> QED BY <2>2, <2>3, <2>5, <2>6
<1> HIDE DEF cb
<1>2. /\ s \in Seq(S) /\ Len(s) = Len(a) + 1 + Len(b)
      /\ \A i \in 1..Len(a) : s[i] = a[i]
      /\ \A i \in 1..(1 + Len(b)) : s[Len(a) + i] = cb[i]
  <2>1. /\ s \in Seq(S) /\ Len(s) = Len(a) + Len(cb)
        /\ \A i \in 1..(Len(a) + Len(cb)) : s[i] = IF i <= Len(a) THEN a[i] ELSE cb[i - Len(a)]
    BY <1>1, ConcatProperties
  <2> HIDE DEF s
  <2>2. ASSUME NEW i \in 1..Len(a) PROVE s[i] = a[i]
    <3>1. i \in 1..(Len(a) + Len(cb)) /\ i <= Len(a)
      BY <1>1
    <3> QED BY <2>1, <3>1
  <2>3. ASSUME NEW i \in 1..(1 + Len(b)) PROVE s[Len(a) + i] = cb[i]
    <3>1. /\ Len(a) + i \in 1..(Len(a) + Len(cb)) /\ ~(Len(a) + i <= Len(a))
          /\ (Len(a) + i) - Len(a) = i
      BY <1>1
    <3> QED BY <2>1, <3>1
  <2> QED BY <1>1, <2>1, <2>2, <2>3
<1> HIDE DEF s
<1>3. IsLast(s, c, Len(a) + 1)
  <2>1. s[Len(a) + 1] = c
    <3>1. 1 \in 1..(1 + Len(b))
      BY <1>1
    <3> QED BY <1>1, <1>2, <3>1
  <2>2. ASSUME NEW i \in (Len(a) + 1 + 1)..Len(s) PROVE s[i] # c
    <3> DEFINE j == i - Len(a)
    <3>1. j \in 1..(1 + Len(b)) /\ j \in 2..(1 + Len(b)) /\ Len(a) + j = i /\ j - 1 \in 1..Len(b)
      BY <1>1, <1>2
    <3> HIDE DEF j
    <3>2. s[i] = b[j - 1]
      BY <1>1, <1>2, <3>1
    <3> QED BY <3>1, <3>2 DEF Lacks
  <2>3. Len(a) + 1 \in 0..Len(s)
    BY <1>1, <1>2
  <2> QED BY <2>1, <2>2, <2>3 DEF IsLast
<1>4. SubSeq(s, 1, Len(a)) = a
  <2>1. /\ SubSeq(s, 1, Len(a)) \in Seq(S)
        /\ Len(SubSeq(s, 1, Len(a))) = IF 1 <= Len(a) THEN Len(a) - 1 + 1 ELSE 0
        /\ \A i \in 1..(Len(a) - 1 + 1) : SubSeq(s, 1, Len(a))[i] = s[1 + i - 1]
    <3>1. 1 \in 1..(Len(s) + 1) /\ Len(a) \in 0..Len(s)
      BY <1>1, <1>2
    <3> QED BY <1>2, <3>1, Part
  <2> DEFINE u == SubSeq(s, 1, Len(a))
  <2> HIDE DEF u
  <2>2. Len(u) = Len(a) /\ u \in Seq(S)
    BY <1>1, <2>1 DEF u
  <2>3. ASSUME NEW i \in 1..Len(a) PROVE u[i] = a[i]
    <3>1. i \in 1..(Len(a) - 1 + 1) /\ 1 + i - 1 = i
      BY <1>1
    <3> QED BY <1>2, <2>1, <3>1 DEF u
  <2>4. u = a
    BY <2>2, <2>3, SeqEqual
  <2> QED BY <2>4 DEF u
<1>5. SubSeq(s, Len(a) + 1, Len(a) + 1 + Len(b)) = cb
  <2> DEFINE m == Len(a) + 1
             n == Len(a) + 1 + Len(b)
             u == SubSeq(s, m, n)
  <2>1. /\ u \in Seq(S) /\ Len(u) = IF m <= n THEN n - m + 1 ELSE 0
        /\ \A i \in 1..(n - m + 1) : u[i] = s[m + i - 1]
    <3>1. m \in 1..(Len(s) + 1) /\ n \in 0..Len(s)
      BY <1>1, <1>2
    <3> HIDE DEF m, n
    <3> QED BY <1>2, <3>1, Part
  <2> HIDE DEF u
  <2>2. Len(u) = Len(cb)
    BY <1>1, <2>1
  <2>3. ASSUME NEW i \in 1..Len(u) PROVE u[i] = cb[i]
    <3>1. i \in 1..(n - m + 1) /\ m + i - 1 = Len(a) + i /\ i \in 1..(1 + Len(b))
      BY <1>1, <2>2
    <3> QED BY <1>2, <2>1, <3>1
  <2>4. u = cb
    BY <1>1, <2>1, <2>2, <2>3, SeqEqual
  <2> QED BY <2>4 DEF u
<1> QED BY <1>2, <1>3, <1>4, <1>5 DEF s, cb

(* The name is what is split off before the dot, the dot and the extension,*)
(* or it has no dot.                                                       *)
LEMMA SplitName ==
  ASSUME NEW S, NEW name \in Seq(S), "." \in S
  PROVE  LET split == splitFileName(name)
         IN  /\ split.noExt \in Seq(S) /\ split.ext \in Seq(S) /\ Lacks(split.ext, ".")
             /\ \/ split.noExt = name /\ split.ext = <<>> /\ Lacks(name, ".")
                \/ name = split.noExt \o (<<".">> \o split.ext)
<1> DEFINE d == findExtensionDot(name)
           a == SubSeq(name, 1, d - 1)
           b == SubSeq(name, d + 1, Len(name))
<1>1. Len(name) \in Nat /\ IsLast(name, ".", d)
  BY LenProperties, DotIs
<1>2. CASE d = 0
  <2>1. splitFileName(name) = [noExt |-> name, ext |-> <<>>]
    BY <1>2 DEF splitFileName
  <2>2. Lacks(name, ".")
    BY <1>1, <1>2 DEF IsLast, Lacks
  <2>3. <<>> \in Seq(S) /\ Lacks(<<>>, ".")
    BY EmptySeq DEF Lacks
  <2> QED BY <2>1, <2>2, <2>3
<1>3. CASE d # 0
  <2>1. splitFileName(name) = [noExt |-> a, ext |-> b]
    BY <1>3 DEF splitFileName
  <2> HIDE DEF d
  <2>2. d \in 1..Len(name) /\ name[d] = "." /\ \A i \in (d + 1)..Len(name) : name[i] # "."
    BY <1>1, <1>3 DEF IsLast
  <2>3. a \in Seq(S) /\ Len(a) = d - 1 /\ \A i \in 1..(d - 1) : a[i] = name[i]
    <3>1. 1 \in 1..(Len(name) + 1) /\ d - 1 \in 0..Len(name)
      BY <1>1, <2>2
    <3>2. /\ a \in Seq(S) /\ Len(a) = (IF 1 <= d - 1 THEN (d - 1) - 1 + 1 ELSE 0)
          /\ \A i \in 1..((d - 1) - 1 + 1) : a[i] = name[1 + i - 1]
      BY <3>1, Part
    <3> HIDE DEF a
    <3>3. \A i \in 1..(d - 1) : i \in 1..((d - 1) - 1 + 1) /\ 1 + i - 1 = i
      BY <2>2
    <3> QED BY <1>1, <2>2, <3>2, <3>3
  <2>4. b \in Seq(S) /\ Len(b) = Len(name) - d /\ \A i \in 1..(Len(name) - d) : b[i] = name[d + i]
    <3>1. d + 1 \in 1..(Len(name) + 1) /\ Len(name) \in 0..Len(name)
      BY <1>1, <2>2
    <3>2. /\ b \in Seq(S) /\ Len(b) = (IF d + 1 <= Len(name) THEN Len(name) - (d + 1) + 1 ELSE 0)
          /\ \A i \in 1..(Len(name) - (d + 1) + 1) : b[i] = name[d + 1 + i - 1]
      BY <3>1, Part
    <3> HIDE DEF b
    <3>3. \A i \in 1..(Len(name) - d) : i \in 1..(Len(name) - (d + 1) + 1) /\ d + 1 + i - 1 = d + i
      BY <1>1, <2>2
    <3> QED BY <1>1, <2>2, <3>2, <3>3
  <2> HIDE DEF a, b
  <2>5. Lacks(b, ".")
    <3> SUFFICES ASSUME NEW i \in 1..Len(b) PROVE b[i] # "."
      BY DEF Lacks
    <3>1. i \in 1..(Len(name) - d) /\ d + i \in (d + 1)..Len(name)
      BY <1>1, <2>2, <2>4
    <3> QED BY <2>2, <2>4, <3>1
  <2>6. name = a \o (<<".">> \o b)
    <3> DEFINE cb == <<".">> \o b
               s == a \o cb
    <3>1. <<".">> \in Seq(S) /\ Len(<<".">>) = 1 /\ <<".">>[1] = "."
      OBVIOUS
    <3>2. /\ cb \in Seq(S) /\ Len(cb) = 1 + Len(b)
          /\ \A i \in 1..(1 + Len(b)) : cb[i] = IF i <= 1 THEN <<".">>[i] ELSE b[i - 1]
      BY <2>4, <3>1, ConcatProperties
    <3> HIDE DEF cb
    <3>3. /\ s \in Seq(S) /\ Len(s) = Len(a) + Len(cb)
          /\ \A i \in 1..(Len(a) + Len(cb)) : s[i] = IF i <= Len(a) THEN a[i] ELSE cb[i - Len(a)]
      BY <2>3, <3>2, ConcatProperties
    <3> HIDE DEF s
    <3>4. Len(s) = Len(name)
      BY <1>1, <2>2, <2>3, <2>4, <3>2, <3>3
    <3>5. ASSUME NEW i \in 1..Len(name) PROVE s[i] = name[i]
      <4>0. i \in 1..(Len(a) + Len(cb))
        BY <3>3, <3>4
      <4>1. CASE i < d
        <5>1. i <= Len(a) /\ i \in 1..(d - 1)
          BY <2>2, <2>3, <4>1
        <5> QED BY <2>3, <3>3, <4>0, <5>1
      <4>2. CASE i = d
        <5>1. ~(i <= Len(a)) /\ i - Len(a) = 1 /\ 1 \in 1..(1 + Len(b))
          BY <1>1, <2>2, <2>3, <2>4, <4>2
        <5> QED BY <2>2, <3>1, <3>2, <3>3, <4>0, <4>2, <5>1
      <4>3. CASE i > d
        <5> DEFINE j == i - d
        <5>1. ~(i <= Len(a)) /\ i - Len(a) = j + 1 /\ j + 1 \in 1..(1 + Len(b)) /\ ~(j + 1 <= 1)
              /\ (j + 1) - 1 = j /\ j \in 1..(Len(name) - d) /\ d + j = i
          BY <1>1, <2>2, <2>3, <2>4, <4>3
        <5> HIDE DEF j
        <5> QED BY <2>4, <3>2, <3>3, <4>0, <5>1
      <4> QED BY <4>1, <4>2, <4>3, <2>2
    <3>6. name = s
      BY <3>3, <3>4, <3>5, SeqEqual
    <3> QED BY <3>6 DEF s, cb
  <2>7. /\ splitFileName(name).noExt = a /\ splitFileName(name).ext = b
    BY <2>1
  <2> QED BY <2>3, <2>4, <2>5, <2>6, <2>7
<1> QED BY <1>2, <1>3

(* The directory ends with the last slash.                                 *)
LEMMA DirectoryBefore ==
  ASSUME NEW S, NEW a \in Seq(S), NEW b \in Seq(S), Lacks(b, "/")
  PROVE  Directory(a \o b) = Directory(a)
<1>1. a \o b \in Seq(S) /\ Len(a \o b) = Len(a) + Len(b) /\ Len(a) \in Nat /\ Len(b) \in Nat
      /\ \A i \in 1..(Len(a) + Len(b)) : (a \o b)[i] = IF i <= Len(a) THEN a[i] ELSE b[i - Len(a)]
  BY ConcatProperties, LenProperties
<1>2. PICK k : IsLast(a, "/", k) /\ Directory(a) = SubSeq(a, 1, k)
  BY DirectoryIs
<1>3. PICK m : IsLast(a \o b, "/", m) /\ Directory(a \o b) = SubSeq(a \o b, 1, m)
  BY <1>1, DirectoryIs
<1>4. m = k
  <2>1. IsLast(a \o b, "/", k)
    BY <1>2, LastBefore
  <2> QED BY <1>1, <1>3, <2>1, LastUnique
<1>5. k \in 0..Len(a)
  BY <1>2 DEF IsLast
<1> DEFINE u == SubSeq(a \o b, 1, k)
           v == SubSeq(a, 1, k)
<1>6. /\ u \in Seq(S) /\ Len(u) = (IF 1 <= k THEN k - 1 + 1 ELSE 0)
      /\ \A i \in 1..(k - 1 + 1) : u[i] = (a \o b)[1 + i - 1]
  <2>1. 1 \in 1..(Len(a \o b) + 1) /\ k \in 0..Len(a \o b)
    BY <1>1, <1>5
  <2> QED BY <1>1, <2>1, Part
<1>7. /\ v \in Seq(S) /\ Len(v) = (IF 1 <= k THEN k - 1 + 1 ELSE 0)
      /\ \A i \in 1..(k - 1 + 1) : v[i] = a[1 + i - 1]
  <2>1. 1 \in 1..(Len(a) + 1) /\ k \in 0..Len(a)
    BY <1>1, <1>5
  <2> QED BY <2>1, Part
<1> HIDE DEF u, v
<1>8. ASSUME NEW i \in 1..Len(u) PROVE u[i] = v[i]
  <2>1. i \in 1..(k - 1 + 1) /\ 1 + i - 1 = i /\ i \in 1..(Len(a) + Len(b)) /\ i <= Len(a)
    BY <1>1, <1>5, <1>6
  <2> QED BY <1>1, <1>6, <1>7, <2>1
<1>9. u = v
  BY <1>6, <1>7, <1>8, SeqEqual
<1> QED BY <1>2, <1>3, <1>4, <1>9 DEF u, v

(* The kind of a file depends on what follows the last dot.                *)
LEMMA CsvIs ==
  ASSUME NEW S, "." \in S, NEW a \in Seq(S), NEW b \in Seq(S), Lacks(b, ".")
  PROVE  isCsv(a \o (<<".">> \o b)) = (<<".">> \o b = <<".", "csv">>)
<1> DEFINE s == a \o (<<".">> \o b)
<1>1. /\ IsLast(s, ".", Len(a) + 1) /\ s \in Seq(S) /\ Len(s) = Len(a) + 1 + Len(b)
      /\ SubSeq(s, Len(a) + 1, Len(a) + 1 + Len(b)) = <<".">> \o b
  BY LastBetween
<1> HIDE DEF s
<1>2. findExtensionDot(s) = Len(a) + 1
  <2>1. IsLast(s, ".", findExtensionDot(s))
    BY <1>1, DotIs
  <2> QED BY <1>1, <2>1, LastUnique
<1>3. Len(a) + 1 # 0
  BY LenProperties
<1> QED BY <1>1, <1>2, <1>3 DEF isCsv, s

LEMMA NoDotNotCsv ==
  ASSUME NEW S, NEW s \in Seq(S), Lacks(s, ".")
  PROVE  isCsv(s) = FALSE
<1>1. findExtensionDot(s) = 0
  <2>1. IsLast(s, ".", findExtensionDot(s))
    BY DotIs
  <2>2. IsLast(s, ".", 0)
    BY LenProperties DEF IsLast, Lacks
  <2> QED BY <2>1, <2>2, LastUnique
<1> QED BY <1>1 DEF isCsv

(* A numeral has neither dot nor slash.                                    *)
LEMMA NumeralLacks ==
  ASSUME NEW i \in Nat
  PROVE  /\ Lacks(Numeral(i, 10), ".") /\ Lacks(Numeral(i, 10), "/")
         /\ Numeral(i, 10) # <<>> /\ Numeral(i, 10) \in Seq(DigitSet)
         /\ <<".">> \o Numeral(i, 10) # <<".", "csv">>
<1> DEFINE n == Numeral(i, 10)
<1>1. n \in Seq(DigitSet) /\ n # <<>>
  BY NumeralType
<1> HIDE DEF n
<1>2. ASSUME NEW k \in 1..Len(n) PROVE n[k] \notin {".", "/", "csv"}
  <2>1. n[k] \in DigitSet
    BY <1>1, ElementOfSeq
  <2> QED BY <2>1 DEF DigitSet
<1>3. ASSUME <<".">> \o n = <<".", "csv">> PROVE FALSE
  <2> DEFINE S == DigitSet \cup {"."}
             dn == <<".">> \o n
  <2>1. <<".">> \in Seq(S) /\ n \in Seq(S) /\ Len(<<".">>) = 1
    BY <1>1, SeqMonotonic
  <2>2. dn[1 + 1] = n[1] /\ 1 \in 1..Len(n)
    <3>1. \A j \in 1..(1 + Len(n)) : dn[j] = IF j <= 1 THEN <<".">>[j] ELSE n[j - 1]
      BY <2>1, ConcatProperties
    <3>2. Len(n) \in Nat \ {0}
      BY <1>1, EmptySeq
    <3>3. 2 \in 1..(1 + Len(n)) /\ ~(2 <= 1)
      BY <3>2
    <3> HIDE DEF dn
    <3> QED BY <3>1, <3>2, <3>3
  <2>3. <<".", "csv">>[1 + 1] = "csv"
    OBVIOUS
  <2>4. dn[1 + 1] = "csv"
    BY <1>3, <2>3
  <2> HIDE DEF dn
  <2> QED BY <1>2, <2>2, <2>4
<1> QED BY <1>1, <1>2, <1>3 DEF Lacks, n

(* What is put together, without the empty parts.                          *)
LEMMA BuiltName ==
  ASSUME NEW S, "." \in S, DigitSet \subseteq S, NEW name \in Seq(S), NEW i \in Nat
  PROVE  LET noExt == splitFileName(name).noExt
             ext == splitFileName(name).ext
             number == <<".">> \o Numeral(i, 10)
             end == <<".">> \o ext
         IN  /\ number \in Seq(S) /\ end \in Seq(S)
             /\ buildFileName(name, 0) = IF ext = <<>> THEN noExt ELSE noExt \o end
             /\ i > 0 => buildFileName(name, i) = IF ext = <<>> THEN noExt \o number
                                                   ELSE (noExt \o number) \o end
<1> DEFINE noExt == splitFileName(name).noExt
           ext == splitFileName(name).ext
           number == <<".">> \o Numeral(i, 10)
           end == <<".">> \o ext
           Inserted(j) == IF j > 0 THEN <<".">> \o Numeral(j, 10) ELSE <<>>
           End == IF ext # <<>> THEN end ELSE <<>>
<1>1. noExt \in Seq(S) /\ ext \in Seq(S)
  BY SplitName
<1>2. number \in Seq(S) /\ end \in Seq(S)
  <2>1. Numeral(i, 10) \in Seq(S) /\ <<".">> \in Seq(S)
    BY NumeralLacks, SeqMonotonic
  <2> HIDE DEF ext
  <2> QED BY <1>1, <2>1, ConcatProperties
<1>3. \A j : buildFileName(name, j) = (noExt \o Inserted(j)) \o End
  BY DEF buildFileName
<1> HIDE DEF noExt, ext
<1>4. noExt \o <<>> = noExt /\ (noExt \o number) \o <<>> = noExt \o number
  <2>1. noExt \o number \in Seq(S)
    BY <1>1, <1>2, ConcatProperties
  <2> HIDE DEF number
  <2> QED BY <1>1, <2>1, ConcatEmptySeq
<1>5. buildFileName(name, 0) = IF ext = <<>> THEN noExt ELSE noExt \o end
  <2>1. Inserted(0) = <<>>
    OBVIOUS
  <2>2. buildFileName(name, 0) = (noExt \o Inserted(0)) \o End
    BY <1>3
  <2>3. buildFileName(name, 0) = noExt \o End
    BY <1>4, <2>1, <2>2
  <2> QED BY <1>4, <2>3
<1>6. i > 0 => buildFileName(name, i) = IF ext = <<>> THEN noExt \o number ELSE (noExt \o number) \o end
  BY <1>3, <1>4
<1> QED BY <1>2, <1>5, <1>6 DEF noExt, ext

LEMMA CancelLeft ==
  ASSUME NEW S, NEW s \in Seq(S), NEW t \in Seq(S), NEW v \in Seq(S), s \o t = s \o v
  PROVE  t = v
BY ConcatSimplifications

LEMMA CancelRight ==
  ASSUME NEW S, NEW s \in Seq(S), NEW t \in Seq(S), NEW v \in Seq(S), s \o v = t \o v
  PROVE  s = t
BY ConcatSimplifications

(* Names with different numbers differ.                                    *)
LEMMA NamesDiffer ==
  ASSUME NEW S, "." \in S, DigitSet \subseteq S, NEW name \in Seq(S), NEW i \in Nat, NEW j \in Nat, i # j
  PROVE  buildFileName(name, i) # buildFileName(name, j)
<1> DEFINE noExt == splitFileName(name).noExt
           ext == splitFileName(name).ext
           number(n) == IF n > 0 THEN <<".">> \o Numeral(n, 10) ELSE <<>>
           end == IF ext # <<>> THEN <<".">> \o ext ELSE <<>>
<1>1. noExt \in Seq(S) /\ end \in Seq(S)
  <2>1. noExt \in Seq(S) /\ ext \in Seq(S)
    BY SplitName
  <2>2. <<".">> \in Seq(S) /\ <<>> \in Seq(S)
    OBVIOUS
  <2> HIDE DEF noExt, ext
  <2> QED BY <2>1, <2>2, ConcatProperties
<1>2. \A n : buildFileName(name, n) = (noExt \o number(n)) \o end
  BY DEF buildFileName
<1>3. \A n \in Nat : number(n) \in Seq(S)
  <2> TAKE n \in Nat
  <2>1. Numeral(n, 10) \in Seq(S) /\ <<".">> \in Seq(S) /\ <<>> \in Seq(S)
    BY NumeralLacks, SeqMonotonic
  <2>2. <<".">> \o Numeral(n, 10) \in Seq(S)
    BY <2>1, ConcatProperties
  <2> QED BY <2>1, <2>2
<1>4. ASSUME NEW n \in Nat, NEW m \in Nat, number(n) = number(m) PROVE n = m
  <2> DEFINE dn == <<".">> \o Numeral(n, 10)
             dm == <<".">> \o Numeral(m, 10)
  <2>1. /\ Numeral(n, 10) \in Seq(S) /\ Numeral(m, 10) \in Seq(S) /\ <<".">> \in Seq(S)
        /\ Numeral(n, 10) # <<>> /\ Numeral(m, 10) # <<>>
    BY NumeralLacks, SeqMonotonic
  <2>2. dn # <<>> /\ dm # <<>>
    BY <2>1, ConcatEqualIffEmpty
  <2>3. dn = dm => Numeral(n, 10) = Numeral(m, 10)
    BY <2>1, CancelLeft
  <2>4. Numeral(n, 10) = Numeral(m, 10) => n = m
    BY NumeralsDiffer
  <2> HIDE DEF dn, dm
  <2>5. /\ number(n) = IF n > 0 THEN dn ELSE <<>>
        /\ number(m) = IF m > 0 THEN dm ELSE <<>>
    BY DEF dn, dm
  <2> QED BY <1>4, <2>2, <2>3, <2>4, <2>5
<1> HIDE DEF noExt, end, number
<1>5. ASSUME buildFileName(name, i) = buildFileName(name, j) PROVE FALSE
  <2>1. /\ number(i) \in Seq(S) /\ number(j) \in Seq(S)
        /\ noExt \o number(i) \in Seq(S) /\ noExt \o number(j) \in Seq(S)
    BY <1>1, <1>3, ConcatProperties
  <2>2. (noExt \o number(i)) \o end = (noExt \o number(j)) \o end
    BY <1>2, <1>5
  <2>3. noExt \o number(i) = noExt \o number(j)
    BY <1>1, <2>1, <2>2, CancelRight
  <2>4. number(i) = number(j)
    BY <1>1, <2>1, <2>3, CancelLeft
  <2> QED BY <1>4, <2>4
<1> QED BY <1>5

(* File 0 has the name given, but for a dot at its end.                    *)
LEMMA FirstName ==
  ASSUME NEW S, "." \in S, DigitSet \subseteq S, NEW name \in Seq(S)
  PROVE  \/ buildFileName(name, 0) = name
         \/ name # <<>> /\ Last(name) = "." /\ buildFileName(name, 0) = Front(name)
<1> DEFINE noExt == splitFileName(name).noExt
           ext == splitFileName(name).ext
           end == <<".">> \o ext
<1>1. /\ noExt \in Seq(S) /\ ext \in Seq(S) /\ Lacks(ext, ".")
      /\ \/ noExt = name /\ ext = <<>>
         \/ name = noExt \o end
  BY SplitName
<1>2. buildFileName(name, 0) = IF ext = <<>> THEN noExt ELSE noExt \o end
  <2>1. 0 \in Nat
    OBVIOUS
  <2> QED BY <2>1, BuiltName
<1> HIDE DEF noExt, ext
<1>3. CASE ext # <<>> \/ noExt = name
  BY <1>1, <1>2, <1>3
<1>4. CASE ext = <<>> /\ name = noExt \o end
  <2>1. /\ IsLast(name, ".", Len(noExt) + 1) /\ Len(name) = Len(noExt) + 1 + Len(ext)
        /\ SubSeq(name, 1, Len(noExt)) = noExt
    <3>1. "." \in S
      OBVIOUS
    <3>2. /\ IsLast(noExt \o (<<".">> \o ext), ".", Len(noExt) + 1)
          /\ Len(noExt \o (<<".">> \o ext)) = Len(noExt) + 1 + Len(ext)
          /\ SubSeq(noExt \o (<<".">> \o ext), 1, Len(noExt)) = noExt
      BY <1>1, <3>1, LastBetween
    <3> QED BY <1>4, <3>2
  <2>2. Len(ext) = 0 /\ Len(noExt) \in Nat
    BY <1>1, <1>4, LenProperties
  <2>3. Len(name) = Len(noExt) + 1 /\ Len(name) - 1 = Len(noExt)
    BY <2>1, <2>2
  <2>4. name # <<>> /\ Last(name) = "."
    BY <2>1, <2>2, <2>3 DEF IsLast, Last
  <2>5. Front(name) = noExt
    BY <2>1, <2>3 DEF Front
  <2> QED BY <1>2, <1>4, <2>4, <2>5
<1> QED BY <1>1, <1>3, <1>4

(* A rolled file is CSV if the file is.                                    *)
LEMMA RolledKind ==
  ASSUME NEW S, "." \in S, DigitSet \subseteq S, NEW name \in Seq(S), NEW i \in Nat, i > 0
  PROVE  isCsv(buildFileName(name, i)) = isCsv(name)
<1> DEFINE noExt == splitFileName(name).noExt
           ext == splitFileName(name).ext
           number == <<".">> \o Numeral(i, 10)
           end == <<".">> \o ext
<1>1. /\ noExt \in Seq(S) /\ ext \in Seq(S) /\ Lacks(ext, ".")
      /\ \/ noExt = name /\ ext = <<>> /\ Lacks(name, ".")
         \/ name = noExt \o end
  BY SplitName
<1>2. /\ number \in Seq(S)
      /\ buildFileName(name, i) = IF ext = <<>> THEN noExt \o number ELSE (noExt \o number) \o end
  BY BuiltName
<1>3. /\ Numeral(i, 10) \in Seq(S) /\ Lacks(Numeral(i, 10), ".")
      /\ number # <<".", "csv">>
  BY NumeralLacks, SeqMonotonic
<1> HIDE DEF noExt, ext
<1>4. CASE ext = <<>>
  <2>1. isCsv(noExt \o number) = FALSE
    BY <1>1, <1>3, CsvIs
  <2>2. isCsv(name) = FALSE
    <3>1. CASE Lacks(name, ".")
      BY <3>1, NoDotNotCsv
    <3>2. CASE name = noExt \o end
      <4>1. isCsv(name) = (end = <<".", "csv">>)
        BY <1>1, <3>2, CsvIs
      <4>2. end = <<".">>
        BY <1>4
      <4>3. <<".">> # <<".", "csv">>
        <5>1. Len(<<".">>) = 1 /\ Len(<<".", "csv">>) = 2
          OBVIOUS
        <5> QED BY <5>1
      <4> QED BY <4>1, <4>2, <4>3
    <3> QED BY <1>1, <3>1, <3>2
  <2> QED BY <1>2, <1>4, <2>1, <2>2
<1>5. CASE ext # <<>>
  <2>1. name = noExt \o end
    BY <1>1, <1>5
  <2>2. isCsv(name) = (end = <<".", "csv">>)
    BY <1>1, <2>1, CsvIs
  <2>3. noExt \o number \in Seq(S)
    BY <1>1, <1>2, ConcatProperties
  <2>4. isCsv((noExt \o number) \o end) = (end = <<".", "csv">>)
    BY <1>1, <2>3, CsvIs
  <2> QED BY <1>2, <1>5, <2>2, <2>4
<1> QED BY <1>4, <1>5

(* A rolled file is in the directory of the file, but when only the        *)
(* directory has dots.                                                     *)
LEMMA RolledDirectory ==
  ASSUME NEW S, "." \in S, DigitSet \subseteq S, NEW name \in Seq(S), NEW i \in Nat, i > 0
  PROVE  \/ Directory(buildFileName(name, i)) = Directory(name)
         \/ /\ Contains(Directory(name), ".")
            /\ ~Contains(SubSeq(name, Len(Directory(name)) + 1, Len(name)), ".")
<1> DEFINE noExt == splitFileName(name).noExt
           ext == splitFileName(name).ext
           number == <<".">> \o Numeral(i, 10)
           end == <<".">> \o ext
<1>1. /\ noExt \in Seq(S) /\ ext \in Seq(S) /\ Lacks(ext, ".")
      /\ \/ noExt = name /\ ext = <<>>
         \/ name = noExt \o end
  BY SplitName
<1>2. /\ number \in Seq(S) /\ end \in Seq(S)
      /\ buildFileName(name, i) = IF ext = <<>> THEN noExt \o number ELSE (noExt \o number) \o end
  BY BuiltName
<1>3. <<".">> \in Seq(S) /\ Lacks(<<".">>, "/")
  BY DEF Lacks
<1>4. Lacks(number, "/")
  <2>1. Numeral(i, 10) \in Seq(S) /\ Lacks(Numeral(i, 10), "/")
    BY NumeralLacks, SeqMonotonic
  <2> QED BY <1>3, <2>1, LacksConcat
<1> HIDE DEF noExt, ext
<1>5. CASE Lacks(ext, "/")
  <2>1. Lacks(end, "/")
    BY <1>1, <1>3, <1>5, LacksConcat
  <2>2. Directory(noExt \o number) = Directory(noExt)
    BY <1>1, <1>2, <1>4, DirectoryBefore
  <2>3. Directory((noExt \o number) \o end) = Directory(noExt)
    <3>1. noExt \o number \in Seq(S)
      BY <1>1, <1>2, ConcatProperties
    <3> QED BY <1>2, <2>1, <2>2, <3>1, DirectoryBefore
  <2>4. Directory(name) = Directory(noExt)
    BY <1>1, <1>2, <2>1, DirectoryBefore
  <2> QED BY <1>2, <2>2, <2>3, <2>4
<1>6. CASE ~Lacks(ext, "/")
  <2>1. ext # <<>>
    BY <1>6 DEF Lacks
  <2>2. name = noExt \o end
    BY <1>1, <2>1
  <2> DEFINE d == Len(noExt) + 1
  <2>3. IsLast(name, ".", d) /\ Len(name) = Len(noExt) + 1 + Len(ext)
    BY <1>1, <2>2, LastBetween
  <2>4. PICK k : IsLast(name, "/", k) /\ Directory(name) = SubSeq(name, 1, k)
    BY DirectoryIs
  <2>5. /\ Len(noExt) \in Nat /\ Len(name) \in Nat /\ k \in 0..Len(name) /\ d \in 1..Len(name)
        /\ Len(ext) \in Nat
    <3>1. Len(noExt) \in Nat /\ Len(name) \in Nat /\ Len(ext) \in Nat
      BY <1>1, LenProperties
    <3> QED BY <2>3, <2>4, <3>1 DEF IsLast
  <2>6. d <= k
    <3>1. PICK j \in 1..Len(ext) : ext[j] = "/"
      BY <1>6 DEF Lacks
    <3>2. Len(noExt) + 1 + j \in 1..Len(name) /\ name[Len(noExt) + 1 + j] = "/"
      <4>1. Len(end) = 1 + Len(ext) /\ end[1 + j] = ext[j]
        <5>1. Len(<<".">>) = 1
          OBVIOUS
        <5>2. Len(end) = 1 + Len(ext) /\ \A n \in 1..(1 + Len(ext)) : end[n] = IF n <= 1 THEN <<".">>[n] ELSE ext[n - 1]
          BY <1>1, <1>3, <5>1, ConcatProperties
        <5>3. 1 + j \in 1..(1 + Len(ext)) /\ ~(1 + j <= 1) /\ (1 + j) - 1 = j
          BY <2>5
        <5> HIDE DEF end
        <5> QED BY <5>2, <5>3
      <4> HIDE DEF end
      <4>2. \A n \in 1..(Len(noExt) + Len(end)) : name[n] = IF n <= Len(noExt) THEN noExt[n] ELSE end[n - Len(noExt)]
        BY <1>1, <1>2, <2>2, ConcatProperties
      <4> DEFINE n == Len(noExt) + 1 + j
      <4>3. n \in 1..(Len(noExt) + Len(end)) /\ ~(n <= Len(noExt)) /\ n - Len(noExt) = 1 + j /\ n \in 1..Len(name)
        BY <2>3, <2>5, <4>1
      <4> HIDE DEF n
      <4>4. name[n] = "/"
        BY <3>1, <4>1, <4>2, <4>3
      <4> QED BY <4>3, <4>4 DEF n
    <3>3. ~(Len(noExt) + 1 + j > k)
      <4> SUFFICES ASSUME Len(noExt) + 1 + j > k PROVE FALSE
        OBVIOUS
      <4>1. Len(noExt) + 1 + j \in (k + 1)..Len(name)
        BY <2>5, <3>2
      <4> QED BY <2>4, <3>2, <4>1 DEF IsLast
    <3> QED BY <2>5, <3>3
  <2>7. name[d] = "." /\ \A n \in (d + 1)..Len(name) : name[n] # "."
    BY <2>3, <2>5 DEF IsLast
  <2> HIDE DEF d
  <2> DEFINE u == SubSeq(name, 1, k)
             v == SubSeq(name, k + 1, Len(name))
  <2>8. Len(u) = k /\ u[d] = name[d]
    <3>1. 1 \in 1..(Len(name) + 1)
      BY <2>5
    <3>2. Len(u) = (IF 1 <= k THEN k - 1 + 1 ELSE 0) /\ \A n \in 1..(k - 1 + 1) : u[n] = name[1 + n - 1]
      BY <2>5, <3>1, Part
    <3>3. d \in 1..(k - 1 + 1) /\ 1 + d - 1 = d /\ k >= 1
      BY <2>5, <2>6
    <3> HIDE DEF u
    <3> QED BY <2>5, <3>2, <3>3
  <2>9. Contains(u, ".")
    <3>1. d \in 1..Len(u)
      BY <2>5, <2>6, <2>8
    <3> HIDE DEF u
    <3> QED BY <2>7, <2>8, <3>1 DEF Contains
  <2>10. ~Contains(v, ".")
    <3>1. k + 1 \in 1..(Len(name) + 1) /\ Len(name) \in 0..Len(name)
      BY <2>5
    <3>2. /\ Len(v) = (IF k + 1 <= Len(name) THEN Len(name) - (k + 1) + 1 ELSE 0)
          /\ \A n \in 1..(Len(name) - (k + 1) + 1) : v[n] = name[(k + 1) + n - 1]
      BY <3>1, Part
    <3> HIDE DEF v
    <3>3. ASSUME NEW n \in 1..Len(v) PROVE v[n] # "."
      <4>1. n \in 1..(Len(name) - (k + 1) + 1) /\ (k + 1) + n - 1 \in (d + 1)..Len(name)
        BY <2>5, <2>6, <3>2
      <4> QED BY <2>7, <3>2, <4>1
    <3> QED BY <3>3 DEF Contains
  <2> HIDE DEF u
  <2> QED BY <2>4, <2>8, <2>9, <2>10 DEF u
<1> QED BY <1>5, <1>6

(* The files of a log have different names, for any number of them; file 0 *)
(* has the name given, but for a dot at its end; a rolled file has the     *)
(* format chosen by the extension and stays in the directory of the log    *)
(* unless its only dots are in the name of the directory                   *)
(* (RollingFileAppender.h:121-137, RollingFileInitializer.h:29-41,         *)
(* Util.h:324-347).                                                        *)
THEOREM NamesRolled == Spec => []RolledNames
<1>1. TypeOK => RolledNames
  <2> SUFFICES ASSUME TypeOK PROVE RolledNames
    OBVIOUS
  <2> DEFINE S == Symbols \cup DigitSet \cup {"."}
             name == UpToNul(text)
             Base(s) == SubSeq(s, Len(Directory(s)) + 1, Len(s))
  <2>1. "." \in S /\ DigitSet \subseteq S /\ text \in Seq(S)
    <3>1. Symbols \subseteq S
      OBVIOUS
    <3>2. text \in Seq(S)
      BY <3>1, SeqMonotonic DEF TypeOK
    <3> QED BY <3>2
  <2> HIDE DEF S
  <2>2. name \in Seq(S)
    BY <2>1, UpToNulType
  <2> HIDE DEF name
  <2>3. MaxNumber \in Nat
    BY FormatsAssumption
  <2>4. \A i, j \in 0..MaxNumber : i # j => buildFileName(name, i) # buildFileName(name, j)
    <3> TAKE i, j \in 0..MaxNumber
    <3>1. i \in Nat /\ j \in Nat
      BY <2>3
    <3> QED BY <2>1, <2>2, <3>1, NamesDiffer
  <2>5. buildFileName(name, 0) \in {name} \cup
           {Front(s) : s \in {t \in {name} : t # <<>> /\ Last(t) = "."}}
    <3>1. \/ buildFileName(name, 0) = name
          \/ name # <<>> /\ Last(name) = "." /\ buildFileName(name, 0) = Front(name)
      BY <2>1, <2>2, FirstName
    <3>2. CASE buildFileName(name, 0) = name
      BY <3>2
    <3>3. CASE name # <<>> /\ Last(name) = "." /\ buildFileName(name, 0) = Front(name)
      <4>1. name \in {t \in {name} : t # <<>> /\ Last(t) = "."}
        BY <3>3
      <4> QED BY <3>3, <4>1
    <3> QED BY <3>1, <3>2, <3>3
  <2>6. ASSUME NEW i \in 1..MaxNumber
        PROVE  LET rolled == buildFileName(name, i)
               IN  /\ isCsv(rolled) = isCsv(name)
                   /\ \/ Directory(rolled) = Directory(name)
                      \/ Contains(Directory(name), ".") /\ ~Contains(Base(name), ".")
    <3>1. i \in Nat /\ i > 0
      BY <2>3
    <3>2. isCsv(buildFileName(name, i)) = isCsv(name)
      BY <2>1, <2>2, <3>1, RolledKind
    <3>3. \/ Directory(buildFileName(name, i)) = Directory(name)
          \/ Contains(Directory(name), ".") /\ ~Contains(Base(name), ".")
      BY <2>1, <2>2, <3>1, RolledDirectory
    <3> QED BY <3>2, <3>3
  <2> QED BY <2>4, <2>5, <2>6 DEF RolledNames, name
<1> QED BY <1>1, TypeCorrect, PTL

-----------------------------------------------------------------------------
(* Reading symbol by symbol.                                               *)

(* f[i] is the state of the reader after i symbols.                        *)
IsRead(f, start, file, n) ==
  f = [i \in 0..n |-> IF i = 0 THEN start ELSE ReadSymbol(f[i - 1], file[i])]

LEMMA ReadExists ==
  ASSUME NEW start, NEW file
  PROVE  \A n \in Nat : \E f : IsRead(f, start, file, n)
<1> DEFINE T == {n \in Nat : \E f : IsRead(f, start, file, n)}
<1>1. 0 \in T
  <2>1. IsRead([i \in 0..0 |-> start], start, file, 0)
    BY DEF IsRead
  <2> QED BY <2>1
<1>2. ASSUME NEW n \in Nat, n \in T PROVE n + 1 \in T
  <2>1. PICK f : IsRead(f, start, file, n)
    BY <1>2
  <2> DEFINE g == [i \in 0..(n + 1) |-> IF i = 0 THEN start ELSE ReadSymbol(f[i - 1], file[i])]
  <2>2. \A i \in 0..n : f[i] = IF i = 0 THEN start ELSE ReadSymbol(f[i - 1], file[i])
    BY <2>1 DEF IsRead
  <2>3. \A i \in 0..n : g[i] = f[i]
    BY <2>2
  <2>4. \A i \in 0..(n + 1) : i # 0 => i - 1 \in 0..n
    OBVIOUS
  <2>5. g = [i \in 0..(n + 1) |-> IF i = 0 THEN start ELSE ReadSymbol(g[i - 1], file[i])]
    BY <2>3, <2>4
  <2>6. IsRead(g, start, file, n + 1)
    BY <2>5, Zenon DEF IsRead
  <2> QED BY <2>6
<1>3. Nat \subseteq T
  <2> HIDE DEF T
  <2> QED BY <1>1, <1>2, Induction
<1> QED BY <1>3

LEMMA ReadIs ==
  ASSUME NEW start, NEW file, Len(file) \in Nat
  PROVE  \E f : /\ \A i \in 0..Len(file) : f[i] = IF i = 0 THEN start ELSE ReadSymbol(f[i - 1], file[i])
                /\ ReadFrom(start, file) = f[Len(file)]
<1> DEFINE f == CHOOSE f : f = [i \in 0..Len(file) |->
                                  IF i = 0 THEN start ELSE ReadSymbol(f[i - 1], file[i])]
<1>1. \E g : IsRead(g, start, file, Len(file))
  BY ReadExists
<1>2. f = [i \in 0..Len(file) |-> IF i = 0 THEN start ELSE ReadSymbol(f[i - 1], file[i])]
  BY <1>1, Zenon DEF IsRead
<1>3. ReadFrom(start, file) = f[Len(file)]
  BY Zenon DEF ReadFrom
<1> HIDE DEF f
<1>4. \A i \in 0..Len(file) : f[i] = IF i = 0 THEN start ELSE ReadSymbol(f[i - 1], file[i])
  BY <1>2
<1> QED BY <1>3, <1>4

LEMMA ReadNothing == \A start : ReadFrom(start, <<>>) = start
<1>1. Len(<<>>) = 0
  OBVIOUS
<1> QED BY <1>1, ReadIs

(* One symbol more.                                                        *)
LEMMA ReadAppended ==
  ASSUME NEW S, NEW start, NEW s \in Seq(S), NEW c \in S
  PROVE  ReadFrom(start, Append(s, c)) = ReadSymbol(ReadFrom(start, s), c)
<1> DEFINE t == Append(s, c)
           n == Len(s)
<1>1. n \in Nat /\ Len(t) = n + 1 /\ t[n + 1] = c /\ \A i \in 1..n : t[i] = s[i]
  BY AppendProperties, LenProperties
<1> HIDE DEF t
<1>2. PICK g : /\ \A i \in 0..(n + 1) : g[i] = IF i = 0 THEN start ELSE ReadSymbol(g[i - 1], t[i])
               /\ ReadFrom(start, t) = g[n + 1]
  BY <1>1, ReadIs
<1>3. PICK f : /\ \A i \in 0..n : f[i] = IF i = 0 THEN start ELSE ReadSymbol(f[i - 1], s[i])
               /\ ReadFrom(start, s) = f[n]
  BY <1>1, ReadIs
<1> HIDE DEF n
<1> DEFINE T == {i \in Nat : i \in 0..n => f[i] = g[i]}
<1>4. 0 \in T
  BY <1>1, <1>2, <1>3
<1>5. ASSUME NEW i \in Nat, i \in T PROVE i + 1 \in T
  <2> SUFFICES ASSUME i + 1 \in 0..n PROVE f[i + 1] = g[i + 1]
    OBVIOUS
  <2>1. i + 1 \in 0..n /\ i + 1 # 0 /\ (i + 1) - 1 = i /\ i \in 0..n /\ i + 1 \in 0..(n + 1) /\ i + 1 \in 1..n
    BY <1>1
  <2>2. f[i + 1] = ReadSymbol(f[i], s[i + 1]) /\ g[i + 1] = ReadSymbol(g[i], t[i + 1])
    BY <1>2, <1>3, <2>1
  <2> QED BY <1>1, <1>5, <2>1, <2>2
<1>6. Nat \subseteq T
  <2> HIDE DEF T
  <2> QED BY <1>4, <1>5, Induction
<1>7. f[n] = g[n]
  BY <1>1, <1>6
<1>8. g[n + 1] = ReadSymbol(g[n], c)
  <2>1. n + 1 \in 0..(n + 1) /\ n + 1 # 0 /\ (n + 1) - 1 = n
    BY <1>1
  <2> QED BY <1>1, <1>2, <2>1
<1> QED BY <1>2, <1>3, <1>7, <1>8 DEF t

-----------------------------------------------------------------------------
(* f[i] has the parts of the first i symbols of s.                         *)
IsSplit(f, s, symbol, n) ==
  f = [i \in 0..n |-> IF i = 0 THEN << <<>> >> ELSE SplitSymbol(f[i - 1], s[i], symbol)]

LEMMA SplitExists ==
  ASSUME NEW s, NEW symbol
  PROVE  \A n \in Nat : \E f : IsSplit(f, s, symbol, n)
<1> DEFINE T == {n \in Nat : \E f : IsSplit(f, s, symbol, n)}
<1>1. 0 \in T
  <2>1. IsSplit([i \in 0..0 |-> << <<>> >>], s, symbol, 0)
    BY DEF IsSplit
  <2> QED BY <2>1
<1>2. ASSUME NEW n \in Nat, n \in T PROVE n + 1 \in T
  <2>1. PICK f : IsSplit(f, s, symbol, n)
    BY <1>2
  <2> DEFINE g == [i \in 0..(n + 1) |-> IF i = 0 THEN << <<>> >> ELSE SplitSymbol(f[i - 1], s[i], symbol)]
  <2>2. \A i \in 0..n : f[i] = IF i = 0 THEN << <<>> >> ELSE SplitSymbol(f[i - 1], s[i], symbol)
    BY <2>1 DEF IsSplit
  <2>3. \A i \in 0..n : g[i] = f[i]
    BY <2>2
  <2>4. \A i \in 0..(n + 1) : i # 0 => i - 1 \in 0..n
    OBVIOUS
  <2>5. g = [i \in 0..(n + 1) |-> IF i = 0 THEN << <<>> >> ELSE SplitSymbol(g[i - 1], s[i], symbol)]
    BY <2>3, <2>4
  <2>6. IsSplit(g, s, symbol, n + 1)
    BY <2>5, Zenon DEF IsSplit
  <2> QED BY <2>6
<1>3. Nat \subseteq T
  <2> HIDE DEF T
  <2> QED BY <1>1, <1>2, Induction
<1> QED BY <1>3

LEMMA SplitIs ==
  ASSUME NEW s, NEW symbol, Len(s) \in Nat
  PROVE  \E f : /\ \A i \in 0..Len(s) : f[i] = IF i = 0 THEN << <<>> >> ELSE SplitSymbol(f[i - 1], s[i], symbol)
                /\ Split(s, symbol) = f[Len(s)]
<1> DEFINE f == CHOOSE f : f = [i \in 0..Len(s) |->
                                  IF i = 0 THEN << <<>> >> ELSE SplitSymbol(f[i - 1], s[i], symbol)]
<1>1. \E g : IsSplit(g, s, symbol, Len(s))
  BY SplitExists
<1>2. f = [i \in 0..Len(s) |-> IF i = 0 THEN << <<>> >> ELSE SplitSymbol(f[i - 1], s[i], symbol)]
  BY <1>1, Zenon DEF IsSplit
<1>3. Split(s, symbol) = f[Len(s)]
  BY Zenon DEF Split
<1> HIDE DEF f
<1>4. \A i \in 0..Len(s) : f[i] = IF i = 0 THEN << <<>> >> ELSE SplitSymbol(f[i - 1], s[i], symbol)
  BY <1>2
<1> QED BY <1>3, <1>4

LEMMA SplitNothing == \A symbol : Split(<<>>, symbol) = << <<>> >>
<1>1. Len(<<>>) = 0
  OBVIOUS
<1> QED BY <1>1, SplitIs

(* One symbol more begins a part or extends the last.                      *)
LEMMA SplitAppended ==
  ASSUME NEW S, NEW s \in Seq(S), NEW c \in S, NEW symbol
  PROVE  Split(Append(s, c), symbol) = SplitSymbol(Split(s, symbol), c, symbol)
<1> DEFINE t == Append(s, c)
           n == Len(s)
<1>1. n \in Nat /\ Len(t) = n + 1 /\ t[n + 1] = c /\ \A i \in 1..n : t[i] = s[i]
  BY AppendProperties, LenProperties
<1> HIDE DEF t
<1>2. PICK g : /\ \A i \in 0..(n + 1) : g[i] = IF i = 0 THEN << <<>> >> ELSE SplitSymbol(g[i - 1], t[i], symbol)
               /\ Split(t, symbol) = g[n + 1]
  BY <1>1, SplitIs
<1>3. PICK f : /\ \A i \in 0..n : f[i] = IF i = 0 THEN << <<>> >> ELSE SplitSymbol(f[i - 1], s[i], symbol)
               /\ Split(s, symbol) = f[n]
  BY <1>1, SplitIs
<1> HIDE DEF n
<1> DEFINE T == {i \in Nat : i \in 0..n => f[i] = g[i]}
<1>4. 0 \in T
  BY <1>1, <1>2, <1>3
<1>5. ASSUME NEW i \in Nat, i \in T PROVE i + 1 \in T
  <2> SUFFICES ASSUME i + 1 \in 0..n PROVE f[i + 1] = g[i + 1]
    OBVIOUS
  <2>1. i + 1 \in 0..n /\ i + 1 # 0 /\ (i + 1) - 1 = i /\ i \in 0..n /\ i + 1 \in 0..(n + 1) /\ i + 1 \in 1..n
    BY <1>1
  <2>2. f[i + 1] = SplitSymbol(f[i], s[i + 1], symbol) /\ g[i + 1] = SplitSymbol(g[i], t[i + 1], symbol)
    BY <1>2, <1>3, <2>1
  <2> QED BY <1>1, <1>5, <2>1, <2>2
<1>6. Nat \subseteq T
  <2> HIDE DEF T
  <2> QED BY <1>4, <1>5, Induction
<1>7. f[n] = g[n]
  BY <1>1, <1>6
<1>8. g[n + 1] = SplitSymbol(g[n], c, symbol)
  <2>1. n + 1 \in 0..(n + 1) /\ n + 1 # 0 /\ (n + 1) - 1 = n
    BY <1>1
  <2> QED BY <1>1, <1>2, <2>1
<1> QED BY <1>2, <1>3, <1>7, <1>8 DEF t

LEMMA FlattenLonger ==
  ASSUME NEW S, NEW n \in Nat, NEW f \in [1..n -> Seq(S)], NEW g \in [1..(n + 1) -> Seq(S)],
         \A i \in 1..n : g[i] = f[i]
  PROVE  /\ FlattenSeq(g) = FlattenSeq(f) \o g[n + 1]
         /\ FlattenSeq(f) \in Seq(S) /\ FlattenSeq(g) \in Seq(S)
<1>1. /\ f \in Seq(Seq(S)) /\ g \in Seq(Seq(S)) /\ Len(f) = n /\ Len(g) = n + 1
      /\ g[n + 1] \in Seq(S)
  OBVIOUS
<1>2. g = Append(f, g[n + 1])
  BY <1>1, IsAppended
<1>3. FlattenSeq(Append(f, g[n + 1])) = FlattenSeq(f) \o g[n + 1]
  BY <1>1, FlattenAppended
<1>4. FlattenSeq(f) \in Seq(S) /\ FlattenSeq(g) \in Seq(S)
  BY <1>1, FlattenType
<1> QED BY <1>2, <1>3, <1>4

LEMMA AppendToConcat ==
  ASSUME NEW S, NEW a \in Seq(S), NEW b \in Seq(S), NEW c \in S
  PROVE  a \o Append(b, c) = Append(a \o b, c)
<1>1. Append(b, c) = b \o <<c>> /\ <<c>> \in Seq(S) /\ a \o b \in Seq(S)
  BY AppendIsConcat, ConcatProperties
<1>2. Append(a \o b, c) = (a \o b) \o <<c>>
  BY <1>1, AppendIsConcat
<1>3. a \o (b \o <<c>>) = (a \o b) \o <<c>>
  BY <1>1, ConcatAssociative
<1> QED BY <1>1, <1>2, <1>3

-----------------------------------------------------------------------------
(* What one symbol does to the reader.                                     *)

Outside(rows, row, field) ==
  [rows |-> rows, row |-> row, field |-> field, inside |-> FALSE, after |-> FALSE]

Inside(rows, row, field) ==
  [rows |-> rows, row |-> row, field |-> field, inside |-> TRUE, after |-> FALSE]

After(rows, row, field) ==
  [rows |-> rows, row |-> row, field |-> field, inside |-> FALSE, after |-> TRUE]

LEMMA ReadQuote ==
  ASSUME NEW rows, NEW row, NEW field
  PROVE  /\ ReadSymbol(Outside(rows, row, field), Quote) = Inside(rows, row, field)
         /\ ReadSymbol(Inside(rows, row, field), Quote) = After(rows, row, field)
         /\ ReadSymbol(After(rows, row, field), Quote) =
              Inside(rows, row, Append(field, Quote))
<1>1. Quote # Semicolon /\ Quote # Newline
  BY DEF Quote, Semicolon, Newline
<1> QED BY <1>1 DEF ReadSymbol, Outside, Inside, After

LEMMA ReadInside ==
  ASSUME NEW rows, NEW row, NEW field, NEW c, c # Quote
  PROVE  ReadSymbol(Inside(rows, row, field), c) = Inside(rows, row, Append(field, c))
BY DEF ReadSymbol, Outside, Inside, After

LEMMA ReadOutside ==
  ASSUME NEW rows, NEW row, NEW field
  PROVE  /\ ReadSymbol(Outside(rows, row, field), Semicolon) =
              Outside(rows, Append(row, field), <<>>)
         /\ ReadSymbol(After(rows, row, field), Newline) =
              Outside(Append(rows, Append(row, field)), <<>>, <<>>)
         /\ ReadSymbol(Outside(rows, row, field), Newline) =
              Outside(Append(rows, Append(row, field)), <<>>, <<>>)
         /\ \A c : c \notin {Quote, Semicolon, Newline} =>
              ReadSymbol(Outside(rows, row, field), c) = Outside(rows, row, Append(field, c))
<1>1. Quote # Semicolon /\ Quote # Newline /\ Semicolon # Newline
  BY DEF Quote, Semicolon, Newline
<1> QED BY <1>1 DEF ReadSymbol, Outside, Inside, After

-----------------------------------------------------------------------------
(* A file is read piece by piece.                                          *)
LEMMA ReadConcat ==
  ASSUME NEW S, NEW r, NEW a \in Seq(S), NEW b \in Seq(S)
  PROVE  ReadFrom(r, a \o b) = ReadFrom(ReadFrom(r, a), b)
<1> DEFINE T == {t \in Seq(S) : ReadFrom(r, a \o t) = ReadFrom(ReadFrom(r, a), t)}
<1>1. <<>> \in T
  BY ConcatEmptySeq, ReadNothing
<1>2. ASSUME NEW t \in Seq(S), NEW c \in S, t \in T PROVE Append(t, c) \in T
  <2>1. a \o t \in Seq(S) /\ Append(t, c) \in Seq(S)
    BY ConcatProperties
  <2>2. a \o Append(t, c) = Append(a \o t, c)
    BY AppendToConcat
  <2>3. ReadFrom(r, Append(a \o t, c)) = ReadSymbol(ReadFrom(r, a \o t), c)
    <3> DEFINE at == a \o t
    <3>1. at \in Seq(S)
      BY <2>1
    <3> HIDE DEF at
    <3>2. ReadFrom(r, Append(at, c)) = ReadSymbol(ReadFrom(r, at), c)
      BY <3>1, ReadAppended
    <3> QED BY <3>2 DEF at
  <2>4. ReadFrom(ReadFrom(r, a), Append(t, c)) = ReadSymbol(ReadFrom(ReadFrom(r, a), t), c)
    BY ReadAppended
  <2>5. ReadFrom(r, a \o t) = ReadFrom(ReadFrom(r, a), t)
    BY <1>2
  <2> QED BY <2>1, <2>2, <2>3, <2>4, <2>5
<1>3. Seq(S) \subseteq T
  <2> HIDE DEF T
  <2> QED BY <1>1, <1>2, StringInduction
<1> QED BY <1>3

(* A file of one symbol.                                                   *)
LEMMA ReadOne ==
  ASSUME NEW r, NEW c
  PROVE  ReadFrom(r, <<c>>) = ReadSymbol(r, c)
<1>1. <<>> \in Seq({c}) /\ c \in {c} /\ Append(<<>>, c) = <<c>>
  OBVIOUS
<1>2. ReadFrom(r, Append(<<>>, c)) = ReadSymbol(ReadFrom(r, <<>>), c)
  <2> DEFINE e == <<>>
             C == {c}
  <2>1. e \in Seq(C) /\ c \in C
    BY <1>1
  <2> HIDE DEF e, C
  <2>2. ReadFrom(r, Append(e, c)) = ReadSymbol(ReadFrom(r, e), c)
    BY <2>1, ReadAppended
  <2> QED BY <2>2 DEF e
<1> QED BY <1>1, <1>2, ReadNothing

(* Plain strings are read as they are.                                     *)
ArePlain(P) == \A c \in P : c \notin {Quote, Semicolon, Newline}

LEMMA ReadPlain ==
  ASSUME NEW P, ArePlain(P), NEW rows, NEW row, NEW s \in Seq(P)
  PROVE  ReadFrom(Outside(rows, row, <<>>), s) = Outside(rows, row, s)
<1> DEFINE r == Outside(rows, row, <<>>)
           T == {t \in Seq(P) : ReadFrom(r, t) = Outside(rows, row, t)}
<1>1. <<>> \in T
  BY ReadNothing
<1>2. ASSUME NEW t \in Seq(P), NEW c \in P, t \in T PROVE Append(t, c) \in T
  <2>1. ReadFrom(r, Append(t, c)) = ReadSymbol(ReadFrom(r, t), c)
    BY ReadAppended
  <2>2. ReadFrom(r, t) = Outside(rows, row, t)
    BY <1>2
  <2>3. ReadSymbol(Outside(rows, row, t), c) = Outside(rows, row, Append(t, c))
    BY ReadOutside DEF ArePlain
  <2>4. Append(t, c) \in Seq(P)
    OBVIOUS
  <2> QED BY <2>1, <2>2, <2>3, <2>4
<1>3. Seq(P) \subseteq T
  <2> HIDE DEF T
  <2> QED BY <1>1, <1>2, StringInduction
<1> QED BY <1>3

LEMMA SeparatedEmpty == Separated(<<>>) = <<>>
<1> DEFINE parts == [k \in DOMAIN <<>> |-> IF k = 1 THEN <<>>[k] ELSE <<Semicolon>> \o <<>>[k]]
<1>1. parts = <<>>
  OBVIOUS
<1> QED BY <1>1, FlattenEmpty, Zenon DEF Separated

(* One field more, with a separator unless it is the first.                *)
LEMMA SeparatedAppended ==
  ASSUME NEW S, Semicolon \in S, NEW fs \in Seq(Seq(S)), NEW x \in Seq(S)
  PROVE  /\ Separated(Append(fs, x)) = IF fs = <<>> THEN Separated(fs) \o x ELSE Separated(fs) \o (<<Semicolon>> \o x)
         /\ Separated(fs) \in Seq(S)
<1> DEFINE gs == Append(fs, x)
           n == Len(fs)
           part(t, k) == IF k = 1 THEN t[k] ELSE <<Semicolon>> \o t[k]
           parts(t) == [k \in DOMAIN t |-> IF k = 1 THEN t[k] ELSE <<Semicolon>> \o t[k]]
<1>1. /\ n \in Nat /\ gs \in Seq(Seq(S)) /\ Len(gs) = n + 1 /\ gs[n + 1] = x
      /\ \A i \in 1..n : gs[i] = fs[i]
  BY AppendProperties, LenProperties
<1> HIDE DEF gs
<1>2. \A t \in Seq(Seq(S)) : parts(t) \in [1..Len(t) -> Seq(S)]
  <2> TAKE t \in Seq(Seq(S))
  <2>1. DOMAIN t = 1..Len(t) /\ \A k \in 1..Len(t) : t[k] \in Seq(S)
    BY LenProperties, ElementOfSeq
  <2>2. <<Semicolon>> \in Seq(S)
    OBVIOUS
  <2>3. \A k \in 1..Len(t) : <<Semicolon>> \o t[k] \in Seq(S)
    BY <2>1, <2>2, ConcatProperties
  <2> QED BY <2>1, <2>3
<1>3. \A t \in Seq(Seq(S)) : \A k \in 1..Len(t) : parts(t)[k] = part(t, k)
  <2> TAKE t \in Seq(Seq(S))
  <2>1. DOMAIN t = 1..Len(t)
    BY LenProperties
  <2> QED BY <2>1
<1>4. /\ parts(fs) \in [1..n -> Seq(S)] /\ parts(gs) \in [1..(n + 1) -> Seq(S)]
  BY <1>1, <1>2
<1>5. \A i \in 1..n : parts(gs)[i] = parts(fs)[i]
  <2> TAKE i \in 1..n
  <2>1. i \in 1..(n + 1)
    BY <1>1
  <2>2. parts(gs)[i] = part(gs, i) /\ parts(fs)[i] = part(fs, i)
    BY <1>1, <1>3, <2>1
  <2> HIDE DEF parts
  <2> QED BY <1>1, <2>2
<1>6. parts(gs)[n + 1] = IF n = 0 THEN x ELSE <<Semicolon>> \o x
  <2>1. n + 1 \in 1..(n + 1) /\ (n + 1 = 1 <=> n = 0)
    BY <1>1
  <2>2. parts(gs)[n + 1] = part(gs, n + 1)
    BY <1>1, <1>3, <2>1
  <2> HIDE DEF parts
  <2> QED BY <1>1, <2>1, <2>2
<1>7. Separated(gs) = FlattenSeq(parts(gs)) /\ Separated(fs) = FlattenSeq(parts(fs))
  BY Zenon DEF Separated
<1> HIDE DEF parts
<1>8. FlattenSeq(parts(gs)) = FlattenSeq(parts(fs)) \o parts(gs)[n + 1] /\ FlattenSeq(parts(fs)) \in Seq(S)
  BY <1>1, <1>4, <1>5, FlattenLonger
<1>9. n = 0 <=> fs = <<>>
  BY EmptySeq
<1> QED BY <1>6, <1>7, <1>8, <1>9 DEF gs

(* A separator and a field.                                                *)
LEMMA ReadNextField ==
  ASSUME NEW P, ArePlain(P), NEW rows, NEW row, NEW field, NEW s \in Seq(P)
  PROVE  ReadFrom(Outside(rows, row, field), <<Semicolon>> \o s) = Outside(rows, Append(row, field), s)
<1> DEFINE S == P \cup {Semicolon}
           r == Outside(rows, row, field)
           next == Append(row, field)
<1>1. <<Semicolon>> \in Seq(S) /\ s \in Seq(S)
  BY SeqMonotonic
<1> HIDE DEF S, r
<1>2. ReadFrom(r, <<Semicolon>> \o s) = ReadFrom(ReadFrom(r, <<Semicolon>>), s)
  <2> DEFINE one == <<Semicolon>>
  <2>1. one \in Seq(S) /\ s \in Seq(S)
    BY <1>1
  <2> HIDE DEF one
  <2>2. ReadFrom(r, one \o s) = ReadFrom(ReadFrom(r, one), s)
    BY <2>1, ReadConcat
  <2> QED BY <2>2 DEF one
<1>3. ReadFrom(r, <<Semicolon>>) = ReadSymbol(r, Semicolon)
  BY ReadOne
<1>4. ReadSymbol(r, Semicolon) = Outside(rows, next, <<>>)
  BY ReadOutside DEF r
<1> HIDE DEF next
<1>5. ReadFrom(Outside(rows, next, <<>>), s) = Outside(rows, next, s)
  BY ReadPlain
<1> QED BY <1>2, <1>3, <1>4, <1>5 DEF r, next

(* A row of plain fields.                                                  *)
LEMMA ReadFields ==
  ASSUME NEW P, ArePlain(P), NEW rows, NEW fs \in Seq(Seq(P)), NEW x \in Seq(P)
  PROVE  /\ Separated(Append(fs, x)) \in Seq(P \cup {Semicolon})
         /\ ReadFrom(Outside(rows, <<>>, <<>>), Separated(Append(fs, x))) = Outside(rows, fs, x)
<1> DEFINE S == P \cup {Semicolon}
           r == Outside(rows, <<>>, <<>>)
           T == {t \in Seq(Seq(P)) : \A y \in Seq(P) :
                   /\ Separated(Append(t, y)) \in Seq(S)
                   /\ ReadFrom(r, Separated(Append(t, y))) = Outside(rows, t, y)}
<1>0. Semicolon \in S /\ Seq(P) \subseteq Seq(S) /\ Seq(Seq(P)) \subseteq Seq(Seq(S))
  <2>1. Seq(P) \subseteq Seq(S)
    BY SeqMonotonic
  <2> QED BY <2>1, SeqMonotonic
<1> HIDE DEF S
<1>1. <<>> \in T
  <2> SUFFICES ASSUME NEW y \in Seq(P)
               PROVE  /\ Separated(Append(<<>>, y)) \in Seq(S)
                      /\ ReadFrom(r, Separated(Append(<<>>, y))) = Outside(rows, <<>>, y)
    OBVIOUS
  <2>1. y \in Seq(S)
    BY <1>0
  <2>2. <<>> \in Seq(Seq(S))
    OBVIOUS
  <2>3. Separated(Append(<<>>, y)) = <<>> \o y
    BY <1>0, <2>1, <2>2, SeparatedAppended, SeparatedEmpty
  <2>4. <<>> \o y = y
    BY ConcatEmptySeq
  <2>5. ReadFrom(r, y) = Outside(rows, <<>>, y)
    BY ReadPlain
  <2> QED BY <2>1, <2>3, <2>4, <2>5
<1> HIDE DEF r
<1>2. ASSUME NEW t \in Seq(Seq(P)), NEW z \in Seq(P), t \in T PROVE Append(t, z) \in T
  <2> DEFINE u == Append(t, z)
             su == Separated(u)
  <2>1. u \in Seq(Seq(P)) /\ u # <<>>
    BY AppendProperties
  <2>2. su \in Seq(S) /\ ReadFrom(r, su) = Outside(rows, t, z)
    BY <1>2
  <2> SUFFICES ASSUME NEW y \in Seq(P)
               PROVE  /\ Separated(Append(u, y)) \in Seq(S)
                      /\ ReadFrom(r, Separated(Append(u, y))) = Outside(rows, u, y)
    BY <2>1
  <2> HIDE DEF T
  <2> DEFINE sy == <<Semicolon>> \o y
  <2>3. Separated(Append(u, y)) = su \o sy
    <3>1. u \in Seq(Seq(S)) /\ y \in Seq(S)
      BY <1>0, <2>1
    <3> HIDE DEF u
    <3> QED BY <1>0, <2>1, <3>1, SeparatedAppended
  <2>4. sy \in Seq(S)
    <3>1. y \in Seq(S) /\ <<Semicolon>> \in Seq(S)
      BY <1>0
    <3> QED BY <3>1, ConcatProperties
  <2>5. ReadFrom(Outside(rows, t, z), sy) = Outside(rows, u, y)
    BY ReadNextField
  <2> HIDE DEF su, sy, u
  <2>6. su \o sy \in Seq(S) /\ ReadFrom(r, su \o sy) = ReadFrom(ReadFrom(r, su), sy)
    BY <2>2, <2>4, ReadConcat, ConcatProperties
  <2> QED BY <2>2, <2>3, <2>5, <2>6
<1>3. Seq(Seq(P)) \subseteq T
  <2> HIDE DEF T
  <2> QED BY <1>1, <1>2, StringInduction
<1> QED BY <1>3 DEF S, r

-----------------------------------------------------------------------------
(* A quoted message.                                                       *)

Opened(s) == <<Quote>> \o s
Enclosed(s) == <<Quote>> \o s \o <<Quote>>
EnclosedParts(parts) == FlattenSeq([k \in DOMAIN parts |-> <<Quote>> \o parts[k] \o <<Quote>>])

(* A string between quotes, made symbol by symbol.                         *)
LEMMA EnclosedIs ==
  ASSUME NEW S, Quote \in S, NEW s \in Seq(S)
  PROVE  /\ Opened(s) \in Seq(S) /\ Enclosed(s) \in Seq(S)
         /\ Enclosed(s) = Append(Opened(s), Quote)
         /\ \A c \in S : Opened(Append(s, c)) = Append(Opened(s), c)
         /\ Opened(<<>>) = <<Quote>>
<1> DEFINE q == <<Quote>>
           qs == q \o s
<1>1. q \in Seq(S)
  OBVIOUS
<1>2. qs \in Seq(S) /\ qs \o q \in Seq(S)
  <2>1. qs \in Seq(S)
    BY <1>1, ConcatProperties
  <2> HIDE DEF q, qs
  <2> QED BY <1>1, <2>1, ConcatProperties
<1>3. Append(qs, Quote) = qs \o q
  <2> HIDE DEF qs
  <2> QED BY <1>2, AppendIsConcat
<1>4. ASSUME NEW c \in S PROVE q \o Append(s, c) = Append(qs, c)
  <2> HIDE DEF q
  <2> QED BY <1>1, AppendToConcat
<1>5. q \o <<>> = q
  <2> HIDE DEF q
  <2> QED BY <1>1, ConcatEmptySeq
<1> QED BY <1>1, <1>2, <1>3, <1>4, <1>5 DEF Opened, Enclosed

LEMMA EnclosedPartsAre ==
  ASSUME NEW S, Quote \in S, NEW parts \in Seq(Seq(S)), NEW x \in Seq(S)
  PROVE  /\ EnclosedParts(Append(parts, x)) = EnclosedParts(parts) \o Enclosed(x)
         /\ EnclosedParts(parts) \in Seq(S)
<1> DEFINE more == Append(parts, x)
           n == Len(parts)
           E(t) == [k \in DOMAIN t |-> <<Quote>> \o t[k] \o <<Quote>>]
<1>1. /\ n \in Nat /\ more \in Seq(Seq(S)) /\ Len(more) = n + 1 /\ more[n + 1] = x
      /\ \A i \in 1..n : more[i] = parts[i]
  BY AppendProperties, LenProperties
<1> HIDE DEF more
<1>2. ASSUME NEW t \in Seq(Seq(S))
      PROVE  E(t) \in [1..Len(t) -> Seq(S)] /\ \A k \in 1..Len(t) : E(t)[k] = Enclosed(t[k])
  <2>1. DOMAIN t = 1..Len(t) /\ \A k \in 1..Len(t) : t[k] \in Seq(S)
    BY LenProperties, ElementOfSeq
  <2>2. E(t) = [k \in 1..Len(t) |-> Enclosed(t[k])]
    BY <2>1 DEF Enclosed
  <2>3. \A k \in 1..Len(t) : Enclosed(t[k]) \in Seq(S)
    BY <2>1, EnclosedIs
  <2> HIDE DEF E
  <2> QED BY <2>2, <2>3
<1>3. EnclosedParts(more) = FlattenSeq(E(more)) /\ EnclosedParts(parts) = FlattenSeq(E(parts))
  BY Zenon DEF EnclosedParts
<1> HIDE DEF E
<1>4. /\ E(parts) \in [1..n -> Seq(S)] /\ E(more) \in [1..(n + 1) -> Seq(S)]
      /\ E(more)[n + 1] = Enclosed(x)
  <2>1. n + 1 \in 1..(n + 1)
    BY <1>1
  <2> QED BY <1>1, <1>2, <2>1
<1>5. \A i \in 1..n : E(more)[i] = E(parts)[i]
  <2> TAKE i \in 1..n
  <2>1. i \in 1..(n + 1)
    BY <1>1
  <2> QED BY <1>1, <1>2, <2>1
<1>6. FlattenSeq(E(more)) = FlattenSeq(E(parts)) \o E(more)[n + 1] /\ FlattenSeq(E(parts)) \in Seq(S)
  BY <1>1, <1>4, <1>5, FlattenLonger
<1> QED BY <1>3, <1>4, <1>6 DEF more

LEMMA EnclosedNoParts == EnclosedParts(<<>>) = <<>>
<1> DEFINE parts == [k \in DOMAIN <<>> |-> <<Quote>> \o <<>>[k] \o <<Quote>>]
<1>1. parts = <<>>
  OBVIOUS
<1> QED BY <1>1, FlattenEmpty, Zenon DEF EnclosedParts

(* Append, as a symbol of its own.                                         *)
Grown(s, c) == Append(s, c)

(* Split at its symbol, else extended: the last part l.                    *)
LEMMA SplitLast ==
  ASSUME NEW S, NEW p \in Seq(Seq(S)), NEW l \in Seq(S), NEW c \in S, NEW symbol
  PROVE  SplitSymbol(Grown(p, l), c, symbol) =
           IF c = symbol THEN Grown(Grown(p, l), <<>>) ELSE Grown(p, Grown(l, c))
<1> DEFINE pl == Append(p, l)
           lc == Append(l, c)
           n == Len(p) + 1
           e == [pl EXCEPT ![Len(pl)] = Append(@, c)]
<1>1. /\ pl \in Seq(Seq(S)) /\ Len(pl) = n /\ pl[n] = l /\ \A i \in 1..Len(p) : pl[i] = p[i]
      /\ lc \in Seq(S) /\ Len(p) \in Nat
  BY AppendProperties, LenProperties
<1>2. SplitSymbol(pl, c, symbol) = IF c = symbol THEN Append(pl, <<>>) ELSE e
  BY DEF SplitSymbol
<1> HIDE DEF pl
<1>3. e \in Seq(Seq(S)) /\ Len(e) = n /\ e[n] = lc /\ \A i \in 1..Len(p) : e[i] = p[i]
  <2>1. n \in 1..Len(pl)
    BY <1>1
  <2>2. e = [pl EXCEPT ![n] = lc]
    BY <1>1
  <2>3. /\ e \in Seq(Seq(S)) /\ Len(e) = Len(pl)
        /\ \A i \in 1..Len(pl) : e[i] = IF i = n THEN lc ELSE pl[i]
    <3> HIDE DEF e, lc, n
    <3> QED BY <1>1, <2>1, <2>2, ExceptSeq
  <2>4. \A i \in 1..Len(p) : i \in 1..Len(pl) /\ i # n
    BY <1>1
  <2> HIDE DEF e
  <2> QED BY <1>1, <2>1, <2>3, <2>4
<1> HIDE DEF e, lc
<1>4. e = Append(p, lc)
  BY <1>1, <1>3, IsAppended
<1> QED BY <1>2, <1>4 DEF pl, lc, Grown

(* Reading one part more of a quoted message.                              *)
LEMMA ReadQuotedPart ==
  ASSUME NEW S, Quote \in S, NEW p \in Seq(Seq(S)), NEW l \in Seq(S), NEW r
  PROVE  ReadFrom(r, EnclosedParts(Append(p, l))) =
           ReadSymbol(ReadFrom(ReadFrom(r, EnclosedParts(p)), Opened(l)), Quote)
<1> DEFINE before == EnclosedParts(p)
           q == ReadFrom(r, before)
<1>1. EnclosedParts(Append(p, l)) = before \o Enclosed(l) /\ before \in Seq(S)
  BY EnclosedPartsAre
<1>2. Enclosed(l) = Append(Opened(l), Quote) /\ Opened(l) \in Seq(S) /\ Enclosed(l) \in Seq(S)
  BY EnclosedIs
<1>3. ReadFrom(r, before \o Enclosed(l)) = ReadFrom(q, Enclosed(l))
  <2> DEFINE e == Enclosed(l)
  <2>1. before \in Seq(S) /\ e \in Seq(S)
    BY <1>1, <1>2
  <2> HIDE DEF before, e
  <2>2. ReadFrom(r, before \o e) = ReadFrom(ReadFrom(r, before), e)
    BY <2>1, ReadConcat
  <2> QED BY <2>2 DEF e
<1>4. ReadFrom(q, Append(Opened(l), Quote)) = ReadSymbol(ReadFrom(q, Opened(l)), Quote)
  <2> HIDE DEF q
  <2> QED BY <1>2, ReadAppended
<1> QED BY <1>1, <1>2, <1>3, <1>4

(* A quoted message is read as it is.                                      *)
LEMMA ReadQuoted ==
  ASSUME NEW S, Quote \in S, NEW rows, NEW row, NEW m \in Seq(S)
  PROVE  /\ Quoted(m) \in Seq(S)
         /\ ReadFrom(Outside(rows, row, <<>>), Quoted(m)) = After(rows, row, m)
<1> DEFINE r == Outside(rows, row, <<>>)
           Read(p, l, t) == ReadFrom(ReadFrom(r, EnclosedParts(p)), Opened(l)) = Inside(rows, row, t)
           T == {t \in Seq(S) : \E p \in Seq(Seq(S)), l \in Seq(S) : Split(t, Quote) = Append(p, l) /\ Read(p, l, t)}
<1>1. <<>> \in T
  <2>1. Split(<<>>, Quote) = Append(<<>>, <<>>)
    BY SplitNothing
  <2>2. ReadFrom(r, EnclosedParts(<<>>)) = r
    BY EnclosedNoParts, ReadNothing
  <2>3. Opened(<<>>) = <<Quote>>
    <3> DEFINE e == <<>>
    <3>1. e \in Seq(S)
      OBVIOUS
    <3>2. Opened(<<>>) = <<Quote>>
      BY <3>1, EnclosedIs
    <3> QED BY <3>2
  <2>4. ReadFrom(r, <<Quote>>) = Inside(rows, row, <<>>)
    BY ReadOne, ReadQuote
  <2>5. Read(<<>>, <<>>, <<>>)
    BY <2>2, <2>3, <2>4
  <2>6. <<>> \in Seq(S) /\ <<>> \in Seq(Seq(S))
    OBVIOUS
  <2> HIDE DEF Read
  <2> QED BY <2>1, <2>5, <2>6
<1> HIDE DEF r
<1>2. ASSUME NEW t \in Seq(S), NEW c \in S, t \in T PROVE Append(t, c) \in T
  <2>1. PICK p \in Seq(Seq(S)), l \in Seq(S) : Split(t, Quote) = Append(p, l) /\ Read(p, l, t)
    BY <1>2
  <2> DEFINE tc == Append(t, c)
             pl == Append(p, l)
             lc == Append(l, c)
  <2>2. tc \in Seq(S) /\ pl \in Seq(Seq(S)) /\ lc \in Seq(S) /\ <<>> \in Seq(S)
    OBVIOUS
  <2>3. Split(tc, Quote) = IF c = Quote THEN Append(pl, <<>>) ELSE Append(p, lc)
    <3>1. Split(tc, Quote) = SplitSymbol(Split(t, Quote), c, Quote)
      BY SplitAppended
    <3>2. SplitSymbol(pl, c, Quote) = IF c = Quote THEN Append(pl, <<>>) ELSE Append(p, lc)
      <4>1. SplitSymbol(Grown(p, l), c, Quote) =
              IF c = Quote THEN Grown(Grown(p, l), <<>>) ELSE Grown(p, Grown(l, c))
        BY SplitLast
      <4> QED BY <4>1 DEF Grown
    <3> QED BY <2>1, <3>1, <3>2
  <2>4. CASE c = Quote
    <3>1. ReadFrom(r, EnclosedParts(pl)) = After(rows, row, t)
      <4>1. ReadFrom(r, EnclosedParts(pl)) = ReadSymbol(ReadFrom(ReadFrom(r, EnclosedParts(p)), Opened(l)), Quote)
        BY ReadQuotedPart
      <4>2. ReadSymbol(Inside(rows, row, t), Quote) = After(rows, row, t)
        BY ReadQuote
      <4> QED BY <2>1, <4>1, <4>2
    <3>2. ReadFrom(After(rows, row, t), Opened(<<>>)) = Inside(rows, row, tc)
      <4>1. Opened(<<>>) = <<Quote>>
        BY <2>2, EnclosedIs
      <4>2. ReadFrom(After(rows, row, t), <<Quote>>) = ReadSymbol(After(rows, row, t), Quote)
        BY ReadOne
      <4>3. ReadSymbol(After(rows, row, t), Quote) = Inside(rows, row, Append(t, Quote))
        BY ReadQuote
      <4> QED BY <2>4, <4>1, <4>2, <4>3
    <3>3. Read(pl, <<>>, tc)
      BY <3>1, <3>2
    <3> HIDE DEF Read, tc, pl
    <3>4. Split(tc, Quote) = Append(pl, <<>>)
      BY <2>3, <2>4
    <3>5. tc \in T
      BY <2>2, <3>3, <3>4
    <3> QED BY <3>5 DEF tc
  <2>5. CASE c # Quote
    <3>1. Opened(lc) = Append(Opened(l), c) /\ Opened(l) \in Seq(S)
      BY EnclosedIs
    <3> DEFINE q == ReadFrom(r, EnclosedParts(p))
    <3>2. ReadFrom(q, Append(Opened(l), c)) = ReadSymbol(ReadFrom(q, Opened(l)), c)
      <4> HIDE DEF q
      <4> QED BY <3>1, ReadAppended
    <3>3. ReadSymbol(Inside(rows, row, t), c) = Inside(rows, row, tc)
      BY <2>5, ReadInside
    <3>4. Read(p, lc, tc)
      BY <2>1, <3>1, <3>2, <3>3
    <3> HIDE DEF Read, tc, lc
    <3>5. Split(tc, Quote) = Append(p, lc)
      BY <2>3, <2>5
    <3>6. tc \in T
      BY <2>1, <2>2, <3>4, <3>5
    <3> QED BY <3>6 DEF tc
  <2> QED BY <2>4, <2>5
<1>3. Seq(S) \subseteq T
  <2> HIDE DEF T
  <2> QED BY <1>1, <1>2, StringInduction
<1>4. PICK p \in Seq(Seq(S)), l \in Seq(S) : Split(m, Quote) = Append(p, l) /\ Read(p, l, m)
  BY <1>3
<1>5. Quoted(m) = EnclosedParts(Append(p, l))
  BY <1>4 DEF Quoted, Tokens, EnclosedParts
<1>6. ReadFrom(r, EnclosedParts(Append(p, l))) = ReadSymbol(ReadFrom(ReadFrom(r, EnclosedParts(p)), Opened(l)), Quote)
  BY ReadQuotedPart
<1>7. ReadSymbol(Inside(rows, row, m), Quote) = After(rows, row, m)
  BY ReadQuote
<1>8. EnclosedParts(Append(p, l)) \in Seq(S)
  <2> DEFINE pl == Append(p, l)
  <2>1. pl \in Seq(Seq(S)) /\ l \in Seq(S)
    OBVIOUS
  <2> HIDE DEF pl
  <2>2. EnclosedParts(pl) \in Seq(S)
    BY <2>1, EnclosedPartsAre
  <2> QED BY <2>2 DEF pl
<1> QED BY <1>4, <1>5, <1>6, <1>7, <1>8 DEF r

-----------------------------------------------------------------------------
(* Converters.                                                             *)

Line(c) == IF c = Newline THEN <<Return, c>> ELSE <<c>>

LEMMA LineType ==
  ASSUME NEW S, Return \in S, NEW c \in S
  PROVE  Line(c) \in Seq(S)
<1>1. <<Return, c>> \in Seq(S) /\ <<c>> \in Seq(S)
  OBVIOUS
<1> QED BY <1>1 DEF Line

LEMMA FixNothing == fixLineEndings(<<>>) = <<>>
<1> DEFINE parts == [i \in DOMAIN <<>> |-> IF <<>>[i] = Newline THEN <<Return, <<>>[i]>> ELSE <<<<>>[i]>>]
<1>1. parts = <<>>
  OBVIOUS
<1> QED BY <1>1, FlattenEmpty, Zenon DEF fixLineEndings

LEMMA FixAppended ==
  ASSUME NEW S, Return \in S, NEW s \in Seq(S), NEW c \in S
  PROVE  /\ fixLineEndings(Append(s, c)) = fixLineEndings(s) \o Line(c)
         /\ fixLineEndings(s) \in Seq(S)
<1> DEFINE sc == Append(s, c)
           n == Len(s)
           E(t) == [i \in DOMAIN t |-> IF t[i] = Newline THEN <<Return, t[i]>> ELSE <<t[i]>>]
<1>1. n \in Nat /\ sc \in Seq(S) /\ Len(sc) = n + 1 /\ sc[n + 1] = c /\ \A i \in 1..n : sc[i] = s[i]
  BY AppendProperties, LenProperties
<1> HIDE DEF sc
<1>2. ASSUME NEW t \in Seq(S)
      PROVE  E(t) \in [1..Len(t) -> Seq(S)] /\ \A k \in 1..Len(t) : E(t)[k] = Line(t[k])
  <2>1. DOMAIN t = 1..Len(t) /\ \A k \in 1..Len(t) : t[k] \in S
    BY LenProperties, ElementOfSeq
  <2>2. E(t) = [k \in 1..Len(t) |-> Line(t[k])]
    BY <2>1 DEF Line
  <2>3. \A k \in 1..Len(t) : Line(t[k]) \in Seq(S)
    BY <2>1, LineType
  <2> HIDE DEF E
  <2> QED BY <2>2, <2>3
<1>3. fixLineEndings(sc) = FlattenSeq(E(sc)) /\ fixLineEndings(s) = FlattenSeq(E(s))
  BY Zenon DEF fixLineEndings
<1> HIDE DEF E
<1>4. E(s) \in [1..n -> Seq(S)] /\ E(sc) \in [1..(n + 1) -> Seq(S)] /\ E(sc)[n + 1] = Line(c)
  <2>1. n + 1 \in 1..(n + 1)
    BY <1>1
  <2> QED BY <1>1, <1>2, <2>1
<1>5. \A i \in 1..n : E(sc)[i] = E(s)[i]
  <2> TAKE i \in 1..n
  <2>1. i \in 1..(n + 1)
    BY <1>1
  <2> QED BY <1>1, <1>2, <2>1
<1>6. FlattenSeq(E(sc)) = FlattenSeq(E(s)) \o E(sc)[n + 1] /\ FlattenSeq(E(s)) \in Seq(S)
  BY <1>1, <1>4, <1>5, FlattenLonger
<1> QED BY <1>3, <1>4, <1>6 DEF sc

(* Line endings are converted piece by piece.                              *)
LEMMA FixConcat ==
  ASSUME NEW S, Return \in S, NEW a \in Seq(S), NEW b \in Seq(S)
  PROVE  fixLineEndings(a \o b) = fixLineEndings(a) \o fixLineEndings(b)
<1> DEFINE fa == fixLineEndings(a)
           T == {t \in Seq(S) : fixLineEndings(a \o t) = fa \o fixLineEndings(t)}
<1>0. fa \in Seq(S)
  BY FixAppended
<1> HIDE DEF fa
<1>1. <<>> \in T
  <2>1. a \o <<>> = a /\ fa \o <<>> = fa
    BY <1>0, ConcatEmptySeq
  <2>2. <<>> \in Seq(S)
    OBVIOUS
  <2> QED BY <2>1, <2>2, FixNothing DEF fa
<1>2. ASSUME NEW t \in Seq(S), NEW c \in S, t \in T PROVE Append(t, c) \in T
  <2> DEFINE at == a \o t
             tc == Append(t, c)
             ft == fixLineEndings(t)
  <2>1. at \in Seq(S) /\ tc \in Seq(S) /\ a \o tc = Append(at, c)
    BY AppendToConcat, ConcatProperties
  <2>2. fixLineEndings(at) = fa \o ft
    BY <1>2
  <2>3. fixLineEndings(tc) = ft \o Line(c) /\ ft \in Seq(S)
    BY FixAppended
  <2>4. fixLineEndings(Append(at, c)) = fixLineEndings(at) \o Line(c)
    <3> HIDE DEF at
    <3> QED BY <2>1, FixAppended
  <2>5. Line(c) \in Seq(S)
    BY LineType
  <2> DEFINE line == Line(c)
  <2> HIDE DEF ft
  <2>6. (fa \o ft) \o line = fa \o (ft \o line)
    <3>1. line \in Seq(S)
      BY <2>5
    <3> HIDE DEF line
    <3> QED BY <1>0, <2>3, <3>1, ConcatAssociative
  <2>7. fixLineEndings(a \o tc) = fa \o fixLineEndings(tc)
    BY <2>1, <2>2, <2>3, <2>4, <2>6
  <2> QED BY <2>1, <2>7
<1>3. Seq(S) \subseteq T
  <2> HIDE DEF T
  <2> QED BY <1>1, <1>2, StringInduction
<1> QED BY <1>3 DEF fa

-----------------------------------------------------------------------------
(* What is dropped when a text file is read: the byte order mark, ...      *)
Marked(file, i) == i = 1 /\ file[i] = BOM
UnixText(file) == FlattenSeq([i \in DOMAIN file |-> IF Marked(file, i) THEN <<>> ELSE <<file[i]>>])

(* ... and on Windows what precedes a newline.                             *)
Ends(file, i) == i < Len(file) /\ file[i] = Return /\ file[i + 1] = Newline
WindowsText(file) ==
  FlattenSeq([i \in DOMAIN file |-> IF Marked(file, i) \/ Ends(file, i) THEN <<>> ELSE <<file[i]>>])

LEMMA TextIs ==
  \A file : ReadText(FALSE, file) = UnixText(file) /\ ReadText(TRUE, file) = WindowsText(file)
<1> TAKE file
<1>1. ReadText(FALSE, file) = UnixText(file)
  BY DEF ReadText, UnixText, Marked
<1>2. ReadText(TRUE, file) = WindowsText(file)
  BY DEF ReadText, WindowsText, Marked, Ends
<1> QED BY <1>1, <1>2

LEMMA UnixAppended ==
  ASSUME NEW S, NEW s \in Seq(S), s # <<>>, NEW c \in S
  PROVE  UnixText(Append(s, c)) = UnixText(s) \o <<c>> /\ UnixText(s) \in Seq(S)
<1> DEFINE sc == Append(s, c)
           n == Len(s)
           part(t, i) == IF Marked(t, i) THEN <<>> ELSE <<t[i]>>
           E(t) == [i \in DOMAIN t |-> IF Marked(t, i) THEN <<>> ELSE <<t[i]>>]
<1>1. n \in Nat /\ sc \in Seq(S) /\ Len(sc) = n + 1 /\ sc[n + 1] = c /\ \A i \in 1..n : sc[i] = s[i]
  BY AppendProperties, LenProperties
<1>2. n # 0
  BY EmptySeq
<1> HIDE DEF sc
<1>3. ASSUME NEW t \in Seq(S)
      PROVE  E(t) \in [1..Len(t) -> Seq(S)] /\ \A k \in 1..Len(t) : E(t)[k] = part(t, k)
  <2>1. DOMAIN t = 1..Len(t) /\ \A k \in 1..Len(t) : t[k] \in S
    BY LenProperties, ElementOfSeq
  <2>2. \A k \in 1..Len(t) : <<t[k]>> \in Seq(S) /\ <<>> \in Seq(S)
    BY <2>1
  <2> QED BY <2>1, <2>2
<1>4. UnixText(sc) = FlattenSeq(E(sc)) /\ UnixText(s) = FlattenSeq(E(s))
  BY Zenon DEF UnixText
<1>5. part(sc, n + 1) = <<c>>
  BY <1>1, <1>2 DEF Marked
<1>6. \A i \in 1..n : part(sc, i) = part(s, i)
  BY <1>1 DEF Marked
<1> HIDE DEF E, part
<1>7. E(s) \in [1..n -> Seq(S)] /\ E(sc) \in [1..(n + 1) -> Seq(S)] /\ E(sc)[n + 1] = <<c>>
  <2>1. n + 1 \in 1..(n + 1)
    BY <1>1
  <2> QED BY <1>1, <1>3, <1>5, <2>1
<1>8. \A i \in 1..n : E(sc)[i] = E(s)[i]
  <2> TAKE i \in 1..n
  <2>1. i \in 1..(n + 1)
    BY <1>1
  <2> QED BY <1>1, <1>3, <1>6, <2>1
<1>9. FlattenSeq(E(sc)) = FlattenSeq(E(s)) \o E(sc)[n + 1] /\ FlattenSeq(E(s)) \in Seq(S)
  BY <1>1, <1>7, <1>8, FlattenLonger
<1> QED BY <1>4, <1>7, <1>9 DEF sc

LEMMA WindowsAppended ==
  ASSUME NEW S, NEW s \in Seq(S), s # <<>>, NEW c \in S, c # Newline
  PROVE  WindowsText(Append(s, c)) = WindowsText(s) \o <<c>> /\ WindowsText(s) \in Seq(S)
<1> DEFINE sc == Append(s, c)
           n == Len(s)
           Dropped(t, i) == Marked(t, i) \/ Ends(t, i)
           part(t, i) == IF Dropped(t, i) THEN <<>> ELSE <<t[i]>>
           E(t) == [i \in DOMAIN t |-> IF Marked(t, i) \/ Ends(t, i) THEN <<>> ELSE <<t[i]>>]
<1>1. n \in Nat /\ sc \in Seq(S) /\ Len(sc) = n + 1 /\ sc[n + 1] = c /\ \A i \in 1..n : sc[i] = s[i]
  BY AppendProperties, LenProperties
<1>2. n # 0
  BY EmptySeq
<1> HIDE DEF sc
<1>3. ASSUME NEW t \in Seq(S)
      PROVE  E(t) \in [1..Len(t) -> Seq(S)] /\ \A k \in 1..Len(t) : E(t)[k] = part(t, k)
  <2>1. DOMAIN t = 1..Len(t) /\ \A k \in 1..Len(t) : t[k] \in S
    BY LenProperties, ElementOfSeq
  <2>2. \A k \in 1..Len(t) : <<t[k]>> \in Seq(S) /\ <<>> \in Seq(S)
    BY <2>1
  <2> QED BY <2>1, <2>2
<1>4. WindowsText(sc) = FlattenSeq(E(sc)) /\ WindowsText(s) = FlattenSeq(E(s))
  BY Zenon DEF WindowsText
<1>5. part(sc, n + 1) = <<c>>
  <2>1. ~Marked(sc, n + 1) /\ ~Ends(sc, n + 1)
    BY <1>1, <1>2 DEF Marked, Ends
  <2> QED BY <1>1, <2>1
<1>6. \A i \in 1..n : part(sc, i) = part(s, i)
  <2> TAKE i \in 1..n
  <2>1. sc[i] = s[i] /\ (Marked(sc, i) <=> Marked(s, i))
    BY <1>1 DEF Marked
  <2>2. CASE i = n
    <3>1. ~Ends(sc, i) /\ ~Ends(s, i)
      BY <1>1, <2>2 DEF Ends
    <3> QED BY <2>1, <3>1
  <2>3. CASE i # n
    <3>1. i + 1 \in 1..n /\ i < n /\ i < n + 1
      BY <1>1, <2>3
    <3>2. Ends(sc, i) <=> Ends(s, i)
      BY <1>1, <2>1, <3>1 DEF Ends
    <3> QED BY <2>1, <3>2
  <2> QED BY <2>2, <2>3
<1> HIDE DEF E, part
<1>7. E(s) \in [1..n -> Seq(S)] /\ E(sc) \in [1..(n + 1) -> Seq(S)] /\ E(sc)[n + 1] = <<c>>
  <2>1. n + 1 \in 1..(n + 1)
    BY <1>1
  <2> QED BY <1>1, <1>3, <1>5, <2>1
<1>8. \A i \in 1..n : E(sc)[i] = E(s)[i]
  <2> TAKE i \in 1..n
  <2>1. i \in 1..(n + 1)
    BY <1>1
  <2> QED BY <1>1, <1>3, <1>6, <2>1
<1>9. FlattenSeq(E(sc)) = FlattenSeq(E(s)) \o E(sc)[n + 1] /\ FlattenSeq(E(s)) \in Seq(S)
  BY <1>1, <1>7, <1>8, FlattenLonger
<1> QED BY <1>4, <1>7, <1>9 DEF sc

(* Of a line ending the newline remains.                                   *)
LEMMA WindowsLine ==
  ASSUME NEW S, Return \in S, Newline \in S, NEW s \in Seq(S), s # <<>>
  PROVE  WindowsText(Append(Append(s, Return), Newline)) = WindowsText(s) \o <<Newline>>
<1> DEFINE sr == Append(s, Return)
           sn == Append(sr, Newline)
           n == Len(s)
           Dropped(t, i) == Marked(t, i) \/ Ends(t, i)
           part(t, i) == IF Dropped(t, i) THEN <<>> ELSE <<t[i]>>
           E(t) == [i \in DOMAIN t |-> IF Marked(t, i) \/ Ends(t, i) THEN <<>> ELSE <<t[i]>>]
<1>0. n \in Nat /\ sr \in Seq(S) /\ Len(sr) = n + 1 /\ sr[n + 1] = Return /\ \A i \in 1..n : sr[i] = s[i]
  BY AppendProperties, LenProperties
<1> HIDE DEF sr
<1>1. /\ sn \in Seq(S) /\ Len(sn) = n + 2 /\ sn[n + 2] = Newline /\ sn[n + 1] = Return
      /\ \A i \in 1..n : sn[i] = s[i]
  <2>1. sn \in Seq(S) /\ Len(sn) = (n + 1) + 1 /\ sn[(n + 1) + 1] = Newline /\ \A i \in 1..(n + 1) : sn[i] = sr[i]
    BY <1>0, AppendProperties
  <2>2. (n + 1) + 1 = n + 2 /\ n + 1 \in 1..(n + 1) /\ \A i \in 1..n : i \in 1..(n + 1)
    BY <1>0
  <2> HIDE DEF sn
  <2> QED BY <1>0, <2>1, <2>2
<1>2. n # 0
  BY EmptySeq
<1> HIDE DEF sn
<1>3. ASSUME NEW t \in Seq(S)
      PROVE  E(t) \in [1..Len(t) -> Seq(S)] /\ \A k \in 1..Len(t) : E(t)[k] = part(t, k)
  <2>1. DOMAIN t = 1..Len(t) /\ \A k \in 1..Len(t) : t[k] \in S
    BY LenProperties, ElementOfSeq
  <2>2. \A k \in 1..Len(t) : <<t[k]>> \in Seq(S) /\ <<>> \in Seq(S)
    BY <2>1
  <2> QED BY <2>1, <2>2
<1>4. WindowsText(sn) = FlattenSeq(E(sn)) /\ WindowsText(s) = FlattenSeq(E(s))
  BY Zenon DEF WindowsText
<1>5. part(sn, n + 2) = <<Newline>> /\ part(sn, n + 1) = <<>>
  <2>1. ~Marked(sn, n + 2) /\ ~Ends(sn, n + 2)
    BY <1>0, <1>1, <1>2 DEF Marked, Ends
  <2>2. Ends(sn, n + 1)
    <3>1. n + 1 < n + 2 /\ (n + 1) + 1 = n + 2
      BY <1>0
    <3> QED BY <1>1, <3>1 DEF Ends
  <2> QED BY <1>1, <2>1, <2>2
<1>6. \A i \in 1..n : part(sn, i) = part(s, i)
  <2> TAKE i \in 1..n
  <2>1. sn[i] = s[i] /\ (Marked(sn, i) <=> Marked(s, i))
    BY <1>1 DEF Marked
  <2>2. CASE i = n
    <3>1. ~Ends(sn, i) /\ ~Ends(s, i)
      <4>1. Return # Newline
        BY DEF Return, Newline
      <4> QED BY <1>0, <1>1, <2>2, <4>1 DEF Ends
    <3> QED BY <2>1, <3>1
  <2>3. CASE i # n
    <3>1. i + 1 \in 1..n /\ i < n /\ i < n + 2
      BY <1>0, <2>3
    <3>2. Ends(sn, i) <=> Ends(s, i)
      BY <1>1, <2>1, <3>1 DEF Ends
    <3> QED BY <2>1, <3>2
  <2> QED BY <2>2, <2>3
<1> HIDE DEF E, part
<1> DEFINE f == E(s)
           g == E(sn)
           m == [i \in 1..(n + 1) |-> g[i]]
<1>7. /\ f \in [1..n -> Seq(S)] /\ g \in [1..(n + 2) -> Seq(S)] /\ g[n + 2] = <<Newline>> /\ g[n + 1] = <<>>
      /\ \A i \in 1..n : g[i] = f[i]
  <2>1. n + 1 \in 1..(n + 2) /\ n + 2 \in 1..(n + 2) /\ \A i \in 1..n : i \in 1..(n + 2)
    BY <1>0
  <2> QED BY <1>0, <1>1, <1>3, <1>5, <1>6, <2>1
<1> HIDE DEF f, g
<1>8. /\ m \in [1..(n + 1) -> Seq(S)] /\ m[n + 1] = <<>> /\ \A i \in 1..n : m[i] = f[i]
      /\ \A i \in 1..(n + 1) : g[i] = m[i]
  BY <1>0, <1>7
<1> HIDE DEF m
<1>9. FlattenSeq(m) = FlattenSeq(f) \o <<>> /\ FlattenSeq(f) \in Seq(S)
  <2>1. FlattenSeq(m) = FlattenSeq(f) \o m[n + 1] /\ FlattenSeq(f) \in Seq(S)
    BY <1>0, <1>7, <1>8, FlattenLonger
  <2> QED BY <1>8, <2>1
<1>10. FlattenSeq(g) = FlattenSeq(m) \o <<Newline>>
  <2>1. n + 1 \in Nat /\ (n + 1) + 1 = n + 2
    BY <1>0
  <2>2. g \in [1..((n + 1) + 1) -> Seq(S)]
    BY <1>7, <2>1
  <2>3. FlattenSeq(g) = FlattenSeq(m) \o g[(n + 1) + 1]
    BY <1>8, <2>1, <2>2, FlattenLonger
  <2> QED BY <1>7, <2>1, <2>3
<1>11. FlattenSeq(f) \o <<>> = FlattenSeq(f)
  BY <1>9, ConcatEmptySeq
<1> QED BY <1>4, <1>9, <1>10, <1>11 DEF sn, sr, f, g

Sent(s) == <<BOM>> \o s

(* What follows the byte order mark grows symbol by symbol.                *)
LEMMA SentIs ==
  ASSUME NEW S, BOM \in S, NEW s \in Seq(S)
  PROVE  /\ Sent(s) \in Seq(S) /\ Sent(s) # <<>> /\ Sent(<<>>) = <<BOM>>
         /\ \A c \in S : Sent(Append(s, c)) = Append(Sent(s), c)
<1> DEFINE b == <<BOM>>
<1>1. b \in Seq(S) /\ b # <<>>
  OBVIOUS
<1>2. b \o s \in Seq(S) /\ b \o s # <<>> /\ b \o <<>> = b
  <2> HIDE DEF b
  <2> QED BY <1>1, ConcatProperties, ConcatEmptySeq, ConcatEqualIffEmpty
<1>3. ASSUME NEW c \in S PROVE b \o Append(s, c) = Append(b \o s, c)
  <2> HIDE DEF b
  <2> QED BY <1>1, AppendToConcat
<1> QED BY <1>2, <1>3 DEF Sent

LEMMA MarkDropped == UnixText(<<BOM>>) = <<>> /\ WindowsText(<<BOM>>) = <<>>
<1> DEFINE b == <<BOM>>
           parts == [i \in DOMAIN b |-> <<>>]
<1>1. DOMAIN b = 1..1 /\ \A i \in DOMAIN b : Marked(b, i)
  BY DEF Marked
<1>2. UnixText(b) = FlattenSeq(parts)
  BY <1>1 DEF UnixText
<1>3. WindowsText(b) = FlattenSeq(parts)
  BY <1>1 DEF WindowsText
<1>4. FlattenSeq(parts) = <<>>
  <2> DEFINE S == {BOM}
             e == <<>>
             ee == <<>>
  <2>1. parts = Append(ee, e) /\ ee \in Seq(Seq(S)) /\ e \in Seq(S)
    BY <1>1
  <2> HIDE DEF S, parts, ee, e
  <2>2. FlattenSeq(parts) = FlattenSeq(ee) \o e
    BY <2>1, FlattenAppended
  <2>3. FlattenSeq(ee) = <<>> /\ e = <<>>
    BY FlattenEmpty DEF ee, e
  <2>4. <<>> \o <<>> = <<>>
    OBVIOUS
  <2> QED BY <2>2, <2>3, <2>4
<1> QED BY <1>2, <1>3, <1>4

(* A text file is read as it was written, ...                              *)
LEMMA UnixReads ==
  ASSUME NEW S, BOM \in S, NEW s \in Seq(S)
  PROVE  UnixText(Sent(s)) = s
<1> DEFINE T == {t \in Seq(S) : UnixText(Sent(t)) = t}
<1>1. <<>> \in T
  <2>1. Sent(<<>>) = <<BOM>>
    BY SentIs
  <2>2. <<>> \in Seq(S)
    OBVIOUS
  <2> QED BY <2>1, <2>2, MarkDropped
<1>2. ASSUME NEW t \in Seq(S), NEW c \in S, t \in T PROVE Append(t, c) \in T
  <2> DEFINE st == Sent(t)
  <2>1. st \in Seq(S) /\ st # <<>> /\ Sent(Append(t, c)) = Append(st, c)
    BY SentIs
  <2> HIDE DEF st
  <2>2. UnixText(Append(st, c)) = UnixText(st) \o <<c>>
    BY <2>1, UnixAppended
  <2>3. UnixText(st) = t
    BY <1>2 DEF st
  <2>4. Append(t, c) = t \o <<c>> /\ Append(t, c) \in Seq(S)
    BY AppendIsConcat
  <2> QED BY <2>1, <2>2, <2>3, <2>4
<1>3. Seq(S) \subseteq T
  <2> HIDE DEF T
  <2> QED BY <1>1, <1>2, StringInduction
<1> QED BY <1>3

(* ... also when its line endings are converted and converted back.        *)
LEMMA WindowsReads ==
  ASSUME NEW S, BOM \in S, Return \in S, Newline \in S, NEW s \in Seq(S)
  PROVE  WindowsText(Sent(fixLineEndings(s))) = s
<1> DEFINE T == {t \in Seq(S) : WindowsText(Sent(fixLineEndings(t))) = t}
<1>1. <<>> \in T
  <2>1. Sent(<<>>) = <<BOM>>
    BY SentIs
  <2>2. <<>> \in Seq(S)
    OBVIOUS
  <2> QED BY <2>1, <2>2, MarkDropped, FixNothing
<1>2. ASSUME NEW t \in Seq(S), NEW c \in S, t \in T PROVE Append(t, c) \in T
  <2> DEFINE ft == fixLineEndings(t)
             st == Sent(ft)
             tc == Append(t, c)
  <2>1. ft \in Seq(S) /\ fixLineEndings(tc) = ft \o Line(c)
    BY FixAppended
  <2>2. WindowsText(st) = t
    BY <1>2
  <2>3. tc = t \o <<c>> /\ tc \in Seq(S)
    BY AppendIsConcat
  <2> HIDE DEF ft, T, tc
  <2>4. st \in Seq(S) /\ st # <<>>
    BY <2>1, SentIs
  <2>5. CASE c = Newline
    <3> DEFINE fr == Append(ft, Return)
               fn == Append(fr, Newline)
    <3>1. fr = ft \o <<Return>> /\ fr \in Seq(S)
      BY <2>1, AppendIsConcat
    <3>2. ft \o Line(c) = fn
      <4>1. Line(c) = <<Return, Newline>>
        BY <2>5 DEF Line
      <4>2. ft \o <<Return, Newline>> = Append(Append(ft, Return), Newline)
        BY <2>1
      <4> QED BY <4>1, <4>2
    <3>3. Sent(fr) = Append(st, Return)
      BY <2>1, SentIs
    <3>4. Sent(fn) = Append(Sent(fr), Newline)
      <4> HIDE DEF fr
      <4> QED BY <3>1, SentIs
    <3>5. WindowsText(Append(Append(st, Return), Newline)) = WindowsText(st) \o <<Newline>>
      <4> HIDE DEF st
      <4> QED BY <2>4, WindowsLine
    <3>6. WindowsText(Sent(fixLineEndings(tc))) = tc
      BY <2>1, <2>2, <2>3, <2>5, <3>2, <3>3, <3>4, <3>5
    <3> QED BY <2>3, <3>6 DEF T, tc
  <2>6. CASE c # Newline
    <3>1. ft \o Line(c) = Append(ft, c)
      <4>1. Line(c) = <<c>>
        BY <2>6 DEF Line
      <4>2. Append(ft, c) = ft \o <<c>>
        BY <2>1, AppendIsConcat
      <4> QED BY <4>1, <4>2
    <3>2. Sent(Append(ft, c)) = Append(st, c)
      BY <2>1, SentIs
    <3>3. WindowsText(Append(st, c)) = WindowsText(st) \o <<c>>
      <4> HIDE DEF st
      <4> QED BY <2>4, <2>6, WindowsAppended
    <3>4. WindowsText(Sent(fixLineEndings(tc))) = tc
      BY <2>1, <2>2, <2>3, <3>1, <3>2, <3>3
    <3> QED BY <2>3, <3>4 DEF T, tc
  <2> QED BY <2>5, <2>6
<1>3. Seq(S) \subseteq T
  <2> HIDE DEF T
  <2> QED BY <1>1, <1>2, StringInduction
<1> QED BY <1>3

-----------------------------------------------------------------------------
(* The byte order mark is written once, before the header.                 *)
LEMMA SentConcat ==
  ASSUME NEW S, BOM \in S, NEW x \in Seq(S), NEW y \in Seq(S)
  PROVE  Sent(x) \o y = Sent(x \o y)
<1> DEFINE m == <<BOM>>
<1>1. m \in Seq(S)
  OBVIOUS
<1>2. (m \o x) \o y = m \o (x \o y)
  <2> HIDE DEF m
  <2> QED BY <1>1, ConcatAssociative
<1> QED BY <1>2 DEF Sent

(* What is read of a file written in three pieces.                         *)
LEMMA WrittenIsRead ==
  ASSUME NEW S, BOM \in S, Return \in S, Newline \in S,
         NEW a \in Seq(S), NEW b \in Seq(S), NEW c \in Seq(S), NEW windows \in BOOLEAN
  PROVE  ReadText(windows, ConvertedHeader(windows, a) \o Converted(windows, b) \o Converted(windows, c))
           = a \o b \o c
<1> DEFINE ab == a \o b
           abc == ab \o c
<1>1. ab \in Seq(S)
  BY ConcatProperties
<1> HIDE DEF ab
<1>2. abc \in Seq(S)
  BY <1>1, ConcatProperties
<1> HIDE DEF abc
<1>4. CASE windows = FALSE
  <2>1. ConvertedHeader(windows, a) \o Converted(windows, b) \o Converted(windows, c) = (Sent(a) \o b) \o c
    BY <1>4 DEF ConvertedHeader, Converted, Sent
  <2>2. Sent(a) \o b = Sent(ab)
    BY SentConcat DEF ab
  <2>3. Sent(ab) \o c = Sent(abc)
    BY <1>1, SentConcat DEF abc
  <2>4. UnixText(Sent(abc)) = abc
    BY <1>2, UnixReads
  <2>5. ReadText(windows, Sent(abc)) = UnixText(Sent(abc))
    BY <1>4, TextIs
  <2> QED BY <2>1, <2>2, <2>3, <2>4, <2>5 DEF abc, ab
<1>5. CASE windows = TRUE
  <2> DEFINE fa == fixLineEndings(a)
             fb == fixLineEndings(b)
             fc == fixLineEndings(c)
             fab == fixLineEndings(ab)
  <2>1. ConvertedHeader(windows, a) \o Converted(windows, b) \o Converted(windows, c) = (Sent(fa) \o fb) \o fc
    BY <1>5 DEF ConvertedHeader, Converted, Sent
  <2>2. fa \in Seq(S) /\ fb \in Seq(S) /\ fc \in Seq(S) /\ fab \in Seq(S)
    <3>1. \A s \in Seq(S) : fixLineEndings(s) \in Seq(S)
      <4> TAKE s \in Seq(S)
      <4> QED BY FixAppended
    <3> QED BY <3>1, <1>1
  <2>3. fa \o fb = fab
    BY FixConcat DEF ab
  <2>4. fab \o fc = fixLineEndings(abc)
    BY <1>1, FixConcat DEF abc
  <2>5. Sent(fa) \o fb = Sent(fa \o fb)
    <3> HIDE DEF fa, fb, fc, fab
    <3> QED BY <2>2, SentConcat
  <2>6. Sent(fab) \o fc = Sent(fab \o fc)
    <3> HIDE DEF fa, fb, fc, fab
    <3> QED BY <2>2, SentConcat
  <2>7. WindowsText(Sent(fixLineEndings(abc))) = abc
    BY <1>2, WindowsReads
  <2>8. ReadText(windows, Sent(fixLineEndings(abc))) = WindowsText(Sent(fixLineEndings(abc)))
    BY <1>5, TextIs
  <2> HIDE DEF fa, fb, fc, fab
  <2> QED BY <2>1, <2>3, <2>4, <2>5, <2>6, <2>7, <2>8 DEF abc, ab
<1> QED BY <1>4, <1>5

(* A string without nul is read whole.                                     *)
LEMMA NulFree ==
  ASSUME NEW S, NEW s \in Seq(S \ {Nul})
  PROVE  UpToNul(s) = s
<1>1. PICK e \in 0..Len(s) : /\ UpToNul(s) = SubSeq(s, 1, e)
                             /\ \A i \in 1..e : s[i] # Nul
                             /\ e = Len(s) \/ s[e + 1] = Nul
  BY UpToNulIs
<1>2. e = Len(s)
  <2>1. \A i \in 1..Len(s) : s[i] # Nul
    OBVIOUS
  <2> QED BY <1>1, <2>1
<1>3. SubSeq(s, 1, Len(s)) = s
  OBVIOUS
<1> QED BY <1>1, <1>2, <1>3

(* The message of a record to which a string was streamed.                 *)
LEMMA StringMessage ==
  ASSUME NEW S, NEW s \in Seq(S)
  PROVE  getMessage(Out(Record, String(s))) = UpToNul(s)
<1> DEFINE u == UpToNul(s)
           v == String(s)
<1>1. u \in Seq(S \ {Nul})
  BY UpToNulType
<1>2. v.kind = "string" /\ v.of = s
  BY DEF String
<1>3. Out(Record, v) = OutString(Record, s)
  <2> HIDE DEF v
  <2>1. Out(Record, v) = OutPair(Record, v)
    BY <1>2 DEF Out
  <2>2. OutPair(Record, v) = OutElement(Record, v)
    BY <1>2 DEF OutPair
  <2>3. OutElement(Record, v) = OutString(Record, s)
    BY <1>2 DEF OutElement
  <2> QED BY <2>1, <2>2, <2>3
<1>4. OutString(Record, s).chars = <<>> \o u
  <2> HIDE DEF u
  <2>1. OutString(Record, s) = Put(Record, u)
    BY DEF OutString, OutCString, u
  <2> QED BY <2>1 DEF Put, Record
<1>5. <<>> \o u = u
  <2> HIDE DEF u
  <2> QED BY <1>1, ConcatEmptySeq
<1>6. UpToNul(u) = u
  BY <1>1, NulFree
<1> QED BY <1>3, <1>4, <1>5, <1>6 DEF getMessage

(* What is cut is a string still.                                          *)
LEMMA LimitedType ==
  ASSUME NEW S, "." \in S, NEW s \in Seq(S)
  PROVE  Limited(s) \in Seq(S)
<1> DEFINE d == Times(3, ".")
           t == SubSeq(s, 1, kMaxMessageSize)
<1>1. d \in Seq(S)
  BY DEF Times
<1>2. CASE Len(s) > kMaxMessageSize
  <2>1. t \in Seq(S)
    BY <1>2, FormatsAssumption, Part
  <2>2. t \o d \in Seq(S)
    <3> HIDE DEF t, d
    <3> QED BY <1>1, <2>1, ConcatProperties
  <2> QED BY <1>2, <2>2 DEF Limited
<1>3. CASE ~(Len(s) > kMaxMessageSize)
  BY <1>3 DEF Limited
<1> QED BY <1>2, <1>3

LEMMA PairAppended ==
  ASSUME NEW S, NEW a \in S, NEW b \in S
  PROVE  Append(<<a>>, b) = <<a, b>> /\ <<a, b>> \in Seq(S)
<1> DEFINE s == <<a>>
           t == <<a, b>>
<1>1. /\ s \in Seq(S) /\ t \in Seq(S) /\ Len(t) = Len(s) + 1
      /\ (\A i \in 1..Len(s) : t[i] = s[i]) /\ t[Len(s) + 1] = b
  OBVIOUS
<1> HIDE DEF s, t
<1>2. t = Append(s, b)
  BY <1>1, IsAppended
<1> QED BY <1>1, <1>2 DEF s, t

LEMMA TripleAppended ==
  ASSUME NEW S, NEW a \in S, NEW b \in S, NEW c \in S
  PROVE  Append(<<a, b>>, c) = <<a, b, c>> /\ <<a, b, c>> \in Seq(S)
<1> DEFINE s == <<a, b>>
           t == <<a, b, c>>
<1>1. s \in Seq(S) /\ t \in Seq(S) /\ Len(s) = 2 /\ Len(t) = 3
  OBVIOUS
<1>2. s[1] = a /\ s[2] = b /\ t[1] = a /\ t[2] = b /\ t[3] = c
  OBVIOUS
<1> HIDE DEF s, t
<1>3. Len(t) = Len(s) + 1 /\ (\A i \in 1..Len(s) : t[i] = s[i]) /\ t[Len(s) + 1] = c
  BY <1>1, <1>2
<1>4. t = Append(s, c)
  BY <1>1, <1>3, IsAppended
<1> QED BY <1>1, <1>4 DEF s, t

LEMMA FourAppended ==
  ASSUME NEW S, NEW a \in S, NEW b \in S, NEW c \in S, NEW d \in S
  PROVE  Append(<<a, b, c>>, d) = <<a, b, c, d>> /\ <<a, b, c, d>> \in Seq(S)
<1> DEFINE s == <<a, b, c>>
           t == <<a, b, c, d>>
<1>1. s \in Seq(S) /\ t \in Seq(S) /\ Len(s) = 3 /\ Len(t) = 4
  OBVIOUS
<1>2. s[1] = a /\ s[2] = b /\ s[3] = c /\ t[1] = a /\ t[2] = b /\ t[3] = c /\ t[4] = d
  OBVIOUS
<1> HIDE DEF s, t
<1>3. Len(t) = Len(s) + 1 /\ (\A i \in 1..Len(s) : t[i] = s[i]) /\ t[Len(s) + 1] = d
  BY <1>1, <1>2
<1>4. t = Append(s, d)
  BY <1>1, <1>3, IsAppended
<1> QED BY <1>1, <1>4 DEF s, t

(* The function of a record.                                               *)
LEMMA FunctionFound ==
  ASSUME NEW S, "(" \in S, Space \in S, "int" \in S, "name" \in S, NEW s \in Seq(S)
  PROVE  processFuncName(<<"int", Space, "name", "(">> \o s) = <<"name">>
<1> DEFINE type == <<"int">>
           name == <<"name">>
<1>1. type \in Seq(S \ {"("}) /\ name \in Seq(S \ {Space, "("})
  BY DEF Space
<1>2. type \o <<Space>> \o name \o <<"(">> = <<"int", Space, "name", "(">>
  <2> DEFINE a == <<"int", Space>>
             b == <<"int", Space, "name">>
  <2>1. a \in Seq(S) /\ b \in Seq(S) /\ type \in Seq(S)
    OBVIOUS
  <2>2. Append(type, Space) = a /\ Append(a, "name") = b /\ Append(b, "(") = <<"int", Space, "name", "(">>
    BY PairAppended, TripleAppended, FourAppended
  <2> HIDE DEF a, b, type
  <2>3. type \o <<Space>> = a
    BY <2>1, <2>2, AppendIsConcat
  <2>4. a \o <<"name">> = b
    BY <2>1, <2>2, AppendIsConcat
  <2>5. b \o <<"(">> = <<"int", Space, "name", "(">>
    BY <2>1, <2>2, AppendIsConcat
  <2> QED BY <2>3, <2>4, <2>5
<1> HIDE DEF type, name
<1>3. processFuncName(type \o <<Space>> \o name \o <<"(">> \o s) = name
  BY <1>1, FuncNameIs
<1> QED BY <1>2, <1>3 DEF name

-----------------------------------------------------------------------------
Ended(s) == s \o <<Newline>>

LEMMA EndedIs ==
  ASSUME NEW S, Newline \in S, NEW s \in Seq(S)
  PROVE  /\ Ended(s) \in Seq(S) /\ Ended(s) = Append(s, Newline)
BY AppendIsConcat DEF Ended

(* What the separated fields consist of.                                   *)
LEMMA FieldsType ==
  ASSUME NEW P, ArePlain(P), NEW S, P \subseteq S, Semicolon \in S,
         NEW fs \in Seq(Seq(P)), NEW x \in Seq(P)
  PROVE  Separated(Append(fs, x)) \in Seq(S)
<1> DEFINE p == Separated(Append(fs, x))
<1>1. p \in Seq(P \cup {Semicolon})
  BY ReadFields
<1>2. P \cup {Semicolon} \subseteq S
  OBVIOUS
<1> HIDE DEF p
<1>3. p \in Seq(S)
  BY <1>1, <1>2, SeqMonotonic
<1> QED BY <1>3 DEF p

Fieldwise(fs, x) == Append(Separated(Append(fs, x)), Semicolon)

LEMMA ReadFieldwise ==
  ASSUME NEW P, ArePlain(P), NEW S, P \subseteq S, Semicolon \in S,
         NEW fs \in Seq(Seq(P)), NEW x \in Seq(P), NEW rows
  PROVE  /\ Fieldwise(fs, x) \in Seq(S)
         /\ Fieldwise(fs, x) = Separated(Append(fs, x)) \o <<Semicolon>>
         /\ ReadFrom(Outside(rows, <<>>, <<>>), Fieldwise(fs, x)) = Outside(rows, Append(fs, x), <<>>)
<1> DEFINE p == Separated(Append(fs, x))
           start == Outside(rows, <<>>, <<>>)
<1>1. p \in Seq(S)
  BY FieldsType
<1>2. ReadFrom(start, p) = Outside(rows, fs, x)
  BY ReadFields
<1>3. ReadFrom(start, Append(p, Semicolon)) = ReadSymbol(ReadFrom(start, p), Semicolon)
  <2> HIDE DEF p, start
  <2> QED BY <1>1, ReadAppended
<1>4. ReadSymbol(Outside(rows, fs, x), Semicolon) = Outside(rows, Append(fs, x), <<>>)
  BY ReadOutside
<1>5. Append(p, Semicolon) = p \o <<Semicolon>> /\ Append(p, Semicolon) \in Seq(S)
  <2> HIDE DEF p
  <2> QED BY <1>1, AppendIsConcat
<1> QED BY <1>2, <1>3, <1>4, <1>5 DEF Fieldwise

(* The line of a record: its fields, separated, and its quoted message.    *)
RowLine(fs, x, m) == Fieldwise(fs, x) \o Quoted(m)

Between(rows) == Outside(rows, <<>>, <<>>)
Row(fs, x, m) == Append(Append(fs, x), m)

LEMMA ReadRow ==
  ASSUME NEW P, ArePlain(P), NEW S, P \subseteq S, Quote \in S, Semicolon \in S, Newline \in S,
         NEW fs \in Seq(Seq(P)), NEW x \in Seq(P), NEW m \in Seq(S), NEW rows
  PROVE  /\ Ended(RowLine(fs, x, m)) \in Seq(S)
         /\ ReadFrom(Between(rows), Ended(RowLine(fs, x, m))) = Between(Append(rows, Row(fs, x, m)))
<1> DEFINE ps == Fieldwise(fs, x)
           q == Quoted(m)
           pq == RowLine(fs, x, m)
           start == Outside(rows, <<>>, <<>>)
           row == Append(fs, x)
           opening == Outside(rows, row, <<>>)
<1>1. ps \in Seq(S) /\ ReadFrom(start, ps) = opening
  BY ReadFieldwise
<1>2. q \in Seq(S) /\ ReadFrom(opening, q) = After(rows, row, m)
  <2> HIDE DEF row
  <2> QED BY ReadQuoted
<1>3. pq \in Seq(S) /\ ReadFrom(start, pq) = After(rows, row, m)
  <2> HIDE DEF ps, q, start, opening, row
  <2>1. ReadFrom(start, ps \o q) = ReadFrom(ReadFrom(start, ps), q)
    BY <1>1, <1>2, ReadConcat
  <2>2. ps \o q \in Seq(S)
    BY <1>1, <1>2, ConcatProperties
  <2>3. pq = ps \o q
    BY DEF RowLine, ps, q
  <2> HIDE DEF pq
  <2> QED BY <2>1, <2>2, <2>3, <1>1, <1>2
<1>4. Ended(pq) \in Seq(S) /\ Ended(pq) = Append(pq, Newline)
  <2> HIDE DEF pq
  <2> QED BY <1>3, EndedIs
<1>5. ReadFrom(start, Append(pq, Newline)) = ReadSymbol(ReadFrom(start, pq), Newline)
  <2> HIDE DEF pq, start
  <2> QED BY <1>3, ReadAppended
<1>6. ReadSymbol(After(rows, row, m), Newline) = Outside(Append(rows, Append(row, m)), <<>>, <<>>)
  BY ReadOutside
<1> QED BY <1>3, <1>4, <1>5, <1>6 DEF Between, Row

(* The header: fields, and no quoted one.                                  *)
LEMMA ReadHeader ==
  ASSUME NEW P, ArePlain(P), NEW S, P \subseteq S, Semicolon \in S, Newline \in S,
         NEW fs \in Seq(Seq(P)), NEW x \in Seq(P), NEW rows
  PROVE  LET line == Append(Separated(Append(fs, x)), Newline)
         IN  /\ line \in Seq(S)
             /\ ReadFrom(Outside(rows, <<>>, <<>>), line) =
                  Outside(Append(rows, Append(fs, x)), <<>>, <<>>)
<1> DEFINE p == Separated(Append(fs, x))
           start == Outside(rows, <<>>, <<>>)
<1>1. p \in Seq(S)
  <2>1. p \in Seq(P \cup {Semicolon})
    BY ReadFields
  <2>2. P \cup {Semicolon} \subseteq S
    OBVIOUS
  <2> HIDE DEF p
  <2> QED BY <2>1, <2>2, SeqMonotonic
<1>2. ReadFrom(start, p) = Outside(rows, fs, x)
  BY ReadFields
<1>3. Append(p, Newline) \in Seq(S)
  <2> HIDE DEF p
  <2> QED BY <1>1
<1>4. ReadFrom(start, Append(p, Newline)) = ReadSymbol(ReadFrom(start, p), Newline)
  <2> HIDE DEF p, start
  <2> QED BY <1>1, ReadAppended
<1>5. ReadSymbol(Outside(rows, fs, x), Newline) = Outside(Append(rows, Append(fs, x)), <<>>, <<>>)
  BY ReadOutside
<1> QED BY <1>2, <1>3, <1>4, <1>5

Words == {"Date", "Time", "Severity", "TID", "This", "Function", "Message",
          "date", "time", "W", "ARN", "N", "ONE", "tid", "this", "name", "@", "line"}

(* None of the words has a quote, a separator or a newline.                *)
LEMMA WordsPlain == ArePlain(Words)
BY DEF ArePlain, Words, Quote, Semicolon, Newline

HeaderRow == [c \in DOMAIN Columns |-> <<Columns[c]>>]

LEMMA ColumnWords == DOMAIN Columns = 1..7 /\ \A k \in 1..7 : Columns[k] \in Words
<1>1. DOMAIN Columns = 1..7
  BY DEF Columns
<1>2. /\ Columns[1] = "Date" /\ Columns[2] = "Time" /\ Columns[3] = "Severity" /\ Columns[4] = "TID"
      /\ Columns[5] = "This" /\ Columns[6] = "Function" /\ Columns[7] = "Message"
  BY DEF Columns
<1>3. \A k \in 1..7 : k = 1 \/ k = 2 \/ k = 3 \/ k = 4 \/ k = 5 \/ k = 6 \/ k = 7
  OBVIOUS
<1> QED BY <1>1, <1>2, <1>3 DEF Words

(* The header is read as the names of the columns.                         *)
LEMMA HeaderRead ==
  ASSUME NEW S, Words \subseteq S, Semicolon \in S, Newline \in S
  PROVE  /\ header \in Seq(S)
         /\ ReadFrom(NothingRead, header) = Between(Append(<<>>, HeaderRow))
         /\ HeaderRow \in Seq(Seq(S))
<1> DEFINE fs == [k \in 1..6 |-> <<Columns[k]>>]
           x == <<Columns[7]>>
<1>1. fs \in Seq(Seq(Words)) /\ Len(fs) = 6 /\ x \in Seq(Words)
  BY ColumnWords
<1>2. HeaderRow \in Seq(Seq(Words)) /\ Len(HeaderRow) = 7
  BY ColumnWords DEF HeaderRow
<1>3. \A k \in 1..6 : HeaderRow[k] = fs[k]
  BY ColumnWords DEF HeaderRow
<1>4. HeaderRow[7] = x
  BY ColumnWords DEF HeaderRow
<1> HIDE DEF fs, x
<1>5. HeaderRow = Append(fs, x)
  <2>1. Len(HeaderRow) = Len(fs) + 1 /\ HeaderRow[Len(fs) + 1] = x /\ \A k \in 1..Len(fs) : HeaderRow[k] = fs[k]
    BY <1>1, <1>2, <1>3, <1>4
  <2> QED BY <1>1, <1>2, <2>1, IsAppended
<1>6. header = Append(Separated(Append(fs, x)), Newline)
  BY <1>5 DEF header, HeaderRow
<1>7. NothingRead = Outside(<<>>, <<>>, <<>>)
  BY DEF NothingRead, Outside
<1>8. /\ Append(Separated(Append(fs, x)), Newline) \in Seq(S)
      /\ ReadFrom(Outside(<<>>, <<>>, <<>>), Append(Separated(Append(fs, x)), Newline)) =
           Outside(Append(<<>>, Append(fs, x)), <<>>, <<>>)
  <2> DEFINE e == <<>>
  <2>1. \A rows : /\ Append(Separated(Append(fs, x)), Newline) \in Seq(S)
                  /\ ReadFrom(Outside(rows, <<>>, <<>>), Append(Separated(Append(fs, x)), Newline)) =
                       Outside(Append(rows, Append(fs, x)), <<>>, <<>>)
    BY <1>1, WordsPlain, ReadHeader
  <2> QED BY <2>1
<1>9. HeaderRow \in Seq(Seq(S))
  <2>1. Seq(Words) \subseteq Seq(S)
    BY SeqMonotonic
  <2> QED BY <1>2, <2>1, SeqMonotonic
<1> QED BY <1>5, <1>6, <1>7, <1>8, <1>9 DEF Between

-----------------------------------------------------------------------------
(* A record of CsvReadable.                                                *)
Recorded(severity, s, m) ==
  [severity |-> severity, func |-> <<"int", Space, "name", "(">> \o s,
   message |-> Out(Record, String(m))]

(* The name of a severity is read as it was written.                       *)
LEMMA SeverityRead ==
  \A severity \in {"warning", "none"} :
    /\ severityToString(severity) \in Seq(Words)
    /\ severityFromString(severityToString(severity)) = severity
<1>1. severityToString("warning") = <<"W", "ARN">> /\ severityToString("none") = <<"N", "ONE">>
  BY DEF severityToString
<1>2. "W" \in Words /\ "ARN" \in Words /\ "N" \in Words /\ "ONE" \in Words
  BY DEF Words
<1>3. <<"W", "ARN">> \in Seq(Words) /\ <<"N", "ONE">> \in Seq(Words)
  BY <1>2, PairAppended
<1>4. ASSUME NEW s, s[1] = "W" PROVE severityFromString(s) = "warning"
  BY <1>4 DEF severityFromString
<1>5. ASSUME NEW s, s[1] = "N" PROVE severityFromString(s) = "none"
  BY <1>5 DEF severityFromString
<1>6. <<"W", "ARN">>[1] = "W" /\ <<"N", "ONE">>[1] = "N"
  OBVIOUS
<1>7. severityFromString(<<"W", "ARN">>) = "warning" /\ severityFromString(<<"N", "ONE">>) = "none"
  BY <1>4, <1>5, <1>6
<1> QED BY <1>1, <1>3, <1>7

NameAndLine == <<"name", "@", "line">>

LEMMA NameAndLineFound ==
  ASSUME NEW S, "(" \in S, Space \in S, "int" \in S, "name" \in S, NEW s \in Seq(S), NEW severity, NEW m
  PROVE  FuncAndLine(Recorded(severity, s, m)) = NameAndLine
<1> DEFINE n == <<"name">>
           a == <<"@">>
           l == <<"@", "line">>
           na == <<"name", "@">>
<1>1. FuncAndLine(Recorded(severity, s, m)) = n \o l
  BY FunctionFound DEF FuncAndLine, Recorded
<1>2. "name" \in Words /\ "@" \in Words /\ "line" \in Words
  BY DEF Words
<1>3. l = Append(a, "line") /\ na = Append(n, "@") /\ NameAndLine = Append(na, "line")
  BY <1>2, PairAppended, TripleAppended DEF NameAndLine
<1>4. a \in Seq(Words) /\ n \in Seq(Words)
  BY <1>2
<1>5. n \o <<"@">> = na
  <2> HIDE DEF n, na
  <2> QED BY <1>2, <1>3, <1>4, AppendIsConcat
<1>6. n \o Append(a, "line") = Append(n \o a, "line")
  <2> HIDE DEF n, a
  <2> QED BY <1>2, <1>4, AppendToConcat
<1> QED BY <1>1, <1>3, <1>5, <1>6

(* Its fields before the function.                                         *)
FirstFields(severity) ==
  << <<"date">>, <<"time">>, severityToString(severity), <<"tid">>, <<"this">> >>

RecordRow(severity, m) == Row(FirstFields(severity), NameAndLine, Limited(UpToNul(m)))

(* The line of a record is read as one row.                                *)
LEMMA LineRead ==
  ASSUME NEW S, Words \subseteq S, Quote \in S, Semicolon \in S, Newline \in S, "." \in S,
         "(" \in S, Space \in S, "int" \in S,
         NEW s \in Seq(S), NEW m \in Seq(S), NEW severity \in {"warning", "none"}, NEW rows
  PROVE  LET line == CsvFormat(Recorded(severity, s, m))
         IN  /\ line \in Seq(S)
             /\ ReadFrom(Between(rows), line) = Between(Append(rows, RecordRow(severity, m)))
<1> DEFINE record == Recorded(severity, s, m)
           fs == FirstFields(severity)
           x == NameAndLine
           t == Limited(UpToNul(m))
<1>1. fs \in Seq(Seq(Words)) /\ x \in Seq(Words)
  <2>1. /\ <<"date">> \in Seq(Words) /\ <<"time">> \in Seq(Words) /\ <<"tid">> \in Seq(Words)
        /\ <<"this">> \in Seq(Words)
    BY DEF Words
  <2>2. severityToString(severity) \in Seq(Words)
    BY SeverityRead
  <2>3. x \in Seq(Words)
    <3>1. "name" \in Words /\ "@" \in Words /\ "line" \in Words
      BY DEF Words
    <3> QED BY <3>1, TripleAppended DEF NameAndLine
  <2>4. ASSUME NEW T, NEW a \in T, NEW b \in T, NEW c \in T, NEW d \in T, NEW e \in T
        PROVE  <<a, b, c, d, e>> \in Seq(T)
    OBVIOUS
  <2> QED BY <2>1, <2>2, <2>3, <2>4 DEF FirstFields
<1>2. t \in Seq(S) /\ t = Limited(getMessage(record.message))
  <2>1. UpToNul(m) \in Seq(S)
    BY UpToNulType
  <2>2. getMessage(record.message) = UpToNul(m)
    BY StringMessage DEF Recorded
  <2> QED BY <2>1, <2>2, LimitedType
<1>3. Fields(record) = Append(fs, x)
  <2>1. "name" \in S
    BY DEF Words
  <2>2. FuncAndLine(record) = x
    BY <2>1, NameAndLineFound
  <2>3. record.severity = severity
    BY DEF Recorded
  <2> DEFINE f == Fields(record)
  <2>4. /\ f[1] = <<"date">> /\ f[2] = <<"time">> /\ f[3] = severityToString(severity)
        /\ f[4] = <<"tid">> /\ f[5] = <<"this">> /\ f[6] = x /\ Len(f) = 6
    BY <2>2, <2>3 DEF Fields
  <2>5. /\ fs[1] = <<"date">> /\ fs[2] = <<"time">> /\ fs[3] = severityToString(severity)
        /\ fs[4] = <<"tid">> /\ fs[5] = <<"this">> /\ Len(fs) = 5
    BY DEF FirstFields
  <2>6. \A i \in 1..5 : i = 1 \/ i = 2 \/ i = 3 \/ i = 4 \/ i = 5
    OBVIOUS
  <2>7. \A i \in 1..6 : i = 1 \/ i = 2 \/ i = 3 \/ i = 4 \/ i = 5 \/ i = 6
    OBVIOUS
  <2>8. f \in Seq(Seq(Words))
    <3>1. ASSUME NEW T, NEW a \in T, NEW b \in T, NEW c \in T, NEW d \in T, NEW e \in T, NEW g \in T
          PROVE  <<a, b, c, d, e, g>> \in Seq(T)
      OBVIOUS
    <3>2. /\ <<"date">> \in Seq(Words) /\ <<"time">> \in Seq(Words) /\ <<"tid">> \in Seq(Words)
          /\ <<"this">> \in Seq(Words)
      BY DEF Words
    <3>3. severityToString(severity) \in Seq(Words)
      BY SeverityRead
    <3> QED BY <1>1, <2>2, <2>3, <3>1, <3>2, <3>3 DEF Fields
  <2> HIDE DEF f, fs, x
  <2>9. Len(f) = Len(fs) + 1 /\ (\A i \in 1..Len(fs) : f[i] = fs[i]) /\ f[Len(fs) + 1] = x
    BY <2>4, <2>5, <2>6
  <2>10. f = Append(fs, x)
    BY <1>1, <2>8, <2>9, IsAppended
  <2> QED BY <2>10 DEF f
<1>4. CsvFormat(record) = Ended(RowLine(fs, x, t))
  <2>1. CsvFormat(record) = Separated(Append(fs, x)) \o <<Semicolon>> \o Quoted(t) \o <<Newline>>
    BY <1>2, <1>3 DEF CsvFormat
  <2>2. Fieldwise(fs, x) = Separated(Append(fs, x)) \o <<Semicolon>>
    <3> HIDE DEF fs, x
    <3> QED BY <1>1, WordsPlain, ReadFieldwise
  <2> HIDE DEF fs, x, t, record
  <2> QED BY <2>1, <2>2 DEF Ended, RowLine
<1>5. /\ Ended(RowLine(fs, x, t)) \in Seq(S)
      /\ ReadFrom(Between(rows), Ended(RowLine(fs, x, t))) = Between(Append(rows, Row(fs, x, t)))
  <2> HIDE DEF fs, x, t
  <2> QED BY <1>1, <1>2, WordsPlain, ReadRow
<1> QED BY <1>4, <1>5 DEF RecordRow

LEMMA OneMore ==
  ASSUME NEW T, NEW s \in Seq(T), NEW c \in T
  PROVE  /\ Append(s, c) \in Seq(T) /\ Len(Append(s, c)) = Len(s) + 1 /\ Append(s, c)[Len(s) + 1] = c
         /\ \A i \in 1..Len(s) : Append(s, c)[i] = s[i]
BY AppendProperties

(* What CsvReadable says of a row.                                         *)
LEMMA RowIs ==
  ASSUME NEW S, Words \subseteq S, "." \in S, NEW m \in Seq(S), NEW severity \in {"warning", "none"}
  PROVE  /\ RecordRow(severity, m) \in Seq(Seq(S))
         /\ Len(RecordRow(severity, m)) = 7
         /\ severityFromString(RecordRow(severity, m)[3]) = severity
         /\ RecordRow(severity, m)[6] = NameAndLine
         /\ RecordRow(severity, m)[7] = Limited(UpToNul(m))
<1> DEFINE fs == FirstFields(severity)
           x == NameAndLine
           t == Limited(UpToNul(m))
           T == Seq(S)
           fx == Append(fs, x)
           r == Append(fx, t)
<1>1. Seq(Words) \subseteq T
  BY SeqMonotonic
<1>2. t \in T
  BY UpToNulType, LimitedType
<1>3. x \in T
  <2>1. "name" \in S /\ "@" \in S /\ "line" \in S
    BY DEF Words
  <2> QED BY <2>1, TripleAppended DEF NameAndLine
<1>4. /\ <<"date">> \in T /\ <<"time">> \in T /\ <<"tid">> \in T /\ <<"this">> \in T
      /\ severityToString(severity) \in T
  <2>1. /\ <<"date">> \in Seq(Words) /\ <<"time">> \in Seq(Words) /\ <<"tid">> \in Seq(Words)
        /\ <<"this">> \in Seq(Words)
    BY DEF Words
  <2> QED BY <1>1, <2>1, SeverityRead
<1> HIDE DEF T
<1>5. fs \in Seq(T) /\ Len(fs) = 5 /\ fs[3] = severityToString(severity)
  <2>1. ASSUME NEW a \in T, NEW b \in T, NEW c \in T, NEW d \in T, NEW e \in T
        PROVE  <<a, b, c, d, e>> \in Seq(T) /\ Len(<<a, b, c, d, e>>) = 5 /\ <<a, b, c, d, e>>[3] = c
    OBVIOUS
  <2> QED BY <1>4, <2>1 DEF FirstFields
<1> HIDE DEF fs, x, t
<1>6. fx \in Seq(T) /\ Len(fx) = 6 /\ fx[3] = fs[3] /\ fx[6] = x
  <2>1. /\ fx \in Seq(T) /\ Len(fx) = Len(fs) + 1 /\ fx[Len(fs) + 1] = x
        /\ \A i \in 1..Len(fs) : fx[i] = fs[i]
    <3>1. fs \in Seq(T) /\ x \in T
      BY <1>3, <1>5
    <3> QED BY <3>1, OneMore
  <2> HIDE DEF fx
  <2> QED BY <1>5, <2>1
<1> HIDE DEF fx
<1>7. r \in Seq(T) /\ Len(r) = 7 /\ r[3] = fx[3] /\ r[6] = fx[6] /\ r[7] = t
  <2>1. /\ r \in Seq(T) /\ Len(r) = Len(fx) + 1 /\ r[Len(fx) + 1] = t
        /\ \A i \in 1..Len(fx) : r[i] = fx[i]
    <3>1. fx \in Seq(T) /\ t \in T
      BY <1>2, <1>6
    <3> QED BY <3>1, OneMore
  <2> HIDE DEF r
  <2> QED BY <1>6, <2>1
<1>8. r = RecordRow(severity, m)
  BY DEF RecordRow, Row, fx, fs, x, t
<1>9. severityFromString(severityToString(severity)) = severity
  BY SeverityRead
<1> HIDE DEF r
<1> QED BY <1>5, <1>6, <1>7, <1>8, <1>9 DEF x, t, T

(* Three pieces of a file, read one after the other.                       *)
LEMMA ThreePieces ==
  ASSUME NEW S, NEW r, NEW a \in Seq(S), NEW b \in Seq(S), NEW c \in Seq(S)
  PROVE  ReadFrom(r, a \o b \o c) = ReadFrom(ReadFrom(ReadFrom(r, a), b), c)
<1> DEFINE ab == a \o b
<1>1. ab \in Seq(S) /\ ReadFrom(r, ab) = ReadFrom(ReadFrom(r, a), b)
  BY ConcatProperties, ReadConcat
<1> HIDE DEF ab
<1>2. ReadFrom(r, ab \o c) = ReadFrom(ReadFrom(r, ab), c)
  BY <1>1, ReadConcat
<1> QED BY <1>1, <1>2 DEF ab

AllSymbols == Symbols \cup Words \cup {Quote, Semicolon, Newline, Return, BOM, ".", "(", Space, "int"}

(* What is read of the whole file: three rows and nothing begun.           *)
LEMMA LogRead ==
  ASSUME NEW s \in Seq(AllSymbols), NEW m \in Seq(AllSymbols), NEW n \in Seq(AllSymbols),
         NEW windows \in BOOLEAN
  PROVE  LET file == ConvertedHeader(windows, header) \o
                     Converted(windows, CsvFormat(Recorded("warning", s, m))) \o
                     Converted(windows, CsvFormat(Recorded("none", s, n)))
         IN  ReadCsv(ReadText(windows, file)) =
               Between(Append(Append(Append(<<>>, HeaderRow), RecordRow("warning", m)), RecordRow("none", n)))
<1> DEFINE S == AllSymbols
           a == header
           b == CsvFormat(Recorded("warning", s, m))
           c == CsvFormat(Recorded("none", s, n))
           one == Append(<<>>, HeaderRow)
           two == Append(one, RecordRow("warning", m))
           three == Append(two, RecordRow("none", n))
<1>1. /\ Words \subseteq S /\ Quote \in S /\ Semicolon \in S /\ Newline \in S /\ Return \in S
      /\ BOM \in S /\ "." \in S /\ "(" \in S /\ Space \in S /\ "int" \in S
  BY DEF AllSymbols
<1> HIDE DEF S
<1>2. s \in Seq(S) /\ m \in Seq(S) /\ n \in Seq(S)
  BY DEF S
<1>3. a \in Seq(S) /\ ReadFrom(NothingRead, a) = Between(one)
  BY <1>1, HeaderRead
<1> HIDE DEF one
<1>4. b \in Seq(S) /\ ReadFrom(Between(one), b) = Between(two)
  BY <1>1, <1>2, LineRead
<1> HIDE DEF two
<1>5. c \in Seq(S) /\ ReadFrom(Between(two), c) = Between(three)
  BY <1>1, <1>2, LineRead
<1> HIDE DEF three, a, b, c
<1>6. ReadText(windows, ConvertedHeader(windows, a) \o Converted(windows, b) \o Converted(windows, c)) = a \o b \o c
  BY <1>1, <1>3, <1>4, <1>5, WrittenIsRead
<1>7. ReadFrom(NothingRead, a \o b \o c) = Between(three)
  <2>1. ReadFrom(NothingRead, a \o b \o c) = ReadFrom(ReadFrom(ReadFrom(NothingRead, a), b), c)
    BY <1>3, <1>4, <1>5, ThreePieces
  <2> QED BY <2>1, <1>3, <1>4, <1>5
<1> QED BY <1>6, <1>7 DEF ReadCsv, a, b, c, one, two, three

(* Three rows, one after the other.                                        *)
LEMMA RowsAre ==
  ASSUME NEW T, NEW h \in T, NEW x \in T, NEW y \in T
  PROVE  LET rows == Append(Append(Append(<<>>, h), x), y)
         IN  Len(rows) = 3 /\ rows[1] = h /\ rows[2] = x /\ rows[3] = y
<1> DEFINE e == <<>>
           one == Append(e, h)
           two == Append(one, x)
           three == Append(two, y)
<1>1. one \in Seq(T) /\ Len(one) = 1 /\ one[1] = h
  OBVIOUS
<1> HIDE DEF one
<1>2. two \in Seq(T) /\ Len(two) = 2 /\ two[1] = h /\ two[2] = x
  <2>1. two \in Seq(T) /\ Len(two) = Len(one) + 1 /\ two[Len(one) + 1] = x /\ \A i \in 1..Len(one) : two[i] = one[i]
    <3>1. one \in Seq(T)
      BY <1>1
    <3> QED BY <3>1, OneMore
  <2> HIDE DEF two
  <2> QED BY <1>1, <2>1
<1> HIDE DEF two
<1>3. Len(three) = 3 /\ three[1] = h /\ three[2] = x /\ three[3] = y
  <2>1. Len(three) = Len(two) + 1 /\ three[Len(two) + 1] = y /\ \A i \in 1..Len(two) : three[i] = two[i]
    <3>1. two \in Seq(T)
      BY <1>2
    <3> QED BY <3>1, OneMore
  <2> HIDE DEF three
  <2> QED BY <1>2, <2>1
<1> QED BY <1>3 DEF one, two

(* A CSV log is read back as it was written, header and records, whatever  *)
(* quotes, separators, newlines and line endings the messages contain and  *)
(* however long they are, on Linux and on Windows, for every limit of a    *)
(* message (CsvFormatter.h:12-50, NativeEOLConverter.h:23-40,              *)
(* UTF8Converter.h:9).                                                     *)
THEOREM LogReadable == Spec => []CsvReadable
<1>1. TypeOK => CsvReadable
  <2> SUFFICES ASSUME TypeOK, NEW k \in 0..Len(text), NEW windows \in BOOLEAN
               PROVE  LET messages == <<SubSeq(text, 1, k), SubSeq(text, k + 1, Len(text))>>
                          record(i) == [severity |-> IF i = 1 THEN "warning" ELSE "none",
                                        func |-> <<"int", Space, "name", "(">> \o text,
                                        message |-> Out(Record, String(messages[i]))]
                          file == ConvertedHeader(windows, header) \o
                                  Converted(windows, CsvFormat(record(1))) \o
                                  Converted(windows, CsvFormat(record(2)))
                          read == ReadCsv(ReadText(windows, file))
                      IN  /\ Len(read.rows) = 3 /\ ~read.inside /\ read.row = <<>> /\ read.field = <<>>
                          /\ read.rows[1] = [c \in DOMAIN Columns |-> <<Columns[c]>>]
                          /\ \A i \in 1..2 :
                               /\ Len(read.rows[i + 1]) = Len(Columns)
                               /\ severityFromString(read.rows[i + 1][3]) = record(i).severity
                               /\ read.rows[i + 1][6] = <<"name", "@", "line">>
                               /\ read.rows[i + 1][7] = Limited(UpToNul(messages[i]))
    BY DEF CsvReadable
  <2> DEFINE m == SubSeq(text, 1, k)
             n == SubSeq(text, k + 1, Len(text))
             messages == <<m, n>>
             record(i) == [severity |-> IF i = 1 THEN "warning" ELSE "none",
                           func |-> <<"int", Space, "name", "(">> \o text,
                           message |-> Out(Record, String(messages[i]))]
             R == RecordRow("warning", m)
             Q == RecordRow("none", n)
             rows == Append(Append(Append(<<>>, HeaderRow), R), Q)
             read == Between(rows)
             S == AllSymbols
  <2>1. text \in Seq(S) /\ Len(text) \in Nat
    <3>1. Symbols \subseteq S
      BY DEF AllSymbols
    <3>2. text \in Seq(S)
      BY <3>1, SeqMonotonic DEF TypeOK
    <3> QED BY <3>2, LenProperties
  <2>2. m \in Seq(S) /\ n \in Seq(S)
    <3>1. 1 \in 1..(Len(text) + 1) /\ k + 1 \in 1..(Len(text) + 1) /\ Len(text) \in 0..Len(text)
      BY <2>1
    <3> QED BY <2>1, <3>1, Part
  <2> HIDE DEF m, n
  <2>3. record(1) = Recorded("warning", text, m) /\ record(2) = Recorded("none", text, n)
    BY DEF Recorded
  <2>4. ReadCsv(ReadText(windows, ConvertedHeader(windows, header) \o
                                  Converted(windows, CsvFormat(Recorded("warning", text, m))) \o
                                  Converted(windows, CsvFormat(Recorded("none", text, n))))) = read
    BY <2>1, <2>2, LogRead
  <2>5. Words \subseteq S /\ "." \in S /\ Semicolon \in S /\ Newline \in S
    BY DEF AllSymbols
  <2>6. HeaderRow \in Seq(Seq(S))
    BY <2>5, HeaderRead
  <2>7. /\ R \in Seq(Seq(S)) /\ Len(R) = 7
        /\ severityFromString(R[3]) = "warning" /\ R[6] = NameAndLine /\ R[7] = Limited(UpToNul(m))
    BY <2>2, <2>5, RowIs
  <2>8. /\ Q \in Seq(Seq(S)) /\ Len(Q) = 7
        /\ severityFromString(Q[3]) = "none" /\ Q[6] = NameAndLine /\ Q[7] = Limited(UpToNul(n))
    BY <2>2, <2>5, RowIs
  <2> HIDE DEF R, Q, S
  <2>9. Len(rows) = 3 /\ rows[1] = HeaderRow /\ rows[2] = R /\ rows[3] = Q
    BY <2>6, <2>7, <2>8, RowsAre
  <2>10. read.rows = rows /\ ~read.inside /\ read.row = <<>> /\ read.field = <<>>
    BY DEF Between, Outside
  <2>11. Len(Columns) = 7
    BY DEF Columns
  <2>12. messages[1] = m /\ messages[2] = n
    OBVIOUS
  <2>13. record(1).severity = "warning" /\ record(2).severity = "none"
    OBVIOUS
  <2> HIDE DEF rows, read, record, messages
  <2>14. /\ Len(read.rows) = 3 /\ ~read.inside /\ read.row = <<>> /\ read.field = <<>>
         /\ read.rows[1] = [c \in DOMAIN Columns |-> <<Columns[c]>>]
    BY <2>9, <2>10 DEF HeaderRow
  <2>15. ASSUME NEW i \in 1..2
         PROVE  /\ Len(read.rows[i + 1]) = Len(Columns)
                /\ severityFromString(read.rows[i + 1][3]) = record(i).severity
                /\ read.rows[i + 1][6] = <<"name", "@", "line">>
                /\ read.rows[i + 1][7] = Limited(UpToNul(messages[i]))
    <3>1. CASE i = 1
      BY <3>1, <2>7, <2>9, <2>10, <2>11, <2>12, <2>13 DEF NameAndLine
    <3>2. CASE i = 2
      BY <3>2, <2>8, <2>9, <2>10, <2>11, <2>12, <2>13 DEF NameAndLine
    <3> QED BY <3>1, <3>2
  <2> QED BY <2>3, <2>4, <2>14, <2>15 DEF messages, record, m, n
<1> QED BY <1>1, TypeCorrect, PTL
=============================================================================
