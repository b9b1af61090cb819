---------------------------- MODULE LoggingProofs ----------------------------
(***************************************************************************)
(* Theorems about module Logging, for every set of threads and of sinks,   *)
(* every set of severities and of outputs, every list of appenders and     *)
(* every number of records.                                                *)
(***************************************************************************)
EXTENDS Logging, SequenceTheorems, TLAPS

-----------------------------------------------------------------------------
(* The main thread and the others.                                         *)

ControlInv ==
  /\ instance => main = "running"
  /\ \A t \in Threads : pc[t] \notin {"new", "ended"} => main = "running"
  /\ \A t \in Threads : InStatement(t) => instance

(* Which lock is held where.                                               *)
Busy(t) == pc[t] \in {"text", "reset"}
InDynamic(t) == pc[t] = "dynamic" \/ (Busy(t) /\ current[t] \in Sinks)

LockInv ==
  \A t \in Threads :
    /\ \A a \in Appenders : mutex[a] = t <=> Busy(t) /\ current[t] = a
    /\ mutex[Dynamic] = t <=> InDynamic(t)

(* What is left of the loop over the sinks.                                *)
LoopInv ==
  \A t \in Threads :
    /\ dynTodo[t] # {} => InDynamic(t)
    /\ dynTodo[t] \subseteq dynamic
    /\ Busy(t) /\ current[t] \in Sinks => current[t] \in dynamic \ dynTodo[t]

LifeInv ==
  /\ main # "gone" => /\ life[Attached] = "alive" /\ life[Dynamic] = "alive"
                      /\ \A s \in dynamic : life[s] = "alive"
  /\ \A s \in Sinks : life[s] = "new" => s \notin dynamic /\ printed[s] = <<>>

TypeInv == TypeOK /\ ControlInv /\ LockInv /\ LoopInv /\ LifeInv

-----------------------------------------------------------------------------
(* Colours.                                                                *)

Own(a, severity) == IF a \in Coloured THEN setColor(severity, Plain) ELSE Plain

ColourInv ==
  /\ OwnColour
  /\ \A t \in Threads : Busy(t) /\ Serialised(Output[current[t]]) =>
       colour[Output[current[t]]] = Own(current[t], record[t].severity)

-----------------------------------------------------------------------------
(* Which records are still to be written.                                  *)

Looping(t) == pc[t] \in {"loop", "dynamic", "text", "reset"}
Left(t) == Len(todo[t])

(* A thread is on its way through the list it was given, which does not    *)
(* change meanwhile.                                                       *)
ListInv ==
  \A t \in Threads : Looping(t) =>
    /\ Left(t) <= Len(appenders)
    /\ \A k \in 1..Left(t) : todo[t][k] = appenders[Len(appenders) - Left(t) + k]
    /\ pc[t] # "loop" =>
         /\ Left(t) < Len(appenders)
         /\ appenders[Len(appenders) - Left(t)] = IF InDynamic(t) THEN Dynamic ELSE Attached

IdInv ==
  /\ \A p \in passed : p.rec.id <= logged
  /\ \A t \in Threads : InStatement(t) =>
       /\ record[t].id <= logged
       /\ \A u \in Threads : InStatement(u) /\ u # t => record[u].id # record[t].id
       /\ pc[t] = "check" => \A p \in passed : p.rec.id # record[t].id
       /\ pc[t] # "check" => [rec |-> record[t], list |-> appenders] \in passed

(* A thread has come to an appender that has not written its record yet.   *)
Owes(t, a) == a \in dynTodo[t] \/ (pc[t] = "text" /\ current[t] = a)

(* What has been written of a thread's record was written in turns that    *)
(* are over, or in this one.                                               *)
FreshInv ==
  \A t \in Threads, a \in Appenders : Looping(t) => \A k \in DOMAIN printed[a] :
    printed[a][k].rec = record[t] =>
      /\ Left(t) <= printed[a][k].turn
      /\ Owes(t, a) => Left(t) < printed[a][k].turn

(* The attached appender is still to write the thread's record in the turn *)
(* after which n are left.                                                 *)
Due(t, n) ==
  /\ Looping(t)
  /\ n < Left(t) \/ (n = Left(t) /\ pc[t] = "text" /\ current[t] = Attached)

DoneInv ==
  \A p \in passed : \A i \in DOMAIN p.list : p.list[i] = Attached =>
    \/ Written(Attached, p.rec, Len(p.list) - i)
    \/ \E t \in Threads : /\ Due(t, Len(p.list) - i)
                         /\ p = [rec |-> record[t], list |-> appenders]

OnceInv == PrintedOnce /\ FreshInv /\ DoneInv

-----------------------------------------------------------------------------
(* What a sink has written once the loop of DynamicAppender::write is over.*)

Owed(s) == mutex[Dynamic] \in Threads /\ Owes(mutex[Dynamic], s)

Final(s) == IF Owed(s) THEN Append(Ids(s), record[mutex[Dynamic]].id) ELSE Ids(s)

HistoryInv ==
  \A r, s \in dynamic : IsSuffix(Final(r), Final(s)) \/ IsSuffix(Final(s), Final(r))
-----------------------------------------------------------------------------
(* Constants.                                                              *)

LEMMA NameFacts ==
  /\ Attached # Dynamic /\ Attached \notin Sinks /\ Dynamic \notin Sinks
  /\ Dynamic \notin Appenders /\ Attached \in Appenders /\ Sinks \subseteq Appenders
  BY LoggingAssumption DEF Appenders

LEMMA SetColorType ==
  ASSUME NEW v \in Severities, NEW c \in Colours
  PROVE  setColor(v, c) \in Colours
  BY DEF setColor, Colours

LEMMA PlainType == Plain \in Colours
  BY DEF Plain, Colours

-----------------------------------------------------------------------------
(* Sequences.                                                              *)

LEMMA AppendedEntry ==
  ASSUME NEW S, NEW s \in Seq(S), NEW e \in S
  PROVE  /\ Append(s, e) \in Seq(S) /\ Len(s) \in Nat /\ DOMAIN s = 1..Len(s)
         /\ DOMAIN Append(s, e) = 1..(Len(s) + 1)
         /\ \A k \in 1..Len(s) : Append(s, e)[k] = s[k]
         /\ Append(s, e)[Len(s) + 1] = e
  <1>1. Append(s, e) \in Seq(S) /\ Len(Append(s, e)) = Len(s) + 1
    BY AppendProperties
  <1>2. DOMAIN Append(s, e) = 1..(Len(s) + 1) /\ Len(s) \in Nat /\ DOMAIN s = 1..Len(s)
    BY <1>1, LenProperties
  <1> QED
    BY <1>1, <1>2, AppendProperties

LEMMA SuffixFacts ==
  ASSUME NEW S, NEW s \in Seq(S), NEW t \in Seq(S)
  PROVE  IsSuffix(s, t) <=>
           /\ Len(s) <= Len(t)
           /\ \A k \in 1..Len(s) : s[k] = t[Len(t) - Len(s) + k]
  <1>1. /\ Len(s) \in Nat /\ DOMAIN s = 1..Len(s)
        /\ Len(t) \in Nat /\ DOMAIN t = 1..Len(t)
    BY LenProperties
  <1>2. /\ Reverse(s) \in Seq(S) /\ Len(Reverse(s)) = Len(s)
        /\ \A i \in 1..Len(s) : Reverse(s)[i] = s[(Len(s) - i) + 1]
    BY <1>1 DEF Reverse
  <1>3. /\ Reverse(t) \in Seq(S) /\ Len(Reverse(t)) = Len(t)
        /\ \A i \in 1..Len(t) : Reverse(t)[i] = t[(Len(t) - i) + 1]
    BY <1>1 DEF Reverse
  <1>4. ASSUME Len(s) <= Len(t)
        PROVE  SubSeq(Reverse(s), 1, Len(s)) = SubSeq(Reverse(t), 1, Len(s))
                 <=> \A i \in 1..Len(s) : Reverse(s)[i] = Reverse(t)[i]
    BY <1>1, <1>2, <1>3, <1>4
  <1>5. ASSUME Len(s) <= Len(t), \A i \in 1..Len(s) : Reverse(s)[i] = Reverse(t)[i],
               NEW k \in 1..Len(s)
        PROVE  s[k] = t[Len(t) - Len(s) + k]
    <2>0. (Len(s) - k) + 1 \in 1..Len(s)
      BY <1>1
    <2>1. PICK i \in 1..Len(s) : i = (Len(s) - k) + 1
      BY <2>0
    <2>2. (Len(s) - i) + 1 = k /\ (Len(t) - i) + 1 = Len(t) - Len(s) + k /\ i \in 1..Len(t)
      BY <1>1, <1>5, <2>1
    <2> QED
      BY <1>2, <1>3, <1>5, <2>1, <2>2
  <1>6. ASSUME Len(s) <= Len(t), \A k \in 1..Len(s) : s[k] = t[Len(t) - Len(s) + k],
               NEW i \in 1..Len(s)
        PROVE  Reverse(s)[i] = Reverse(t)[i]
    <2>0. (Len(s) - i) + 1 \in 1..Len(s)
      BY <1>1
    <2>1. PICK k \in 1..Len(s) : k = (Len(s) - i) + 1
      BY <2>0
    <2>2. (Len(s) - i) + 1 = k /\ (Len(t) - i) + 1 = Len(t) - Len(s) + k /\ i \in 1..Len(t)
      BY <1>1, <1>6, <2>1
    <2> QED
      BY <1>2, <1>3, <1>6, <2>1, <2>2
  <1> QED
    BY <1>2, <1>3, <1>4, <1>5, <1>6 DEF IsSuffix, IsPrefix

LEMMA SuffixEmpty ==
  ASSUME NEW S, NEW t \in Seq(S)
  PROVE  IsSuffix(<<>>, t)
  <1>0. <<>> \in Seq(S) /\ Len(<<>>) = 0
    OBVIOUS
  <1>1. PICK s \in Seq(S) : s = <<>> /\ Len(s) = 0
    BY <1>0
  <1>2. IsSuffix(s, t)
    <2>1. Len(t) \in Nat
      BY LenProperties
    <2>2. Len(s) <= Len(t) /\ \A k \in 1..Len(s) : s[k] = t[Len(t) - Len(s) + k]
      BY <1>1, <2>1
    <2> QED
      BY <2>2, SuffixFacts
  <1> QED
    BY <1>1, <1>2

LEMMA SuffixAppend ==
  ASSUME NEW S, NEW s \in Seq(S), NEW t \in Seq(S), NEW e \in S, IsSuffix(s, t)
  PROVE  IsSuffix(Append(s, e), Append(t, e))
  <1>1. /\ Len(s) \in Nat /\ Len(t) \in Nat /\ Len(s) <= Len(t)
        /\ \A k \in 1..Len(s) : s[k] = t[Len(t) - Len(s) + k]
    BY SuffixFacts, LenProperties
  <1>2. /\ Append(s, e) \in Seq(S) /\ Len(Append(s, e)) = Len(s) + 1
        /\ \A k \in 1..Len(s) : Append(s, e)[k] = s[k]
        /\ Append(s, e)[Len(s) + 1] = e
    BY AppendProperties
  <1>3. /\ Append(t, e) \in Seq(S) /\ Len(Append(t, e)) = Len(t) + 1
        /\ \A k \in 1..Len(t) : Append(t, e)[k] = t[k]
        /\ Append(t, e)[Len(t) + 1] = e
    BY AppendProperties
  <1>4. ASSUME NEW k \in 1..(Len(s) + 1)
        PROVE  Append(s, e)[k] = Append(t, e)[Len(t) - Len(s) + k]
    <2>1. CASE k = Len(s) + 1
      BY <1>1, <1>2, <1>3, <2>1
    <2>2. CASE k \in 1..Len(s)
      <3>1. Len(t) - Len(s) + k \in 1..Len(t)
        BY <1>1, <2>2
      <3> QED
        BY <1>1, <1>2, <1>3, <2>2, <3>1
    <2> QED
      BY <1>1, <2>1, <2>2
  <1>5. (Len(t) + 1) - (Len(s) + 1) = Len(t) - Len(s) /\ Len(s) + 1 <= Len(t) + 1
    BY <1>1
  <1>6. PICK a \in Seq(S), b \in Seq(S) : a = Append(s, e) /\ b = Append(t, e)
    BY <1>2, <1>3
  <1>7. IsSuffix(a, b)
    <2>1. Len(a) = Len(s) + 1 /\ Len(b) = Len(t) + 1
      BY <1>2, <1>3, <1>6
    <2>2. \A k \in 1..Len(a) : a[k] = b[Len(b) - Len(a) + k]
      BY <1>4, <1>5, <1>6, <2>1
    <2> QED
      BY <1>5, <2>1, <2>2, SuffixFacts
  <1> QED
    BY <1>6, <1>7

-----------------------------------------------------------------------------
(* Types, locks and lists.                                                 *)

LEMMA TypeInit == Init => TypeInv
  <1> SUFFICES ASSUME Init PROVE TypeInv
    OBVIOUS
  <1>1. /\ colour \in [Outputs -> Colours]
        /\ printed \in [Appenders -> Seq(Entry)]
    BY PlainType DEF Init
  <1>2. /\ life \in [Appenders \cup {Dynamic} -> {"new", "alive", "deleted"}]
        /\ mutex \in [Appenders \cup {Dynamic} -> Threads \cup {Free}]
    BY DEF Init
  <1>3. /\ pc \in [Threads -> States] /\ record \in [Threads -> Record]
        /\ todo \in [Threads -> Seq({Attached, Dynamic})]
        /\ dynTodo \in [Threads -> SUBSET Sinks] /\ current \in [Threads -> Appenders]
    BY LoggingAssumption, NameFacts DEF Init, States, Record, Severities
  <1>4. /\ instance \in BOOLEAN /\ maxSeverity \in Severities
        /\ appenders = <<>> /\ appenders \in Seq({Attached, Dynamic}) /\ Len(appenders) <= MaxAppenders
        /\ dynamic \subseteq Sinks /\ main = "running" /\ logged \in 0..MaxRecords
        /\ passed \subseteq Passed
    <2>1. maxSeverity \in Severities /\ logged \in 0..MaxRecords
      BY LoggingAssumption DEF Init, Severities
    <2>2. passed \subseteq Passed /\ dynamic \subseteq Sinks
      BY DEF Init
    <2>3. /\ appenders = <<>> /\ appenders \in Seq({Attached, Dynamic})
          /\ Len(appenders) <= MaxAppenders
      BY LoggingAssumption DEF Init
    <2> QED
      BY <2>1, <2>2, <2>3 DEF Init
  <1>5. TypeOK
    BY <1>1, <1>2, <1>3, <1>4 DEF TypeOK
  <1>6. ControlInv
    BY DEF Init, ControlInv, InStatement
  <1>7. LockInv
    BY LoggingAssumption, NameFacts DEF Init, LockInv, Busy, InDynamic
  <1>8. LoopInv
    BY DEF Init, LoopInv, Busy, InDynamic
  <1>9. LifeInv
    BY NameFacts DEF Init, LifeInv, Appenders
  <1> QED
    BY <1>5, <1>6, <1>7, <1>8, <1>9 DEF TypeInv

(* A thread goes from one control state to another.                        *)
LEMMA Moves ==
  ASSUME TypeInv, NEW t \in Threads, NEW from \in States, NEW to \in States, Goto(t, from, to)
  PROVE  /\ pc' \in [Threads -> States] /\ pc[t] = from /\ pc'[t] = to
         /\ \A u \in Threads : u # t => pc'[u] = pc[u]
  BY DEF TypeInv, TypeOK, Goto

(* ... without a lock before it or after it.                               *)
LEMMA MovesFree ==
  ASSUME TypeInv, NEW t \in Threads, UNCHANGED <<mutex, current>>,
         pc[t] \notin {"dynamic", "text", "reset"}, pc'[t] \notin {"dynamic", "text", "reset"},
         \A u \in Threads : u # t => pc'[u] = pc[u]
  PROVE  /\ LockInv'
         /\ ~Busy(t) /\ ~Busy(t)' /\ ~InDynamic(t) /\ ~InDynamic(t)'
         /\ \A u \in Threads : (Busy(u)' <=> Busy(u)) /\ (InDynamic(u)' <=> InDynamic(u))
  <1>1. ~Busy(t) /\ ~Busy(t)' /\ ~InDynamic(t) /\ ~InDynamic(t)'
    BY DEF Busy, InDynamic
  <1>2. \A u \in Threads : (Busy(u)' <=> Busy(u)) /\ (InDynamic(u)' <=> InDynamic(u))
    BY <1>1 DEF Busy, InDynamic
  <1>3. LockInv'
    BY <1>2 DEF TypeInv, LockInv
  <1> QED
    BY <1>1, <1>2, <1>3

(* A step of a thread in a log statement.                                  *)
LEMMA ControlKept ==
  ASSUME TypeInv, NEW t \in Threads, InStatement(t), \A u \in Threads : u # t => pc'[u] = pc[u],
         UNCHANGED <<instance, main>>
  PROVE  ControlInv'
  <1>1. instance /\ main = "running"
    BY DEF TypeInv, ControlInv, InStatement
  <1>2. \A u \in Threads : u # t => (InStatement(u)' <=> InStatement(u))
    BY DEF InStatement
  <1> QED
    BY <1>1, <1>2 DEF TypeInv, ControlInv

LEMMA TypeLogTest ==
  ASSUME TypeInv, NEW t \in Threads, NEW v \in Levels, LogTest(t, v)
  PROVE  TypeInv'
  <1>1. PICK to \in {"check", "idle"} : Goto(t, "idle", to)
    BY DEF LogTest
  <1>2. /\ pc' \in [Threads -> States] /\ pc[t] = "idle" /\ pc'[t] = to
        /\ \A u \in Threads : u # t => pc'[u] = pc[u]
    BY <1>1, Moves DEF States
  <1>3. record' \in [Threads -> Record] /\ logged' \in 0..MaxRecords
    BY LoggingAssumption DEF LogTest, TypeInv, TypeOK, Record
  <1>4. TypeOK'
    BY <1>2, <1>3 DEF LogTest, TypeInv, TypeOK, logger, sinks, streams
  <1>5. /\ LockInv' /\ ~Busy(t)' /\ ~InDynamic(t)'
        /\ \A u \in Threads : (Busy(u)' <=> Busy(u)) /\ (InDynamic(u)' <=> InDynamic(u))
    BY <1>2, MovesFree DEF LogTest
  <1>6. ControlInv'
    <2>1. pc'[t] = "check" => instance
      BY <1>2 DEF LogTest, Goto, TypeInv, TypeOK
    <2> QED
      BY <1>2, <2>1 DEF LogTest, TypeInv, ControlInv, InStatement, logger
  <1>7. LoopInv'
    BY <1>2, <1>5 DEF LogTest, TypeInv, LoopInv, logger, sinks
  <1>8. LifeInv'
    BY DEF LogTest, TypeInv, LifeInv, sinks, streams
  <1> QED
    BY <1>4, <1>5, <1>6, <1>7, <1>8 DEF TypeInv

LEMMA TypeLogCheck ==
  ASSUME TypeInv, NEW t \in Threads, LogCheck(t)
  PROVE  TypeInv'
  <1>1. PICK to \in {"loop", "idle"} : Goto(t, "check", to)
    BY DEF LogCheck
  <1>2. /\ pc' \in [Threads -> States] /\ pc[t] = "check" /\ pc'[t] = to
        /\ \A u \in Threads : u # t => pc'[u] = pc[u]
    BY <1>1, Moves DEF States
  <1>3. todo' \in [Threads -> Seq({Attached, Dynamic})] /\ passed' \subseteq Passed
    <2>1. appenders \in Seq({Attached, Dynamic}) /\ record[t] \in Record
      BY DEF TypeInv, TypeOK
    <2>2. [rec |-> record[t], list |-> appenders] \in Passed
      BY <2>1 DEF Passed
    <2>3. todo' = todo \/ todo' = [todo EXCEPT ![t] = appenders]
      BY DEF LogCheck
    <2>4. passed' = passed \/ passed' = passed \cup {[rec |-> record[t], list |-> appenders]}
      BY DEF LogCheck, history
    <2>5. todo \in [Threads -> Seq({Attached, Dynamic})] /\ passed \subseteq Passed
      BY DEF TypeInv, TypeOK
    <2> QED
      BY <2>1, <2>2, <2>3, <2>4, <2>5
  <1>4. TypeOK'
    BY <1>2, <1>3 DEF LogCheck, TypeInv, TypeOK, logger, sinks, streams, history
  <1>5. /\ LockInv' /\ ~Busy(t)' /\ ~InDynamic(t)'
        /\ \A u \in Threads : (Busy(u)' <=> Busy(u)) /\ (InDynamic(u)' <=> InDynamic(u))
    BY <1>2, MovesFree DEF LogCheck
  <1>6. ControlInv'
    BY <1>2, ControlKept DEF LogCheck, InStatement, States, logger
  <1>7. LoopInv'
    BY <1>2, <1>5 DEF LogCheck, TypeInv, LoopInv, sinks
  <1>8. LifeInv'
    BY DEF LogCheck, TypeInv, LifeInv, sinks, streams
  <1> QED
    BY <1>4, <1>5, <1>6, <1>7, <1>8 DEF TypeInv

LEMMA TypeLogReturn ==
  ASSUME TypeInv, NEW t \in Threads, LogReturn(t) \/ End(t)
  PROVE  TypeInv'
  <1>1. PICK from \in {"loop", "idle"}, to \in {"idle", "ended"} : Goto(t, from, to)
    BY DEF LogReturn, End
  <1>2. /\ pc' \in [Threads -> States] /\ pc[t] = from /\ pc'[t] = to
        /\ \A u \in Threads : u # t => pc'[u] = pc[u]
    BY <1>1, Moves DEF States
  <1>3. UNCHANGED <<logger, sinks, mutex, streams, record, todo, dynTodo, current, main, history>>
    BY DEF LogReturn, End
  <1>4. TypeOK'
    BY <1>2, <1>3 DEF TypeInv, TypeOK, logger, sinks, streams, history
  <1>5. /\ LockInv' /\ ~Busy(t)' /\ ~InDynamic(t)'
        /\ \A u \in Threads : (Busy(u)' <=> Busy(u)) /\ (InDynamic(u)' <=> InDynamic(u))
    BY <1>2, <1>3, MovesFree
  <1>6. ControlInv'
    BY <1>2, <1>3 DEF TypeInv, ControlInv, InStatement, logger
  <1>7. LoopInv'
    BY <1>2, <1>3, <1>5 DEF TypeInv, LoopInv, logger, sinks
  <1>8. LifeInv'
    BY <1>3 DEF TypeInv, LifeInv, sinks, streams
  <1> QED
    BY <1>4, <1>5, <1>6, <1>7, <1>8 DEF TypeInv

(* The loop of Logger::operator+= goes on to the next appender.            *)
LEMMA ListAdvances ==
  ASSUME TypeInv, NEW t \in Threads, todo[t] # <<>>, todo' = [todo EXCEPT ![t] = Tail(@)]
  PROVE  /\ Head(todo[t]) \in {Attached, Dynamic} /\ Head(todo[t]) = todo[t][1]
         /\ todo'[t] = Tail(todo[t]) /\ \A u \in Threads : u # t => todo'[u] = todo[u]
         /\ todo' \in [Threads -> Seq({Attached, Dynamic})]
         /\ Len(todo[t]) \in Nat \ {0} /\ Len(todo'[t]) = Len(todo[t]) - 1
         /\ \A k \in 1..Len(todo'[t]) : todo'[t][k] = todo[t][k + 1]
  <1>1. todo \in [Threads -> Seq({Attached, Dynamic})]
    BY DEF TypeInv, TypeOK
  <1>2. PICK q \in Seq({Attached, Dynamic}) : q = todo[t] /\ q # <<>>
    BY <1>1
  <1>3. /\ Head(q) \in {Attached, Dynamic} /\ Tail(q) \in Seq({Attached, Dynamic})
        /\ Len(q) \in Nat \ {0} /\ Len(Tail(q)) = Len(q) - 1 /\ Head(q) = q[1]
        /\ \A k \in 1..Len(Tail(q)) : Tail(q)[k] = q[k + 1]
    <2>1. /\ Head(q) \in {Attached, Dynamic} /\ Tail(q) \in Seq({Attached, Dynamic})
          /\ Len(Tail(q)) = Len(q) - 1 /\ \A k \in 1..Len(Tail(q)) : Tail(q)[k] = q[k + 1]
      BY <1>2, HeadTailProperties
    <2>2. Len(q) \in Nat \ {0} /\ Head(q) = q[1]
      BY <1>2, EmptySeq, LenProperties
    <2> QED
      BY <2>1, <2>2
  <1>4. /\ todo'[t] = Tail(q) /\ todo' \in [Threads -> Seq({Attached, Dynamic})]
        /\ \A u \in Threads : u # t => todo'[u] = todo[u]
    BY <1>1, <1>2, <1>3
  <1> QED
    BY <1>2, <1>3, <1>4

LEMMA DynamicWriteEffect ==
  ASSUME TypeInv, NEW t \in Threads, DynamicWrite(t)
  PROVE  /\ pc' \in [Threads -> States] /\ pc[t] = "loop" /\ pc'[t] = "dynamic"
         /\ \A u \in Threads : u # t => pc'[u] = pc[u]
         /\ todo' \in [Threads -> Seq({Attached, Dynamic})]
         /\ \A u \in Threads : u # t => todo'[u] = todo[u]
         /\ dynTodo' \in [Threads -> SUBSET Sinks]
         /\ dynTodo'[t] = dynamic /\ \A u \in Threads : u # t => dynTodo'[u] = dynTodo[u]
         /\ mutex' \in [Appenders \cup {Dynamic} -> Threads \cup {Free}]
         /\ mutex[Dynamic] = Free /\ mutex'[Dynamic] = t
         /\ \A a \in Appenders : mutex'[a] = mutex[a]
         /\ \A u \in Threads : ~InDynamic(u) /\ dynTodo[u] = {}
         /\ \A u \in Threads : Busy(u)' <=> Busy(u)
         /\ \A u \in Threads : InDynamic(u)' <=> u = t
  <1>1. /\ pc' \in [Threads -> States] /\ pc[t] = "loop" /\ pc'[t] = "dynamic"
        /\ \A u \in Threads : u # t => pc'[u] = pc[u]
    BY Moves DEF States, DynamicWrite
  <1>2. /\ todo' \in [Threads -> Seq({Attached, Dynamic})]
        /\ \A u \in Threads : u # t => todo'[u] = todo[u]
    BY ListAdvances DEF DynamicWrite
  <1>4. /\ dynTodo' \in [Threads -> SUBSET Sinks]
        /\ dynTodo'[t] = dynamic /\ \A u \in Threads : u # t => dynTodo'[u] = dynTodo[u]
    BY DEF DynamicWrite, TypeInv, TypeOK
  <1>5. /\ mutex' \in [Appenders \cup {Dynamic} -> Threads \cup {Free}]
        /\ mutex[Dynamic] = Free /\ mutex'[Dynamic] = t
        /\ \A a \in Appenders : mutex'[a] = mutex[a]
    BY NameFacts DEF DynamicWrite, Lock, TypeInv, TypeOK
  <1>6. \A u \in Threads : ~InDynamic(u) /\ dynTodo[u] = {}
    BY <1>5, LoggingAssumption DEF TypeInv, LockInv, LoopInv
  <1>7. /\ \A u \in Threads : Busy(u)' <=> Busy(u)
        /\ \A u \in Threads : InDynamic(u)' <=> u = t
    BY <1>1, <1>6 DEF DynamicWrite, Busy, InDynamic
  <1> QED
    BY <1>1, <1>2, <1>4, <1>5, <1>6, <1>7

LEMMA TypeDynamicWrite ==
  ASSUME TypeInv, NEW t \in Threads, DynamicWrite(t)
  PROVE  TypeInv'
  <1>0. /\ pc[t] = "loop" /\ pc'[t] = "dynamic" /\ \A u \in Threads : u # t => pc'[u] = pc[u]
        /\ dynTodo'[t] = dynamic /\ \A u \in Threads : u # t => dynTodo'[u] = dynTodo[u]
        /\ mutex[Dynamic] = Free /\ mutex'[Dynamic] = t
        /\ \A a \in Appenders : mutex'[a] = mutex[a]
        /\ \A u \in Threads : ~InDynamic(u) /\ dynTodo[u] = {}
        /\ \A u \in Threads : Busy(u)' <=> Busy(u)
        /\ \A u \in Threads : InDynamic(u)' <=> u = t
    BY DynamicWriteEffect
  <1>1. TypeOK'
    BY DynamicWriteEffect DEF DynamicWrite, TypeInv, TypeOK, logger, sinks, streams, history
  <1>2. LockInv'
    BY <1>0 DEF DynamicWrite, TypeInv, LockInv
  <1>3. ControlInv'
    BY <1>0, ControlKept DEF DynamicWrite, InStatement, States, logger
  <1>4. LoopInv'
    BY <1>0 DEF DynamicWrite, TypeInv, LoopInv, logger, sinks, Busy
  <1>5. LifeInv'
    BY DEF DynamicWrite, TypeInv, LifeInv, sinks, streams
  <1> QED
    BY <1>1, <1>2, <1>3, <1>4, <1>5 DEF TypeInv

LEMMA TypeDynamicReturn ==
  ASSUME TypeInv, NEW t \in Threads, DynamicReturn(t)
  PROVE  TypeInv'
  <1>1. /\ pc' \in [Threads -> States] /\ pc[t] = "dynamic" /\ pc'[t] = "loop"
        /\ \A u \in Threads : u # t => pc'[u] = pc[u]
    BY Moves DEF States, DynamicReturn
  <1>2. mutex' \in [Appenders \cup {Dynamic} -> Threads \cup {Free}]
    BY DEF DynamicReturn, Unlock, TypeInv, TypeOK
  <1>3. TypeOK'
    BY <1>1, <1>2 DEF DynamicReturn, TypeInv, TypeOK, logger, sinks, streams, history
  <1>4. /\ mutex[Dynamic] = t /\ mutex'[Dynamic] = Free
        /\ \A a \in Appenders : mutex'[a] = mutex[a]
    BY <1>1, NameFacts DEF DynamicReturn, Unlock, TypeInv, TypeOK, LockInv, InDynamic
  <1>5. /\ \A u \in Threads : Busy(u)' <=> Busy(u)
        /\ \A u \in Threads : InDynamic(u) <=> u = t
    BY <1>1, <1>4 DEF DynamicReturn, TypeInv, LockInv, Busy
  <1>6. \A u \in Threads : ~InDynamic(u)'
    BY <1>1, <1>5 DEF DynamicReturn, Busy, InDynamic
  <1>7. LockInv'
    BY <1>4, <1>5, <1>6, LoggingAssumption DEF DynamicReturn, TypeInv, LockInv
  <1>8. ControlInv'
    BY <1>1, ControlKept DEF DynamicReturn, InStatement, States, logger
  <1>9. LoopInv'
    BY <1>1, <1>5, <1>6 DEF DynamicReturn, TypeInv, LoopInv, logger, sinks
  <1>10. LifeInv'
    BY DEF DynamicReturn, TypeInv, LifeInv, sinks, streams
  <1> QED
    BY <1>3, <1>7, <1>8, <1>9, <1>10 DEF TypeInv

(* A thread takes an appender's lock to write to it.                       *)
LEMMA TypeBegin ==
  ASSUME TypeInv, NEW t \in Threads, NEW a \in Appenders, NEW from \in {"loop", "dynamic"},
         Goto(t, from, "text"), BeginWrite(t, a)
  PROVE  /\ pc' \in [Threads -> States] /\ pc[t] = from /\ pc'[t] = "text"
         /\ \A u \in Threads : u # t => pc'[u] = pc[u]
         /\ mutex' \in [Appenders \cup {Dynamic} -> Threads \cup {Free}]
         /\ mutex[a] = Free /\ mutex'[a] = t
         /\ \A b \in Appenders \cup {Dynamic} : b # a => mutex'[b] = mutex[b]
         /\ current' \in [Threads -> Appenders] /\ current'[t] = a
         /\ \A u \in Threads : u # t => current'[u] = current[u]
         /\ \A u \in Threads : Busy(u)' <=> (Busy(u) \/ u = t)
         /\ \A u \in Threads : u # t => (InDynamic(u)' <=> InDynamic(u))
         /\ ~Busy(t) /\ (InDynamic(t)' <=> a \in Sinks)
         /\ colour' \in [Outputs -> Colours]
  <1>1. /\ pc' \in [Threads -> States] /\ pc[t] = from /\ pc'[t] = "text"
        /\ \A u \in Threads : u # t => pc'[u] = pc[u]
    BY Moves DEF States
  <1>2. /\ mutex' \in [Appenders \cup {Dynamic} -> Threads \cup {Free}]
        /\ mutex[a] = Free /\ mutex'[a] = t
        /\ \A b \in Appenders \cup {Dynamic} : b # a => mutex'[b] = mutex[b]
    BY DEF BeginWrite, Lock, TypeInv, TypeOK
  <1>3. /\ current' \in [Threads -> Appenders] /\ current'[t] = a
        /\ \A u \in Threads : u # t => current'[u] = current[u]
    BY DEF BeginWrite, TypeInv, TypeOK
  <1>4. /\ \A u \in Threads : Busy(u)' <=> (Busy(u) \/ u = t)
        /\ \A u \in Threads : u # t => (InDynamic(u)' <=> InDynamic(u))
        /\ ~Busy(t) /\ (InDynamic(t)' <=> a \in Sinks)
    BY <1>1, <1>3 DEF Busy, InDynamic
  <1>5. colour' \in [Outputs -> Colours]
    <2>1. record[t].severity \in Severities /\ Output[a] \in Outputs
      BY LoggingAssumption DEF TypeInv, TypeOK, Record
    <2>2. colour \in [Outputs -> Colours]
      BY DEF TypeInv, TypeOK
    <2>3. setColor(record[t].severity, colour[Output[a]]) \in Colours
      BY <2>1, <2>2, SetColorType
    <2>4. \/ colour' = [colour EXCEPT ![Output[a]] = setColor(record[t].severity, @)]
          \/ colour' = colour
      BY DEF BeginWrite
    <2> QED
      BY <2>2, <2>3, <2>4
  <1> QED
    BY <1>1, <1>2, <1>3, <1>4, <1>5

LEMMA LoopWriteEffect ==
  ASSUME TypeInv, NEW t \in Threads, LoopWrite(t)
  PROVE  /\ pc[t] = "loop" /\ Head(todo[t]) = Attached
         /\ pc' \in [Threads -> States] /\ pc'[t] = "text"
         /\ \A u \in Threads : u # t => pc'[u] = pc[u]
         /\ mutex' \in [Appenders \cup {Dynamic} -> Threads \cup {Free}]
         /\ mutex[Attached] = Free /\ mutex'[Attached] = t
         /\ \A b \in Appenders \cup {Dynamic} : b # Attached => mutex'[b] = mutex[b]
         /\ current' \in [Threads -> Appenders] /\ current'[t] = Attached
         /\ \A u \in Threads : u # t => current'[u] = current[u]
         /\ \A u \in Threads : Busy(u)' <=> (Busy(u) \/ u = t)
         /\ \A u \in Threads : InDynamic(u)' <=> InDynamic(u)
         /\ colour' \in [Outputs -> Colours]
         /\ ~InDynamic(t) /\ ~Busy(t)
         /\ todo' \in [Threads -> Seq({Attached, Dynamic})]
         /\ \A u \in Threads : u # t => todo'[u] = todo[u]
  <1>1. /\ pc[t] = "loop" /\ Head(todo[t]) = Attached
        /\ todo' \in [Threads -> Seq({Attached, Dynamic})]
        /\ \A u \in Threads : u # t => todo'[u] = todo[u]
    BY ListAdvances DEF LoopWrite, Goto
  <1>2. /\ pc' \in [Threads -> States] /\ pc'[t] = "text"
        /\ \A u \in Threads : u # t => pc'[u] = pc[u]
        /\ mutex' \in [Appenders \cup {Dynamic} -> Threads \cup {Free}]
        /\ mutex[Attached] = Free /\ mutex'[Attached] = t
        /\ \A b \in Appenders \cup {Dynamic} : b # Attached => mutex'[b] = mutex[b]
        /\ current' \in [Threads -> Appenders] /\ current'[t] = Attached
        /\ \A u \in Threads : u # t => current'[u] = current[u]
        /\ \A u \in Threads : Busy(u)' <=> (Busy(u) \/ u = t)
        /\ \A u \in Threads : InDynamic(u)' <=> InDynamic(u)
        /\ colour' \in [Outputs -> Colours]
        /\ ~InDynamic(t) /\ ~Busy(t)
    BY <1>1, NameFacts, TypeBegin DEF LoopWrite, InDynamic, Busy
  <1> QED
    BY <1>1, <1>2

LEMMA TypeLoopWrite ==
  ASSUME TypeInv, NEW t \in Threads, LoopWrite(t)
  PROVE  TypeInv'
  <1>1. pc[t] = "loop"
    BY LoopWriteEffect
  <1>2. /\ pc' \in [Threads -> States] /\ pc'[t] = "text"
        /\ \A u \in Threads : u # t => pc'[u] = pc[u]
        /\ mutex' \in [Appenders \cup {Dynamic} -> Threads \cup {Free}]
        /\ mutex[Attached] = Free /\ mutex'[Attached] = t
        /\ \A b \in Appenders \cup {Dynamic} : b # Attached => mutex'[b] = mutex[b]
        /\ current' \in [Threads -> Appenders] /\ current'[t] = Attached
        /\ \A u \in Threads : u # t => current'[u] = current[u]
        /\ \A u \in Threads : Busy(u)' <=> (Busy(u) \/ u = t)
        /\ \A u \in Threads : InDynamic(u)' <=> InDynamic(u)
        /\ colour' \in [Outputs -> Colours]
        /\ ~InDynamic(t) /\ ~Busy(t)
    BY LoopWriteEffect
  <1>3. /\ todo' \in [Threads -> Seq({Attached, Dynamic})]
        /\ \A u \in Threads : u # t => todo'[u] = todo[u]
    BY LoopWriteEffect
  <1>4. TypeOK'
    BY <1>2, <1>3 DEF LoopWrite, BeginWrite, TypeInv, TypeOK, logger, sinks, history
  <1>5. LockInv'
    <2>1. \A u \in Threads, a \in Appenders :
            a # Attached => (mutex'[a] = u <=> Busy(u)' /\ current'[u] = a)
      BY <1>2 DEF TypeInv, LockInv
    <2>2. \A u \in Threads : mutex'[Attached] = u <=> Busy(u)' /\ current'[u] = Attached
      BY <1>2, NameFacts, LoggingAssumption DEF TypeInv, LockInv
    <2>3. \A u \in Threads : mutex'[Dynamic] = u <=> InDynamic(u)'
      BY <1>2, NameFacts DEF TypeInv, LockInv
    <2> QED
      BY <2>1, <2>2, <2>3 DEF LockInv
  <1>6. ControlInv'
    BY <1>1, <1>2, ControlKept DEF LoopWrite, BeginWrite, InStatement, States, logger
  <1>7. LoopInv'
    BY <1>1, <1>2, <1>3, NameFacts
    DEF LoopWrite, BeginWrite, TypeInv, LoopInv, logger, sinks
  <1>8. LifeInv'
    BY DEF LoopWrite, BeginWrite, TypeInv, LifeInv, sinks
  <1> QED
    BY <1>4, <1>5, <1>6, <1>7, <1>8 DEF TypeInv

LEMMA DynamicLoopWriteEffect ==
  ASSUME TypeInv, NEW t \in Threads, DynamicLoopWrite(t)
  PROVE  \E s \in dynTodo[t] :
           /\ BeginWrite(t, s)
           /\ s \in Sinks /\ s \in Appenders /\ s # Attached /\ s # Dynamic /\ s \in dynamic
           /\ pc' \in [Threads -> States] /\ pc[t] = "dynamic" /\ pc'[t] = "text"
           /\ \A u \in Threads : u # t => pc'[u] = pc[u]
           /\ mutex' \in [Appenders \cup {Dynamic} -> Threads \cup {Free}]
           /\ mutex[s] = Free /\ mutex'[s] = t
           /\ \A b \in Appenders \cup {Dynamic} : b # s => mutex'[b] = mutex[b]
           /\ current' \in [Threads -> Appenders] /\ current'[t] = s
           /\ \A u \in Threads : u # t => current'[u] = current[u]
           /\ \A u \in Threads : Busy(u)' <=> (Busy(u) \/ u = t)
           /\ \A u \in Threads : InDynamic(u)' <=> InDynamic(u)
           /\ InDynamic(t) /\ ~Busy(t)
           /\ dynTodo' \in [Threads -> SUBSET Sinks] /\ dynTodo'[t] = dynTodo[t] \ {s}
           /\ \A u \in Threads : u # t => dynTodo'[u] = dynTodo[u]
           /\ colour' \in [Outputs -> Colours]
           /\ UNCHANGED <<logger, sinks, printed, record, todo, main, history>>
  <1>1. PICK s \in dynTodo[t] : /\ Goto(t, "dynamic", "text") /\ BeginWrite(t, s)
                               /\ dynTodo' = [dynTodo EXCEPT ![t] = @ \ {s}]
                               /\ UNCHANGED todo
    BY DEF DynamicLoopWrite
  <1>2. s \in Sinks /\ s \in Appenders /\ s # Attached /\ s # Dynamic /\ s \in dynamic
    BY NameFacts DEF TypeInv, TypeOK, LoopInv, Appenders
  <1>3. /\ pc' \in [Threads -> States] /\ pc[t] = "dynamic" /\ pc'[t] = "text"
        /\ \A u \in Threads : u # t => pc'[u] = pc[u]
        /\ mutex' \in [Appenders \cup {Dynamic} -> Threads \cup {Free}]
        /\ mutex[s] = Free /\ mutex'[s] = t
        /\ \A b \in Appenders \cup {Dynamic} : b # s => mutex'[b] = mutex[b]
        /\ current' \in [Threads -> Appenders] /\ current'[t] = s
        /\ \A u \in Threads : u # t => current'[u] = current[u]
        /\ \A u \in Threads : Busy(u)' <=> (Busy(u) \/ u = t)
        /\ \A u \in Threads : InDynamic(u)' <=> InDynamic(u)
        /\ colour' \in [Outputs -> Colours]
        /\ InDynamic(t) /\ ~Busy(t)
    BY <1>1, <1>2, TypeBegin DEF InDynamic
  <1>4. /\ dynTodo' \in [Threads -> SUBSET Sinks] /\ dynTodo'[t] = dynTodo[t] \ {s}
        /\ \A u \in Threads : u # t => dynTodo'[u] = dynTodo[u]
    BY <1>1 DEF TypeInv, TypeOK
  <1>5. UNCHANGED <<logger, sinks, printed, record, todo, main, history>>
    BY <1>1 DEF BeginWrite
  <1> QED
    BY <1>1, <1>2, <1>3, <1>4, <1>5

LEMMA TypeDynamicLoopWrite ==
  ASSUME TypeInv, NEW t \in Threads, DynamicLoopWrite(t)
  PROVE  TypeInv'
  <1>1. PICK s \in dynTodo[t] :
          /\ s \in Sinks /\ s \in Appenders /\ s # Dynamic /\ s \in dynamic
          /\ pc' \in [Threads -> States] /\ pc[t] = "dynamic" /\ pc'[t] = "text"
          /\ \A u \in Threads : u # t => pc'[u] = pc[u]
          /\ mutex' \in [Appenders \cup {Dynamic} -> Threads \cup {Free}]
          /\ mutex[s] = Free /\ mutex'[s] = t
          /\ \A b \in Appenders \cup {Dynamic} : b # s => mutex'[b] = mutex[b]
          /\ current' \in [Threads -> Appenders] /\ current'[t] = s
          /\ \A u \in Threads : u # t => current'[u] = current[u]
          /\ \A u \in Threads : Busy(u)' <=> (Busy(u) \/ u = t)
          /\ \A u \in Threads : InDynamic(u)' <=> InDynamic(u)
          /\ InDynamic(t) /\ ~Busy(t)
          /\ dynTodo' \in [Threads -> SUBSET Sinks] /\ dynTodo'[t] = dynTodo[t] \ {s}
          /\ \A u \in Threads : u # t => dynTodo'[u] = dynTodo[u]
          /\ colour' \in [Outputs -> Colours]
          /\ UNCHANGED <<logger, sinks, printed, record, todo, main, history>>
    BY DynamicLoopWriteEffect
  <1>2. TypeOK'
    BY <1>1 DEF TypeInv, TypeOK, logger, sinks, history
  <1>3. LockInv'
    <2>1. \A u \in Threads, a \in Appenders :
            a # s => (mutex'[a] = u <=> Busy(u)' /\ current'[u] = a)
      BY <1>1 DEF TypeInv, LockInv
    <2>2. \A u \in Threads : mutex'[s] = u <=> Busy(u)' /\ current'[u] = s
      BY <1>1, LoggingAssumption DEF TypeInv, LockInv
    <2>3. \A u \in Threads : mutex'[Dynamic] = u <=> InDynamic(u)'
      BY <1>1 DEF TypeInv, LockInv
    <2> QED
      BY <2>1, <2>2, <2>3 DEF LockInv
  <1>4. ControlInv'
    BY <1>1, ControlKept DEF InStatement, States, logger
  <1>5. LoopInv'
    BY <1>1, NameFacts DEF TypeInv, LoopInv, logger, sinks
  <1>6. LifeInv'
    BY <1>1 DEF TypeInv, LifeInv, sinks
  <1> QED
    BY <1>2, <1>3, <1>4, <1>5, <1>6 DEF TypeInv

(* What an appender writes.                                                *)
LEMMA PrintedEffect ==
  ASSUME TypeInv, NEW t \in Threads, WriteText(t)
  PROVE  LET new == [rec |-> record[t], turn |-> Len(todo[t]), in |-> colour[Output[current[t]]]]
         IN  /\ current[t] \in Appenders /\ new \in Entry
             /\ printed' = [printed EXCEPT ![current[t]] = Append(printed[current[t]], new)]
             /\ printed' \in [Appenders -> Seq(Entry)]
  <1> DEFINE new == [rec |-> record[t], turn |-> Len(todo[t]), in |-> colour[Output[current[t]]]]
  <1>1. current[t] \in Appenders /\ new \in Entry /\ printed \in [Appenders -> Seq(Entry)]
    <2>1. current[t] \in Appenders /\ record[t] \in Record /\ printed \in [Appenders -> Seq(Entry)]
      BY DEF TypeInv, TypeOK
    <2>2. Len(todo[t]) \in Nat
      BY LenProperties DEF TypeInv, TypeOK
    <2>3. colour[Output[current[t]]] \in Colours
      BY <2>1, LoggingAssumption DEF TypeInv, TypeOK
    <2> QED
      BY <2>1, <2>2, <2>3 DEF Entry
  <1>2. printed' = [printed EXCEPT ![current[t]] = Append(printed[current[t]], new)]
    BY DEF WriteText
  <1> HIDE DEF new
  <1>3. Append(printed[current[t]], new) \in Seq(Entry)
    BY <1>1, AppendProperties
  <1>4. printed' \in [Appenders -> Seq(Entry)]
    BY <1>1, <1>2, <1>3
  <1> QED
    BY <1>1, <1>2, <1>4 DEF new

LEMMA TypeWriteText ==
  ASSUME TypeInv, NEW t \in Threads, WriteText(t)
  PROVE  TypeInv'
  <1>1. /\ pc' \in [Threads -> States] /\ pc[t] = "text" /\ pc'[t] = "reset"
        /\ \A u \in Threads : u # t => pc'[u] = pc[u]
    BY Moves DEF States, WriteText
  <1>2. /\ printed' \in [Appenders -> Seq(Entry)]
        /\ \A a \in Appenders : a # current[t] => printed'[a] = printed[a]
    BY PrintedEffect DEF TypeInv, TypeOK
  <1>3. TypeOK'
    BY <1>1, <1>2 DEF WriteText, TypeInv, TypeOK, logger, sinks, history
  <1>4. \A u \in Threads : (Busy(u)' <=> Busy(u)) /\ (InDynamic(u)' <=> InDynamic(u))
    BY <1>1 DEF WriteText, Busy, InDynamic
  <1>5. LockInv'
    BY <1>4 DEF WriteText, TypeInv, LockInv
  <1>6. ControlInv'
    BY <1>1, ControlKept DEF WriteText, InStatement, States, logger
  <1>7. LoopInv'
    BY <1>1, <1>4 DEF WriteText, TypeInv, LoopInv, logger, sinks
  <1>8. LifeInv'
    <2>1. \A s \in Sinks : life[s] = "new" => s # current[t] /\ s \in Appenders
      BY <1>1 DEF TypeInv, LifeInv, LoopInv, Busy, Appenders
    <2> QED
      BY <1>2, <2>1 DEF WriteText, TypeInv, LifeInv, sinks
  <1> QED
    BY <1>3, <1>5, <1>6, <1>7, <1>8 DEF TypeInv

LEMMA TypeEndWrite ==
  ASSUME TypeInv, NEW t \in Threads, EndWrite(t)
  PROVE  TypeInv'
  <1>1. PICK to \in {"dynamic", "loop"} :
          to = (IF current[t] \in Sinks THEN "dynamic" ELSE "loop") /\ Goto(t, "reset", to)
    BY DEF EndWrite
  <1>2. /\ pc' \in [Threads -> States] /\ pc[t] = "reset" /\ pc'[t] = to
        /\ \A u \in Threads : u # t => pc'[u] = pc[u]
    BY <1>1, Moves DEF States
  <1>3. /\ current[t] \in Appenders /\ current[t] # Dynamic
        /\ mutex[current[t]] = t /\ mutex'[current[t]] = Free
        /\ \A b \in Appenders \cup {Dynamic} : b # current[t] => mutex'[b] = mutex[b]
        /\ mutex' \in [Appenders \cup {Dynamic} -> Threads \cup {Free}]
        /\ current[t] \notin Sinks => current[t] = Attached
    BY <1>2, NameFacts DEF EndWrite, Unlock, TypeInv, TypeOK, LockInv, Busy, Appenders
  <1>4. colour' \in [Outputs -> Colours]
    BY <1>3, PlainType DEF EndWrite, TypeInv, TypeOK
  <1>5. TypeOK'
    BY <1>2, <1>3, <1>4 DEF EndWrite, TypeInv, TypeOK, logger, sinks, history
  <1>6. /\ \A u \in Threads : Busy(u)' <=> (Busy(u) /\ u # t)
        /\ \A u \in Threads : InDynamic(u)' <=> InDynamic(u)
        /\ Busy(t)
    BY <1>1, <1>2 DEF EndWrite, Busy, InDynamic
  <1>7. LockInv'
    <2>1. \A u \in Threads, a \in Appenders : mutex'[a] = u <=> Busy(u)' /\ current'[u] = a
      BY <1>3, <1>6, LoggingAssumption DEF EndWrite, TypeInv, LockInv
    <2> QED
      BY <1>3, <1>6, <2>1 DEF TypeInv, LockInv
  <1>8. ControlInv'
    BY <1>2, ControlKept DEF EndWrite, InStatement, States, logger
  <1>9. LoopInv'
    BY <1>1, <1>2, <1>3, <1>6 DEF EndWrite, TypeInv, LoopInv, logger, sinks
  <1>10. LifeInv'
    BY DEF EndWrite, TypeInv, LifeInv, sinks
  <1> QED
    BY <1>5, <1>7, <1>8, <1>9, <1>10 DEF TypeInv

(* The main thread.                                                        *)
MainStep ==
  \/ \E v \in Levels : InitLog(v) \/ SetMaxSeverity(v)
  \/ \E s \in Sinks : DynamicAddAppender(s) \/ DynamicRemoveAppender(s) \/ Delete(s)
  \/ \E a \in {Attached, Dynamic} : AddAppender(a)
  \/ DestroyLogger \/ DestroyAppenders
  \/ UNCHANGED vars

(* The list of appenders changes only while no thread logs.                *)
LEMMA TypeList ==
  ASSUME TypeInv,
         \/ \E v \in Levels : InitLog(v)
         \/ \E a \in {Attached, Dynamic} : AddAppender(a)
         \/ DestroyLogger \/ DestroyAppenders
  PROVE  TypeInv' /\ \A t \in Threads : ~InStatement(t) /\ ~InStatement(t)'
  <1>0. UNCHANGED <<dynamic, mutex, streams, control, history>>
    BY DEF InitLog, AddAppender, DestroyLogger, DestroyAppenders, sinks
  <1>1. \A t \in Threads : ~InStatement(t)
    <2>1. CASE DestroyLogger
      BY <2>1 DEF DestroyLogger, InStatement
    <2>2. CASE DestroyAppenders
      BY <2>2 DEF DestroyAppenders, TypeInv, ControlInv, InStatement
    <2> QED
      BY <2>1, <2>2 DEF InitLog, AddAppender, Quiet
  <1>2. \A t \in Threads : ~InStatement(t)'
    BY <1>0, <1>1 DEF control, InStatement
  <1>3. LockInv' /\ LoopInv'
    BY <1>0 DEF TypeInv, LockInv, LoopInv, Busy, InDynamic, control
  <1>4. ASSUME instance' \in BOOLEAN, maxSeverity' \in Severities,
               appenders' \in Seq({Attached, Dynamic}), Len(appenders') <= MaxAppenders,
               ~instance' => appenders' = <<>>, main' \in {"running", "exit", "gone"},
               life' \in [Appenders \cup {Dynamic} -> {"new", "alive", "deleted"}],
               ControlInv', LifeInv'
        PROVE  TypeInv'
    <2>1. TypeOK'
      BY <1>0, <1>4 DEF TypeInv, TypeOK, streams, control, history
    <2> QED
      BY <1>3, <1>4, <2>1 DEF TypeInv
  <1>5. ASSUME NEW a \in {Attached, Dynamic}, appenders' = Append(appenders, a), main = "running",
               main' = main, life' = life, instance' = TRUE, maxSeverity' \in Severities,
               Len(appenders) < MaxAppenders
        PROVE  TypeInv'
    <2>1. appenders' \in Seq({Attached, Dynamic}) /\ Len(appenders') <= MaxAppenders
      <3>1. appenders \in Seq({Attached, Dynamic})
        BY DEF TypeInv, TypeOK
      <3>2. Len(appenders) \in Nat
        BY <3>1, LenProperties
      <3>3. appenders' \in Seq({Attached, Dynamic}) /\ Len(appenders') = Len(appenders) + 1
        BY <1>5, <3>1, AppendProperties
      <3> QED
        BY <1>5, <3>2, <3>3, LoggingAssumption
    <2>2. ControlInv' /\ LifeInv'
      BY <1>0, <1>2, <1>5 DEF TypeInv, ControlInv, LifeInv, streams
    <2>3. life' \in [Appenders \cup {Dynamic} -> {"new", "alive", "deleted"}]
      BY <1>5 DEF TypeInv, TypeOK
    <2> QED
      BY <1>4, <1>5, <2>1, <2>2, <2>3
  <1>6. CASE \E v \in Levels : InitLog(v)
    <2>1. /\ appenders' = Append(appenders, Attached) /\ main = "running" /\ main' = main
          /\ life' = life /\ instance' = TRUE /\ Len(appenders) < MaxAppenders
      BY <1>6 DEF InitLog, sinks
    <2>2. maxSeverity' \in Severities
      BY <1>6, LoggingAssumption DEF InitLog, TypeInv, TypeOK
    <2> QED
      BY <1>1, <1>2, <1>5, <2>1, <2>2
  <1>7. CASE \E a \in {Attached, Dynamic} : AddAppender(a)
    <2>1. PICK a \in {Attached, Dynamic} : AddAppender(a)
      BY <1>7
    <2>2. /\ appenders' = Append(appenders, a) /\ main = "running" /\ main' = main
          /\ life' = life /\ instance' = TRUE /\ Len(appenders) < MaxAppenders
          /\ maxSeverity' \in Severities
      BY <2>1 DEF AddAppender, sinks, TypeInv, TypeOK
    <2> QED
      BY <1>1, <1>2, <1>5, <2>2
  <1>8. CASE DestroyLogger
    <2>1. /\ appenders' = <<>> /\ main' = "exit" /\ instance' = FALSE /\ main # "gone"
          /\ maxSeverity' = maxSeverity /\ life' = life
      BY <1>8 DEF DestroyLogger, sinks
    <2>2. appenders' \in Seq({Attached, Dynamic}) /\ Len(appenders') <= MaxAppenders
      BY <2>1, LoggingAssumption
    <2>3. \A t \in Threads : pc'[t] \in {"new", "ended"}
      BY <1>0, <1>8 DEF DestroyLogger, control
    <2>4. ControlInv' /\ LifeInv'
      BY <1>0, <1>2, <2>1, <2>3 DEF TypeInv, ControlInv, LifeInv, streams
    <2>5. life' \in [Appenders \cup {Dynamic} -> {"new", "alive", "deleted"}] /\ maxSeverity' \in Severities
      BY <2>1 DEF TypeInv, TypeOK
    <2> QED
      BY <1>1, <1>2, <1>4, <2>1, <2>2, <2>4, <2>5
  <1>9. CASE DestroyAppenders
    <2>1. /\ main = "exit" /\ main' = "gone" /\ UNCHANGED <<instance, maxSeverity, appenders>>
          /\ life' = [a \in Appenders \cup {Dynamic} |-> "deleted"]
      BY <1>9 DEF DestroyAppenders, logger, TypeInv, TypeOK
    <2>2. /\ instance' \in BOOLEAN /\ maxSeverity' \in Severities
          /\ appenders' \in Seq({Attached, Dynamic}) /\ Len(appenders') <= MaxAppenders
          /\ ~instance' => appenders' = <<>>
          /\ life' \in [Appenders \cup {Dynamic} -> {"new", "alive", "deleted"}]
      BY <2>1 DEF TypeInv, TypeOK
    <2>3. ControlInv' /\ LifeInv'
      BY <1>0, <1>2, <2>1, NameFacts DEF TypeInv, ControlInv, LifeInv, streams, control
    <2> QED
      BY <1>1, <1>2, <1>4, <2>1, <2>2, <2>3
  <1> QED
    BY <1>1, <1>2, <1>6, <1>7, <1>8, <1>9

LEMMA TypeStartThread ==
  ASSUME TypeInv, NEW t \in Threads, StartThread(t)
  PROVE  TypeInv'
  <1>1. /\ pc' \in [Threads -> States] /\ pc[t] = "new" /\ pc'[t] = "idle"
        /\ \A u \in Threads : u # t => pc'[u] = pc[u]
    BY Moves DEF States, StartThread
  <1>2. TypeOK'
    BY <1>1 DEF StartThread, TypeInv, TypeOK, logger, sinks, streams, history
  <1>3. /\ LockInv' /\ ~Busy(t)' /\ ~InDynamic(t)'
        /\ \A u \in Threads : (Busy(u)' <=> Busy(u)) /\ (InDynamic(u)' <=> InDynamic(u))
    BY <1>1, MovesFree DEF StartThread
  <1>4. ControlInv' /\ LifeInv'
    BY <1>1 DEF StartThread, TypeInv, ControlInv, LifeInv, InStatement, logger, sinks, streams
  <1>5. LoopInv'
    BY <1>1, <1>3 DEF StartThread, TypeInv, LoopInv, logger, sinks
  <1> QED
    BY <1>2, <1>3, <1>4, <1>5 DEF TypeInv

LEMMA TypeMain ==
  ASSUME TypeInv, MainStep
  PROVE  TypeInv'
  <1>1. CASE UNCHANGED <<logger, mutex, streams, control, main, history>>
    <2>1. LockInv' /\ ControlInv'
      BY <1>1 DEF TypeInv, LockInv, ControlInv, InStatement, Busy, InDynamic, logger, control
    <2>2. ASSUME dynamic' \subseteq Sinks,
                 life' \in [Appenders \cup {Dynamic} -> {"new", "alive", "deleted"}]
          PROVE  TypeOK'
      BY <1>1, <2>2 DEF TypeInv, TypeOK, logger, streams, control, history
    <2>3. CASE \E s \in Sinks : DynamicAddAppender(s)
      <3>1. PICK s \in Sinks : DynamicAddAppender(s)
        BY <2>3
      <3>2. /\ dynamic' = dynamic \cup {s} /\ life' = [life EXCEPT ![s] = "alive"]
            /\ s \in Appenders /\ life[s] = "new" /\ main # "gone"
        BY <3>1 DEF DynamicAddAppender, Appenders
      <3>3. TypeOK'
        BY <2>2, <3>2 DEF TypeInv, TypeOK
      <3>4. LoopInv'
        BY <1>1, <3>2 DEF TypeInv, LoopInv, Busy, InDynamic, logger, control
      <3>5. LifeInv'
        BY <1>1, <3>2, NameFacts DEF TypeInv, TypeOK, LifeInv, streams, Appenders
      <3> QED
        BY <2>1, <3>3, <3>4, <3>5 DEF TypeInv
    <2>4. CASE \E s \in Sinks : DynamicRemoveAppender(s)
      <3>1. PICK s \in Sinks : DynamicRemoveAppender(s)
        BY <2>4
      <3>2. dynamic' = dynamic \ {s} /\ life' = life /\ mutex[Dynamic] = Free
        BY <3>1 DEF DynamicRemoveAppender
      <3>3. TypeOK'
        BY <2>2, <3>2 DEF TypeInv, TypeOK
      <3>4. \A t \in Threads : ~InDynamic(t) /\ dynTodo[t] = {}
        BY <3>2, LoggingAssumption DEF TypeInv, LockInv, LoopInv
      <3>5. LoopInv'
        BY <1>1, <3>2, <3>4 DEF TypeInv, LoopInv, Busy, InDynamic, logger, control
      <3>6. LifeInv'
        BY <1>1, <3>2 DEF TypeInv, LifeInv, streams
      <3> QED
        BY <2>1, <3>3, <3>5, <3>6 DEF TypeInv
    <2>5. CASE \E s \in Sinks : Delete(s)
      <3>1. PICK s \in Sinks : Delete(s)
        BY <2>5
      <3>2. /\ dynamic' = dynamic /\ life' = [life EXCEPT ![s] = "deleted"]
            /\ s \notin dynamic /\ s \in Appenders
        BY <3>1 DEF Delete, Appenders
      <3>3. TypeOK'
        BY <2>2, <3>2 DEF TypeInv, TypeOK
      <3>4. LoopInv'
        BY <1>1, <3>2 DEF TypeInv, LoopInv, Busy, InDynamic, logger, control
      <3>5. LifeInv'
        BY <1>1, <3>2, NameFacts DEF TypeInv, TypeOK, LifeInv, streams, Appenders
      <3> QED
        BY <2>1, <3>3, <3>4, <3>5 DEF TypeInv
    <2>6. CASE UNCHANGED sinks
      <3>1. TypeOK'
        BY <2>2, <2>6 DEF TypeInv, TypeOK, sinks
      <3>2. LoopInv' /\ LifeInv'
        BY <1>1, <2>6 DEF TypeInv, LoopInv, LifeInv, Busy, InDynamic, logger, sinks, streams, control
      <3> QED
        BY <2>1, <3>1, <3>2 DEF TypeInv
    <2>7. MainStep => \/ UNCHANGED sinks \/ DestroyAppenders
                      \/ \E s \in Sinks : DynamicAddAppender(s) \/ DynamicRemoveAppender(s) \/ Delete(s)
      BY DEF MainStep, InitLog, SetMaxSeverity, AddAppender, DestroyLogger, vars
    <2> QED
      BY <2>3, <2>4, <2>5, <2>6, <2>7, TypeList
  <1>2. CASE \E v \in Levels : SetMaxSeverity(v)
    <2>1. /\ maxSeverity' \in Severities
          /\ UNCHANGED <<instance, appenders, sinks, mutex, streams, control, main, history>>
      BY <1>2, LoggingAssumption DEF SetMaxSeverity
    <2>2. TypeOK'
      BY <2>1 DEF TypeInv, TypeOK, sinks, streams, control, history
    <2>3. LockInv' /\ ControlInv' /\ LoopInv' /\ LifeInv'
      BY <2>1 DEF TypeInv, LockInv, ControlInv, LoopInv, LifeInv, InStatement, Busy, InDynamic, sinks, streams,
                  control
    <2> QED
      BY <2>2, <2>3 DEF TypeInv
  <1> QED
    BY <1>1, <1>2, TypeList
    DEF MainStep, DynamicAddAppender, DynamicRemoveAppender, Delete, vars

LEMMA Steps ==
  ASSUME [Next]_vars
  PROVE  \/ MainStep
         \/ \E t \in Threads : LogStep(t) \/ End(t) \/ StartThread(t)
         \/ \E t \in Threads, v \in Levels : LogTest(t, v)
  BY DEF Next, MainStep, Gone

LEMMA TypeStep == TypeInv /\ [Next]_vars => TypeInv'
  BY Steps, TypeMain, TypeStartThread, TypeLogTest, TypeLogCheck, TypeLogReturn, TypeDynamicWrite,
     TypeDynamicReturn, TypeLoopWrite, TypeDynamicLoopWrite, TypeWriteText, TypeEndWrite
  DEF LogStep

LEMMA TypeInvariant == Spec => []TypeInv
  BY TypeInit, TypeStep, PTL DEF Spec

(* Every variable of the logger, its appenders and its threads has its     *)
(* type in every state, and without a logger there is no list.             *)
THEOREM TypeCorrect == Spec => []TypeOK
  <1>1. TypeInv => TypeOK
    BY DEF TypeInv
  <1> QED
    BY <1>1, TypeInvariant, PTL

(* A thread in a log statement has a logger, and every appender it writes  *)
(* to, or will, exists: DynamicAppender::removeAppender waits for the      *)
(* write that may still come to the appender, and main joins the threads   *)
(* before it destroys the logger and the appenders.                        *)
THEOREM DestroyedUnused == Spec => []NoUseOfDestroyed
  <1>1. TypeInv => NoUseOfDestroyed
    <2> SUFFICES ASSUME TypeInv, NEW t \in Threads
                 PROVE  /\ InStatement(t) => instance
                        /\ pc[t] \in {"text", "reset"} => life[current[t]] = "alive"
                        /\ \A s \in dynTodo[t] : life[s] = "alive"
                        /\ pc[t] = "dynamic" => life[Dynamic] = "alive"
      BY DEF NoUseOfDestroyed
    <2>1. /\ InStatement(t) => instance
          /\ pc[t] \notin {"new", "idle", "ended"} => main = "running"
      BY DEF TypeInv, ControlInv
    <2>2. Busy(t) => current[t] = Attached \/ (current[t] \in Sinks /\ current[t] \in dynamic)
      BY DEF TypeInv, TypeOK, LoopInv, Appenders
    <2>3. \A s \in dynTodo[t] : pc[t] \in {"dynamic", "text", "reset"} /\ s \in dynamic
      BY DEF TypeInv, LoopInv, InDynamic, Busy
    <2>4. main = "running" => /\ life[Attached] = "alive" /\ life[Dynamic] = "alive"
                              /\ \A s \in dynamic : life[s] = "alive"
      BY DEF TypeInv, LifeInv
    <2> QED
      BY <2>1, <2>2, <2>3, <2>4 DEF Busy
  <1> QED
    BY <1>1, TypeInvariant, PTL

(* A thread that holds a lock has not to wait for another: the locks of    *)
(* the dynamic appender's sinks are free to whoever holds that of the      *)
(* dynamic appender, and a thread that waits for a first lock holds none.  *)
HoldersGoOn ==
  \A t \in Threads, a \in Appenders \cup {Dynamic} : mutex[a] = t =>
    /\ pc[t] \in {"text", "reset", "dynamic"}
    /\ pc[t] = "dynamic" => \A s \in dynTodo[t] : mutex[s] = Free

(* The locks of the appenders cannot be waited for in a circle, whatever   *)
(* is added to the dynamic appender and removed from it: a write holds two *)
(* of them at most and is never held up with the first in hand             *)
(* (DynamicAppender.h:12-37, ColorConsoleAppender.h:33-41).                *)
THEOREM LocksAreNested == Spec => []HoldersGoOn
<1>1. TypeInv => HoldersGoOn
  <2> SUFFICES ASSUME TypeInv, NEW t \in Threads, NEW a \in Appenders \cup {Dynamic},
                      mutex[a] = t
               PROVE  /\ pc[t] \in {"text", "reset", "dynamic"}
                      /\ pc[t] = "dynamic" => \A s \in dynTodo[t] : mutex[s] = Free
    BY DEF HoldersGoOn
  <2>1. pc[t] \in {"text", "reset", "dynamic"}
    BY DEF TypeInv, LockInv, InDynamic, Busy
  <2>2. ASSUME pc[t] = "dynamic", NEW s \in dynTodo[t] PROVE mutex[s] = Free
    <3>1. s \in Sinks /\ s \in Appenders /\ mutex[s] \in Threads \cup {Free}
      BY LoggingAssumption DEF TypeInv, TypeOK, Appenders
    <3>2. mutex[Dynamic] = t
      BY <2>2 DEF TypeInv, LockInv, InDynamic
    <3>3. ASSUME NEW u \in Threads, mutex[s] = u PROVE FALSE
      <4>1. Busy(u) /\ current[u] = s
        BY <3>1, <3>3 DEF TypeInv, LockInv
      <4>2. mutex[Dynamic] = u
        BY <3>1, <4>1 DEF TypeInv, LockInv, InDynamic
      <4>3. QED
        BY <2>2, <3>2, <4>1, <4>2 DEF Busy
    <3>4. QED
      BY <3>1, <3>3
  <2>3. QED
    BY <2>1, <2>2
<1>2. QED
  BY <1>1, TypeInvariant, PTL

-----------------------------------------------------------------------------
(* Colours.                                                                *)

LEMMA SilentSteps ==
  ASSUME TypeInv, [Next]_vars,
         ~ \E t \in Threads : LoopWrite(t) \/ DynamicLoopWrite(t) \/ WriteText(t) \/ EndWrite(t)
  PROVE  /\ UNCHANGED <<streams, current>>
         /\ \A a \in Appenders : mutex'[a] = mutex[a]
         /\ \A u \in Threads : Busy(u)' <=> Busy(u)
         /\ \A u \in Threads : Busy(u) => record'[u] = record[u]
  <1>1. CASE MainStep
    BY <1>1 DEF MainStep, InitLog, SetMaxSeverity, DynamicAddAppender, DynamicRemoveAppender, Delete,
                AddAppender, DestroyLogger, DestroyAppenders, vars, control, Busy
  <1>2. ASSUME NEW t \in Threads, NEW from \in States, NEW to \in States, Goto(t, from, to),
               from \notin {"text", "reset"}, to \notin {"text", "reset"}
        PROVE  \A u \in Threads : Busy(u)' <=> Busy(u)
    BY <1>2, Moves DEF Busy
  <1>3. ASSUME NEW t \in Threads, LogReturn(t) \/ End(t) \/ StartThread(t)
        PROVE  \A u \in Threads : Busy(u)' <=> Busy(u)
    BY <1>2, <1>3 DEF LogReturn, End, StartThread, States
  <1>4. ASSUME NEW t \in Threads, LogCheck(t)
        PROVE  \A u \in Threads : Busy(u)' <=> Busy(u)
    <2>1. PICK to \in {"loop", "idle"} : Goto(t, "check", to)
      BY <1>4 DEF LogCheck
    <2> QED
      BY <1>2, <2>1 DEF States
  <1>5. ASSUME NEW t \in Threads, NEW v \in Levels, LogTest(t, v)
        PROVE  /\ \A u \in Threads : Busy(u)' <=> Busy(u)
               /\ \A u \in Threads : Busy(u) => record'[u] = record[u]
    <2>1. PICK to \in {"check", "idle"} : Goto(t, "idle", to)
      BY <1>5 DEF LogTest
    <2>2. \A u \in Threads : Busy(u)' <=> Busy(u)
      BY <1>2, <2>1 DEF States
    <2>3. \A u \in Threads : Busy(u) => record'[u] = record[u]
      BY <1>5, <2>1 DEF LogTest, Goto, TypeInv, TypeOK, Busy
    <2> QED
      BY <2>2, <2>3
  <1>6. ASSUME NEW t \in Threads, DynamicWrite(t)
        PROVE  /\ \A u \in Threads : Busy(u)' <=> Busy(u)
               /\ \A a \in Appenders : mutex'[a] = mutex[a]
    BY <1>6, DynamicWriteEffect
  <1>7. ASSUME NEW t \in Threads, DynamicReturn(t)
        PROVE  /\ \A u \in Threads : Busy(u)' <=> Busy(u)
               /\ \A a \in Appenders : mutex'[a] = mutex[a]
    <2>1. \A u \in Threads : Busy(u)' <=> Busy(u)
      BY <1>2, <1>7 DEF DynamicReturn, States
    <2>2. \A a \in Appenders : mutex'[a] = mutex[a]
      BY <1>7, NameFacts DEF DynamicReturn, Unlock, TypeInv, TypeOK
    <2> QED
      BY <2>1, <2>2
  <1> QED
    BY <1>1, <1>3, <1>4, <1>5, <1>6, <1>7, Steps
    DEF LogStep, LogReturn, End, StartThread, LogCheck, LogTest, DynamicWrite, DynamicReturn

(* One thread at a time writes to a serialised output.                     *)
LEMMA OneWriter ==
  ASSUME TypeInv, NEW t \in Threads, NEW u \in Threads, Busy(t), Busy(u),
         Serialised(Output[current[t]]), Output[current[u]] = Output[current[t]]
  PROVE  u = t
  <1>1. /\ current[t] \in Users(Output[current[t]]) /\ current[t] \in Appenders
        /\ current[u] \in Users(Output[current[t]]) /\ current[u] \in Appenders
    BY DEF TypeInv, TypeOK, Users
  <1>2. mutex[current[t]] = t /\ mutex[current[u]] = u
    BY <1>1 DEF TypeInv, LockInv
  <1>3. CASE Users(Output[current[t]]) \subseteq Sinks
    <2>1. InDynamic(t) /\ InDynamic(u)
      BY <1>1, <1>3 DEF InDynamic
    <2> QED
      BY <2>1 DEF TypeInv, LockInv
  <1> QED
    BY <1>1, <1>2, <1>3 DEF Serialised

(* Whoever comes to write to a serialised output finds nobody there.       *)
LEMMA NoWriter ==
  ASSUME TypeInv, NEW t \in Threads, ~Busy(t), NEW a \in Appenders, mutex[a] = Free,
         a \in Sinks => InDynamic(t), Serialised(Output[a]), NEW b \in Users(Output[a])
  PROVE  mutex[b] = Free
  <1>1. a \in Users(Output[a]) /\ b \in Appenders /\ mutex[b] \in Threads \cup {Free}
    BY DEF Users, TypeInv, TypeOK
  <1>2. CASE Users(Output[a]) \subseteq Sinks
    <2>1. a \in Sinks /\ b \in Sinks /\ mutex[Dynamic] = t
      BY <1>1, <1>2 DEF TypeInv, LockInv
    <2>2. ASSUME NEW u \in Threads, mutex[b] = u PROVE FALSE
      <3>1. Busy(u) /\ current[u] = b
        BY <1>1, <2>2 DEF TypeInv, LockInv
      <3>2. mutex[Dynamic] = u
        BY <2>1, <3>1 DEF TypeInv, LockInv, InDynamic
      <3> QED
        BY <2>1, <3>1, <3>2
    <2> QED
      BY <1>1, <2>2
  <1> QED
    BY <1>1, <1>2 DEF Serialised

LEMMA ColourStep == TypeInv /\ ColourInv /\ [Next]_vars => ColourInv'
  <1> SUFFICES ASSUME TypeInv, ColourInv, [Next]_vars PROVE ColourInv'
    OBVIOUS
  <1>0. /\ \A a \in Appenders : Serialised(Output[a]) =>
             /\ \A k \in DOMAIN printed[a] : printed[a][k].in = Own(a, printed[a][k].rec.severity)
             /\ (\A b \in Users(Output[a]) : mutex[b] = Free) => colour[Output[a]] = Plain
        /\ \A t \in Threads : Busy(t) /\ Serialised(Output[current[t]]) =>
             colour[Output[current[t]]] = Own(current[t], record[t].severity)
    BY DEF ColourInv, OwnColour, Own
  <1>1. ASSUME \A a \in Appenders : Serialised(Output[a]) =>
                 /\ \A k \in DOMAIN printed'[a] :
                      printed'[a][k].in = Own(a, printed'[a][k].rec.severity)
                 /\ (\A b \in Users(Output[a]) : mutex'[b] = Free) => colour'[Output[a]] = Plain,
               \A t \in Threads : Busy(t)' /\ Serialised(Output[current'[t]]) =>
                 colour'[Output[current'[t]]] = Own(current'[t], record'[t].severity)
        PROVE  ColourInv'
    BY <1>1 DEF ColourInv, OwnColour, Own, Serialised, Users
  <1>9. /\ \A a \in Appenders : Output[a] \in Outputs /\ a \in Users(Output[a])
        /\ \A a \in Appenders : \A b \in Users(Output[a]) : b \in Appenders /\ Output[b] = Output[a]
        /\ \A u \in Threads : current[u] \in Appenders
        /\ Free \notin Threads
    BY LoggingAssumption DEF Users, TypeInv, TypeOK
  <1>2. CASE ~ \E t \in Threads : LoopWrite(t) \/ DynamicLoopWrite(t) \/ WriteText(t) \/ EndWrite(t)
    <2>1. /\ colour' = colour /\ printed' = printed /\ current' = current
          /\ \A a \in Appenders : mutex'[a] = mutex[a]
          /\ \A u \in Threads : (Busy(u)' <=> Busy(u)) /\ (Busy(u) => record'[u] = record[u])
      BY <1>2, SilentSteps DEF streams
    <2> QED
      BY <1>0, <1>1, <1>9, <2>1
  (* The colour is set when nobody else writes to the output.              *)
  <1>3. ASSUME NEW t \in Threads, NEW a \in Appenders, BeginWrite(t, a),
               current'[t] = a, \A u \in Threads : u # t => current'[u] = current[u],
               \A u \in Threads : Busy(u)' <=> (Busy(u) \/ u = t), ~Busy(t),
               a \in Sinks => InDynamic(t),
               mutex'[a] = t, \A b \in Appenders : b # a => mutex'[b] = mutex[b]
        PROVE  ColourInv'
    <2>1. mutex[a] = Free /\ printed' = printed /\ record' = record
      BY <1>3 DEF BeginWrite, Lock
    <2>2. Serialised(Output[a]) => \A b \in Users(Output[a]) : mutex[b] = Free
      BY <1>3, <2>1, NoWriter
    <2>3. /\ Serialised(Output[a]) => colour'[Output[a]] = Own(a, record[t].severity)
          /\ \A o \in Outputs : o # Output[a] => colour'[o] = colour[o]
      <3>1. Serialised(Output[a]) => colour[Output[a]] = Plain
        BY <1>0, <2>2
      <3>2. colour \in [Outputs -> Colours]
        BY DEF TypeInv, TypeOK
      <3> QED
        BY <1>3, <1>9, <3>1, <3>2 DEF BeginWrite, Own
    <2>4. ASSUME NEW b \in Appenders, Serialised(Output[b]),
                 \A c \in Users(Output[b]) : mutex'[c] = Free
          PROVE  colour'[Output[b]] = Plain
      <3>1. Output[b] # Output[a]
        BY <1>3, <1>9, <2>4 DEF Users
      <3>2. \A c \in Users(Output[b]) : mutex[c] = Free
        BY <1>3, <1>9, <2>4, <3>1
      <3> QED
        BY <1>0, <1>9, <2>3, <2>4, <3>1, <3>2
    <2>5. ASSUME NEW u \in Threads, Busy(u)', Serialised(Output[current'[u]])
          PROVE  colour'[Output[current'[u]]] = Own(current'[u], record'[u].severity)
      <3>1. CASE u = t
        BY <1>3, <2>1, <2>3, <2>5, <3>1
      <3>2. CASE u # t
        <4>1. Busy(u) /\ current'[u] = current[u] /\ mutex[current[u]] = u
          BY <1>3, <1>9, <2>5, <3>2 DEF TypeInv, LockInv
        <4>2. Output[current[u]] # Output[a]
          BY <1>9, <2>2, <2>5, <4>1 DEF Users
        <4> QED
          BY <1>0, <1>9, <2>1, <2>3, <2>5, <4>1, <4>2
      <3> QED
        BY <3>1, <3>2
    <2> QED
      BY <1>0, <1>1, <2>1, <2>4, <2>5
  <1>4. ASSUME NEW t \in Threads, LoopWrite(t) PROVE ColourInv'
    <2>1. /\ BeginWrite(t, Attached) /\ Attached \in Appenders /\ Attached \notin Sinks
          /\ current'[t] = Attached /\ \A u \in Threads : u # t => current'[u] = current[u]
          /\ \A u \in Threads : Busy(u)' <=> (Busy(u) \/ u = t)
          /\ ~Busy(t)
          /\ mutex'[Attached] = t /\ \A b \in Appenders : b # Attached => mutex'[b] = mutex[b]
      BY <1>4, LoopWriteEffect, NameFacts DEF LoopWrite
    <2> QED
      BY <1>3, <2>1
  <1>5. ASSUME NEW t \in Threads, DynamicLoopWrite(t) PROVE ColourInv'
    <2>1. PICK s \in dynTodo[t] :
            /\ BeginWrite(t, s) /\ s \in Appenders /\ InDynamic(t)
            /\ current'[t] = s /\ \A u \in Threads : u # t => current'[u] = current[u]
            /\ \A u \in Threads : Busy(u)' <=> (Busy(u) \/ u = t)
            /\ ~Busy(t)
            /\ mutex'[s] = t /\ \A b \in Appenders : b # s => mutex'[b] = mutex[b]
      BY <1>5, DynamicLoopWriteEffect
    <2> QED
      BY <1>3, <2>1
  <1>6. ASSUME NEW t \in Threads, WriteText(t) PROVE ColourInv'
    <2>1. PICK c \in Appenders : c = current[t]
      BY DEF TypeInv, TypeOK
    <2>2. /\ pc[t] = "text" /\ pc'[t] = "reset" /\ \A u \in Threads : u # t => pc'[u] = pc[u]
          /\ UNCHANGED <<mutex, colour, current, record>>
      BY <1>6, Moves DEF WriteText, States
    <2>3. PICK new \in Entry : /\ new.rec = record[t] /\ new.in = colour[Output[c]]
                               /\ printed' = [printed EXCEPT ![c] = Append(printed[c], new)]
      BY <1>6, <2>1, PrintedEffect
    <2>4. Serialised(Output[c]) => new.in = Own(c, new.rec.severity)
      BY <1>0, <2>1, <2>2, <2>3 DEF Busy
    <2>5. printed[c] \in Seq(Entry)
      BY DEF TypeInv, TypeOK
    <2>6. /\ \A a \in Appenders : a # c => printed'[a] = printed[a]
          /\ printed'[c] = Append(printed[c], new)
      BY <2>3 DEF TypeInv, TypeOK
    <2>7. ASSUME Serialised(Output[c]), NEW k \in DOMAIN printed'[c]
          PROVE  printed'[c][k].in = Own(c, printed'[c][k].rec.severity)
      <3>1. /\ Len(printed[c]) \in Nat /\ DOMAIN printed[c] = 1..Len(printed[c])
            /\ DOMAIN printed'[c] = 1..(Len(printed[c]) + 1)
            /\ \A i \in 1..Len(printed[c]) : printed'[c][i] = printed[c][i]
            /\ printed'[c][Len(printed[c]) + 1] = new
        BY <2>3, <2>5, <2>6, AppendedEntry
      <3> QED
        BY <1>0, <2>4, <2>7, <3>1
    <2>8. \A u \in Threads : Busy(u)' <=> Busy(u)
      BY <2>2 DEF Busy
    <2> QED
      BY <1>0, <1>1, <2>2, <2>6, <2>7, <2>8
  <1>7. ASSUME NEW t \in Threads, EndWrite(t) PROVE ColourInv'
    <2>1. PICK to \in {"dynamic", "loop"} : Goto(t, "reset", to)
      BY <1>7 DEF EndWrite
    <2>2. /\ Busy(t) /\ \A u \in Threads : Busy(u)' <=> (Busy(u) /\ u # t)
      BY <2>1, Moves DEF States, Busy
    <2>3. PICK c \in Appenders : c = current[t]
      BY DEF TypeInv, TypeOK
    <2>4. /\ Serialised(Output[c]) => colour'[Output[c]] = Plain
          /\ \A o \in Outputs : o # Output[c] => colour'[o] = colour[o]
          /\ \A a \in Appenders : a # c => mutex'[a] = mutex[a]
          /\ UNCHANGED <<printed, current, record>>
      <3>1. colour \in [Outputs -> Colours]
        BY DEF TypeInv, TypeOK
      <3>2. c \notin Coloured /\ Serialised(Output[c]) => colour[Output[c]] = Plain
        BY <1>0, <2>2, <2>3 DEF Own
      <3>3. \A a \in Appenders : a # c => mutex'[a] = mutex[a]
        BY <1>7, <2>3 DEF EndWrite, Unlock, TypeInv, TypeOK
      <3> QED
        BY <1>7, <1>9, <2>3, <3>1, <3>2, <3>3 DEF EndWrite
    <2>5. ASSUME NEW b \in Appenders, Serialised(Output[b]),
                 \A d \in Users(Output[b]) : mutex'[d] = Free
          PROVE  colour'[Output[b]] = Plain
      <3>1. CASE Output[b] = Output[c]
        BY <2>4, <2>5, <3>1
      <3>2. CASE Output[b] # Output[c]
        <4>1. \A d \in Users(Output[b]) : mutex[d] = Free
          BY <1>9, <2>4, <2>5, <3>2
        <4> QED
          BY <1>0, <1>9, <2>4, <2>5, <3>2, <4>1
      <3> QED
        BY <3>1, <3>2
    <2>6. ASSUME NEW u \in Threads, Busy(u)', Serialised(Output[current'[u]])
          PROVE  colour'[Output[current'[u]]] = Own(current'[u], record'[u].severity)
      <3>1. Busy(u) /\ u # t /\ current'[u] = current[u] /\ Serialised(Output[current[u]])
        BY <2>2, <2>4, <2>6
      <3>2. Output[current[u]] # Output[c]
        BY <2>2, <2>3, <3>1, OneWriter
      <3> QED
        BY <1>0, <1>9, <2>4, <3>1, <3>2
    <2> QED
      BY <1>0, <1>1, <2>4, <2>5, <2>6
  <1> QED
    BY <1>2, <1>4, <1>5, <1>6, <1>7

LEMMA ColourInvariant == Spec => [](TypeInv /\ ColourInv)
  <1>1. Init => ColourInv
    BY LoggingAssumption DEF Init, ColourInv, OwnColour, Busy
  <1> QED
    BY <1>1, TypeInit, TypeStep, ColourStep, PTL DEF Spec

(* On a terminal that is one appender's, or that of sinks only, every      *)
(* record is printed in the colour of its severity, and the terminal is    *)
(* plain whenever nobody writes to it, whatever other threads print: the   *)
(* colour is set and reset under a lock that whoever writes to this        *)
(* terminal holds, the appender's own or the DynamicAppender's             *)
(* (ConsoleAppender.h:71, DynamicAppender.h:30).                           *)
THEOREM ColoursKept == Spec => []OwnColour
  <1>1. ColourInv => OwnColour
    BY DEF ColourInv
  <1> QED
    BY <1>1, ColourInvariant, PTL

-----------------------------------------------------------------------------
(* Records.                                                                *)

(* The lists have a length.                                                *)
LEMMA Lengths ==
  ASSUME TypeInv
  PROVE  /\ Len(appenders) \in Nat /\ \A u \in Threads : Left(u) \in Nat
         /\ \A p \in passed : Len(p.list) \in Nat /\ DOMAIN p.list = 1..Len(p.list)
         /\ \A a \in Appenders : \A k \in DOMAIN printed[a] : printed[a][k].turn \in Nat
  <1>1. Len(appenders) \in Nat
    <2>1. appenders \in Seq({Attached, Dynamic})
      BY DEF TypeInv, TypeOK
    <2> QED
      BY <2>1, LenProperties
  <1>2. ASSUME NEW u \in Threads PROVE Left(u) \in Nat
    <2>1. todo[u] \in Seq({Attached, Dynamic})
      BY DEF TypeInv, TypeOK
    <2> QED
      BY <2>1, LenProperties DEF Left
  <1>3. ASSUME NEW p \in passed
        PROVE  Len(p.list) \in Nat /\ DOMAIN p.list = 1..Len(p.list)
    <2>1. p.list \in Seq({Attached, Dynamic})
      BY DEF TypeInv, TypeOK, Passed
    <2> QED
      BY <2>1, LenProperties
  <1>4. ASSUME NEW a \in Appenders, NEW k \in DOMAIN printed[a] PROVE printed[a][k].turn \in Nat
    <2>1. printed[a] \in Seq(Entry)
      BY DEF TypeInv, TypeOK
    <2>2. printed[a][k] \in Entry
      BY <2>1, LenProperties, ElementOfSeq
    <2> QED
      BY <2>2 DEF Entry
  <1> QED
    BY <1>1, <1>2, <1>3, <1>4

(* A step is of the main thread, and whoever is in a log statement finds   *)
(* the list as it was, or it is of one thread.                             *)
Still(u) ==
  /\ pc'[u] = pc[u] /\ record'[u] = record[u] /\ todo'[u] = todo[u]
  /\ dynTodo'[u] = dynTodo[u] /\ current'[u] = current[u]

LEMMA MainMoves ==
  ASSUME TypeInv, MainStep
  PROVE  /\ \A u \in Threads : Still(u)
         /\ UNCHANGED <<printed, passed, logged>>
         /\ appenders' = appenders \/ \A u \in Threads : ~InStatement(u)
  <1>1. UNCHANGED <<control, printed, passed, logged>>
    BY DEF MainStep, InitLog, SetMaxSeverity, DynamicAddAppender, DynamicRemoveAppender, Delete,
           AddAppender, DestroyLogger, DestroyAppenders, vars, streams, history
  <1>2. \A u \in Threads : Still(u)
    BY <1>1 DEF control, Still
  <1>3. \/ appenders' = appenders
        \/ \E v \in Levels : InitLog(v)
        \/ \E a \in {Attached, Dynamic} : AddAppender(a)
        \/ DestroyLogger \/ DestroyAppenders
    BY DEF MainStep, SetMaxSeverity, DynamicAddAppender, DynamicRemoveAppender, Delete, vars, logger
  <1> QED
    BY <1>1, <1>2, <1>3, TypeList

LEMMA ThreadMoves ==
  ASSUME TypeInv, NEW t \in Threads,
         LogStep(t) \/ End(t) \/ StartThread(t) \/ \E v \in Levels : LogTest(t, v)
  PROVE  appenders' = appenders /\ \A u \in Threads : u # t => Still(u)
  <1>1. CASE \E v \in Levels : LogTest(t, v)
    BY <1>1 DEF LogTest, Goto, TypeInv, TypeOK, logger, Still
  <1>2. CASE LogCheck(t)
    BY <1>2 DEF LogCheck, Goto, TypeInv, TypeOK, logger, Still
  <1>3. CASE LogReturn(t) \/ End(t) \/ StartThread(t) \/ DynamicReturn(t) \/ WriteText(t) \/ EndWrite(t)
    BY <1>3 DEF LogReturn, End, StartThread, DynamicReturn, WriteText, EndWrite, Goto, TypeInv, TypeOK,
                logger, Still
  <1>4. CASE DynamicWrite(t)
    <2>1. \A u \in Threads : u # t => pc'[u] = pc[u] /\ todo'[u] = todo[u] /\ dynTodo'[u] = dynTodo[u]
      BY <1>4, DynamicWriteEffect
    <2>2. UNCHANGED <<appenders, record, current>>
      BY <1>4 DEF DynamicWrite, logger
    <2> QED
      BY <2>1, <2>2 DEF Still
  <1>5. CASE LoopWrite(t)
    BY <1>5, LoopWriteEffect DEF LoopWrite, BeginWrite, logger, Still
  <1>6. CASE DynamicLoopWrite(t)
    BY <1>6, DynamicLoopWriteEffect DEF logger, Still
  <1> QED
    BY <1>1, <1>2, <1>3, <1>4, <1>5, <1>6 DEF LogStep

(* A thread that goes on inside the loop of operator+=, without coming to  *)
(* the next appender and without writing.                                  *)
LEMMA Within ==
  ASSUME TypeInv, NEW t \in Threads, DynamicLoopWrite(t) \/ DynamicReturn(t) \/ EndWrite(t)
  PROVE  /\ Looping(t) /\ Looping(t)' /\ pc[t] # "text" /\ pc[t] # "loop" /\ pc[t] # "check"
         /\ UNCHANGED <<todo, record, printed, passed, logged>>
         /\ \A a \in Appenders : Owes(t, a)' => Owes(t, a)
         /\ pc'[t] # "loop" => (InDynamic(t)' <=> InDynamic(t))
  <1>1. CASE DynamicLoopWrite(t)
    <2>1. PICK s \in dynTodo[t] :
            /\ pc[t] = "dynamic" /\ pc'[t] = "text" /\ current'[t] = s
            /\ dynTodo'[t] = dynTodo[t] \ {s}
            /\ \A u \in Threads : InDynamic(u)' <=> InDynamic(u)
            /\ UNCHANGED <<printed, record, todo, history>>
      BY <1>1, DynamicLoopWriteEffect
    <2> QED
      BY <2>1 DEF Looping, Owes, history
  <1>2. CASE DynamicReturn(t)
    <2>1. /\ pc[t] = "dynamic" /\ pc'[t] = "loop" /\ dynTodo'[t] = dynTodo[t]
          /\ UNCHANGED <<todo, record, streams, history>>
      BY <1>2, Moves DEF DynamicReturn, States
    <2> QED
      BY <2>1 DEF Looping, Owes, streams, history
  <1>3. CASE EndWrite(t)
    <2>1. PICK to \in {"dynamic", "loop"} :
            to = (IF current[t] \in Sinks THEN "dynamic" ELSE "loop") /\ Goto(t, "reset", to)
      BY <1>3 DEF EndWrite
    <2>2. /\ pc[t] = "reset" /\ pc'[t] = to
          /\ UNCHANGED <<todo, record, printed, dynTodo, current, history>>
      BY <1>3, <2>1, Moves DEF EndWrite, States
    <2> QED
      BY <2>1, <2>2 DEF Looping, Owes, InDynamic, Busy, history
  <1> QED
    BY <1>1, <1>2, <1>3

(* A thread that comes to the next appender of the list.                   *)
LEMMA Advances ==
  ASSUME TypeInv, NEW t \in Threads, LoopWrite(t) \/ DynamicWrite(t)
  PROVE  /\ pc[t] = "loop" /\ pc'[t] \in {"text", "dynamic"}
         /\ pc'[t] = "text" => current'[t] = Attached
         /\ Left(t) \in Nat /\ Left(t) >= 1 /\ Left(t)' = Left(t) - 1
         /\ todo[t][1] = IF InDynamic(t)' THEN Dynamic ELSE Attached
         /\ InDynamic(t)' <=> pc'[t] = "dynamic"
         /\ \A k \in 1..Left(t)' : todo'[t][k] = todo[t][k + 1]
         /\ UNCHANGED <<record, printed, passed, logged>>
  <1>1. /\ Left(t) \in Nat /\ Left(t) >= 1 /\ Left(t)' = Left(t) - 1
        /\ Head(todo[t]) = todo[t][1]
        /\ \A k \in 1..Left(t)' : todo'[t][k] = todo[t][k + 1]
    BY ListAdvances DEF LoopWrite, DynamicWrite, Left
  <1>2. CASE LoopWrite(t)
    <2>1. /\ pc[t] = "loop" /\ pc'[t] = "text" /\ current'[t] = Attached
          /\ Head(todo[t]) = Attached /\ ~InDynamic(t) /\ (InDynamic(t)' <=> InDynamic(t))
      BY <1>2, LoopWriteEffect
    <2>2. UNCHANGED <<record, printed, passed, logged>>
      BY <1>2 DEF LoopWrite, BeginWrite, history
    <2> QED
      BY <1>1, <2>1, <2>2
  <1>3. CASE DynamicWrite(t)
    <2>1. pc[t] = "loop" /\ pc'[t] = "dynamic" /\ InDynamic(t)'
      BY <1>3, DynamicWriteEffect
    <2>2. Head(todo[t]) = Dynamic /\ UNCHANGED <<record, printed, passed, logged>>
      BY <1>3 DEF DynamicWrite, streams, history
    <2> QED
      BY <1>1, <2>1, <2>2
  <1> QED
    BY <1>2, <1>3

(* A thread enters a log statement or leaves it.                           *)
LEMMA Outside ==
  ASSUME TypeInv, NEW t \in Threads,
         LogReturn(t) \/ End(t) \/ StartThread(t) \/ \E v \in Levels : LogTest(t, v)
  PROVE  /\ ~Looping(t)' /\ pc[t] # "check" /\ UNCHANGED <<printed, passed>>
         /\ Looping(t) => pc[t] = "loop" /\ Left(t) = 0
         /\ pc'[t] = "check" \/ ~InStatement(t)'
  <1>1. CASE LogReturn(t)
    <2>1. todo[t] = <<>> /\ pc[t] = "loop" /\ pc'[t] = "idle" /\ UNCHANGED <<streams, history>>
      BY <1>1, Moves DEF LogReturn, States
    <2> QED
      BY <2>1 DEF Looping, Left, InStatement, streams, history
  <1>2. CASE End(t) \/ StartThread(t) \/ \E v \in Levels : LogTest(t, v)
    <2>1. /\ pc[t] \in {"idle", "new"} /\ pc'[t] \in {"check", "idle", "ended"}
          /\ UNCHANGED <<printed, passed>>
      BY <1>2 DEF End, StartThread, LogTest, Goto, TypeInv, TypeOK, streams, history
    <2> QED
      BY <2>1 DEF Looping, InStatement
  <1> QED
    BY <1>1, <1>2

(* checkSeverity, and the start of the loop.                               *)
LEMMA Checks ==
  ASSUME TypeInv, NEW t \in Threads, LogCheck(t)
  PROVE  /\ pc[t] = "check" /\ UNCHANGED <<record, printed, logged>>
         /\ \/ pc'[t] = "idle" /\ passed' = passed
            \/ /\ pc'[t] = "loop" /\ todo'[t] = appenders
               /\ passed' = passed \cup {[rec |-> record[t], list |-> appenders]}
  BY DEF LogCheck, Goto, TypeInv, TypeOK, streams, history

(* What an appender has printed once it has written a record.              *)
LEMMA PrintedNow ==
  ASSUME TypeInv, NEW t \in Threads, WriteText(t)
  PROVE  /\ \A a \in Appenders : a # current[t] => printed'[a] = printed[a]
         /\ Len(printed[current[t]]) \in Nat
         /\ DOMAIN printed[current[t]] = 1..Len(printed[current[t]])
         /\ DOMAIN printed'[current[t]] = 1..(Len(printed[current[t]]) + 1)
         /\ \A k \in 1..Len(printed[current[t]]) :
              printed'[current[t]][k] = printed[current[t]][k]
         /\ printed'[current[t]][Len(printed[current[t]]) + 1].rec = record[t]
         /\ printed'[current[t]][Len(printed[current[t]]) + 1].turn = Left(t)
  <1>1. PICK c \in Appenders : c = current[t]
    BY DEF TypeInv, TypeOK
  <1>2. PICK new \in Entry : /\ new.rec = record[t] /\ new.turn = Left(t)
                             /\ printed' = [printed EXCEPT ![c] = Append(printed[c], new)]
    BY <1>1, PrintedEffect DEF Left
  <1>3. printed[c] \in Seq(Entry)
    BY DEF TypeInv, TypeOK
  <1>4. /\ \A a \in Appenders : a # c => printed'[a] = printed[a]
        /\ printed'[c] = Append(printed[c], new)
    BY <1>2 DEF TypeInv, TypeOK
  <1>5. /\ Len(printed[c]) \in Nat /\ DOMAIN printed[c] = 1..Len(printed[c])
        /\ DOMAIN printed'[c] = 1..(Len(printed[c]) + 1)
        /\ \A k \in 1..Len(printed[c]) : printed'[c][k] = printed[c][k]
        /\ printed'[c][Len(printed[c]) + 1] = new
    BY <1>2, <1>3, <1>4, AppendedEntry
  <1> QED
    BY <1>1, <1>2, <1>4, <1>5

LEMMA Writes ==
  ASSUME TypeInv, NEW t \in Threads, WriteText(t)
  PROVE  /\ pc[t] = "text" /\ pc'[t] = "reset" /\ UNCHANGED <<todo, dynTodo, current, record, passed, logged>>
         /\ Looping(t) /\ Looping(t)' /\ InStatement(t) /\ (InDynamic(t)' <=> InDynamic(t))
  <1>1. /\ pc[t] = "text" /\ pc'[t] = "reset"
        /\ UNCHANGED <<todo, dynTodo, current, record, passed, logged>>
    BY Moves DEF WriteText, States, history
  <1> QED
    BY <1>1 DEF Looping, InStatement, States, InDynamic, Busy

LEMMA ListStep == TypeInv /\ ListInv /\ [Next]_vars => ListInv'
  <1> SUFFICES ASSUME TypeInv, ListInv, [Next]_vars, NEW u \in Threads, Looping(u)'
               PROVE  /\ Left(u)' <= Len(appenders')
                      /\ \A k \in 1..Left(u)' : todo'[u][k] = appenders'[Len(appenders') - Left(u)' + k]
                      /\ pc'[u] # "loop" =>
                           /\ Left(u)' < Len(appenders')
                           /\ appenders'[Len(appenders') - Left(u)'] =
                                IF InDynamic(u)' THEN Dynamic ELSE Attached
    BY DEF ListInv
  <1>0. Len(appenders) \in Nat /\ Left(u) \in Nat
    BY Lengths
  <1>1. CASE appenders' = appenders /\ Still(u)
    <2>1. Looping(u) /\ Left(u)' = Left(u) /\ (InDynamic(u)' <=> InDynamic(u))
      BY <1>1 DEF Still, Looping, Left, InDynamic, Busy
    <2> QED
      BY <1>1, <2>1 DEF ListInv, Still
  <1>2. CASE MainStep
    <2>1. /\ Still(u) /\ (appenders' = appenders \/ ~InStatement(u))
      BY <1>2, MainMoves
    <2> QED
      BY <1>1, <2>1 DEF Still, Looping, InStatement, States
  <1>3. ASSUME NEW t \in Threads,
               LogStep(t) \/ End(t) \/ StartThread(t) \/ \E v \in Levels : LogTest(t, v)
        PROVE  /\ Left(u)' <= Len(appenders')
               /\ \A k \in 1..Left(u)' : todo'[u][k] = appenders'[Len(appenders') - Left(u)' + k]
               /\ pc'[u] # "loop" =>
                    /\ Left(u)' < Len(appenders')
                    /\ appenders'[Len(appenders') - Left(u)'] =
                         IF InDynamic(u)' THEN Dynamic ELSE Attached
    <2>0. appenders' = appenders /\ (u # t => Still(u))
      BY <1>3, ThreadMoves
    <2>1. CASE u # t
      BY <1>1, <2>0, <2>1
    <2>2. CASE u = t /\ (DynamicLoopWrite(t) \/ DynamicReturn(t) \/ EndWrite(t) \/ WriteText(t))
      <3>1. /\ Looping(t) /\ pc[t] # "loop" /\ todo' = todo
            /\ pc'[t] # "loop" => (InDynamic(t)' <=> InDynamic(t))
        BY <2>2, Within, Writes
      <3>2. Left(t)' = Left(t)
        BY <3>1 DEF Left
      <3> QED
        BY <2>0, <2>2, <3>1, <3>2 DEF ListInv
    <2>3. CASE u = t /\ (LoopWrite(t) \/ DynamicWrite(t))
      <3>1. /\ pc[t] = "loop" /\ Left(t) \in Nat /\ Left(t) >= 1 /\ Left(t)' = Left(t) - 1
            /\ todo[t][1] = IF InDynamic(t)' THEN Dynamic ELSE Attached
            /\ \A k \in 1..Left(t)' : todo'[t][k] = todo[t][k + 1]
        BY <2>3, Advances
      <3>2. /\ Left(t) <= Len(appenders)
            /\ \A k \in 1..Left(t) : todo[t][k] = appenders[Len(appenders) - Left(t) + k]
        BY <3>1 DEF ListInv, Looping
      <3>3. ASSUME NEW k \in 1..Left(t)'
            PROVE  todo'[t][k] = appenders[Len(appenders) - Left(t)' + k]
        <4>1. k + 1 \in 1..Left(t) /\ Len(appenders) - Left(t) + (k + 1) = Len(appenders) - Left(t)' + k
          BY <1>0, <3>1, <3>3
        <4> QED
          BY <3>1, <3>2, <3>3, <4>1
      <3>4. appenders[Len(appenders) - Left(t)'] = todo[t][1]
        <4>1. 1 \in 1..Left(t) /\ Len(appenders) - Left(t) + 1 = Len(appenders) - Left(t)'
          BY <1>0, <3>1
        <4> QED
          BY <3>2, <4>1
      <3>5. Left(t)' < Len(appenders) /\ Left(t)' <= Len(appenders)
        BY <1>0, <3>1, <3>2
      <3> QED
        BY <2>0, <2>3, <3>1, <3>3, <3>4, <3>5
    <2>4. CASE u = t /\ LogCheck(t)
      <3>1. pc'[t] = "loop" /\ todo'[t] = appenders
        BY <2>4, Checks DEF Looping
      <3>2. Left(t)' = Len(appenders)
        BY <3>1 DEF Left
      <3>3. \A k \in 1..Len(appenders) : Len(appenders) - Len(appenders) + k = k
        BY <1>0
      <3> QED
        BY <1>0, <2>0, <2>4, <3>1, <3>2, <3>3
    <2> QED
      BY <1>3, <2>1, <2>2, <2>3, <2>4, Outside DEF LogStep
  <1> QED
    BY <1>2, <1>3, Steps

LEMMA IdStep == TypeInv /\ IdInv /\ [Next]_vars => IdInv'
  <1> SUFFICES ASSUME TypeInv, IdInv, [Next]_vars PROVE IdInv'
    OBVIOUS
  <1>0. /\ logged \in Nat /\ \A u \in Threads : record[u].id \in Nat
        /\ \A p \in passed : p.rec.id \in Nat
    BY LoggingAssumption DEF TypeInv, TypeOK, Record, Passed
  <1>1. CASE MainStep
    <2>1. /\ \A u \in Threads : pc'[u] = pc[u] /\ record'[u] = record[u]
          /\ passed' = passed /\ logged' = logged
          /\ appenders' = appenders \/ \A u \in Threads : ~InStatement(u)
      BY <1>1, MainMoves DEF Still
    <2>2. \A u \in Threads : InStatement(u)' <=> InStatement(u)
      BY <2>1 DEF InStatement
    <2> QED
      BY <2>1, <2>2 DEF IdInv
  (* The thread has the number it had.                                     *)
  <1>2. ASSUME NEW t \in Threads, appenders' = appenders, \A u \in Threads : u # t => Still(u),
               record' = record, logged' = logged, passed \subseteq passed',
               \A p \in passed' : p \in passed \/ (pc[t] = "check" /\ p.rec = record[t]),
               InStatement(t)' => /\ InStatement(t) /\ pc'[t] # "check"
                                  /\ [rec |-> record[t], list |-> appenders] \in passed'
        PROVE  IdInv'
    <2>1. \A u \in Threads : u # t => pc'[u] = pc[u] /\ (InStatement(u)' <=> InStatement(u))
      BY <1>2 DEF Still, InStatement
    <2>2. pc[t] = "check" => InStatement(t)
      BY DEF InStatement, States
    <2>3. \A p \in passed' : p.rec.id <= logged'
      BY <1>2, <2>2 DEF IdInv
    <2>4. ASSUME NEW u \in Threads, InStatement(u)'
          PROVE  /\ record'[u].id <= logged'
                 /\ \A w \in Threads : InStatement(w)' /\ w # u => record'[w].id # record'[u].id
      BY <1>2, <2>1, <2>4 DEF IdInv
    <2>5. ASSUME NEW u \in Threads, InStatement(u)'
          PROVE  /\ pc'[u] = "check" => \A p \in passed' : p.rec.id # record'[u].id
                 /\ pc'[u] # "check" => [rec |-> record'[u], list |-> appenders'] \in passed'
      <3>1. CASE u = t
        BY <1>2, <2>5, <3>1
      <3>2. CASE u # t
        <4>1. InStatement(u) /\ pc'[u] = pc[u]
          BY <2>1, <2>5, <3>2
        <4>2. pc[t] = "check" => record[t].id # record[u].id
          BY <2>2, <3>2, <4>1 DEF IdInv
        <4> QED
          BY <1>2, <4>1, <4>2 DEF IdInv
      <3> QED
        BY <3>1, <3>2
    <2> QED
      BY <2>3, <2>4, <2>5 DEF IdInv
  <1>3. ASSUME NEW t \in Threads, NEW v \in Levels, LogTest(t, v) PROVE IdInv'
    <2>1. /\ pc[t] = "idle" /\ pc'[t] \in {"check", "idle"}
          /\ \A u \in Threads : u # t => pc'[u] = pc[u] /\ record'[u] = record[u]
          /\ record'[t].id = logged + 1 /\ logged' = logged + 1 /\ passed' = passed
          /\ appenders' = appenders
      BY <1>3 DEF LogTest, Goto, TypeInv, TypeOK, logger
    <2>2. \A u \in Threads : u # t => (InStatement(u)' <=> InStatement(u))
      BY <2>1 DEF InStatement
    <2>3. \A p \in passed' : p.rec.id <= logged /\ p.rec.id \in Nat
      BY <1>0, <2>1 DEF IdInv
    <2>4. \A p \in passed' : p.rec.id <= logged'
      BY <1>0, <2>1, <2>3
    <2>5. ASSUME NEW u \in Threads, u # t, InStatement(u)'
          PROVE  /\ record'[u].id <= logged' /\ record'[u].id # record'[t].id
                 /\ \A w \in Threads : InStatement(w)' /\ w # u => record'[w].id # record'[u].id
                 /\ pc'[u] = "check" => \A p \in passed' : p.rec.id # record'[u].id
                 /\ pc'[u] # "check" => [rec |-> record'[u], list |-> appenders'] \in passed'
      <3>1. record[u].id <= logged /\ record'[u] = record[u] /\ pc'[u] = pc[u] /\ InStatement(u)
        BY <2>1, <2>2, <2>5 DEF IdInv
      <3>2. record'[u].id <= logged' /\ record'[u].id # record'[t].id
        BY <1>0, <2>1, <3>1
      <3>3. \A w \in Threads : InStatement(w)' /\ w # u => record'[w].id # record'[u].id
        BY <2>1, <2>2, <3>1, <3>2 DEF IdInv
      <3>4. /\ pc'[u] = "check" => \A p \in passed' : p.rec.id # record'[u].id
            /\ pc'[u] # "check" => [rec |-> record'[u], list |-> appenders'] \in passed'
        BY <2>1, <3>1 DEF IdInv
      <3> QED
        BY <3>2, <3>3, <3>4
    <2>6. ASSUME InStatement(t)'
          PROVE  /\ record'[t].id <= logged'
                 /\ \A w \in Threads : InStatement(w)' /\ w # t => record'[w].id # record'[t].id
                 /\ pc'[t] = "check" /\ \A p \in passed' : p.rec.id # record'[t].id
      <3>1. pc'[t] = "check"
        BY <2>1, <2>6 DEF InStatement
      <3>2. record'[t].id <= logged' /\ \A p \in passed' : p.rec.id # record'[t].id
        BY <1>0, <2>1, <2>3
      <3> QED
        BY <2>5, <3>1, <3>2
    <2> QED
      BY <2>4, <2>5, <2>6 DEF IdInv
  <1>4. ASSUME NEW t \in Threads, LogStep(t) \/ End(t) \/ StartThread(t) PROVE IdInv'
    <2>0. appenders' = appenders /\ \A u \in Threads : u # t => Still(u)
      BY <1>4, ThreadMoves
    <2>1. ASSUME record' = record, logged' = logged, passed' = passed,
                 InStatement(t)' => /\ InStatement(t) /\ pc[t] # "check" /\ pc'[t] # "check"
          PROVE  IdInv'
      <3>1. InStatement(t)' => [rec |-> record[t], list |-> appenders] \in passed'
        BY <2>1 DEF IdInv
      <3> QED
        BY <1>2, <2>0, <2>1, <3>1
    <2>2. CASE LogReturn(t) \/ End(t) \/ StartThread(t)
      <3>1. /\ record' = record /\ logged' = logged /\ passed' = passed
            /\ pc'[t] \in {"idle", "ended"}
        BY <2>2 DEF LogReturn, End, StartThread, Goto, TypeInv, TypeOK, history
      <3> QED
        BY <2>1, <3>1 DEF InStatement
    <2>3. CASE DynamicLoopWrite(t) \/ DynamicReturn(t) \/ EndWrite(t) \/ WriteText(t)
      <3>1. /\ record' = record /\ logged' = logged /\ passed' = passed
            /\ Looping(t) /\ Looping(t)'
        BY <2>3, Within, Writes
      <3> QED
        BY <2>1, <3>1 DEF Looping, InStatement, States
    <2>4. CASE LoopWrite(t) \/ DynamicWrite(t)
      <3>1. /\ record' = record /\ logged' = logged /\ passed' = passed
            /\ pc[t] = "loop" /\ pc'[t] \in {"text", "dynamic"}
        BY <2>4, Advances
      <3> QED
        BY <2>1, <3>1 DEF InStatement, States
    <2>5. CASE LogCheck(t)
      <3>1. /\ pc[t] = "check" /\ record' = record /\ logged' = logged
            /\ \/ pc'[t] = "idle" /\ passed' = passed
               \/ /\ pc'[t] = "loop"
                  /\ passed' = passed \cup {[rec |-> record[t], list |-> appenders]}
        BY <2>5, Checks
      <3>2. /\ InStatement(t) /\ pc'[t] # "check" /\ passed \subseteq passed'
            /\ InStatement(t)' => [rec |-> record[t], list |-> appenders] \in passed'
            /\ \A p \in passed' : p \in passed \/ p.rec = record[t]
        BY <3>1 DEF InStatement, States
      <3> QED
        BY <1>2, <2>0, <3>1, <3>2
    <2> QED
      BY <1>4, <2>2, <2>3, <2>4, <2>5 DEF LogStep
  <1> QED
    BY <1>1, <1>3, <1>4, Steps

(* A record that is on its way through the list has not been written in    *)
(* the turn to come.                                                       *)
LEMMA FreshStep ==
  ASSUME TypeInv, IdInv, PrintedOnce, FreshInv, [Next]_vars
  PROVE  FreshInv'
  <1> SUFFICES ASSUME NEW u \in Threads, NEW a \in Appenders, Looping(u)', NEW k \in DOMAIN printed'[a],
                      printed'[a][k].rec = record'[u]
               PROVE  /\ Left(u)' <= printed'[a][k].turn
                      /\ Owes(u, a)' => Left(u)' < printed'[a][k].turn
    BY DEF FreshInv
  <1>0. /\ Left(u) \in Nat
        /\ \A j \in DOMAIN printed[a] : printed[a][j].turn \in Nat
    BY Lengths
  <1>1. ASSUME Looping(u), todo'[u] = todo[u], record'[u] = record[u], Owes(u, a)' => Owes(u, a),
               NEW j \in DOMAIN printed[a], printed'[a][k] = printed[a][j]
        PROVE  /\ Left(u)' <= printed'[a][k].turn
               /\ Owes(u, a)' => Left(u)' < printed'[a][k].turn
    <2>1. Left(u)' = Left(u) /\ printed[a][j].rec = record[u]
      BY <1>1 DEF Left
    <2> QED
      BY <1>1, <2>1 DEF FreshInv
  <1>2. ASSUME Still(u), printed'[a] = printed[a]
        PROVE  /\ Left(u)' <= printed'[a][k].turn
               /\ Owes(u, a)' => Left(u)' < printed'[a][k].turn
    BY <1>1, <1>2 DEF Still, Looping, Owes
  <1>3. CASE MainStep
    BY <1>2, <1>3, MainMoves
  <1>4. ASSUME NEW t \in Threads, u # t, ~WriteText(t),
               LogStep(t) \/ End(t) \/ StartThread(t) \/ \E v \in Levels : LogTest(t, v)
        PROVE  printed' = printed
    BY <1>4, Outside, Within, Advances, Checks DEF LogStep
  <1>5. CASE \E v \in Levels : LogTest(u, v)
    BY <1>5, Outside
  <1>6. CASE LogReturn(u) \/ End(u) \/ StartThread(u)
    BY <1>6, Outside
  <1>7. CASE DynamicLoopWrite(u) \/ DynamicReturn(u) \/ EndWrite(u)
    <2>1. /\ Looping(u) /\ todo' = todo /\ record' = record /\ printed' = printed
          /\ Owes(u, a)' => Owes(u, a)
      BY <1>7, Within
    <2> QED
      BY <1>1, <2>1
  <1>8. CASE LoopWrite(u) \/ DynamicWrite(u)
    <2>1. /\ pc[u] = "loop" /\ Left(u)' = Left(u) - 1 /\ record' = record /\ printed' = printed
      BY <1>8, Advances
    <2>2. Left(u) <= printed[a][k].turn /\ printed[a][k].turn \in Nat
      BY <1>0, <2>1 DEF FreshInv, Looping
    <2> QED
      BY <1>0, <2>1, <2>2
  <1>9. CASE LogCheck(u)
    <2>1. pc[u] = "check" /\ record' = record /\ printed' = printed
      BY <1>9, Checks
    <2>2. \A p \in passed : p.rec.id # record[u].id
      BY <2>1 DEF IdInv, InStatement, States
    <2>3. \E p \in passed : printed[a][k].rec = p.rec
      BY <2>1 DEF PrintedOnce
    <2> QED
      BY <2>1, <2>2, <2>3
  <1>10. ASSUME NEW t \in Threads, WriteText(t)
         PROVE  /\ Left(u)' <= printed'[a][k].turn
                /\ Owes(u, a)' => Left(u)' < printed'[a][k].turn
    <2>1. PICK c \in Appenders : c = current[t]
      BY DEF TypeInv, TypeOK
    <2>2. /\ pc[t] = "text" /\ pc'[t] = "reset" /\ todo' = todo /\ dynTodo' = dynTodo
          /\ current' = current /\ record' = record /\ Looping(t) /\ InStatement(t)
      BY <1>10, Writes
    <2>3. PICK n \in Nat :
            /\ \A b \in Appenders : b # c => printed'[b] = printed[b]
            /\ DOMAIN printed[c] = 1..n /\ DOMAIN printed'[c] = 1..(n + 1)
            /\ \A j \in 1..n : printed'[c][j] = printed[c][j]
            /\ printed'[c][n + 1].rec = record[t] /\ printed'[c][n + 1].turn = Left(t)
      BY <1>10, <2>1, PrintedNow
    <2>4. Looping(u) /\ (Owes(u, a)' => Owes(u, a))
      <3>1. LogStep(t)
        BY <1>10 DEF LogStep
      <3>2. \A w \in Threads : w # t => pc'[w] = pc[w]
        BY <3>1, ThreadMoves DEF Still
      <3> QED
        BY <2>2, <3>2 DEF Looping, Owes
    <2>5. CASE k \in DOMAIN printed[a] /\ printed'[a][k] = printed[a][k]
      BY <1>1, <2>2, <2>4, <2>5
    <2>6. CASE a = c /\ k = n + 1
      <3>1. u = t
        <4>1. record[u].id = record[t].id /\ InStatement(u)
          BY <2>2, <2>3, <2>4, <2>6 DEF Looping, InStatement, States
        <4> QED
          BY <2>2, <4>1 DEF IdInv
      <3>2. Left(u)' = Left(t) /\ printed'[a][k].turn = Left(t)
        BY <2>2, <2>3, <2>6, <3>1 DEF Left
      <3>3. ~Owes(u, a)'
        <4>1. c \notin dynTodo[t]
          BY <2>1, <2>2 DEF TypeInv, TypeOK, LoopInv, Busy
        <4> QED
          BY <2>2, <2>6, <3>1, <4>1 DEF Owes
      <3> QED
        BY <1>0, <3>1, <3>2, <3>3
    <2>7. a = c => k \in 1..n \/ k = n + 1
      BY <2>3
    <2> QED
      BY <2>3, <2>5, <2>6, <2>7
  <1>11. ASSUME NEW t \in Threads, ~WriteText(t),
                LogStep(t) \/ End(t) \/ StartThread(t) \/ \E v \in Levels : LogTest(t, v)
         PROVE  /\ Left(u)' <= printed'[a][k].turn
                /\ Owes(u, a)' => Left(u)' < printed'[a][k].turn
    <2>1. CASE u # t
      <3>1. Still(u) /\ printed'[a] = printed[a]
        BY <1>4, <1>11, <2>1, ThreadMoves
      <3> QED
        BY <1>2, <3>1
    <2>2. CASE u = t
      BY <1>5, <1>6, <1>7, <1>8, <1>9, <1>11, <2>2 DEF LogStep
    <2> QED
      BY <2>1, <2>2
  <1> QED
    BY <1>3, <1>10, <1>11, Steps

(* What is left to write of a record that has passed is due.               *)
Pending(p, i) ==
  \/ Written(Attached, p.rec, Len(p.list) - i)
  \/ \E t \in Threads : /\ Due(t, Len(p.list) - i)
                       /\ p = [rec |-> record[t], list |-> appenders]

LEMMA DoneStep ==
  ASSUME TypeInv, ListInv, ListInv', DoneInv, [Next]_vars
  PROVE  DoneInv'
  <1> SUFFICES ASSUME NEW p \in passed', NEW i \in DOMAIN p.list, p.list[i] = Attached
               PROVE  Pending(p, i)'
    BY DEF DoneInv, Pending
  <1>0. /\ p \in passed => Pending(p, i)
        /\ TypeInv' /\ Len(p.list) \in Nat /\ i \in 1..Len(p.list)
    <2>1. TypeInv'
      BY TypeStep
    <2>2. Len(p.list) \in Nat /\ i \in 1..Len(p.list)
      <3>1. p.list \in Seq({Attached, Dynamic})
        BY <2>1 DEF TypeInv, TypeOK, Passed
      <3> QED
        BY <3>1, LenProperties
    <2> QED
      BY <2>1, <2>2 DEF DoneInv, Pending
  <1>1. PICK n \in Nat : n = Len(p.list) - i /\ i = Len(p.list) - n /\ n < Len(p.list)
    BY <1>0
  <1>2. /\ Pending(p, i) <=>
             \/ Written(Attached, p.rec, n)
             \/ \E t \in Threads : Due(t, n) /\ p = [rec |-> record[t], list |-> appenders]
        /\ Pending(p, i)' <=>
             \/ Written(Attached, p.rec, n)'
             \/ \E t \in Threads : Due(t, n)' /\ p = [rec |-> record'[t], list |-> appenders']
    BY <1>1 DEF Pending
  <1>3. ASSUME printed' = printed, Written(Attached, p.rec, n) PROVE Pending(p, i)'
    BY <1>2, <1>3 DEF Written
  <1>4. ASSUME NEW u \in Threads, Due(u, n), Still(u), appenders' = appenders,
               p = [rec |-> record[u], list |-> appenders]
        PROVE  Pending(p, i)'
    <2>1. Due(u, n)' /\ record'[u] = record[u]
      BY <1>4 DEF Still, Due, Looping, Left
    <2> QED
      BY <1>2, <1>4, <2>1
  <1>5. \A u \in Threads : Due(u, n) => Looping(u) /\ InStatement(u)
    BY DEF Due, Looping, InStatement, States
  <1>6. CASE MainStep
    <2>1. /\ \A u \in Threads : Still(u)
          /\ printed' = printed /\ passed' = passed
          /\ appenders' = appenders \/ \A u \in Threads : ~InStatement(u)
      BY <1>6, MainMoves
    <2> QED
      BY <1>0, <1>2, <1>3, <1>4, <1>5, <2>1
  <1>7. ASSUME NEW t \in Threads,
               LogStep(t) \/ End(t) \/ StartThread(t) \/ \E v \in Levels : LogTest(t, v)
        PROVE  Pending(p, i)'
    <2>0. appenders' = appenders /\ \A u \in Threads : u # t => Still(u)
      BY <1>7, ThreadMoves
    <2>1. ASSUME printed' = printed, p \in passed,
                 Due(t, n) /\ p = [rec |-> record[t], list |-> appenders] =>
                   Due(t, n)' /\ record'[t] = record[t]
          PROVE  Pending(p, i)'
      <3>1. CASE Written(Attached, p.rec, n)
        BY <1>3, <2>1, <3>1
      <3>2. ASSUME NEW u \in Threads, Due(u, n), p = [rec |-> record[u], list |-> appenders]
            PROVE  Pending(p, i)'
        <4>1. CASE u = t
          BY <1>2, <2>0, <2>1, <3>2, <4>1
        <4>2. CASE u # t
          BY <1>4, <2>0, <3>2, <4>2
        <4> QED
          BY <4>1, <4>2
      <3> QED
        BY <1>0, <1>2, <2>1, <3>1, <3>2
    <2>2. Left(t) \in Nat /\ Len(appenders) \in Nat
      BY Lengths
    <2>3. CASE LogReturn(t) \/ End(t) \/ StartThread(t) \/ \E v \in Levels : LogTest(t, v)
      <3>1. /\ printed' = printed /\ passed' = passed
            /\ Looping(t) => pc[t] = "loop" /\ Left(t) = 0
        BY <2>3, Outside
      <3>2. ~Due(t, n)
        BY <3>1 DEF Due
      <3> QED
        BY <2>1, <3>1, <3>2
    <2>4. CASE DynamicLoopWrite(t) \/ DynamicReturn(t) \/ EndWrite(t)
      <3>1. /\ Looping(t)' /\ pc[t] # "text" /\ todo' = todo /\ record' = record
            /\ printed' = printed /\ passed' = passed
        BY <2>4, Within
      <3>2. Due(t, n) => Due(t, n)'
        BY <3>1 DEF Due, Left
      <3> QED
        BY <2>1, <3>1, <3>2
    <2>5. CASE LoopWrite(t) \/ DynamicWrite(t)
      <3>1. /\ pc[t] = "loop" /\ pc'[t] \in {"text", "dynamic"}
            /\ pc'[t] = "text" => current'[t] = Attached
            /\ Left(t)' = Left(t) - 1 /\ (InDynamic(t)' <=> pc'[t] = "dynamic")
            /\ record' = record /\ printed' = printed /\ passed' = passed
        BY <2>5, Advances
      <3>2. ASSUME Due(t, n), p = [rec |-> record[t], list |-> appenders]
            PROVE  Due(t, n)'
        <4>1. n < Left(t) /\ p.list = appenders
          BY <3>1, <3>2 DEF Due
        <4>2. n < Left(t)' \/ n = Left(t)'
          BY <2>2, <3>1, <4>1
        <4>3. n = Left(t)' => pc'[t] = "text"
          <5>1. Looping(t)' /\ pc'[t] # "loop"
            BY <3>1 DEF Looping
          <5>2. appenders[Len(appenders) - Left(t)'] = IF InDynamic(t)' THEN Dynamic ELSE Attached
            BY <2>0, <5>1 DEF ListInv
          <5>3. n = Left(t)' => appenders[Len(appenders) - Left(t)'] = Attached
            BY <1>1, <4>1
          <5> QED
            BY <3>1, <5>2, <5>3, NameFacts
        <4> QED
          BY <3>1, <4>2, <4>3 DEF Due, Looping
      <3> QED
        BY <2>1, <3>1, <3>2
    <2>6. CASE LogCheck(t)
      <3>1. /\ pc[t] = "check" /\ record' = record /\ printed' = printed
            /\ \/ pc'[t] = "idle" /\ passed' = passed
               \/ /\ pc'[t] = "loop" /\ todo'[t] = appenders
                  /\ passed' = passed \cup {[rec |-> record[t], list |-> appenders]}
        BY <2>6, Checks
      <3>2. ~Due(t, n)
        BY <3>1 DEF Due, Looping
      <3>3. CASE p \in passed
        BY <2>1, <3>1, <3>2, <3>3
      <3>4. CASE p \notin passed
        <4>1. p = [rec |-> record[t], list |-> appenders] /\ pc'[t] = "loop" /\ todo'[t] = appenders
          BY <3>1, <3>4
        <4>2. n < Left(t)' /\ Looping(t)'
          BY <1>1, <4>1 DEF Left, Looping
        <4> QED
          BY <1>2, <2>0, <3>1, <4>1, <4>2 DEF Due
      <3> QED
        BY <3>3, <3>4
    <2>7. CASE WriteText(t)
      <3>1. PICK c \in Appenders : c = current[t]
        BY DEF TypeInv, TypeOK
      <3>2. /\ todo' = todo /\ current' = current /\ record' = record /\ passed' = passed
            /\ Looping(t)'
        BY <2>7, Writes
      <3>3. PICK m \in Nat :
              /\ \A b \in Appenders : b # c => printed'[b] = printed[b]
              /\ DOMAIN printed[c] = 1..m /\ DOMAIN printed'[c] = 1..(m + 1)
              /\ \A j \in 1..m : printed'[c][j] = printed[c][j]
              /\ printed'[c][m + 1].rec = record[t] /\ printed'[c][m + 1].turn = Left(t)
        BY <2>7, <3>1, PrintedNow
      <3>4. CASE Written(Attached, p.rec, n)
        <4>1. Written(Attached, p.rec, n)'
          <5>1. PICK j \in DOMAIN printed[Attached] :
                  printed[Attached][j].rec = p.rec /\ printed[Attached][j].turn = n
            BY <3>4 DEF Written
          <5>2. j \in DOMAIN printed'[Attached] /\ printed'[Attached][j] = printed[Attached][j]
            <6>1. CASE c = Attached
              BY <3>3, <5>1, <6>1
            <6>2. CASE c # Attached
              BY <3>3, <5>1, <6>2, NameFacts
            <6> QED
              BY <6>1, <6>2
          <5> QED
            BY <5>1, <5>2 DEF Written
        <4> QED
          BY <1>2, <4>1
      <3>5. ASSUME NEW u \in Threads, Due(u, n), p = [rec |-> record[u], list |-> appenders]
            PROVE  Pending(p, i)'
        <4>1. CASE u # t
          BY <1>4, <2>0, <3>5, <4>1
        <4>2. CASE u = t /\ n < Left(t)
          <5>1. Due(t, n)'
            BY <3>2, <4>2 DEF Due, Left
          <5> QED
            BY <1>2, <2>0, <3>2, <3>5, <4>2, <5>1
        <4>3. CASE u = t /\ n = Left(t) /\ current[t] = Attached
          <5>1. /\ m + 1 \in DOMAIN printed'[Attached] /\ p.rec = record[t]
                /\ printed'[Attached][m + 1].rec = p.rec /\ printed'[Attached][m + 1].turn = n
            BY <3>1, <3>3, <3>5, <4>3
          <5> QED
            BY <1>2, <5>1 DEF Written
        <4> QED
          BY <3>5, <4>1, <4>2, <4>3 DEF Due
      <3> QED
        BY <1>0, <1>2, <3>2, <3>4, <3>5
    <2> QED
      BY <1>7, <2>3, <2>4, <2>5, <2>6, <2>7 DEF LogStep
  <1> QED
    BY <1>6, <1>7, Steps

LEMMA OnceStep == TypeInv /\ ListInv /\ IdInv /\ OnceInv /\ [Next]_vars => OnceInv'
  <1> SUFFICES ASSUME TypeInv, ListInv, IdInv, OnceInv, [Next]_vars PROVE OnceInv'
    OBVIOUS
  <1>0. TypeInv' /\ FreshInv' /\ DoneInv' /\ Attached \in Appenders
    BY TypeStep, ListStep, FreshStep, DoneStep, NameFacts DEF OnceInv
  <1>1. /\ \A a \in Appenders : \A j, k \in DOMAIN printed[a] :
             printed[a][j].rec = printed[a][k].rec /\ printed[a][j].turn = printed[a][k].turn => j = k
        /\ \A a \in Appenders : \A k \in DOMAIN printed[a] : \E p \in passed : \E i \in DOMAIN p.list :
             /\ printed[a][k].rec = p.rec /\ printed[a][k].turn = Len(p.list) - i
             /\ p.list[i] = IF a \in Sinks THEN Dynamic ELSE a
    BY DEF OnceInv, PrintedOnce
  <1>2. \A p \in passed' : \A i \in DOMAIN p.list : p.list[i] = Attached =>
          \/ Written(Attached, p.rec, Len(p.list) - i)'
          \/ \E t \in Threads : InStatement(t)' /\ record'[t] = p.rec
    <2>1. ASSUME NEW p \in passed', NEW i \in DOMAIN p.list, p.list[i] = Attached
          PROVE  \/ Written(Attached, p.rec, Len(p.list) - i)'
                 \/ \E t \in Threads : InStatement(t)' /\ record'[t] = p.rec
      <3>1. \/ Written(Attached, p.rec, Len(p.list) - i)'
            \/ \E t \in Threads : /\ Due(t, Len(p.list) - i)'
                                 /\ p = [rec |-> record'[t], list |-> appenders']
        BY <1>0, <2>1 DEF DoneInv
      <3>2. \A t \in Threads : Looping(t)' => InStatement(t)'
        BY DEF Looping, InStatement, States
      <3> QED
        BY <3>1, <3>2 DEF Due
    <2> QED
      BY <2>1
  <1>3. ASSUME \A a \in Appenders : \A j, k \in DOMAIN printed'[a] :
                 printed'[a][j].rec = printed'[a][k].rec /\ printed'[a][j].turn = printed'[a][k].turn => j = k,
               \A a \in Appenders : \A k \in DOMAIN printed'[a] :
                 \E p \in passed' : \E i \in DOMAIN p.list :
                   /\ printed'[a][k].rec = p.rec /\ printed'[a][k].turn = Len(p.list) - i
                   /\ p.list[i] = IF a \in Sinks THEN Dynamic ELSE a
        PROVE  OnceInv'
    BY <1>0, <1>2, <1>3 DEF OnceInv, PrintedOnce
  <1>4. ASSUME printed' = printed, passed \subseteq passed' PROVE OnceInv'
    BY <1>1, <1>3, <1>4
  <1>5. ASSUME NEW t \in Threads, WriteText(t) PROVE OnceInv'
    <2>1. PICK c \in Appenders : c = current[t]
      BY DEF TypeInv, TypeOK
    <2>2. /\ pc[t] = "text" /\ passed' = passed /\ Looping(t) /\ InStatement(t)
      BY <1>5, Writes
    <2>3. PICK n \in Nat :
            /\ \A b \in Appenders : b # c => printed'[b] = printed[b]
            /\ DOMAIN printed[c] = 1..n /\ DOMAIN printed'[c] = 1..(n + 1)
            /\ \A j \in 1..n : printed'[c][j] = printed[c][j]
            /\ printed'[c][n + 1].rec = record[t] /\ printed'[c][n + 1].turn = Left(t)
      BY <1>5, <2>1, PrintedNow
    <2>4. \A k \in 1..n : printed[c][k].rec = record[t] => printed[c][k].turn # Left(t)
      <3>1. Owes(t, c) /\ Left(t) \in Nat /\ \A k \in 1..n : printed[c][k].turn \in Nat
        BY <2>1, <2>2, <2>3, Lengths DEF Owes
      <3>2. \A k \in 1..n : printed[c][k].rec = record[t] => Left(t) < printed[c][k].turn
        BY <2>2, <2>3, <3>1 DEF OnceInv, FreshInv
      <3> QED
        BY <3>1, <3>2
    <2>5. ASSUME NEW j \in 1..(n + 1), NEW k \in 1..(n + 1),
                 printed'[c][j].rec = printed'[c][k].rec, printed'[c][j].turn = printed'[c][k].turn
          PROVE  j = k
      <3>1. (j \in 1..n \/ j = n + 1) /\ (k \in 1..n \/ k = n + 1)
        OBVIOUS
      <3> QED
        BY <1>1, <2>3, <2>4, <2>5, <3>1
    <2>6. PICK p \in passed : p = [rec |-> record[t], list |-> appenders]
      BY <2>2 DEF IdInv
    <2>7. PICK i \in DOMAIN p.list : /\ Left(t) = Len(p.list) - i
                                     /\ p.list[i] = IF c \in Sinks THEN Dynamic ELSE c
      <3>1. /\ Left(t) < Len(appenders)
            /\ appenders[Len(appenders) - Left(t)] = IF InDynamic(t) THEN Dynamic ELSE Attached
        BY <2>2 DEF ListInv
      <3>2. InDynamic(t) <=> c \in Sinks
        BY <2>1, <2>2 DEF InDynamic, Busy
      <3>3. c \notin Sinks => c = Attached
        BY DEF Appenders
      <3>4. /\ Left(t) \in Nat /\ Len(appenders) \in Nat /\ p.list = appenders
            /\ DOMAIN p.list = 1..Len(p.list)
        BY <2>6, Lengths
      <3>5. PICK i \in 1..Len(appenders) : i = Len(appenders) - Left(t) /\ Left(t) = Len(appenders) - i
        BY <3>1, <3>4
      <3> QED
        BY <3>1, <3>2, <3>3, <3>4, <3>5
    <2>8. ASSUME NEW k \in 1..(n + 1)
          PROVE  \E q \in passed' : \E m \in DOMAIN q.list :
                   /\ printed'[c][k].rec = q.rec /\ printed'[c][k].turn = Len(q.list) - m
                   /\ q.list[m] = IF c \in Sinks THEN Dynamic ELSE c
      <3>1. CASE k \in 1..n
        <4>1. printed'[c][k] = printed[c][k] /\ k \in DOMAIN printed[c] /\ passed' = passed
          BY <2>2, <2>3, <3>1
        <4>2. \E q \in passed : \E m \in DOMAIN q.list :
                /\ printed[c][k].rec = q.rec /\ printed[c][k].turn = Len(q.list) - m
                /\ q.list[m] = IF c \in Sinks THEN Dynamic ELSE c
          BY <1>1, <4>1
        <4> QED
          BY <4>1, <4>2
      <3>2. CASE k = n + 1
        <4>1. printed'[c][k].rec = p.rec /\ printed'[c][k].turn = Len(p.list) - i
          BY <2>3, <2>6, <2>7, <3>2
        <4> QED
          BY <2>2, <2>7, <4>1
      <3> QED
        BY <3>1, <3>2
    <2>9. \A a \in Appenders : \A j, k \in DOMAIN printed'[a] :
            printed'[a][j].rec = printed'[a][k].rec /\ printed'[a][j].turn = printed'[a][k].turn => j = k
      BY <1>1, <2>3, <2>5
    <2>10. ASSUME NEW a \in Appenders, NEW k \in DOMAIN printed'[a]
           PROVE  \E q \in passed' : \E m \in DOMAIN q.list :
                    /\ printed'[a][k].rec = q.rec /\ printed'[a][k].turn = Len(q.list) - m
                    /\ q.list[m] = IF a \in Sinks THEN Dynamic ELSE a
      <3>1. CASE a = c
        <4>1. PICK l \in 1..(n + 1) : l = k
          BY <2>3, <3>1
        <4>2. \E q \in passed' : \E m \in DOMAIN q.list :
                /\ printed'[c][l].rec = q.rec /\ printed'[c][l].turn = Len(q.list) - m
                /\ q.list[m] = IF c \in Sinks THEN Dynamic ELSE c
          BY <2>8
        <4> QED
          BY <3>1, <4>1, <4>2
      <3>2. CASE a # c
        BY <1>1, <2>2, <2>3, <3>2
      <3> QED
        BY <3>1, <3>2
    <2> QED
      BY <1>3, <2>9, <2>10
  <1>6. ASSUME NEW t \in Threads, ~WriteText(t),
               LogStep(t) \/ End(t) \/ StartThread(t) \/ \E v \in Levels : LogTest(t, v)
        PROVE  OnceInv'
    <2>1. printed' = printed /\ passed \subseteq passed'
      BY <1>6, Outside, Within, Advances, Checks DEF LogStep
    <2> QED
      BY <1>4, <2>1
  <1>7. CASE MainStep
    BY <1>4, <1>7, MainMoves
  <1> QED
    BY <1>5, <1>6, <1>7, Steps

LEMMA OnceInvariant == Spec => [](TypeInv /\ ListInv /\ IdInv /\ OnceInv)
  <1>1. Init => ListInv /\ IdInv /\ OnceInv
    <2> SUFFICES ASSUME Init PROVE ListInv /\ IdInv /\ OnceInv
      OBVIOUS
    <2>1. \A t \in Threads : ~Looping(t) /\ ~InStatement(t)
      BY DEF Init, Looping, InStatement
    <2>2. passed = {} /\ \A a \in Appenders : printed[a] = <<>>
      BY DEF Init
    <2>3. ListInv /\ IdInv
      BY <2>1, <2>2 DEF ListInv, IdInv
    <2>4. PrintedOnce /\ FreshInv /\ DoneInv
      BY <2>1, <2>2 DEF PrintedOnce, FreshInv, DoneInv
    <2> QED
      BY <2>3, <2>4 DEF OnceInv
  <1> QED
    BY <1>1, TypeInit, TypeStep, ListStep, IdStep, OnceStep, PTL DEF Spec

(* A record that passed the severity filter is written by the appender     *)
(* given to init exactly as often as init and addAppender put it in the    *)
(* list, as soon as its log statement has ended, and by a sink at most as  *)
(* often as the DynamicAppender is in the list; one that did not pass is   *)
(* written nowhere: whoever goes through the loops of Logger::operator+=   *)
(* (Logger.h:54) and DynamicAppender::write has the list the statement     *)
(* began with, and one turn for every place in it.                         *)
THEOREM WrittenOnce == Spec => []PrintedOnce
  <1>1. OnceInv => PrintedOnce
    BY DEF OnceInv
  <1> QED
    BY <1>1, OnceInvariant, PTL
-----------------------------------------------------------------------------
(* Histories of the sinks.                                                 *)

LEMMA IdsFacts ==
  ASSUME TypeInv, NEW s \in Appenders
  PROVE  /\ Len(printed[s]) \in Nat /\ DOMAIN printed[s] = 1..Len(printed[s])
         /\ Ids(s) \in Seq(Nat) /\ Len(Ids(s)) = Len(printed[s])
         /\ \A k \in 1..Len(printed[s]) : Ids(s)[k] = printed[s][k].rec.id
  <1>1. printed[s] \in Seq(Entry)
    BY DEF TypeInv, TypeOK
  <1>2. \A e \in Entry : e.rec.id \in Nat
    BY LoggingAssumption DEF Record, Entry
  <1>3. PICK n \in Nat : n = Len(printed[s]) /\ DOMAIN printed[s] = 1..n
    BY <1>1, LenProperties
  <1>4. \A k \in 1..n : printed[s][k].rec.id \in Nat
    BY <1>1, <1>2, <1>3, ElementOfSeq
  <1>5. Ids(s) = [k \in 1..n |-> printed[s][k].rec.id]
    BY <1>3 DEF Ids
  <1>6. Ids(s) \in [1..n -> Nat]
    BY <1>4, <1>5
  <1>7. Ids(s) \in Seq(Nat) /\ Len(Ids(s)) = n
    BY <1>6
  <1> QED
    BY <1>3, <1>5, <1>7

LEMMA FinalFacts ==
  ASSUME TypeInv, NEW s \in Sinks
  PROVE  /\ Final(s) \in Seq(Nat)
         /\ mutex[Dynamic] = Free => Final(s) = Ids(s)
         /\ \A u \in Threads : mutex[Dynamic] = u =>
              /\ InDynamic(u)
              /\ Owes(u, s) => Final(s) = Append(Ids(s), record[u].id)
              /\ ~Owes(u, s) => Final(s) = Ids(s)
         /\ mutex[Dynamic] = Free \/ \E u \in Threads : mutex[Dynamic] = u
  <1>1. s \in Appenders
    BY DEF Appenders
  <1>2. Ids(s) \in Seq(Nat)
    BY <1>1, IdsFacts
  <1>3. \A u \in Threads : record[u].id \in Nat
    BY LoggingAssumption DEF TypeInv, TypeOK, Record
  <1>4. \A u \in Threads : Append(Ids(s), record[u].id) \in Seq(Nat)
    BY <1>2, <1>3, AppendProperties
  <1>5. mutex[Dynamic] = Free \/ \E u \in Threads : mutex[Dynamic] = u
    BY DEF TypeInv, TypeOK
  <1>6. mutex[Dynamic] = Free => Final(s) = Ids(s)
    BY LoggingAssumption DEF Final, Owed
  <1>7. \A u \in Threads : mutex[Dynamic] = u =>
          /\ Owes(u, s) => Final(s) = Append(Ids(s), record[u].id)
          /\ ~Owes(u, s) => Final(s) = Ids(s)
    BY DEF Final, Owed
  <1>8. \A u \in Threads : mutex[Dynamic] = u => InDynamic(u)
    BY DEF TypeInv, LockInv
  <1> QED
    BY <1>2, <1>4, <1>5, <1>6, <1>7, <1>8

(* Only the loop of DynamicAppender::write changes what its thread owes.   *)
LEMMA OwesKept ==
  ASSUME TypeInv, [Next]_vars,
         ~ \E t \in Threads : DynamicWrite(t) \/ DynamicReturn(t) \/ WriteText(t)
  PROVE  /\ mutex'[Dynamic] = mutex[Dynamic] /\ printed' = printed
         /\ \A u \in Threads : InDynamic(u) =>
              /\ record'[u] = record[u]
              /\ \A s \in Sinks : Owes(u, s)' <=> Owes(u, s)
  <1>1. CASE MainStep
    BY <1>1 DEF MainStep, InitLog, SetMaxSeverity, DynamicAddAppender, DynamicRemoveAppender, Delete,
                AddAppender, DestroyLogger, DestroyAppenders, vars, control, streams, Owes
  <1>2. ASSUME NEW t \in Threads, ~InDynamic(t),
               \A u \in Threads : u # t => /\ pc'[u] = pc[u] /\ dynTodo'[u] = dynTodo[u]
                                           /\ current'[u] = current[u] /\ record'[u] = record[u]
        PROVE  \A u \in Threads : InDynamic(u) =>
                 /\ record'[u] = record[u]
                 /\ \A s \in Sinks : Owes(u, s)' <=> Owes(u, s)
    BY <1>2 DEF Owes
  <1>3. ASSUME NEW t \in Threads,
               LogCheck(t) \/ LogReturn(t) \/ End(t) \/ StartThread(t)
                 \/ \E v \in Levels : LogTest(t, v)
        PROVE  /\ mutex' = mutex /\ printed' = printed /\ ~InDynamic(t)
               /\ \A u \in Threads : u # t => /\ pc'[u] = pc[u] /\ dynTodo'[u] = dynTodo[u]
                                              /\ current'[u] = current[u] /\ record'[u] = record[u]
    BY <1>3 DEF LogCheck, LogReturn, End, StartThread, LogTest, Goto, InDynamic, Busy, streams,
                TypeInv, TypeOK
  <1>4. ASSUME NEW t \in Threads, LoopWrite(t)
        PROVE  /\ mutex'[Dynamic] = mutex[Dynamic] /\ printed' = printed /\ ~InDynamic(t)
               /\ \A u \in Threads : u # t => /\ pc'[u] = pc[u] /\ dynTodo'[u] = dynTodo[u]
                                              /\ current'[u] = current[u] /\ record'[u] = record[u]
    <2>1. /\ ~InDynamic(t)
          /\ \A u \in Threads : u # t => pc'[u] = pc[u] /\ current'[u] = current[u]
          /\ \A b \in Appenders \cup {Dynamic} : b # Attached => mutex'[b] = mutex[b]
      BY <1>4, LoopWriteEffect
    <2>2. UNCHANGED <<dynTodo, record, printed>>
      BY <1>4 DEF LoopWrite, BeginWrite
    <2> QED
      BY <2>1, <2>2, NameFacts
  <1>5. ASSUME NEW t \in Threads, DynamicLoopWrite(t)
        PROVE  /\ mutex'[Dynamic] = mutex[Dynamic] /\ printed' = printed
               /\ \A u \in Threads : InDynamic(u) =>
                    /\ record'[u] = record[u]
                    /\ \A s \in Sinks : Owes(u, s)' <=> Owes(u, s)
    <2>1. PICK s \in dynTodo[t] :
            /\ pc[t] = "dynamic" /\ pc'[t] = "text" /\ current'[t] = s /\ s # Dynamic
            /\ dynTodo'[t] = dynTodo[t] \ {s}
            /\ \A u \in Threads : u # t => /\ pc'[u] = pc[u] /\ dynTodo'[u] = dynTodo[u]
                                           /\ current'[u] = current[u]
            /\ \A b \in Appenders \cup {Dynamic} : b # s => mutex'[b] = mutex[b]
            /\ UNCHANGED <<record, printed>>
      BY <1>5, DynamicLoopWriteEffect
    <2>2. \A r \in Sinks : Owes(t, r)' <=> Owes(t, r)
      BY <2>1 DEF Owes
    <2>3. \A u \in Threads : u # t => \A r \in Sinks : Owes(u, r)' <=> Owes(u, r)
      BY <2>1 DEF Owes
    <2> QED
      BY <2>1, <2>2, <2>3
  <1>6. ASSUME NEW t \in Threads, EndWrite(t)
        PROVE  /\ mutex'[Dynamic] = mutex[Dynamic] /\ printed' = printed
               /\ \A u \in Threads : InDynamic(u) =>
                    /\ record'[u] = record[u]
                    /\ \A s \in Sinks : Owes(u, s)' <=> Owes(u, s)
    <2>1. /\ pc[t] = "reset" /\ pc'[t] # "text"
          /\ \A u \in Threads : u # t => pc'[u] = pc[u]
          /\ UNCHANGED <<dynTodo, current, record, printed>>
      BY <1>6 DEF EndWrite, Goto, TypeInv, TypeOK
    <2>2. mutex'[Dynamic] = mutex[Dynamic]
      BY <1>6, NameFacts DEF EndWrite, Unlock, TypeInv, TypeOK
    <2>3. \A u \in Threads : \A s \in Sinks : Owes(u, s)' <=> Owes(u, s)
      BY <2>1 DEF Owes
    <2> QED
      BY <2>1, <2>2, <2>3
  <1> QED
    BY <1>1, <1>2, <1>3, <1>4, <1>5, <1>6, Steps DEF LogStep

LEMMA FinalKept ==
  ASSUME TypeInv, TypeInv', NEW s \in Sinks, mutex'[Dynamic] = mutex[Dynamic],
         printed'[s] = printed[s],
         \A u \in Threads : InDynamic(u) =>
           record'[u] = record[u] /\ (Owes(u, s)' <=> Owes(u, s))
  PROVE  Final(s)' = Final(s)
  <1>1. Ids(s)' = Ids(s)
    BY DEF Ids
  <1>2. CASE mutex[Dynamic] \notin Threads
    BY <1>1, <1>2 DEF Final, Owed
  <1>3. ASSUME NEW u \in Threads, mutex[Dynamic] = u PROVE Final(s)' = Final(s)
    <2>1. InDynamic(u)
      BY <1>3 DEF TypeInv, LockInv
    <2>2. record'[u] = record[u] /\ (Owes(u, s)' <=> Owes(u, s))
      BY <2>1
    <2>3. Final(s) = IF Owes(u, s) THEN Append(Ids(s), record[u].id) ELSE Ids(s)
      BY <1>3 DEF Final, Owed
    <2>4. Final(s)' = IF Owes(u, s)' THEN Append(Ids(s)', record'[u].id) ELSE Ids(s)'
      BY <1>3 DEF Final, Owed, Owes
    <2> QED
      BY <1>1, <2>2, <2>3, <2>4
  <1> QED
    BY <1>2, <1>3

(* The text a sink owes is the last of its history.                        *)
LEMMA FinalWritten ==
  ASSUME TypeInv, NEW t \in Threads, WriteText(t), NEW s \in dynamic
  PROVE  Final(s)' = Final(s)
  <1>1. TypeInv' /\ s \in Sinks /\ s \in Appenders
    <2>1. [Next]_vars
      BY DEF Next, LogStep
    <2> QED
      BY <2>1, TypeStep DEF TypeInv, TypeOK, Appenders
  <1>2. PICK c \in Appenders : c = current[t] /\ c = current'[t]
    BY DEF TypeInv, TypeOK, WriteText
  <1>3. /\ pc[t] = "text" /\ pc'[t] = "reset" /\ \A u \in Threads : u # t => pc'[u] = pc[u]
        /\ UNCHANGED <<mutex, dynTodo, current, record>>
    BY DEF WriteText, Goto, TypeInv, TypeOK
  <1>4. PICK n \in Nat :
          /\ n = Len(printed[c])
          /\ \A a \in Appenders : a # c => printed'[a] = printed[a]
          /\ DOMAIN printed[c] = 1..n /\ DOMAIN printed'[c] = 1..(n + 1)
          /\ \A k \in 1..n : printed'[c][k] = printed[c][k]
          /\ printed'[c][n + 1].rec = record[t]
    BY <1>2, PrintedNow
  <1>5. \A u \in Threads : u # t => (Owes(u, s)' <=> Owes(u, s))
    BY <1>3 DEF Owes
  <1>6. CASE s # c
    <2>1. Owes(t, s)' <=> Owes(t, s)
      BY <1>2, <1>3, <1>6 DEF Owes
    <2>2. mutex'[Dynamic] = mutex[Dynamic] /\ printed'[s] = printed[s]
      BY <1>1, <1>3, <1>4, <1>6
    <2>3. \A u \in Threads : record'[u] = record[u] /\ (Owes(u, s)' <=> Owes(u, s))
      BY <1>3, <1>5, <2>1
    <2> QED
      BY <1>1, <2>2, <2>3, FinalKept
  <1>7. CASE s = c
    <2>1. InDynamic(t) /\ mutex[Dynamic] = t /\ mutex'[Dynamic] = t /\ s \notin dynTodo[t]
      BY <1>1, <1>2, <1>3, <1>7 DEF InDynamic, Busy, TypeInv, LockInv, LoopInv
    <2>2. Owes(t, s) /\ ~Owes(t, s)'
      BY <1>2, <1>3, <1>7, <2>1 DEF Owes
    <2>3. Final(s) = Append(Ids(s), record[t].id)
      BY <1>1, <2>1, <2>2, FinalFacts
    <2>4. Final(s)' = Ids(s)'
      BY <2>1, <2>2 DEF Final, Owed, Owes
    <2>5. record[t].id \in Nat
      BY LoggingAssumption DEF TypeInv, TypeOK, Record
    <2>6. /\ Ids(s) \in Seq(Nat) /\ Len(Ids(s)) = n
          /\ \A k \in 1..n : Ids(s)[k] = printed[s][k].rec.id
      BY <1>1, <1>4, <1>7, IdsFacts
    <2>7. Ids(s)' = [k \in 1..(n + 1) |-> printed'[s][k].rec.id]
      BY <1>4, <1>7 DEF Ids
    <2>8. PICK p \in Seq(Nat) : p = Append(Ids(s), record[t].id)
      BY <2>5, <2>6, AppendProperties
    <2>9. Len(p) = n + 1 /\ p[n + 1] = record[t].id /\ \A k \in 1..n : p[k] = Ids(s)[k]
      BY <2>5, <2>6, <2>8, AppendProperties
    <2>10. \A k \in 1..(n + 1) : p[k] = printed'[s][k].rec.id
      <3>1. ASSUME NEW k \in 1..(n + 1) PROVE p[k] = printed'[s][k].rec.id
        <4>1. k \in 1..n \/ k = n + 1
          OBVIOUS
        <4> QED
          BY <1>4, <1>7, <2>6, <2>9, <4>1
      <3> QED
        BY <3>1
    <2>11. p = [k \in 1..(n + 1) |-> printed'[s][k].rec.id]
      <3>1. p = [k \in 1..(n + 1) |-> p[k]]
        BY <2>8, <2>9, LenProperties
      <3> QED
        BY <2>10, <3>1
    <2> QED
      BY <2>3, <2>4, <2>7, <2>8, <2>11
  <1> QED
    BY <1>6, <1>7

LEMMA HistoryStep == TypeInv /\ HistoryInv /\ [Next]_vars => HistoryInv'
  <1> SUFFICES ASSUME TypeInv, HistoryInv, [Next]_vars PROVE HistoryInv'
    OBVIOUS
  <1>0. TypeInv' /\ dynamic \subseteq Sinks
    BY TypeStep DEF TypeInv, TypeOK
  <1>1. ASSUME dynamic' \subseteq dynamic, \A s \in dynamic : Final(s)' = Final(s)
        PROVE  HistoryInv'
    <2>1. \A r, s \in dynamic' : IsSuffix(Final(r)', Final(s)') \/ IsSuffix(Final(s)', Final(r)')
      BY <1>1 DEF HistoryInv
    <2> QED
      BY <2>1 DEF HistoryInv
  <1>2. CASE /\ ~ \E t \in Threads : DynamicWrite(t) \/ DynamicReturn(t) \/ WriteText(t)
             /\ ~ \E s \in Sinks : DynamicAddAppender(s)
    <2>1. dynamic' \subseteq dynamic
      BY <1>2 DEF Next, LogStep, LogCheck, LogReturn, DynamicLoopWrite, LoopWrite, BeginWrite,
                  EndWrite, End, StartThread, LogTest, InitLog, SetMaxSeverity, AddAppender,
                  DynamicRemoveAppender, Delete, DestroyLogger, DestroyAppenders, Gone, vars, sinks
    <2>2. \A s \in dynamic : Final(s)' = Final(s)
      BY <1>0, <1>2, OwesKept, FinalKept
    <2> QED
      BY <1>1, <2>1, <2>2
  (* The new sink has an empty history.                                    *)
  <1>3. ASSUME NEW s \in Sinks, DynamicAddAppender(s) PROVE HistoryInv'
    <2>1. /\ mutex[Dynamic] = Free /\ dynamic' = dynamic \cup {s} /\ life[s] = "new"
          /\ UNCHANGED <<mutex, streams, control>>
      BY <1>3 DEF DynamicAddAppender
    <2>2. \A r \in Sinks : Final(r)' = Final(r)
      BY <2>1 DEF Final, Owed, Owes, Ids, streams, control
    <2>3. Final(s) = <<>>
      <3>1. Final(s) = Ids(s) /\ s \in Appenders /\ printed[s] = <<>>
        BY <2>1, FinalFacts DEF TypeInv, LifeInv, Appenders
      <3>2. Ids(s) \in Seq(Nat) /\ Len(Ids(s)) = 0
        BY <3>1, IdsFacts
      <3>3. \A q \in Seq(Nat) : q # <<>> => Len(q) # 0
        BY EmptySeq
      <3> QED
        BY <3>1, <3>2, <3>3
    <2>4. \A r \in Sinks : IsSuffix(Final(s), Final(r))
      BY <2>3, FinalFacts, SuffixEmpty
    <2>5. \A q, r \in dynamic' : IsSuffix(Final(q), Final(r)) \/ IsSuffix(Final(r), Final(q))
      BY <1>0, <1>3, <2>1, <2>4 DEF HistoryInv
    <2> QED
      BY <1>0, <1>3, <2>1, <2>2, <2>5 DEF HistoryInv
  (* The record is added to what all sinks will have written.              *)
  <1>4. ASSUME NEW t \in Threads, DynamicWrite(t) PROVE HistoryInv'
    <2>1. /\ mutex[Dynamic] = Free /\ mutex'[Dynamic] = t /\ dynTodo'[t] = dynamic
          /\ UNCHANGED <<dynamic, printed, record>>
      BY <1>4, DynamicWriteEffect DEF DynamicWrite, sinks, streams
    <2>2. record[t].id \in Nat
      BY LoggingAssumption DEF TypeInv, TypeOK, Record
    <2>3. \A s \in dynamic : /\ Final(s) = Ids(s) /\ Ids(s) \in Seq(Nat)
                             /\ Final(s)' = Append(Ids(s), record[t].id)
      <3>1. ASSUME NEW s \in dynamic
            PROVE  /\ Final(s) = Ids(s) /\ Ids(s) \in Seq(Nat)
                   /\ Final(s)' = Append(Ids(s), record[t].id)
        <4>1. Final(s) = Ids(s) /\ Ids(s) \in Seq(Nat)
          BY <1>0, <2>1, FinalFacts
        <4>2. Ids(s)' = Ids(s)
          BY <2>1 DEF Ids
        <4>3. Final(s)' = Append(Ids(s)', record'[t].id)
          BY <2>1 DEF Final, Owed, Owes
        <4> QED
          BY <2>1, <4>1, <4>2, <4>3
      <3> QED
        BY <3>1
    <2>4. \A r, s \in dynamic : IsSuffix(Final(r)', Final(s)') \/ IsSuffix(Final(s)', Final(r)')
      <3>1. ASSUME NEW r \in dynamic, NEW s \in dynamic, IsSuffix(Final(r), Final(s))
            PROVE  IsSuffix(Final(r)', Final(s)')
        <4>1. IsSuffix(Ids(r), Ids(s)) /\ Ids(r) \in Seq(Nat) /\ Ids(s) \in Seq(Nat)
          BY <2>3, <3>1
        <4>2. IsSuffix(Append(Ids(r), record[t].id), Append(Ids(s), record[t].id))
          BY <2>2, <4>1, SuffixAppend
        <4> QED
          BY <2>3, <4>2
      <3> QED
        BY <3>1 DEF HistoryInv
    <2> QED
      BY <2>1, <2>4 DEF HistoryInv
  <1>5. ASSUME NEW t \in Threads, DynamicReturn(t) PROVE HistoryInv'
    <2>1. /\ mutex[Dynamic] = t /\ mutex'[Dynamic] = Free /\ pc[t] = "dynamic" /\ dynTodo[t] = {}
          /\ UNCHANGED <<dynamic, printed>>
      BY <1>5, NameFacts DEF DynamicReturn, Goto, Unlock, TypeInv, TypeOK, LockInv, InDynamic, sinks,
                             streams
    <2>2. \A s \in dynamic : Final(s) = Ids(s)
      BY <1>0, <2>1, FinalFacts DEF Owes
    <2>3. \A s \in dynamic : Final(s)' = Ids(s)
      BY <2>1, LoggingAssumption DEF Final, Owed, Ids
    <2> QED
      BY <1>1, <2>1, <2>2, <2>3
  <1>6. ASSUME NEW t \in Threads, WriteText(t) PROVE HistoryInv'
    <2>1. dynamic' = dynamic
      BY <1>6 DEF WriteText, sinks
    <2> QED
      BY <1>1, <1>6, <2>1, FinalWritten
  <1> QED
    BY <1>2, <1>3, <1>4, <1>5, <1>6

LEMMA HistoryInvariant == Spec => [](TypeInv /\ HistoryInv)
  <1>1. Init => HistoryInv
    BY DEF Init, HistoryInv
  <1> QED
    BY <1>1, TypeInit, TypeStep, HistoryStep, PTL DEF Spec

(* Whatever threads log at the same time, the sinks of the DynamicAppender *)
(* have the same records in the same order, from when the later one was    *)
(* added: DynamicAppender::write holds its lock while it goes through the  *)
(* sinks, so what each will have written is settled when the lock is taken.*)
THEOREM SinksAgree == Spec => []SameHistory
  <1>1. TypeInv /\ HistoryInv => SameHistory
    <2> SUFFICES ASSUME TypeInv, HistoryInv, mutex[Dynamic] = Free
                 PROVE  \A r, s \in dynamic : IsSuffix(Ids(r), Ids(s)) \/ IsSuffix(Ids(s), Ids(r))
      BY DEF SameHistory
    <2>1. \A s \in dynamic : Final(s) = Ids(s)
      BY FinalFacts DEF TypeInv, TypeOK
    <2> QED
      BY <2>1 DEF HistoryInv
  <1> QED
    BY <1>1, HistoryInvariant, PTL

=============================================================================
