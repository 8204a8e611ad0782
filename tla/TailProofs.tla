------------------------------ MODULE TailProofs -------------------------------
(***************************************************************************)
(* The committed cursor of a passive observer: proofs about TailObserver   *)
(* for every agent and mapper, any number of transcripts that share a      *)
(* sink, and any number of edits, timeouts and crashes.                    *)
(*                                                                         *)
(* The first part is about the mapper: reading a transcript piece by piece *)
(* with the state that the last piece left gives the events of the whole   *)
(* transcript.  The second is about the observers: a cursor, in memory or  *)
(* committed, stands for the first lines of its transcript and has only    *)
(* durable events behind it.  The last is about Antigravity's mapper in    *)
(* TranscriptObservers, whose state is committed with the cursor: a call   *)
(* that is still waiting for its result is not forgotten by a restart.     *)
(***************************************************************************)
EXTENDS TranscriptObservers, WellFoundedInduction, SequenceTheorems, TLAPS

-----------------------------------------------------------------------------
(* Induction.                                                              *)

\* Induction up to n: a set that holds 0, and with a number its successor, holds
\* all of them; for the least number that it lacks would have a predecessor.
LEMMA UpTo ==
  ASSUME NEW n \in Nat, NEW T, 0 \in T, \A i \in 1 .. n : i - 1 \in T => i \in T
  PROVE  \A i \in 0 .. n : i \in T
<1> DEFINE missing == {i \in 0 .. n : i \notin T}
           below == {pair \in Nat \X Nat : pair[1] < pair[2]}
<1> SUFFICES ASSUME missing # {} PROVE FALSE
  OBVIOUS
<1>1. IsWellFoundedOn(below, Nat) /\ missing \subseteq Nat
  BY NatLessThanWellFounded DEF OpToRel
<1>2. PICK i \in missing : \A j \in missing : ~(<<j, i>> \in below)
  <2> HIDE DEF missing, below
  <2> QED BY <1>1, WFMin
<1>3. i \in 1 .. n /\ i - 1 \in 0 .. n /\ <<i - 1, i>> \in below
  BY <1>2
<1> QED BY <1>2, <1>3

-----------------------------------------------------------------------------
(* Sequences and their elements.                                           *)
LEMMA Elements ==
  ASSUME NEW S, NEW s \in Seq(S)
  PROVE  /\ ToSet(s) = {s[i] : i \in 1 .. Len(s)} /\ ToSet(s) \subseteq S
         /\ s = <<>> <=> ToSet(s) = {}
<1>1. DOMAIN s = 1 .. Len(s) /\ Len(s) \in Nat /\ \A i \in 1 .. Len(s) : s[i] \in S
  OBVIOUS
<1>2. s = <<>> <=> Len(s) = 0
  OBVIOUS
<1>3. ToSet(s) = {s[i] : i \in 1 .. Len(s)}
  BY <1>1 DEF ToSet
<1>4. s # <<>> => s[1] \in ToSet(s)
  BY <1>1, <1>2, <1>3
<1>5. s = <<>> => ToSet(s) = {}
  BY <1>1, <1>2, <1>3
<1> QED BY <1>1, <1>3, <1>4, <1>5

LEMMA NoElements == ASSUME NEW S PROVE <<>> \in Seq(S) /\ ToSet(<<>>) = {}
<1>1. <<>> \in Seq(S)
  OBVIOUS
<1> QED BY <1>1, Elements

LEMMA JoinedElements ==
  ASSUME NEW S, NEW s \in Seq(S), NEW t \in Seq(S)
  PROVE  s \o t \in Seq(S) /\ ToSet(s \o t) = ToSet(s) \cup ToSet(t)
<1>1. /\ s \o t \in Seq(S) /\ Len(s \o t) = Len(s) + Len(t)
      /\ \A i \in 1 .. Len(s) + Len(t) : (s \o t)[i] = IF i <= Len(s) THEN s[i] ELSE t[i - Len(s)]
  BY ConcatProperties
<1>2. Len(s) \in Nat /\ Len(t) \in Nat
  OBVIOUS
<1> DEFINE u == s \o t
<1> HIDE DEF u
<1>3. /\ ToSet(s) = {s[i] : i \in 1 .. Len(s)} /\ ToSet(t) = {t[i] : i \in 1 .. Len(t)}
      /\ ToSet(u) = {u[i] : i \in 1 .. Len(s) + Len(t)}
  <2>1. ToSet(s) = {s[i] : i \in 1 .. Len(s)}
    BY Elements
  <2>2. ToSet(t) = {t[i] : i \in 1 .. Len(t)}
    BY Elements
  <2>3. u \in Seq(S) /\ Len(u) = Len(s) + Len(t)
    BY <1>1 DEF u
  <2>4. ToSet(u) = {u[i] : i \in 1 .. Len(u)}
    BY <2>3, Elements
  <2> QED BY <2>1, <2>2, <2>3, <2>4
<1>4. \A i \in 1 .. Len(s) : i \in 1 .. Len(s) + Len(t) /\ u[i] = s[i]
  BY <1>1, <1>2 DEF u
<1>5. \A i \in 1 .. Len(t) : i + Len(s) \in 1 .. Len(s) + Len(t) /\ u[i + Len(s)] = t[i]
  BY <1>1, <1>2 DEF u
<1>6. \A i \in 1 .. Len(s) + Len(t) :
         \/ i \in 1 .. Len(s) /\ u[i] = s[i]
         \/ i - Len(s) \in 1 .. Len(t) /\ u[i] = t[i - Len(s)]
  BY <1>1, <1>2 DEF u
<1>7. ToSet(u) = ToSet(s) \cup ToSet(t)
  <2>1. ToSet(u) = {u[i] : i \in 1 .. Len(s) + Len(t)}
    BY <1>3
  <2>2. ToSet(u) \subseteq ToSet(s) \cup ToSet(t)
    BY <1>3, <1>6, <2>1
  <2>3. ToSet(s) \subseteq ToSet(u)
    BY <1>3, <1>4, <2>1
  <2>4. ToSet(t) \subseteq ToSet(u)
    BY <1>3, <1>5, <2>1
  <2> QED BY <2>2, <2>3, <2>4
<1> QED BY <1>1, <1>7 DEF u

LEMMA FirstElement ==
  ASSUME NEW S, NEW s \in Seq(S), s # <<>>
  PROVE  /\ Head(s) \in S /\ Tail(s) \in Seq(S) /\ ToSet(s) = {Head(s)} \cup ToSet(Tail(s))
         /\ Tail(s) = <<>> <=> Len(s) = 1
<1>1. /\ Head(s) \in S /\ Tail(s) \in Seq(S) /\ Len(Tail(s)) = Len(s) - 1
      /\ \A i \in 1 .. Len(Tail(s)) : Tail(s)[i] = s[i + 1]
  BY HeadTailProperties
<1> DEFINE t == Tail(s)
<1> HIDE DEF t
<1>2. Len(s) \in Nat /\ Len(s) # 0 /\ Head(s) = s[1] /\ (t = <<>> <=> Len(t) = 0)
  <2>1. Len(s) \in Nat /\ Len(s) # 0 /\ Head(s) = s[1]
    OBVIOUS
  <2>2. t \in Seq(S)
    BY <1>1 DEF t
  <2>3. t = <<>> <=> Len(t) = 0
    BY <2>2
  <2> QED BY <2>1, <2>3
<1>3. ToSet(s) = {s[i] : i \in 1 .. Len(s)} /\ ToSet(t) = {t[i] : i \in 1 .. Len(s) - 1}
  <2>1. ToSet(s) = {s[i] : i \in 1 .. Len(s)}
    BY Elements
  <2>2. t \in Seq(S) /\ Len(t) = Len(s) - 1
    BY <1>1 DEF t
  <2>3. ToSet(t) = {t[i] : i \in 1 .. Len(t)}
    BY <2>2, Elements
  <2> QED BY <2>1, <2>2, <2>3
<1>4. \A i \in 1 .. Len(s) - 1 : i + 1 \in 1 .. Len(s) /\ t[i] = s[i + 1]
  BY <1>1, <1>2 DEF t
<1>5. \A i \in 1 .. Len(s) : i = 1 \/ (i - 1 \in 1 .. Len(s) - 1 /\ s[i] = t[i - 1])
  BY <1>1, <1>2 DEF t
<1>6. ToSet(s) = {s[1]} \cup ToSet(t)
  <2>1. ToSet(t) = {t[i] : i \in 1 .. Len(s) - 1} /\ 1 \in 1 .. Len(s)
    BY <1>2, <1>3
  <2>2. ToSet(t) \subseteq ToSet(s)
    BY <1>3, <1>4, <2>1
  <2>3. ToSet(s) \subseteq {s[1]} \cup ToSet(t)
    BY <1>3, <1>5, <2>1
  <2> QED BY <1>3, <2>1, <2>2, <2>3
<1> QED BY <1>1, <1>2, <1>6 DEF t

LEMMA AppendedElements ==
  ASSUME NEW S, NEW s \in Seq(S), NEW e \in S
  PROVE  Append(s, e) \in Seq(S) /\ ToSet(Append(s, e)) = ToSet(s) \cup {e}
<1>1. Append(s, e) = s \o <<e>>
  BY AppendIsConcat
<1>2. <<e>> \in Seq(S) /\ Len(<<e>>) = 1 /\ <<e>>[1] = e
  OBVIOUS
<1>3. ToSet(<<e>>) = {e}
  <2>1. ToSet(<<e>>) = {<<e>>[i] : i \in 1 .. Len(<<e>>)}
    BY <1>2, Elements
  <2>2. \A i : i \in 1 .. Len(<<e>>) <=> i = 1
    BY <1>2
  <2> QED BY <1>2, <2>1, <2>2
<1>4. s \o <<e>> \in Seq(S) /\ ToSet(s \o <<e>>) = ToSet(s) \cup ToSet(<<e>>)
  BY <1>2, JoinedElements, ZenonT(30)
<1> QED BY <1>1, <1>3, <1>4

-----------------------------------------------------------------------------
(* Lists, whatever they hold.                                              *)
LEMMA Lists ==
  ASSUME NEW S, NEW s \in Seq(S)
  PROVE  IsList(s) /\ ToSet(s) \subseteq S
<1>1. ToSet(s) \subseteq S
  BY Elements
<1>2. Len(s) \in Nat /\ s \in [1 .. Len(s) -> S] /\ \A i \in 1 .. Len(s) : s[i] \in ToSet(s)
  BY DEF ToSet
<1>3. s \in [1 .. Len(s) -> ToSet(s)]
  BY <1>2
<1>4. s \in Seq(ToSet(s))
  BY <1>2, <1>3
<1> QED BY <1>1, <1>4 DEF IsList

LEMMA WiderList ==
  ASSUME NEW s, IsList(s), NEW S, ToSet(s) \subseteq S
  PROVE  s \in Seq(S)
<1>1. Len(s) \in Nat /\ s \in [1 .. Len(s) -> ToSet(s)]
  BY DEF IsList
<1>2. s \in [1 .. Len(s) -> S]
  BY <1>1
<1> QED BY <1>1, <1>2

LEMMA JoinedLists ==
  ASSUME NEW s, IsList(s), NEW t, IsList(t)
  PROVE  IsList(s \o t) /\ ToSet(s \o t) = ToSet(s) \cup ToSet(t)
<1> DEFINE S == ToSet(s) \cup ToSet(t)
<1>1. s \in Seq(S) /\ t \in Seq(S)
  BY WiderList
<1> HIDE DEF S
<1>2. s \o t \in Seq(S) /\ ToSet(s \o t) = ToSet(s) \cup ToSet(t)
  BY <1>1, JoinedElements
<1> QED BY <1>2, Lists

LEMMA NoList == IsList(<<>>) /\ ToSet(<<>>) = {}
BY NoElements DEF IsList

LEMMA ListOfOne == ASSUME NEW a PROVE IsList(<<a>>) /\ ToSet(<<a>>) = {a}
<1>1. <<a>> \in Seq({a}) /\ Len(<<a>>) = 1 /\ <<a>>[1] = a
  OBVIOUS
<1>2. ToSet(<<a>>) = {<<a>>[i] : i \in 1 .. 1}
  BY <1>1, Elements
<1>3. \A i : i \in 1 .. 1 <=> i = 1
  OBVIOUS
<1>4. ToSet(<<a>>) = {a}
  BY <1>1, <1>2, <1>3
<1> QED BY <1>1, <1>4 DEF IsList

LEMMA ListOfTwo == ASSUME NEW a, NEW b PROVE IsList(<<a, b>>) /\ ToSet(<<a, b>>) = {a, b}
<1>1. <<a, b>> \in Seq({a, b}) /\ Len(<<a, b>>) = 2 /\ <<a, b>>[1] = a /\ <<a, b>>[2] = b
  OBVIOUS
<1>2. ToSet(<<a, b>>) = {<<a, b>>[i] : i \in 1 .. 2}
  BY <1>1, Elements
<1>3. \A i : i \in 1 .. 2 <=> i \in {1, 2}
  OBVIOUS
<1>4. ToSet(<<a, b>>) = {a, b}
  BY <1>1, <1>2, <1>3
<1> QED BY <1>1, <1>4 DEF IsList

LEMMA ListOfThree ==
  ASSUME NEW a, NEW b, NEW c
  PROVE  IsList(<<a, b, c>>) /\ ToSet(<<a, b, c>>) = {a, b, c}
<1>1. <<a, b, c>> = <<a, b>> \o <<c>>
  OBVIOUS
<1>2. IsList(<<a, b>>) /\ ToSet(<<a, b>>) = {a, b} /\ IsList(<<c>>) /\ ToSet(<<c>>) = {c}
  BY ListOfOne, ListOfTwo
<1>3. IsList(<<a, b>> \o <<c>>) /\ ToSet(<<a, b>> \o <<c>>) = ToSet(<<a, b>>) \cup ToSet(<<c>>)
  BY <1>2, JoinedLists
<1> QED BY <1>1, <1>2, <1>3

LEMMA ListOfFour ==
  ASSUME NEW a, NEW b, NEW c, NEW d
  PROVE  IsList(<<a, b, c, d>>) /\ ToSet(<<a, b, c, d>>) = {a, b, c, d}
<1>1. <<a, b, c, d>> = <<a, b>> \o <<c, d>>
  OBVIOUS
<1>2. IsList(<<a, b>>) /\ ToSet(<<a, b>>) = {a, b} /\ IsList(<<c, d>>) /\ ToSet(<<c, d>>) = {c, d}
  BY ListOfTwo
<1>3. IsList(<<a, b>> \o <<c, d>>) /\ ToSet(<<a, b>> \o <<c, d>>) = ToSet(<<a, b>>) \cup ToSet(<<c, d>>)
  BY <1>2, JoinedLists
<1> QED BY <1>1, <1>2, <1>3

-----------------------------------------------------------------------------
(* The mapper.                                                             *)

\* What the recursive function of MapLinesOf is.
Mapping(g, p, m, from, to, f) ==
    f = [i \in from .. to |-> IF i = from THEN [mapping |-> m, events |-> <<>>]
                              ELSE MapLine(g, p, f[i - 1], i)]

LEMMA MappingStarts ==
  ASSUME NEW g, NEW p, NEW m, NEW from \in Nat, NEW to \in Nat, NEW f,
         Mapping(g, p, m, from, to, f), from <= to
  PROVE  f[from] = [mapping |-> m, events |-> <<>>]
BY DEF Mapping

LEMMA MappingGoesOn ==
  ASSUME NEW g, NEW p, NEW m, NEW from \in Nat, NEW to \in Nat, NEW f,
         Mapping(g, p, m, from, to, f), NEW i \in from + 1 .. to
  PROVE  f[i] = MapLine(g, p, f[i - 1], i)
<1>1. i \in from .. to /\ i # from
  OBVIOUS
<1> QED BY <1>1 DEF Mapping

\* There is such a function ...
LEMMA MappingExists ==
  ASSUME NEW g, NEW p, NEW m, NEW from \in Nat, NEW to \in Nat, from <= to
  PROVE  \E f : Mapping(g, p, m, from, to, f)
<1> DEFINE first == [mapping |-> m, events |-> <<>>]
           line(h, i) == MapLine(g, p, h, i)
           Is(f, k) == f = [i \in from .. from + k |-> IF i = from THEN first ELSE line(f[i - 1], i)]
           T == {k \in 0 .. to - from : \E f : Is(f, k)}
<1> HIDE DEF first, line
<1>1. 0 \in T
  <2>1. Is([i \in from .. from |-> first], 0)
    <3>1. from + 0 = from
      OBVIOUS
    <3> QED BY <3>1
  <2> HIDE DEF Is
  <2> QED BY <2>1
<1>2. ASSUME NEW k \in 1 .. to - from, k - 1 \in T PROVE k \in T
  <2>1. PICK f : Is(f, k - 1)
    BY <1>2
  <2> DEFINE h == [i \in from .. from + k |-> IF i < from + k THEN f[i] ELSE line(f[i - 1], i)]
  <2>2. ASSUME NEW i \in from .. from + k
        PROVE  h[i] = IF i = from THEN first ELSE line(h[i - 1], i)
    <3>1. CASE i = from
      BY <2>1, <3>1
    <3>2. CASE i # from /\ i < from + k
      <4>1. i \in from .. from + (k - 1) /\ i - 1 \in from .. from + k /\ i - 1 < from + k
        BY <3>2
      <4>2. f[i] = line(f[i - 1], i)
        BY <2>1, <3>2, <4>1
      <4> QED BY <3>2, <4>1, <4>2
    <3>3. CASE i = from + k
      <4>1. i - 1 \in from .. from + k /\ i - 1 < from + k
        BY <3>3
      <4> QED BY <3>3, <4>1
    <3> QED BY <3>1, <3>2, <3>3
  <2>3. h = [i \in from .. from + k |-> IF i = from THEN first ELSE line(h[i - 1], i)]
    BY <2>2
  <2> HIDE DEF h
  <2> QED BY <1>2, <2>3
<1>3. to - from \in T
  <2> HIDE DEF T
  <2>1. \A i \in 0 .. to - from : i \in T
    BY <1>1, <1>2, UpTo
  <2> QED BY <2>1
<1>4. PICK f : Is(f, to - from)
  BY <1>3
<1>5. from + (to - from) = to
  OBVIOUS
<1> QED BY <1>4, <1>5 DEF Mapping, first, line

\* ... and a longer one begins as a shorter one does.
LEMMA MappingAgrees ==
  ASSUME NEW g, NEW p, NEW m, NEW from \in Nat, NEW to \in Nat, NEW last \in Nat,
         from <= to, to <= last, NEW f, Mapping(g, p, m, from, to, f),
         NEW h, Mapping(g, p, m, from, last, h)
  PROVE  f[to] = h[to]
<1>0. ASSUME NEW j \in from + 1 .. to
      PROVE  f[j] = MapLine(g, p, f[j - 1], j) /\ h[j] = MapLine(g, p, h[j - 1], j)
  <2>1. f[j] = MapLine(g, p, f[j - 1], j)
    BY MappingGoesOn
  <2>2. j \in from + 1 .. last
    OBVIOUS
  <2>3. h[j] = MapLine(g, p, h[j - 1], j)
    BY <2>2, MappingGoesOn
  <2> QED BY <2>1, <2>3
<1> DEFINE T == {k \in 0 .. to - from : f[from + k] = h[from + k]}
<1>1. f[from] = h[from]
  <2>1. f[from] = [mapping |-> m, events |-> <<>>]
    BY MappingStarts
  <2>2. h[from] = [mapping |-> m, events |-> <<>>]
    BY MappingStarts
  <2> QED BY <2>1, <2>2
<1>2. ASSUME NEW k \in 1 .. to - from, k - 1 \in T PROVE k \in T
  <2> DEFINE j == from + k
  <2>1. j \in from + 1 .. to /\ j - 1 = from + (k - 1)
    OBVIOUS
  <2> HIDE DEF j
  <2>2. f[j - 1] = h[j - 1]
    BY <1>2, <2>1
  <2>3. f[j] = h[j]
    BY <1>0, <2>1, <2>2
  <2> QED BY <1>2, <2>3 DEF j
<1>3. 0 \in T
  BY <1>1
<1>4. to - from \in T
  <2> HIDE DEF T
  <2>1. \A i \in 0 .. to - from : i \in T
    BY <1>2, <1>3, UpTo
  <2> QED BY <2>1
<1> QED BY <1>4

\* MapLinesOf takes the lines one after the other.
LEMMA MapLinesMapping ==
  ASSUME NEW g, NEW p, NEW m, NEW from \in Nat, NEW n \in Nat, from <= n
  PROVE  \E f : Mapping(g, p, m, from, n, f) /\ MapLinesOf(g, p, m, from, n) = f[n]
<1> DEFINE Lines(f) == [i \in from .. n |->
               IF i = from THEN [mapping |-> m, events |-> <<>>]
               ELSE CHOOSE r \in {MapLine(g, p, before, i) : before \in {f[i - 1]}} : TRUE]
           after == CHOOSE f : f = Lines(f)
<1>1. MapLinesOf(g, p, m, from, n) = after[n]
  BY DEF MapLinesOf
<1>2. ASSUME NEW f PROVE Mapping(g, p, m, from, n, f) <=> f = Lines(f)
  <2>1. \A i : (CHOOSE r \in {MapLine(g, p, before, i) : before \in {f[i - 1]}} : TRUE)
                  = MapLine(g, p, f[i - 1], i)
    OBVIOUS
  <2> QED BY <2>1 DEF Mapping
<1>3. \E f : f = Lines(f)
  <2> HIDE DEF Lines
  <2> QED BY <1>2, MappingExists
<1>4. after = Lines(after)
  <2> HIDE DEF Lines
  <2> QED BY <1>3
<1> HIDE DEF after, Lines
<1> QED BY <1>1, <1>2, <1>4

LEMMA MapNoLines ==
  ASSUME NEW g, NEW p, NEW m, NEW from \in Nat
  PROVE  MapLinesOf(g, p, m, from, from) = [mapping |-> m, events |-> <<>>]
<1>1. PICK f : Mapping(g, p, m, from, from, f) /\ MapLinesOf(g, p, m, from, from) = f[from]
  BY MapLinesMapping
<1> QED BY <1>1, MappingStarts

LEMMA MapOneMore ==
  ASSUME NEW g, NEW p, NEW m, NEW from \in Nat, NEW to \in Nat, from < to
  PROVE  MapLinesOf(g, p, m, from, to) = MapLine(g, p, MapLinesOf(g, p, m, from, to - 1), to)
<1>1. PICK f : Mapping(g, p, m, from, to, f) /\ MapLinesOf(g, p, m, from, to) = f[to]
  BY MapLinesMapping
<1>2. to - 1 \in Nat /\ from <= to - 1 /\ to - 1 <= to /\ to \in from + 1 .. to
  OBVIOUS
<1>3. PICK h : Mapping(g, p, m, from, to - 1, h) /\ MapLinesOf(g, p, m, from, to - 1) = h[to - 1]
  BY <1>2, MapLinesMapping
<1>4. h[to - 1] = f[to - 1]
  BY <1>1, <1>2, <1>3, MappingAgrees
<1>5. f[to] = MapLine(g, p, f[to - 1], to)
  BY <1>1, <1>2, MappingGoesOn
<1> QED BY <1>1, <1>3, <1>4, <1>5

LEMMA FirstLinesSteps ==
  ASSUME NEW g, NEW p
  PROVE  /\ FirstLines(g, p, 0) = [mapping |-> NoMapping(g.runtime), events |-> <<>>]
         /\ \A n \in Nat : n > 0 => FirstLines(g, p, n) = MapLine(g, p, FirstLines(g, p, n - 1), n)
<1>1. FirstLines(g, p, 0) = [mapping |-> NoMapping(g.runtime), events |-> <<>>]
  BY MapNoLines DEF FirstLines
<1>2. ASSUME NEW n \in Nat, n > 0 PROVE FirstLines(g, p, n) = MapLine(g, p, FirstLines(g, p, n - 1), n)
  <2>1. MapLinesOf(g, p, NoMapping(g.runtime), 0, n)
           = MapLine(g, p, MapLinesOf(g, p, NoMapping(g.runtime), 0, n - 1), n)
    BY <1>2, MapOneMore
  <2> QED BY <2>1 DEF FirstLines
<1> QED BY <1>1, <1>2

\* What a line gives when all lines before it have been mapped, and the form that
\* all events of a transcript have.
LineResult(g, p, n) == MapRecord(g.runtime, FirstLines(g, p, n - 1).mapping, g.log[p][n], n)
LinePart(g, p, n) ==
    [k \in DOMAIN LineResult(g, p, n).events |->
       [path |-> p, line |-> n, body |-> LineResult(g, p, n).events[k]]]
LineEvents(g, p) ==
    [path : {p}, line : Nat,
     body : UNION {ToSet(LineResult(g, p, n).events) : n \in 1 .. Len(g.log[p])}]

LEMMA LogLength ==
  ASSUME NEW g \in Agents, NEW p \in DOMAIN g.log PROVE Len(g.log[p]) \in Nat
<1>1. g.log[p] \in Seq(ToSet(g.log[p]))
  BY ListAssumption DEF IsList
<1> QED BY <1>1

LEMMA PartOfLine ==
  ASSUME NEW g \in Agents, NEW p \in DOMAIN g.log, NEW n \in 1 .. Len(g.log[p])
  PROVE  LinePart(g, p, n) \in Seq(LineEvents(g, p)) /\ \A e \in ToSet(LinePart(g, p, n)) : e.line = n
<1> DEFINE given == LineResult(g, p, n).events
           part == LinePart(g, p, n)
<1>1. given \in Seq(ToSet(given)) /\ n \in Nat
  BY ListAssumption, LogLength DEF IsList, LineResult
<1>2. ToSet(given) \subseteq UNION {ToSet(LineResult(g, p, i).events) : i \in 1 .. Len(g.log[p])}
  OBVIOUS
<1>3. part = [k \in DOMAIN given |-> [path |-> p, line |-> n, body |-> given[k]]]
  BY DEF LinePart
<1> HIDE DEF given, part
<1>4. DOMAIN given = 1 .. Len(given) /\ Len(given) \in Nat /\ \A k \in 1 .. Len(given) : given[k] \in ToSet(given)
  BY <1>1
<1>5. part \in [1 .. Len(given) -> LineEvents(g, p)]
  BY <1>1, <1>2, <1>3, <1>4 DEF LineEvents
<1>6. part \in Seq(LineEvents(g, p))
  BY <1>4, <1>5
<1>7. \A k \in DOMAIN part : part[k].line = n
  BY <1>3
<1> QED BY <1>6, <1>7 DEF ToSet, part

\* A line mapped from the state that the lines before it leave.
LEMMA NextLine ==
  ASSUME NEW g \in Agents, NEW p \in DOMAIN g.log, NEW n \in 1 .. Len(g.log[p]), NEW before,
         before.mapping = FirstLines(g, p, n - 1).mapping
  PROVE  MapLine(g, p, before, n)
            = [mapping |-> FirstLines(g, p, n).mapping, events |-> before.events \o LinePart(g, p, n)]
<1>1. n \in Nat /\ 0 < n
  BY LogLength
<1>2. ASSUME NEW b, b.mapping = FirstLines(g, p, n - 1).mapping
      PROVE  MapLine(g, p, b, n)
                = [mapping |-> LineResult(g, p, n).mapping, events |-> b.events \o LinePart(g, p, n)]
  BY <1>2 DEF MapLine, LineResult, LinePart
<1>3. FirstLines(g, p, n) = MapLine(g, p, FirstLines(g, p, n - 1), n)
  BY <1>1, FirstLinesSteps
<1>4. FirstLines(g, p, n).mapping = LineResult(g, p, n).mapping
  BY <1>2, <1>3
<1> QED BY <1>2, <1>4

\* The events of the first lines, and those of one line more.
LEMMA FirstEvents ==
  ASSUME NEW g \in Agents, NEW p \in DOMAIN g.log, NEW n \in 0 .. Len(g.log[p])
  PROVE  /\ FirstLines(g, p, n).events \in Seq(LineEvents(g, p))
         /\ \A e \in ToSet(FirstLines(g, p, n).events) : e.line \in 1 .. n
         /\ n > 0 => FirstLines(g, p, n).events = FirstLines(g, p, n - 1).events \o LinePart(g, p, n)
<1> DEFINE E(i) == FirstLines(g, p, i).events
           last == Len(g.log[p])
           T == {i \in 0 .. last : E(i) \in Seq(LineEvents(g, p)) /\ \A e \in ToSet(E(i)) : e.line \in 1 .. i}
<1>1. last \in Nat
  BY LogLength
<1>2. ASSUME NEW i \in 1 .. last PROVE E(i) = E(i - 1) \o LinePart(g, p, i)
  <2>1. FirstLines(g, p, i) = MapLine(g, p, FirstLines(g, p, i - 1), i)
    <3>1. i \in Nat /\ i > 0
      BY <1>1
    <3> QED BY <3>1, FirstLinesSteps
  <2>2. MapLine(g, p, FirstLines(g, p, i - 1), i)
           = [mapping |-> FirstLines(g, p, i).mapping, events |-> E(i - 1) \o LinePart(g, p, i)]
    BY NextLine
  <2> QED BY <2>1, <2>2
<1>3. E(0) = <<>>
  BY FirstLinesSteps
<1> HIDE DEF E
<1>4. 0 \in T
  <2>1. E(0) \in Seq(LineEvents(g, p)) /\ ToSet(E(0)) = {}
    BY <1>3, NoElements
  <2> QED BY <1>1, <2>1
<1>5. ASSUME NEW i \in 1 .. last, i - 1 \in T PROVE i \in T
  <2>1. LinePart(g, p, i) \in Seq(LineEvents(g, p)) /\ \A e \in ToSet(LinePart(g, p, i)) : e.line = i
    BY PartOfLine
  <2>2. /\ E(i) \in Seq(LineEvents(g, p))
        /\ ToSet(E(i)) = ToSet(E(i - 1)) \cup ToSet(LinePart(g, p, i))
    <3>1. E(i - 1) \in Seq(LineEvents(g, p)) /\ E(i) = E(i - 1) \o LinePart(g, p, i)
      BY <1>2, <1>5
    <3> QED BY <2>1, <3>1, JoinedElements
  <2>3. \A e \in ToSet(E(i)) : e.line \in 1 .. i
    BY <1>1, <1>5, <2>1, <2>2
  <2> QED BY <2>2, <2>3
<1>6. \A i \in 0 .. last : i \in T
  <2> HIDE DEF T, last
  <2> QED BY <1>1, <1>4, <1>5, UpTo
<1> QED BY <1>1, <1>2, <1>6 DEF E

\* A transcript read in two pieces: what the second piece gives, mapped from the
\* state that the first has left, is what is left of the events.
LEMMA ReadOn ==
  ASSUME NEW g \in Agents, NEW p \in DOMAIN g.log, NEW from \in 0 .. Len(g.log[p]),
         NEW to \in from .. Len(g.log[p])
  PROVE  LET read == MapLinesOf(g, p, FirstLines(g, p, from).mapping, from, to)
         IN  /\ read.mapping = FirstLines(g, p, to).mapping
             /\ read.events \in Seq(LineEvents(g, p))
             /\ FirstLines(g, p, to).events = FirstLines(g, p, from).events \o read.events
             /\ \A e \in ToSet(read.events) : e.line \in from + 1 .. to
<1> DEFINE last == Len(g.log[p])
           E(i) == FirstLines(g, p, i).events
           R(i) == MapLinesOf(g, p, FirstLines(g, p, from).mapping, from, i)
           Fits(i) == /\ R(i).mapping = FirstLines(g, p, i).mapping
                      /\ R(i).events \in Seq(LineEvents(g, p))
                      /\ E(i) = E(from) \o R(i).events
                      /\ \A e \in ToSet(R(i).events) : e.line \in from + 1 .. i
           T == {k \in 0 .. to - from : Fits(from + k)}
<1>1. last \in Nat /\ from \in Nat /\ to \in Nat /\ from <= to /\ to <= last
  BY LogLength
<1>2. E(from) \in Seq(LineEvents(g, p))
  BY FirstEvents
<1>3. R(from) = [mapping |-> FirstLines(g, p, from).mapping, events |-> <<>>]
  BY <1>1, MapNoLines
<1>4. ASSUME NEW i \in from + 1 .. to PROVE R(i) = MapLine(g, p, R(i - 1), i)
  <2>1. i \in Nat /\ from < i /\ from <= i
    BY <1>1
  <2> QED BY <1>1, <2>1, MapOneMore
<1>0. ASSUME NEW i \in 1 .. last PROVE E(i) = E(i - 1) \o LinePart(g, p, i)
  <2>1. i \in 0 .. last /\ i > 0
    BY <1>1
  <2> QED BY <2>1, FirstEvents
<1> HIDE DEF R, E
<1>5. Fits(from)
  <2>1. E(from) \o <<>> = E(from)
    BY <1>2, ConcatEmptySeq
  <2>2. R(from).events = <<>> /\ R(from).mapping = FirstLines(g, p, from).mapping
    BY <1>3
  <2>3. R(from).events \in Seq(LineEvents(g, p)) /\ ToSet(R(from).events) = {}
    BY <2>2, NoElements
  <2> QED BY <2>1, <2>2, <2>3
<1>6. ASSUME NEW i \in from + 1 .. to, Fits(i - 1) PROVE Fits(i)
  <2>1. i \in 1 .. last
    BY <1>1
  <2>2. R(i) = [mapping |-> FirstLines(g, p, i).mapping, events |-> R(i - 1).events \o LinePart(g, p, i)]
    BY <1>4, <1>6, <2>1, NextLine
  <2>3. LinePart(g, p, i) \in Seq(LineEvents(g, p)) /\ \A e \in ToSet(LinePart(g, p, i)) : e.line = i
    BY <2>1, PartOfLine
  <2>4. /\ R(i).events \in Seq(LineEvents(g, p))
        /\ ToSet(R(i).events) = ToSet(R(i - 1).events) \cup ToSet(LinePart(g, p, i))
    BY <1>6, <2>2, <2>3, JoinedElements
  <2>5. \A e \in ToSet(R(i).events) : e.line \in from + 1 .. i
    BY <1>1, <1>6, <2>3, <2>4
  <2>6. E(i) = E(i - 1) \o LinePart(g, p, i)
    BY <1>0, <2>1
  <2> DEFINE begun == E(from)
             read == R(i - 1).events
             here == LinePart(g, p, i)
  <2>7. begun \in Seq(LineEvents(g, p)) /\ read \in Seq(LineEvents(g, p)) /\ here \in Seq(LineEvents(g, p))
    BY <1>2, <1>6, <2>3
  <2>8. E(i) = begun \o R(i).events
    <3>1. E(i - 1) = begun \o read
      BY <1>6
    <3>2. R(i).events = read \o here
      BY <2>2
    <3>3. E(i) = E(i - 1) \o here
      BY <2>6
    <3> HIDE DEF begun, read, here
    <3>4. (begun \o read) \o here = begun \o (read \o here)
      <4> DEFINE L == LineEvents(g, p)
      <4>1. begun \in Seq(L) /\ read \in Seq(L) /\ here \in Seq(L)
        BY <2>7
      <4> HIDE DEF L
      <4> QED BY <4>1, ConcatAssociative, Z3T(30)
    <3> QED BY <3>1, <3>2, <3>3, <3>4
  <2>9. R(i).mapping = FirstLines(g, p, i).mapping
    BY <2>2
  <2> QED BY <2>4, <2>5, <2>8, <2>9
<1>7. Fits(to)
  <2> HIDE DEF Fits
  <2>1. 0 \in T
    <3>1. from + 0 = from
      BY <1>1
    <3> QED BY <1>1, <1>5, <3>1
  <2>2. ASSUME NEW k \in 1 .. to - from, k - 1 \in T PROVE k \in T
    <3> DEFINE j == from + k
    <3>1. j \in from + 1 .. to /\ j - 1 = from + (k - 1)
      BY <1>1
    <3> HIDE DEF j
    <3>2. Fits(j)
      BY <1>6, <2>2, <3>1
    <3> QED BY <3>2 DEF j
  <2>3. to - from \in T
    <3> HIDE DEF T
    <3>1. to - from \in Nat
      BY <1>1
    <3>2. \A i \in 0 .. to - from : i \in T
      BY <2>1, <2>2, <3>1, UpTo
    <3> QED BY <3>1, <3>2
  <2>4. from + (to - from) = to
    BY <1>1
  <2> QED BY <2>3, <2>4
<1> QED BY <1>7 DEF R, E

\* The same of the events of a whole transcript.
LEMMA Transcript ==
  ASSUME NEW g \in Agents, NEW p \in DOMAIN g.log
  PROVE  /\ EventsOf[g][p] \in Seq(LineEvents(g, p))
         /\ EventsOf[g][p] = FirstLines(g, p, Len(g.log[p])).events
         /\ \A e \in ToSet(EventsOf[g][p]) : e.path = p /\ e.line \in 1 .. Len(g.log[p]) /\ e \in Events
<1>1. EventsOf[g][p] = FirstLines(g, p, Len(g.log[p])).events
  BY DEF EventsOf
<1>2. Len(g.log[p]) \in 0 .. Len(g.log[p])
  BY LogLength
<1>3. /\ EventsOf[g][p] \in Seq(LineEvents(g, p))
      /\ \A e \in ToSet(EventsOf[g][p]) : e.line \in 1 .. Len(g.log[p])
  BY <1>1, <1>2, FirstEvents
<1>4. ToSet(EventsOf[g][p]) \subseteq LineEvents(g, p)
  BY <1>3, Elements
<1>5. ToSet(EventsOf[g][p]) \subseteq Events
  BY DEF Events
<1> QED BY <1>1, <1>3, <1>4, <1>5 DEF LineEvents

LEMMA ReadEvents ==
  ASSUME NEW g \in Agents, NEW p \in DOMAIN g.log, NEW from \in 0 .. Len(g.log[p]),
         NEW to \in from .. Len(g.log[p]), NEW read,
         read = MapLinesOf(g, p, FirstLines(g, p, from).mapping, from, to)
  PROVE  /\ read.mapping = FirstLines(g, p, to).mapping
         /\ read.events \in Seq(ToSet(EventsOf[g][p]))
         /\ \A e \in ToSet(EventsOf[g][p]) : e.line <= to => e.line <= from \/ e \in ToSet(read.events)
<1> DEFINE last == Len(g.log[p])
           all == EventsOf[g][p]
           first == FirstLines(g, p, from).events
           begun == FirstLines(g, p, to).events
           rest == MapLinesOf(g, p, FirstLines(g, p, to).mapping, to, last).events
<1>1. last \in Nat /\ from \in Nat /\ to \in 0 .. last /\ last \in to .. last
  BY LogLength
<1>2. /\ read.mapping = FirstLines(g, p, to).mapping /\ read.events \in Seq(LineEvents(g, p))
      /\ begun = first \o read.events
  BY ReadOn
<1>3. /\ rest \in Seq(LineEvents(g, p)) /\ all = begun \o rest
      /\ \A e \in ToSet(rest) : e.line \in to + 1 .. last
  <2>1. all = FirstLines(g, p, last).events
    BY Transcript
  <2>2. /\ rest \in Seq(LineEvents(g, p)) /\ FirstLines(g, p, last).events = begun \o rest
        /\ \A e \in ToSet(rest) : e.line \in to + 1 .. last
    BY <1>1, ReadOn
  <2> QED BY <2>1, <2>2
<1>4. first \in Seq(LineEvents(g, p)) /\ \A e \in ToSet(first) : e.line \in 1 .. from
  BY FirstEvents
<1> HIDE DEF all, first, begun, rest, last
<1>5. begun \in Seq(LineEvents(g, p)) /\ ToSet(begun) = ToSet(first) \cup ToSet(read.events)
  BY <1>2, <1>4, JoinedElements
<1>6. ToSet(all) = ToSet(begun) \cup ToSet(rest)
  BY <1>3, <1>5, JoinedElements
<1>7. \A e \in ToSet(all) : e.line <= to => e.line <= from \/ e \in ToSet(read.events)
  BY <1>1, <1>3, <1>4, <1>5, <1>6
<1>8. read.events \in Seq(ToSet(all))
  <2>1. ToSet(read.events) \subseteq ToSet(all)
    BY <1>5, <1>6
  <2>2. Len(read.events) \in Nat /\ read.events \in [1 .. Len(read.events) -> ToSet(read.events)]
    BY <1>2 DEF ToSet
  <2>3. read.events \in [1 .. Len(read.events) -> ToSet(all)]
    BY <2>1, <2>2
  <2> QED BY <2>2, <2>3
<1> QED BY <1>2, <1>7, <1>8 DEF all

-----------------------------------------------------------------------------
(* The Antigravity mapper.                                                 *)
About == {"tool.started", "tool.finished"}

\* Events that are about no call.
NoCalls(events) == IsList(events) /\ \A b \in ToSet(events) : b.type \notin About

LEMMA NoCallsJoined ==
  ASSUME NEW s, NoCalls(s), NEW t, NoCalls(t) PROVE NoCalls(s \o t)
BY JoinedLists DEF NoCalls

LEMMA NoCallsWhen == ASSUME NEW c, NEW s, NoCalls(s) PROVE NoCalls(A!When(c, s))
BY NoList DEF NoCalls, A!When

LEMMA ListWhen == ASSUME NEW c, NEW s, IsList(s) PROVE IsList(A!When(c, s))
BY NoList DEF A!When

LEMMA Flattened ==
  ASSUME NEW S, NEW lists \in Seq(Seq(S)) PROVE A!FlattenSeq(lists) \in Seq(S)
<1> DEFINE n == Len(lists)
           Is(f, k) == f = [i \in 1 .. k |-> IF i = 1 THEN lists[i] ELSE f[i - 1] \o lists[i]]
           T == {k \in 0 .. n : \E f : Is(f, k)}
           flat == CHOOSE f : Is(f, n)
<1>1. n \in Nat /\ \A i \in 1 .. n : lists[i] \in Seq(S)
  OBVIOUS
<1>2. CASE n = 0
  <2>1. lists = <<>>
    BY <1>2
  <2> QED BY <1>2, <2>1, NoElements DEF A!FlattenSeq
<1>3. CASE n > 0
  <2>1. Is([i \in 1 .. 0 |-> 0], 0)
    OBVIOUS
  <2>2. ASSUME NEW k \in 1 .. n, k - 1 \in T PROVE k \in T
    <3>1. PICK f : Is(f, k - 1)
      BY <2>2
    <3> DEFINE h == [i \in 1 .. k |-> IF i < k THEN f[i] ELSE IF k = 1 THEN lists[k] ELSE f[k - 1] \o lists[k]]
    <3>2. ASSUME NEW i \in 1 .. k PROVE h[i] = IF i = 1 THEN lists[i] ELSE h[i - 1] \o lists[i]
      <4>1. CASE i < k
        <5>1. i \in 1 .. k - 1 /\ (i # 1 => i - 1 \in 1 .. k /\ i - 1 < k)
          BY <4>1
        <5>2. f[i] = IF i = 1 THEN lists[i] ELSE f[i - 1] \o lists[i]
          BY <3>1, <5>1
        <5> QED BY <4>1, <5>1, <5>2
      <4>2. CASE i = k
        <5>1. i # 1 => i - 1 \in 1 .. k /\ i - 1 < k
          BY <4>2
        <5> QED BY <4>2, <5>1
      <4> QED BY <4>1, <4>2
    <3>3. Is(h, k)
      BY <3>2
    <3> HIDE DEF h, Is
    <3> QED BY <2>2, <3>3
  <2>3. 0 \in T
    <3> HIDE DEF Is
    <3> QED BY <1>1, <2>1
  <2>4. n \in T
    <3> HIDE DEF T, n
    <3>1. \A i \in 0 .. n : i \in T
      BY <1>1, <2>2, <2>3, UpTo
    <3> QED BY <1>1, <3>1
  <2>5. Is(flat, n)
    <3> HIDE DEF Is
    <3> QED BY <2>4
  <2>6. A!FlattenSeq(lists) = flat[n]
    BY <1>3 DEF A!FlattenSeq
  <2> HIDE DEF flat
  <2> DEFINE G == {k \in 0 .. n : k = 0 \/ flat[k] \in Seq(S)}
  <2>7. ASSUME NEW k \in 1 .. n, k - 1 \in G PROVE k \in G
    <3>1. flat[k] = IF k = 1 THEN lists[k] ELSE flat[k - 1] \o lists[k]
      BY <2>5
    <3>2. CASE k = 1
      BY <1>1, <3>1, <3>2
    <3>3. CASE k # 1
      <4>1. flat[k - 1] \in Seq(S) /\ lists[k] \in Seq(S)
        BY <1>1, <2>7, <3>3
      <4>2. flat[k - 1] \o lists[k] \in Seq(S)
        BY <4>1
      <4>3. flat[k] \in Seq(S)
        BY <3>1, <3>3, <4>2, Zenon
      <4> QED BY <1>1, <4>3
    <3> QED BY <3>2, <3>3
  <2>8. n \in G
    <3>1. 0 \in G
      BY <1>1
    <3> HIDE DEF G, n
    <3>2. \A i \in 0 .. n : i \in G
      BY <1>1, <2>7, <3>1, UpTo
    <3> QED BY <1>1, <3>2
  <2> QED BY <1>3, <2>6, <2>8
<1> QED BY <1>1, <1>2, <1>3

\* The events of the conversations that a result names.
LEMMA SpawnsNoCalls ==
  ASSUME NEW children, IsList(children) PROVE NoCalls(A!SpawnEvents(children))
<1> DEFINE part(i) ==
        << A!Body(<<"child-session", children[i], i>>, "session.discovered", <<children[i], i>>),
           A!Body(<<"child-spawn", children[i], i>>, "agent.spawned", <<children[i], i>>),
           A!Body(<<"child-running", children[i], i>>, "agent.status_changed", <<children[i], i>>) >>
           parts == [i \in DOMAIN children |-> part(i)]
           S == UNION {ToSet(part(i)) : i \in DOMAIN children}
<1>1. Len(children) \in Nat /\ DOMAIN children = 1 .. Len(children)
  BY DEF IsList
<1>2. A!SpawnEvents(children) = A!FlattenSeq(parts)
  BY DEF A!SpawnEvents
<1>3. ASSUME NEW i PROVE NoCalls(part(i))
  BY ListOfThree DEF NoCalls, About, A!Body
<1> HIDE DEF part
<1>4. \A i \in DOMAIN children : part(i) \in Seq(S)
  BY <1>3, WiderList DEF NoCalls
<1>5. parts \in Seq(Seq(S))
  <2> HIDE DEF S
  <2>1. parts \in [1 .. Len(children) -> Seq(S)]
    BY <1>1, <1>4
  <2> QED BY <1>1, <2>1
<1>6. A!FlattenSeq(parts) \in Seq(S)
  <2> HIDE DEF S, parts
  <2> QED BY <1>5, Flattened
<1>7. \A b \in S : b.type \notin About
  BY <1>3 DEF NoCalls
<1> HIDE DEF S, parts
<1> QED BY <1>2, <1>6, <1>7, Lists DEF NoCalls

\* The calls that events of one type refer to.
Named(bodies, type) == {b.ref : b \in {x \in bodies : x.type = type}}

\* After n lines that gave these events, the mapper's state waits for the calls
\* that they announce and do not finish, each once.
Waits(m, bodies, n) ==
    /\ m = [pending |-> m.pending, active |-> m.active]
    /\ IsList(m.pending)
    /\ \A i, j \in DOMAIN m.pending : m.pending[i] = m.pending[j] => i = j
    /\ ToSet(m.pending) = Named(bodies, "tool.started") \ Named(bodies, "tool.finished")
    /\ \A call \in Named(bodies, "tool.started") \cup Named(bodies, "tool.finished") : call[1] \in 0 .. n

LEMMA NamedJoined ==
  ASSUME NEW bodies, NEW more, NEW type
  PROVE  Named(bodies \cup more, type) = Named(bodies, type) \cup Named(more, type)
BY DEF Named

LEMMA NotNamed ==
  ASSUME NEW bodies, NEW more, NEW type, \A b \in more : b.type # type
  PROVE  Named(bodies \cup more, type) = Named(bodies, type) /\ Named(more, type) = {}
BY DEF Named

LEMMA WaitsStill ==
  ASSUME NEW n \in Nat, NEW m, NEW bodies, Waits(m, bodies, n), NEW events, NoCalls(events),
         NEW active
  PROVE  Waits([pending |-> m.pending, active |-> active], bodies \cup ToSet(events), n + 1)
<1> DEFINE k == [pending |-> m.pending, active |-> active]
           all == bodies \cup ToSet(events)
<1>1. /\ Named(all, "tool.started") = Named(bodies, "tool.started")
      /\ Named(all, "tool.finished") = Named(bodies, "tool.finished")
  <2>1. \A b \in ToSet(events) : b.type # "tool.started" /\ b.type # "tool.finished"
    BY DEF NoCalls, About
  <2> QED BY <2>1, NotNamed
<1>2. k.pending = m.pending /\ k = [pending |-> k.pending, active |-> k.active]
  OBVIOUS
<1> HIDE DEF k, all
<1>3. \A c \in Named(bodies, "tool.started") \cup Named(bodies, "tool.finished") : c[1] \in 0 .. n + 1
  BY DEF Waits
<1>4. Waits(k, all, n + 1)
  BY <1>1, <1>2, <1>3 DEF Waits
<1> QED BY <1>4 DEF k, all

\* A prompt.
LEMMA PromptWaits ==
  ASSUME NEW n \in Nat, NEW m, NEW bodies, Waits(m, bodies, n)
  PROVE  LET mapped == A!UserInput(m, n + 1)
         IN  IsList(mapped.events) /\ Waits(mapped.mapping, bodies \cup ToSet(mapped.events), n + 1)
<1> DEFINE mapped == A!UserInput(m, n + 1)
           ended == A!When(m.active # NoActivation, A!EndOf(m.active, <<m.active>>))
           begins == << A!Body(<<"prompt">>, "prompt.accepted", <<>>),
                        A!Body(<<"activation-start">>, "agent.activation_started", <<n + 1>>),
                        A!Body(<<"turn-start">>, "turn.started", <<n + 1>>),
                        A!Body(<<"status-running">>, "agent.status_changed", <<>>) >>
<1>1. NoCalls(ended)
  <2>1. NoCalls(A!EndOf(m.active, <<m.active>>))
    BY ListOfTwo DEF A!EndOf, A!Body, NoCalls, About
  <2> QED BY <2>1, NoCallsWhen
<1>2. NoCalls(begins)
  BY ListOfFour DEF A!Body, NoCalls, About
<1>3. mapped.events = ended \o begins /\ mapped.mapping = [m EXCEPT !.active = n + 1]
  BY DEF A!UserInput, A!Prompted, A!Result
<1>4. mapped.mapping = [pending |-> m.pending, active |-> n + 1]
  <2>1. m = [pending |-> m.pending, active |-> m.active]
    BY DEF Waits
  <2> QED BY <1>3, <2>1
<1> HIDE DEF ended, begins, mapped
<1>5. NoCalls(mapped.events)
  BY <1>1, <1>2, <1>3, NoCallsJoined
<1>6. Waits(mapped.mapping, bodies \cup ToSet(mapped.events), n + 1)
  BY <1>4, <1>5, WaitsStill
<1> QED BY <1>5, <1>6 DEF mapped, NoCalls

\* A record that is about no call.
LEMMA QuietWaits ==
  ASSUME NEW n \in Nat, NEW m, NEW bodies, Waits(m, bodies, n), NEW events, NoCalls(events)
  PROVE  Waits(m, bodies \cup ToSet(events), n + 1)
<1>1. m = [pending |-> m.pending, active |-> m.active]
  BY DEF Waits
<1>2. Waits([pending |-> m.pending, active |-> m.active], bodies \cup ToSet(events), n + 1)
  BY WaitsStill
<1> QED BY <1>1, <1>2

\* An answer of the planner: the calls of a line are new, and all different.
LEMMA PlannerWaits ==
  ASSUME NEW n \in Nat, NEW m, NEW bodies, Waits(m, bodies, n), NEW r, IsList(r.tools)
  PROVE  LET mapped == A!PlannerResponse(m, r, n + 1)
         IN  IsList(mapped.events) /\ Waits(mapped.mapping, bodies \cup ToSet(mapped.events), n + 1)
<1> DEFINE mapped == A!PlannerResponse(m, r, n + 1)
           calls == [i \in DOMAIN r.tools |-> <<n + 1, i, r.tools[i]>>]
           ends == /\ r.status = "DONE" /\ r.tools = <<>> /\ r.content
                   /\ m.active # NoActivation
           thinks == A!When(r.thinking, <<A!Body(<<"reasoning">>, "assistant.reasoning_summary", <<>>)>>)
           says == A!When(r.content, <<A!Body(<<"message">>, "assistant.message", <<>>)>>)
           starts == [i \in DOMAIN calls |-> A!Body(<<"tool-start", i>>, "tool.started", calls[i])]
           runs == A!When(r.status = "RUNNING", <<A!Body(<<"planner-running">>, "agent.status_changed", <<>>)>>)
           stops == A!When(ends, A!EndOf(m.active, <<>>))
           all == bodies \cup ToSet(mapped.events)
<1>1. NoCalls(thinks) /\ NoCalls(says) /\ NoCalls(runs) /\ NoCalls(stops)
  <2>1. /\ NoCalls(<<A!Body(<<"reasoning">>, "assistant.reasoning_summary", <<>>)>>)
        /\ NoCalls(<<A!Body(<<"message">>, "assistant.message", <<>>)>>)
        /\ NoCalls(<<A!Body(<<"planner-running">>, "agent.status_changed", <<>>)>>)
    BY ListOfOne DEF A!Body, NoCalls, About
  <2>2. NoCalls(A!EndOf(m.active, <<>>))
    BY ListOfTwo DEF A!EndOf, A!Body, NoCalls, About
  <2> HIDE DEF ends
  <2> QED BY <2>1, <2>2, NoCallsWhen
<1>2. mapped.events = thinks \o says \o starts \o runs \o stops
  BY DEF A!PlannerResponse, A!Result
<1>3. mapped.mapping = [pending |-> m.pending \o calls, active |-> mapped.mapping.active]
  BY DEF A!PlannerResponse, A!Result
<1>4. /\ Len(r.tools) \in Nat /\ DOMAIN r.tools = 1 .. Len(r.tools)
      /\ IsList(m.pending) /\ DOMAIN m.pending = 1 .. Len(m.pending) /\ Len(m.pending) \in Nat
  BY DEF IsList, Waits
<1>5. /\ DOMAIN calls = 1 .. Len(r.tools) /\ DOMAIN starts = 1 .. Len(r.tools)
      /\ IsList(calls) /\ Len(calls) = Len(r.tools)
  <2>1. DOMAIN calls = 1 .. Len(r.tools) /\ calls \in [1 .. Len(r.tools) -> ToSet(calls)]
    BY <1>4 DEF ToSet
  <2>2. calls \in Seq(ToSet(calls)) /\ Len(calls) = Len(r.tools)
    BY <1>4, <2>1
  <2> QED BY <2>1, <2>2 DEF IsList
<1>6. IsList(starts) /\ \A b \in ToSet(starts) : b.type = "tool.started"
  <2>1. starts \in [1 .. Len(r.tools) -> ToSet(starts)]
    BY <1>5 DEF ToSet
  <2>2. \A i \in DOMAIN starts : starts[i].type = "tool.started"
    BY DEF A!Body
  <2> HIDE DEF starts
  <2>3. starts \in Seq(ToSet(starts))
    BY <1>4, <2>1
  <2> QED BY <2>2, <2>3 DEF ToSet, IsList
<1>7. Named(ToSet(starts), "tool.started") = ToSet(calls)
  <2>1. \A i \in DOMAIN starts : starts[i].type = "tool.started" /\ starts[i].ref = calls[i]
    BY DEF A!Body
  <2> HIDE DEF starts, calls
  <2> QED BY <1>5, <2>1 DEF Named, ToSet
<1>8. \A c \in ToSet(calls) : c[1] = n + 1
  <2>1. \A i \in DOMAIN calls : calls[i][1] = n + 1
    OBVIOUS
  <2> HIDE DEF calls
  <2> QED BY <2>1 DEF ToSet
<1>9. \A i, j \in 1 .. Len(r.tools) : calls[i] = calls[j] => i = j
  <2>1. \A i \in 1 .. Len(r.tools) : calls[i][2] = i
    BY <1>4
  <2> QED BY <2>1
<1> HIDE DEF thinks, says, runs, stops, starts, calls, mapped, all
<1>10. /\ IsList(mapped.events)
       /\ ToSet(mapped.events)
             = ToSet(thinks) \cup ToSet(says) \cup ToSet(starts) \cup ToSet(runs) \cup ToSet(stops)
  <2>0. IsList(thinks) /\ IsList(says) /\ IsList(runs) /\ IsList(stops)
    BY <1>1 DEF NoCalls
  <2>1. IsList(thinks \o says) /\ ToSet(thinks \o says) = ToSet(thinks) \cup ToSet(says)
    BY <2>0, JoinedLists
  <2> DEFINE two == thinks \o says
  <2> HIDE DEF two
  <2>2. IsList(two \o starts) /\ ToSet(two \o starts) = ToSet(two) \cup ToSet(starts)
    BY <1>6, <2>1, JoinedLists DEF two
  <2> DEFINE three == two \o starts
  <2> HIDE DEF three
  <2>3. IsList(three \o runs) /\ ToSet(three \o runs) = ToSet(three) \cup ToSet(runs)
    BY <2>0, <2>2, JoinedLists DEF three
  <2> DEFINE four == three \o runs
  <2> HIDE DEF four
  <2>4. IsList(four \o stops) /\ ToSet(four \o stops) = ToSet(four) \cup ToSet(stops)
    BY <2>0, <2>3, JoinedLists DEF four
  <2>5. mapped.events = four \o stops
    BY <1>2 DEF two, three, four
  <2>6. ToSet(four) = ToSet(thinks) \cup ToSet(says) \cup ToSet(starts) \cup ToSet(runs)
    BY <2>1, <2>2, <2>3 DEF two, three, four
  <2> QED BY <2>4, <2>5, <2>6
<1>11. /\ Named(all, "tool.started") = Named(bodies, "tool.started") \cup ToSet(calls)
       /\ Named(all, "tool.finished") = Named(bodies, "tool.finished")
  <2> DEFINE quiet == ToSet(thinks) \cup ToSet(says) \cup ToSet(runs) \cup ToSet(stops)
  <2>1. all = (bodies \cup quiet) \cup ToSet(starts)
    BY <1>10 DEF all
  <2>2. \A b \in quiet : b.type # "tool.started" /\ b.type # "tool.finished"
    BY <1>1 DEF NoCalls, About
  <2> HIDE DEF quiet
  <2>3. /\ Named(bodies \cup quiet, "tool.started") = Named(bodies, "tool.started")
        /\ Named(bodies \cup quiet, "tool.finished") = Named(bodies, "tool.finished")
    BY <2>2, NotNamed
  <2>4. Named(ToSet(starts), "tool.finished") = {}
    <3>1. \A b \in ToSet(starts) : b.type # "tool.finished"
      BY <1>6
    <3> QED BY <3>1, NotNamed
  <2>5. ASSUME NEW type
        PROVE  Named(all, type) = Named(bodies \cup quiet, type) \cup Named(ToSet(starts), type)
    BY <2>1, NamedJoined
  <2> QED BY <1>7, <2>3, <2>4, <2>5
<1> DEFINE k == mapped.mapping
<1>12. k.pending = m.pending \o calls /\ k = [pending |-> k.pending, active |-> k.active]
  BY <1>3
<1> HIDE DEF k
<1>13. IsList(k.pending) /\ ToSet(k.pending) = ToSet(m.pending) \cup ToSet(calls)
  BY <1>4, <1>5, <1>12, JoinedLists
<1>14. \A c \in ToSet(calls) : c \notin Named(bodies, "tool.started") \cup Named(bodies, "tool.finished")
  BY <1>8 DEF Waits
<1>15. ToSet(k.pending) = Named(all, "tool.started") \ Named(all, "tool.finished")
  BY <1>11, <1>13, <1>14 DEF Waits
<1>16. \A i, j \in DOMAIN k.pending : k.pending[i] = k.pending[j] => i = j
  <2> DEFINE a == Len(m.pending)
             b == Len(r.tools)
  <2>1. /\ DOMAIN k.pending = 1 .. a + b
        /\ \A i \in 1 .. a + b : k.pending[i] = IF i <= a THEN m.pending[i] ELSE calls[i - a]
    <3>1. m.pending \in Seq(ToSet(m.pending) \cup ToSet(calls)) /\ calls \in Seq(ToSet(m.pending) \cup ToSet(calls))
      BY <1>4, <1>5, WiderList
    <3> DEFINE joined == m.pending \o calls
               S == ToSet(m.pending) \cup ToSet(calls)
    <3> HIDE DEF S
    <3>2. /\ Len(joined) = a + Len(calls) /\ joined \in Seq(S)
          /\ \A i \in 1 .. a + Len(calls) : joined[i] = IF i <= a THEN m.pending[i] ELSE calls[i - a]
      BY <3>1, ConcatProperties, Zenon DEF S
    <3> HIDE DEF joined
    <3>3. DOMAIN joined = 1 .. a + Len(calls)
      BY <3>2
    <3> QED BY <1>5, <1>12, <3>2, <3>3 DEF joined
  <2>2. \A i \in 1 .. a : m.pending[i] \in ToSet(m.pending)
    BY <1>4 DEF ToSet
  <2>3. \A i \in 1 .. b : calls[i] \in ToSet(calls)
    BY <1>5 DEF ToSet, IsList
  <2>4. \A x \in ToSet(m.pending), y \in ToSet(calls) : x # y
    BY <1>14 DEF Waits
  <2>5. \A i, j \in 1 .. a : m.pending[i] = m.pending[j] => i = j
    BY <1>4 DEF Waits
  <2> SUFFICES ASSUME NEW i \in 1 .. a + b, NEW j \in 1 .. a + b, k.pending[i] = k.pending[j] PROVE i = j
    BY <2>1
  <2>6. a \in Nat /\ b \in Nat
    BY <1>4
  <2> HIDE DEF a, b
  <2>7. CASE i <= a /\ j <= a
    <3>1. i \in 1 .. a /\ j \in 1 .. a
      BY <2>6, <2>7
    <3> QED BY <2>1, <2>5, <2>7, <3>1
  <2>8. CASE i <= a /\ ~(j <= a)
    <3>1. i \in 1 .. a /\ j - a \in 1 .. b
      BY <2>6, <2>8
    <3> QED BY <2>1, <2>2, <2>3, <2>4, <2>8, <3>1
  <2>9. CASE ~(i <= a) /\ j <= a
    <3>1. j \in 1 .. a /\ i - a \in 1 .. b
      BY <2>6, <2>9
    <3> QED BY <2>1, <2>2, <2>3, <2>4, <2>9, <3>1
  <2>10. CASE ~(i <= a) /\ ~(j <= a)
    <3>1. j - a \in 1 .. b /\ i - a \in 1 .. b
      BY <2>6, <2>10
    <3>2. calls[i - a] = calls[j - a]
      BY <2>1, <2>10
    <3>3. i - a = j - a
      BY <1>9, <3>1, <3>2 DEF b
    <3> QED BY <2>6, <3>3
  <2> QED BY <2>7, <2>8, <2>9, <2>10
<1>17. \A c \in Named(all, "tool.started") \cup Named(all, "tool.finished") : c[1] \in 0 .. n + 1
  BY <1>8, <1>11 DEF Waits
<1>18. Waits(k, all, n + 1)
  BY <1>12, <1>13, <1>15, <1>16, <1>17 DEF Waits
<1> QED BY <1>10, <1>18 DEF k, mapped, all

\* The oldest call that matches a result is a pending call.
LEMMA OldestPending ==
  ASSUME NEW m, IsList(m.pending), NEW type
  PROVE  A!Oldest(m, type) \in 0 .. Len(m.pending)
<1> DEFINE I == {i \in 1 .. Len(m.pending) : A!IsResultOf(type, m.pending[i])}
           below == {pair \in Nat \X Nat : pair[1] < pair[2]}
<1>1. A!Oldest(m, type) = IF I # {} THEN A!Min(I) ELSE 0
  BY DEF A!Oldest, A!SelectInSeq
<1>2. Len(m.pending) \in Nat
  BY DEF IsList
<1>3. IsWellFoundedOn(below, Nat) /\ I \subseteq Nat
  BY NatLessThanWellFounded DEF OpToRel
<1>4. ASSUME I # {} PROVE A!Min(I) \in I
  <2>1. PICK i \in I : \A j \in I : ~(<<j, i>> \in below)
    <3> HIDE DEF I, below
    <3> QED BY <1>3, <1>4, WFMin
  <2>2. ASSUME NEW j \in I PROVE i <= j
    <3>1. ~(<<j, i>> \in below) /\ i \in Nat /\ j \in Nat
      BY <1>3, <2>1
    <3> HIDE DEF I
    <3> QED BY <3>1
  <2> HIDE DEF I
  <2> QED BY <2>1, <2>2 DEF A!Min
<1> QED BY <1>1, <1>2, <1>4

LEMMA Removed ==
  ASSUME NEW s, IsList(s), \A i, j \in DOMAIN s : s[i] = s[j] => i = j, NEW at \in 1 .. Len(s)
  PROVE  LET left == A!RemoveAt(s, at)
         IN  /\ IsList(left) /\ ToSet(left) = ToSet(s) \ {s[at]}
             /\ \A i, j \in DOMAIN left : left[i] = left[j] => i = j
<1> DEFINE left == A!RemoveAt(s, at)
           n == Len(s)
<1>1. n \in Nat /\ DOMAIN s = 1 .. n /\ s \in Seq(ToSet(s)) /\ \A i \in 1 .. n : s[i] \in ToSet(s)
  BY DEF IsList, ToSet
<1>2. left = SubSeq(s, 1, at - 1) \o SubSeq(s, at + 1, n)
  BY DEF A!RemoveAt
<1>3. /\ SubSeq(s, 1, at - 1) \in Seq(ToSet(s)) /\ Len(SubSeq(s, 1, at - 1)) = at - 1
      /\ \A i \in 1 .. at - 1 : SubSeq(s, 1, at - 1)[i] = s[i]
  BY <1>1
<1>4. /\ SubSeq(s, at + 1, n) \in Seq(ToSet(s)) /\ Len(SubSeq(s, at + 1, n)) = n - at
      /\ \A i \in 1 .. n - at : SubSeq(s, at + 1, n)[i] = s[at + i]
  <2>1. at + 1 \in 1 .. n + 1 /\ n \in at .. n
    BY <1>1
  <2> DEFINE b == SubSeq(s, at + 1, n)
  <2>2. /\ b \in Seq(ToSet(s)) /\ Len(b) = IF at + 1 <= n THEN n - (at + 1) + 1 ELSE 0
        /\ \A i \in 1 .. n - (at + 1) + 1 : b[i] = s[(at + 1) + i - 1]
    BY <1>1, <2>1, SubSeqProperties
  <2> HIDE DEF b
  <2>3. Len(b) = n - at
    <3>1. Len(b) = IF at + 1 <= n THEN n - (at + 1) + 1 ELSE 0
      BY <2>2
    <3>2. n \in Nat /\ at \in 1 .. n
      BY <1>1
    <3> HIDE DEF n
    <3> QED BY <3>1, <3>2
  <2>4. ASSUME NEW i \in 1 .. n - at PROVE b[i] = s[at + i]
    <3>1. i \in 1 .. n - (at + 1) + 1 /\ (at + 1) + i - 1 = at + i
      BY <1>1
    <3> QED BY <2>2, <3>1
  <2> QED BY <2>2, <2>3, <2>4 DEF b
<1>5. /\ left \in Seq(ToSet(s)) /\ DOMAIN left = 1 .. n - 1
      /\ \A i \in 1 .. n - 1 : left[i] = IF i < at THEN s[i] ELSE s[i + 1]
  <2> DEFINE a == SubSeq(s, 1, at - 1)
             b == SubSeq(s, at + 1, n)
             S == ToSet(s)
  <2>1. a \in Seq(S) /\ b \in Seq(S)
    BY <1>3, <1>4
  <2> HIDE DEF a, b, S, left
  <2>2. /\ a \o b \in Seq(S) /\ Len(a \o b) = Len(a) + Len(b)
        /\ \A i \in 1 .. Len(a) + Len(b) : (a \o b)[i] = IF i <= Len(a) THEN a[i] ELSE b[i - Len(a)]
    BY <2>1, ConcatProperties
  <2>3. left = a \o b
    BY <1>2 DEF a, b
  <2>4. Len(a) = at - 1 /\ Len(b) = n - at
    BY <1>3, <1>4 DEF a, b
  <2>5. left \in Seq(S) /\ DOMAIN left = 1 .. n - 1
    <3>1. left \in Seq(S) /\ Len(left) = (at - 1) + (n - at)
      BY <2>2, <2>3, <2>4
    <3>2. DOMAIN left = 1 .. Len(left)
      BY <3>1
    <3>3. (at - 1) + (n - at) = n - 1
      BY <1>1
    <3> QED BY <3>1, <3>2, <3>3
  <2>6. ASSUME NEW i \in 1 .. n - 1 PROVE left[i] = IF i < at THEN s[i] ELSE s[i + 1]
    <3>1. left[i] = IF i <= at - 1 THEN a[i] ELSE b[i - (at - 1)]
      BY <1>1, <2>2, <2>3, <2>4
    <3>2. CASE i < at
      <4>1. i \in 1 .. at - 1
        BY <1>1, <3>2
      <4> QED BY <1>3, <3>1, <3>2, <4>1 DEF a
    <3>3. CASE ~(i < at)
      <4>1. i - (at - 1) \in 1 .. n - at /\ at + (i - (at - 1)) = i + 1 /\ ~(i <= at - 1)
        BY <1>1, <3>3
      <4> QED BY <1>4, <3>1, <3>3, <4>1 DEF b
    <3> QED BY <3>2, <3>3
  <2> QED BY <2>5, <2>6 DEF S
<1> HIDE DEF left
<1>6. \A i, j \in DOMAIN left : left[i] = left[j] => i = j
  <2> SUFFICES ASSUME NEW i \in 1 .. n - 1, NEW j \in 1 .. n - 1, left[i] = left[j] PROVE i = j
    BY <1>5
  <2> DEFINE up(k) == IF k < at THEN k ELSE k + 1
  <2>1. up(i) \in 1 .. n /\ up(j) \in 1 .. n /\ left[i] = s[up(i)] /\ left[j] = s[up(j)]
    BY <1>1, <1>5
  <2>2. up(i) = up(j)
    <3> HIDE DEF up
    <3> QED BY <1>1, <2>1
  <2> QED BY <2>2
<1>7. ToSet(left) = ToSet(s) \ {s[at]}
  <2>1. ASSUME NEW i \in 1 .. n - 1 PROVE left[i] \in ToSet(s) \ {s[at]}
    <3> DEFINE k == IF i < at THEN i ELSE i + 1
    <3>1. k \in 1 .. n /\ k # at /\ left[i] = s[k]
      BY <1>1, <1>5
    <3> HIDE DEF k
    <3> QED BY <1>1, <3>1
  <2>2. ASSUME NEW i \in 1 .. n, s[i] # s[at] PROVE \E j \in 1 .. n - 1 : left[j] = s[i]
    <3> DEFINE j == IF i < at THEN i ELSE i - 1
    <3>1. i # at
      BY <2>2
    <3>2. j \in 1 .. n - 1 /\ (IF j < at THEN j ELSE j + 1) = i
      BY <1>1, <3>1
    <3>3. left[j] = s[i]
      BY <1>5, <3>2
    <3> QED BY <3>2, <3>3
  <2>3. ToSet(left) = {left[i] : i \in 1 .. n - 1}
    BY <1>5 DEF ToSet
  <2>4. ToSet(s) = {s[i] : i \in 1 .. n}
    BY <1>1 DEF ToSet
  <2>5. ToSet(left) \subseteq ToSet(s) \ {s[at]}
    BY <2>1, <2>3
  <2>6. ToSet(s) \ {s[at]} \subseteq ToSet(left)
    BY <2>2, <2>3, <2>4
  <2> QED BY <2>5, <2>6
<1>8. IsList(left)
  BY <1>5, Lists
<1> QED BY <1>6, <1>7, <1>8 DEF left

\* A result finishes a pending call, or one that nobody announced, or is none.
LEMMA ResultWaits ==
  ASSUME NEW n \in Nat, NEW m, NEW bodies, Waits(m, bodies, n), NEW r, IsList(r.children)
  PROVE  LET mapped == A!ToolResult(m, r, n + 1)
         IN  IsList(mapped.events) /\ Waits(mapped.mapping, bodies \cup ToSet(mapped.events), n + 1)
<1> DEFINE mapped == A!ToolResult(m, r, n + 1)
           at == A!Oldest(m, r.type)
           call == IF at = 0 THEN <<n + 1, 0, r.type>> ELSE m.pending[at]
           finish == A!Body(<<"tool-finish">> \o call, "tool.finished", call)
           spawns == A!When(r.type = "invoke_subagent", A!SpawnEvents(r.children))
           all == bodies \cup ToSet(mapped.events)
           k == mapped.mapping
<1>1. at \in 0 .. Len(m.pending) /\ Len(m.pending) \in Nat /\ DOMAIN m.pending = 1 .. Len(m.pending)
  BY OldestPending DEF Waits, IsList
<1>2. CASE at = 0 /\ r.type = "CODE_ACTION"
  <2>1. k = m /\ mapped.events = <<>>
    BY <1>2 DEF A!ToolResult, A!Result
  <2>2. NoCalls(<<>>)
    BY NoList DEF NoCalls
  <2>3. Waits(m, bodies \cup ToSet(<<>>), n + 1)
    BY <2>2, QuietWaits
  <2> QED BY <2>1, <2>3, NoList
<1>3. CASE ~(at = 0 /\ r.type = "CODE_ACTION")
  <2>1. /\ mapped.events = <<finish>> \o spawns
        /\ k = IF at = 0 THEN m ELSE [m EXCEPT !.pending = A!RemoveAt(m.pending, at)]
    BY <1>3 DEF A!ToolResult, A!Result
  <2>2. NoCalls(spawns)
    BY SpawnsNoCalls, NoCallsWhen
  <2>3. finish.type = "tool.finished" /\ finish.ref = call
    BY DEF A!Body
  <2>4. at # 0 => call \in ToSet(m.pending)
    BY <1>1 DEF ToSet
  <2>5. at = 0 => call[1] = n + 1
    OBVIOUS
  <2>6. at # 0 => call = m.pending[at]
    OBVIOUS
  <2> HIDE DEF call, at, finish, spawns, mapped
  <2>7. IsList(mapped.events) /\ ToSet(mapped.events) = {finish} \cup ToSet(spawns)
    <3>1. IsList(<<finish>>) /\ ToSet(<<finish>>) = {finish} /\ IsList(spawns)
      BY <2>2, ListOfOne DEF NoCalls
    <3> QED BY <2>1, <3>1, JoinedLists
  <2>8. /\ Named(all, "tool.started") = Named(bodies, "tool.started")
        /\ Named(all, "tool.finished") = Named(bodies, "tool.finished") \cup {call}
    <3> DEFINE quiet == bodies \cup ToSet(spawns)
    <3>1. all = quiet \cup {finish}
      BY <2>7
    <3>2. \A b \in ToSet(spawns) : b.type # "tool.started" /\ b.type # "tool.finished"
      BY <2>2 DEF NoCalls, About
    <3>3. /\ Named(quiet, "tool.started") = Named(bodies, "tool.started")
          /\ Named(quiet, "tool.finished") = Named(bodies, "tool.finished")
      BY <3>2, NotNamed
    <3> HIDE DEF quiet
    <3>4. Named({finish}, "tool.finished") = {call} /\ Named({finish}, "tool.started") = {}
      BY <2>3 DEF Named
    <3>5. \A type : Named(quiet \cup {finish}, type) = Named(quiet, type) \cup Named({finish}, type)
      BY NamedJoined
    <3> QED BY <3>1, <3>3, <3>4, <3>5
  <2>9. m = [pending |-> m.pending, active |-> m.active]
    BY DEF Waits
  <2> HIDE DEF k, all
  <2>10. \A c \in Named(all, "tool.started") \cup Named(all, "tool.finished") : c[1] \in 0 .. n + 1
    <3>1. \A c \in Named(bodies, "tool.started") \cup Named(bodies, "tool.finished") : c[1] \in 0 .. n
      BY DEF Waits
    <3>2. call[1] \in 0 .. n + 1
      <4>1. at # 0 => call \in Named(bodies, "tool.started")
        BY <2>4 DEF Waits
      <4> QED BY <2>5, <3>1, <4>1
    <3> QED BY <2>8, <3>1, <3>2
  <2>11. CASE at = 0
    <3>1. k = m
      BY <2>1, <2>11
    <3>2. call \notin Named(bodies, "tool.started")
      BY <2>5, <2>11 DEF Waits
    <3>3. ToSet(m.pending) = Named(all, "tool.started") \ Named(all, "tool.finished")
      BY <2>8, <3>2 DEF Waits
    <3>4. Waits(k, all, n + 1)
      BY <2>10, <3>1, <3>3 DEF Waits
    <3> QED BY <2>7, <3>4 DEF k, all, mapped
  <2>12. CASE at # 0
    <3> DEFINE left == A!RemoveAt(m.pending, at)
    <3>1. k = [pending |-> left, active |-> m.active]
      BY <2>1, <2>9, <2>12
    <3>2. /\ IsList(left) /\ ToSet(left) = ToSet(m.pending) \ {call}
          /\ \A i, j \in DOMAIN left : left[i] = left[j] => i = j
      BY <1>1, <2>6, <2>12, Removed DEF Waits
    <3> HIDE DEF left
    <3>3. ToSet(left) = Named(all, "tool.started") \ Named(all, "tool.finished")
      BY <2>8, <3>2 DEF Waits
    <3>4. Waits(k, all, n + 1)
      BY <2>10, <3>1, <3>2, <3>3 DEF Waits
    <3> QED BY <2>7, <3>4 DEF k, all, mapped
  <2> QED BY <2>11, <2>12
<1> QED BY <1>2, <1>3

\* Every record.
LEMMA RecordWaits ==
  ASSUME NEW n \in Nat, NEW m, NEW bodies, Waits(m, bodies, n), NEW r, IsList(r.tools), IsList(r.children)
  PROVE  LET mapped == A!AntigravityMap(m, r, n + 1)
         IN  Waits(mapped.mapping, bodies \cup ToSet(mapped.events), n + 1)
<1> DEFINE inner == CASE r.type = "USER_INPUT" -> A!UserInput(m, n + 1)
                      [] r.type = "PLANNER_RESPONSE" -> A!PlannerResponse(m, r, n + 1)
                      [] r.type = "GENERIC" ->
                            A!Result(m, A!When(r.content, <<A!Body(<<"generic">>, "assistant.message", <<>>)>>))
                      [] r.type = "CHECKPOINT" ->
                            A!Result(m, <<A!Body(<<"checkpoint">>, "step.ended", <<>>)>>)
                      [] r.type = "ERROR_MESSAGE" -> A!ErrorMessage(m)
                      [] r.type \in A!Results -> A!ToolResult(m, r, n + 1)
                      [] OTHER -> A!Result(m, <<>>)
           session == A!When(n + 1 = 1, <<A!Body(<<"session">>, "session.discovered", <<>>)>>)
           mapped == A!AntigravityMap(m, r, n + 1)
           Fits(x) == /\ x = A!Result(x.mapping, x.events) /\ IsList(x.events)
                      /\ Waits(x.mapping, bodies \cup ToSet(x.events), n + 1)
<1>1. mapped = [inner EXCEPT !.events = session \o inner.events]
  BY DEF A!AntigravityMap
<1>2. NoCalls(session)
  <2>1. NoCalls(<<A!Body(<<"session">>, "session.discovered", <<>>)>>)
    BY ListOfOne DEF A!Body, NoCalls, About
  <2> QED BY <2>1, NoCallsWhen
<1>3. ASSUME NEW events, NoCalls(events) PROVE Fits(A!Result(m, events))
  <2>1. Waits(m, bodies \cup ToSet(events), n + 1)
    BY <1>3, QuietWaits
  <2> QED BY <1>3, <2>1 DEF A!Result, NoCalls
<1>4. Fits(A!UserInput(m, n + 1))
  BY PromptWaits DEF A!UserInput, A!Prompted, A!Result
<1>5. Fits(A!PlannerResponse(m, r, n + 1))
  <2> DEFINE x == A!PlannerResponse(m, r, n + 1)
  <2>1. x = A!Result(x.mapping, x.events)
    BY DEF A!PlannerResponse, A!Result
  <2>2. IsList(x.events) /\ Waits(x.mapping, bodies \cup ToSet(x.events), n + 1)
    BY PlannerWaits
  <2> QED BY <2>1, <2>2
<1>6. Fits(A!ToolResult(m, r, n + 1))
  BY ResultWaits DEF A!ToolResult, A!Result
<1>7. /\ NoCalls(A!When(r.content, <<A!Body(<<"generic">>, "assistant.message", <<>>)>>))
      /\ NoCalls(<<A!Body(<<"checkpoint">>, "step.ended", <<>>)>>) /\ NoCalls(<<>>)
      /\ NoCalls(<<A!Body(<<"error">>, "error.recorded", <<>>),
                   A!Body(<<"status-waiting">>, "agent.status_changed", <<>>)>>)
  <2>1. NoCalls(<<A!Body(<<"generic">>, "assistant.message", <<>>)>>)
    BY ListOfOne DEF A!Body, NoCalls, About
  <2> QED BY <2>1, NoList, NoCallsWhen, ListOfOne, ListOfTwo DEF A!Body, NoCalls, About
<1>8. Fits(A!ErrorMessage(m))
  BY <1>3, <1>7 DEF A!ErrorMessage
<1>9. Fits(inner)
  <2> HIDE DEF Fits
  <2> QED BY <1>3, <1>4, <1>5, <1>6, <1>7, <1>8
<1> HIDE DEF inner, session
<1>10. mapped.mapping = inner.mapping /\ mapped.events = session \o inner.events
  <2>1. inner = [mapping |-> inner.mapping, events |-> inner.events]
    BY <1>9 DEF A!Result
  <2> QED BY <1>1, <2>1
<1> HIDE DEF mapped
<1>11. ToSet(mapped.events) = ToSet(session) \cup ToSet(inner.events)
  BY <1>2, <1>9, <1>10, JoinedLists DEF NoCalls
<1> DEFINE some == bodies \cup ToSet(inner.events)
<1>12. bodies \cup ToSet(mapped.events) = some \cup ToSet(session)
  BY <1>11
<1>13. ASSUME NEW type \in About PROVE Named(some \cup ToSet(session), type) = Named(some, type)
  <2>1. \A b \in ToSet(session) : b.type # type
    BY <1>2 DEF NoCalls
  <2> QED BY <2>1, NotNamed
<1>14. Waits(inner.mapping, some \cup ToSet(session), n + 1)
  <2>1. "tool.started" \in About /\ "tool.finished" \in About
    BY DEF About
  <2>2. Waits(inner.mapping, some, n + 1)
    BY <1>9
  <2> HIDE DEF some
  <2>3. /\ Named(some \cup ToSet(session), "tool.started") = Named(some, "tool.started")
        /\ Named(some \cup ToSet(session), "tool.finished") = Named(some, "tool.finished")
    BY <1>13, <2>1
  <2> QED BY <2>2, <2>3 DEF Waits
<1> QED BY <1>10, <1>12, <1>14 DEF mapped

\* Line after line, from the first.
LEMMA LinesWait ==
  ASSUME NEW g \in Agents, g.runtime = "antigravity", NEW p \in DOMAIN g.log, NEW n \in 0 .. Len(g.log[p])
  PROVE  Waits(FirstLines(g, p, n).mapping, {e.body : e \in ToSet(FirstLines(g, p, n).events)}, n)
<1> DEFINE M(i) == FirstLines(g, p, i).mapping
           E(i) == FirstLines(g, p, i).events
           B(i) == {e.body : e \in ToSet(E(i))}
           last == Len(g.log[p])
           T == {i \in 0 .. last : Waits(M(i), B(i), i)}
<1>1. last \in Nat
  BY LogLength
<1>2. Waits(M(0), B(0), 0)
  <2>1. M(0) = [pending |-> <<>>, active |-> NoActivation]
    <3>1. NoMapping(g.runtime) = A!NoPending
      BY MapperAssumption DEF NoMappingOf
    <3>2. M(0) = NoMapping(g.runtime)
      BY FirstLinesSteps
    <3> QED BY <3>1, <3>2 DEF A!NoPending
  <2>2. B(0) = {}
    <3>1. E(0) = <<>>
      BY FirstLinesSteps
    <3>2. ToSet(E(0)) = {}
      BY <3>1, NoList
    <3> QED BY <3>2
  <2>3. Named({}, "tool.started") = {} /\ Named({}, "tool.finished") = {}
    BY DEF Named
  <2> HIDE DEF M, B
  <2> DEFINE m == M(0)
  <2>4. m = [pending |-> m.pending, active |-> m.active] /\ m.pending = <<>>
    BY <2>1
  <2> HIDE DEF m
  <2>5. \A i, j \in DOMAIN m.pending : m.pending[i] = m.pending[j] => i = j
    BY <2>4
  <2>6. Waits(m, {}, 0)
    BY <2>3, <2>4, <2>5, NoList DEF Waits
  <2> QED BY <2>2, <2>6 DEF m
<1>3. ASSUME NEW i \in 1 .. last, Waits(M(i - 1), B(i - 1), i - 1) PROVE Waits(M(i), B(i), i)
  <2> DEFINE r == g.log[p][i]
             given == LineResult(g, p, i)
  <2>1. i - 1 \in Nat /\ i - 1 + 1 = i /\ i \in 0 .. last /\ i - 1 \in 0 .. last /\ i > 0
    BY <1>1
  <2>2. given = A!AntigravityMap(M(i - 1), r, i) /\ IsList(r.tools) /\ IsList(r.children)
    BY MapperAssumption DEF MapRecordOf, LineResult
  <2>3. M(i) = given.mapping
    <3>0. i \in Nat /\ i > 0
      BY <1>1
    <3>1. FirstLines(g, p, i) = MapLine(g, p, FirstLines(g, p, i - 1), i)
      BY <3>0, FirstLinesSteps
    <3> QED BY <3>1 DEF MapLine, LineResult
  <2>4. B(i) = B(i - 1) \cup ToSet(given.events)
    <3> DEFINE part == LinePart(g, p, i)
    <3>1. E(i) = E(i - 1) \o part
      BY <2>1, FirstEvents
    <3>2. E(i - 1) \in Seq(LineEvents(g, p)) /\ part \in Seq(LineEvents(g, p))
      BY <2>1, FirstEvents, PartOfLine
    <3>3. {e.body : e \in ToSet(part)} = ToSet(given.events)
      <4> DEFINE some == given.events
      <4>1. part = [k \in DOMAIN some |-> [path |-> p, line |-> i, body |-> some[k]]]
        BY DEF LinePart
      <4> HIDE DEF part, some, given
      <4>2. \A k \in DOMAIN part : part[k].body = some[k]
        BY <4>1
      <4>3. DOMAIN part = DOMAIN some
        BY <4>1
      <4> QED BY <4>2, <4>3 DEF ToSet, some
    <3> HIDE DEF E, part, given
    <3>4. ToSet(E(i)) = ToSet(E(i - 1)) \cup ToSet(part)
      BY <3>1, <3>2, JoinedElements
    <3> QED BY <3>3, <3>4
  <2> DEFINE m == M(i - 1)
             bodies == B(i - 1)
  <2>5. Waits(m, bodies, i - 1)
    BY <1>3
  <2> HIDE DEF m, bodies, r, given, M, B
  <2>6. given = A!AntigravityMap(m, r, i - 1 + 1)
    BY <2>1, <2>2 DEF m
  <2>7. Waits(given.mapping, bodies \cup ToSet(given.events), i - 1 + 1)
    BY <2>1, <2>2, <2>5, <2>6, RecordWaits
  <2> QED BY <2>1, <2>3, <2>4, <2>7 DEF bodies
<1> HIDE DEF M, B
<1>4. 0 \in T
  BY <1>1, <1>2
<1>5. ASSUME NEW i \in 1 .. last, i - 1 \in T PROVE i \in T
  BY <1>1, <1>3, <1>5
<1>6. n \in T
  <2> HIDE DEF T, last
  <2>1. \A i \in 0 .. last : i \in T
    BY <1>1, <1>4, <1>5, UpTo
  <2> QED BY <2>1 DEF last
<1> QED BY <1>6 DEF M, B, E

\* The events of the first lines are those of the transcript that they gave.
LEMMA FirstOfAll ==
  ASSUME NEW g \in Agents, NEW p \in DOMAIN g.log, NEW n \in 0 .. Len(g.log[p])
  PROVE  ToSet(FirstLines(g, p, n).events) = {e \in ToSet(EventsOf[g][p]) : e.line <= n}
<1> DEFINE last == Len(g.log[p])
           all == EventsOf[g][p]
           first == FirstLines(g, p, n).events
           rest == MapLinesOf(g, p, FirstLines(g, p, n).mapping, n, last).events
<1>1. last \in Nat /\ n \in 0 .. last /\ last \in n .. last
  BY LogLength
<1>2. /\ rest \in Seq(LineEvents(g, p)) /\ FirstLines(g, p, last).events = first \o rest
      /\ \A e \in ToSet(rest) : e.line \in n + 1 .. last
  BY <1>1, ReadOn
<1>3. all = FirstLines(g, p, last).events
  BY Transcript
<1>4. first \in Seq(LineEvents(g, p)) /\ \A e \in ToSet(first) : e.line \in 1 .. n
  BY FirstEvents
<1> HIDE DEF all, first, rest, last
<1>5. ToSet(all) = ToSet(first) \cup ToSet(rest)
  BY <1>2, <1>3, <1>4, JoinedElements
<1>6. \A e \in ToSet(first) : e.line <= n
  BY <1>1, <1>4
<1>7. \A e \in ToSet(rest) : ~(e.line <= n)
  BY <1>1, <1>2
<1> QED BY <1>5, <1>6, <1>7 DEF all, first

-----------------------------------------------------------------------------
(* Where a read ends.                                                      *)
LEMMA LastLineRead ==
  ASSUME NEW first \in Nat, NEW stat, stat.size \in Nat, NEW f,
         f.n \in Nat, f.partial \in BOOLEAN, first < LastLine(first, stat, f)
  PROVE  LastLine(first, stat, f) \in first .. f.n
<1> DEFINE a == stat.size
           b == 2 * (first + MaxLines)
           c == Size(f)
           limit == Min({a, b, c})
           half == limit \div 2
<1>1. a \in Nat /\ b \in Nat /\ c \in Nat /\ c <= 2 * f.n + 1
  BY ObserverAssumption DEF Size
<1> HIDE DEF a, b, c
<1>2. limit \in Nat /\ limit <= c
  <2>1. \E x \in {a, b, c} : \A y \in {a, b, c} : x <= y
    <3>1. CASE a <= b /\ a <= c
      BY <1>1, <3>1
    <3>2. CASE b <= a /\ b <= c
      BY <1>1, <3>2
    <3>3. CASE c <= a /\ c <= b
      BY <1>1, <3>3
    <3> QED BY <1>1, <3>1, <3>2, <3>3
  <2>2. limit \in {a, b, c} /\ \A y \in {a, b, c} : limit <= y
    BY <2>1 DEF Min
  <2> HIDE DEF limit
  <2> QED BY <1>1, <2>2
<1> HIDE DEF limit
<1>3. half \in Nat /\ half <= f.n
  BY <1>1, <1>2
<1> HIDE DEF half
<1>4. Max({first, half}) \in {first, half}
  <2>1. \E x \in {first, half} : \A y \in {first, half} : x >= y
    BY <1>3
  <2> QED BY <2>1 DEF Max
<1>5. LastLine(first, stat, f) = Max({first, half})
  BY DEF LastLine, half, limit, a, b, c
<1> QED BY <1>3, <1>4, <1>5

-----------------------------------------------------------------------------
(* The observers.                                                          *)

\* A state stands for the first lines of its transcript, whose events are known.
Stands(g, p, s, known) ==
    /\ s.lines \in 0 .. Len(g.log[p])
    /\ s.mapping = FirstLines(g, p, s.lines).mapping
    /\ \A e \in ToSet(EventsOf[g][p]) : e.line <= s.lines => e \in known

\* An observer keeps its fields.
Shape(o) == o = [pc |-> o.pc, state |-> o.state, mtime |-> o.mtime, stat |-> o.stat,
                 todo |-> o.todo, next |-> o.next]

\* An observer of the transcript at p, with the sink's queue and what is stored:
\* what its next state has behind it is durable, queued or still to be written.
Observes(g, p, o, q, st) ==
    /\ Shape(o) /\ o.stat.size \in Nat
    /\ o.todo \in Seq(ToSet(EventsOf[g][p]))
    /\ o.pc # "idle" \/ o.state # NoState => Stands(g, p, o.state, st)
    /\ o.pc = "write" => o.todo # <<>>
    /\ o.pc = "wait" => o.todo = <<>>
    /\ o.pc \in {"write", "wait"} => Stands(g, p, o.next, st \cup ToSet(q) \cup ToSet(o.todo))
    /\ o.pc = "save" => Stands(g, p, o.next, st)

FileType == [id : Nat, n : Nat, partial : BOOLEAN, mtime : Nat]

Good(g, fs, os, sv, q, st) ==
    /\ g \in Agents
    /\ fs \in [DOMAIN g.log -> FileType]
    /\ \A p \in DOMAIN g.log : fs[p].n <= Len(g.log[p])
    /\ os = [p \in DOMAIN g.log |-> os[p]]
    /\ \A p \in DOMAIN g.log : Observes(g, p, os[p], q, st)
    /\ sv = [p \in DOMAIN g.log |-> sv[p]]
    /\ \A p \in DOMAIN g.log : sv[p] # NoState => Stands(g, p, sv[p], st)
    /\ q \in Seq(Events)
    /\ \A e \in ToSet(q) \cup st : e.path \in DOMAIN g.log /\ e \in ToSet(EventsOf[g][e.path])

IInv == Good(agent, file, obs, saved, queue, stored)

\* More may be known.
LEMMA StandsStill ==
  ASSUME NEW g, NEW p, NEW s, NEW known, Stands(g, p, s, known), NEW more, known \subseteq more
  PROVE  Stands(g, p, s, more)
BY DEF Stands

LEMMA ObservesStill ==
  ASSUME NEW g, NEW p, NEW o, NEW q, NEW st, Observes(g, p, o, q, st),
         NEW q2, NEW st2, st \subseteq st2, ToSet(q) \subseteq ToSet(q2) \cup st2
  PROVE  Observes(g, p, o, q2, st2)
<1>1. st \cup ToSet(q) \cup ToSet(o.todo) \subseteq st2 \cup ToSet(q2) \cup ToSet(o.todo)
  OBVIOUS
<1>2. o.pc \in {"write", "wait"} => Stands(g, p, o.next, st2 \cup ToSet(q2) \cup ToSet(o.todo))
  BY <1>1, StandsStill DEF Observes
<1>3. /\ o.pc # "idle" \/ o.state # NoState => Stands(g, p, o.state, st2)
      /\ o.pc = "save" => Stands(g, p, o.next, st2)
  BY StandsStill DEF Observes
<1> QED BY <1>2, <1>3 DEF Observes

\* An observer at rest, and a state that starts at the beginning.
LEMMA AtRest ==
  ASSUME NEW g, NEW p, NEW s, NEW q, NEW st, s # NoState => Stands(g, p, s, st)
  PROVE  Observes(g, p, [Resting EXCEPT !.state = s], q, st)
<1> DEFINE o == [Resting EXCEPT !.state = s]
<1>1. Shape(o) /\ o.pc = "idle" /\ o.state = s /\ o.stat.size = 0 /\ o.todo = <<>>
  BY DEF Resting, Shape
<1> HIDE DEF o
<1>2. o.todo \in Seq(ToSet(EventsOf[g][p]))
  BY <1>1, NoElements
<1>3. Observes(g, p, o, q, st)
  BY <1>1, <1>2 DEF Observes
<1> QED BY <1>3 DEF o

LEMMA StandsFresh ==
  ASSUME agent \in Agents, NEW p \in Paths, NEW id, NEW mtime, NEW known
  PROVE  Stands(agent, p, FreshState(id, mtime), known)
<1> DEFINE s == FreshState(id, mtime)
<1>1. s.lines = 0 /\ s.mapping = NoMapping(agent.runtime)
  BY DEF FreshState
<1>2. FirstLines(agent, p, 0).mapping = NoMapping(agent.runtime)
  BY FirstLinesSteps
<1>3. 0 \in 0 .. Len(agent.log[p])
  BY LogLength DEF Paths
<1>4. \A e \in ToSet(EventsOf[agent][p]) : ~(e.line <= 0)
  <2>1. p \in DOMAIN agent.log
    BY DEF Paths
  <2>2. \A e \in ToSet(EventsOf[agent][p]) : e.line \in 1 .. Len(agent.log[p])
    BY <2>1, Transcript
  <2> QED BY <2>1, <2>2, LogLength
<1> HIDE DEF s
<1>5. Stands(agent, p, s, known)
  BY <1>1, <1>2, <1>3, <1>4 DEF Stands
<1> QED BY <1>5 DEF s

\* A step of one observer only.
LEMMA OneObserver ==
  ASSUME IInv, NEW p \in Paths, NEW o, obs' = [obs EXCEPT ![p] = o],
         Observes(agent, p, o, queue, stored), UNCHANGED <<agent, file, saved, queue, stored>>
  PROVE  IInv'
<1>1. /\ obs' = [x \in DOMAIN agent.log |-> obs'[x]]
      /\ \A x \in DOMAIN agent.log : obs'[x] = IF x = p THEN o ELSE obs[x]
  BY DEF IInv, Good, Paths
<1>2. \A x \in DOMAIN agent.log : Observes(agent, x, obs'[x], queue, stored)
  BY <1>1 DEF IInv, Good
<1>3. Good(agent, file, obs', saved, queue, stored)
  BY <1>1, <1>2 DEF IInv, Good
<1> QED BY <1>3 DEF IInv

LEMMA Rests ==
  ASSUME IInv, NEW p \in Paths, GiveUp(p), UNCHANGED <<agent, file, saved, queue, stored>>
  PROVE  IInv'
<1>1. Observes(agent, p, obs[p], queue, stored)
  BY DEF IInv, Good, Paths
<1>2. Observes(agent, p, [Resting EXCEPT !.state = obs[p].state], queue, stored)
  BY <1>1, AtRest DEF Observes
<1> QED BY <1>2, OneObserver DEF GiveUp

\* An observer whose place and, maybe, state change: nothing is read yet.
LEMMA MovesOn ==
  ASSUME IInv, NEW p \in Paths, obs[p].pc \notin {"write", "wait", "save"}, NEW o,
         Shape(o), o.todo = obs[p].todo, o.pc \in {"stat", "tail", "retail", "read"}, o.stat.size \in Nat,
         Stands(agent, p, o.state, stored),
         obs' = [obs EXCEPT ![p] = o], UNCHANGED <<agent, file, saved, queue, stored>>
  PROVE  IInv'
<1>1. Observes(agent, p, obs[p], queue, stored)
  BY DEF IInv, Good, Paths
<1>2. Observes(agent, p, o, queue, stored)
  BY <1>1 DEF Observes
<1> QED BY <1>2, OneObserver

\* What the invariant says of one observer and its transcript.
LEMMA Observer ==
  ASSUME IInv, NEW p \in Paths
  PROVE  /\ agent \in Agents /\ p \in DOMAIN agent.log /\ Observes(agent, p, obs[p], queue, stored)
         /\ file[p] \in FileType /\ file[p].n <= Len(agent.log[p])
         /\ saved[p] # NoState => Stands(agent, p, saved[p], stored)
         /\ obs = [x \in Paths |-> obs[x]] /\ saved = [x \in Paths |-> saved[x]]
BY DEF IInv, Good, Paths

LEMMA ObserverFields ==
  ASSUME IInv, NEW p \in Paths
  PROVE  Shape(obs[p]) /\ obs[p].stat.size \in Nat
BY Observer DEF Observes

\* An observer with another place and state, stat result or time, and one with
\* events to write.
WithState(r, place, state) == [r EXCEPT !.state = state, !.pc = place]
WithStat(r, place, stat) == [r EXCEPT !.pc = place, !.stat = stat]
WithTime(r, place, mtime) == [r EXCEPT !.pc = place, !.mtime = mtime]
WithTodo(r, place, todo) == [r EXCEPT !.todo = todo, !.pc = place]
WithPlace(r, place) == [r EXCEPT !.pc = place]
WithEvents(state, todo, next, place) ==
    [Resting EXCEPT !.state = state, !.todo = todo, !.next = next, !.pc = place]

LEMMA StateFields ==
  ASSUME NEW r, Shape(r), NEW place, NEW state
  PROVE  LET o == WithState(r, place, state)
         IN  Shape(o) /\ o.pc = place /\ o.state = state /\ o.stat = r.stat /\ o.todo = r.todo
<1>1. ASSUME NEW o, o = WithState(r, place, state)
      PROVE  Shape(o) /\ o.pc = place /\ o.state = state /\ o.stat = r.stat /\ o.todo = r.todo
  BY <1>1 DEF Shape, WithState
<1> QED BY <1>1

LEMMA StatFields ==
  ASSUME NEW r, Shape(r), NEW place, NEW stat
  PROVE  LET o == WithStat(r, place, stat)
         IN  Shape(o) /\ o.pc = place /\ o.state = r.state /\ o.stat = stat /\ o.todo = r.todo
<1>1. ASSUME NEW o, o = WithStat(r, place, stat)
      PROVE  Shape(o) /\ o.pc = place /\ o.state = r.state /\ o.stat = stat /\ o.todo = r.todo
  BY <1>1 DEF Shape, WithStat
<1> QED BY <1>1

LEMMA TimeFields ==
  ASSUME NEW r, Shape(r), NEW place, NEW mtime
  PROVE  LET o == WithTime(r, place, mtime)
         IN  Shape(o) /\ o.pc = place /\ o.state = r.state /\ o.stat = r.stat /\ o.todo = r.todo
<1>1. ASSUME NEW o, o = WithTime(r, place, mtime)
      PROVE  Shape(o) /\ o.pc = place /\ o.state = r.state /\ o.stat = r.stat /\ o.todo = r.todo
  BY <1>1 DEF Shape, WithTime
<1> QED BY <1>1

LEMMA TodoFields ==
  ASSUME NEW r, Shape(r), NEW place, NEW todo
  PROVE  LET o == WithTodo(r, place, todo)
         IN  /\ Shape(o) /\ o.pc = place /\ o.state = r.state /\ o.stat = r.stat
             /\ o.todo = todo /\ o.next = r.next
<1>1. ASSUME NEW o, o = WithTodo(r, place, todo)
      PROVE  /\ Shape(o) /\ o.pc = place /\ o.state = r.state /\ o.stat = r.stat
             /\ o.todo = todo /\ o.next = r.next
  BY <1>1 DEF Shape, WithTodo
<1> QED BY <1>1

LEMMA PlaceFields ==
  ASSUME NEW r, Shape(r), NEW place
  PROVE  LET o == WithPlace(r, place)
         IN  /\ Shape(o) /\ o.pc = place /\ o.state = r.state /\ o.stat = r.stat
             /\ o.todo = r.todo /\ o.next = r.next
<1>1. ASSUME NEW o, o = WithPlace(r, place)
      PROVE  /\ Shape(o) /\ o.pc = place /\ o.state = r.state /\ o.stat = r.stat
             /\ o.todo = r.todo /\ o.next = r.next
  BY <1>1 DEF Shape, WithPlace
<1> QED BY <1>1

LEMMA EventFields ==
  ASSUME NEW state, NEW todo, NEW next, NEW place
  PROVE  LET o == WithEvents(state, todo, next, place)
         IN  /\ Shape(o) /\ o.pc = place /\ o.state = state /\ o.stat.size = 0
             /\ o.todo = todo /\ o.next = next
<1>1. ASSUME NEW o, o = WithEvents(state, todo, next, place)
      PROVE  Shape(o) /\ o.pc = place /\ o.state = state /\ o.stat.size = 0 /\ o.todo = todo /\ o.next = next
  BY <1>1 DEF Shape, WithEvents, Resting
<1> QED BY <1>1

LEMMA StatSize == ASSUME NEW f \in FileType PROVE Stat(f).size \in Nat
BY DEF FileType, Stat, Size

LEMMA KeptByEnsureState == ASSUME IInv, NEW p \in Paths, EnsureState(p) PROVE IInv'
<1> DEFINE found == IF obs[p].state # NoState THEN obs[p].state
                    ELSE IF saved[p] # NoState /\ saved[p].id = file[p].id THEN saved[p]
                    ELSE FreshState(file[p].id, file[p].mtime)
           o == WithState(obs[p], "stat", found)
<1>1. obs[p].pc = "idle" /\ UNCHANGED <<agent, file, saved, queue, stored>>
      /\ (UNCHANGED obs \/ obs' = [obs EXCEPT ![p].state = found, ![p].pc = "stat"])
  BY DEF EnsureState, Unseen
<1>2. Stands(agent, p, found, stored)
  <2>1. obs[p].state # NoState => Stands(agent, p, obs[p].state, stored)
    BY Observer DEF Observes
  <2>2. saved[p] # NoState => Stands(agent, p, saved[p], stored)
    BY Observer
  <2>3. Stands(agent, p, FreshState(file[p].id, file[p].mtime), stored)
    BY Observer, StandsFresh
  <2> QED BY <2>1, <2>2, <2>3
<1> HIDE DEF found
<1>3. CASE UNCHANGED obs
  BY <1>1, <1>3 DEF IInv
<1>4. CASE obs' = [obs EXCEPT ![p].state = found, ![p].pc = "stat"]
  <2>1. obs' = [obs EXCEPT ![p] = o]
    BY <1>4, Observer DEF WithState
  <2>2. /\ Shape(o) /\ o.todo = obs[p].todo
        /\ o.pc = "stat" /\ o.state = found /\ o.stat.size \in Nat
    BY ObserverFields, StateFields
  <2> HIDE DEF o
  <2> QED BY <1>1, <1>2, <2>1, <2>2, MovesOn
<1> QED BY <1>1, <1>3, <1>4

LEMMA KeptByStat == ASSUME IInv, NEW p \in Paths, StatForCursor(p) \/ TailAgain(p) PROVE IInv'
<1>1. UNCHANGED <<agent, file, saved, queue, stored>> /\ Stands(agent, p, obs[p].state, stored)
  BY Observer DEF StatForCursor, TailAgain, Unseen, Observes
<1>2. CASE StatForCursor(p)
  <2> DEFINE o == WithTime(obs[p], "tail", file[p].mtime)
  <2>1. obs[p].pc = "stat" /\ obs' = [obs EXCEPT ![p] = o]
    BY <1>2, Observer DEF StatForCursor, WithTime
  <2>2. /\ Shape(o) /\ o.todo = obs[p].todo
        /\ o.pc = "tail" /\ o.state = obs[p].state /\ o.stat.size \in Nat
    BY ObserverFields, TimeFields
  <2> HIDE DEF o
  <2> QED BY <1>1, <2>1, <2>2, MovesOn
<1>3. CASE TailAgain(p)
  <2> DEFINE o == WithStat(obs[p], "read", Stat(file[p]))
  <2>1. obs[p].pc = "retail" /\ obs' = [obs EXCEPT ![p] = o]
    BY <1>3, Observer DEF TailAgain, WithStat
  <2>2. Stat(file[p]).size \in Nat
    BY Observer, StatSize
  <2>3. /\ Shape(o) /\ o.todo = obs[p].todo
        /\ o.pc = "read" /\ o.state = obs[p].state /\ o.stat.size \in Nat
    BY <2>2, ObserverFields, StatFields
  <2> HIDE DEF o
  <2> QED BY <1>1, <2>1, <2>3, MovesOn
<1> QED BY <1>2, <1>3

LEMMA KeptByTailStat == ASSUME IInv, NEW p \in Paths, TailStat(p) PROVE IInv'
<1> DEFINE stat == Stat(file[p])
           fresh == FreshState(stat.id, stat.mtime)
           o == WithStat(obs[p], "read", stat)
           again == WithState(obs[p], "retail", fresh)
<1>1. /\ obs[p].pc = "tail" /\ UNCHANGED <<agent, file, saved, queue, stored>>
      /\ \/ obs' = [obs EXCEPT ![p].pc = "read", ![p].stat = stat]
         \/ obs' = [obs EXCEPT ![p].pc = "retail", ![p].state = fresh]
         \/ GiveUp(p)
  BY DEF TailStat, Unseen
<1>2. stat.size \in Nat /\ Stands(agent, p, fresh, stored) /\ Stands(agent, p, obs[p].state, stored)
  BY <1>1, Observer, StatSize, StandsFresh DEF Observes
<1> HIDE DEF stat, fresh
<1>3. CASE obs' = [obs EXCEPT ![p].pc = "read", ![p].stat = stat]
  <2>1. obs' = [obs EXCEPT ![p] = o]
    BY <1>3, Observer DEF WithStat
  <2>2. /\ Shape(o) /\ o.todo = obs[p].todo
        /\ o.pc = "read" /\ o.state = obs[p].state /\ o.stat.size \in Nat
    BY <1>2, ObserverFields, StatFields
  <2> HIDE DEF o
  <2> QED BY <1>1, <1>2, <2>1, <2>2, MovesOn
<1>4. CASE obs' = [obs EXCEPT ![p].pc = "retail", ![p].state = fresh]
  <2>1. obs' = [obs EXCEPT ![p] = again]
    BY <1>4, Observer DEF WithState
  <2>2. /\ Shape(again) /\ again.todo = obs[p].todo
        /\ again.pc = "retail" /\ again.state = fresh /\ again.stat.size \in Nat
    BY ObserverFields, StateFields
  <2> HIDE DEF again
  <2> QED BY <1>1, <1>2, <2>1, <2>2, MovesOn
<1>5. CASE GiveUp(p)
  BY <1>1, <1>5, Rests
<1> QED BY <1>1, <1>3, <1>4, <1>5

\* What is read is what is left of the events up to the last complete line.
LEMMA KeptByTailRead == ASSUME IInv, NEW p \in Paths, TailRead(p) PROVE IInv'
<1> DEFINE first == obs[p].state.lines
           last == LastLine(first, obs[p].stat, file[p])
           mapped == MapLines(p, obs[p].state.mapping, first, last)
           next == [id |-> obs[p].stat.id, lines |-> last, mtime |-> obs[p].stat.mtime,
                    mapping |-> mapped.mapping]
           place == IF mapped.events = <<>> THEN "save" ELSE "write"
           o == WithEvents(obs[p].state, mapped.events, next, place)
<1>1. obs[p].pc = "read" /\ UNCHANGED <<agent, file, saved, queue, stored>>
  BY DEF TailRead, Unseen
<1>2. CASE last = first /\ GiveUp(p)
  BY <1>1, <1>2, Rests
<1>3. CASE last > first /\ obs' = [obs EXCEPT ![p] = o]
  <2>1. Stands(agent, p, obs[p].state, stored) /\ obs[p].stat.size \in Nat
    BY <1>1, Observer DEF Observes
  <2>2. first \in 0 .. Len(agent.log[p]) /\ obs[p].state.mapping = FirstLines(agent, p, first).mapping
        /\ \A e \in ToSet(EventsOf[agent][p]) : e.line <= first => e \in stored
    BY <2>1 DEF Stands
  <2>3. agent \in Agents /\ p \in DOMAIN agent.log /\ Len(agent.log[p]) \in Nat
    BY Observer, LogLength
  <2>4. last \in first .. Len(agent.log[p])
    <3>1. file[p].n \in Nat /\ file[p].partial \in BOOLEAN /\ file[p].n <= Len(agent.log[p])
      BY Observer DEF FileType
    <3>2. first \in Nat /\ last > first
      BY <1>3, <2>2, <2>3
    <3>3. last \in first .. file[p].n
      <4> HIDE DEF first
      <4>1. first < last => last \in first .. file[p].n
        BY <2>1, <3>1, <3>2, LastLineRead
      <4>2. last \in Nat => (last > first => first < last)
        BY <3>2
      <4> QED BY <1>3, <4>1
    <3> QED BY <2>3, <3>1, <3>2, <3>3
  <2>5. /\ mapped.mapping = FirstLines(agent, p, last).mapping
        /\ mapped.events \in Seq(ToSet(EventsOf[agent][p]))
        /\ \A e \in ToSet(EventsOf[agent][p]) : e.line <= last => e.line <= first \/ e \in ToSet(mapped.events)
    <3>1. mapped = MapLinesOf(agent, p, FirstLines(agent, p, first).mapping, first, last)
      BY <2>2 DEF MapLines
    <3> HIDE DEF mapped, first, last
    <3> QED BY <2>2, <2>3, <2>4, <3>1, ReadEvents
  <2> HIDE DEF first, last, mapped
  <2>7. next.lines = last /\ next.mapping = mapped.mapping
    OBVIOUS
  <2> HIDE DEF next, place
  <2>6. /\ Shape(o) /\ o.pc = place /\ o.state = obs[p].state
        /\ o.todo = mapped.events /\ o.next = next /\ o.stat.size = 0
    BY EventFields
  <2> HIDE DEF o
  <2>8. last \in 0 .. Len(agent.log[p])
    BY <2>2, <2>3, <2>4
  <2>9. Stands(agent, p, next, stored \cup ToSet(queue) \cup ToSet(mapped.events))
    BY <2>2, <2>5, <2>7, <2>8 DEF Stands
  <2>10. mapped.events = <<>> => Stands(agent, p, next, stored)
    <3>1. mapped.events = <<>> => ToSet(mapped.events) = {}
      BY NoElements
    <3> QED BY <2>2, <2>5, <2>7, <2>8, <3>1 DEF Stands
  <2>11. Observes(agent, p, o, queue, stored)
    BY <2>1, <2>5, <2>6, <2>9, <2>10 DEF Observes, place
  <2> QED BY <1>1, <1>3, <2>11, OneObserver
<1> QED BY <1>2, <1>3 DEF TailRead, WithEvents

\* What changes the sink but forgets no event that is not stored, changes no
\* observer's claim.
LEMMA SinkChanges ==
  ASSUME IInv, stored \subseteq stored', ToSet(queue) \subseteq ToSet(queue)' \cup stored',
         queue' \in Seq(Events),
         \A e \in ToSet(queue)' \cup stored' : e.path \in Paths /\ e \in ToSet(AllEvents(e.path)),
         UNCHANGED <<agent, file, obs, saved>>
  PROVE  IInv'
<1>1. \A x \in DOMAIN agent.log : Observes(agent, x, obs[x], queue', stored')
  BY ObservesStill DEF IInv, Good
<1>2. \A x \in DOMAIN agent.log : saved[x] # NoState => Stands(agent, x, saved[x], stored')
  BY StandsStill DEF IInv, Good
<1>3. Good(agent, file, obs, saved, queue', stored')
  BY <1>1, <1>2 DEF IInv, Good, Paths, AllEvents
<1> QED BY <1>3 DEF IInv

LEMMA KeptByStore == ASSUME IInv, SinkStores PROVE IInv'
<1>1. PICK i \in DOMAIN queue : stored' = stored \cup {queue[i]} /\ UNCHANGED queue
  BY DEF SinkStores, Sink!Store
<1>2. queue[i] \in ToSet(queue)
  BY DEF ToSet
<1>3. UNCHANGED <<agent, file, obs, saved>>
  BY DEF SinkStores
<1>4. queue' \in Seq(Events) /\ ToSet(queue)' = ToSet(queue)
  BY <1>1 DEF IInv, Good
<1>5. \A e \in ToSet(queue)' \cup stored' : e.path \in Paths /\ e \in ToSet(AllEvents(e.path))
  BY <1>1, <1>2, <1>4 DEF IInv, Good, Paths, AllEvents
<1> QED BY <1>1, <1>3, <1>4, <1>5, SinkChanges

LEMMA KeptByAcknowledge == ASSUME IInv, SinkAcknowledges PROVE IInv'
<1>1. PICK n \in 1 .. Len(queue) :
         /\ \A i \in 1 .. n : queue[i] \in stored
         /\ queue' = SubSeq(queue, n + 1, Len(queue)) /\ UNCHANGED stored
  BY DEF SinkAcknowledges, Sink!Acknowledge
<1>2. queue \in Seq(Events) /\ Len(queue) \in Nat /\ n \in Nat
  BY DEF IInv, Good
<1>3. /\ queue' \in Seq(Events) /\ Len(queue') = Len(queue) - n
      /\ \A i \in 1 .. Len(queue) - n : queue'[i] = queue[n + i]
  BY <1>1, <1>2
<1>4. ToSet(queue) = {queue[i] : i \in 1 .. Len(queue)}
  BY <1>2, Elements
<1>5. ToSet(queue)' = {queue'[i] : i \in 1 .. Len(queue) - n}
  <2>1. ToSet(queue') = {queue'[i] : i \in 1 .. Len(queue')}
    BY <1>3, Elements
  <2> QED BY <1>3, <2>1
<1>6. \A i \in 1 .. Len(queue) : i <= n \/ (i - n \in 1 .. Len(queue) - n /\ queue'[i - n] = queue[i])
  BY <1>2, <1>3
<1>7. \A i \in 1 .. Len(queue) - n : n + i \in 1 .. Len(queue)
  BY <1>2
<1>8. ToSet(queue) \subseteq ToSet(queue)' \cup stored' /\ ToSet(queue)' \subseteq ToSet(queue)
  <2>1. ASSUME NEW e \in ToSet(queue) PROVE e \in ToSet(queue)' \cup stored'
    <3>1. PICK i \in 1 .. Len(queue) : e = queue[i]
      BY <1>4
    <3>2. CASE i <= n
      <4>1. i \in 1 .. n
        BY <1>2, <3>1, <3>2
      <4> QED BY <1>1, <3>1, <4>1
    <3>3. CASE ~(i <= n)
      <4>1. i - n \in 1 .. Len(queue) - n /\ queue'[i - n] = queue[i]
        BY <1>6, <3>1, <3>3
      <4> QED BY <1>5, <3>1, <4>1
    <3> QED BY <3>2, <3>3
  <2>2. ASSUME NEW e \in ToSet(queue)' PROVE e \in ToSet(queue)
    <3>1. PICK i \in 1 .. Len(queue) - n : e = queue'[i]
      BY <1>5, <2>2
    <3> QED BY <1>3, <1>4, <1>7, <3>1
  <2> QED BY <2>1, <2>2
<1>9. UNCHANGED <<agent, file, obs, saved>>
  BY DEF SinkAcknowledges
<1>10. \A e \in ToSet(queue)' \cup stored' : e.path \in Paths /\ e \in ToSet(AllEvents(e.path))
  BY <1>1, <1>8, <1>9 DEF IInv, Good, Paths, AllEvents
<1> QED BY <1>1, <1>3, <1>8, <1>9, <1>10, SinkChanges

LEMMA KeptByWrite == ASSUME IInv, NEW p \in Paths, WriteEvent(p) PROVE IInv'
<1> DEFINE todo == obs[p].todo
           place == IF Len(todo) = 1 THEN "wait" ELSE "write"
           o == WithTodo(obs[p], place, Tail(todo))
<1>1. CASE GiveUp(p) /\ UNCHANGED <<queue, stored>>
  BY <1>1, Rests DEF WriteEvent
<1>2. CASE ~(GiveUp(p) /\ UNCHANGED <<queue, stored>>)
  <2>1. /\ obs[p].pc = "write" /\ queue' = Append(queue, Head(todo)) /\ stored' = stored
        /\ obs' = [obs EXCEPT ![p].todo = Tail(@), ![p].pc = place]
        /\ UNCHANGED <<agent, file, saved>>
    BY <1>2 DEF WriteEvent, Sink!Write
  <2>2. /\ todo \in Seq(ToSet(EventsOf[agent][p])) /\ todo # <<>> /\ Shape(obs[p])
        /\ obs[p].stat.size \in Nat /\ Stands(agent, p, obs[p].state, stored)
        /\ Stands(agent, p, obs[p].next, stored \cup ToSet(queue) \cup ToSet(todo))
    BY <2>1, Observer DEF Observes
  <2>3. /\ Head(todo) \in ToSet(EventsOf[agent][p]) /\ Tail(todo) \in Seq(ToSet(EventsOf[agent][p]))
        /\ ToSet(todo) = {Head(todo)} \cup ToSet(Tail(todo))
        /\ Tail(todo) = <<>> <=> Len(todo) = 1
    BY <2>2, FirstElement
  <2>4. Head(todo) \in Events /\ Head(todo).path = p
    BY <2>3, Observer, Transcript
  <2>5. queue' \in Seq(Events) /\ ToSet(queue') = ToSet(queue) \cup {Head(todo)}
    <3> DEFINE e == Head(todo)
    <3>1. queue \in Seq(Events) /\ e \in Events /\ queue' = Append(queue, e)
      BY <2>1, <2>4 DEF IInv, Good
    <3> HIDE DEF e
    <3> QED BY <3>1, AppendedElements DEF e
  <2>6. obs' = [obs EXCEPT ![p] = o]
    <3> HIDE DEF place
    <3> QED BY <2>1, Observer DEF WithTodo
  <2>7. /\ Shape(o) /\ o.pc = place /\ o.state = obs[p].state /\ o.next = obs[p].next
        /\ o.todo = Tail(todo) /\ o.stat = obs[p].stat
    <3>1. Shape(obs[p])
      BY <2>2
    <3>2. ASSUME NEW at, NEW rest
          PROVE  /\ Shape(WithTodo(obs[p], at, rest)) /\ WithTodo(obs[p], at, rest).pc = at
                 /\ WithTodo(obs[p], at, rest).state = obs[p].state
                 /\ WithTodo(obs[p], at, rest).next = obs[p].next
                 /\ WithTodo(obs[p], at, rest).todo = rest
                 /\ WithTodo(obs[p], at, rest).stat = obs[p].stat
      BY <3>1, TodoFields
    <3> HIDE DEF todo
    <3> DEFINE rest == Tail(todo)
    <3>3. o = WithTodo(obs[p], place, rest)
      OBVIOUS
    <3> HIDE DEF place, o, rest
    <3>4. /\ Shape(o) /\ o.pc = place /\ o.state = obs[p].state /\ o.next = obs[p].next
          /\ o.todo = rest /\ o.stat = obs[p].stat
      BY <3>2, <3>3
    <3> QED BY <3>4 DEF rest
  <2> HIDE DEF o
  <2>8. /\ place \in {"wait", "write"}
        /\ place = "wait" => Tail(todo) = <<>>
        /\ place = "write" => Tail(todo) # <<>>
    BY <2>3
  <2> HIDE DEF place, todo
  <2>9. Stands(agent, p, o.next, stored' \cup ToSet(queue') \cup ToSet(o.todo))
    <3>1. stored \cup ToSet(queue) \cup ToSet(todo) = stored' \cup ToSet(queue') \cup ToSet(o.todo)
      BY <2>1, <2>3, <2>5, <2>7
    <3> QED BY <2>2, <2>7, <3>1
  <2>10. Observes(agent, p, o, queue', stored')
    BY <2>1, <2>2, <2>3, <2>7, <2>8, <2>9 DEF Observes
  <2>11. \A x \in DOMAIN agent.log : obs'[x] = IF x = p THEN o ELSE obs[x]
    BY <2>6 DEF IInv, Good
  <2>12. \A x \in DOMAIN agent.log : Observes(agent, x, obs'[x], queue', stored')
    <3>1. \A x \in DOMAIN agent.log : Observes(agent, x, obs[x], queue', stored')
      BY <2>1, <2>5, ObservesStill DEF IInv, Good
    <3> QED BY <2>10, <2>11, <3>1
  <2>13. obs' = [x \in DOMAIN agent.log |-> obs'[x]]
    BY <2>6 DEF IInv, Good
  <2>14. \A e \in ToSet(queue') \cup stored' : e.path \in DOMAIN agent.log /\ e \in ToSet(EventsOf[agent][e.path])
    BY <2>1, <2>3, <2>4, <2>5 DEF IInv, Good, Paths
  <2>15. Good(agent, file, obs', saved, queue', stored')
    BY <2>1, <2>5, <2>12, <2>13, <2>14 DEF IInv, Good
  <2> QED BY <2>1, <2>15 DEF IInv
<1> QED BY <1>1, <1>2

\* An empty queue: what has been written is durable.
LEMMA KeptByWaiting == ASSUME IInv, NEW p \in Paths, Acknowledged(p) \/ TimesOut(p) PROVE IInv'
<1>1. CASE Acknowledged(p)
  <2> DEFINE o == WithPlace(obs[p], "save")
  <2>1. /\ obs[p].pc = "wait" /\ queue = <<>> /\ UNCHANGED <<agent, file, saved, queue, stored>>
        /\ obs' = [obs EXCEPT ![p] = o]
    BY <1>1, Observer DEF Acknowledged, Unseen, WithPlace
  <2>2. /\ Shape(o) /\ o.pc = "save" /\ o.state = obs[p].state /\ o.next = obs[p].next
        /\ o.todo = obs[p].todo /\ o.stat = obs[p].stat
    BY ObserverFields, PlaceFields
  <2> HIDE DEF o
  <2>3. Stands(agent, p, obs[p].next, stored)
    <3>1. /\ obs[p].todo = <<>>
          /\ Stands(agent, p, obs[p].next, stored \cup ToSet(queue) \cup ToSet(obs[p].todo))
      BY <2>1, Observer DEF Observes
    <3>2. ToSet(queue) = {} /\ ToSet(obs[p].todo) = {}
      BY <2>1, <3>1, NoElements
    <3> QED BY <3>1, <3>2, StandsStill
  <2>4. Observes(agent, p, o, queue, stored)
    BY <2>1, <2>2, <2>3, Observer DEF Observes
  <2> QED BY <2>1, <2>4, OneObserver
<1>2. CASE TimesOut(p)
  BY <1>2, Rests DEF TimesOut
<1> QED BY <1>1, <1>2

LEMMA KeptBySave == ASSUME IInv, NEW p \in Paths, SaveState(p) PROVE IInv'
<1> DEFINE next == obs[p].next
           o == [Resting EXCEPT !.state = next]
<1>1. /\ obs[p].pc = "save" /\ saved' = [saved EXCEPT ![p] = next] /\ obs' = [obs EXCEPT ![p] = o]
      /\ UNCHANGED <<agent, file, queue, stored>>
  BY DEF SaveState
<1>2. Stands(agent, p, next, stored)
  BY <1>1, Observer DEF Observes
<1>3. Observes(agent, p, o, queue, stored)
  BY <1>2, AtRest
<1> HIDE DEF next, o
<1>4. \A x \in DOMAIN agent.log : Observes(agent, x, obs'[x], queue, stored)
  BY <1>1, <1>3 DEF IInv, Good
<1>5. \A x \in DOMAIN agent.log : saved'[x] # NoState => Stands(agent, x, saved'[x], stored)
  BY <1>1, <1>2 DEF IInv, Good
<1>6. obs' = [x \in DOMAIN agent.log |-> obs'[x]] /\ saved' = [x \in DOMAIN agent.log |-> saved'[x]]
  BY <1>1 DEF IInv, Good
<1>7. Good(agent, file, obs', saved', queue, stored)
  BY <1>4, <1>5, <1>6 DEF IInv, Good
<1> QED BY <1>1, <1>7 DEF IInv

LEMMA KeptByCrash == ASSUME IInv, Crash PROVE IInv'
<1>1. /\ obs' = [p \in Paths |-> Resting] /\ queue' = <<>> /\ UNCHANGED <<agent, file, saved, stored>>
  BY DEF Crash
<1>2. \A x : Observes(agent, x, Resting, queue', stored)
  <2>1. [Resting EXCEPT !.state = NoState] = Resting
    BY DEF Resting
  <2>2. ASSUME NEW x PROVE Observes(agent, x, [Resting EXCEPT !.state = NoState], queue', stored)
    BY AtRest
  <2> QED BY <2>1, <2>2
<1>3. queue' \in Seq(Events) /\ ToSet(queue') = {}
  BY <1>1, NoElements
<1>4. Good(agent, file, obs', saved, queue', stored)
  BY <1>1, <1>2, <1>3 DEF IInv, Good, Paths
<1> QED BY <1>1, <1>4 DEF IInv

\* Whatever the agent does to a transcript, its lines are the first ones of the log.
LEMMA KeptByEdit ==
  ASSUME IInv, NEW p \in Paths, NEW new \in FileType, new.n <= Len(agent.log[p]),
         Edit(p, new) PROVE IInv'
<1>1. PICK tick \in {0, 1} : file' = [file EXCEPT ![p] = [new EXCEPT !.mtime = @ + tick]]
  BY DEF Edit
<1>2. UNCHANGED <<agent, obs, saved, queue, stored>>
  BY DEF Edit
<1>3. \A m \in Nat : [new EXCEPT !.mtime = m] \in FileType /\ [new EXCEPT !.mtime = m].n = new.n
  BY DEF FileType
<1>4. new.mtime + tick \in Nat
  BY DEF FileType
<1>5. file' \in [DOMAIN agent.log -> FileType] /\ \A x \in DOMAIN agent.log : file'[x].n <= Len(agent.log[x])
  BY <1>1, <1>3, <1>4 DEF IInv, Good
<1>6. Good(agent, file', obs, saved, queue, stored)
  BY <1>5 DEF IInv, Good
<1> QED BY <1>2, <1>6 DEF IInv

LEMMA KeptByAgent == ASSUME IInv, NEW p \in Paths, AppendLine(p) \/ Rewrite(p) PROVE IInv'
<1>1. file[p] \in FileType /\ file[p].n <= Len(agent.log[p]) /\ Len(agent.log[p]) \in Nat
  BY Observer, LogLength
<1>2. CASE AppendLine(p)
  <2>1. [file[p] EXCEPT !.n = @ + 1, !.partial = FALSE] \in FileType
        /\ [file[p] EXCEPT !.n = @ + 1, !.partial = FALSE].n = file[p].n + 1
    <3>1. ASSUME NEW f \in FileType
          PROVE  [f EXCEPT !.n = @ + 1, !.partial = FALSE] \in FileType
                 /\ [f EXCEPT !.n = @ + 1, !.partial = FALSE].n = f.n + 1
      <4>1. f.n + 1 \in Nat
        BY DEF FileType
      <4> QED BY <4>1 DEF FileType
    <3> QED BY <1>1, <3>1
  <2>2. [file[p] EXCEPT !.partial = TRUE] \in FileType /\ [file[p] EXCEPT !.partial = TRUE].n = file[p].n
    BY <1>1 DEF FileType
  <2>3. file[p].n + 1 <= Len(agent.log[p])
    BY <1>1, <1>2 DEF AppendLine, FileType
  <2> QED BY <1>1, <1>2, <2>1, <2>2, <2>3, KeptByEdit DEF AppendLine
<1>3. CASE Rewrite(p)
  <2>1. PICK m \in 0 .. file[p].n, id \in {file[p].id, file[p].id + 1} :
           Edit(p, [file[p] EXCEPT !.n = m, !.partial = FALSE, !.id = id])
    BY <1>3 DEF Rewrite
  <2> DEFINE new == [file[p] EXCEPT !.n = m, !.partial = FALSE, !.id = id]
  <2>2. m \in Nat /\ id \in Nat /\ m <= Len(agent.log[p])
    BY <1>1 DEF FileType
  <2>3. new \in FileType /\ new.n = m
    BY <1>1, <2>2 DEF FileType
  <2> HIDE DEF new
  <2> QED BY <2>1, <2>2, <2>3, KeptByEdit DEF new
<1> QED BY <1>2, <1>3

-----------------------------------------------------------------------------
LEMMA InitInvariant == Init => IInv
<1> SUFFICES ASSUME Init PROVE IInv
  OBVIOUS
<1>1. /\ agent \in Agents /\ obs = [p \in Paths |-> Resting] /\ saved = [p \in Paths |-> NoState]
      /\ file = [p \in Paths |-> [id |-> 0, n |-> 0, partial |-> FALSE, mtime |-> 0]]
      /\ queue = <<>> /\ stored = {}
  BY DEF Init, Sink!Init
<1>2. \A x : Observes(agent, x, Resting, queue, stored)
  <2>1. [Resting EXCEPT !.state = NoState] = Resting
    BY DEF Resting
  <2>2. ASSUME NEW x PROVE Observes(agent, x, [Resting EXCEPT !.state = NoState], queue, stored)
    BY AtRest
  <2> QED BY <2>1, <2>2
<1>3. queue \in Seq(Events) /\ ToSet(queue) = {}
  BY <1>1, NoElements
<1>4. file \in [DOMAIN agent.log -> FileType] /\ \A p \in DOMAIN agent.log : file[p].n <= Len(agent.log[p])
  BY <1>1, LogLength DEF FileType, Paths
<1> QED BY <1>1, <1>2, <1>3, <1>4 DEF IInv, Good, Paths

LEMMA NextInvariant == IInv /\ [Next]_vars => IInv'
<1> SUFFICES ASSUME IInv, [Next]_vars PROVE IInv'
  OBVIOUS
<1>1. CASE UNCHANGED vars
  BY <1>1 DEF vars, IInv
<1>2. ASSUME NEW p \in Paths, Scan(p) PROVE IInv'
  BY <1>2, KeptByEnsureState, KeptByStat, KeptByTailStat, KeptByTailRead, KeptByWrite, KeptBySave DEF Scan
<1>3. ASSUME NEW p \in Paths, Acknowledged(p) \/ TimesOut(p) PROVE IInv'
  BY <1>3, KeptByWaiting
<1>4. ASSUME NEW p \in Paths, AppendLine(p) \/ Rewrite(p) PROVE IInv'
  BY <1>4, KeptByAgent
<1>5. CASE SinkStores \/ SinkAcknowledges \/ Crash
  BY <1>5, KeptByStore, KeptByAcknowledge, KeptByCrash
<1> QED BY <1>1, <1>2, <1>3, <1>4, <1>5 DEF Next

\* Every observer, in memory or committed, stands for the first lines of its
\* transcript, and what it has behind it is durable.
THEOREM Invariant == Spec => []IInv
<1>1. Init => IInv BY InitInvariant
<1>2. IInv /\ [Next]_vars => IInv' BY NextInvariant
<1> QED BY <1>1, <1>2, PTL DEF Spec

\* A committed cursor never passes an event that is not durable: saveState
\* comes after whenIdle, and what was read is what the cursor moves over.
THEOREM CursorsStayBehind == Spec => []CursorBehindStored
<1>1. IInv => CursorBehindStored
  BY DEF IInv, Good, Stands, CursorBehindStored, Paths, AllEvents
<1> QED BY <1>1, Invariant, PTL

\* Lines that are read again give the events that they gave before: the state
\* that they are mapped from is the one that the lines before them leave.
THEOREM RereadsAgree == Spec => []RereadGivesTheSame
<1>1. IInv => RereadGivesTheSame
  BY DEF IInv, Good, RereadGivesTheSame, Paths, AllEvents
<1> QED BY <1>1, Invariant, PTL

\* What an Antigravity observer commits waits for the calls that are durably
\* announced and not durably finished: the state that is saved with the cursor
\* is the one that the lines before it leave, and these lines' events are
\* durable.
THEOREM WaitingCallsSurvive == Spec => []WaitingCallsAreCommitted
<1>1. IInv => WaitingCallsAreCommitted
  <2> SUFFICES ASSUME IInv, NEW p \in Committed
               PROVE  ToSet(saved[p].mapping.pending) = Refs(p, "tool.started") \ Refs(p, "tool.finished")
    BY DEF WaitingCallsAreCommitted
  <2> DEFINE g == agent
             n == saved[p].lines
             events == FirstLines(g, p, n).events
             bodies == {e.body : e \in ToSet(events)}
  <2>1. g \in Agents /\ g.runtime = "antigravity" /\ p \in DOMAIN g.log /\ Stands(g, p, saved[p], stored)
    BY DEF IInv, Good, Committed, Paths
  <2>2. n \in 0 .. Len(g.log[p]) /\ saved[p].mapping = FirstLines(g, p, n).mapping
    BY <2>1 DEF Stands
  <2>3. Waits(saved[p].mapping, bodies, n)
    BY <2>1, <2>2, LinesWait
  <2>4. ToSet(events) = {e \in ToSet(AllEvents(p)) : e.line <= n}
    BY <2>1, <2>2, FirstOfAll DEF AllEvents
  <2>5. \A e \in ToSet(events) : e \in stored
    BY <2>1, <2>4 DEF Stands, AllEvents
  <2> HIDE DEF events
  <2>6. ASSUME NEW type PROVE Refs(p, type) = Named(bodies, type)
    <3>1. Refs(p, type) = {e.body.ref : e \in {f \in ToSet(events) : f.body.type = type}}
      <4>1. {f \in ToSet(AllEvents(p)) : f \in stored /\ f.line <= n /\ f.body.type = type}
               = {f \in ToSet(events) : f.body.type = type}
        BY <2>4, <2>5
      <4> QED BY <4>1 DEF Refs
    <3> QED BY <3>1 DEF Named
  <2> QED BY <2>3, <2>6 DEF Waits
<1> QED BY <1>1, Invariant, PTL
=============================================================================
