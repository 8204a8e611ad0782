---------------------------- MODULE SnapshotProofs -----------------------------
(***************************************************************************)
(* What the state file of a snapshot observer is worth: proofs about       *)
(* SnapshotObserver for both runtimes, every session and mapper, and any   *)
(* number of edits, crashes and failures.                                  *)
(*                                                                         *)
(* A stat taken once stands for a past of the file: each edit after it     *)
(* either moves its modification time on or appends.  So a file that still *)
(* has the stat of a commit holds nothing that the commit had not read,    *)
(* and the ids of a commit, pending or saved, are durable or still on      *)
(* their way.                                                              *)
(***************************************************************************)
EXTENDS SnapshotObserver, WellFoundedInduction, SequenceTheorems, TLAPS

-----------------------------------------------------------------------------
(* Induction.                                                              *)

\* Induction up to n: a set that holds 0, and with a number its successor, holds
\* all of them; for the least number that it lacks would have a predecessor.
LEMMA UpTo ==
  ASSUME NEW n \in Nat, NEW T, 0 \in T, \A i \in 1 .. n : i - 1 \in T => i \in T
  PROVE  \A i \in 0 .. n : i \in T
<1> DEFINE missing == {i \in 0 .. n : i \notin T}
           below == {pair \in Nat \X Nat : pair[1] < pair[2]}
<1> SUFFICES ASSUME missing # {} PROVE FALSE
  OBVIOUS
<1>1. IsWellFoundedOn(below, Nat) /\ missing \subseteq Nat
  BY NatLessThanWellFounded DEF OpToRel
<1>2. PICK i \in missing : \A j \in missing : ~(<<j, i>> \in below)
  <2> HIDE DEF missing, below
  <2> QED BY <1>1, WFMin
<1>3. i \in 1 .. n /\ i - 1 \in 0 .. n /\ <<i - 1, i>> \in below
  BY <1>2
<1> QED BY <1>2, <1>3

\* The steps 1 .. n can be taken one after the other.
LEMMA Iterate ==
  ASSUME NEW X, NEW x0 \in X, NEW n \in Nat, NEW step \in [1 .. n -> [X -> X]]
  PROVE  \E f \in [0 .. n -> X] : /\ f[0] = x0
                                  /\ \A i \in 1 .. n : f[i] = step[i][f[i - 1]]
<1> DEFINE Iterates(f, m) == /\ f \in [0 .. m -> X] /\ f[0] = x0
                             /\ \A i \in 1 .. m : f[i] = step[i][f[i - 1]]
           T == {m \in 0 .. n : \E f : Iterates(f, m)}
<1>1. 0 \in T
  <2>1. Iterates([i \in 0 .. 0 |-> x0], 0)
    OBVIOUS
  <2> HIDE DEF Iterates
  <2> QED BY <2>1
<1>2. ASSUME NEW m \in 1 .. n, m - 1 \in T PROVE m \in T
  <2>1. PICK f : Iterates(f, m - 1)
    BY <1>2
  <2> DEFINE g == [i \in 0 .. m |-> IF i < m THEN f[i] ELSE step[m][f[m - 1]]]
  <2>2. /\ m - 1 \in 0 .. m - 1 /\ f[m - 1] \in X /\ step[m] \in [X -> X]
    BY <2>1
  <2>3. g \in [0 .. m -> X] /\ g[0] = x0
    BY <2>1, <2>2
  <2>4. \A i \in 1 .. m : g[i] = step[i][g[i - 1]]
    BY <2>1, <2>2
  <2>5. Iterates(g, m)
    BY <2>3, <2>4
  <2> HIDE DEF Iterates
  <2> QED BY <2>5, <1>2
<1>3. n \in T
  <2> HIDE DEF T
  <2>1. \A i \in 0 .. n : i \in T
    BY <1>1, <1>2, UpTo
  <2> QED BY <2>1
<1> QED BY <1>3

-----------------------------------------------------------------------------
(* Lists and their elements.                                               *)
LEMMA Elements ==
  ASSUME NEW S, NEW s \in Seq(S)
  PROVE  /\ ToSet(s) = {s[i] : i \in 1 .. Len(s)} /\ ToSet(s) \subseteq S
         /\ s = <<>> <=> ToSet(s) = {}
<1>1. DOMAIN s = 1 .. Len(s) /\ Len(s) \in Nat /\ \A i \in 1 .. Len(s) : s[i] \in S
  OBVIOUS
<1>2. s = <<>> <=> Len(s) = 0
  OBVIOUS
<1>3. ToSet(s) = {s[i] : i \in 1 .. Len(s)}
  BY <1>1 DEF ToSet
<1>4. s # <<>> => s[1] \in ToSet(s)
  BY <1>1, <1>2, <1>3
<1>5. s = <<>> => ToSet(s) = {}
  BY <1>1, <1>2, <1>3
<1> QED BY <1>1, <1>3, <1>4, <1>5

LEMMA Taken ==
  ASSUME NEW S, NEW s \in Seq(S), s # <<>>
  PROVE  /\ Head(s) \in S /\ Tail(s) \in Seq(S) /\ ToSet(s) = {Head(s)} \cup ToSet(Tail(s))
         /\ Tail(s) = <<>> <=> Len(s) = 1
<1> DEFINE t == Tail(s)
           n == Len(s)
<1>1. n \in Nat /\ n # 0 /\ Head(s) = s[1] /\ \A i \in 1 .. n : s[i] \in S
  OBVIOUS
<1>2. t \in Seq(S) /\ Len(t) = n - 1 /\ \A i \in 1 .. n - 1 : t[i] = s[i + 1]
  BY HeadTailProperties
<1>3. ToSet(s) = {s[i] : i \in 1 .. n} /\ ToSet(t) = {t[i] : i \in 1 .. n - 1}
  <2>1. ToSet(s) = {s[i] : i \in 1 .. n}
    BY Elements
  <2>2. ToSet(t) = {t[i] : i \in 1 .. Len(t)}
    <3> HIDE DEF t
    <3> QED BY <1>2, Elements
  <2> QED BY <1>2, <2>1, <2>2
<1> HIDE DEF t, n
<1>4. /\ \A i \in 1 .. n - 1 : i + 1 \in 1 .. n /\ t[i] = s[i + 1]
      /\ \A i \in 1 .. n : i = 1 \/ (i - 1 \in 1 .. n - 1 /\ t[i - 1] = s[i])
      /\ 1 \in 1 .. n
  BY <1>1, <1>2
<1>5. ToSet(s) = {s[1]} \cup ToSet(t)
  <2>1. ToSet(t) \subseteq ToSet(s) /\ s[1] \in ToSet(s)
    BY <1>3, <1>4
  <2>2. ToSet(s) \subseteq {s[1]} \cup ToSet(t)
    BY <1>3, <1>4
  <2> QED BY <2>1, <2>2
<1>6. t = <<>> <=> n = 1
  <2>1. t \in Seq(S)
    BY <1>2
  <2>2. t = <<>> <=> Len(t) = 0
    BY <2>1
  <2> QED BY <1>1, <1>2, <2>2
<1> QED BY <1>1, <1>2, <1>4, <1>5, <1>6 DEF t, n

LEMMA Added ==
  ASSUME NEW S, NEW s \in Seq(S), NEW e \in S
  PROVE  Append(s, e) \in Seq(S) /\ ToSet(Append(s, e)) = ToSet(s) \cup {e}
<1> DEFINE t == Append(s, e)
           n == Len(s)
<1>1. /\ n \in Nat /\ t \in Seq(S) /\ Len(t) = n + 1
      /\ t[n + 1] = e /\ \A i \in 1 .. n : t[i] = s[i]
  OBVIOUS
<1>2. ToSet(s) = {s[i] : i \in 1 .. n} /\ ToSet(t) = {t[i] : i \in 1 .. n + 1}
  <2>1. ToSet(s) = {s[i] : i \in 1 .. n}
    BY Elements
  <2>2. ToSet(t) = {t[i] : i \in 1 .. Len(t)}
    <3> HIDE DEF t
    <3> QED BY <1>1, Elements
  <2> QED BY <1>1, <2>1, <2>2
<1> HIDE DEF t, n
<1>3. /\ \A i \in 1 .. n : i \in 1 .. n + 1 /\ t[i] = s[i]
      /\ \A i \in 1 .. n + 1 : i = n + 1 \/ (i \in 1 .. n /\ t[i] = s[i])
      /\ n + 1 \in 1 .. n + 1 /\ t[n + 1] = e
  BY <1>1
<1>4. ToSet(s) \cup {e} \subseteq ToSet(t)
  BY <1>2, <1>3
<1>5. ToSet(t) \subseteq ToSet(s) \cup {e}
  BY <1>2, <1>3
<1> QED BY <1>1, <1>4, <1>5 DEF t

\* What is left after the first n.
LEMMA Remaining ==
  ASSUME NEW S, NEW s \in Seq(S), NEW n \in Nat, n <= Len(s),
         NEW t \in Seq(S), Len(t) = Len(s) - n, \A i \in 1 .. Len(s) - n : t[i] = s[n + i]
  PROVE  ToSet(s) \subseteq {s[i] : i \in 1 .. n} \cup ToSet(t)
<1> DEFINE m == Len(s)
<1>1. m \in Nat /\ n \in Nat /\ n <= m
  OBVIOUS
<1>2. Len(t) = m - n /\ \A i \in 1 .. m - n : t[i] = s[n + i]
  OBVIOUS
<1>3. ToSet(s) = {s[i] : i \in 1 .. m} /\ ToSet(t) = {t[i] : i \in 1 .. m - n}
  <2>1. ToSet(s) = {s[i] : i \in 1 .. m}
    BY Elements
  <2>2. ToSet(t) = {t[i] : i \in 1 .. Len(t)}
    BY Elements
  <2> QED BY <1>2, <2>1, <2>2
<1> HIDE DEF m
<1>4. /\ \A i \in 1 .. m - n : n + i \in 1 .. m /\ t[i] = s[n + i]
      /\ \A i \in 1 .. m : i \in 1 .. n \/ (i - n \in 1 .. m - n /\ t[i - n] = s[i])
  BY <1>1, <1>2
<1>5. \A i \in 1 .. m : s[i] \in {s[k] : k \in 1 .. n} \cup ToSet(t)
  BY <1>3, <1>4
<1> QED BY <1>3, <1>5

-----------------------------------------------------------------------------
(* The invariant.                                                          *)
Places == {"idle", "stat", "load", "read", "identify", "write", "wait", "save"}
Stats == [id : Nat, size : Nat, mtime : Int]
Remembered == [file : Stats, ids : SUBSET Ids(Events)] \cup {NoState}
Lines(rt) == 0 .. Len(Log[rt])
FileType(rt) == [id : Nat, n : Lines(rt), partial : BOOLEAN, mtime : Nat]
CacheType(rt) == [id : Nat, lines : Lines(rt), mtime : Int]
ObserverType(rt) ==
    [pc : Places, state : Remembered, pending : Remembered, cache : CacheType(rt),
     snapshot : Stats, stat : Stats, todo : Seq(Events), next : Remembered]

Typed(rt, f, o, sv) ==
    /\ rt \in Runtimes /\ f \in FileType(rt)
    /\ o \in ObserverType(rt) /\ sv \in Remembered

\* Every edit of the file moves its stat on in this order.
Before(s, t) == s = t \/ s.mtime < t.mtime \/ (s.mtime = t.mtime /\ s.size < t.size)

\* What is remembered is of the past, and of the whole file if the file still
\* looks as it did then.
Covers(rt, f, r) ==
    r # NoState => /\ Before(r.file, Stat(f))
                   /\ r.file = Stat(f) => ContentIds[rt][f.n] \subseteq r.ids

Covered(rt, f, o, sv) ==
    /\ Covers(rt, f, o.state) /\ Covers(rt, f, o.pending)
    /\ Covers(rt, f, o.next) /\ Covers(rt, f, sv)
    /\ Before(o.snapshot, Stat(f))
    /\ o.pc = "read" => Before(o.snapshot, o.stat) /\ Before(o.stat, Stat(f))

\* What is counted as sent is durable, still in the queue, or still to be written.
Within(r, ids) == r # NoState => r.ids \subseteq ids

Durable(o, sv, inQueue, st) ==
    /\ Within(sv, Ids(st)) /\ Within(o.state, Ids(st))
    /\ Within(o.pending, Ids(st) \cup inQueue)
    /\ o.pc = "save" => Within(o.pending, Ids(st))
    /\ Within(o.next, Ids(st) \cup inQueue \cup Ids(ToSet(o.todo)))
    /\ o.pc = "write" => o.todo # <<>>

Sound(rt, f, o, sv, q, st) ==
    /\ Typed(rt, f, o, sv) /\ Covered(rt, f, o, sv) /\ Durable(o, sv, Ids(ToSet(q)), st)

IInv == /\ queue \in Seq(Events) /\ stored \subseteq Events
        /\ used \in [edits : Nat, crashes : Nat, failures : Nat]
        /\ Sound(runtime, file, obs, saved, queue, stored)

-----------------------------------------------------------------------------
(* Files and their contents.                                               *)
LEMMA LogLength == ASSUME NEW rt \in Runtimes PROVE Len(Log[rt]) \in Nat
<1>1. Log[rt] \in Seq(ToSet(Log[rt]))
  BY ListAssumption DEF IsList
<1> QED BY <1>1

LEMMA StatType ==
  ASSUME NEW rt \in Runtimes, NEW f \in FileType(rt)
  PROVE  /\ Stat(f) \in Stats
         /\ Stat(f) = [id |-> f.id, size |-> Stat(f).size, mtime |-> f.mtime]
         /\ Stat(f).size = 2 * f.n + (IF f.partial THEN 1 ELSE 0)
         /\ f.n \in Nat /\ f.mtime \in Nat
<1>1. f.n \in Nat /\ f.id \in Nat /\ f.mtime \in Nat /\ f.partial \in BOOLEAN
  BY LogLength DEF FileType, Lines
<1>2. Size(f) \in Nat
  BY <1>1 DEF Size
<1> QED BY <1>1, <1>2 DEF Stat, Stats, Size

\* What a file maps to is a list of events, and its ids are theirs.
LEMMA ContentsList ==
  ASSUME NEW rt \in Runtimes, NEW n \in Lines(rt)
  PROVE  /\ Contents[rt][n] \in Seq(Events)
         /\ ContentIds[rt][n] = Ids(ToSet(Contents[rt][n]))
<1> DEFINE c == Contents[rt][n]
<1>1. c = IF n = 0 THEN <<>> ELSE Mapped(rt, Log[rt], n)
  BY DEF Contents, Lines
<1>2. c \in Seq(ToSet(c))
  <2>1. CASE n = 0
    <3>1. c = <<>>
      BY <1>1, <2>1
    <3> HIDE DEF c
    <3> QED BY <3>1
  <2>2. CASE n # 0
    <3>1. n \in 1 .. Len(Log[rt])
      BY <2>2, LogLength DEF Lines
    <3> QED BY <1>1, <2>2, <3>1, ListAssumption DEF IsList
  <2> QED BY <2>1, <2>2
<1>3. ToSet(c) \subseteq Events
  <2>1. n \in 0 .. Len(Log[rt])
    BY DEF Lines
  <2> QED BY <2>1 DEF Events
<1>4. ContentIds[rt][n] = Ids(ToSet(c))
  BY DEF ContentIds, Lines
<1> HIDE DEF c
<1>5. c \in Seq(Events)
  BY <1>2, <1>3
<1> QED BY <1>4, <1>5 DEF c

LEMMA IdsOf ==
  ASSUME NEW S, NEW T
  PROVE  /\ Ids(S \cup T) = Ids(S) \cup Ids(T) /\ Ids({}) = {}
         /\ S \subseteq T => Ids(S) \subseteq Ids(T)
         /\ \A e \in S : e.id \in Ids(S)
BY DEF Ids

\* The list of unsent events is made of its parts.
LEMMA CandidatesSteps ==
  ASSUME runtime \in Runtimes, NEW r, NEW n \in Lines(runtime)
  PROVE  \E f \in [0 .. Len(EventsOf(n)) -> Seq(Events)] :
            /\ Candidates(r, n) = f[Len(EventsOf(n))] /\ f[0] = <<>>
            /\ \A i \in 1 .. Len(EventsOf(n)) :
                 f[i] = IF EventsOf(n)[i].id \in r.ids THEN f[i - 1]
                        ELSE Append(f[i - 1], EventsOf(n)[i])
<1> DEFINE c == EventsOf(n)
           m == Len(c)
           X == Seq(Events)
           One(l, i) == IF c[i].id \in r.ids THEN l ELSE Append(l, c[i])
           Parts(g) == [i \in 0 .. m |-> IF i = 0 THEN <<>>
                          ELSE IF c[i].id \in r.ids THEN g[i - 1] ELSE Append(g[i - 1], c[i])]
           unsent == CHOOSE g : g = Parts(g)
           step == [i \in 1 .. m |-> [l \in X |-> One(l, i)]]
<1>1. Candidates(r, n) = unsent[m]
  BY DEF Candidates
<1>2. m \in Nat /\ \A i \in 1 .. m : c[i] \in Events
  <2>1. c \in Seq(Events)
    BY ContentsList DEF EventsOf
  <2> HIDE DEF c
  <2> QED BY <2>1
<1> HIDE DEF c
<1>3. <<>> \in X /\ \A i \in 1 .. m, l \in X : One(l, i) \in X
  BY <1>2
<1> HIDE DEF m, X
<1>4. step \in [1 .. m -> [X -> X]]
  <2> HIDE DEF One
  <2> QED BY <1>3
<1>5. PICK f \in [0 .. m -> X] : f[0] = <<>> /\ \A i \in 1 .. m : f[i] = step[i][f[i - 1]]
  <2> DEFINE none == <<>>
  <2>1. m \in Nat /\ none \in X
    BY <1>2, <1>3
  <2> HIDE DEF step, none
  <2>2. \E f \in [0 .. m -> X] : f[0] = none /\ \A i \in 1 .. m : f[i] = step[i][f[i - 1]]
    BY <1>4, <2>1, Iterate
  <2> QED BY <2>2 DEF none
<1>6. \A i \in 1 .. m : f[i] = One(f[i - 1], i)
  <2>1. \A i \in 1 .. m : i - 1 \in 0 .. m
    BY <1>2
  <2> HIDE DEF One
  <2> QED BY <1>5, <2>1
<1>7. f = Parts(f)
  <2>1. ASSUME NEW i \in 0 .. m PROVE f[i] = Parts(f)[i]
    <3>1. CASE i = 0
      BY <3>1, <1>5
    <3>2. CASE i # 0
      <4>1. i \in 1 .. m
        BY <1>2, <3>2
      <4> QED BY <3>2, <4>1, <1>6
    <3> QED BY <3>1, <3>2
  <2> QED BY <2>1, <1>5
<1>8. unsent = Parts(unsent)
  <2> HIDE DEF Parts
  <2> QED BY <1>7
<1> HIDE DEF unsent
<1>9. unsent[0] = <<>> /\ \A i \in 1 .. m : unsent[i] = One(unsent[i - 1], i)
  <2>1. 0 \in 0 .. m /\ \A i \in 1 .. m : i \in 0 .. m /\ i # 0
    BY <1>2
  <2> QED BY <1>8, <2>1
<1> DEFINE T == {i \in 0 .. m : unsent[i] \in X}
<1>10. 0 \in T /\ \A i \in 1 .. m : i - 1 \in T => i \in T
  <2>1. 0 \in 0 .. m /\ \A i \in 1 .. m : i \in 0 .. m
    BY <1>2
  <2> HIDE DEF One
  <2> QED BY <1>3, <1>9, <2>1
<1>11. \A i \in 0 .. m : i \in T
  <2> HIDE DEF T
  <2> QED BY <1>2, <1>10, UpTo
<1>12. unsent \in [0 .. m -> X]
  BY <1>8, <1>11
<1> QED BY <1>1, <1>9, <1>12 DEF c, m, X

\* With the events that a state does not count as sent, all of the file is sent.
LEMMA CandidatesComplete ==
  ASSUME runtime \in Runtimes, NEW r, NEW n \in Lines(runtime)
  PROVE  /\ Candidates(r, n) \in Seq(Events)
         /\ FileIds(n) \subseteq r.ids \cup Ids(ToSet(Candidates(r, n)))
<1> DEFINE c == EventsOf(n)
           m == Len(c)
<1>1. c \in Seq(Events) /\ FileIds(n) = Ids(ToSet(c))
  BY ContentsList DEF EventsOf, FileIds
<1>2. PICK f \in [0 .. m -> Seq(Events)] :
         /\ Candidates(r, n) = f[m] /\ f[0] = <<>>
         /\ \A i \in 1 .. m : f[i] = IF c[i].id \in r.ids THEN f[i - 1] ELSE Append(f[i - 1], c[i])
  BY CandidatesSteps
<1> HIDE DEF c
<1>3. m \in Nat /\ DOMAIN c = 1 .. m /\ \A i \in 1 .. m : c[i] \in Events
  BY <1>1
<1> HIDE DEF m
<1> DEFINE Sent(i) == \A j \in 1 .. i : c[j].id \in r.ids \/ c[j] \in ToSet(f[i])
           T == {i \in 0 .. m : Sent(i)}
<1>4. 0 \in T
  BY <1>3
<1>5. ASSUME NEW i \in 1 .. m, i - 1 \in T PROVE i \in T
  <2>1. i - 1 \in 0 .. m /\ i \in 0 .. m /\ \A j \in 1 .. i : j \in 1 .. i - 1 \/ j = i
    BY <1>3
  <2>2. Sent(i - 1) /\ c[i] \in Events
    BY <1>3, <1>5
  <2>3. CASE c[i].id \in r.ids
    <3>1. f[i] = f[i - 1]
      BY <1>2, <2>3
    <3> QED BY <2>1, <2>2, <2>3, <3>1
  <2>4. CASE c[i].id \notin r.ids
    <3>1. f[i] = Append(f[i - 1], c[i])
      BY <1>2, <2>4
    <3>2. ToSet(f[i]) = ToSet(f[i - 1]) \cup {c[i]}
      <4>1. f[i - 1] \in Seq(Events)
        BY <1>2, <2>1
      <4> QED BY <2>2, <3>1, <4>1, Added
    <3> QED BY <2>1, <2>2, <3>2
  <2> QED BY <2>3, <2>4
<1>6. Sent(m)
  <2>1. m \in T
    <3> HIDE DEF T
    <3>1. \A i \in 0 .. m : i \in T
      BY <1>3, <1>4, <1>5, UpTo
    <3> QED BY <1>3, <3>1
  <2> QED BY <2>1
<1>7. Candidates(r, n) \in Seq(Events) /\ Candidates(r, n) = f[m]
  BY <1>2, <1>3
<1>8. Ids(ToSet(c)) \subseteq r.ids \cup Ids(ToSet(f[m]))
  <2>1. \A e \in ToSet(c) : e.id \in r.ids \/ e \in ToSet(f[m])
    BY <1>3, <1>6 DEF ToSet
  <2> QED BY <2>1 DEF Ids
<1> QED BY <1>1, <1>7, <1>8

-----------------------------------------------------------------------------
(* Files that change.                                                      *)

\* An edit moves the stat on.
Edited(f, g) == Before(Stat(f), Stat(g)) /\ Stat(f) # Stat(g)

LEMMA BeforeOrder ==
  ASSUME NEW s \in Stats, NEW t \in Stats, NEW u \in Stats, Before(s, t), Before(t, u)
  PROVE  /\ Before(s, u) /\ (s = u => t = u)
         /\ t # u => s # u
BY DEF Before, Stats

LEMMA Past == ASSUME NEW rt \in Runtimes, NEW f \in FileType(rt)
              PROVE NoFile \in Stats /\ Before(NoFile, Stat(f)) /\ NoFile # Stat(f)
<1>1. NoFile \in Stats /\ NoFile.mtime = -1
  BY DEF NoFile, Stats
<1>2. Stat(f).mtime \in Nat
  BY StatType
<1> QED BY <1>1, <1>2 DEF Before

\* What covered the file before an edit covers it after it.
LEMMA EditedCovers ==
  ASSUME NEW rt \in Runtimes, NEW f \in FileType(rt), NEW g \in FileType(rt), Edited(f, g),
         NEW r \in Remembered, Covers(rt, f, r)
  PROVE  Covers(rt, g, r)
<1> SUFFICES ASSUME r # NoState PROVE Before(r.file, Stat(g)) /\ r.file # Stat(g)
  BY DEF Covers
<1>1. r.file \in Stats /\ Stat(f) \in Stats /\ Stat(g) \in Stats
  BY StatType DEF Remembered
<1> QED BY <1>1, BeforeOrder DEF Covers, Edited

LEMMA EditedSound ==
  ASSUME NEW rt \in Runtimes, NEW f \in FileType(rt), NEW g \in FileType(rt), Edited(f, g),
         NEW o, NEW sv, NEW q, NEW st, Sound(rt, f, o, sv, q, st)
  PROVE  Sound(rt, g, o, sv, q, st)
<1>1. /\ o \in ObserverType(rt) /\ sv \in Remembered /\ Stat(f) \in Stats /\ Stat(g) \in Stats
  BY StatType DEF Sound, Typed
<1>2. /\ o.state \in Remembered /\ o.pending \in Remembered /\ o.next \in Remembered
      /\ o.snapshot \in Stats /\ o.stat \in Stats
  BY <1>1 DEF ObserverType
<1>3. /\ Covers(rt, g, o.state) /\ Covers(rt, g, o.pending)
      /\ Covers(rt, g, o.next) /\ Covers(rt, g, sv)
  BY <1>1, <1>2, EditedCovers DEF Sound, Covered
<1>4. Before(o.snapshot, Stat(g)) /\ (o.pc = "read" => Before(o.stat, Stat(g)))
  <2>1. Before(Stat(f), Stat(g))
    BY DEF Edited
  <2>2. Before(o.snapshot, Stat(f)) /\ (o.pc = "read" => Before(o.stat, Stat(f)))
    BY DEF Sound, Covered
  <2>3. Before(o.snapshot, Stat(g))
    BY <1>1, <1>2, <2>1, <2>2, BeforeOrder
  <2>4. CASE o.pc = "read"
    <3>1. Before(o.stat, Stat(g))
      BY <1>1, <1>2, <2>1, <2>2, <2>4, BeforeOrder
    <3> QED BY <2>3, <3>1
  <2> QED BY <2>3, <2>4
<1> QED BY <1>3, <1>4 DEF Sound, Typed, Covered

-----------------------------------------------------------------------------
(* The steps of a scan.                                                    *)
LEMMA RestingTyped ==
  ASSUME NEW rt \in Runtimes
  PROVE  /\ [id |-> 0, lines |-> 0, mtime |-> 0] \in CacheType(rt)
         /\ <<>> \in Seq(Events) /\ NoState \in Remembered
         /\ ToSet(<<>>) = {}
<1>1. 0 \in Lines(rt)
  BY LogLength DEF Lines
<1>2. <<>> \in Seq(Events)
  OBVIOUS
<1>3. ToSet(<<>>) = {}
  BY <1>2, Elements
<1> QED BY <1>1, <1>2, <1>3 DEF CacheType, Remembered

LEMMA Resumes ==
  ASSUME NEW o
  PROVE  Ended(o) = [pc |-> "idle", state |-> o.state, pending |-> o.pending, cache |-> o.cache,
                     snapshot |-> NoFile, stat |-> NoFile, todo |-> <<>>, next |-> NoState]
<1> DEFINE c == [id |-> 0, lines |-> 0, mtime |-> 0]
           r == [pc |-> "idle", state |-> NoState, pending |-> NoState, cache |-> c,
                 snapshot |-> NoFile, stat |-> NoFile, todo |-> <<>>, next |-> NoState]
<1>1. Ended(o) = [r EXCEPT !.state = o.state, !.pending = o.pending, !.cache = o.cache]
  BY DEF Ended, Resting
<1> HIDE DEF c
<1> QED BY <1>1

LEMMA EndedSound ==
  ASSUME NEW rt, NEW f, NEW o, NEW sv, NEW q, NEW st, Sound(rt, f, o, sv, q, st)
  PROVE  Sound(rt, f, Ended(o), sv, q, st)
<1>1. /\ o.state \in Remembered /\ o.pending \in Remembered /\ o.cache \in CacheType(rt)
      /\ rt \in Runtimes /\ f \in FileType(rt)
  BY DEF Sound, Typed, ObserverType
<1>2. Ended(o) \in ObserverType(rt)
  BY <1>1, Past, RestingTyped, Resumes DEF ObserverType, Places
<1>3. Covered(rt, f, Ended(o), sv)
  <2>1. Before(NoFile, Stat(f))
    BY <1>1, Past
  <2> QED BY <2>1, Resumes DEF Sound, Covered, Covers
<1>4. Durable(Ended(o), sv, Ids(ToSet(q)), st)
  BY Resumes DEF Sound, Durable, Within
<1> QED BY <1>2, <1>3, <1>4 DEF Sound, Typed

\* A load of n lines, which are the file's if the file is as it was when the
\* snapshot was taken.
LEMMA LoadedSound ==
  ASSUME NEW o, NEW n \in Lines(runtime), Sound(runtime, file, o, saved, queue, stored),
         o.snapshot = Stat(file) => n = file.n
  PROVE  Sound(runtime, file, Loaded(o, n), saved, queue, stored)
<1>1. /\ o \in ObserverType(runtime) /\ runtime \in Runtimes /\ file \in FileType(runtime)
      /\ saved \in Remembered
  BY DEF Sound, Typed
<1>2. CASE n = 0 \/ (o.state # NoState /\ Broken(runtime, Log[runtime], n))
  BY <1>2, EndedSound DEF Loaded
<1>3. CASE n # 0 /\ o.state = NoState
  <2>1. Loaded(o, n) = [o EXCEPT !.pc = "identify"]
    BY <1>3 DEF Loaded
  <2> QED BY <1>1, <2>1 DEF Sound, Typed, Covered, Durable, ObserverType, Places
<1>4. CASE n # 0 /\ o.state # NoState /\ ~Broken(runtime, Log[runtime], n)
  <2> DEFINE todo == Candidates(o.state, n)
             next == [file |-> o.snapshot, ids |-> o.state.ids \cup Ids(ToSet(todo))]
  <2>1. /\ todo \in Seq(Events) /\ FileIds(n) \subseteq o.state.ids \cup Ids(ToSet(todo))
    BY <1>1, CandidatesComplete
  <2>2. Loaded(o, n) = IF todo = <<>> THEN [o EXCEPT !.pending = next, !.pc = "save"]
                       ELSE [o EXCEPT !.todo = todo, !.next = next, !.pc = "write"]
    BY <1>4 DEF Loaded
  <2>3. /\ o.snapshot \in Stats /\ o.state.ids \subseteq Ids(Events)
        /\ Before(o.snapshot, Stat(file)) /\ o.state.ids \subseteq Ids(stored)
    BY <1>1, <1>4 DEF ObserverType, Remembered, Sound, Covered, Durable, Within
  <2> HIDE DEF todo
  <2>4. next \in Remembered
    <3>1. Ids(ToSet(todo)) \subseteq Ids(Events)
      BY <2>1, Elements, IdsOf
    <3> QED BY <2>3, <3>1 DEF Remembered
  <2>5. Covers(runtime, file, next)
    BY <2>1, <2>3 DEF Covers, FileIds
  <2>6. Within(next, Ids(stored) \cup Ids(ToSet(queue)) \cup Ids(ToSet(todo)))
    BY <2>3 DEF Within
  <2>7. todo = <<>> => Within(next, Ids(stored))
    <3>1. todo = <<>> => Ids(ToSet(todo)) = {}
      BY <2>1, Elements, IdsOf
    <3> QED BY <2>3, <3>1 DEF Within
  <2> HIDE DEF next
  <2>8. CASE todo = <<>>
    <3>1. Loaded(o, n) = [o EXCEPT !.pending = next, !.pc = "save"]
      BY <2>2, <2>8
    <3> QED BY <1>1, <2>4, <2>5, <2>7, <2>8, <3>1
            DEF Sound, Typed, Covered, Durable, ObserverType, Places, Within
  <2>9. CASE todo # <<>>
    <3>1. Loaded(o, n) = [o EXCEPT !.todo = todo, !.next = next, !.pc = "write"]
      BY <2>2, <2>9
    <3> QED BY <1>1, <2>1, <2>4, <2>5, <2>6, <2>9, <3>1
            DEF Sound, Typed, Covered, Durable, ObserverType, Places
  <2> QED BY <2>8, <2>9
<1> QED BY <1>2, <1>3, <1>4

\* A step that only the observer sees.
LEMMA Scanned ==
  ASSUME IInv, Unseen, Sound(runtime, file, obs', saved, queue, stored)
  PROVE  IInv'
BY DEF IInv, Unseen

LEMMA ObserverShape ==
  ASSUME IInv
  PROVE  /\ obs \in ObserverType(runtime) /\ runtime \in Runtimes /\ file \in FileType(runtime)
         /\ saved \in Remembered /\ Stat(file) \in Stats
         /\ Before(Stat(file), Stat(file))
BY StatType DEF IInv, Sound, Typed, Before

\* A step to a place where nothing more is known.
LEMMA Moves ==
  ASSUME NEW rt, NEW f, NEW o, NEW sv, NEW q, NEW st, Sound(rt, f, o, sv, q, st),
         NEW pc \in Places \ {"read", "write", "save"}
  PROVE  Sound(rt, f, [o EXCEPT !.pc = pc], sv, q, st)
BY DEF Sound, Typed, ObserverType, Covered, Durable

LEMMA KeptByBegin == ASSUME IInv, BeginScan PROVE IInv'
<1> DEFINE pc == IF obs.pending # NoState THEN "wait"
                 ELSE IF runtime = "pi" /\ obs.state = NoState THEN "load" ELSE "stat"
<1>1. obs' = [obs EXCEPT !.pc = pc] /\ Unseen
  BY DEF BeginScan
<1>2. pc \in Places \ {"read", "write", "save"}
  BY DEF Places
<1> HIDE DEF pc
<1>3. Sound(runtime, file, obs, saved, queue, stored)
  BY DEF IInv
<1>4. Sound(runtime, file, obs', saved, queue, stored)
  BY <1>1, <1>2, <1>3, Moves
<1> QED BY <1>1, <1>4, Scanned

LEMMA ComparedSound ==
  ASSUME NEW rt, NEW f, NEW o, NEW sv, NEW q, NEW st, Sound(rt, f, o, sv, q, st)
  PROVE  Sound(rt, f, Compared(o), sv, q, st)
<1>1. Compared(o) = Ended(o) \/ Compared(o) = [o EXCEPT !.pc = "load"]
  BY DEF Compared
<1>2. "load" \in Places \ {"read", "write", "save"}
  BY DEF Places
<1> QED BY <1>1, <1>2, EndedSound, Moves

LEMMA KeptBySnapshot == ASSUME IInv, TakeSnapshot PROVE IInv'
<1> DEFINE o == [obs EXCEPT !.snapshot = Stat(file), !.pc = "load"]
<1>1. Unseen /\ (obs' = o \/ obs' = Compared(o))
  BY DEF TakeSnapshot
<1>2. Sound(runtime, file, o, saved, queue, stored)
  BY ObserverShape DEF IInv, Sound, Typed, ObserverType, Places, Covered, Durable
<1> HIDE DEF o
<1>3. Sound(runtime, file, obs', saved, queue, stored)
  BY <1>1, <1>2, ComparedSound
<1> QED BY <1>1, <1>3, Scanned

LEMMA KeptByCacheStat == ASSUME IInv, CacheStat PROVE IInv'
<1>1. Unseen /\ obs' = [obs EXCEPT !.pc = "read", !.stat = Stat(file)]
  BY DEF CacheStat
<1>2. Sound(runtime, file, obs', saved, queue, stored)
  BY <1>1, ObserverShape DEF IInv, Sound, Typed, ObserverType, Places, Covered, Durable
<1> QED BY <1>1, <1>2, Scanned

LEMMA KeptByWhole == ASSUME IInv, LoadWhole PROVE IInv'
<1>1. Unseen /\ (obs' = Loaded(obs, file.n) \/ obs' = Ended(obs))
  BY DEF LoadWhole
<1>2. Sound(runtime, file, obs, saved, queue, stored) /\ file.n \in Lines(runtime)
  BY ObserverShape DEF IInv, FileType
<1>3. Sound(runtime, file, Loaded(obs, file.n), saved, queue, stored)
  BY <1>2, LoadedSound
<1>4. Sound(runtime, file, Ended(obs), saved, queue, stored)
  BY <1>2, EndedSound
<1>5. Sound(runtime, file, obs', saved, queue, stored)
  BY <1>1, <1>3, <1>4
<1> QED BY <1>1, <1>5, Scanned

LEMMA KeptByEnsure == ASSUME IInv, EnsureState PROVE IInv'
<1> DEFINE r == IF saved # NoState THEN saved ELSE [file |-> NoFile, ids |-> {}]
           o == [obs EXCEPT !.state = r]
<1>1. Unseen /\ obs.pc = "identify" /\ (obs' = [o EXCEPT !.pc = "stat"] \/ obs' = Compared(o))
  BY DEF EnsureState
<1>2. r \in Remembered /\ Covers(runtime, file, r) /\ Within(r, Ids(stored))
  <2>1. NoFile \in Stats /\ Before(NoFile, Stat(file)) /\ NoFile # Stat(file)
    BY ObserverShape, Past
  <2> QED BY <2>1, ObserverShape DEF IInv, Sound, Covered, Covers, Durable, Within, Remembered
<1> HIDE DEF r
<1>3. Sound(runtime, file, o, saved, queue, stored)
  BY <1>1, <1>2, ObserverShape DEF IInv, Sound, Typed, ObserverType, Places, Covered, Durable
<1> HIDE DEF o
<1>4. "stat" \in Places \ {"read", "write", "save"}
  BY DEF Places
<1>5. Sound(runtime, file, obs', saved, queue, stored)
  BY <1>1, <1>3, <1>4, ComparedSound, Moves
<1> QED BY <1>1, <1>5, Scanned

\* A read gives no lines that are not there, and if stat still holds it gives
\* all lines or at least MaxLines more.
LEMMA LastLineRead ==
  ASSUME NEW first \in Nat, NEW stat, stat.size \in Nat, NEW f,
         f.n \in Nat, f.partial \in BOOLEAN
  PROVE  /\ LastLine(first, stat, f) \in Nat /\ LastLine(first, stat, f) >= first
         /\ LastLine(first, stat, f) = first \/ LastLine(first, stat, f) <= f.n
         /\ stat.size = Size(f) => \/ LastLine(first, stat, f) >= f.n
                                  \/ LastLine(first, stat, f) >= first + MaxLines
<1> DEFINE a == stat.size
           b == 2 * (first + MaxLines)
           c == Size(f)
           limit == Min({a, b, c})
           half == limit \div 2
           last == LastLine(first, stat, f)
<1>1. /\ MaxLines \in Nat /\ a \in Nat /\ b \in Nat /\ c \in Nat
      /\ b = 2 * (first + MaxLines) /\ 2 * f.n <= c /\ c <= 2 * f.n + 1
  BY SnapshotAssumption DEF Size
<1>2. last = Max({first, half})
  BY DEF LastLine
<1> HIDE DEF a, b, c, last
<1>3. limit \in {a, b, c} /\ limit <= c
  <2>1. \E x \in {a, b, c} : \A y \in {a, b, c} : x <= y
    <3>1. CASE a <= b /\ a <= c
      BY <1>1, <3>1
    <3>2. CASE b <= a /\ b <= c
      BY <1>1, <3>2
    <3>3. CASE c <= a /\ c <= b
      BY <1>1, <3>3
    <3> QED BY <1>1, <3>1, <3>2, <3>3
  <2>2. limit \in {a, b, c} /\ \A y \in {a, b, c} : limit <= y
    BY <2>1 DEF Min
  <2> HIDE DEF limit
  <2> QED BY <2>2
<1> HIDE DEF limit
<1>4. /\ half \in Nat /\ half <= f.n
      /\ a = c => half = f.n \/ half = first + MaxLines
  <2>1. half \in Nat /\ 2 * half <= limit /\ limit <= 2 * half + 1
    BY <1>1, <1>3
  <2> HIDE DEF half
  <2>2. half <= f.n
    BY <1>1, <1>3, <2>1
  <2>3. CASE limit = c
    BY <1>1, <2>1, <2>2, <2>3
  <2>4. CASE limit = b
    BY <1>1, <2>1, <2>2, <2>4
  <2> QED BY <1>3, <2>1, <2>2, <2>3, <2>4
<1> HIDE DEF half
<1>5. /\ Max({first, half}) \in {first, half}
      /\ Max({first, half}) >= first /\ Max({first, half}) >= half
  <2>1. \E x \in {first, half} : \A y \in {first, half} : x >= y
    BY <1>4
  <2> QED BY <2>1 DEF Max
<1> QED BY <1>1, <1>2, <1>4, <1>5 DEF a, c, last

\* The cache tails the file until nothing is left: if the file is as it was when
\* the snapshot was taken, all its lines have been read.
LEMMA KeptByRead == ASSUME IInv, CacheRead PROVE IInv'
<1> DEFINE stat == obs.stat
           first == IF Replaced(obs.cache, stat) THEN 0 ELSE obs.cache.lines
           last == LastLine(first, stat, file)
           cache == [id |-> stat.id, lines |-> last, mtime |-> stat.mtime]
           o == [obs EXCEPT !.cache = cache]
           more == last > first /\ 2 * last < stat.size
<1>1. /\ obs.pc = "read" /\ Unseen
      /\ obs' = IF more THEN [o EXCEPT !.pc = "load"] ELSE Loaded(o, last)
  BY DEF CacheRead
<1>2. /\ obs \in ObserverType(runtime) /\ runtime \in Runtimes /\ file \in FileType(runtime)
      /\ Stat(file) \in Stats /\ stat \in Stats /\ obs.snapshot \in Stats
      /\ obs.cache \in CacheType(runtime) /\ Len(Log[runtime]) \in Nat
  BY ObserverShape, LogLength DEF ObserverType
<1>3. /\ first \in Lines(runtime) /\ first \in Nat /\ stat.size \in Nat
      /\ file.n \in Lines(runtime) /\ file.n \in Nat /\ file.partial \in BOOLEAN
      /\ stat.id \in Nat /\ stat.mtime \in Int /\ obs.cache.lines \in Nat
  <2>1. obs.cache.lines \in Lines(runtime) /\ 0 \in Lines(runtime) /\ Lines(runtime) \subseteq Nat
    BY <1>2 DEF CacheType, Lines
  <2>2. first \in Lines(runtime)
    BY <2>1
  <2> QED BY <1>2, <2>1, <2>2 DEF Stats, FileType
<1>4. first = 0 \/ 2 * first <= stat.size
  <2>1. 2 * obs.cache.lines <= stat.size \/ Replaced(obs.cache, stat)
    <3>1. stat.size < 2 * obs.cache.lines => Replaced(obs.cache, stat)
      BY DEF Replaced
    <3> QED BY <1>3, <3>1
  <2> QED BY <2>1
<1> HIDE DEF first
<1>5. /\ last \in Nat /\ last >= first /\ (last = first \/ last <= file.n)
      /\ stat.size = Size(file) => last >= file.n \/ last >= first + MaxLines
  BY <1>3, LastLineRead
<1> HIDE DEF last, stat
<1>6. last \in Lines(runtime)
  BY <1>2, <1>3, <1>5 DEF Lines
<1>7. Sound(runtime, file, o, saved, queue, stored)
  <2>1. cache \in CacheType(runtime)
    BY <1>3, <1>6 DEF CacheType
  <2> HIDE DEF cache
  <2> QED BY <1>1, <1>2, <2>1 DEF IInv, Sound, Typed, ObserverType, Covered, Durable
<1>8. CASE more
  <2>1. obs' = [o EXCEPT !.pc = "load"] /\ "load" \in Places \ {"read", "write", "save"}
    BY <1>1, <1>8 DEF Places
  <2> HIDE DEF o
  <2>2. Sound(runtime, file, obs', saved, queue, stored)
    BY <1>7, <2>1, Moves
  <2> QED BY <1>1, <2>2, Scanned
<1>9. CASE ~more
  <2>1. o.snapshot = Stat(file) => last = file.n
    <3>1. SUFFICES ASSUME o.snapshot = Stat(file) PROVE last = file.n
      OBVIOUS
    <3>2. o.snapshot = obs.snapshot
      BY <1>2 DEF ObserverType
    <3>3. stat = Stat(file)
      <4>1. Before(obs.snapshot, stat) /\ Before(stat, Stat(file))
        BY <1>1 DEF IInv, Sound, Covered, stat
      <4> QED BY <1>2, <3>1, <3>2, <4>1, BeforeOrder
    <3>4. stat.size = Size(file) /\ Size(file) = 2 * file.n + (IF file.partial THEN 1 ELSE 0)
      BY <3>3 DEF Stat, Size
    <3>5. first <= file.n
      BY <1>3, <1>4, <3>4
    <3>6. last <= file.n /\ MaxLines \in Nat /\ MaxLines # 0
      BY <1>3, <1>5, <3>5, SnapshotAssumption
    <3>7. last <= first \/ 2 * last >= stat.size
      BY <1>3, <1>5, <1>9
    <3>8. last >= file.n
      BY <1>3, <1>5, <3>4, <3>6, <3>7
    <3> QED BY <1>3, <1>5, <3>6, <3>8
  <2>2. obs' = Loaded(o, last)
    BY <1>1, <1>9
  <2> HIDE DEF o
  <2>3. Sound(runtime, file, obs', saved, queue, stored)
    BY <1>6, <1>7, <2>1, <2>2, LoadedSound
  <2> QED BY <1>1, <2>3, Scanned
<1> QED BY <1>8, <1>9

LEMMA KeptByWrite == ASSUME IInv, WriteEvent PROVE IInv'
<1>1. CASE Len(queue) >= MaxQueue
  <2>1. Unseen /\ obs' = Ended(obs)
    BY <1>1 DEF WriteEvent, Unseen
  <2>2. Sound(runtime, file, obs', saved, queue, stored)
    BY <2>1, EndedSound DEF IInv
  <2> QED BY <2>1, <2>2, Scanned
<1>2. CASE ~(Len(queue) >= MaxQueue)
  <2> DEFINE todo == obs.todo
             e == Head(todo)
             rest == Tail(todo)
             q == Append(queue, e)
  <2>1. /\ obs.pc = "write" /\ queue' = q /\ stored' = stored
        /\ UNCHANGED <<runtime, file, saved, used>>
        /\ obs' = IF Len(todo) > 1 THEN [obs EXCEPT !.todo = Tail(@)]
                  ELSE [obs EXCEPT !.todo = <<>>, !.pending = obs.next, !.pc = "wait"]
    BY <1>2 DEF WriteEvent, Sink!Write
  <2>2. todo \in Seq(Events) /\ todo # <<>> /\ queue \in Seq(Events) /\ obs \in ObserverType(runtime)
    BY <2>1, ObserverShape DEF IInv, Sound, Durable, ObserverType
  <2>3. /\ e \in Events /\ rest \in Seq(Events) /\ ToSet(todo) = {e} \cup ToSet(rest)
        /\ rest = <<>> <=> Len(todo) = 1
    BY <2>2, Taken
  <2>4. Len(todo) \in Nat /\ Len(todo) # 0
    BY <2>2
  <2>5. q \in Seq(Events) /\ ToSet(q) = ToSet(queue) \cup {e}
    BY <2>2, <2>3, Added
  <2>6. Ids(ToSet(q)) = Ids(ToSet(queue)) \cup Ids({e}) /\ Ids(ToSet(todo)) = Ids({e}) \cup Ids(ToSet(rest))
    BY <2>3, <2>5, IdsOf
  <2>7. /\ Sound(runtime, file, obs, saved, queue, stored)
        /\ Within(obs.next, Ids(stored) \cup Ids(ToSet(q)) \cup Ids(ToSet(rest)))
    BY <2>6 DEF IInv, Sound, Durable, Within
  <2>8. obs.next \in Remembered
    BY <2>2 DEF ObserverType
  <2> HIDE DEF q, e, rest
  <2>9. CASE Len(todo) > 1
    <3>1. obs' = [obs EXCEPT !.todo = rest] /\ rest # <<>>
      <4>1. Len(todo) # 1
        <5> DEFINE l == Len(todo)
        <5>1. l \in Nat /\ l > 1
          BY <2>4, <2>9
        <5> HIDE DEF l
        <5>2. l # 1
          BY <5>1
        <5> QED BY <5>2 DEF l
      <4>2. obs' = [obs EXCEPT !.todo = rest]
        BY <2>1, <2>9 DEF rest
      <4> QED BY <2>3, <4>1, <4>2
    <3>2. Sound(runtime, file, obs', saved, q, stored)
      <4>1. Typed(runtime, file, obs', saved) /\ Covered(runtime, file, obs', saved)
        BY <2>3, <2>7, <3>1 DEF Sound, Typed, Covered, ObserverType
      <4>2. Durable(obs', saved, Ids(ToSet(q)), stored)
        BY <2>1, <2>2, <2>6, <2>7, <3>1 DEF Sound, Durable, ObserverType, Within
      <4> QED BY <4>1, <4>2 DEF Sound
    <3> QED BY <2>1, <2>5, <3>2 DEF IInv
  <2>10. CASE ~(Len(todo) > 1)
    <3>1. rest = <<>> /\ Ids(ToSet(rest)) = {} /\ <<>> \in Seq(Events) /\ ToSet(<<>>) = {}
      <4>1. rest = <<>>
        <5> DEFINE l == Len(todo)
        <5>1. l \in Nat /\ l # 0 /\ ~(l > 1)
          BY <2>4, <2>10
        <5> HIDE DEF l
        <5>2. l = 1
          BY <5>1
        <5> QED BY <2>3, <5>2 DEF l
      <4>2. <<>> \in Seq(Events) /\ ToSet(<<>>) = {}
        BY ObserverShape, RestingTyped
      <4>3. Ids({}) = {}
        BY IdsOf
      <4> QED BY <4>1, <4>2, <4>3
    <3>2. obs' = [obs EXCEPT !.todo = <<>>, !.pending = obs.next, !.pc = "wait"]
      BY <2>1, <2>10
    <3>3. Within(obs.next, Ids(stored) \cup Ids(ToSet(q)))
      BY <2>7, <3>1
    <3>4. Sound(runtime, file, obs', saved, q, stored)
      <4>1. Typed(runtime, file, obs', saved) /\ Covered(runtime, file, obs', saved)
        BY <2>7, <2>8, <3>1, <3>2 DEF Sound, Typed, Covered, ObserverType, Places
      <4>2. Durable(obs', saved, Ids(ToSet(q)), stored)
        BY <2>2, <2>7, <3>2, <3>3 DEF Sound, Durable, ObserverType, Within
      <4> QED BY <4>1, <4>2 DEF Sound
    <3> QED BY <2>1, <2>5, <3>4 DEF IInv
  <2> QED BY <2>9, <2>10
<1> QED BY <1>1, <1>2

LEMMA KeptByAcknowledged == ASSUME IInv, Acknowledged PROVE IInv'
<1>1. obs' = [obs EXCEPT !.pc = "save"] /\ Unseen /\ queue = <<>>
  BY DEF Acknowledged
<1>2. Ids(ToSet(queue)) = {}
  BY <1>1, ObserverShape, RestingTyped, IdsOf
<1>3. Sound(runtime, file, obs', saved, queue, stored)
  BY <1>1, <1>2, ObserverShape DEF IInv, Sound, Typed, ObserverType, Places, Covered, Durable, Within
<1> QED BY <1>1, <1>3, Scanned

LEMMA KeptByFailure == ASSUME IInv, WaitOrSaveFails PROVE IInv'
<1>1. /\ obs' = Ended(obs) /\ UNCHANGED <<runtime, file, saved, queue, stored>>
      /\ used' = used \/ used' = [used EXCEPT !.failures = @ + 1]
  BY DEF WaitOrSaveFails
<1>2. used' \in [edits : Nat, crashes : Nat, failures : Nat]
  BY <1>1 DEF IInv
<1>3. Sound(runtime, file, obs', saved, queue, stored)
  BY <1>1, EndedSound DEF IInv
<1> QED BY <1>1, <1>2, <1>3 DEF IInv

LEMMA KeptBySave == ASSUME IInv, SaveState PROVE IInv'
<1> DEFINE o == [obs EXCEPT !.state = obs.pending, !.pending = NoState]
<1>1. /\ obs.pc = "save" /\ saved' = obs.pending /\ UNCHANGED <<runtime, file, queue, stored, used>>
      /\ obs' = [Ended(obs) EXCEPT !.state = obs.pending, !.pending = NoState]
  BY DEF SaveState
<1>2. /\ obs.pending \in Remembered /\ Covers(runtime, file, obs.pending)
      /\ Within(obs.pending, Ids(stored))
  BY <1>1, ObserverShape DEF IInv, Sound, Covered, Durable, ObserverType
<1>3. /\ Sound(runtime, file, Ended(obs), saved, queue, stored)
      /\ Ended(obs) \in ObserverType(runtime) /\ Ended(obs).pc = "idle"
  BY EndedSound, Resumes DEF IInv, Sound, Typed
<1>4. Sound(runtime, file, obs', saved', queue, stored)
  <2> DEFINE r == Ended(obs)
  <2> HIDE DEF r
  <2>1. /\ Sound(runtime, file, r, saved, queue, stored) /\ r \in ObserverType(runtime)
        /\ obs' = [r EXCEPT !.state = obs.pending, !.pending = NoState] /\ r.pc = "idle"
    BY <1>1, <1>3 DEF r
  <2>2. Typed(runtime, file, obs', saved') /\ Covered(runtime, file, obs', saved')
    BY <1>1, <1>2, <2>1 DEF Sound, Typed, Covered, Covers, ObserverType, Remembered
  <2>3. Durable(obs', saved', Ids(ToSet(queue)), stored)
    BY <1>1, <1>2, <2>1 DEF Sound, Durable, Within, ObserverType
  <2> QED BY <2>2, <2>3 DEF Sound
<1> QED BY <1>1, <1>4 DEF IInv

-----------------------------------------------------------------------------
(* The sink, the agent and the process.                                    *)
LEMMA KeptByStore == ASSUME IInv, SinkStores PROVE IInv'
<1>1. /\ UNCHANGED <<runtime, file, obs, saved, used, queue>>
      /\ \E i \in DOMAIN queue : stored' = stored \cup {queue[i]}
  BY DEF SinkStores, Sink!Store
<1>2. stored' \subseteq Events /\ Ids(stored) \subseteq Ids(stored')
  <2>1. queue \in Seq(Events) /\ stored \subseteq Events
    BY DEF IInv
  <2>2. PICK i \in DOMAIN queue : stored' = stored \cup {queue[i]}
    BY <1>1
  <2>3. queue[i] \in Events
    BY <2>1, <2>2
  <2> QED BY <2>1, <2>2, <2>3 DEF Ids
<1>3. Durable(obs, saved, Ids(ToSet(queue)), stored')
  BY <1>2 DEF IInv, Sound, Durable, Within
<1>4. Sound(runtime, file, obs, saved, queue, stored')
  BY <1>3 DEF IInv, Sound
<1> QED BY <1>1, <1>2, <1>4 DEF IInv

LEMMA KeptByAcknowledge == ASSUME IInv, SinkAcknowledges PROVE IInv'
<1>1. PICK n \in 1 .. Len(queue) :
         /\ \A i \in 1 .. n : queue[i] \in stored
         /\ queue' = SubSeq(queue, n + 1, Len(queue)) /\ UNCHANGED stored
  BY DEF SinkAcknowledges, Sink!Acknowledge
<1>2. queue \in Seq(Events) /\ UNCHANGED <<runtime, file, obs, saved, used>>
  BY DEF IInv, SinkAcknowledges
<1>3. /\ Len(queue) \in Nat /\ n \in Nat /\ n <= Len(queue)
      /\ queue' \in Seq(Events) /\ Len(queue') = Len(queue) - n
      /\ \A i \in 1 .. Len(queue) - n : queue'[i] = queue[n + i]
  BY <1>1, <1>2
<1>4. ToSet(queue) \subseteq stored \cup ToSet(queue')
  <2>1. ToSet(queue) \subseteq {queue[i] : i \in 1 .. n} \cup ToSet(queue')
    BY <1>2, <1>3, Remaining
  <2> QED BY <1>1, <2>1
<1>5. Ids(ToSet(queue)) \subseteq Ids(stored) \cup Ids(ToSet(queue'))
  BY <1>4 DEF Ids
<1>6. Durable(obs, saved, Ids(ToSet(queue')), stored)
  BY <1>5 DEF IInv, Sound, Durable, Within
<1>7. Sound(runtime, file, obs, saved, queue', stored)
  BY <1>6 DEF IInv, Sound
<1> QED BY <1>1, <1>2, <1>3, <1>7 DEF IInv

\* With nothing in memory and nothing in the queue.
LEMMA RestingSound ==
  ASSUME NEW rt \in Runtimes, NEW f \in FileType(rt), NEW sv \in Remembered, NEW st,
         Covers(rt, f, sv), Within(sv, Ids(st))
  PROVE  Sound(rt, f, Resting, sv, <<>>, st)
<1> DEFINE r == Resting
           c == [id |-> 0, lines |-> 0, mtime |-> 0]
<1>1. r = [pc |-> "idle", state |-> NoState, pending |-> NoState, cache |-> c,
           snapshot |-> NoFile, stat |-> NoFile, todo |-> <<>>, next |-> NoState]
  BY DEF Resting
<1>2. c \in CacheType(rt) /\ <<>> \in Seq(Events) /\ NoState \in Remembered
  BY RestingTyped
<1>3. NoFile \in Stats /\ Before(NoFile, Stat(f))
  BY Past
<1> HIDE DEF c, r
<1>4. r \in ObserverType(rt)
  BY <1>1, <1>2, <1>3 DEF ObserverType, Places
<1>5. Covered(rt, f, r, sv)
  BY <1>1, <1>3 DEF Covered, Covers
<1>6. Durable(r, sv, Ids(ToSet(<<>>)), st)
  BY <1>1 DEF Durable, Within
<1> QED BY <1>4, <1>5, <1>6 DEF Sound, Typed, r

LEMMA KeptByCrash == ASSUME IInv, Crash PROVE IInv'
<1>1. /\ used' = [used EXCEPT !.crashes = @ + 1] /\ obs' = Resting /\ queue' = <<>>
      /\ UNCHANGED <<runtime, file, saved, stored>>
  BY DEF Crash
<1>2. used' \in [edits : Nat, crashes : Nat, failures : Nat]
  BY <1>1 DEF IInv
<1>3. Sound(runtime, file, Resting, saved, <<>>, stored)
  BY ObserverShape, RestingSound DEF IInv, Sound, Covered, Durable
<1>4. <<>> \in Seq(Events)
  OBVIOUS
<1> QED BY <1>1, <1>2, <1>3, <1>4 DEF IInv

\* An edit is another time, or a larger file at the same time.
LEMMA EditMovesOn ==
  ASSUME NEW f \in FileType(runtime), NEW g \in FileType(runtime), runtime \in Runtimes,
         \/ g.mtime > f.mtime
         \/ g.mtime = f.mtime /\ Size(g) > Size(f)
  PROVE  Edited(f, g)
<1>1. /\ Stat(f).mtime = f.mtime /\ Stat(g).mtime = g.mtime
      /\ Stat(f).size = Size(f) /\ Stat(g).size = Size(g)
  BY DEF Stat
<1>2. Stat(f) \in Stats /\ Stat(g) \in Stats
  BY StatType
<1>3. f.mtime \in Nat /\ g.mtime \in Nat /\ Size(f) \in Nat /\ Size(g) \in Nat
  BY <1>1, <1>2 DEF FileType, Stats
<1>4. Before(Stat(f), Stat(g))
  BY <1>1, <1>3 DEF Before
<1>5. Stat(f) # Stat(g)
  BY <1>1, <1>3
<1> QED BY <1>4, <1>5 DEF Edited

LEMMA KeptByEdit ==
  ASSUME IInv, NEW new \in FileType(runtime), NEW tick \in {0, 1}, Edit(new, tick),
         new.mtime = file.mtime, tick = 1 \/ Size(new) > Size(file)
  PROVE  IInv'
<1>1. PICK g : g = [new EXCEPT !.mtime = @ + tick]
  OBVIOUS
<1>2. /\ used' = [used EXCEPT !.edits = @ + 1] /\ file' = g
      /\ UNCHANGED <<runtime, obs, saved, queue, stored>>
  BY <1>1 DEF Edit
<1>3. used' \in [edits : Nat, crashes : Nat, failures : Nat]
  BY <1>2 DEF IInv
<1>4. new.mtime \in Nat /\ file.mtime \in Nat /\ file \in FileType(runtime) /\ runtime \in Runtimes
  BY ObserverShape DEF FileType
<1>5. /\ g \in FileType(runtime) /\ g.mtime = file.mtime + tick
      /\ g.n = new.n /\ g.partial = new.partial
  BY <1>1, <1>4 DEF FileType
<1>6. Size(g) = Size(new)
  BY <1>5 DEF Size
<1>7. Edited(file, g)
  <2>1. g.mtime > file.mtime \/ (g.mtime = file.mtime /\ Size(g) > Size(file))
    BY <1>4, <1>5, <1>6
  <2> QED BY <1>4, <1>5, <2>1, EditMovesOn
<1>8. Sound(runtime, g, obs, saved, queue, stored)
  BY <1>4, <1>5, <1>7, EditedSound DEF IInv
<1> QED BY <1>2, <1>3, <1>8 DEF IInv

LEMMA KeptByAppend == ASSUME IInv, AppendRecord PROVE IInv'
<1>1. PICK tick \in {0, 1} :
         \/ Edit([file EXCEPT !.n = @ + 1, !.partial = FALSE], tick)
         \/ ~file.partial /\ Edit([file EXCEPT !.partial = TRUE], tick)
  BY DEF AppendRecord
<1>2. /\ file \in FileType(runtime) /\ file.n + 1 \in Lines(runtime)
      /\ file.n \in Nat /\ file.partial \in BOOLEAN
  BY ObserverShape, LogLength DEF AppendRecord, FileType, Lines
<1>3. CASE Edit([file EXCEPT !.n = @ + 1, !.partial = FALSE], tick)
  <2>1. PICK new : new = [file EXCEPT !.n = @ + 1, !.partial = FALSE]
    OBVIOUS
  <2>2. /\ new \in FileType(runtime) /\ new.mtime = file.mtime
        /\ new.n = file.n + 1 /\ new.partial = FALSE
    BY <1>2, <2>1 DEF FileType
  <2>3. Size(new) > Size(file)
    BY <1>2, <2>2 DEF Size
  <2>4. Edit(new, tick)
    BY <1>3, <2>1
  <2> QED BY <2>2, <2>3, <2>4, KeptByEdit
<1>4. CASE ~file.partial /\ Edit([file EXCEPT !.partial = TRUE], tick)
  <2>1. PICK new : new = [file EXCEPT !.partial = TRUE]
    OBVIOUS
  <2>2. /\ new \in FileType(runtime) /\ new.mtime = file.mtime
        /\ new.n = file.n /\ new.partial = TRUE
    BY <1>2, <2>1 DEF FileType
  <2>3. Size(new) > Size(file)
    BY <1>2, <1>4, <2>2 DEF Size
  <2>4. Edit(new, tick)
    BY <1>4, <2>1
  <2> QED BY <2>2, <2>3, <2>4, KeptByEdit
<1> QED BY <1>1, <1>3, <1>4

LEMMA KeptByRewrite == ASSUME IInv, Rewrite PROVE IInv'
<1>1. PICK m \in 0 .. file.n, id \in {file.id, file.id + 1} :
         Edit([file EXCEPT !.n = m, !.partial = FALSE, !.id = id], 1)
  BY DEF Rewrite
<1>2. file \in FileType(runtime) /\ m \in Lines(runtime) /\ id \in Nat
  BY <1>1, ObserverShape, LogLength DEF FileType, Lines
<1>3. PICK new : new = [file EXCEPT !.n = m, !.partial = FALSE, !.id = id]
  OBVIOUS
<1>4. new \in FileType(runtime) /\ new.mtime = file.mtime
  BY <1>2, <1>3 DEF FileType
<1>5. Edit(new, 1)
  BY <1>1, <1>3
<1> QED BY <1>4, <1>5, KeptByEdit

-----------------------------------------------------------------------------
LEMMA InitInvariant == Init => IInv
<1> SUFFICES ASSUME Init PROVE IInv
  OBVIOUS
<1>1. /\ runtime \in Runtimes /\ obs = Resting /\ saved = NoState /\ queue = <<>> /\ stored = {}
      /\ file = [id |-> 0, n |-> Existing, partial |-> FALSE, mtime |-> 0]
      /\ used = [edits |-> 0, crashes |-> 0, failures |-> 0]
  BY DEF Init, Sink!Init
<1>2. file \in FileType(runtime)
  BY <1>1, SnapshotAssumption DEF FileType, Lines
<1>3. saved \in Remembered /\ Covers(runtime, file, saved) /\ Within(saved, Ids(stored))
  BY <1>1 DEF Remembered, Covers, Within
<1>4. Sound(runtime, file, Resting, saved, <<>>, stored)
  BY <1>1, <1>2, <1>3, RestingSound
<1> QED BY <1>1, <1>4 DEF IInv

LEMMA NextInvariant == IInv /\ [Next]_vars => IInv'
<1> SUFFICES ASSUME IInv, [Next]_vars PROVE IInv'
  OBVIOUS
<1>1. CASE Scan
  BY <1>1, KeptByBegin, KeptBySnapshot, KeptByCacheStat, KeptByRead, KeptByWhole, KeptByEnsure,
     KeptByWrite, KeptBySave DEF Scan
<1>2. CASE Acknowledged \/ WaitOrSaveFails
  BY <1>2, KeptByAcknowledged, KeptByFailure
<1>3. CASE SinkStores \/ SinkAcknowledges \/ Crash
  BY <1>3, KeptByStore, KeptByAcknowledge, KeptByCrash
<1>4. CASE AppendRecord \/ Rewrite
  BY <1>4, KeptByAppend, KeptByRewrite
<1>5. CASE UNCHANGED vars
  BY <1>5 DEF vars, IInv
<1> QED BY <1>1, <1>2, <1>3, <1>4, <1>5 DEF Next

\* What the observer remembers, in memory, pending or saved, is of the past of
\* the file, and what it counts as sent is durable or on its way.
THEOREM Invariant == Spec => []IInv
<1>1. Init => IInv
  BY InitInvariant
<1>2. IInv /\ [Next]_vars => IInv'
  BY NextInvariant
<1> QED BY <1>1, <1>2, PTL DEF Spec

\* CommittedIsStored: an event that the state file counts as sent is durable,
\* whatever times out, crashes or is rewritten in between.
THEOREM CommittedStaysStored == Spec => []CommittedIsStored
<1>1. IInv => CommittedIsStored
  BY DEF IInv, Sound, Durable, Within, CommittedIsStored
<1> QED BY <1>1, Invariant, PTL

\* SkippedIsSent: a file that is skipped because it looks as it did at the last
\* commit maps to nothing that was not sent, although it goes on changing while
\* it is loaded and while the commit waits.
THEOREM NothingIsSkipped == Spec => []SkippedIsSent
<1>1. IInv => SkippedIsSent
  BY DEF IInv, Sound, Covered, Covers, SkippedIsSent, FileIds
<1> QED BY <1>1, Invariant, PTL
=============================================================================
