-------------------------- MODULE CoreProcessProofs --------------------------
(***************************************************************************)
(* Theorems of CoreProcess for any number of cores, faults, records, tickets *)
(* and readings of the clock: the core that serves is the one core.json      *)
(* names, and a browser's ticket is good for one attempt across restarts.    *)
(***************************************************************************)
EXTENDS CoreProcess, FiniteSetTheorems, TLAPS

-----------------------------------------------------------------------------
(* Induction *)

\* Every set of naturals has a least element.
LEMMA Least ==
  ASSUME NEW T \in SUBSET Nat, T # {}
  PROVE  \E x \in T : \A y \in T : x <= y
<1> DEFINE Below == {0..x : x \in T}
<1>1. Below \subseteq FiniteSubsetsOf(Nat)
  <2> SUFFICES ASSUME NEW x \in T PROVE 0..x \in FiniteSubsetsOf(Nat)
    OBVIOUS
  <2>1. IsFiniteSet(0..x) /\ 0..x \in SUBSET Nat
    BY FS_Interval
  <2>2. QED
    BY <2>1 DEF FiniteSubsetsOf
<1>2. Below # {}
  OBVIOUS
<1>3. PICK b \in Below : \A c \in Below : <<c, b>> \notin StrictSubsetOrdering(Nat)
  <2> HIDE DEF Below
  <2>1. QED
    BY <1>1, <1>2, FS_StrictSubsetOrderingWellFounded, WFMin
<1>4. PICK x \in T : b = 0..x
  BY <1>3
<1>5. \A y \in T : x <= y
  <2> SUFFICES ASSUME NEW y \in T, y < x PROVE FALSE
    OBVIOUS
  <2>1. 0..y \in Below /\ 0..y \subseteq 0..x /\ x \in 0..x /\ x \notin 0..y
    OBVIOUS
  <2>2. 0..y \in SUBSET Nat /\ 0..x \in SUBSET Nat /\ 0..y # 0..x
    BY <2>1
  <2>3. <<0..y, b>> \in StrictSubsetOrdering(Nat)
    BY <1>4, <2>1, <2>2 DEF StrictSubsetOrdering
  <2>4. QED
    BY <1>3, <2>1, <2>3
<1>6. QED
  BY <1>5

\* A set that has 0, and with every number below n the next, has all up to n.
LEMMA UpTo ==
  ASSUME NEW n \in Nat, NEW S, 0 \in S, \A k \in 0..(n-1) : k \in S => k + 1 \in S
  PROVE  0..n \subseteq S
<1> SUFFICES ASSUME (0..n) \ S # {} PROVE FALSE
  OBVIOUS
<1> DEFINE left == (0..n) \ S
<1>1. PICK k \in left : \A j \in left : k <= j
  <2>1. left \in SUBSET Nat /\ left # {}
    OBVIOUS
  <2> HIDE DEF left
  <2>2. QED
    BY <2>1, Least
<1>2. k # 0 /\ k - 1 \in 0..(n-1) /\ k - 1 \in S
  BY <1>1
<1>3. QED
  BY <1>1, <1>2

Iterates(f, base, step, n) ==
  f[0] = base /\ \A i \in 1..n : f[i] = step[i][f[i-1]]

\* A value can be derived from the one before n times.
LEMMA Iterated ==
  ASSUME NEW n \in Nat, NEW V, NEW base \in V, NEW step \in [1..n -> [V -> V]]
  PROVE  \E f \in [0..n -> V] : Iterates(f, base, step, n)
<1> DEFINE Defined(f, m) == f[0] = base /\ \A i \in 1..m : f[i] = step[i][f[i-1]]
           S == {m \in 0..n : \E f \in [0..n -> V] : Defined(f, m)}
<1>1. 0 \in S
  <2>1. [i \in 0..n |-> base] \in [0..n -> V] /\ Defined([i \in 0..n |-> base], 0)
    OBVIOUS
  <2>2. 0 \in 0..n
    OBVIOUS
  <2> HIDE DEF Defined
  <2>3. QED
    BY <2>1, <2>2
<1>2. ASSUME NEW m \in 0..(n-1), m \in S
      PROVE  m + 1 \in S
  <2>1. PICK f \in [0..n -> V] : Defined(f, m)
    BY <1>2
  <2> DEFINE g == [f EXCEPT ![m+1] = step[m+1][f[m]]]
  <2>2. step[m+1][f[m]] \in V
    OBVIOUS
  <2>3. g \in [0..n -> V] /\ g[m+1] = step[m+1][f[m]] /\ \A i \in 0..m : g[i] = f[i]
    BY <2>2
  <2>4. Defined(g, m+1)
    <3> HIDE DEF g
    <3>1. QED
      BY <2>1, <2>3
  <2>5. m + 1 \in 0..n
    OBVIOUS
  <2> HIDE DEF g, Defined
  <2>6. QED
    BY <2>3, <2>4, <2>5
<1>3. n \in S
  <2> HIDE DEF S
  <2>1. 0..n \subseteq S
    BY <1>1, <1>2, UpTo
  <2>2. QED
    BY <2>1
<1>4. QED
  BY <1>3 DEF Iterates

-----------------------------------------------------------------------------
(* How long a log is *)

LEMMA SizesUpTo ==
  ASSUME NEW c \in Files
  PROVE  /\ SizeUpTo(c) \in [0..Len(c) -> Nat]
         /\ SizeUpTo(c)[0] = 0
         /\ \A i \in 1..Len(c) : SizeUpTo(c)[i] = SizeUpTo(c)[i-1] + c[i].size
<1>1. Len(c) \in Nat /\ \A i \in 1..Len(c) : c[i].size \in Nat
  <2>1. Len(c) \in Nat /\ \A i \in 1..Len(c) : c[i] \in LogRecord
    BY DEF Files
  <2>2. QED
    BY <2>1 DEF LogRecord
<1> DEFINE step == [i \in 1..Len(c) |-> [v \in Nat |-> v + c[i].size]]
<1>2. step \in [1..Len(c) -> [Nat -> Nat]]
  BY <1>1
<1>3. \A i \in 1..Len(c), v \in Nat : step[i][v] = v + c[i].size
  BY <1>1
<1>4. PICK f \in [0..Len(c) -> Nat] : f[0] = 0 /\ \A i \in 1..Len(c) : f[i] = step[i][f[i-1]]
  <2> HIDE DEF step
  <2> DEFINE n == Len(c)
             V == Nat
             base == 0
  <2>1. base \in V /\ n \in Nat /\ step \in [1..n -> [V -> V]]
    BY <1>1, <1>2
  <2> HIDE DEF n, V, base
  <2>2. \E f \in [0..n -> V] : Iterates(f, base, step, n)
    BY <2>1, Iterated
  <2>3. QED
    BY <2>2 DEF Iterates, n, V, base
<1> HIDE DEF step
<1>5. \A i \in 1..Len(c) : f[i] = f[i-1] + c[i].size
  <2> TAKE i \in 1..Len(c)
  <2>1. i - 1 \in 0..Len(c)
    BY <1>1
  <2>2. QED
    BY <1>3, <1>4, <2>1
<1>6. f = [n \in 0..Len(c) |-> IF n = 0 THEN 0 ELSE f[n-1] + c[n].size]
  BY <1>1, <1>4, <1>5
<1>7. SizeUpTo(c) = [n \in 0..Len(c) |-> IF n = 0 THEN 0 ELSE SizeUpTo(c)[n-1] + c[n].size]
  BY <1>6 DEF SizeUpTo
<1> DEFINE g == SizeUpTo(c)
<1> HIDE DEF g
<1>8. g = [n \in 0..Len(c) |-> IF n = 0 THEN 0 ELSE g[n-1] + c[n].size]
  BY <1>7 DEF g
<1>9. g[0] = 0 /\ \A i \in 1..Len(c) : g[i] = g[i-1] + c[i].size
  <2>1. 0 \in 0..Len(c) /\ \A i \in 1..Len(c) : i \in 0..Len(c) /\ i # 0
    BY <1>1
  <2>2. \A n \in 0..Len(c) : g[n] = IF n = 0 THEN 0 ELSE g[n-1] + c[n].size
    BY <1>8
  <2>3. QED
    BY <2>1, <2>2
<1>10. \A i \in 0..Len(c) : g[i] \in Nat
  <2> DEFINE S == {i \in 0..Len(c) : g[i] \in Nat}
  <2>1. 0 \in S
    BY <1>1, <1>9
  <2>2. ASSUME NEW k \in 0..(Len(c)-1), k \in S
        PROVE  k + 1 \in S
    <3>1. k + 1 \in 1..Len(c) /\ k + 1 \in 0..Len(c) /\ (k + 1) - 1 = k
      BY <1>1
    <3>2. g[k+1] = g[k] + c[k+1].size
      BY <1>9, <3>1
    <3>3. QED
      BY <1>1, <2>2, <3>1, <3>2
  <2>3. 0..Len(c) \subseteq S
    <3> HIDE DEF S
    <3>1. QED
      BY <1>1, <2>1, <2>2, UpTo
  <2>4. QED
    BY <2>3
<1>11. QED
  BY <1>8, <1>9, <1>10 DEF g

\* Logs that begin with the same records are equally long so far.
LEMMA SameStart ==
  ASSUME NEW c \in Files, NEW d \in Files, NEW n \in 0..Len(c), n <= Len(d),
         \A i \in 1..n : c[i].size = d[i].size
  PROVE  SizeUpTo(c)[n] = SizeUpTo(d)[n]
<1> DEFINE S == {i \in 0..n : SizeUpTo(c)[i] = SizeUpTo(d)[i]}
<1>1. Len(c) \in Nat /\ Len(d) \in Nat
  BY DEF Files
<1>2. 0 \in S
  BY <1>1, SizesUpTo
<1>3. \A k \in 0..(n-1) : k \in S => k + 1 \in S
  <2> SUFFICES ASSUME NEW k \in 0..(n-1), k \in S PROVE k + 1 \in S
    OBVIOUS
  <2>1. k + 1 \in 1..Len(c) /\ k + 1 \in 1..Len(d) /\ k + 1 \in 1..n /\ k + 1 \in 0..n
    BY <1>1
  <2>2. (k + 1) - 1 = k
    OBVIOUS
  <2>3. /\ SizeUpTo(c)[k+1] = SizeUpTo(c)[k] + c[k+1].size
        /\ SizeUpTo(d)[k+1] = SizeUpTo(d)[k] + d[k+1].size
    BY <2>1, <2>2, SizesUpTo
  <2>4. QED
    BY <2>1, <2>3
<1>4. 0..n \subseteq S
  <2> HIDE DEF S
  <2>1. n \in Nat
    BY <1>1
  <2>2. QED
    BY <1>2, <1>3, <2>1, UpTo
<1>5. n \in S
  BY <1>1, <1>4
<1>6. QED
  BY <1>5

\* A part of a sequence has the elements that stand there.
LEMMA Slice ==
  ASSUME NEW R, NEW c \in Seq(R), NEW m \in 1..(Len(c)+1), NEW n \in (m-1)..Len(c)
  PROVE  /\ SubSeq(c, m, n) \in Seq(R)
         /\ Len(SubSeq(c, m, n)) = n - m + 1
         /\ \A i \in 1..(n-m+1) : SubSeq(c, m, n)[i] = c[i+m-1]
<1>1. SubSeq(c, m, n) \in Seq(R)
  OBVIOUS
<1>2. Len(SubSeq(c, m, n)) = n - m + 1
  OBVIOUS
<1>3. \A i \in 1..(n-m+1) : SubSeq(c, m, n)[i] = c[i+m-1]
  OBVIOUS
<1>4. QED
  BY <1>1, <1>2, <1>3

\* The lengths of the logs that the operations make.
LEMMA BytesFacts ==
  ASSUME NEW c \in Files
  PROVE  /\ Bytes(c) \in Nat
         /\ Bytes(<<>>) = 0
         /\ \A r \in LogRecord : Bytes(Append(c, r)) = Bytes(c) + r.size
         /\ c # <<>> => Bytes(Front(c)) + Last(c).size = Bytes(c)
<1>1. Len(c) \in Nat /\ Len(c) \in 0..Len(c) /\ <<>> \in Files /\ Len(<<>>) = 0
  BY DEF Files
<1>2. Bytes(c) \in Nat /\ Bytes(<<>>) = 0
  BY <1>1, SizesUpTo DEF Bytes
<1>3. ASSUME NEW r \in LogRecord
      PROVE  Bytes(Append(c, r)) = Bytes(c) + r.size
  <2> DEFINE d == Append(c, r)
  <2>1. d \in Files /\ Len(d) = Len(c) + 1 /\ d[Len(c) + 1] = r
        /\ \A i \in 1..Len(c) : d[i] = c[i]
    BY DEF Files, LogRecord
  <2> HIDE DEF d
  <2>2. SizeUpTo(d)[Len(c)] = SizeUpTo(c)[Len(c)]
    BY <1>1, <2>1, SameStart
  <2>3. Len(d) \in 1..Len(d) /\ Len(d) - 1 = Len(c)
    BY <1>1, <2>1
  <2>4. SizeUpTo(d)[Len(d)] = SizeUpTo(d)[Len(c)] + r.size
    BY <2>1, <2>3, SizesUpTo
  <2>5. QED
    BY <2>2, <2>4 DEF Bytes, d
<1>4. ASSUME c # <<>>
      PROVE  Bytes(Front(c)) + Last(c).size = Bytes(c)
  <2> DEFINE d == Front(c)
  <2>1. Len(c) >= 1 /\ d \in Files /\ Len(d) = Len(c) - 1
        /\ \A i \in 1..Len(d) : d[i] = c[i]
    <3>1. Len(c) >= 1 /\ Len(c) - 1 \in 0..Len(c)
      BY <1>1, <1>4 DEF Files
    <3>2. /\ d \in Seq(LogRecord) /\ Len(d) = Len(c) - 1
          /\ \A i \in 1..Len(d) : d[i] = c[i]
      <4> DEFINE n == Len(c) - 1
      <4>1. c \in Seq(LogRecord) /\ n \in 0..Len(c)
        BY <3>1 DEF Files
      <4>2. d = SubSeq(c, 1, n) /\ n \in 0..Len(c) /\ 1 \in 1..(Len(c)+1) /\ 1 - 1 = 0
        BY <1>1, <4>1 DEF Front
      <4>3. n - 1 + 1 = n /\ \A i \in 1..n : i + 1 - 1 = i
        BY <1>1
      <4> HIDE DEF n, d
      <4>4. /\ SubSeq(c, 1, n) \in Seq(LogRecord) /\ Len(SubSeq(c, 1, n)) = n
            /\ \A i \in 1..n : SubSeq(c, 1, n)[i] = c[i]
        BY <4>1, <4>2, <4>3, Slice
      <4>5. QED
        BY <4>2, <4>4 DEF n
    <3>3. QED
      BY <3>1, <3>2 DEF Files
  <2> HIDE DEF d
  <2>2. SizeUpTo(d)[Len(d)] = SizeUpTo(c)[Len(d)]
    <3>1. Len(d) \in 0..Len(d) /\ Len(d) <= Len(c)
      BY <1>1, <2>1
    <3>2. QED
      BY <2>1, <3>1, SameStart
  <2>3. Len(c) \in 1..Len(c)
    BY <1>1, <2>1
  <2>4. SizeUpTo(c)[Len(c)] = SizeUpTo(c)[Len(d)] + Last(c).size
    BY <2>1, <2>3, SizesUpTo DEF Last
  <2>5. QED
    BY <2>2, <2>4 DEF Bytes, d
<1>5. QED
  BY <1>2, <1>3, <1>4

-----------------------------------------------------------------------------
(* What is left of a log *)

PartOf(d, c) == d \in Files /\ \A j \in DOMAIN d : \E i \in DOMAIN c : d[j] = c[i]

LEMMA KeptUpToFacts ==
  ASSUME NEW c \in Files
  PROVE  /\ KeptUpTo(c) \in [0..Len(c) -> Files]
         /\ KeptUpTo(c)[0] = <<>>
         /\ \A i \in 1..Len(c) :
              KeptUpTo(c)[i] = IF c[i].id \in expired THEN KeptUpTo(c)[i-1]
                               ELSE Append(KeptUpTo(c)[i-1], c[i])
<1>1. Len(c) \in Nat /\ \A i \in 1..Len(c) : c[i] \in LogRecord
  BY DEF Files
<1> DEFINE step == [i \in 1..Len(c) |->
                      [v \in Files |-> IF c[i].id \in expired THEN v ELSE Append(v, c[i])]]
<1>2. step \in [1..Len(c) -> [Files -> Files]]
  BY <1>1 DEF Files
<1>3. \A i \in 1..Len(c), v \in Files :
        step[i][v] = IF c[i].id \in expired THEN v ELSE Append(v, c[i])
  BY <1>1
<1> HIDE DEF step
<1>4. PICK f \in [0..Len(c) -> Files] : Iterates(f, <<>>, step, Len(c))
  <2> DEFINE n == Len(c)
             V == Files
             base == <<>>
  <2>1. base \in V /\ n \in Nat /\ step \in [1..n -> [V -> V]]
    BY <1>1, <1>2 DEF Files
  <2> HIDE DEF n, V, base
  <2>2. \E f \in [0..n -> V] : Iterates(f, base, step, n)
    BY <2>1, Iterated
  <2>3. QED
    BY <2>2 DEF n, V, base
<1>5. \A i \in 1..Len(c) :
        f[i] = IF c[i].id \in expired THEN f[i-1] ELSE Append(f[i-1], c[i])
  <2> TAKE i \in 1..Len(c)
  <2>1. i - 1 \in 0..Len(c)
    BY <1>1
  <2>2. f[i] = step[i][f[i-1]] /\ f[i-1] \in Files
    BY <1>4, <2>1 DEF Iterates
  <2>3. QED
    BY <1>3, <2>2
<1>6. f = [n \in 0..Len(c) |->
             IF n = 0 THEN <<>>
             ELSE IF c[n].id \in expired THEN f[n-1] ELSE Append(f[n-1], c[n])]
  <2>1. f[0] = <<>>
    BY <1>4 DEF Iterates
  <2>2. \A n \in 0..Len(c) : n # 0 => n \in 1..Len(c)
    BY <1>1
  <2>3. QED
    BY <1>4, <1>5, <2>1, <2>2
<1>7. KeptUpTo(c) = [n \in 0..Len(c) |->
             IF n = 0 THEN <<>>
             ELSE IF c[n].id \in expired THEN KeptUpTo(c)[n-1]
                  ELSE Append(KeptUpTo(c)[n-1], c[n])]
  BY <1>6 DEF KeptUpTo
<1> DEFINE g == KeptUpTo(c)
<1> HIDE DEF g
<1>8. g = [n \in 0..Len(c) |->
             IF n = 0 THEN <<>>
             ELSE IF c[n].id \in expired THEN g[n-1] ELSE Append(g[n-1], c[n])]
  BY <1>7 DEF g
<1>9. /\ g[0] = <<>>
      /\ \A i \in 1..Len(c) : g[i] = IF c[i].id \in expired THEN g[i-1] ELSE Append(g[i-1], c[i])
  <2>1. 0 \in 0..Len(c) /\ \A i \in 1..Len(c) : i \in 0..Len(c) /\ i # 0
    BY <1>1
  <2>2. \A n \in 0..Len(c) :
          g[n] = IF n = 0 THEN <<>>
                 ELSE IF c[n].id \in expired THEN g[n-1] ELSE Append(g[n-1], c[n])
    BY <1>8
  <2>3. QED
    BY <2>1, <2>2
<1>10. \A i \in 0..Len(c) : g[i] \in Files
  <2> DEFINE S == {i \in 0..Len(c) : g[i] \in Files}
  <2>1. 0 \in S
    <3>1. 0 \in 0..Len(c) /\ <<>> \in Files
      BY <1>1 DEF Files
    <3>2. QED
      BY <1>9, <3>1
  <2>2. ASSUME NEW k \in 0..(Len(c)-1), k \in S
        PROVE  k + 1 \in S
    <3>1. k + 1 \in 1..Len(c) /\ k + 1 \in 0..Len(c) /\ (k + 1) - 1 = k
      BY <1>1
    <3>2. g[k+1] = IF c[k+1].id \in expired THEN g[k] ELSE Append(g[k], c[k+1])
      BY <1>9, <3>1
    <3>3. g[k] \in Files /\ c[k+1] \in LogRecord
      BY <1>1, <2>2, <3>1
    <3>4. g[k+1] \in Files
      BY <3>2, <3>3 DEF Files
    <3>5. QED
      BY <3>1, <3>4
  <2>3. 0..Len(c) \subseteq S
    <3> HIDE DEF S
    <3>1. QED
      BY <1>1, <2>1, <2>2, UpTo
  <2>4. QED
    BY <2>3
<1>11. QED
  BY <1>8, <1>9, <1>10 DEF g

\* Appending adds one element to those there are.
LEMMA Appended ==
  ASSUME NEW d \in Files, NEW r \in LogRecord
  PROVE  /\ Append(d, r) \in Files
         /\ Len(Append(d, r)) = Len(d) + 1
         /\ \A j \in DOMAIN d : j \in DOMAIN Append(d, r) /\ Append(d, r)[j] = d[j]
         /\ Len(d) + 1 \in DOMAIN Append(d, r) /\ Append(d, r)[Len(d) + 1] = r
         /\ \A j \in DOMAIN Append(d, r) : j \in DOMAIN d \/ j = Len(d) + 1
  BY DEF Files

\* Nothing that is whole is lost by it.
LEMMA WholeGrows ==
  ASSUME NEW d \in Files, NEW r \in LogRecord
  PROVE  /\ Whole(d) \subseteq Whole(Append(d, r))
         /\ ~r.torn => r.id \in Whole(Append(d, r))
<1> DEFINE c == Append(d, r)
<1>1. /\ \A j \in DOMAIN d : j \in DOMAIN c /\ c[j] = d[j]
      /\ Len(d) + 1 \in DOMAIN c /\ c[Len(d) + 1] = r
  BY Appended
<1> HIDE DEF c
<1>2. Whole(d) \subseteq Whole(c) /\ (~r.torn => r.id \in Whole(c))
  BY <1>1 DEF Whole
<1>3. QED
  BY <1>2 DEF c

\* Pruning keeps what is not expired, and nothing gets longer.
LEMMA UnexpiredFacts ==
  ASSUME NEW c \in Files
  PROVE  /\ PartOf(Unexpired(c), c)
         /\ Bytes(Unexpired(c)) <= Bytes(c)
         /\ \A i \in DOMAIN c : c[i].id \notin expired =>
              \E j \in DOMAIN Unexpired(c) : Unexpired(c)[j] = c[i]
<1> DEFINE g == KeptUpTo(c)
           Good(n) == /\ Bytes(g[n]) <= SizeUpTo(c)[n]
                      /\ \A j \in DOMAIN g[n] : \E i \in 1..n : g[n][j] = c[i]
                      /\ \A i \in 1..n : c[i].id \notin expired =>
                           \E j \in DOMAIN g[n] : g[n][j] = c[i]
           S == {n \in 0..Len(c) : Good(n)}
<1>1. Len(c) \in Nat /\ DOMAIN c = 1..Len(c) /\ \A i \in 1..Len(c) : c[i] \in LogRecord
  BY DEF Files
<1>2. /\ g \in [0..Len(c) -> Files] /\ g[0] = <<>>
      /\ \A i \in 1..Len(c) :
           g[i] = IF c[i].id \in expired THEN g[i-1] ELSE Append(g[i-1], c[i])
  BY KeptUpToFacts
<1> HIDE DEF g
<1>3. 0 \in S
  <2>1. Bytes(g[0]) = 0 /\ SizeUpTo(c)[0] = 0 /\ 0 \in 0..Len(c)
    BY <1>1, <1>2, BytesFacts, SizesUpTo
  <2>2. DOMAIN g[0] = {} /\ 1..0 = {}
    BY <1>2
  <2>3. QED
    BY <2>1, <2>2
<1>4. ASSUME NEW k \in 0..(Len(c)-1), k \in S
      PROVE  k + 1 \in S
  <2>1. /\ k + 1 \in 1..Len(c) /\ k + 1 \in 0..Len(c) /\ k \in 0..Len(c)
        /\ (k + 1) - 1 = k
        /\ \A i \in 1..(k+1) : i \in 1..k \/ i = k + 1
        /\ \A i \in 1..k : i \in 1..(k+1)
        /\ k + 1 \in 1..(k+1)
    BY <1>1
  <2>2. g[k+1] = IF c[k+1].id \in expired THEN g[k] ELSE Append(g[k], c[k+1])
    BY <1>2, <2>1
  <2>3. /\ SizeUpTo(c)[k+1] = SizeUpTo(c)[k] + c[k+1].size
        /\ SizeUpTo(c)[k] \in Nat /\ c[k+1].size \in Nat
        /\ g[k] \in Files /\ c[k+1] \in LogRecord /\ Bytes(g[k]) \in Nat
    <3>1. SizeUpTo(c)[k+1] = SizeUpTo(c)[k] + c[k+1].size /\ SizeUpTo(c)[k] \in Nat
      BY <2>1, SizesUpTo
    <3>2. g[k] \in Files /\ c[k+1] \in LogRecord
      BY <1>1, <1>2, <2>1
    <3>3. QED
      BY <3>1, <3>2, BytesFacts DEF LogRecord
  <2>4. Good(k)
    BY <1>4
  <2>5. CASE c[k+1].id \in expired
    <3>1. g[k+1] = g[k]
      BY <2>2, <2>5
    <3>2. Bytes(g[k+1]) <= SizeUpTo(c)[k+1]
      BY <2>3, <2>4, <3>1
    <3>3. QED
      BY <2>1, <2>4, <2>5, <3>1, <3>2
  <2>6. CASE c[k+1].id \notin expired
    <3>1. g[k+1] = Append(g[k], c[k+1])
      BY <2>2, <2>6
    <3> DEFINE d == g[k]
               e == g[k+1]
               r == c[k+1]
    <3>10. /\ \A j \in DOMAIN d : j \in DOMAIN e /\ e[j] = d[j]
          /\ Len(d) + 1 \in DOMAIN e /\ e[Len(d) + 1] = r
          /\ \A j \in DOMAIN e : j \in DOMAIN d \/ j = Len(d) + 1
      <4>1. e = Append(d, r) /\ d \in Files /\ r \in LogRecord
        BY <2>3, <3>1
      <4> HIDE DEF d, e, r
      <4>2. QED
        BY <4>1, Appended
    <3>2. Bytes(g[k+1]) <= SizeUpTo(c)[k+1]
      BY <2>3, <2>4, <3>1, BytesFacts
    <3>3. \A j \in DOMAIN g[k+1] : \E i \in 1..(k+1) : g[k+1][j] = c[i]
      <4> TAKE j \in DOMAIN g[k+1]
      <4>1. CASE j \in DOMAIN g[k]
        <5>1. PICK i \in 1..k : g[k][j] = c[i]
          BY <2>4, <4>1
        <5>2. g[k+1][j] = g[k][j]
          BY <3>10, <4>1
        <5>3. QED
          BY <2>1, <5>1, <5>2
      <4>2. CASE j = Len(g[k]) + 1
        BY <2>1, <3>10, <4>2
      <4>3. QED
        BY <3>10, <4>1, <4>2
    <3>4. \A i \in 1..(k+1) : c[i].id \notin expired =>
            \E j \in DOMAIN g[k+1] : g[k+1][j] = c[i]
      <4> TAKE i \in 1..(k+1)
      <4>1. CASE i \in 1..k
        BY <2>4, <3>10, <4>1
      <4>2. CASE i = k + 1
        BY <3>10, <4>2
      <4>3. QED
        BY <2>1, <4>1, <4>2
    <3>5. QED
      BY <2>1, <3>2, <3>3, <3>4
  <2>7. QED
    BY <2>5, <2>6
<1>5. Len(c) \in S
  <2> HIDE DEF S
  <2>1. 0..Len(c) \subseteq S
    BY <1>1, <1>3, <1>4, UpTo
  <2>2. QED
    BY <1>1, <2>1
<1>6. Unexpired(c) = g[Len(c)] /\ Bytes(c) = SizeUpTo(c)[Len(c)] /\ g[Len(c)] \in Files
  BY <1>1, <1>2 DEF Unexpired, Bytes, g
<1>7. QED
  BY <1>1, <1>5, <1>6 DEF PartOf

\* Compaction leaves room for the record to come.
LEMMA NewestFacts ==
  ASSUME NEW c \in Files, NEW size \in Nat, size <= MaxBytes
  PROVE  /\ PartOf(Newest(c, size), c) /\ Bytes(Newest(c, size)) + size <= MaxBytes
         /\ Ids(c) \ Displaced(c, MaxBytes - size) \subseteq Ids(Newest(c, size))
<1> DEFINE fits == {k \in 1..(Len(c) + 1) : Bytes(SubSeq(c, k, Len(c))) <= RoomBeside(size)}
           first == CHOOSE k \in fits : \A j \in fits : k <= j
<1>1. Len(c) \in Nat /\ MaxBytes \in Nat /\ c \in Seq(LogRecord) /\ DOMAIN c = 1..Len(c)
  BY LogsAssumption DEF Files
<1>2. Len(c) + 1 \in fits
  <2>1. SubSeq(c, Len(c) + 1, Len(c)) = <<>>
    BY <1>1
  <2>2. Bytes(<<>>) = 0
    BY BytesFacts
  <2>3. Bytes(SubSeq(c, Len(c) + 1, Len(c))) <= RoomBeside(size)
    <3>1. 0 <= RoomBeside(size)
      BY <1>1 DEF RoomBeside
    <3>2. QED
      BY <2>1, <2>2, <3>1
  <2>4. Len(c) + 1 \in 1..(Len(c) + 1)
    BY <1>1
  <2>5. QED
    BY <2>3, <2>4
<1>3. fits \in SUBSET Nat /\ \A k \in fits : k \in 1..(Len(c) + 1)
                                /\ Bytes(SubSeq(c, k, Len(c))) <= RoomBeside(size)
  BY <1>1
<1>4. Newest(c, size) = SubSeq(c, first, Len(c))
  BY DEF Newest
<1> HIDE DEF fits
<1>5. first \in fits
  BY <1>2, <1>3, Least
<1> HIDE DEF first
<1>6. /\ first \in 1..(Len(c)+1) /\ Len(c) \in (first - 1)..Len(c)
      /\ Bytes(Newest(c, size)) <= MaxBytes - size
  BY <1>1, <1>3, <1>4, <1>5 DEF RoomBeside
<1>7. /\ Newest(c, size) \in Seq(LogRecord)
      /\ Len(Newest(c, size)) = Len(c) - first + 1
      /\ \A i \in 1..(Len(c)-first+1) : Newest(c, size)[i] = c[i+first-1]
  BY <1>1, <1>4, <1>6, Slice
<1>8. \A j \in DOMAIN Newest(c, size) : \E i \in DOMAIN c : Newest(c, size)[j] = c[i]
  <2> TAKE j \in DOMAIN Newest(c, size)
  <2>1. j \in 1..(Len(c)-first+1)
    BY <1>7
  <2>2. j + first - 1 \in 1..Len(c)
    BY <1>1, <1>6, <2>1
  <2>3. QED
    BY <1>1, <1>7, <2>1, <2>2
<1>9. Bytes(Newest(c, size)) \in Nat
  BY <1>7, BytesFacts DEF Files
<1>10. ASSUME NEW i \in DOMAIN c, c[i].id \notin Displaced(c, MaxBytes - size)
       PROVE  c[i].id \in Ids(Newest(c, size))
  <2>1. ~(Bytes(SubSeq(c, i, Len(c))) > MaxBytes - size)
    BY <1>10 DEF Displaced
  <2>2. Bytes(SubSeq(c, i, Len(c))) \in Nat
    <3>1. i \in 1..(Len(c)+1) /\ Len(c) \in (i - 1)..Len(c)
      BY <1>1
    <3>2. SubSeq(c, i, Len(c)) \in Seq(LogRecord)
      BY <1>1, <3>1, Slice
    <3>3. QED
      BY <3>2, BytesFacts DEF Files
  <2>3. i \in fits
    BY <1>1, <2>1, <2>2 DEF fits, RoomBeside
  <2>4. first <= i
    BY <1>2, <1>3, <2>3, Least DEF first
  <2>5. i - first + 1 \in 1..(Len(c)-first+1) /\ (i - first + 1) + first - 1 = i
    BY <1>1, <1>6, <2>4
  <2>6. Newest(c, size)[i - first + 1] = c[i] /\ i - first + 1 \in DOMAIN Newest(c, size)
    <3>1. DOMAIN Newest(c, size) = 1..(Len(c)-first+1)
      BY <1>7
    <3> DEFINE j == i - first + 1
    <3>2. j \in 1..(Len(c)-first+1) /\ j + first - 1 = i
      BY <2>5
    <3> HIDE DEF j
    <3>3. Newest(c, size)[j] = c[j + first - 1]
      BY <1>7, <3>2
    <3>4. QED
      BY <3>1, <3>2, <3>3 DEF j
  <2>7. QED
    BY <2>6 DEF Ids
<1>11. Ids(c) \ Displaced(c, MaxBytes - size) \subseteq Ids(Newest(c, size))
  BY <1>10 DEF Ids
<1>12. QED
  BY <1>1, <1>6, <1>7, <1>8, <1>9, <1>11 DEF PartOf, Files

-----------------------------------------------------------------------------
(* One log at a time *)

\* What the invariant says of one log: what is in the file, what a failure may
\* leave, the operation under way and the records that were acknowledged.
GoodLog(l, c, left, w, done) ==
  /\ c \in Files /\ left \in SUBSET Files /\ c \in left
  /\ w \in Operations /\ done \in SUBSET Nat
  /\ w.step \in {"opened", "compacted"} => Bytes(c) + w.record.size <= MaxBytes
  /\ w.step = "half" => c # <<>> /\ Last(c) = [w.record EXCEPT !.torn = TRUE]
  /\ w.step = "written" => w.record.id \in Whole(c)
  /\ \A d \in left : done \subseteq Whole(d) /\ Bytes(d) <= MaxBytes
  /\ l = "feedback" =>
       /\ w.step \in {"idle", "written"}
       /\ \A d \in left : Readable(d) /\ Len(d) <= MaxEntries

Good(l) == GoodLog(l, log[l], logImages[l], writing[l], recorded[l])

Tables ==
  /\ log \in [Logs -> Files] /\ logImages \in [Logs -> SUBSET Files]
  /\ writing \in [Logs -> Operations] /\ recorded \in [Logs -> SUBSET Nat]
  /\ issued \in Nat

LEMMA EachLog == LogsInv <=> Tables /\ \A l \in Logs : Good(l)
<1>1. "feedback" \in Logs
  BY DEF Logs
<1>2. ASSUME LogsInv
      PROVE  Tables /\ \A l \in Logs : Good(l)
  BY <1>2 DEF LogsInv, LogsTyped, StepsShow, FeedbackIsWhole, AcknowledgedRecordsSurvive,
     LogsStayWithinTheirLimit, Tables, Good, GoodLog, LogAt
<1>3. ASSUME Tables, \A l \in Logs : Good(l)
      PROVE  LogsInv
  BY <1>1, <1>3 DEF LogsInv, LogsTyped, StepsShow, FeedbackIsWhole,
     AcknowledgedRecordsSurvive, LogsStayWithinTheirLimit, Tables, Good, GoodLog, LogAt
<1>4. QED
  BY <1>2, <1>3

LEMMA EachLogNext == (Tables /\ \A l \in Logs : Good(l))' => LogsInv'
  BY EachLog, PTL

\* Only the log l is touched.
Touches(l) ==
  /\ log' = [log EXCEPT ![l] = log'[l]]
  /\ logImages' = [logImages EXCEPT ![l] = logImages'[l]]
  /\ writing' = [writing EXCEPT ![l] = writing'[l]]
  /\ recorded' = [recorded EXCEPT ![l] = recorded'[l]]

LEMMA OneLog ==
  ASSUME LogsInv, NEW l \in Logs, Touches(l), issued' \in Nat, Good(l)'
  PROVE  LogsInv'
<1>1. Tables /\ \A k \in Logs : Good(k)
  BY EachLog
<1>2. Tables'
  BY <1>1 DEF Tables, Touches, Good, GoodLog
<1>3. \A k \in Logs : k # l => Good(k)'
  BY <1>1 DEF Tables, Touches, Good
<1>4. QED
  BY <1>2, <1>3, EachLogNext

\* Where an operation on a log starts.
LEMMA AtTheLog ==
  ASSUME LogsInv, NEW l \in Logs
  PROVE  /\ Tables /\ Good(l)
         /\ LogAt(l, "idle") <=> writing[l] = Idle
         /\ ~LogAt(l, "idle") => writing[l].record \in LogRecord /\ ~writing[l].record.torn
                                  /\ writing[l].record.id \in Nat
                                  /\ writing[l].record.size \in Nat
                                  /\ writing[l].step \in {"opened", "compacted", "half", "written"}
         /\ Idle \in Operations /\ Idle.step = "idle"
<1>1. Tables /\ Good(l)
  BY EachLog
<1>2. writing[l] \in Operations
  BY <1>1 DEF Tables
<1>3. Idle.step = "idle" /\ Idle \in Operations
  BY DEF Idle, Operations
<1>4. CASE writing[l] = Idle
  BY <1>1, <1>3, <1>4 DEF LogAt
<1>5. CASE writing[l] \in Pending
  <2>1. /\ writing[l].step \in {"opened", "compacted", "half", "written"}
        /\ writing[l].record \in [id : Nat, size : Nat, torn : {FALSE}]
    BY <1>5 DEF Pending
  <2>2. /\ writing[l].record \in LogRecord /\ ~writing[l].record.torn
        /\ writing[l].record.id \in Nat /\ writing[l].record.size \in Nat
    BY <2>1 DEF LogRecord
  <2>3. ~LogAt(l, "idle") /\ writing[l] # Idle
    BY <1>3, <2>1 DEF LogAt
  <2>4. QED
    BY <1>1, <1>3, <2>1, <2>2, <2>3
<1>6. QED
  BY <1>2, <1>4, <1>5 DEF Operations

\* An operation that comes to a step keeps its record.
LEMMA Proceeded ==
  ASSUME LogsInv, NEW l \in Logs, ~LogAt(l, "idle"),
         NEW step \in {"opened", "compacted", "half", "written"}, Proceed(l, step)
  PROVE  /\ writing' = [writing EXCEPT ![l] = writing'[l]]
         /\ writing'[l] \in Operations
         /\ writing'[l].step = step /\ writing'[l].record = writing[l].record
<1>1. writing \in [Logs -> Operations] /\ writing[l] \in Operations
  BY AtTheLog DEF Tables
<1>2. writing[l] \in Pending
  BY <1>1, AtTheLog DEF Operations
<1>3. writing'[l] = [writing[l] EXCEPT !.step = step]
  BY <1>1 DEF Proceed
<1>4. /\ writing'[l] \in Pending
      /\ writing'[l].step = step /\ writing'[l].record = writing[l].record
  BY <1>2, <1>3 DEF Pending
<1>5. QED
  BY <1>1, <1>4 DEF Proceed, Operations

\* Of a part of a log that can be read, what is acknowledged and not dropped is whole.
LEMMA DroppedRecords ==
  ASSUME NEW c \in Files, NEW d, PartOf(d, c), Readable(c), NEW done, done \subseteq Whole(c),
         NEW dispensable, Ids(c) \ dispensable \subseteq Ids(d)
  PROVE  Readable(d) /\ done \ dispensable \subseteq Whole(d)
  BY DEF PartOf, Readable, Whole, Ids

-----------------------------------------------------------------------------
(* Operations on a log *)

LEMMA AppendRecordStep ==
  ASSUME LogsInv, NEW l \in Logs, NEW size \in Nat, AppendRecord(l, size)
  PROVE  LogsInv'
<1> DEFINE record == [id |-> issued + 1, size |-> size, torn |-> FALSE]
           c == Newest(log[l], size)
<1>1. /\ Tables /\ Good(l) /\ issued' = issued + 1 /\ l # "feedback" /\ size <= MaxBytes
      /\ MaxBytes \in Nat
  BY AtTheLog, LogsAssumption DEF AppendRecord, Journals
<1>2. \A step \in {"opened", "compacted"} :
        LET w == [step |-> step, record |-> record]
        IN w \in Operations /\ w.step = step /\ w.record.size = size
  BY <1>1 DEF Operations, Pending, Tables
<1>3. CASE /\ Bytes(log[l]) + size <= MaxBytes
           /\ writing' = [writing EXCEPT ![l] = [step |-> "opened", record |-> record]]
           /\ UNCHANGED <<log, logImages, recorded>>
  <2> DEFINE w == [step |-> "opened", record |-> record]
  <2>1. w \in Operations /\ w.step = "opened" /\ w.record.size = size
    BY <1>2
  <2> HIDE DEF w
  <2>2. Touches(l) /\ writing'[l] = w
    BY <1>1, <1>3 DEF Touches, Tables, w
  <2>3. Good(l)'
    BY <1>1, <1>3, <2>1, <2>2 DEF Good, GoodLog
  <2>4. QED
    BY <1>1, <2>2, <2>3, OneLog DEF Tables
<1>4. CASE /\ Readable(log[l])
           /\ Replace(l, c, Displaced(log[l], MaxBytes - size))
           /\ writing' = [writing EXCEPT ![l] = [step |-> "compacted", record |-> record]]
  <2> DEFINE w == [step |-> "compacted", record |-> record]
  <2>1. w \in Operations /\ w.step = "compacted" /\ w.record.size = size
    BY <1>2
  <2> HIDE DEF w
  <2>2. /\ Touches(l) /\ writing'[l] = w
        /\ log'[l] = c /\ logImages'[l] = logImages[l] \cup {c}
        /\ recorded'[l] = recorded[l] \ Displaced(log[l], MaxBytes - size)
    BY <1>1, <1>4 DEF Touches, Tables, Replace, Put, w
  <2>3. log[l] \in Files /\ recorded[l] \subseteq Whole(log[l])
    BY <1>1 DEF Good, GoodLog
  <2>4. /\ PartOf(c, log[l]) /\ Bytes(c) + size <= MaxBytes
        /\ Ids(log[l]) \ Displaced(log[l], MaxBytes - size) \subseteq Ids(c)
    BY <1>1, <2>3, NewestFacts
  <2> HIDE DEF c
  <2>5. c \in Files /\ Bytes(c) <= MaxBytes /\ recorded'[l] \subseteq Whole(c)
    <3>1. c \in Files
      BY <2>4 DEF PartOf
    <3>2. Bytes(c) \in Nat
      BY <3>1, BytesFacts
    <3>3. QED
      BY <1>1, <1>4, <2>2, <2>3, <2>4, <3>1, <3>2, DroppedRecords
  <2>6. Good(l)'
    <3>1. /\ recorded'[l] \in SUBSET Nat /\ logImages'[l] \in SUBSET Files
          /\ \A d \in logImages'[l] : recorded'[l] \subseteq Whole(d) /\ Bytes(d) <= MaxBytes
      BY <1>1, <2>2, <2>5 DEF Good, GoodLog
    <3>2. QED
      BY <1>1, <2>1, <2>2, <2>4, <2>5, <3>1 DEF Good, GoodLog
  <2>7. QED
    BY <1>1, <2>2, <2>6, OneLog DEF Tables
<1>5. QED
  BY <1>3, <1>4 DEF AppendRecord

\* Syncing the log leaves one image of it.
LEMMA SyncedLog ==
  ASSUME LogsInv, NEW l \in Logs, Synced(l)
  PROVE  /\ log' = log /\ logImages' = [logImages EXCEPT ![l] = {log[l]}]
         /\ logImages'[l] = {log[l]}
BY AtTheLog DEF Synced, Tables

\* An operation that stops leaves the log as it is.
LEMMA StopStep ==
  ASSUME LogsInv, NEW l \in Logs, Stop(l), UNCHANGED <<log, logImages, recorded, issued>>
  PROVE  LogsInv'
<1>1. Tables /\ Good(l) /\ Idle \in Operations /\ Idle.step = "idle"
  BY AtTheLog
<1>2. Touches(l) /\ writing'[l] = Idle
  BY <1>1 DEF Stop, Touches, Tables
<1>3. Good(l)'
  BY <1>1, <1>2 DEF Good, GoodLog
<1>4. QED
  BY <1>1, <1>2, <1>3, OneLog DEF Tables

LEMMA CompactedStep ==
  ASSUME LogsInv, NEW l \in Logs, Compacted(l)
  PROVE  LogsInv'
<1>1. /\ Tables /\ Good(l) /\ LogAt(l, "compacted") /\ ~LogAt(l, "idle")
      /\ UNCHANGED <<issued, recorded>>
  BY AtTheLog DEF Compacted, LogAt
<1>2. CASE UNCHANGED <<log, logImages>> /\ Stop(l)
  BY <1>1, <1>2, StopStep
<1>3. CASE Synced(l) /\ Proceed(l, "opened")
  <2>1. /\ writing' = [writing EXCEPT ![l] = writing'[l]]
        /\ writing'[l] \in Operations
        /\ writing'[l].step = "opened" /\ writing'[l].record = writing[l].record
    BY <1>1, <1>3, Proceeded
  <2>2. log' = log /\ logImages' = [logImages EXCEPT ![l] = {log[l]}]
        /\ logImages'[l] = {log[l]}
    BY <1>3, SyncedLog
  <2>3. Touches(l)
    BY <1>1, <2>1, <2>2 DEF Touches, Tables
  <2>4. Good(l)'
    BY <1>1, <2>1, <2>2 DEF Good, GoodLog, LogAt
  <2>5. QED
    BY <1>1, <2>3, <2>4, OneLog DEF Tables
<1>4. QED
  BY <1>2, <1>3 DEF Compacted

\* A record that is torn is as long as the whole one will be.
LEMMA WriteHalfStep ==
  ASSUME LogsInv, NEW l \in Logs, WriteHalf(l)
  PROVE  LogsInv'
<1> DEFINE torn == [writing[l].record EXCEPT !.torn = TRUE]
           c == Append(log[l], torn)
<1>1. /\ Tables /\ Good(l) /\ writing[l].step = "opened" /\ ~LogAt(l, "idle")
      /\ UNCHANGED <<issued, recorded>> /\ l # "feedback"
  BY AtTheLog DEF WriteHalf, LogAt, Good, GoodLog
<1>2. CASE UNCHANGED <<log, logImages>> /\ Stop(l)
  BY <1>1, <1>2, StopStep
<1>3. ASSUME Put(l, c), Proceed(l, "half") \/ Stop(l)
      PROVE  LogsInv'
  <2>1. /\ writing[l].record \in LogRecord /\ torn \in LogRecord
        /\ torn.size = writing[l].record.size
    BY <1>1, AtTheLog DEF LogRecord
  <2>2. /\ writing' = [writing EXCEPT ![l] = writing'[l]]
        /\ writing'[l] \in Operations
        /\ writing'[l].step \in {"half", "idle"}
        /\ writing'[l].step = "half" => writing'[l].record = writing[l].record
    <3>1. CASE Proceed(l, "half")
      BY <1>1, <3>1, Proceeded
    <3>2. CASE Stop(l)
      BY <1>1, <3>2, AtTheLog DEF Stop, Tables
    <3>3. QED
      BY <1>3, <3>1, <3>2
  <2>3. Touches(l) /\ log'[l] = c /\ logImages'[l] = logImages[l] \cup {c}
    BY <1>1, <1>3, <2>2 DEF Touches, Tables, Put
  <2>4. log[l] \in Files /\ Bytes(log[l]) + torn.size <= MaxBytes
        /\ recorded[l] \subseteq Whole(log[l])
    BY <1>1, <2>1 DEF Good, GoodLog
  <2> HIDE DEF torn
  <2>5. c \in Files /\ Bytes(c) <= MaxBytes /\ Last(c) = torn /\ c # <<>>
    BY <2>1, <2>4, Appended, BytesFacts DEF Files, Last
  <2>6. Whole(log[l]) \subseteq Whole(c)
    BY <2>1, <2>4, WholeGrows
  <2> HIDE DEF c
  <2>7. Good(l)'
    <3>1. \A d \in logImages'[l] : recorded'[l] \subseteq Whole(d) /\ Bytes(d) <= MaxBytes
      BY <1>1, <2>3, <2>4, <2>5, <2>6 DEF Good, GoodLog
    <3>2. QED
      BY <1>1, <2>2, <2>3, <2>5, <3>1 DEF Good, GoodLog, torn
  <2>8. QED
    BY <1>1, <2>3, <2>7, OneLog DEF Tables
<1>4. QED
  BY <1>2, <1>3 DEF WriteHalf

\* The log with the whole record in the place of the torn one.
LEMMA Finished ==
  ASSUME LogsInv, NEW l \in Logs, LogAt(l, "half")
  PROVE  LET c == Append(Front(log[l]), writing[l].record)
         IN /\ c \in Files /\ Len(c) = Len(log[l]) /\ c # <<>>
            /\ Bytes(c) <= MaxBytes
            /\ Whole(log[l]) \subseteq Whole(c)
            /\ writing[l].record.id \in Whole(c)
<1> DEFINE b == log[l]
           r == writing[l].record
           front == Front(b)
           c == Append(front, r)
<1>1. /\ Good(l) /\ r \in LogRecord /\ ~r.torn /\ r.id \in Nat /\ r.size \in Nat
  BY AtTheLog DEF LogAt
<1>2. b \in Files /\ b # <<>> /\ Last(b) = [r EXCEPT !.torn = TRUE] /\ Bytes(b) <= MaxBytes
  BY <1>1 DEF Good, GoodLog, LogAt
<1>3. Last(b).torn /\ Last(b).size = r.size
  BY <1>1, <1>2 DEF LogRecord
<1> HIDE DEF b, r, front
<1>4. /\ b \in Seq(LogRecord) /\ Len(b) \in Nat /\ Len(b) >= 1 /\ DOMAIN b = 1..Len(b)
      /\ Last(b) = b[Len(b)]
  BY <1>2 DEF Files, Last
<1>5. /\ front \in Files /\ Len(front) = Len(b) - 1
      /\ \A i \in 1..(Len(b) - 1) : front[i] = b[i]
  <2> DEFINE n == Len(b) - 1
  <2>1. /\ n \in 0..Len(b) /\ 1 \in 1..(Len(b)+1) /\ 1 - 1 = 0 /\ n - 1 + 1 = n
        /\ front = SubSeq(b, 1, n)
    BY <1>4 DEF front, Front
  <2>2. \A i \in 1..n : i + 1 - 1 = i
    BY <1>4
  <2> HIDE DEF n
  <2>3. /\ SubSeq(b, 1, n) \in Seq(LogRecord) /\ Len(SubSeq(b, 1, n)) = n
        /\ \A i \in 1..n : SubSeq(b, 1, n)[i] = b[i]
    BY <1>4, <2>1, <2>2, Slice
  <2>4. QED
    BY <2>1, <2>3 DEF n, Files
<1>6. Bytes(front) + r.size = Bytes(b) /\ Bytes(front) \in Nat
  BY <1>2, <1>3, <1>5, BytesFacts DEF front
<1>7. c \in Files /\ Len(c) = Len(b) /\ Bytes(c) = Bytes(b) /\ c # <<>>
  <2>1. Bytes(c) = Bytes(front) + r.size
    BY <1>1, <1>5, BytesFacts DEF r
  <2>2. c \in Files /\ Len(c) = Len(front) + 1
    BY <1>1, <1>5, Appended DEF r
  <2>3. QED
    BY <1>4, <1>5, <1>6, <2>1, <2>2
<1>8. /\ \A j \in DOMAIN front : j \in DOMAIN c /\ c[j] = front[j]
      /\ Len(b) \in DOMAIN c /\ c[Len(b)] = r
      /\ DOMAIN front = 1..(Len(b) - 1)
  <2>1. DOMAIN front = 1..Len(front) /\ Len(front) + 1 = Len(b)
    BY <1>4, <1>5 DEF Files
  <2>2. r \in LogRecord /\ c = Append(front, r)
    BY <1>1 DEF r
  <2> HIDE DEF c
  <2>3. /\ \A j \in DOMAIN front : j \in DOMAIN c /\ c[j] = front[j]
        /\ Len(front) + 1 \in DOMAIN c /\ c[Len(front) + 1] = r
    BY <1>5, <2>2, Appended
  <2>4. QED
    BY <2>1, <2>3, <1>5
<1> HIDE DEF c
<1>9. \A i \in DOMAIN b : ~b[i].torn => i \in DOMAIN front
  <2> SUFFICES ASSUME NEW i \in DOMAIN b, ~b[i].torn PROVE i \in DOMAIN front
    OBVIOUS
  <2>1. i # Len(b)
    BY <1>3, <1>4
  <2>2. i \in 1..(Len(b) - 1)
    BY <1>4, <2>1
  <2>3. QED
    BY <1>8, <2>2
<1>10. Whole(b) \subseteq Whole(c) /\ r.id \in Whole(c)
  <2>1. \A i \in DOMAIN b : ~b[i].torn => i \in DOMAIN c /\ c[i] = b[i]
    BY <1>4, <1>5, <1>8, <1>9
  <2>2. ~r.torn
    BY <1>1 DEF r
  <2>3. QED
    BY <1>8, <2>1, <2>2 DEF Whole
<1>11. QED
  BY <1>2, <1>7, <1>10 DEF b, c, r, front

LEMMA WriteRestStep ==
  ASSUME LogsInv, NEW l \in Logs, WriteRest(l)
  PROVE  LogsInv'
<1> DEFINE c == Append(Front(log[l]), writing[l].record)
<1>1. /\ Tables /\ Good(l) /\ LogAt(l, "half") /\ ~LogAt(l, "idle")
      /\ UNCHANGED <<issued, recorded>> /\ Put(l, c) /\ Proceed(l, "written")
  BY AtTheLog DEF WriteRest, LogAt
<1>2. /\ c \in Files /\ Bytes(c) <= MaxBytes /\ Whole(log[l]) \subseteq Whole(c)
      /\ writing[l].record.id \in Whole(c)
  BY <1>1, Finished
<1> HIDE DEF c
<1>3. /\ writing' = [writing EXCEPT ![l] = writing'[l]]
      /\ writing'[l] \in Operations
      /\ writing'[l].step = "written" /\ writing'[l].record = writing[l].record
  BY <1>1, Proceeded
<1>4. Touches(l) /\ log'[l] = c /\ logImages'[l] = logImages[l] \cup {c}
  BY <1>1, <1>3 DEF Touches, Tables, Put
<1>5. Good(l)'
  <2>1. l # "feedback" /\ log[l] \in logImages[l]
    BY <1>1 DEF Good, GoodLog, LogAt
  <2>2. \A d \in logImages'[l] : recorded'[l] \subseteq Whole(d) /\ Bytes(d) <= MaxBytes
    BY <1>1, <1>2, <1>4, <2>1 DEF Good, GoodLog
  <2>3. QED
    BY <1>1, <1>2, <1>3, <1>4, <2>1, <2>2 DEF Good, GoodLog
<1>6. QED
  BY <1>1, <1>4, <1>5, OneLog DEF Tables

\* A record is acknowledged when it is all that a failure can leave.
LEMMA AcknowledgeStep ==
  ASSUME LogsInv, NEW l \in Logs, AcknowledgeRecord(l)
  PROVE  LogsInv'
<1>1. /\ Tables /\ Good(l) /\ LogAt(l, "written") /\ ~LogAt(l, "idle")
      /\ issued' = issued /\ Stop(l) /\ Idle \in Operations /\ Idle.step = "idle"
      /\ writing[l].record.id \in Nat
  BY AtTheLog DEF AcknowledgeRecord, LogAt
<1>2. CASE UNCHANGED <<log, logImages, recorded>>
  BY <1>1, <1>2, StopStep
<1>3. CASE Synced(l) /\ recorded' = [recorded EXCEPT ![l] = @ \cup {writing[l].record.id}]
  <2>1. log' = log /\ logImages' = [logImages EXCEPT ![l] = {log[l]}]
        /\ logImages'[l] = {log[l]}
    BY <1>3, SyncedLog
  <2>2. Touches(l) /\ writing'[l] = Idle
        /\ recorded'[l] = recorded[l] \cup {writing[l].record.id}
    BY <1>1, <1>3, <2>1 DEF Touches, Tables, Stop
  <2>3. writing[l].record.id \in Whole(log[l]) /\ recorded[l] \subseteq Whole(log[l])
    BY <1>1 DEF Good, GoodLog, LogAt
  <2>4. Good(l)'
    BY <1>1, <2>1, <2>2, <2>3 DEF Good, GoodLog
  <2>5. QED
    BY <1>1, <2>2, <2>4, OneLog DEF Tables
<1>4. QED
  BY <1>2, <1>3 DEF AcknowledgeRecord

\* The feedback is replaced by its newest entries, the new one among them.
LEMMA AppendFeedbackStep ==
  ASSUME LogsInv, NEW size \in Nat, AppendFeedback(size)
  PROVE  LogsInv'
<1> DEFINE l == "feedback"
           r == [id |-> issued + 1, size |-> size, torn |-> FALSE]
           all == Append(log[l], r)
           m == IF Len(all) > MaxEntries THEN Len(all) - MaxEntries + 1 ELSE 1
           newest == SubSeq(all, m, Len(all))
           w == [step |-> "written", record |-> Last(all)]
<1> DEFINE overtaken == {all[k].id : k \in 1..(Len(all) - MaxEntries)}
<1>1. /\ Bytes(newest) <= MaxBytes /\ Replace(l, newest, overtaken)
      /\ writing' = [writing EXCEPT ![l] = w]
      /\ issued' = issued + 1
  BY DEF AppendFeedback
<1>2. l \in Logs /\ Tables /\ Good(l) /\ MaxEntries \in Nat \ {0}
  BY AtTheLog, LogsAssumption DEF Logs
<1>3. r \in LogRecord /\ ~r.torn /\ r \in [id : Nat, size : Nat, torn : {FALSE}]
  BY <1>2 DEF LogRecord, Tables
<1>4. /\ log[l] \in Files /\ Readable(log[l]) /\ recorded[l] \subseteq Whole(log[l])
      /\ log[l] \in logImages[l]
  BY <1>2 DEF Good, GoodLog
<1>5. DOMAIN log[l] = 1..Len(log[l]) /\ Len(log[l]) \in Nat
  BY <1>4 DEF Files
<1> HIDE DEF r
<1>6. /\ all \in Files /\ Len(all) = Len(log[l]) + 1 /\ Last(all) = r
      /\ \A j \in DOMAIN all : ~all[j].torn
      /\ \A j \in DOMAIN log[l] : j \in DOMAIN all /\ all[j] = log[l][j]
  <2> DEFINE b == log[l]
  <2>1. b \in Files
    BY <1>4
  <2>2. \A j \in DOMAIN b : ~b[j].torn
    BY <1>4 DEF Readable
  <2> HIDE DEF b
  <2>3. /\ Append(b, r) \in Files
        /\ Len(Append(b, r)) = Len(b) + 1
        /\ \A j \in DOMAIN b : Append(b, r)[j] = b[j]
        /\ Append(b, r)[Len(b) + 1] = r
        /\ \A j \in DOMAIN Append(b, r) : j \in DOMAIN b \/ j = Len(b) + 1
        /\ DOMAIN b \subseteq DOMAIN Append(b, r)
    BY <1>3, <2>1, Appended DEF Files
  <2>4. \A j \in DOMAIN Append(b, r) : ~Append(b, r)[j].torn
    BY <1>3, <2>2, <2>3
  <2>5. all = Append(b, r)
    BY DEF b
  <2> HIDE DEF all
  <2>6. QED
    BY <2>3, <2>4, <2>5 DEF Last, b
<1>7. w \in Operations /\ w.step = "written" /\ w.record = r
  BY <1>3, <1>6 DEF Operations, Pending
<1> HIDE DEF w, all
<1>8. /\ m \in 1..(Len(all)+1) /\ Len(all) \in (m-1)..Len(all)
      /\ Len(all) \in Nat /\ Len(all) >= 1 /\ m <= Len(all) /\ m >= 1 /\ m \in Nat
      /\ Len(all) - m + 1 <= MaxEntries /\ DOMAIN all = 1..Len(all)
      /\ \A k \in 1..(m - 1) : k \in 1..(Len(all) - MaxEntries)
  BY <1>2, <1>4, <1>5, <1>6 DEF Files
<1> HIDE DEF m
<1>9. /\ newest \in Seq(LogRecord)
      /\ Len(newest) = Len(all) - m + 1
      /\ \A i \in 1..(Len(all)-m+1) : newest[i] = all[i+m-1]
  BY <1>6, <1>8, Slice DEF Files
<1> HIDE DEF newest
<1>10. newest \in Files /\ Readable(newest) /\ DOMAIN newest = 1..(Len(all)-m+1)
  <2>1. DOMAIN newest = 1..(Len(all)-m+1)
    BY <1>8, <1>9
  <2>2. \A i \in 1..(Len(all)-m+1) : i + m - 1 \in DOMAIN all
    BY <1>8
  <2>3. QED
    BY <1>6, <1>9, <2>1, <2>2 DEF Readable, Files
<1>11. r.id \in Whole(newest)
  <2>1. /\ Len(all)-m+1 \in DOMAIN newest
        /\ newest[Len(all)-m+1] = all[Len(all)]
    <3>1. Len(all)-m+1 \in 1..(Len(all)-m+1) /\ (Len(all)-m+1)+m-1 = Len(all)
      BY <1>8
    <3>2. QED
      BY <1>9, <1>10, <3>1
  <2>2. newest[Len(all)-m+1] = r
    BY <1>6, <2>1 DEF Last
  <2>3. QED
    BY <1>3, <2>1, <2>2 DEF Whole
<1>12. recorded[l] \ overtaken \subseteq Whole(newest)
  <2>1. recorded[l] \subseteq Ids(all)
    BY <1>4, <1>6 DEF Whole, Ids
  <2>2. Ids(newest) = Whole(newest)
    BY <1>10 DEF Ids, Whole, Readable
  <2>3. ASSUME NEW k \in DOMAIN all, all[k].id \notin overtaken
        PROVE  all[k].id \in Ids(newest)
    <3>1. k \notin 1..(m - 1)
      BY <1>8, <2>3
    <3>2. k - m + 1 \in 1..(Len(all)-m+1) /\ (k - m + 1) + m - 1 = k
      BY <1>8, <3>1
    <3>3. newest[k - m + 1] = all[k] /\ k - m + 1 \in DOMAIN newest
      BY <1>9, <1>10, <3>2
    <3>4. QED
      BY <3>3 DEF Ids
  <2>4. QED
    BY <2>1, <2>2, <2>3 DEF Ids
<1>13. /\ Touches(l) /\ writing'[l] = w
       /\ log'[l] = newest /\ logImages'[l] = logImages[l] \cup {newest}
       /\ recorded'[l] = recorded[l] \ overtaken
  BY <1>1, <1>2 DEF Touches, Tables, Replace, Put
<1>14. Good(l)'
  <2>1. /\ recorded'[l] \in SUBSET Nat /\ logImages'[l] \in SUBSET Files
        /\ recorded'[l] \subseteq recorded[l]
    BY <1>2, <1>10, <1>13 DEF Good, GoodLog
  <2>2. \A d \in logImages'[l] : /\ recorded'[l] \subseteq Whole(d) /\ Bytes(d) <= MaxBytes
                                 /\ Readable(d) /\ Len(d) <= MaxEntries
    BY <1>1, <1>2, <1>8, <1>9, <1>10, <1>12, <1>13, <2>1 DEF Good, GoodLog
  <2>3. QED
    BY <1>7, <1>10, <1>11, <1>13, <2>1, <2>2 DEF Good, GoodLog
<1>15. QED
  BY <1>1, <1>2, <1>13, <1>14, OneLog DEF Tables

LEMMA LogStepInv ==
  ASSUME LogsInv, NEW l \in Logs, LogStep(l)
  PROVE  LogsInv'
<1>1. Sizes \subseteq Nat
  BY LogsAssumption
<1>2. CASE SaveSettings
  BY <1>2 DEF SaveSettings, LogsInv, LogsTyped, StepsShow, FeedbackIsWhole,
     AcknowledgedRecordsSurvive, LogsStayWithinTheirLimit, LogAt
<1>3. QED
  BY <1>1, <1>2, AppendRecordStep, AppendFeedbackStep, CompactedStep, WriteHalfStep,
     WriteRestStep, AcknowledgeStep DEF LogStep

-----------------------------------------------------------------------------
(* Logs when a core starts and when it ends *)

\* Growing old changes nothing yet.
LEMMA ExpireStep ==
  ASSUME LogsInv, Expire
  PROVE  LogsInv'
BY DEF Expire, LogsInv, LogsTyped, StepsShow, FeedbackIsWhole,
   AcknowledgedRecordsSurvive, LogsStayWithinTheirLimit, LogAt

\* A core that starts prunes its logs, with nothing under way.
LEMMA OpenLogsStep ==
  ASSUME LogsInv, OpenLogs, \A l \in Logs : LogAt(l, "idle")
  PROVE  LogsInv'
<1> DEFINE pruned(l) == IF l \in Journals THEN Unexpired(log[l]) ELSE log[l]
<1>1. Tables
  BY EachLog
<1>2. /\ log' = [l \in Logs |-> pruned(l)]
      /\ logImages' = [l \in Logs |-> IF pruned(l) # log[l] THEN {pruned(l)} ELSE logImages[l]]
      /\ recorded' = [l \in Logs |-> IF l \in Journals THEN recorded[l] \ expired ELSE recorded[l]]
      /\ UNCHANGED <<writing, issued>>
      /\ \A l \in Journals : Readable(log[l])
  BY DEF OpenLogs, LogsOpen
<1>3. ASSUME NEW l \in Logs
      PROVE  Good(l)'
  <2>1. /\ Good(l) /\ writing'[l] = Idle /\ Idle \in Operations /\ Idle.step = "idle"
        /\ log[l] \in Files /\ log[l] \in logImages[l] /\ recorded[l] \subseteq Whole(log[l])
    BY <1>2, AtTheLog DEF Good, GoodLog
  <2>2. CASE l \notin Journals
    <3>1. log'[l] = log[l] /\ logImages'[l] = logImages[l] /\ recorded'[l] = recorded[l]
      BY <1>2, <2>2
    <3>2. QED
      BY <2>1, <3>1 DEF Good, GoodLog
  <2>3. CASE l \in Journals
    <3> DEFINE d == Unexpired(log[l])
    <3>1. /\ log'[l] = d /\ recorded'[l] = recorded[l] \ expired
          /\ logImages'[l] = IF d # log[l] THEN {d} ELSE logImages[l]
          /\ Readable(log[l]) /\ l # "feedback"
      BY <1>2, <2>3 DEF Journals
    <3>2. /\ PartOf(d, log[l]) /\ Bytes(d) <= Bytes(log[l])
          /\ \A i \in DOMAIN log[l] : log[l][i].id \notin expired =>
               \E j \in DOMAIN d : d[j] = log[l][i]
      BY <2>1, UnexpiredFacts
    <3> HIDE DEF d
    <3>3. recorded[l] \ expired \subseteq Whole(d)
      BY <2>1, <3>1, <3>2 DEF Whole, Readable
    <3>4. d \in Files /\ Bytes(d) \in Nat /\ Bytes(log[l]) \in Nat /\ Bytes(d) <= MaxBytes
      <4>1. d \in Files
        BY <3>2 DEF PartOf
      <4>2. Bytes(d) \in Nat /\ Bytes(log[l]) \in Nat /\ MaxBytes \in Nat
        BY <2>1, <4>1, BytesFacts, LogsAssumption
      <4>3. Bytes(log[l]) <= MaxBytes
        BY <2>1 DEF Good, GoodLog
      <4>4. QED
        BY <3>2, <4>1, <4>2, <4>3
    <3>5. /\ d \in logImages'[l] /\ logImages'[l] \in SUBSET Files
          /\ recorded'[l] \in SUBSET Nat
          /\ \A e \in logImages'[l] : recorded'[l] \subseteq Whole(e) /\ Bytes(e) <= MaxBytes
      BY <2>1, <3>1, <3>3, <3>4 DEF Good, GoodLog
    <3>6. QED
      BY <2>1, <3>1, <3>4, <3>5 DEF Good, GoodLog
  <2>4. QED
    BY <2>2, <2>3
<1> HIDE DEF pruned
<1>4. Tables'
  <2>1. \A l \in Logs : /\ log'[l] \in Files /\ logImages'[l] \in SUBSET Files
                        /\ recorded'[l] \in SUBSET Nat
    BY <1>3 DEF Good, GoodLog
  <2>2. QED
    BY <1>1, <1>2, <2>1 DEF Tables
<1>5. QED
  BY <1>3, <1>4, EachLogNext

\* A start that fails may have pruned one log.
LEMMA OpeningFailsStep ==
  ASSUME LogsInv, OpeningFails, \A l \in Logs : LogAt(l, "idle")
  PROVE  LogsInv'
<1>1. CASE UNCHANGED <<log, logImages, recorded>>
  BY <1>1 DEF OpeningFails, LogsInv, LogsTyped, StepsShow, FeedbackIsWhole,
     AcknowledgedRecordsSurvive, LogsStayWithinTheirLimit, LogAt
<1>2. ASSUME NEW l \in Journals, Readable(log[l]), Replace(l, Unexpired(log[l]), expired)
      PROVE  LogsInv'
  <2> DEFINE d == Unexpired(log[l])
  <2>1. /\ l \in Logs /\ l # "feedback" /\ Tables /\ Good(l)
        /\ writing' = writing /\ issued' = issued
        /\ writing[l] = Idle /\ Idle \in Operations /\ Idle.step = "idle"
    BY AtTheLog DEF Journals, Logs, OpeningFails
  <2>2. log[l] \in Files /\ log[l] \in logImages[l] /\ recorded[l] \subseteq Whole(log[l])
        /\ Bytes(log[l]) <= MaxBytes
    BY <2>1 DEF Good, GoodLog
  <2>3. /\ PartOf(d, log[l]) /\ Bytes(d) <= Bytes(log[l])
        /\ \A i \in DOMAIN log[l] : log[l][i].id \notin expired =>
             \E j \in DOMAIN d : d[j] = log[l][i]
    BY <2>2, UnexpiredFacts
  <2>4. /\ Touches(l) /\ log'[l] = d /\ logImages'[l] = logImages[l] \cup {d}
        /\ recorded'[l] = recorded[l] \ expired
    BY <1>2, <2>1 DEF Touches, Tables, Replace, Put
  <2> HIDE DEF d
  <2>5. d \in Files /\ Bytes(d) <= MaxBytes
    <3>1. d \in Files
      BY <2>3 DEF PartOf
    <3>2. Bytes(d) \in Nat /\ Bytes(log[l]) \in Nat /\ MaxBytes \in Nat
      BY <2>2, <3>1, BytesFacts, LogsAssumption
    <3>3. QED
      BY <2>2, <2>3, <3>1, <3>2
  <2>6. recorded'[l] \subseteq Whole(d)
    BY <1>2, <2>2, <2>3, <2>4 DEF Whole, Readable
  <2>7. Good(l)'
    <3>1. /\ recorded'[l] \in SUBSET Nat /\ logImages'[l] \in SUBSET Files
          /\ recorded'[l] \subseteq recorded[l]
      BY <2>1, <2>4, <2>5 DEF Good, GoodLog
    <3>2. \A e \in logImages'[l] : recorded'[l] \subseteq Whole(e) /\ Bytes(e) <= MaxBytes
      BY <2>1, <2>4, <2>5, <2>6, <3>1 DEF Good, GoodLog
    <3>3. QED
      BY <2>1, <2>4, <2>5, <3>1, <3>2 DEF Good, GoodLog
  <2>8. QED
    BY <2>1, <2>4, <2>7, OneLog DEF Tables
<1>3. QED
  BY <1>1, <1>2 DEF OpeningFails

\* What was under way is gone with the memory.
LEMMA AbandonedStep ==
  ASSUME LogsInv, LogsAbandoned
  PROVE  LogsInv'
<1>1. /\ writing' = [l \in Logs |-> Idle]
      /\ UNCHANGED <<log, logImages, issued, recorded>>
  BY DEF LogsAbandoned
<1>2. Tables /\ \A l \in Logs : Good(l)
  BY EachLog
<1>3. Idle \in Operations /\ Idle.step = "idle"
  BY DEF Idle, Operations
<1>4. Tables' /\ \A l \in Logs : Good(l)'
  BY <1>1, <1>2, <1>3 DEF Tables, Good, GoodLog
<1>5. QED
  BY <1>4, EachLogNext

\* After a power failure one of the images is all there is.
LEMMA PowerFailureStep ==
  ASSUME LogsInv, LogsAfterPowerFailure
  PROVE  LogsInv'
<1>1. PICK c : /\ \A l \in Logs : c[l] \in logImages[l]
               /\ c \in [Logs -> UNION {logImages[l] : l \in Logs}]
               /\ log' = c /\ logImages' = [l \in Logs |-> {c[l]}]
               /\ writing' = [l \in Logs |-> Idle]
               /\ UNCHANGED <<issued, recorded>>
  BY DEF LogsAfterPowerFailure
<1>2. Tables /\ \A l \in Logs : Good(l)
  BY EachLog
<1>3. Idle \in Operations /\ Idle.step = "idle"
  BY DEF Idle, Operations
<1>4. ASSUME NEW l \in Logs
      PROVE  Good(l)'
  <2>1. /\ log'[l] = c[l] /\ logImages'[l] = {c[l]} /\ writing'[l] = Idle
        /\ recorded'[l] = recorded[l] /\ c[l] \in logImages[l] /\ Good(l)
    BY <1>1, <1>2
  <2>2. QED
    BY <1>3, <2>1 DEF Good, GoodLog
<1>5. Tables'
  <2>1. c \in [Logs -> Files]
    BY <1>1, <1>2 DEF Tables
  <2>2. QED
    BY <1>1, <1>2, <1>3, <2>1 DEF Tables
<1>6. QED
  BY <1>4, <1>5, EachLogNext

\* The logs of a new installation are empty.
LEMMA LogsInitInv == LogsInit => LogsInv
<1> SUFFICES ASSUME LogsInit PROVE LogsInv
  OBVIOUS
<1>1. /\ <<>> \in Files /\ Bytes(<<>>) = 0 /\ Len(<<>>) = 0 /\ DOMAIN <<>> = {}
      /\ Idle \in Operations /\ Idle.step = "idle" /\ MaxBytes \in Nat /\ MaxEntries \in Nat
  <2>1. <<>> \in Files
    BY DEF Files
  <2>2. QED
    BY <2>1, BytesFacts, LogsAssumption DEF Idle, Operations
<1>2. Tables
  BY <1>1 DEF LogsInit, Tables
<1>3. \A l \in Logs : Good(l)
  BY <1>1 DEF LogsInit, Good, GoodLog, Readable
<1>4. QED
  BY <1>2, <1>3, EachLog

-----------------------------------------------------------------------------
(* The browsers' tickets, whatever the core *)

BrowserRequests ==
  [kind : {"none"}] \cup [kind : {"mint", "visit"}, now : Nat]
    \cup [kind : {"exchange"}, ticket : Tickets, now : Nat]

\* What a handler holds is a ticket that was minted, and a reading of the clock.
HandlersHoldMintedTickets ==
  \A b \in Browsers : request[b].kind = "exchange" => request[b].ticket \in minted

\* A ticket that was looked up has left the table for good.
PresentedTicketsAreGone == \A t \in presented : ticketExpiry[t] = 0

BrowserInv ==
  /\ BrowserTypeOK
  /\ clock \in Nat
  /\ request \in [Browsers -> BrowserRequests]
  /\ HandlersHoldMintedTickets
  /\ PresentedTicketsAreGone

\* A pruned table is a table, and what was not in it is not in it afterwards.
LEMMA UnendedTable ==
  ASSUME NEW expiry \in [Tickets -> Nat], NEW now \in Nat
  PROVE  /\ Unended(expiry, now) \in [Tickets -> Nat]
         /\ \A t \in Tickets : expiry[t] = 0 => Unended(expiry, now)[t] = 0
         /\ \A t \in Tickets : Unended(expiry, now)[t] \in {0, expiry[t]}
  BY DEF Unended

\* The empty store satisfies the invariant.
LEMMA BrowserInitInv == BrowserInit => BrowserInv
  BY BrowserAssumption DEF BrowserInit, BrowserInv, BrowserTypeOK, BrowserRequests, NoRequest,
     HandlersHoldMintedTickets, PresentedTicketsAreGone

\* Reading the clock touches no table.
LEMMA ReadClockStep ==
  ASSUME BrowserInv, NEW b \in Browsers, ReadClock(b)
  PROVE  BrowserInv'
  <1>1. BrowserTypeOK' /\ clock' \in Nat /\ PresentedTicketsAreGone'
    BY DEF BrowserInv, ReadClock, BrowserTypeOK, PresentedTicketsAreGone
  <1>2. request' \in [Browsers -> BrowserRequests]
    BY DEF BrowserInv, ReadClock, BrowserTypeOK, BrowserRequests
  <1>3. HandlersHoldMintedTickets'
    BY DEF BrowserInv, ReadClock, HandlersHoldMintedTickets, BrowserRequests
  <1> QED
    BY <1>1, <1>2, <1>3 DEF BrowserInv

\* A handler that has replied holds nothing.
LEMMA ReplyStep ==
  ASSUME BrowserInv, NEW b \in Browsers, Reply(b), minted \subseteq minted'
  PROVE  request' \in [Browsers -> BrowserRequests] /\ HandlersHoldMintedTickets'
  BY DEF BrowserInv, Reply, NoRequest, BrowserRequests, HandlersHoldMintedTickets

\* Only a ticket nobody has seen yet is listed.
LEMMA MintStep ==
  ASSUME BrowserInv, NEW b \in Browsers, MintTicket(b)
  PROVE  BrowserInv'
  <1> DEFINE now == request[b].now
             tickets == Unended(ticketExpiry, now)
  <1>1. now \in Nat
    BY DEF BrowserInv, MintTicket, Asks, BrowserRequests
  <1>2. /\ tickets \in [Tickets -> Nat] /\ \A t \in presented : tickets[t] = 0
        /\ Unended(sessionExpiry, now) \in [Tickets -> Nat]
    BY <1>1, UnendedTable DEF BrowserInv, BrowserTypeOK, PresentedTicketsAreGone
  <1>3. minted \subseteq minted' /\ minted' \subseteq Tickets /\ presented' = presented
    BY DEF BrowserInv, BrowserTypeOK, MintTicket
  <1>4. ticketExpiry' \in [Tickets -> Nat] /\ PresentedTicketsAreGone'
    <2>1. CASE ticketExpiry' = tickets
      BY <1>2, <1>3, <2>1 DEF PresentedTicketsAreGone
    <2>2. CASE \E t \in Tickets \ minted : ticketExpiry' = [tickets EXCEPT ![t] = now + BrowserTicketTTL]
      BY <1>1, <1>2, <1>3, <2>2, BrowserAssumption
         DEF BrowserInv, BrowserTypeOK, PresentedTicketsAreGone
    <2> QED
      BY <2>1, <2>2 DEF MintTicket
  <1>5. request' \in [Browsers -> BrowserRequests] /\ HandlersHoldMintedTickets'
    BY <1>3, ReplyStep DEF MintTicket
  <1>6. sessionExpiry' \in [Tickets -> Nat] /\ clock' \in Nat
    BY <1>2 DEF MintTicket, BrowserInv
  <1> QED
    BY <1>3, <1>4, <1>5, <1>6 DEF BrowserInv, BrowserTypeOK

\* The ticket leaves the table before anything is asked of it, and buys a session
\* only if it was in there.
LEMMA ExchangeStep ==
  ASSUME BrowserInv, NEW b \in Browsers, Exchange(b)
  PROVE  /\ BrowserInv'
         /\ \A t \in presented : sessionExpiry'[t] # 0 => sessionExpiry'[t] = sessionExpiry[t]
  <1> DEFINE now == request[b].now
             bought == request[b].ticket
             tickets == Unended(ticketExpiry, now)
             kept == Unended(sessionExpiry, now)
             sold == tickets[bought] > now /\ Cardinality(Live(kept)) < MaxBrowserSessions
  <1>1. now \in Nat /\ bought \in minted /\ bought \in Tickets
    BY DEF BrowserInv, BrowserTypeOK, Exchange, Asks, BrowserRequests, HandlersHoldMintedTickets
  <1>2. /\ tickets \in [Tickets -> Nat] /\ \A t \in presented : tickets[t] = 0
        /\ kept \in [Tickets -> Nat] /\ \A t \in Tickets : kept[t] \in {0, sessionExpiry[t]}
    BY <1>1, UnendedTable DEF BrowserInv, BrowserTypeOK, PresentedTicketsAreGone
  <1>3. /\ ticketExpiry' = [tickets EXCEPT ![bought] = 0]
        /\ sessionExpiry' = IF sold THEN [kept EXCEPT ![bought] = now + BrowserSessionTTL] ELSE kept
        /\ presented' = presented \cup {bought} /\ minted' = minted /\ clock' = clock /\ Reply(b)
    BY DEF Exchange
  <1> HIDE DEF tickets, kept
  <1>4. ticketExpiry' \in [Tickets -> Nat] /\ PresentedTicketsAreGone'
    BY <1>1, <1>2, <1>3 DEF PresentedTicketsAreGone, BrowserInv, BrowserTypeOK
  <1>5. sessionExpiry' \in [Tickets -> Nat]
    BY <1>1, <1>2, <1>3, BrowserAssumption
  <1>6. request' \in [Browsers -> BrowserRequests] /\ HandlersHoldMintedTickets'
    BY <1>3, ReplyStep
  <1>7. ASSUME NEW t \in presented, sessionExpiry'[t] # 0
        PROVE  sessionExpiry'[t] = sessionExpiry[t]
    <2>1. t \in Tickets
      BY DEF BrowserInv, BrowserTypeOK
    <2>2. sessionExpiry'[t] = kept[t]
      BY <1>1, <1>2, <1>3, <2>1
    <2> QED
      BY <1>2, <1>7, <2>1, <2>2
  <1> QED
    BY <1>1, <1>3, <1>4, <1>5, <1>6, <1>7 DEF BrowserInv, BrowserTypeOK

\* A visit prunes and nothing else.
LEMMA VisitStep ==
  ASSUME BrowserInv, NEW b \in Browsers, Visit(b)
  PROVE  /\ BrowserInv'
         /\ \A t \in presented : sessionExpiry'[t] # 0 => sessionExpiry'[t] = sessionExpiry[t]
  <1>1. request[b].now \in Nat
    BY DEF BrowserInv, Visit, Asks, BrowserRequests
  <1>2. request' \in [Browsers -> BrowserRequests] /\ HandlersHoldMintedTickets'
    BY ReplyStep DEF Visit
  <1> QED
    BY <1>1, <1>2, UnendedTable
       DEF BrowserInv, BrowserTypeOK, PresentedTicketsAreGone, Visit

\* Every step preserves the invariant.
LEMMA BrowserStepInv == BrowserInv /\ [BrowserNext]_browserVars => BrowserInv'
  <1> SUFFICES ASSUME BrowserInv, [BrowserNext]_browserVars PROVE BrowserInv'
    OBVIOUS
  <1>1. CASE Tick
    BY <1>1 DEF Tick, BrowserInv, BrowserTypeOK, HandlersHoldMintedTickets, PresentedTicketsAreGone
  <1>2. CASE \E b \in Browsers : BrowserStep(b)
    BY <1>2, ReadClockStep, MintStep, ExchangeStep, VisitStep DEF BrowserStep
  <1>3. CASE ForgetBrowsers
    BY <1>3 DEF ForgetBrowsers, BrowserInv, BrowserTypeOK, BrowserRequests, NoRequest,
                HandlersHoldMintedTickets, PresentedTicketsAreGone
  <1>4. CASE UNCHANGED browserVars
    BY <1>4 DEF browserVars, BrowserInv, BrowserTypeOK, HandlersHoldMintedTickets, PresentedTicketsAreGone
  <1> QED
    BY <1>1, <1>2, <1>3, <1>4 DEF BrowserNext

\* A ticket that was presented never buys a session, whatever any step does.
LEMMA StepSparesPresented ==
  ASSUME BrowserInv, BrowserNext, NEW t \in presented, sessionExpiry'[t] # 0
  PROVE  sessionExpiry'[t] = sessionExpiry[t]
  <1>1. t \in Tickets
    BY DEF BrowserInv, BrowserTypeOK
  <1>2. CASE Tick \/ \E b \in Browsers : ReadClock(b)
    BY <1>2 DEF Tick, ReadClock
  <1>3. CASE \E b \in Browsers : MintTicket(b)
    <2>1. PICK b \in Browsers : MintTicket(b)
      BY <1>3
    <2>2. request[b].now \in Nat /\ sessionExpiry' = Unended(sessionExpiry, request[b].now)
      BY <2>1 DEF BrowserInv, MintTicket, Asks, BrowserRequests
    <2> QED
      BY <1>1, <2>2, UnendedTable DEF BrowserInv, BrowserTypeOK
  <1>4. CASE \E b \in Browsers : Exchange(b) \/ Visit(b)
    BY <1>4, ExchangeStep, VisitStep
  <1>5. CASE ForgetBrowsers
    BY <1>1, <1>5 DEF ForgetBrowsers
  <1> QED
    BY <1>2, <1>3, <1>4, <1>5 DEF BrowserNext, BrowserStep

-----------------------------------------------------------------------------

\* The store of tickets and sessions keeps its shape, and a ticket that was looked
\* up is out of it.
THEOREM TicketsLeaveTheTable == BrowserSpec => []BrowserInv
  BY BrowserInitInv, BrowserStepInv, PTL DEF BrowserSpec

\* exchange deletes the ticket before it checks it: it is good for one attempt,
\* whatever readings of the clock the handlers hold and however often the core is
\* started again.
THEOREM OneAttemptPerTicket == BrowserSpec => TicketsBuyOneSession
  <1>1. BrowserInv /\ [BrowserNext]_browserVars
          => [\A t \in presented : sessionExpiry'[t] # 0 => sessionExpiry'[t] = sessionExpiry[t]]_browserVars
    BY StepSparesPresented
  <1> QED
    BY <1>1, TicketsLeaveTheTable, PTL DEF BrowserSpec, TicketsBuyOneSession

-----------------------------------------------------------------------------
(* The lock and the file by which a core is found *)

Phases == {"none", "locking", "clearing", "configuring", "listening", "written", "serving",
           "closing", "removing", "unlocking"}

\* The lock excludes: whoever is past it holds it.
LockExcludes == \A c \in Cores : phase[c] \notin {"none", "locking"} <=> lock = c

\* From the moment it is written until the core starts to leave, the file names it.
FileNamesItsCore == \A c \in Cores : phase[c] \in {"written", "serving"} => stateFile = c

InstanceInv ==
  /\ phase \in [Cores -> Phases] /\ lock \in Cores \cup {NoCore}
  /\ LockExcludes /\ FileNamesItsCore

\* Nothing runs in the beginning.
LEMMA InstanceInitInv == InstanceInit => InstanceInv
  BY NoCoreAssumption DEF InstanceInit, InstanceInv, Phases, LockExcludes, FileNamesItsCore

\* Processes that end take nothing from the others.
LEMMA EndStep ==
  ASSUME InstanceInv, NEW dead, End(dead)
  PROVE  InstanceInv'
  BY NoCoreAssumption DEF InstanceInv, LockExcludes, FileNamesItsCore, End, Named, Phases

\* A process that holds the lock may do what it likes with the file, as long as
\* it is not beyond writing it when the file does not name it.
LEMMA HolderStep ==
  ASSUME InstanceInv, NEW c \in Cores, NEW step \in Phases \ {"none", "locking"},
         phase[c] \notin {"none", "locking"}, MoveTo(c, step), UNCHANGED lock,
         step \in {"written", "serving"} => stateFile' = c
  PROVE  InstanceInv'
  <1>1. \A d \in Cores : d # c => phase[d] \in {"none", "locking"} /\ phase'[d] = phase[d]
    BY DEF InstanceInv, LockExcludes, MoveTo
  <1>2. phase' \in [Cores -> Phases] /\ phase'[c] = step
    BY DEF InstanceInv, MoveTo
  <1>3. LockExcludes'
    BY <1>1, <1>2 DEF InstanceInv, LockExcludes
  <1>4. FileNamesItsCore'
    BY <1>1, <1>2 DEF FileNamesItsCore
  <1> QED
    BY <1>2, <1>3, <1>4 DEF InstanceInv

\* A new process waits for the lock.
LEMMA RunStep ==
  ASSUME InstanceInv, NEW c \in Cores, Run(c)
  PROVE  InstanceInv'
  <1>1. phase[c] = "none"
    BY DEF Run, Free
  <1> QED
    BY <1>1 DEF Run, MoveTo, fileVars, InstanceInv, LockExcludes, FileNamesItsCore, Phases

\* The lock goes to one process, when nobody has it.
LEMMA AcquireStep ==
  ASSUME InstanceInv, NEW c \in Cores, Acquire(c)
  PROVE  InstanceInv'
  <1>1. CASE lock = NoCore
    BY <1>1, NoCoreAssumption
       DEF Acquire, MoveTo, InstanceInv, LockExcludes, FileNamesItsCore, Phases
  <1>2. CASE lock # NoCore
    BY <1>2, EndStep DEF Acquire
  <1> QED
    BY <1>1, <1>2

\* The steps of serve.
LEMMA ServeStepInv ==
  ASSUME InstanceInv, NEW c \in Cores, ServeStep(c)
  PROVE  InstanceInv'
  <1>1. CASE Acquire(c)
    BY <1>1, AcquireStep
  <1>2. CASE Clear(c)
    BY <1>2, HolderStep DEF Clear, Phases
  <1>3. CASE WriteState(c)
    BY <1>3, HolderStep DEF WriteState, Phases
  <1>4. CASE SyncState(c)
    <2>1. stateFile' = c /\ phase[c] = "written" /\ UNCHANGED lock
      BY <1>4 DEF SyncState, InstanceInv, FileNamesItsCore
    <2>2. MoveTo(c, "serving") \/ MoveTo(c, "unlocking")
      BY <1>4 DEF SyncState
    <2> QED
      BY <2>1, <2>2, HolderStep DEF Phases
  <1>5. CASE CloseServer(c)
    BY <1>5, HolderStep DEF CloseServer, Phases
  <1>6. CASE RemoveState(c)
    BY <1>6, HolderStep DEF RemoveState, Phases
  <1>7. CASE Unlock(c)
    BY <1>7, EndStep DEF Unlock
  <1> QED
    BY <1>1, <1>2, <1>3, <1>4, <1>5, <1>6, <1>7 DEF ServeStep

\* Opening the stores and binding the listener.
LEMMA ConfigureStep ==
  ASSUME InstanceInv, NEW c \in Cores, Configure(c)
  PROVE  InstanceInv'
  <1>1. phase[c] = "configuring" /\ UNCHANGED lock
    BY DEF Configure, Configured, ConfigureFails
  <1>2. MoveTo(c, "listening") \/ MoveTo(c, "unlocking")
    BY DEF Configure, Configured, ConfigureFails
  <1> QED
    BY <1>1, <1>2, HolderStep DEF Phases

\* Whatever the desktop does to processes, it does to its own.
LEMMA DesktopStepInv ==
  ASSUME InstanceInv, DesktopStep
  PROVE  InstanceInv'
  <1>1. CASE Probe \/ GiveWay \/ Monitor
    BY <1>1 DEF Probe, GiveWay, Monitor, coreVars, fileVars, InstanceInv, LockExcludes, FileNamesItsCore
  <1>2. CASE StopPrevious
    BY <1>2, EndStep DEF StopPrevious
  <1>3. CASE Spawn
    BY <1>3, RunStep DEF Spawn
  <1>4. CASE Wait
    <2>1. CASE UNCHANGED <<coreVars, stateFile, stateImages>>
      BY <2>1 DEF coreVars, InstanceInv, LockExcludes, FileNamesItsCore
    <2>2. CASE End({spawned})
      BY <1>4, <2>2, EndStep DEF Wait
    <2> QED
      BY <1>4, <2>1, <2>2 DEF Wait
  <1> QED
    BY <1>1, <1>2, <1>3, <1>4 DEF DesktopStep

\* The user and others on the machine.
LEMMA EnvironmentStep ==
  ASSUME InstanceInv, Environment
  PROVE  InstanceInv'
  <1>1. CASE OpenDesktop \/ TakePort \/ LeavePort
    BY <1>1 DEF OpenDesktop, TakePort, LeavePort, coreVars, fileVars, InstanceInv, LockExcludes, FileNamesItsCore
  <1>2. CASE Quit
    BY <1>2, EndStep DEF Quit
  <1>3. CASE \E c \in Cores : StartInShell(c)
    BY <1>3, RunStep DEF StartInShell
  <1> QED
    BY <1>1, <1>2, <1>3 DEF Environment

\* A start in one step takes the lock as well.
LEMMA BootStep ==
  ASSUME InstanceInv, Boot
  PROVE  InstanceInv'
  <1>1. lock = NoCore /\ \A d \in Cores : phase[d] \in {"none", "locking"}
    BY NoCoreAssumption DEF Boot, InstanceInv, LockExcludes
  <1>2. PICK c \in Cores : MoveTo(c, "serving") /\ lock' = c /\ stateFile' = c
    BY NoCoreAssumption DEF Boot
  <1> QED
    BY <1>1, <1>2, NoCoreAssumption
       DEF MoveTo, InstanceInv, LockExcludes, FileNamesItsCore, Phases

\* Nothing else touches the processes, their lock or their file, or everything ends.
LEMMA InstanceStepInv == InstanceInv /\ [Next]_vars => InstanceInv'
  <1> SUFFICES ASSUME InstanceInv, [Next]_vars PROVE InstanceInv'
    OBVIOUS
  <1>1. CASE \E c \in Cores : Serve(c) \/ Configure(c)
    BY <1>1, ServeStepInv, ConfigureStep DEF Serve
  <1>2. CASE \E c \in Cores : Killed(c)
    BY <1>2, EndStep DEF Killed, Kill
  <1>3. CASE \E c \in Cores : Interrupted(c)
    BY <1>3, HolderStep DEF Interrupted, Interrupt, Phases
  <1>4. CASE PowerFails
    BY <1>4, NoCoreAssumption DEF PowerFails, InstanceInv, LockExcludes, FileNamesItsCore, Phases
  <1>5. CASE Boot
    BY <1>5, BootStep
  <1>6. CASE Desktop
    BY <1>6, DesktopStepInv DEF Desktop
  <1>7. CASE Environment
    BY <1>7, EnvironmentStep
  <1>8. CASE BootFails \/ Record \/ Browse \/ RecordsAge \/ UNCHANGED vars
    BY <1>8 DEF BootFails, Record, Browse, RecordsAge, vars, instanceVars, coreVars, fileVars,
                InstanceInv, LockExcludes, FileNamesItsCore
  <1> QED
    BY <1>1, <1>2, <1>3, <1>4, <1>5, <1>6, <1>7, <1>8 DEF Next

\* What processes do to the browsers' sessions is to forget them all.
LEMMA BrowserSteps == [Next]_vars => [BrowserNext]_browserVars
  <1> SUFFICES ASSUME [Next]_vars PROVE BrowserNext \/ UNCHANGED browserVars
    OBVIOUS
  <1>1. LoseMemory => BrowserNext \/ UNCHANGED browserVars
    BY DEF LoseMemory, BrowserNext
  <1>2. CASE \E c \in Cores : Serve(c) \/ Configure(c)
    BY <1>2 DEF Serve, Configure
  <1>3. CASE \E c \in Cores : Killed(c) \/ Interrupted(c)
    BY <1>1, <1>3 DEF Killed, Interrupted, BrowserNext
  <1>4. CASE PowerFails
    BY <1>4 DEF PowerFails, BrowserNext
  <1>5. CASE Desktop \/ Environment
    BY <1>1, <1>5 DEF Desktop, Environment
  <1>6. CASE Browse
    BY <1>6 DEF Browse, BrowserNext
  <1>7. CASE Boot \/ BootFails \/ Record \/ RecordsAge \/ UNCHANGED vars
    BY <1>7 DEF Boot, BootFails, Record, RecordsAge, vars
  <1> QED
    BY <1>2, <1>3, <1>4, <1>5, <1>6, <1>7 DEF Next

-----------------------------------------------------------------------------

\* At most one core is past the lock, and core.json names it while it serves.
THEOREM OneCoreAtATime == Spec => []InstanceInv
  <1>1. Init => InstanceInv
    BY InstanceInitInv DEF Init
  <1> QED
    BY <1>1, InstanceStepInv, PTL DEF Spec

\* A client that reads core.json while a core serves finds that core, however
\* others start, fail, are killed or leave around it (serve.go:38-50, 125-143).
THEOREM ServingCoresAreFound == Spec => []ServingCoreIsDiscoverable
  <1>1. InstanceInv => ServingCoreIsDiscoverable
    BY DEF InstanceInv, FileNamesItsCore, ServingCoreIsDiscoverable, Discovered, Answers
  <1> QED
    BY <1>1, OneCoreAtATime, PTL

\* With processes around it, that end and start again, the store of browser
\* sessions behaves as it does by itself: a ticket is good for one attempt.
THEOREM TicketsSurviveNoRestart == Spec => TicketsBuyOneSession
  <1>1. Init => BrowserInit
    BY DEF Init
  <1>2. Spec => BrowserSpec
    BY <1>1, BrowserSteps, PTL DEF Spec, BrowserSpec
  <1> QED
    BY <1>2, OneAttemptPerTicket

-----------------------------------------------------------------------------
(* The logs in a core *)

\* A step that leaves the logs alone has to leave a core that serves.
LEMMA LogsRest ==
  ASSUME CoreLogsInv, UNCHANGED logVars, workload' = workload, Serving => Serving'
  PROVE  CoreLogsInv'
BY DEF logVars, CoreLogsInv, LogsInv, LogsTyped, StepsShow, FeedbackIsWhole,
   AcknowledgedRecordsSurvive, LogsStayWithinTheirLimit, QuietUnlessServing,
   DesktopRecordsOnce, LogAt

\* A process that ends takes with it what it was recording.
LEMMA LoseMemoryStep ==
  ASSUME CoreLogsInv, LoseMemory, workload' = workload,
         \A c \in Cores : phase[c] = "serving" => phase'[c] \in {"serving", "none"}
  PROVE  CoreLogsInv'
<1>1. CASE LogsAbandoned
  <2>1. writing' = [l \in Logs |-> Idle] /\ UNCHANGED <<log, logImages, issued>>
        /\ Idle.step = "idle" /\ "audit" \in Logs
    BY <1>1 DEF LogsAbandoned, Idle, Logs, Journals
  <2>2. \A l \in Logs : writing'[l].step = "idle"
    BY <2>1
  <2>3. QuietUnlessServing' /\ DesktopRecordsOnce'
    BY <2>1, <2>2 DEF CoreLogsInv, QuietUnlessServing, DesktopRecordsOnce, LogAt
  <2>4. QED
    BY <1>1, <2>3, AbandonedStep DEF CoreLogsInv
<1>2. CASE UNCHANGED logVars /\ ~(\E c \in Cores : phase[c] \in {"serving", "closing"} /\ phase'[c] = "none")
  <2>1. Serving => Serving'
    BY <1>2 DEF Serving
  <2>2. QED
    BY <1>2, <2>1, LogsRest
<1>3. QED
  BY <1>1, <1>2 DEF LoseMemory

\* Processes that end, and the one that runs, leave the others where they are.
LEMMA EndSparesServing ==
  ASSUME NEW dead, End(dead)
  PROVE  \A c \in Cores : phase[c] = "serving" => phase'[c] \in {"serving", "none"}
BY DEF End

LEMMA MoveSparesServing ==
  ASSUME InstanceInv, NEW c \in Cores, NEW step, MoveTo(c, step), phase[c] # "serving"
  PROVE  \A d \in Cores : phase[d] = "serving" => phase'[d] = "serving"
BY DEF InstanceInv, MoveTo

LEMMA OthersSpareServing ==
  ASSUME InstanceInv, (\E c \in Cores : Kill(c)) \/ DesktopStep \/ Environment
  PROVE  \A c \in Cores : phase[c] = "serving" => phase'[c] \in {"serving", "none"}
<1>1. CASE \E dead : End(dead)
  BY <1>1, EndSparesServing
<1>2. CASE \E c \in Cores : Run(c)
  BY <1>2, MoveSparesServing DEF Run, Free
<1>3. CASE UNCHANGED phase
  BY <1>3
<1>4. (\E c \in Cores : Kill(c)) \/ DesktopStep
        => (\E dead : End(dead)) \/ (\E c \in Cores : Run(c)) \/ UNCHANGED phase
  BY DEF Kill, DesktopStep, Probe, GiveWay, StopPrevious, Spawn, Wait, Monitor, coreVars
<1>5. Environment
        => (\E dead : End(dead)) \/ (\E c \in Cores : Run(c)) \/ UNCHANGED phase
  BY DEF Environment, OpenDesktop, Quit, TakePort, LeavePort, StartInShell, coreVars
<1>6. QED
  BY <1>1, <1>2, <1>3, <1>4, <1>5

\* A core on its way up or down moves past no core that serves.
LEMMA ServeSparesServing ==
  ASSUME InstanceInv, NEW c \in Cores, ServeStep(c)
  PROVE  Serving => Serving'
<1>1. phase[c] # "serving"
  BY DEF ServeStep, Acquire, Clear, WriteState, SyncState, CloseServer, RemoveState, Unlock
<1>2. (\E step : MoveTo(c, step)) \/ End({c})
  BY DEF ServeStep, Acquire, Clear, WriteState, SyncState, CloseServer, RemoveState, Unlock
<1>3. CASE \E step : MoveTo(c, step)
  BY <1>1, <1>3, MoveSparesServing DEF Serving
<1>4. CASE End({c})
  BY <1>1, <1>4 DEF End, Serving
<1>5. QED
  BY <1>2, <1>3, <1>4

\* While a core starts, nobody serves and nothing is under way.
LEMMA StartIsQuiet ==
  ASSUME InstanceInv, CoreLogsInv,
         lock = NoCore \/ \E c \in Cores : phase[c] = "configuring"
  PROVE  \A l \in Logs : LogAt(l, "idle")
<1>1. ~Serving
  <2>1. \A c, d \in Cores : phase[d] = "serving" => lock = d /\ (phase[c] = "configuring" => lock = c)
    BY DEF InstanceInv, LockExcludes
  <2>2. QED
    BY <2>1, NoCoreAssumption DEF Serving
<1>2. QED
  BY <1>1 DEF CoreLogsInv, QuietUnlessServing

\* A log without records has none to prune.
LEMMA EmptyLogs ==
  ASSUME CoreLogsInv, workload = "desktop", issued = 0
  PROVE  /\ log["audit"] = <<>> /\ logImages["audit"] = {<<>>}
         /\ Unexpired(<<>>) = <<>>
<1>1. "audit" \in Logs
  BY DEF Logs, Journals
<1>2. logImages["audit"] = {<<>>} /\ log["audit"] \in logImages["audit"]
  BY <1>1 DEF CoreLogsInv, DesktopRecordsOnce, LogsInv, LogsTyped
<1> DEFINE none == <<>>
           kept == Unexpired(none)
<1>3. none \in Files /\ DOMAIN none = {}
  BY DEF Files
<1>4. kept = <<>>
  <2> HIDE DEF none
  <2>1. PartOf(Unexpired(none), none)
    BY <1>3, UnexpiredFacts
  <2>2. kept \in Files /\ \A j \in DOMAIN kept : FALSE
    BY <1>3, <2>1 DEF PartOf
  <2> HIDE DEF kept
  <2>3. Len(kept) \in Nat /\ DOMAIN kept = 1..Len(kept)
    BY <2>2 DEF Files
  <2>4. Len(kept) = 0
    BY <2>2, <2>3
  <2>5. QED
    BY <2>2, <2>4 DEF Files
<1>5. QED
  BY <1>2, <1>4

LEMMA ConfigureLogs ==
  ASSUME InstanceInv, CoreLogsInv, workload' = workload,
         OpenLogs \/ OpeningFails,
         lock = NoCore \/ \E c \in Cores : phase[c] = "configuring"
  PROVE  CoreLogsInv'
<1>1. \A l \in Logs : LogAt(l, "idle")
  BY StartIsQuiet
<1>2. LogsInv'
  BY <1>1, OpenLogsStep, OpeningFailsStep DEF CoreLogsInv
<1>3. UNCHANGED <<writing, issued>> /\ "audit" \in Logs /\ "audit" \in Journals
  BY DEF OpenLogs, OpeningFails, Logs, Journals
<1>4. \A l \in Logs : LogAt(l, "idle")'
  BY <1>1, <1>3 DEF LogAt
<1>5. ASSUME workload = "desktop", issued = 0
      PROVE  logImages'["audit"] = {<<>>}
  <2>1. log["audit"] = <<>> /\ logImages["audit"] = {<<>>} /\ Unexpired(log["audit"]) = log["audit"]
    BY <1>5, EmptyLogs
  <2>2. CASE OpenLogs
    BY <1>3, <2>1, <2>2 DEF OpenLogs
  <2>3. CASE OpeningFails
    <3>1. CASE UNCHANGED logImages
      BY <2>1, <3>1
    <3>2. ASSUME NEW l \in Journals, Unexpired(log[l]) # log[l],
                 Replace(l, Unexpired(log[l]), expired)
          PROVE  logImages'["audit"] = {<<>>}
      <4>1. l # "audit"
        BY <2>1, <3>2
      <4>2. logImages \in [Logs -> SUBSET Files]
        BY DEF CoreLogsInv, LogsInv, LogsTyped
      <4>3. logImages' = [logImages EXCEPT ![l] = @ \cup {Unexpired(log[l])}]
        BY <3>2 DEF Replace, Put
      <4>4. QED
        BY <1>3, <2>1, <4>1, <4>2, <4>3
    <3>3. QED
      BY <2>3, <3>1, <3>2 DEF OpeningFails
  <2>4. QED
    BY <2>2, <2>3
<1>6. QuietUnlessServing' /\ DesktopRecordsOnce'
  BY <1>3, <1>4, <1>5 DEF QuietUnlessServing, DesktopRecordsOnce, LogAt
<1>7. QED
  BY <1>2, <1>6 DEF CoreLogsInv

\* Beside the desktop there is one record, in one step when it is all written.
LEMMA RecordOnceStep ==
  ASSUME CoreLogsInv, workload = "desktop", RecordOnce
  PROVE  LogsInv' /\ (workload' = workload => DesktopRecordsOnce')
<1> DEFINE l == "audit"
<1>1. l \in Logs /\ l \in Journals /\ LogsInv /\ DesktopRecordsOnce /\ Tables /\ l # "feedback"
  <2>1. l \in Logs /\ l \in Journals /\ l # "feedback"
    BY DEF Logs, Journals
  <2>2. QED
    BY <2>1, AtTheLog DEF CoreLogsInv
<1>2. CASE issued = 0 /\ AppendRecord(l, 1)
  <2>1. LogsInv'
    BY <1>1, <1>2, AppendRecordStep
  <2>2. log[l] = <<>> /\ Bytes(log[l]) = 0
    <3>1. log["audit"] = <<>> /\ log["audit"] \in Files
      BY <1>1, <1>2, EmptyLogs DEF Tables
    <3>2. QED
      BY <3>1, BytesFacts
  <2>3. 1 <= MaxBytes /\ Bytes(log[l]) + 1 <= MaxBytes
    BY <1>2, <2>2, LogsAssumption DEF AppendRecord
  <2>4. /\ UNCHANGED log /\ issued' = 1
        /\ writing' = [writing EXCEPT ![l] = [step |-> "opened", record |-> [id |-> issued + 1, size |-> 1, torn |-> FALSE]]]
    BY <1>2, <2>3 DEF AppendRecord
  <2>5. writing'[l].step = "opened"
    BY <1>1, <2>4 DEF Tables
  <2>6. QED
    BY <2>1, <2>2, <2>4, <2>5 DEF DesktopRecordsOnce, LogAt
<1>3. CASE LogAt(l, "opened") /\ WriteHalf(l)
  <2>1. LogsInv'
    BY <1>1, <1>3, WriteHalfStep
  <2>2. log[l] = <<>> /\ issued # 0 /\ issued' = issued
    BY <1>1, <1>3 DEF DesktopRecordsOnce, LogAt, WriteHalf
  <2>3. CASE UNCHANGED <<log, logImages>> /\ Stop(l)
    <3>1. writing'[l].step = "idle"
      BY <1>1, <2>3 DEF Stop, Tables, Idle
    <3>2. QED
      BY <2>1, <2>2, <3>1 DEF DesktopRecordsOnce, LogAt
  <2>4. ASSUME Put(l, Append(log[l], [writing[l].record EXCEPT !.torn = TRUE])),
               Proceed(l, "half") \/ Stop(l)
        PROVE  DesktopRecordsOnce'
    <3>1. Len(log'[l]) = 1
      BY <1>1, <2>2, <2>4 DEF Put, Tables
    <3>2. ~LogAt(l, "idle")
      BY <1>3 DEF LogAt
    <3>3. writing'[l].step \in {"half", "idle"}
      <4>1. CASE Proceed(l, "half")
        BY <1>1, <3>2, <4>1, Proceeded
      <4>2. CASE Stop(l)
        BY <1>1, <4>2 DEF Stop, Tables, Idle
      <4>3. QED
        BY <2>4, <4>1, <4>2
    <3>4. QED
      BY <2>2, <3>1, <3>3 DEF DesktopRecordsOnce, LogAt
  <2>5. QED
    BY <1>3, <2>1, <2>3, <2>4 DEF WriteHalf
<1>4. ASSUME LogAt(l, "half"), Stop(l), UNCHANGED issued,
             NEW c, c = Append(Front(log[l]), writing[l].record),
             log' = [log EXCEPT ![l] = c],
             logImages' = [logImages EXCEPT ![l] = {c}],
             recorded' = [recorded EXCEPT ![l] = {c[1].id}]
      PROVE  LogsInv' /\ (workload' = workload => DesktopRecordsOnce')
  <2>1. /\ c \in Files /\ Len(c) = 1 /\ Bytes(c) <= MaxBytes
        /\ writing[l].record.id \in Whole(c)
    BY <1>1, <1>4, Finished DEF DesktopRecordsOnce, CoreLogsInv
  <2>2. DOMAIN c = {1} /\ c[1] \in LogRecord /\ c[1].id \in Nat
    <3>1. DOMAIN c = {1} /\ c[1] \in LogRecord
      BY <2>1 DEF Files
    <3>2. QED
      BY <3>1 DEF LogRecord
  <2>3. c[1].id \in Whole(c)
    BY <2>1, <2>2 DEF Whole
  <2>4. Idle \in Operations /\ Idle.step = "idle" /\ issued # 0
    BY <1>1, <1>4, AtTheLog DEF DesktopRecordsOnce, LogAt
  <2>5. /\ Touches(l) /\ log'[l] = c /\ logImages'[l] = {c} /\ writing'[l] = Idle
        /\ recorded'[l] = {c[1].id}
    BY <1>1, <1>4 DEF Touches, Tables, Stop
  <2>6. Good(l)'
    BY <1>1, <2>1, <2>2, <2>3, <2>4, <2>5 DEF Good, GoodLog
  <2>7. LogsInv'
    BY <1>1, <1>4, <2>5, <2>6, OneLog DEF Tables
  <2>8. QED
    BY <1>4, <2>4, <2>5, <2>7 DEF DesktopRecordsOnce, LogAt
<1>5. QED
  BY <1>2, <1>3, <1>4 DEF RecordOnce

LEMMA CoreLogsStep ==
  ASSUME InstanceInv, CoreLogsInv, [Next]_vars
  PROVE  CoreLogsInv'
<1>1. ASSUME NEW c \in Cores, Serve(c)
      PROVE  CoreLogsInv'
  BY <1>1, ServeSparesServing, LogsRest DEF Serve
<1>2. ASSUME NEW c \in Cores, Configure(c)
      PROVE  CoreLogsInv'
  <2>1. /\ phase[c] = "configuring" /\ workload' = workload
        /\ OpenLogs \/ OpeningFails \/ UNCHANGED logVars
        /\ \E step : MoveTo(c, step)
    BY <1>2 DEF Configure, Configured, ConfigureFails
  <2>2. Serving => Serving'
    BY <2>1, MoveSparesServing DEF Serving
  <2>3. QED
    BY <2>1, <2>2, ConfigureLogs, LogsRest
<1>3. ASSUME NEW c \in Cores, Killed(c)
      PROVE  CoreLogsInv'
  BY <1>3, OthersSpareServing, LoseMemoryStep DEF Killed
<1>4. ASSUME NEW c \in Cores, Interrupted(c)
      PROVE  CoreLogsInv'
  BY <1>4 DEF Interrupted, logVars, CoreLogsInv, LogsInv, LogsTyped, StepsShow,
     FeedbackIsWhole, AcknowledgedRecordsSurvive, LogsStayWithinTheirLimit,
     QuietUnlessServing, DesktopRecordsOnce, LogAt
<1>5. CASE PowerFails
  <2>1. LogsInv' /\ workload' = workload /\ issued' = issued
    BY <1>5, PowerFailureStep DEF PowerFails, CoreLogsInv, LogsAfterPowerFailure
  <2>2. /\ \A l \in Logs : LogAt(l, "idle")'
        /\ "audit" \in Logs
    BY <1>5 DEF PowerFails, LogsAfterPowerFailure, LogAt, Idle, Logs, Journals
  <2>3. workload = "desktop" /\ issued = 0 => logImages'["audit"] = {<<>>}
    BY <1>5, <2>2, EmptyLogs DEF PowerFails, LogsAfterPowerFailure
  <2>4. QED
    BY <2>1, <2>2, <2>3 DEF CoreLogsInv, QuietUnlessServing, DesktopRecordsOnce, LogAt
<1>6. CASE Boot \/ BootFails
  BY <1>6, ConfigureLogs DEF Boot, BootFails
<1>7. CASE Desktop
  BY <1>7, OthersSpareServing, LoseMemoryStep DEF Desktop
<1>8. CASE Environment
  BY <1>8, OthersSpareServing, LoseMemoryStep DEF Environment
<1>9. CASE Record
  <2>1. Serving /\ Serving' /\ workload' = workload
    BY <1>9 DEF Record, Serving, instanceVars, coreVars
  <2>2. ASSUME NEW l \in Logs, l = workload, LogStep(l)
        PROVE  CoreLogsInv'
    <3>1. workload # "desktop"
      BY <2>2 DEF Logs, Journals
    <3>2. QED
      BY <2>1, <2>2, <3>1, LogStepInv DEF CoreLogsInv, QuietUnlessServing, DesktopRecordsOnce
  <2>3. CASE workload = "desktop" /\ RecordOnce
    BY <2>1, <2>3, RecordOnceStep DEF CoreLogsInv, QuietUnlessServing
  <2>4. QED
    BY <1>9, <2>2, <2>3 DEF Record
<1>10. CASE Browse
  BY <1>10, LogsRest DEF Browse, Serving, instanceVars, coreVars
<1>11. CASE RecordsAge
  <2>1. /\ workload # "desktop" /\ workload' = workload /\ UNCHANGED <<phase, writing>>
        /\ Expire
    BY <1>11 DEF RecordsAge, Expire, instanceVars, coreVars, Logs, Journals
  <2>2. QED
    BY <2>1, ExpireStep DEF CoreLogsInv, QuietUnlessServing, DesktopRecordsOnce, Serving, LogAt
<1>12. CASE UNCHANGED vars
  BY <1>12, LogsRest DEF vars, Serving, instanceVars, coreVars
<1>13. QED
  BY <1>1, <1>2, <1>3, <1>4, <1>5, <1>6, <1>7, <1>8, <1>9, <1>10, <1>11, <1>12 DEF Next

\* Whatever starts, records, fails, is killed or loses power, every operation on
\* a log is where its file shows it, in a core that serves.
THEOREM LogsAreConsistent == Spec => []CoreLogsInv
<1>1. Init => CoreLogsInv
  <2> SUFFICES ASSUME Init PROVE CoreLogsInv
    OBVIOUS
  <2>1. LogsInv
    BY LogsInitInv DEF Init
  <2>2. /\ \A l \in Logs : LogAt(l, "idle")
        /\ logImages["audit"] = {<<>>} /\ "audit" \in Logs
    BY DEF Init, LogsInit, LogAt, Idle, Logs, Journals
  <2>3. QED
    BY <2>1, <2>2 DEF CoreLogsInv, QuietUnlessServing, DesktopRecordsOnce, LogAt
<1>2. InstanceInv /\ CoreLogsInv /\ [Next]_vars => CoreLogsInv'
  BY CoreLogsStep
<1>3. QED
  BY <1>1, <1>2, OneCoreAtATime, PTL DEF Spec

\* No acknowledged record is lost, but to compaction, the limit of entries and
\* the retention, whatever the order of writes, failures, crashes and starts.
THEOREM AcknowledgedRecordsAlwaysSurvive == Spec => []AcknowledgedRecordsSurvive
<1>1. CoreLogsInv => AcknowledgedRecordsSurvive
  BY DEF CoreLogsInv, LogsInv
<1>2. QED
  BY <1>1, LogsAreConsistent, PTL

\* No log outgrows the limit beyond which a core could not start any more.
THEOREM LogsNeverOutgrowTheirLimit == Spec => []LogsStayWithinTheirLimit
<1>1. CoreLogsInv => LogsStayWithinTheirLimit
  BY DEF CoreLogsInv, LogsInv
<1>2. QED
  BY <1>1, LogsAreConsistent, PTL

=============================================================================
