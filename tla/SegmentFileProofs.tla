------------------------- MODULE SegmentFileProofs -------------------------
(***************************************************************************)
(* Proofs about SegmentFile, for any base offset, any size of the index,   *)
(* any sizes of messages and any bounds: the segment's files survive       *)
(* failed writes and crashes.                                              *)
(*                                                                         *)
(* The argument: at any time there is a number n such that the first n     *)
(* entries of the index are those of messages that the log holds, whole,   *)
(* at their positions and with offsets that follow each other from         *)
(* BaseOffset on, all after them are zero, and every message whose append  *)
(* succeeded has one of the n (SegmentInv).  A step leaves the first n     *)
(* entries and what is in the log as they are (Grows).                     *)
(*                                                                         *)
(* It rests on what two functions compute, for all their inputs: the       *)
(* binary search of sort.Search, which finds the end of the entries and    *)
(* the entry of an offset, and the concatenation that puts a batch into    *)
(* the log.  Both are shown by induction, through the least element of a   *)
(* set of natural numbers.                                                 *)
(***************************************************************************)
EXTENDS SegmentFile, SequenceTheorems, FiniteSetTheorems, TLAPS

-----------------------------------------------------------------------------
(* Induction. *)

\* The order of the natural numbers, as a relation.
Below == {p \in Nat \X Nat : p[1] < p[2]}

\* A nonempty set of natural numbers has a least element.
LEMMA Least ==
  ASSUME NEW T \in SUBSET Nat, T # {}
  PROVE  \E x \in T : \A y \in T : x <= y
  <1>1. IsWellFoundedOn(Below, Nat)
        BY NatLessThanWellFounded, Zenon DEF OpToRel, Below
  <1>2. PICK x \in T : \A y \in T : ~ (<<y, x>> \in Below)
        BY <1>1, WFMin, Zenon
  <1>3. \A y, z \in Nat : <<y, z>> \in Below <=> y < z
        BY DEF Below
  <1>4. ASSUME NEW y \in T PROVE x <= y
    <2>1. ~ (<<y, x>> \in Below) /\ y \in Nat /\ x \in Nat
          BY <1>2, Zenon
    <2>2. ~ (y < x)
          BY <2>1, <1>3, Zenon
    <2> QED BY <2>1, <2>2
  <1> QED BY <1>4, Zenon

\* Course of values induction, for a set of natural numbers.
LEMMA Induction ==
  ASSUME NEW T \in SUBSET Nat,
         \A k \in Nat : (\A j \in 0 .. k - 1 : j \in T) => k \in T
  PROVE  T = Nat
  <1> SUFFICES ASSUME Nat \ T # {} PROVE FALSE
      BY Zenon
  <1>1. PICK x \in Nat \ T : \A y \in Nat \ T : x <= y
        BY Least, Zenon
  <1> QED BY <1>1

-----------------------------------------------------------------------------
(* The binary search. *)

\* f is a function that sort.Search computes with.
Finds(n, holds, f) ==
    f = [lo \in 0 .. n |-> [hi \in 0 .. n |->
            IF lo >= hi THEN lo
            ELSE LET mid == (lo + hi) \div 2
                 IN IF holds[mid] THEN f[lo][mid] ELSE f[mid + 1][hi]]]

\* Search is the result of a function that Finds describes.
LEMMA SearchDef ==
  ASSUME NEW n, NEW holds
  PROVE  Search(n, holds) = (CHOOSE f : Finds(n, holds, f))[0][n]
  BY DEF Search, Finds

\* One step of the binary search.
LEMMA FindsValue ==
  ASSUME NEW n, NEW holds, NEW f, Finds(n, holds, f), NEW lo \in 0 .. n, NEW hi \in 0 .. n
  PROVE  f[lo][hi] = IF lo >= hi THEN lo
                     ELSE IF holds[(lo + hi) \div 2] THEN f[lo][(lo + hi) \div 2]
                     ELSE f[((lo + hi) \div 2) + 1][hi]
  BY ZenonT(60) DEF Finds

\* There is such a function when the predicate is monotone.
LEMMA FindsIf ==
  ASSUME NEW n \in Nat, NEW holds, NEW r \in 0 .. n,
         \A i \in 0 .. r - 1 : ~ holds[i],
         \A i \in r .. n - 1 : holds[i]
  PROVE  \E f : Finds(n, holds, f)
  <1> DEFINE f == [lo \in 0 .. n |-> [hi \in 0 .. n |->
                     IF lo >= hi \/ r < lo THEN lo ELSE IF r > hi THEN hi ELSE r]]
             g == [lo \in 0 .. n |-> [hi \in 0 .. n |->
                     IF lo >= hi THEN lo
                     ELSE LET mid == (lo + hi) \div 2
                          IN IF holds[mid] THEN f[lo][mid] ELSE f[mid + 1][hi]]]
  <1>1. ASSUME NEW lo \in 0 .. n, NEW hi \in 0 .. n
        PROVE  f[lo][hi] = g[lo][hi]
    <2> DEFINE mid == (lo + hi) \div 2
    <2>1. CASE lo >= hi
          BY <2>1
    <2>2. CASE lo < hi
      <3>1. mid \in lo .. hi - 1 /\ mid \in 0 .. n /\ mid + 1 \in 0 .. n
            BY <2>2
      <3>2. g[lo][hi] = IF holds[mid] THEN f[lo][mid] ELSE f[mid + 1][hi]
            BY <2>2
      <3>3. f[lo][hi] = IF r < lo THEN lo ELSE IF r > hi THEN hi ELSE r
            BY <2>2
      <3>4. f[lo][mid] = IF lo >= mid \/ r < lo THEN lo ELSE IF r > mid THEN mid ELSE r
            BY <3>1
      <3>5. f[mid + 1][hi] = IF mid + 1 >= hi \/ r < mid + 1 THEN mid + 1
                             ELSE IF r > hi THEN hi ELSE r
            BY <3>1
      <3>6. CASE holds[mid]
        <4>1. r <= mid
              BY <3>6, <3>1
        <4> HIDE DEF f, g, mid
        <4> QED BY <2>2, <3>1, <3>2, <3>3, <3>4, <3>6, <4>1
      <3>7. CASE ~ holds[mid]
        <4>1. mid < r
              BY <3>7, <3>1
        <4> HIDE DEF f, g, mid
        <4> QED BY <2>2, <3>1, <3>2, <3>3, <3>5, <3>7, <4>1
      <3> QED BY <3>6, <3>7, Zenon
    <2> QED BY <2>1, <2>2
  <1>2. f = g
        BY <1>1, Zenon
  <1> QED BY <1>2, Zenon DEF Finds

\* sort.Search finds the least index at which a monotone predicate holds.
LEMMA SearchFinds ==
  ASSUME NEW n \in Nat, NEW holds, NEW r \in 0 .. n,
         \A i \in 0 .. r - 1 : ~ holds[i],
         \A i \in r .. n - 1 : holds[i]
  PROVE  Search(n, holds) = r
  <1>1. PICK f : Finds(n, holds, f) /\ Search(n, holds) = f[0][n]
        BY FindsIf, SearchDef, Zenon
  <1> DEFINE Result(lo, hi) == IF lo >= hi \/ r < lo THEN lo ELSE IF r > hi THEN hi ELSE r
             T == {d \in Nat : \A lo, hi \in 0 .. n : hi - lo = d => f[lo][hi] = Result(lo, hi)}
  <1>2. ASSUME NEW d \in Nat, \A j \in 0 .. d - 1 : j \in T
        PROVE  d \in T
    <2> SUFFICES ASSUME NEW lo \in 0 .. n, NEW hi \in 0 .. n, hi - lo = d
                 PROVE  f[lo][hi] = Result(lo, hi)
        OBVIOUS
    <2> DEFINE mid == (lo + hi) \div 2
    <2>1. f[lo][hi] = IF lo >= hi THEN lo
                      ELSE IF holds[mid] THEN f[lo][mid] ELSE f[mid + 1][hi]
          BY <1>1, FindsValue
    <2>2. CASE lo >= hi
          BY <2>1, <2>2
    <2>3. CASE lo < hi
      <3>1. mid \in lo .. hi - 1 /\ mid \in 0 .. n /\ mid + 1 \in 0 .. n
            BY <2>3
      <3>2. f[lo][mid] = Result(lo, mid)
        <4>1. mid - lo \in 0 .. d - 1
              BY <3>1
        <4> QED BY <3>1, <4>1, <1>2, Zenon
      <3>3. f[mid + 1][hi] = Result(mid + 1, hi)
        <4>1. hi - (mid + 1) \in 0 .. d - 1
              BY <3>1
        <4>2. hi - (mid + 1) \in T
              BY <4>1, <1>2, Zenon
        <4> HIDE DEF mid
        <4> QED BY <3>1, <4>2
      <3>4. CASE holds[mid]
        <4>1. r <= mid
              BY <3>4, <3>1
        <4> HIDE DEF mid
        <4>2. Result(lo, mid) = Result(lo, hi)
              BY <2>3, <3>1, <4>1
        <4>3. f[lo][hi] = f[lo][mid]
              BY <2>1, <2>3, <3>4
        <4> QED BY <3>2, <4>2, <4>3, Zenon
      <3>5. CASE ~ holds[mid]
        <4>1. mid < r
              BY <3>5, <3>1
        <4> HIDE DEF mid
        <4>2. Result(mid + 1, hi) = Result(lo, hi)
              BY <2>3, <3>1, <4>1
        <4>3. f[lo][hi] = f[mid + 1][hi]
              BY <2>1, <2>3, <3>5
        <4> QED BY <3>3, <4>2, <4>3, Zenon
      <3> QED BY <3>4, <3>5, Zenon
    <2> QED BY <2>2, <2>3
  <1>3. T = Nat
    <2> HIDE DEF T
    <2>1. T \in SUBSET Nat
          BY Zenon DEF T
    <2> QED BY <1>2, <2>1, Induction, Zenon
  <1>4. f[0][n] = Result(0, n)
    <2>1. n - 0 = n /\ 0 \in 0 .. n /\ n \in 0 .. n
          OBVIOUS
    <2>2. n \in T
          BY <1>3, Zenon
    <2> QED BY <2>1, <2>2
  <1>5. Result(0, n) = r
        OBVIOUS
  <1> QED BY <1>1, <1>4, <1>5, Zenon

-----------------------------------------------------------------------------
(* The concatenation of sequences. *)

\* f[i] is the concatenation of the first i of the sequences q.
Flattens(q, n, f) ==
    f = [i \in 1 .. n |-> IF i = 1 THEN q[i] ELSE f[i-1] \o q[i]]

\* FlattenSeq is the last value of a function that Flattens describes.
LEMMA FlattenDef ==
  ASSUME NEW q, Len(q) # 0
  PROVE  FlattenSeq(q) = (CHOOSE f : Flattens(q, Len(q), f))[Len(q)]
  BY DEF FlattenSeq, Flattens

\* One step of the concatenation.
LEMMA FlattensValue ==
  ASSUME NEW q, NEW n, NEW f, Flattens(q, n, f), NEW i \in 1 .. n
  PROVE  f[i] = IF i = 1 THEN q[i] ELSE f[i-1] \o q[i]
  BY Zenon DEF Flattens

\* There is such a function, for sequences of any length.
LEMMA FlattensIf ==
  ASSUME NEW q, NEW n \in Nat
  PROVE  \E f : Flattens(q, n, f)
  <1> DEFINE T == {k \in Nat : \E f : Flattens(q, k, f)}
  <1>1. ASSUME NEW k \in Nat, \A j \in 0 .. k - 1 : j \in T
        PROVE  k \in T
    <2>1. CASE k = 0
      <3> DEFINE f == [i \in 1 .. 0 |-> 0]
      <3>1. Flattens(q, k, f)
            BY <2>1 DEF Flattens
      <3> QED BY <3>1, Zenon
    <2>2. CASE k # 0
      <3>1. k - 1 \in T
            BY <1>1, <2>2
      <3>2. PICK f : Flattens(q, k - 1, f)
            BY <3>1, Zenon
      <3> DEFINE e == IF k = 1 THEN q[k] ELSE f[k-1] \o q[k]
                 g == [i \in 1 .. k |-> IF i = k THEN e ELSE f[i]]
                 h == [i \in 1 .. k |-> IF i = 1 THEN q[i] ELSE g[i-1] \o q[i]]
      <3>3. ASSUME NEW i \in 1 .. k PROVE g[i] = h[i]
        <4>1. CASE i = k
              BY <4>1
        <4>2. CASE i # k
          <5>1. i \in 1 .. k - 1 /\ (i # 1 => i - 1 \in 1 .. k /\ i - 1 # k)
                BY <4>2
          <5>2. f[i] = IF i = 1 THEN q[i] ELSE f[i-1] \o q[i]
                BY <5>1, <3>2, FlattensValue
          <5> QED BY <5>1, <5>2
        <4> QED BY <4>1, <4>2
      <3>4. g = h
            BY <3>3, Zenon
      <3>5. Flattens(q, k, g)
            BY <3>4, Zenon DEF Flattens
      <3> QED BY <3>5, Zenon
    <2> QED BY <2>1, <2>2, Zenon
  <1>2. T = Nat
    <2>1. T \in SUBSET Nat
          BY Zenon
    <2> HIDE DEF T
    <2> QED BY <1>1, <2>1, Induction, Zenon
  <1> QED BY <1>2, Zenon

\* Sequences that start alike are concatenated alike as far as they do.
LEMMA FlattensAgree ==
  ASSUME NEW n \in Nat, NEW q, NEW f, Flattens(q, n, f),
         NEW m \in Nat, NEW r, NEW g, Flattens(r, m, g),
         n <= m, \A i \in 1 .. n : q[i] = r[i]
  PROVE  \A i \in 1 .. n : f[i] = g[i]
  <1> DEFINE T == {k \in Nat : k \in 1 .. n => f[k] = g[k]}
  <1>1. ASSUME NEW k \in Nat, \A j \in 0 .. k - 1 : j \in T
        PROVE  k \in T
    <2> SUFFICES ASSUME k \in 1 .. n PROVE f[k] = g[k]
        BY Zenon
    <2>1. /\ f[k] = IF k = 1 THEN q[k] ELSE f[k-1] \o q[k]
          /\ g[k] = IF k = 1 THEN r[k] ELSE g[k-1] \o r[k]
      <3>1. k \in 1 .. m
            OBVIOUS
      <3>2. f[k] = IF k = 1 THEN q[k] ELSE f[k-1] \o q[k]
            BY FlattensValue
      <3>3. g[k] = IF k = 1 THEN r[k] ELSE g[k-1] \o r[k]
            BY <3>1, FlattensValue
      <3> QED BY <3>2, <3>3, Zenon
    <2>2. q[k] = r[k]
          BY Zenon
    <2>3. k # 1 => f[k-1] = g[k-1]
      <3>1. k # 1 => k - 1 \in 0 .. k - 1 /\ k - 1 \in 1 .. n
            OBVIOUS
      <3> QED BY <3>1, <1>1, Zenon
    <2> QED BY <2>1, <2>2, <2>3, Zenon
  <1>2. T = Nat
    <2>1. T \in SUBSET Nat
          BY Zenon
    <2> HIDE DEF T
    <2> QED BY <1>1, <2>1, Induction, Zenon
  <1>3. \A i \in 1 .. n : i \in Nat
        OBVIOUS
  <1> QED BY <1>2, <1>3, Zenon

-----------------------------------------------------------------------------
(* Messages. *)

\* Messages, units of the log file and entries of the index.
Message == [id : Nat, off : Nat, size : Sizes]
Unit == [msg : Message, part : Nat]
Entry == [off : Nat, pos : Nat, size : Nat]

\* The units that a message takes in the log file.
LEMMA UnitsAre ==
  ASSUME NEW m \in Message
  PROVE  /\ m.size \in Nat \ {0} /\ m.off \in Nat /\ m.id \in Nat
         /\ Units(m) \in Seq(Unit) /\ Len(Units(m)) = 1 + m.size
         /\ \A k \in 1 .. 1 + m.size : Units(m)[k] = [msg |-> m, part |-> k]
  <1>1. m.size \in Nat \ {0} /\ m.off \in Nat /\ m.id \in Nat
        BY SegmentFileAssumption, Zenon DEF Message
  <1>2. \A k \in 1 .. 1 + m.size : [msg |-> m, part |-> k] \in Unit
        BY <1>1 DEF Unit
  <1> QED BY <1>1, <1>2 DEF Units

\* The units of the messages of a batch.
UnitsOf(b) == [i \in DOMAIN b |-> Units(b[i])]

\* The units of a batch are those of its messages, one after the other.
LEMMA MessageSetStep ==
  ASSUME NEW b \in Seq(Message)
  PROVE  /\ MessageSet(SubSeq(b, 1, 0)) = <<>>
         /\ \A i \in 1 .. Len(b) :
               MessageSet(SubSeq(b, 1, i)) = MessageSet(SubSeq(b, 1, i - 1)) \o Units(b[i])
  <1>1. PICK f : Flattens(UnitsOf(b), Len(b), f)
        BY FlattensIf, LenProperties, Zenon
  <1>2. MessageSet(SubSeq(b, 1, 0)) = <<>>
        BY DEF MessageSet, FlattenSeq
  <1>3. ASSUME NEW i \in 1 .. Len(b)
        PROVE  MessageSet(SubSeq(b, 1, i)) = f[i]
    <2> DEFINE c == SubSeq(b, 1, i)
    <2>1. /\ i \in Nat /\ i <= Len(b) /\ i # 0 /\ Len(b) \in Nat /\ i \in 1 .. i
          /\ DOMAIN UnitsOf(c) = 1 .. i /\ UnitsOf(c) \in Seq({Units(b[k]) : k \in 1 .. i})
          /\ \A k \in 1 .. i : UnitsOf(c)[k] = UnitsOf(b)[k]
          BY DEF UnitsOf
    <2>2. Len(UnitsOf(c)) = i
          BY <2>1
    <2>3. MessageSet(c) = (CHOOSE g : Flattens(UnitsOf(c), i, g))[i]
          BY <2>1, <2>2, FlattenDef, Zenon DEF MessageSet, UnitsOf
    <2>4. PICK g : Flattens(UnitsOf(c), i, g) /\ MessageSet(c) = g[i]
          BY <2>1, <2>3, FlattensIf, Zenon
    <2>5. \A k \in 1 .. i : g[k] = f[k]
      <3> HIDE DEF c
      <3> QED BY <1>1, <2>1, <2>4, FlattensAgree
    <2> QED BY <2>1, <2>4, <2>5, Zenon
  <1>4. ASSUME NEW i \in 1 .. Len(b)
        PROVE  MessageSet(SubSeq(b, 1, i)) = MessageSet(SubSeq(b, 1, i - 1)) \o Units(b[i])
    <2>1. f[i] = IF i = 1 THEN UnitsOf(b)[i] ELSE f[i-1] \o UnitsOf(b)[i]
          BY <1>1, FlattensValue
    <2>2. UnitsOf(b)[i] = Units(b[i]) /\ Units(b[i]) \in Seq(Unit)
      <3>1. b[i] \in Message /\ i \in DOMAIN b
            OBVIOUS
      <3> QED BY <3>1, UnitsAre, Zenon DEF UnitsOf
    <2>3. CASE i = 1
      <3>1. MessageSet(SubSeq(b, 1, i - 1)) = <<>>
            BY <2>3, <1>2
      <3>2. <<>> \o Units(b[i]) = Units(b[i])
            BY <2>2
      <3> QED BY <2>1, <2>2, <2>3, <3>1, <3>2, <1>3, Zenon
    <2>4. CASE i # 1
      <3>1. i - 1 \in 1 .. Len(b)
            BY <2>4
      <3> QED BY <2>1, <2>2, <2>4, <3>1, <1>3, Zenon
    <2> QED BY <2>3, <2>4, Zenon
  <1> QED BY <1>2, <1>4, Zenon

\* Message m is in the log from position p on.
Holds(log, p, m) ==
    /\ p + 1 + m.size <= Len(log)
    /\ \A k \in 1 .. 1 + m.size : log[p + k] = [msg |-> m, part |-> k]

\* The log new begins with log.
Extends(log, new) ==
    Len(log) <= Len(new) /\ \A i \in 1 .. Len(log) : new[i] = log[i]

\* A message stays where it is when the log gets longer.
LEMMA HoldsStays ==
  ASSUME NEW log \in Seq(Unit), NEW new \in Seq(Unit), Extends(log, new),
         NEW p \in Nat, NEW m \in Message, Holds(log, p, m)
  PROVE  Holds(new, p, m)
  <1>1. m.size \in Nat /\ Len(log) \in Nat /\ Len(new) \in Nat
        BY UnitsAre
  <1>2. p + 1 + m.size <= Len(log) /\ Len(log) <= Len(new)
        BY Zenon DEF Holds, Extends
  <1>3. ASSUME NEW k \in 1 .. 1 + m.size PROVE new[p + k] = [msg |-> m, part |-> k]
    <2>1. p + k \in 1 .. Len(log)
          BY <1>1, <1>2
    <2> QED BY <2>1, Zenon DEF Holds, Extends
  <1>4. p + 1 + m.size <= Len(new)
        BY <1>1, <1>2
  <1> QED BY <1>3, <1>4, Zenon DEF Holds

\* What is appended to a log follows what is there.
LEMMA Concat ==
  ASSUME NEW log \in Seq(Unit), NEW more \in Seq(Unit)
  PROVE  /\ log \o more \in Seq(Unit) /\ Extends(log, log \o more)
         /\ Len(log \o more) = Len(log) + Len(more)
         /\ \A k \in 1 .. Len(more) : (log \o more)[Len(log) + k] = more[k]
  BY DEF Extends

\* A message that is appended is found at the old end of the log.
LEMMA HoldsAfter ==
  ASSUME NEW log \in Seq(Unit), NEW m \in Message
  PROVE  Holds(log \o Units(m), Len(log), m)
  <1>1. /\ m.size \in Nat /\ Units(m) \in Seq(Unit) /\ Len(Units(m)) = 1 + m.size
        /\ \A k \in 1 .. 1 + m.size : Units(m)[k] = [msg |-> m, part |-> k]
        BY UnitsAre
  <1>2. /\ Len(log \o Units(m)) = Len(log) + Len(Units(m)) /\ Len(log) \in Nat
        /\ \A k \in 1 .. Len(Units(m)) : (log \o Units(m))[Len(log) + k] = Units(m)[k]
    <2>1. Units(m) \in Seq(Unit)
          BY <1>1, Zenon
    <2> QED BY <2>1, Concat, LenProperties, Zenon
  <1>3. Len(log) + 1 + m.size <= Len(log \o Units(m))
    <2>1. Len(log \o Units(m)) = Len(log) + (1 + m.size)
          BY <1>1, <1>2, Zenon
    <2>2. Len(log) + 1 + m.size <= Len(log) + (1 + m.size)
          BY <1>1, <1>2
    <2> QED BY <2>1, <2>2, Zenon
  <1>4. \A k \in 1 .. 1 + m.size : (log \o Units(m))[Len(log) + k] = [msg |-> m, part |-> k]
        BY <1>1, <1>2, Zenon
  <1> QED BY <1>3, <1>4, Zenon DEF Holds

\* The units written for a batch hold its messages, each after those before it.
LEMMA MessageSetHolds ==
  ASSUME NEW b \in Seq(Message)
  PROVE  /\ MessageSet(b) \in Seq(Unit)
         /\ \A i \in 1 .. Len(b) :
               /\ Len(MessageSet(SubSeq(b, 1, i - 1))) \in Nat
               /\ Holds(MessageSet(b), Len(MessageSet(SubSeq(b, 1, i - 1))), b[i])
  <1> DEFINE P(i) == MessageSet(SubSeq(b, 1, i))
  <1>1. Len(b) \in Nat /\ \A i \in 1 .. Len(b) : b[i] \in Message
        OBVIOUS
  <1>2. P(0) = <<>> /\ \A i \in 1 .. Len(b) : P(i) = P(i - 1) \o Units(b[i])
        BY MessageSetStep, Zenon
  <1> HIDE DEF P
  <1> DEFINE T == {j \in Nat : j \in 0 .. Len(b) =>
                     /\ P(j) \in Seq(Unit)
                     /\ \A i \in 1 .. j : /\ P(i - 1) \in Seq(Unit)
                                         /\ Holds(P(j), Len(P(i - 1)), b[i])}
  <1>3. ASSUME NEW j \in Nat, \A k \in 0 .. j - 1 : k \in T
        PROVE  j \in T
    <2> SUFFICES ASSUME j \in 0 .. Len(b)
                 PROVE  /\ P(j) \in Seq(Unit)
                        /\ \A i \in 1 .. j : /\ P(i - 1) \in Seq(Unit)
                                            /\ Holds(P(j), Len(P(i - 1)), b[i])
        BY Zenon
    <2>1. CASE j = 0
      <3>1. P(j) = <<>> /\ P(j) \in Seq(Unit)
            BY <1>2, <2>1, EmptySeq, Zenon
      <3>2. \A i : i \notin 1 .. j
            BY <2>1
      <3> QED BY <3>1, <3>2, Zenon
    <2>2. CASE j # 0
      <3>1. j - 1 \in 0 .. j - 1 /\ j - 1 \in 0 .. Len(b) /\ j \in 1 .. Len(b)
            BY <2>2
      <3>2. /\ P(j - 1) \in Seq(Unit)
            /\ \A i \in 1 .. j - 1 : /\ P(i - 1) \in Seq(Unit)
                                    /\ Holds(P(j - 1), Len(P(i - 1)), b[i])
            BY <3>1, <1>3, Zenon
      <3>3. b[j] \in Message /\ Units(b[j]) \in Seq(Unit)
            BY <3>1, <1>1, UnitsAre, Zenon
      <3>4. P(j) = P(j - 1) \o Units(b[j])
            BY <3>1, <1>2, Zenon
      <3>5. P(j) \in Seq(Unit) /\ Extends(P(j - 1), P(j))
            BY <3>2, <3>3, <3>4, Concat, Zenon
      <3>6. Holds(P(j), Len(P(j - 1)), b[j])
        <4>1. Holds(P(j - 1) \o Units(b[j]), Len(P(j - 1)), b[j])
              BY <3>2, <3>3, HoldsAfter, Zenon
        <4> QED BY <3>4, <4>1, Zenon
      <3>7. ASSUME NEW i \in 1 .. j
            PROVE  P(i - 1) \in Seq(Unit) /\ Holds(P(j), Len(P(i - 1)), b[i])
        <4>1. CASE i = j
              BY <4>1, <3>2, <3>6, Zenon
        <4>2. CASE i # j
          <5>1. i \in 1 .. j - 1 /\ i \in 1 .. Len(b)
                BY <4>2
          <5>2. P(i - 1) \in Seq(Unit) /\ Holds(P(j - 1), Len(P(i - 1)), b[i])
                BY <5>1, <3>2, Zenon
          <5>3. Len(P(i - 1)) \in Nat /\ b[i] \in Message
                BY <5>1, <5>2, <1>1, LenProperties, Zenon
          <5> QED BY <5>2, <5>3, <3>2, <3>5, HoldsStays, Zenon
        <4> QED BY <4>1, <4>2, Zenon
      <3> QED BY <3>5, <3>7, Zenon
    <2> QED BY <2>1, <2>2, Zenon
  <1>4. T = Nat
    <2>1. T \in SUBSET Nat
          BY Zenon
    <2> HIDE DEF T
    <2> QED BY <1>3, <2>1, Induction, Zenon
  <1>5. P(Len(b)) = MessageSet(b)
    <2>1. SubSeq(b, 1, Len(b)) = b
          OBVIOUS
    <2> QED BY <2>1, Zenon DEF P
  <1>6. Len(b) \in T /\ Len(b) \in 0 .. Len(b)
        BY <1>4, <1>1
  <1>7. /\ P(Len(b)) \in Seq(Unit)
        /\ \A i \in 1 .. Len(b) : /\ P(i - 1) \in Seq(Unit)
                                 /\ Holds(P(Len(b)), Len(P(i - 1)), b[i])
        BY <1>6, Zenon
  <1>8. \A i \in 1 .. Len(b) : Len(P(i - 1)) \in Nat
        BY <1>7, LenProperties, Zenon
  <1> QED BY <1>5, <1>7, <1>8, Zenon DEF P

-----------------------------------------------------------------------------
(* What readMessage finds. *)

\* MessageAt, for any log.
MessageIn(log, pos) ==
    LET m == IF pos < Len(log) THEN log[pos + 1].msg ELSE Corrupt
    IN IF SubSeq(log, pos + 1, Min({pos + 1 + m.size, Len(log)})) = Units(m)
       THEN m ELSE Corrupt

\* The smaller of two numbers.
LEMMA MinOfTwo ==
  ASSUME NEW x \in Int, NEW y \in Int
  PROVE  Min({x, y}) = IF x <= y THEN x ELSE y
  BY DEF Min

\* Logs with the same units are the same.
LEMMA SameUnits ==
  ASSUME NEW u \in Seq(Unit), NEW v \in Seq(Unit), Len(u) = Len(v),
         \A k \in 1 .. Len(u) : u[k] = v[k]
  PROVE  u = v
  OBVIOUS

\* readMessage finds the message that the log holds at a position.
LEMMA MessageHeld ==
  ASSUME NEW log \in Seq(Unit), NEW p \in Nat, NEW m \in Message, Holds(log, p, m)
  PROVE  MessageIn(log, p) = m
  <1>1. /\ m.size \in Nat /\ Len(log) \in Nat
        /\ Units(m) \in Seq(Unit) /\ Len(Units(m)) = 1 + m.size
        /\ \A k \in 1 .. 1 + m.size : Units(m)[k] = [msg |-> m, part |-> k]
        BY UnitsAre
  <1>2. p + 1 + m.size <= Len(log) /\ p < Len(log)
        BY <1>1 DEF Holds
  <1>3. log[p + 1].msg = m
    <2>1. 1 \in 1 .. 1 + m.size
          BY <1>1
    <2>2. log[p + 1] = [msg |-> m, part |-> 1]
          BY <2>1, Zenon DEF Holds
    <2> QED BY <2>2
  <1>4. Min({p + 1 + m.size, Len(log)}) = p + 1 + m.size
        BY <1>1, <1>2, MinOfTwo
  <1>5. SubSeq(log, p + 1, p + 1 + m.size) = Units(m)
    <2> DEFINE u == SubSeq(log, p + 1, p + 1 + m.size)
    <2>1. /\ u \in Seq(Unit) /\ Len(u) = 1 + m.size
          /\ \A k \in 1 .. 1 + m.size : u[k] = log[p + k]
          BY <1>1, <1>2
    <2>2. \A k \in 1 .. 1 + m.size : u[k] = Units(m)[k]
          BY <2>1, <1>1, Zenon DEF Holds
    <2> HIDE DEF u
    <2>3. Len(u) = Len(Units(m)) /\ \A k \in 1 .. Len(u) : u[k] = Units(m)[k]
          BY <1>1, <2>1, <2>2, Zenon
    <2>4. u \in Seq(Unit) /\ Units(m) \in Seq(Unit)
          BY <1>1, <2>1, Zenon
    <2> QED BY <2>3, <2>4, SameUnits, Zenon DEF u
  <1> QED BY <1>2, <1>3, <1>4, <1>5, Zenon DEF MessageIn

-----------------------------------------------------------------------------
(* The inductive invariant. *)

\* Entry e of the index is the i-th and leads to message m.
EntryFor(log, e, i, m) ==
    /\ m \in Message /\ m.off = BaseOffset + i - 1
    /\ e \in Entry /\ e.off = i - 1 /\ e.size = 1 + m.size
    /\ Holds(log, e.pos, m)

\* The index has n entries, and zeros after them.
FilesOK(log, idx, n) ==
    /\ log \in Seq(Unit) /\ idx \in Seq(Entry) /\ n \in 0 .. Len(idx)
    /\ \A i \in 1 .. n : \E m : EntryFor(log, idx[i], i, m)
    /\ \A i \in n + 1 .. Len(idx) : idx[i] = Zero

\* Each of the messages w has one of the n entries.
WrittenOK(log, idx, n, w, k) ==
    \A m \in w : m.id \in 1 .. k /\ \E i \in 1 .. n : EntryFor(log, idx[i], i, m)

\* The segment object.
Segment == [pc : {"closed", "ready", "index", "failed"}, position : Nat, lastOffset : Int,
            entries : Nat, batch : Seq(Message), toWrite : Seq(Entry)]

\* The entries still to be written follow those in the index.
ToWriteOK(log, n, b, e, k) ==
    /\ Len(b) = Len(e) /\ Len(b) # 0
    /\ \A j \in 1 .. Len(b) : EntryFor(log, e[j], n + j, b[j]) /\ b[j].id \in 1 .. k

\* The segment object knows the entries and the end of the log.
ObjectOK(log, n, st, k) ==
    /\ st \in Segment
    /\ st.position <= Len(log)
    /\ st.entries = IF st.pc = "closed" THEN 0 ELSE n
    /\ st.pc = "ready" => /\ st.position = Len(log)
                          /\ st.lastOffset = IF n = 0 THEN -1 ELSE BaseOffset + n - 1
    /\ st.pc = "index" => /\ st.position = Len(log)
                          /\ st.lastOffset = BaseOffset + n + Len(st.batch) - 1
                          /\ ToWriteOK(log, n, st.batch, st.toWrite, k)

\* The inductive invariant, with the number of entries.
SegmentInv(n) ==
    /\ sent \in Nat
    /\ FilesOK(logFile, indexFile, n)
    /\ WrittenOK(logFile, indexFile, n, written, sent)
    /\ ObjectOK(logFile, n, s, sent)

\* The first n entries are the same.
Same(n, idx, new) == \A i \in 1 .. n : new[i] = idx[i]

\* A step leaves the n entries as they are, and the log before its end.
Grows(n, k) ==
    /\ k >= n
    /\ Extends(logFile, logFile')
    /\ Same(n, indexFile, indexFile')
    /\ SegmentInv(k)'

\* A log extends itself.
LEMMA ExtendsSame ==
  ASSUME NEW log \in Seq(Unit)
  PROVE  Extends(log, log)
  BY DEF Extends

\* An entry leads to its message when the log gets longer, and
LEMMA EntryStays ==
  ASSUME NEW log \in Seq(Unit), NEW new \in Seq(Unit), Extends(log, new),
         NEW e, NEW i, NEW m, EntryFor(log, e, i, m)
  PROVE  EntryFor(new, e, i, m)
  <1>1. e.pos \in Nat /\ m \in Message /\ Holds(log, e.pos, m)
        BY DEF EntryFor, Entry
  <1> QED BY <1>1, HoldsStays, Zenon DEF EntryFor

\* so do all entries of the index.
LEMMA FilesStay ==
  ASSUME NEW log \in Seq(Unit), NEW new \in Seq(Unit), Extends(log, new),
         NEW idx, NEW n, FilesOK(log, idx, n)
  PROVE  FilesOK(new, idx, n)
  BY EntryStays, Zenon DEF FilesOK

\* The messages written keep their entries when the log and the index get longer.
LEMMA WrittenStays ==
  ASSUME NEW log \in Seq(Unit), NEW new \in Seq(Unit), Extends(log, new),
         NEW n \in Nat, NEW k \in Nat, n <= k,
         NEW idx, NEW idx2, Same(n, idx, idx2),
         NEW x \in Nat, NEW y \in Nat, x <= y,
         NEW w, WrittenOK(log, idx, n, w, x)
  PROVE  WrittenOK(new, idx2, k, w, y)
  <1> SUFFICES ASSUME NEW m \in w
               PROVE  m.id \in 1 .. y /\ \E i \in 1 .. k : EntryFor(new, idx2[i], i, m)
      BY Zenon DEF WrittenOK
  <1>1. PICK i \in 1 .. n : m.id \in 1 .. x /\ EntryFor(log, idx[i], i, m)
        BY Zenon DEF WrittenOK
  <1>2. EntryFor(new, idx2[i], i, m)
        BY <1>1, EntryStays, Zenon DEF Same
  <1>3. i \in 1 .. k /\ m.id \in 1 .. y
        BY <1>1
  <1> QED BY <1>2, <1>3, Zenon

\* A segment that is not open is in order, whatever the files hold.
LEMMA ClosedOK ==
  ASSUME NEW log \in Seq(Unit), NEW n, NEW k
  PROVE  ObjectOK(log, n, Closed, k)
  <1>1. Closed \in Segment
        BY EmptySeq DEF Closed, Segment
  <1> QED BY <1>1 DEF ObjectOK, Closed

\* A new segment has no entries.
LEMMA InitSegment == Init => SegmentInv(0)
  <1> SUFFICES ASSUME Init PROVE SegmentInv(0)
      BY Zenon
  <1>1. logFile = <<>> /\ indexFile = <<>> /\ s = Closed /\ written = {} /\ sent = 0
        BY Zenon DEF Init
  <1>2. FilesOK(<<>>, <<>>, 0)
        BY DEF FilesOK
  <1>3. ObjectOK(<<>>, 0, Closed, 0)
        BY ClosedOK, EmptySeq, Zenon
  <1>4. WrittenOK(<<>>, <<>>, 0, {}, 0)
        BY Zenon DEF WrittenOK
  <1> QED BY <1>1, <1>2, <1>3, <1>4 DEF SegmentInv

\* Types, and that the files extend themselves.
LEMMA SegmentFacts ==
  ASSUME NEW n, SegmentInv(n)
  PROVE  /\ logFile \in Seq(Unit) /\ Len(logFile) \in Nat
         /\ indexFile \in Seq(Entry) /\ Len(indexFile) \in Nat
         /\ n \in Nat /\ n <= Len(indexFile) /\ n \in 0 .. Len(indexFile)
         /\ Extends(logFile, logFile) /\ Same(n, indexFile, indexFile)
         /\ sent \in Nat /\ s \in Segment
  <1>1. logFile \in Seq(Unit) /\ indexFile \in Seq(Entry) /\ n \in 0 .. Len(indexFile)
        BY Zenon DEF SegmentInv, FilesOK
  <1>2. Len(logFile) \in Nat /\ Len(indexFile) \in Nat
        BY <1>1, LenProperties, Zenon
  <1>3. n \in Nat /\ n <= Len(indexFile)
        BY <1>1, <1>2
  <1> QED BY <1>1, <1>2, <1>3, ExtendsSame, Zenon DEF SegmentInv, ObjectOK, Same

-----------------------------------------------------------------------------
(* Opening the segment. *)

\* newIndex allocates zeros, which are no entries.
LEMMA AllocatedOK ==
  ASSUME NEW n, SegmentInv(n)
  PROVE  FilesOK(logFile, Allocated, n) /\ Same(n, indexFile, Allocated)
  <1>1. FilesOK(logFile, indexFile, n)
        BY Zenon DEF SegmentInv
  <1>2. CASE indexFile # <<>>
        BY <1>1, <1>2, SegmentFacts, Zenon DEF Allocated
  <1>3. CASE indexFile = <<>>
    <2>1. n = 0
          BY <1>3, SegmentFacts
    <2> DEFINE a == [i \in 1 .. IndexEntries |-> Zero]
    <2>2. a \in Seq(Entry) /\ Len(a) = IndexEntries /\ \A i \in 1 .. Len(a) : a[i] = Zero
          BY SegmentFileAssumption DEF Zero, Entry
    <2>3. Allocated = a
          BY <1>3, Zenon DEF Allocated
    <2> HIDE DEF a
    <2>4. 0 \in 0 .. Len(a) /\ (\A i : i \notin 1 .. 0) /\ 0 + 1 = 1
          BY <2>2, SegmentFileAssumption
    <2>5. FilesOK(logFile, a, 0) /\ Same(0, indexFile, a)
          BY <2>2, <2>4, SegmentFacts, Zenon DEF FilesOK, Same
    <2> QED BY <2>1, <2>3, <2>5, Zenon
  <1> QED BY <1>2, <1>3, Zenon

\* InitializePosition finds the end of the entries.
LEMMA PositionFound ==
  ASSUME NEW log, NEW idx, NEW n, FilesOK(log, idx, n)
  PROVE  Search(Len(idx), [i \in Nat |-> Empty(idx[i + 1])]) = n
  <1> DEFINE holds == [i \in Nat |-> Empty(idx[i + 1])]
  <1>1. Len(idx) \in Nat /\ n \in 0 .. Len(idx) /\ n \in Nat
        BY DEF FilesOK
  <1>2. ASSUME NEW i \in 0 .. n - 1 PROVE ~ holds[i]
    <2>1. i \in Nat /\ i + 1 \in 1 .. n
          BY <1>1
    <2>2. PICK m : EntryFor(log, idx[i + 1], i + 1, m)
          BY <2>1, Zenon DEF FilesOK
    <2>3. idx[i + 1].size = 1 + m.size /\ m.size \in Nat
          BY <2>2, UnitsAre, Zenon DEF EntryFor
    <2>4. idx[i + 1].size # 0
          BY <2>3
    <2> QED BY <2>1, <2>4, Zenon DEF Empty
  <1>3. ASSUME NEW i \in n .. Len(idx) - 1 PROVE holds[i]
    <2>1. i \in Nat /\ i + 1 \in n + 1 .. Len(idx)
          BY <1>1
    <2>2. idx[i + 1] = Zero
          BY <2>1, Zenon DEF FilesOK
    <2>3. Empty(Zero)
          BY DEF Empty, Zero
    <2> QED BY <2>1, <2>2, <2>3, Zenon
  <1> HIDE DEF holds
  <1>4. Search(Len(idx), holds) = n
        BY <1>1, <1>2, <1>3, SearchFinds
  <1> QED BY <1>4, Zenon DEF holds

\* newSegment and setupIndex: the object has the entries of the index and the end of
\* the log file.
LEMMA OpenGrows ==
  ASSUME NEW n, SegmentInv(n), Open
  PROVE  Grows(n, n)
  <1>1. FilesOK(logFile, Allocated, n) /\ Same(n, indexFile, Allocated)
        BY AllocatedOK, Zenon
  <1>2. Search(Len(Allocated), [i \in Nat |-> Empty(Allocated[i + 1])]) = n
        BY <1>1, PositionFound, Zenon
  <1>3. /\ indexFile' = Allocated /\ logFile' = logFile /\ written' = written /\ sent' = sent
        /\ s' = [Closed EXCEPT !.pc = "ready", !.position = Len(logFile), !.entries = n,
                               !.lastOffset = IF n = 0 THEN -1 ELSE BaseOffset + Allocated[n].off]
        BY <1>2, Zenon DEF Open, EndOfLog
  <1>4. n \in Nat /\ Len(logFile) \in Nat /\ logFile \in Seq(Unit) /\ n >= n /\ sent \in Nat
        BY SegmentFacts
  <1>5. n # 0 => Allocated[n].off = n - 1
    <2>1. n # 0 => n \in 1 .. n
          BY <1>4
    <2> QED BY <1>1, <2>1, Zenon DEF FilesOK, EntryFor
  <1>6. ObjectOK(logFile, n, s', sent)
    <2> DEFINE o == IF n = 0 THEN -1 ELSE BaseOffset + n - 1
    <2>1. (IF n = 0 THEN -1 ELSE BaseOffset + Allocated[n].off) = o /\ o \in Int
          BY <1>4, <1>5, SegmentFileAssumption
    <2>2. s' = [Closed EXCEPT !.pc = "ready", !.position = Len(logFile), !.entries = n,
                               !.lastOffset = o]
          BY <1>3, <2>1, Zenon
    <2> HIDE DEF o
    <2>3. /\ s' \in Segment /\ s'.pc = "ready" /\ s'.position = Len(logFile) /\ s'.entries = n
          /\ s'.lastOffset = o
          BY <2>1, <2>2, <1>4, EmptySeq DEF Closed, Segment
    <2>4. Len(logFile) <= Len(logFile)
          BY <1>4
    <2> QED BY <2>3, <2>4 DEF ObjectOK, o
  <1>7. WrittenOK(logFile, Allocated, n, written, sent)
    <2>1. n <= n /\ sent <= sent
          BY <1>4
    <2> QED BY <1>1, <1>4, <2>1, SegmentFacts, WrittenStays, Zenon DEF SegmentInv
  <1>8. SegmentInv(n)'
        BY <1>1, <1>3, <1>4, <1>6, <1>7, Zenon DEF SegmentInv
  <1> QED BY <1>1, <1>3, <1>4, <1>8, ExtendsSame, Zenon DEF Grows

-----------------------------------------------------------------------------
(* Writing to the log. *)

\* The messages of a batch get the next offsets, and new ids.
LEMMA BatchFacts ==
  ASSUME NEW n, SegmentInv(n), s.pc = "ready", NEW b \in Batches
  PROVE  /\ b \in Seq(Message) /\ Len(b) \in Nat /\ Len(b) # 0
         /\ \A j \in 1 .. Len(b) :
               b[j].off = BaseOffset + n + j - 1 /\ b[j].id \in 1 .. sent + Len(b)
  <1>1. PICK k \in 1 .. Min({MaxBatch, MaxMessages - sent}) : \E z \in [1 .. k -> Sizes] :
          b = [i \in DOMAIN z |-> [id |-> sent + i, off |-> NextOffset + i - 1, size |-> z[i]]]
        BY Zenon DEF Batches
  <1>8. PICK z \in [1 .. k -> Sizes] :
          b = [i \in DOMAIN z |-> [id |-> sent + i, off |-> NextOffset + i - 1, size |-> z[i]]]
        BY <1>1, Zenon
  <1>2. n \in Nat /\ sent \in Nat /\ BaseOffset \in Nat
        BY SegmentFacts, SegmentFileAssumption, Zenon
  <1>3. k \in Nat /\ k # 0
    <2>1. Min({MaxBatch, MaxMessages - sent}) \in Int
          BY <1>2, SegmentFileAssumption, MinOfTwo

    <2> QED BY <1>1, <2>1
  <1>4. NextOffset = BaseOffset + n
    <2>1. s.lastOffset = IF n = 0 THEN -1 ELSE BaseOffset + n - 1
          BY Zenon DEF SegmentInv, ObjectOK
    <2> QED BY <2>1, <1>2 DEF NextOffset
  <1>5. b = [i \in 1 .. k |-> [id |-> sent + i, off |-> BaseOffset + n + i - 1, size |-> z[i]]]
    <2>1. DOMAIN z = 1 .. k
          BY Zenon
    <2> QED BY <1>8, <1>4, <2>1, Zenon
  <1>6. ASSUME NEW i \in 1 .. k
        PROVE  /\ b[i] \in Message /\ b[i].off = BaseOffset + n + i - 1
               /\ b[i].id \in 1 .. sent + k
    <2>1. b[i] = [id |-> sent + i, off |-> BaseOffset + n + i - 1, size |-> z[i]]
          BY <1>5, Zenon
    <2>2. z[i] \in Sizes
          BY Zenon
    <2>3. sent + i \in Nat /\ BaseOffset + n + i - 1 \in Nat /\ sent + i \in 1 .. sent + k
          BY <1>2, <1>3
    <2> QED BY <2>1, <2>2, <2>3 DEF Message
  <1>7. b \in Seq(Message) /\ Len(b) = k
    <2>1. DOMAIN b = 1 .. k /\ b = [i \in 1 .. k |-> b[i]]
          BY <1>5
    <2> QED BY <1>3, <1>6, <2>1
  <1> QED BY <1>3, <1>6, <1>7, Zenon

\* What was appended holds its messages after the old end of the log.
LEMMA HoldsShifted ==
  ASSUME NEW log \in Seq(Unit), NEW more \in Seq(Unit),
         NEW p \in Nat, NEW m \in Message, Holds(more, p, m)
  PROVE  Holds(log \o more, Len(log) + p, m)
  <1>1. m.size \in Nat /\ Len(log) \in Nat /\ Len(more) \in Nat
        BY UnitsAre
  <1>2. /\ Len(log \o more) = Len(log) + Len(more)
        /\ \A k \in 1 .. Len(more) : (log \o more)[Len(log) + k] = more[k]
        BY Concat, Zenon
  <1>3. p + 1 + m.size <= Len(more)
        BY Zenon DEF Holds
  <1>4. (Len(log) + p) + 1 + m.size <= Len(log) + Len(more)
        BY <1>1, <1>3
  <1>5. ASSUME NEW k \in 1 .. 1 + m.size
        PROVE  (log \o more)[(Len(log) + p) + k] = [msg |-> m, part |-> k]
    <2>1. p + k \in 1 .. Len(more) /\ (Len(log) + p) + k = Len(log) + (p + k)
          BY <1>1, <1>3
    <2>2. more[p + k] = [msg |-> m, part |-> k]
          BY Zenon DEF Holds
    <2> QED BY <1>2, <2>1, <2>2, Zenon
  <1> QED BY <1>2, <1>4, <1>5, Zenon DEF Holds

\* The entries of a batch lead to its messages.
LEMMA EntriesOK ==
  ASSUME NEW log \in Seq(Unit), NEW b \in Seq(Message), NEW n \in Nat, NEW k, Len(b) # 0,
         \A j \in 1 .. Len(b) : b[j].off = BaseOffset + n + j - 1 /\ b[j].id \in 1 .. k
  PROVE  /\ Entries(b, Len(log)) \in Seq(Entry)
         /\ ToWriteOK(log \o MessageSet(b), n, b, Entries(b, Len(log)), k)
  <1>1. /\ Len(b) \in Nat /\ DOMAIN b = 1 .. Len(b) /\ Len(log) \in Nat
        /\ \A j \in 1 .. Len(b) : b[j] \in Message
        OBVIOUS
  <1> DEFINE e == Entries(b, Len(log))
             P(j) == Len(MessageSet(SubSeq(b, 1, j - 1)))
  <1>2. ASSUME NEW j \in 1 .. Len(b)
        PROVE  e[j] \in Entry /\ EntryFor(log \o MessageSet(b), e[j], n + j, b[j])
    <2>1. e[j] = [off |-> b[j].off - BaseOffset, pos |-> Len(log) + P(j), size |-> 1 + b[j].size]
          BY <1>1, Zenon DEF Entries
    <2>2. b[j] \in Message /\ b[j].size \in Nat /\ b[j].off = BaseOffset + n + j - 1
          BY <1>1, UnitsAre, Zenon
    <2>3. MessageSet(b) \in Seq(Unit) /\ P(j) \in Nat /\ Holds(MessageSet(b), P(j), b[j])
          BY MessageSetHolds, Zenon
    <2> HIDE DEF P
    <2>4. Holds(log \o MessageSet(b), Len(log) + P(j), b[j])
          BY <2>2, <2>3, HoldsShifted, Zenon
    <2>5. /\ b[j].off - BaseOffset = (n + j) - 1 /\ b[j].off - BaseOffset \in Nat
          /\ b[j].off = BaseOffset + (n + j) - 1
          /\ Len(log) + P(j) \in Nat /\ 1 + b[j].size \in Nat
      <3> DEFINE o == b[j].off
                 z == b[j].size
                 l == Len(log)
                 p == P(j)
      <3>1. /\ o = BaseOffset + n + j - 1 /\ z \in Nat /\ l \in Nat /\ p \in Nat
            /\ BaseOffset \in Nat /\ j \in Nat /\ j >= 1
            BY <1>1, <2>2, <2>3, SegmentFileAssumption
      <3> HIDE DEF o, z, l, p
      <3>2. /\ o - BaseOffset = (n + j) - 1 /\ o - BaseOffset \in Nat
            /\ o = BaseOffset + (n + j) - 1 /\ l + p \in Nat /\ 1 + z \in Nat
            BY <3>1
      <3> QED BY <3>2, Zenon DEF o, z, l, p
    <2>6. /\ e[j] \in Entry /\ e[j].off = (n + j) - 1 /\ e[j].size = 1 + b[j].size
          /\ e[j].pos = Len(log) + P(j)
          BY <2>1, <2>5 DEF Entry
    <2> QED BY <2>2, <2>4, <2>5, <2>6, Zenon DEF EntryFor
  <1>3. e \in Seq(Entry) /\ Len(e) = Len(b)
    <2>1. DOMAIN e = 1 .. Len(b) /\ e = [j \in 1 .. Len(b) |-> e[j]]
          BY <1>1 DEF Entries
    <2> HIDE DEF e
    <2> QED BY <1>1, <1>2, <2>1
  <1> QED BY <1>2, <1>3, Zenon DEF ToWriteOK

\* A step that only appends to the log, and leaves the object in order.
LEMMA LogGrows ==
  ASSUME NEW n, SegmentInv(n), NEW more \in Seq(Unit), NEW k \in Nat,
         logFile' = logFile \o more, indexFile' = indexFile, written' = written,
         sent' = sent + k, ObjectOK(logFile', n, s', sent')
  PROVE  Grows(n, n)
  <1>1. /\ logFile \in Seq(Unit) /\ Same(n, indexFile, indexFile)
        /\ n \in Nat /\ n <= n /\ n >= n /\ sent \in Nat /\ sent' \in Nat /\ sent <= sent'
        BY SegmentFacts
  <1>2. logFile' \in Seq(Unit) /\ Extends(logFile, logFile')
        BY <1>1, Concat, Zenon
  <1>3. FilesOK(logFile', indexFile, n)
        BY <1>1, <1>2, FilesStay, Zenon DEF SegmentInv
  <1>4. WrittenOK(logFile', indexFile, n, written, sent')
        BY <1>1, <1>2, WrittenStays, Zenon DEF SegmentInv
  <1>5. SegmentInv(n)'
        BY <1>1, <1>3, <1>4, Zenon DEF SegmentInv
  <1> QED BY <1>1, <1>2, <1>5, Zenon DEF Grows

\* write appends the messages, and knows the entries they need.
LEMMA WriteGrows ==
  ASSUME NEW n, SegmentInv(n), NEW b \in Batches, Write(b)
  PROVE  Grows(n, n)
  <1>1. /\ s.pc = "ready" /\ logFile' = logFile \o MessageSet(b) /\ sent' = sent + Len(b)
        /\ indexFile' = indexFile /\ written' = written
        /\ s' = [s EXCEPT !.pc = "index",
                          !.position = @ + Len(MessageSet(b)),
                          !.lastOffset = Last(b).off,
                          !.batch = b,
                          !.toWrite = Entries(b, s.position)]
        BY Zenon DEF Write
  <1>2. /\ b \in Seq(Message) /\ Len(b) \in Nat /\ Len(b) # 0
        /\ \A j \in 1 .. Len(b) : b[j].off = BaseOffset + n + j - 1 /\ b[j].id \in 1 .. sent'
        BY <1>1, BatchFacts, Zenon
  <1>3. /\ logFile \in Seq(Unit) /\ Len(logFile) \in Nat /\ n \in Nat /\ s \in Segment
        /\ BaseOffset \in Nat
        BY SegmentFacts, SegmentFileAssumption, Zenon
  <1>4. s.position = Len(logFile) /\ s.entries = n
        BY <1>1 DEF SegmentInv, ObjectOK
  <1>5. MessageSet(b) \in Seq(Unit) /\ Len(MessageSet(b)) \in Nat
        BY <1>2, MessageSetHolds, LenProperties, Zenon
  <1>6. /\ Len(logFile') = Len(logFile) + Len(MessageSet(b)) /\ Len(logFile') \in Nat
        /\ Len(logFile') <= Len(logFile')
    <2>1. Len(logFile') = Len(logFile) + Len(MessageSet(b))
          BY <1>1, <1>3, <1>5, Concat, Zenon
    <2>2. Len(logFile) + Len(MessageSet(b)) \in Nat
          BY <1>3, <1>5
    <2>3. Len(logFile') \in Nat
          BY <2>1, <2>2, Zenon
    <2> QED BY <2>1, <2>3
  <1>7. /\ Entries(b, Len(logFile)) \in Seq(Entry)
        /\ ToWriteOK(logFile', n, b, Entries(b, Len(logFile)), sent')
        BY <1>1, <1>2, <1>3, EntriesOK, Zenon
  <1>8. Last(b).off = BaseOffset + n + Len(b) - 1 /\ BaseOffset + n + Len(b) - 1 \in Int
    <2>1. Len(b) \in 1 .. Len(b)
          BY <1>2
    <2>2. Last(b).off = BaseOffset + n + Len(b) - 1
          BY <1>2, <2>1, Zenon DEF Last
    <2>3. BaseOffset + n + Len(b) - 1 \in Int
          BY <1>2, <1>3
    <2> QED BY <2>2, <2>3, Zenon
  <1>9. s' = [s EXCEPT !.pc = "index", !.position = Len(logFile'),
                       !.lastOffset = BaseOffset + n + Len(b) - 1, !.batch = b,
                       !.toWrite = Entries(b, Len(logFile))]
        BY <1>1, <1>4, <1>6, <1>8
  <1>10. /\ s' \in Segment /\ s'.pc = "index" /\ s'.position = Len(logFile')
         /\ s'.lastOffset = BaseOffset + n + Len(b) - 1 /\ s'.batch = b /\ s'.entries = n
         /\ s'.toWrite = Entries(b, Len(logFile))
    <2> DEFINE o == BaseOffset + n + Len(b) - 1
               e == Entries(b, Len(logFile))
               l == Len(logFile')
    <2>1. s' = [s EXCEPT !.pc = "index", !.position = l, !.lastOffset = o, !.batch = b,
                         !.toWrite = e]
          BY <1>9, Zenon
    <2>2. o \in Int /\ e \in Seq(Entry) /\ l \in Nat
          BY <1>6, <1>7, <1>8, Zenon
    <2> HIDE DEF o, e, l
    <2>3. /\ s' \in Segment /\ s'.pc = "index" /\ s'.position = l /\ s'.lastOffset = o
          /\ s'.batch = b /\ s'.entries = n /\ s'.toWrite = e
          BY <2>1, <2>2, <1>2, <1>3, <1>4, Zenon DEF Segment
    <2> QED BY <2>3, Zenon DEF o, e, l
  <1>11. ObjectOK(logFile', n, s', sent')
         BY <1>6, <1>7, <1>10 DEF ObjectOK
  <1> QED BY <1>1, <1>2, <1>5, <1>11, LogGrows, Zenon

\* A write that fails leaves units behind that no entry leads to.
LEMMA WriteFailsGrows ==
  ASSUME NEW n, SegmentInv(n), NEW b \in Batches,
         NEW u \in 0 .. Len(MessageSet(b)) - 1, WriteFails(b, u)
  PROVE  Grows(n, n)
  <1> DEFINE more == SubSeq(MessageSet(b), 1, u)
  <1>1. /\ s.pc = "ready" /\ logFile' = logFile \o more /\ sent' = sent + Len(b)
        /\ indexFile' = indexFile /\ written' = written
        /\ s' = [s EXCEPT !.pc = "failed"]
        BY Zenon DEF WriteFails
  <1>2. b \in Seq(Message) /\ Len(b) \in Nat
        BY <1>1, BatchFacts, Zenon
  <1>3. logFile \in Seq(Unit) /\ Len(logFile) \in Nat /\ n \in Nat /\ s \in Segment
        BY SegmentFacts, Zenon
  <1>4. s.position = Len(logFile) /\ s.entries = n
        BY <1>1 DEF SegmentInv, ObjectOK
  <1>5. more \in Seq(Unit)
    <2>1. MessageSet(b) \in Seq(Unit) /\ Len(MessageSet(b)) \in Nat
          BY <1>2, MessageSetHolds, LenProperties, Zenon
    <2> QED BY <2>1
  <1> HIDE DEF more
  <1>6. s.position <= Len(logFile')
    <2>1. Len(logFile) <= Len(logFile')
          BY <1>1, <1>3, <1>5, Concat, Zenon DEF Extends
    <2> QED BY <1>4, <2>1, Zenon
  <1>7. /\ s' \in Segment /\ s'.pc = "failed" /\ s'.position = s.position /\ s'.entries = n
        BY <1>1, <1>3, <1>4, Zenon DEF Segment
  <1>8. ObjectOK(logFile', n, s', sent')
        BY <1>6, <1>7 DEF ObjectOK
  <1> QED BY <1>1, <1>2, <1>5, <1>8, LogGrows, Zenon

-----------------------------------------------------------------------------
(* Writing to the index, crashing and closing. *)

\* writeAt makes room for the entries it writes.
LEMMA RoomEnough ==
  ASSUME NEW n, SegmentInv(n), s.pc = "index", NEW w \in Nat
  PROVE  Room(w) \in Nat /\ Room(w) >= n + w /\ Room(w) >= Len(indexFile)
  <1>1. n \in Nat /\ Len(indexFile) \in Nat /\ n <= Len(indexFile)
        BY SegmentFacts, Zenon
  <1>2. s.entries = n
        BY DEF SegmentInv, ObjectOK
  <1> DEFINE l == Len(indexFile)
  <1>3. Room(w) = IF n + w < l THEN l ELSE IF l + IndexEntries < n + w THEN l + w
                  ELSE l + IndexEntries
        BY <1>2, Zenon DEF Room
  <1>4. l \in Nat /\ n <= l /\ IndexEntries \in Nat
        BY <1>1, SegmentFileAssumption, Zenon
  <1> HIDE DEF l
  <1>5. Room(w) \in Nat /\ Room(w) >= n + w /\ Room(w) >= l
        BY <1>1, <1>3, <1>4
  <1> QED BY <1>5, Zenon DEF l

\* The index with the first j entries of the batch.
LEMMA IndexWithOK ==
  ASSUME NEW n, SegmentInv(n), s.pc = "index", NEW j \in 0 .. Len(s.toWrite)
  PROVE  /\ FilesOK(logFile, IndexWith(j), n + j) /\ Same(n, indexFile, IndexWith(j))
         /\ \A i \in 1 .. j : IndexWith(j)[n + i] = s.toWrite[i]
         /\ n + j \in Nat /\ n <= n + j
  <1> DEFINE w == Len(s.toWrite)
             r == Room(w)
             idx == IndexWith(j)
             l == Len(indexFile)
  <1>1. /\ n \in Nat /\ l \in Nat /\ n <= l /\ indexFile \in Seq(Entry) /\ logFile \in Seq(Unit)
        /\ s \in Segment
        BY SegmentFacts, Zenon
  <1>2. /\ s.entries = n /\ ToWriteOK(logFile, n, s.batch, s.toWrite, sent)
        BY DEF SegmentInv, ObjectOK
  <1>3. s.toWrite \in Seq(Entry) /\ w \in Nat
        BY <1>1 DEF Segment
  <1>4. r \in Nat /\ r >= n + w /\ r >= l
        BY <1>3, RoomEnough, Zenon
  <1>5. idx = [i \in 1 .. r |-> IF i - n \in 1 .. j THEN s.toWrite[i - n]
                                ELSE IF i <= l THEN indexFile[i] ELSE Zero]
    <2> DEFINE old == [i \in 1 .. r |-> IF i <= l THEN indexFile[i] ELSE Zero]
    <2>1. idx = [i \in DOMAIN old |-> IF i - n \in 1 .. j THEN s.toWrite[i - n] ELSE old[i]]
          BY <1>2, Zenon DEF IndexWith
    <2>2. DOMAIN old = 1 .. r /\ \A i \in 1 .. r : old[i] = IF i <= l THEN indexFile[i] ELSE Zero
          BY Zenon
    <2> HIDE DEF old, r, l
    <2> QED BY <2>1, <2>2
  <1>6. j \in Nat /\ j <= w
        BY <1>3
  <1>7. ASSUME NEW i \in 1 .. j
        PROVE  /\ idx[n + i] = s.toWrite[i] /\ idx[n + i] \in Entry
               /\ EntryFor(logFile, idx[n + i], n + i, s.batch[i])
    <2> HIDE DEF idx, r, w, l
    <2>1. n + i \in 1 .. r /\ (n + i) - n = i /\ i \in 1 .. w
          BY <1>1, <1>3, <1>4, <1>6
    <2>2. idx[n + i] = s.toWrite[i]
          BY <1>5, <2>1, Zenon
    <2>3. s.toWrite[i] \in Entry
          BY <1>3, <2>1, ElementOfSeq, Zenon DEF w
    <2>4. EntryFor(logFile, s.toWrite[i], n + i, s.batch[i])
          BY <1>2, <2>1, Zenon DEF ToWriteOK, w
    <2> QED BY <2>2, <2>3, <2>4, Zenon
  <1>8. ASSUME NEW i \in 1 .. n PROVE idx[i] = indexFile[i] /\ idx[i] \in Entry
    <2> HIDE DEF idx, r, w
    <2>1. i \in 1 .. r /\ ~ (i - n \in 1 .. j) /\ i <= l /\ i \in 1 .. l
          BY <1>1, <1>3, <1>4, <1>6
    <2>2. idx[i] = indexFile[i]
          BY <1>5, <2>1, Zenon
    <2> QED BY <1>1, <2>1, <2>2, ElementOfSeq, Zenon
  <1>9. ASSUME NEW i \in (n + j) + 1 .. r PROVE idx[i] = Zero
    <2> HIDE DEF idx, r, w
    <2>1. i \in 1 .. r /\ ~ (i - n \in 1 .. j) /\ (i <= l => i \in n + 1 .. l)
          BY <1>1, <1>3, <1>4, <1>6
    <2>2. idx[i] = IF i <= l THEN indexFile[i] ELSE Zero
          BY <1>5, <2>1, Zenon
    <2>3. i <= l => indexFile[i] = Zero
          BY <2>1, Zenon DEF SegmentInv, FilesOK
    <2> QED BY <2>2, <2>3, Zenon
  <1> HIDE DEF idx, r, w, l
  <1>10. /\ n + j \in Nat /\ n <= n + j /\ n + j \in 0 .. r
         /\ \A i \in 1 .. n + j : i \in 1 .. n \/ (i - n \in 1 .. j /\ n + (i - n) = i)
         /\ \A i \in 1 .. r : i \in 1 .. n + j \/ i \in (n + j) + 1 .. r
         BY <1>1, <1>3, <1>4, <1>6
  <1>11. Zero \in Entry
         BY DEF Zero, Entry
  <1>12. ASSUME NEW i \in 1 .. n + j
         PROVE  idx[i] \in Entry /\ \E m : EntryFor(logFile, idx[i], i, m)
    <2>1. CASE i \in 1 .. n
          BY <2>1, <1>8, Zenon DEF SegmentInv, FilesOK
    <2>2. CASE i - n \in 1 .. j /\ n + (i - n) = i
          BY <2>2, <1>7, Zenon
    <2> QED BY <1>10, <2>1, <2>2, Zenon
  <1>13. idx \in Seq(Entry) /\ Len(idx) = r
    <2>1. \A i \in 1 .. r : idx[i] \in Entry
          BY <1>9, <1>10, <1>11, <1>12, Zenon
    <2>2. DOMAIN idx = 1 .. r /\ idx = [i \in 1 .. r |-> idx[i]]
          BY <1>5
    <2> QED BY <1>4, <2>1, <2>2
  <1>14. FilesOK(logFile, idx, n + j)
         BY <1>1, <1>9, <1>10, <1>12, <1>13, Zenon DEF FilesOK
  <1>15. Same(n, indexFile, idx)
         BY <1>8, Zenon DEF Same
  <1> QED BY <1>7, <1>10, <1>14, <1>15, Zenon DEF idx

\* writeEntries: the messages of the batch have their entries.
LEMMA WriteEntriesGrows ==
  ASSUME NEW n, SegmentInv(n), WriteEntries
  PROVE  \E k \in Nat : Grows(n, k)
  <1> DEFINE w == Len(s.toWrite)
  <1>1. /\ s.pc = "index" /\ indexFile' = IndexWith(w) /\ written' = written \cup ToSet(s.batch)
        /\ s' = [s EXCEPT !.pc = "ready", !.entries = @ + w, !.batch = <<>>, !.toWrite = <<>>]
        /\ logFile' = logFile /\ sent' = sent
        BY Zenon DEF WriteEntries
  <1>2. /\ n \in Nat /\ logFile \in Seq(Unit) /\ s \in Segment /\ sent \in Nat
        /\ Extends(logFile, logFile) /\ BaseOffset \in Nat
        BY SegmentFacts, SegmentFileAssumption, Zenon
  <1>3. /\ s.entries = n /\ s.position = Len(logFile) /\ s.position <= Len(logFile)
        /\ s.lastOffset = BaseOffset + n + Len(s.batch) - 1
        /\ ToWriteOK(logFile, n, s.batch, s.toWrite, sent)
        BY <1>1 DEF SegmentInv, ObjectOK
  <1>4. /\ s.batch \in Seq(Message) /\ s.toWrite \in Seq(Entry) /\ w \in Nat
        /\ w \in 0 .. w
        BY <1>2 DEF Segment
  <1>5. Len(s.batch) = w /\ w # 0
        BY <1>3, Zenon DEF ToWriteOK
  <1>6. /\ FilesOK(logFile, IndexWith(w), n + w) /\ Same(n, indexFile, IndexWith(w))
        /\ \A i \in 1 .. w : IndexWith(w)[n + i] = s.toWrite[i]
        /\ n + w \in Nat /\ n <= n + w
        BY <1>1, <1>4, IndexWithOK, Zenon
  <1> HIDE DEF w
  <1>7. ObjectOK(logFile, n + w, s', sent)
    <2>1. /\ s' \in Segment /\ s'.pc = "ready" /\ s'.entries = n + w
          /\ s'.position = s.position /\ s'.lastOffset = s.lastOffset
          BY <1>1, <1>2, <1>3, <1>6, EmptySeq DEF Segment
    <2>2. n + w # 0 /\ BaseOffset + n + w - 1 = BaseOffset + (n + w) - 1
          BY <1>2, <1>4, <1>5
    <2>3. s'.lastOffset = IF n + w = 0 THEN -1 ELSE BaseOffset + (n + w) - 1
          BY <2>1, <2>2, <1>3, <1>5, Zenon
    <2> QED BY <2>1, <2>3, <1>3 DEF ObjectOK
  <1>8. WrittenOK(logFile, IndexWith(w), n + w, written', sent)
    <2>1. WrittenOK(logFile, IndexWith(w), n + w, written, sent)
      <3>1. sent <= sent
            BY <1>2
      <3> QED BY <1>2, <1>6, <3>1, WrittenStays, Zenon DEF SegmentInv
    <2>2. ASSUME NEW m \in ToSet(s.batch)
          PROVE  /\ m.id \in 1 .. sent
                 /\ \E i \in 1 .. n + w : EntryFor(logFile, IndexWith(w)[i], i, m)
      <3>1. DOMAIN s.batch = 1 .. w
            BY <1>4, <1>5, LenProperties, Zenon
      <3>2. PICK i \in 1 .. w : m = s.batch[i]
            BY <3>1, Zenon DEF ToSet
      <3>3. EntryFor(logFile, s.toWrite[i], n + i, m) /\ m.id \in 1 .. sent
            BY <3>2, <1>3, <1>5, Zenon DEF ToWriteOK
      <3>4. n + i \in 1 .. n + w
            BY <1>2, <1>4
      <3> QED BY <3>3, <3>4, <1>6, Zenon
    <2> QED BY <1>1, <2>1, <2>2, Zenon DEF WrittenOK
  <1>9. PICK k \in Nat : k = n + w
        BY <1>6, Zenon
  <1>10. /\ FilesOK(logFile', indexFile', k) /\ WrittenOK(logFile', indexFile', k, written', sent')
         /\ ObjectOK(logFile', k, s', sent') /\ sent' \in Nat
         BY <1>1, <1>2, <1>6, <1>7, <1>8, <1>9, Zenon DEF w
  <1>11. SegmentInv(k)'
         BY <1>10, Zenon DEF SegmentInv
  <1>12. k >= n
         BY <1>2, <1>4, <1>9
  <1>13. Grows(n, k)
         BY <1>1, <1>2, <1>6, <1>11, <1>12, Zenon DEF Grows, w
  <1> QED BY <1>13, Zenon

\* A crash leaves some of the entries of the batch in the index.
LEMMA CrashGrows ==
  ASSUME NEW n, SegmentInv(n), Crash
  PROVE  \E k \in Nat : Grows(n, k)
  <1>1. s' = Closed /\ logFile' = logFile /\ written' = written /\ sent' = sent
        BY Zenon DEF Crash
  <1>2. PICK k \in Nat : /\ n <= k /\ k >= n
                         /\ FilesOK(logFile, indexFile', k) /\ Same(n, indexFile, indexFile')
    <2>1. CASE indexFile' = indexFile
      <3>1. n \in Nat /\ n <= n /\ n >= n
            BY SegmentFacts
      <3> QED BY <2>1, <3>1, SegmentFacts, Zenon DEF SegmentInv
    <2>2. CASE s.pc = "index" /\ \E j \in 0 .. Len(s.toWrite) : indexFile' = IndexWith(j)
      <3>1. PICK j \in 0 .. Len(s.toWrite) : indexFile' = IndexWith(j)
            BY <2>2, Zenon
      <3>2. /\ FilesOK(logFile, IndexWith(j), n + j) /\ Same(n, indexFile, IndexWith(j))
            /\ n + j \in Nat /\ n <= n + j
            BY <2>2, IndexWithOK, Zenon
      <3>3. n + j >= n
            BY <3>2, SegmentFacts
      <3> QED BY <3>1, <3>2, <3>3, Zenon
    <2> QED BY <2>1, <2>2, Zenon DEF Crash
  <1>3. /\ n \in Nat /\ logFile \in Seq(Unit) /\ sent \in Nat /\ sent <= sent
        /\ Extends(logFile, logFile)
        BY SegmentFacts
  <1>4. ObjectOK(logFile, k, Closed, sent)
        BY <1>3, ClosedOK, Zenon
  <1>5. WrittenOK(logFile, indexFile', k, written, sent)
        BY <1>2, <1>3, WrittenStays, Zenon DEF SegmentInv
  <1>6. SegmentInv(k)'
        BY <1>1, <1>2, <1>3, <1>4, <1>5, Zenon DEF SegmentInv
  <1>7. Grows(n, k)
        BY <1>1, <1>2, <1>3, <1>6, Zenon DEF Grows
  <1> QED BY <1>7, Zenon

\* Close cuts off what is after the entries.
LEMMA CloseGrows ==
  ASSUME NEW n, SegmentInv(n), Close
  PROVE  Grows(n, n)
  <1>1. /\ s' = Closed /\ logFile' = logFile /\ written' = written /\ sent' = sent
        /\ s.pc \in {"ready", "failed"} /\ indexFile' = SubSeq(indexFile, 1, s.entries)
        BY Zenon DEF Close
  <1>2. /\ n \in Nat /\ logFile \in Seq(Unit) /\ sent \in Nat /\ sent <= sent
        /\ Extends(logFile, logFile) /\ n <= n /\ n >= n
        /\ indexFile \in Seq(Entry) /\ n <= Len(indexFile) /\ Len(indexFile) \in Nat
        BY SegmentFacts
  <1>3. s.entries = n
        BY <1>1 DEF SegmentInv, ObjectOK
  <1>4. /\ indexFile' \in Seq(Entry) /\ Len(indexFile') = n
        /\ \A i \in 1 .. n : indexFile'[i] = indexFile[i]
    <2> DEFINE new == SubSeq(indexFile, 1, n)
    <2>1. new \in Seq(Entry) /\ Len(new) = n /\ \A i \in 1 .. n : new[i] = indexFile[i]
          BY <1>2
    <2> QED BY <1>1, <1>3, <2>1, Zenon
  <1>5. FilesOK(logFile, indexFile', n)
    <2>1. n \in 0 .. n /\ \A i : i \notin n + 1 .. n
          BY <1>2
    <2> QED BY <1>2, <1>4, <2>1, Zenon DEF SegmentInv, FilesOK
  <1>6. Same(n, indexFile, indexFile')
        BY <1>4, Zenon DEF Same
  <1>7. ObjectOK(logFile, n, Closed, sent)
        BY <1>2, ClosedOK, Zenon
  <1>8. WrittenOK(logFile, indexFile', n, written, sent)
        BY <1>2, <1>6, WrittenStays, Zenon DEF SegmentInv
  <1>9. SegmentInv(n)'
        BY <1>1, <1>2, <1>5, <1>7, <1>8, Zenon DEF SegmentInv
  <1> QED BY <1>1, <1>2, <1>6, <1>9, Zenon DEF Grows

\* Every step keeps the entries that the index has, and may add some.
LEMMA NextGrows ==
  ASSUME NEW n, SegmentInv(n), [Next]_vars
  PROVE  \E k \in Nat : Grows(n, k)
  <1>1. n \in Nat /\ n >= n
        BY SegmentFacts
  <1>2. CASE Open
        BY <1>1, <1>2, OpenGrows, Zenon
  <1>3. CASE WriteEntries
        BY <1>3, WriteEntriesGrows, Zenon
  <1>4. CASE Crash
        BY <1>4, CrashGrows, Zenon
  <1>5. CASE Close
        BY <1>1, <1>5, CloseGrows, Zenon
  <1>6. ASSUME NEW b \in Batches, Write(b) PROVE \E k \in Nat : Grows(n, k)
        BY <1>1, <1>6, WriteGrows, Zenon
  <1>7. ASSUME NEW b \in Batches, NEW u \in 0 .. Len(MessageSet(b)) - 1, WriteFails(b, u)
        PROVE  \E k \in Nat : Grows(n, k)
        BY <1>1, <1>7, WriteFailsGrows, Zenon
  <1>8. CASE UNCHANGED vars
    <2>1. /\ logFile' = logFile /\ indexFile' = indexFile /\ s' = s /\ written' = written
          /\ sent' = sent
          BY <1>8, Zenon DEF vars
    <2>2. SegmentInv(n)'
          BY <2>1, Zenon DEF SegmentInv
    <2> QED BY <1>1, <2>1, <2>2, SegmentFacts, Zenon DEF Grows
  <1> QED BY <1>2, <1>3, <1>4, <1>5, <1>6, <1>7, <1>8, Zenon DEF Next

\* The inductive invariant: the index has some number of entries.
Inv == \E n : SegmentInv(n)

\* The inductive invariant.
LEMMA Invariance == Spec => []Inv
  <1>1. Init => Inv
        BY InitSegment, Zenon DEF Inv
  <1>2. Inv /\ [Next]_vars => Inv'
        BY NextGrows, Zenon DEF Inv, Grows
  <1> QED BY <1>1, <1>2, PTL DEF Spec

-----------------------------------------------------------------------------
(* The properties. *)

\* Filled, for any index.
FilledOf(idx) == {i \in DOMAIN idx : idx[i].size # 0}

\* The places of the index that are filled are the first ones.
LEMMA FilledIs ==
  ASSUME NEW log, NEW idx, NEW n, FilesOK(log, idx, n)
  PROVE  FilledOf(idx) = 1 .. n /\ Cardinality(FilledOf(idx)) = n
  <1>1. /\ Len(idx) \in Nat /\ n \in 0 .. Len(idx) /\ n \in Nat /\ idx \in Seq(Entry)
        /\ DOMAIN idx = 1 .. Len(idx)
        BY DEF FilesOK
  <1>2. ASSUME NEW i \in 1 .. n PROVE i \in DOMAIN idx /\ idx[i].size # 0
    <2>1. PICK m : EntryFor(log, idx[i], i, m)
          BY Zenon DEF FilesOK
    <2>2. idx[i].size = 1 + m.size /\ m.size \in Nat
          BY <2>1, UnitsAre, Zenon DEF EntryFor
    <2>3. idx[i].size # 0
          BY <2>2
    <2>4. i \in 1 .. Len(idx)
          BY <1>1
    <2> QED BY <1>1, <2>3, <2>4, Zenon
  <1>3. ASSUME NEW i \in DOMAIN idx, idx[i].size # 0 PROVE i \in 1 .. n
    <2>1. i \in 1 .. n \/ i \in n + 1 .. Len(idx)
          BY <1>1
    <2>2. i \in n + 1 .. Len(idx) => idx[i] = Zero
          BY Zenon DEF FilesOK
    <2>3. Zero.size = 0
          BY DEF Zero
    <2> QED BY <1>3, <2>1, <2>2, <2>3, Zenon
  <1>4. FilledOf(idx) = 1 .. n
        BY <1>2, <1>3, Zenon DEF FilledOf
  <1>5. Cardinality(1 .. n) = n
        BY <1>1, FS_Interval
  <1> QED BY <1>4, <1>5, Zenon

\* readMessage finds the message of an entry.
LEMMA EntryLeads ==
  ASSUME NEW log \in Seq(Unit), NEW e, NEW i, NEW m, EntryFor(log, e, i, m)
  PROVE  MessageIn(log, e.pos) = m
  <1>1. e.pos \in Nat /\ m \in Message /\ Holds(log, e.pos, m)
        BY DEF EntryFor, Entry
  <1> QED BY <1>1, MessageHeld, Zenon

\* MessageAt reads the log file.
LEMMA MessageAtIs == \A p : MessageAt(p) = MessageIn(logFile, p)
  BY Zenon DEF MessageAt, MessageIn

\* The state keeps its types, and the index has room for the entries the segment
\* object counts (writeAt, InitializePosition).
THEOREM TypeCorrect == Spec => []TypeOK
  <1>1. ASSUME NEW n, SegmentInv(n) PROVE TypeOK
    <2>1. /\ indexFile \in Seq(Entry) /\ Len(indexFile) \in Nat /\ n \in 0 .. Len(indexFile)
          /\ s \in Segment /\ Len(logFile) \in Nat
          BY <1>1, SegmentFacts, Zenon
    <2>2. \A i \in DOMAIN indexFile : indexFile[i] \in [off : Nat, pos : Nat, size : Nat]
      <3>1. DOMAIN indexFile = 1 .. Len(indexFile)
            BY <2>1, LenProperties, Zenon
      <3> QED BY <2>1, <3>1, ElementOfSeq, Zenon DEF Entry
    <2>3. /\ s.pc \in {"closed", "ready", "index", "failed"} /\ s.position \in Nat
          BY <2>1 DEF Segment
    <2>4. s.position <= Len(logFile) /\ s.entries = IF s.pc = "closed" THEN 0 ELSE n
          BY <1>1, Zenon DEF SegmentInv, ObjectOK
    <2>5. s.position \in 0 .. Len(logFile) /\ s.entries \in 0 .. Len(indexFile)
          BY <2>1, <2>3, <2>4
    <2>6. \A m \in written : m.id \in 1 .. sent
          BY <1>1, Zenon DEF SegmentInv, WrittenOK
    <2> QED BY <2>2, <2>3, <2>5, <2>6, Zenon DEF TypeOK
  <1>2. Inv => TypeOK
        BY <1>1, Zenon DEF Inv
  <1> QED BY <1>2, Invariance, PTL

\* However the index was allocated, grown, shrunk or left behind by a crash,
\* InitializePosition finds the end of its entries.
THEOREM IndexIsRecovered == Spec => []IndexRecovered
  <1>1. ASSUME NEW n, SegmentInv(n) PROVE IndexRecovered
    <2>1. Filled = 1 .. n
          BY <1>1, FilledIs, Zenon DEF SegmentInv, Filled, FilledOf
    <2>2. s.pc # "closed" => s.entries = n
          BY <1>1, Zenon DEF SegmentInv, ObjectOK
    <2> QED BY <2>1, <2>2, Zenon DEF IndexRecovered
  <1>2. Inv => IndexRecovered
        BY <1>1, Zenon DEF Inv
  <1> QED BY <1>2, Invariance, PTL

\* A message whose append has succeeded is found through the index (findEntry and
\* readMessage) in every process that has the segment open, whatever failed writes
\* and crashes have left in the log file.
THEOREM WrittenIsDurable == Spec => []Durable
  <1>1. ASSUME NEW n, SegmentInv(n), s.pc \in {"ready", "failed"}, NEW m \in written
        PROVE  /\ FindEntry(m.off) <= s.entries
               /\ MessageAt(indexFile[FindEntry(m.off)].pos) = m
    <2>1. s.entries = n /\ n \in Nat /\ BaseOffset \in Nat /\ logFile \in Seq(Unit)
      <3>1. s.pc # "closed"
            BY <1>1
      <3> QED BY <1>1, <3>1, SegmentFacts, SegmentFileAssumption, Zenon DEF SegmentInv, ObjectOK
    <2>2. PICK j \in 1 .. n : EntryFor(logFile, indexFile[j], j, m)
          BY <1>1, Zenon DEF SegmentInv, WrittenOK
    <2>3. m.off = BaseOffset + j - 1
          BY <2>2, Zenon DEF EntryFor
    <2> DEFINE holds == [i \in Nat |-> BaseOffset + indexFile[i + 1].off >= m.off]
    <2>4. ASSUME NEW i \in 0 .. n - 1 PROVE holds[i] <=> i >= j - 1
      <3>1. i \in Nat /\ i + 1 \in 1 .. n
            BY <2>1
      <3>2. indexFile[i + 1].off = (i + 1) - 1
            BY <1>1, <3>1, Zenon DEF SegmentInv, FilesOK, EntryFor
      <3>3. holds[i] <=> BaseOffset + ((i + 1) - 1) >= BaseOffset + j - 1
            BY <2>3, <3>1, <3>2, Zenon
      <3>4. (BaseOffset + ((i + 1) - 1) >= BaseOffset + j - 1) <=> i >= j - 1
            BY <2>1, <3>1
      <3> QED BY <3>3, <3>4, Zenon
    <2> HIDE DEF holds
    <2>5. Search(n, holds) = j - 1
      <3>1. j - 1 \in 0 .. n
            BY <2>1
      <3>2. ASSUME NEW i \in 0 .. (j - 1) - 1 PROVE ~ holds[i]
        <4>1. i \in 0 .. n - 1 /\ ~ (i >= j - 1)
              BY <2>1
        <4> QED BY <4>1, <2>4, Zenon
      <3>3. ASSUME NEW i \in j - 1 .. n - 1 PROVE holds[i]
        <4>1. i \in 0 .. n - 1 /\ i >= j - 1
              BY <2>1
        <4> QED BY <4>1, <2>4, Zenon
      <3> DEFINE r == j - 1
      <3>4. r \in 0 .. n /\ (\A i \in 0 .. r - 1 : ~ holds[i]) /\ \A i \in r .. n - 1 : holds[i]
            BY <3>1, <3>2, <3>3, Zenon
      <3> HIDE DEF r
      <3>5. Search(n, holds) = r
            BY <2>1, <3>4, SearchFinds
      <3> QED BY <3>5, Zenon DEF r
    <2>6. FindEntry(m.off) = 1 + (j - 1)
          BY <2>1, <2>5, Zenon DEF FindEntry, holds
    <2>7. 1 + (j - 1) = j /\ j <= n
          BY <2>1
    <2>8. MessageIn(logFile, indexFile[j].pos) = m
          BY <2>1, <2>2, EntryLeads, Zenon
    <2> QED BY <2>1, <2>6, <2>7, <2>8, MessageAtIs, Zenon
  <1>2. Inv => Durable
        BY <1>1, Zenon DEF Inv, Durable
  <1> QED BY <1>2, Invariance, PTL

\* Every entry of the index leads to a whole message with the entry's offset and
\* size, and the offsets have no gap and no duplicate (writeEntries,
\* InitializePosition).
THEOREM EntriesAreExact == Spec => []EntriesExact
  <1>1. ASSUME NEW n, SegmentInv(n) PROVE EntriesExact
    <2>1. Cardinality(Filled) = n /\ logFile \in Seq(Unit)
          BY <1>1, FilledIs, SegmentFacts, Zenon DEF SegmentInv, Filled, FilledOf
    <2>2. ASSUME NEW i \in 1 .. n
          PROVE  /\ Indexed[i].off = BaseOffset + i - 1
                 /\ indexFile[i].off = i - 1 /\ indexFile[i].size = 1 + Indexed[i].size
      <3>1. PICK m : EntryFor(logFile, indexFile[i], i, m)
            BY <1>1, Zenon DEF SegmentInv, FilesOK
      <3>2. MessageAt(indexFile[i].pos) = m
            BY <2>1, <3>1, EntryLeads, MessageAtIs, Zenon
      <3>3. Indexed[i] = m
            BY <2>1, <3>2, Zenon DEF Indexed
      <3> QED BY <3>1, <3>3, Zenon DEF EntryFor
    <2> QED BY <2>1, <2>2, Zenon DEF EntriesExact
  <1>2. Inv => EntriesExact
        BY <1>1, Zenon DEF Inv
  <1> QED BY <1>2, Invariance, PTL

\* Indexed, for any files.
IndexedIn(log, idx) == [i \in 1 .. Cardinality(FilledOf(idx)) |-> MessageIn(log, idx[i].pos)]

\* The messages that the entries of an index lead to.
LEMMA IndexedIs ==
  ASSUME NEW log, NEW idx, NEW n, FilesOK(log, idx, n)
  PROVE  /\ IndexedIn(log, idx) \in Seq(Message) /\ Len(IndexedIn(log, idx)) = n
         /\ \A i \in 1 .. n : EntryFor(log, idx[i], i, IndexedIn(log, idx)[i])
  <1>1. n \in Nat /\ log \in Seq(Unit)
        BY DEF FilesOK
  <1> DEFINE x == IndexedIn(log, idx)
  <1>2. x = [i \in 1 .. n |-> MessageIn(log, idx[i].pos)]
        BY FilledIs, Zenon DEF IndexedIn
  <1>3. ASSUME NEW i \in 1 .. n PROVE EntryFor(log, idx[i], i, x[i]) /\ x[i] \in Message
    <2>1. PICK m : EntryFor(log, idx[i], i, m)
          BY Zenon DEF FilesOK
    <2>2. x[i] = m
          BY <1>1, <1>2, <2>1, EntryLeads, Zenon
    <2> QED BY <2>1, <2>2, Zenon DEF EntryFor
  <1> HIDE DEF x
  <1>4. x \in Seq(Message) /\ Len(x) = n
        BY <1>1, <1>2, <1>3
  <1> QED BY <1>3, <1>4, Zenon DEF x

\* A sequence that another one starts with is a prefix of it.
LEMMA PrefixIf ==
  ASSUME NEW x \in Seq(Message), NEW y \in Seq(Message), Len(x) <= Len(y),
         \A i \in 1 .. Len(x) : x[i] = y[i]
  PROVE  IsPrefix(x, y)
  <1>1. SubSeq(x, 1, Len(x)) = SubSeq(y, 1, Len(x))
        OBVIOUS
  <1> QED BY <1>1, Zenon DEF IsPrefix

\* What the index leads to only ever gets longer, through failed writes, crashes and
\* restarts.
THEOREM SegmentIsAppendOnly == Spec => AppendOnly
  <1>1. ASSUME NEW n, SegmentInv(n), [Next]_vars PROVE IsPrefix(Indexed, Indexed')
    <2> DEFINE x == IndexedIn(logFile, indexFile)
               y == IndexedIn(logFile', indexFile')
    <2>1. PICK k \in Nat : Grows(n, k)
          BY <1>1, NextGrows, Zenon
    <2>2. /\ x \in Seq(Message) /\ Len(x) = n
          /\ \A i \in 1 .. n : EntryFor(logFile, indexFile[i], i, x[i])
          BY <1>1, IndexedIs, Zenon DEF SegmentInv
    <2>3. FilesOK(logFile', indexFile', k)
          BY <2>1, Zenon DEF Grows, SegmentInv
    <2>4. /\ y \in Seq(Message) /\ Len(y) = k
          BY <2>3, IndexedIs, Zenon
    <2>5. n \in Nat /\ logFile \in Seq(Unit) /\ logFile' \in Seq(Unit) /\ Extends(logFile, logFile')
          BY <1>1, <2>1, <2>3, SegmentFacts, Zenon DEF FilesOK, Grows
    <2>6. n <= k /\ \A i \in 1 .. n : i \in 1 .. k
          BY <2>1, <2>5 DEF Grows
    <2>7. ASSUME NEW i \in 1 .. n PROVE x[i] = y[i]
      <3>1. EntryFor(logFile', indexFile'[i], i, x[i])
        <4>1. indexFile'[i] = indexFile[i]
              BY <2>1, Zenon DEF Grows, Same
        <4> QED BY <2>2, <2>5, <4>1, EntryStays, Zenon
      <3>2. EntryFor(logFile', indexFile'[i], i, y[i])
            BY <2>3, <2>6, IndexedIs, Zenon
      <3> QED BY <2>5, <3>1, <3>2, EntryLeads, Zenon
    <2>8. Indexed = x
      <3>1. Filled = FilledOf(indexFile)
            BY Zenon DEF Filled, FilledOf
      <3> QED BY <3>1, MessageAtIs, Zenon DEF Indexed, IndexedIn
    <2>9. Indexed' = y
      <3>1. Filled' = FilledOf(indexFile')
            BY Zenon DEF Filled, FilledOf
      <3>2. \A p : MessageAt(p)' = MessageIn(logFile', p)
            BY Zenon DEF MessageAt, MessageIn
      <3>3. Indexed' = [i \in 1 .. Cardinality(Filled') |-> MessageIn(logFile', indexFile'[i].pos)]
            BY Zenon DEF Indexed, MessageAt, MessageIn
      <3> QED BY <3>1, <3>3, Zenon DEF IndexedIn
    <2> HIDE DEF x, y
    <2>10. IsPrefix(x, y)
           BY <2>2, <2>4, <2>6, <2>7, PrefixIf, Zenon
    <2> QED BY <2>8, <2>9, <2>10, Zenon
  <1>2. Inv /\ [Next]_vars => [IsPrefix(Indexed, Indexed')]_vars
        BY <1>1, Zenon DEF Inv
  <1> QED BY <1>2, Invariance, PTL DEF Spec, AppendOnly
=============================================================================
