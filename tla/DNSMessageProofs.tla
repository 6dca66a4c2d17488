--------------------------- MODULE DNSMessageProofs ---------------------------
(***************************************************************************)
(* What the operators of DNSMessage compute, for every buffer: where a     *)
(* name's labels are, what a parsed entry has been checked for, and that   *)
(* the entries of a packet, one behind the other, are found again after    *)
(* one of them has grown and those behind it have been moved.              *)
(* A relation between labels that look alike and are followed by related   *)
(* ones (Mirrored) shows that names in two buffers mean the same.          *)
(*                                                                         *)
(* The operators are recursive functions, so these facts are proved by     *)
(* induction.  The induction theorems of the library have an operator as   *)
(* parameter; SetInduction has a set in its place.                         *)
(***************************************************************************)
EXTENDS DNSMessage, SequenceTheorems, WellFoundedInduction, TLAPS

-------------------------------------------------------------------------------
(* Induction *)

\* A set of numbers with 0 in it, and with the next of each, holds them all.
LEMMA SetInduction ==
  ASSUME NEW S, 0 \in S, \A n \in Nat : n \in S => n + 1 \in S
  PROVE  Nat \subseteq S
<1> DEFINE T == Nat \ S
<1> SUFFICES ASSUME T # {} PROVE FALSE
  OBVIOUS
<1>1. PICK m \in T : \A k \in T : ~ (<<k, m>> \in OpToRel(<, Nat))
  <2>1. T \subseteq Nat
    OBVIOUS
  <2> HIDE DEF T
  <2>2. QED
    BY <2>1, NatLessThanWellFounded, WFMin
<1>2. \A k \in T : ~(k < m)
  BY <1>1 DEF OpToRel
<1>3. m # 0 /\ m - 1 \in Nat
  OBVIOUS
<1>4. m - 1 \notin T
  BY <1>2, <1>3
<1>5. QED
  BY <1>3, <1>4
-------------------------------------------------------------------------------
(* Bytes and numbers *)

\* A buffer of n bytes.
Buffer(n) == [0 .. n - 1 -> Bytes]

\* A byte of a buffer is one.
LEMMA ByteAt ==
  ASSUME NEW n \in Nat, NEW b \in Buffer(n), NEW l \in Nat, l < n
  PROVE  b[l] \in Nat /\ b[l] <= 255 /\ b[l] \in Bytes
<1>1. b[l] \in Bytes
  BY DEF Buffer
<1>2. \A x \in Bytes : x \in Nat /\ x <= 255
  BY DEF Bytes
<1>3. QED
  BY <1>1, <1>2

\* What a byte is, for steps that must not look at all 256 of them.
LEMMA ByteRange ==
  /\ \A x \in Nat : x <= 255 => x \in Bytes
  /\ \A x \in Bytes : x \in Nat /\ x <= 255
BY DEF Bytes

\* v fits 16 bits.
Word(v) == v \in Nat /\ v \div 256 \in Bytes

\* The two bytes of a number make it up.
LEMMA Halves ==
  ASSUME NEW v \in Nat
  PROVE  /\ v \div 256 \in Nat /\ v % 256 \in Nat /\ v % 256 <= 255
         /\ v % 256 \in Bytes
         /\ v = 256 * (v \div 256) + (v % 256)
<1>1. v \div 256 \in Nat /\ v % 256 \in Nat /\ v % 256 <= 255 /\ v = 256 * (v \div 256) + (v % 256)
  OBVIOUS
<1>2. QED
  BY <1>1, ByteRange

\* What is read from two bytes fits two bytes.
LEMMA U16Word ==
  ASSUME NEW n \in Nat, NEW b \in Buffer(n), NEW o \in Nat, o + 1 < n
  PROVE  Word(U16(b, o))
<1>1. b[o] \in Nat /\ b[o] \in Bytes /\ b[o + 1] \in Nat /\ b[o + 1] <= 255
  BY ByteAt
<1> DEFINE hi == b[o]  lo == b[o + 1]
<1> HIDE DEF hi, lo
<1>2. hi \in Nat /\ hi \in Bytes /\ lo \in Nat /\ lo <= 255
  BY <1>1 DEF hi, lo
<1>3. 256 * hi + lo \in Nat /\ (256 * hi + lo) \div 256 = hi
  BY <1>2
<1>4. U16(b, o) = 256 * hi + lo
  BY DEF U16, hi, lo
<1>5. QED
  BY <1>2, <1>3, <1>4 DEF Word

\* A byte fits two.
LEMMA SmallWord ==
  ASSUME NEW v \in Nat, v <= 255
  PROVE  Word(v)
<1>1. v \div 256 = 0
  OBVIOUS
<1>2. QED
  BY <1>1, ByteRange DEF Word

\* Write16 leaves a buffer a buffer.
LEMMA Write16Typed ==
  ASSUME NEW n \in Nat, NEW b \in Buffer(n), NEW o, NEW v, Word(v)
  PROVE  Write16(b, o, v) \in Buffer(n)
<1> DEFINE hi == v \div 256
           lo == v % 256
           p == o + 1
           D == 0 .. n - 1
<1>1. Write16(b, o, v) = [b EXCEPT ![o] = hi, ![p] = lo]
  BY DEF Write16
<1>2. hi \in Bytes /\ lo \in Bytes
  BY Halves DEF Word
<1>3. b \in [D -> Bytes]
  BY DEF Buffer
<1> HIDE DEF hi, lo, p, D
<1>4. [b EXCEPT ![o] = hi, ![p] = lo] \in [D -> Bytes]
  BY <1>2, <1>3
<1>5. QED
  BY <1>1, <1>4 DEF Buffer, D

\* Write16 changes two bytes, and they are read again as what was written.
LEMMA Write16At ==
  ASSUME NEW n \in Nat, NEW b \in Buffer(n), NEW o \in Nat, o + 1 < n, NEW v, Word(v)
  PROVE  /\ Write16(b, o, v)[o] = v \div 256
         /\ \A p \in Nat : p < n /\ p # o /\ p # o + 1 => Write16(b, o, v)[p] = b[p]
         /\ U16(Write16(b, o, v), o) = v
<1> DEFINE w == Write16(b, o, v)
           hi == v \div 256
           lo == v % 256
<1>1. v = 256 * hi + lo
  BY Halves DEF Word
<1> HIDE DEF hi, lo
<1>2. w = [b EXCEPT ![o] = hi, ![o + 1] = lo]
  BY DEF Write16, hi, lo
<1>3. DOMAIN b = 0 .. n - 1
  BY DEF Buffer
<1> HIDE DEF w
<1>4. w[o] = hi /\ w[o + 1] = lo
  BY <1>2, <1>3
<1>5. \A p \in Nat : p < n /\ p # o /\ p # o + 1 => w[p] = b[p]
  BY <1>2, <1>3
<1>6. U16(w, o) = v
  BY <1>1, <1>4 DEF U16
<1>7. QED
  BY <1>4, <1>5, <1>6 DEF w, hi

\* A pointer stays one when it is given another offset.
LEMMA PointerWord ==
  ASSUME NEW offset \in Int
  PROVE  LET v == 3 * 2^14 + (offset % 2^14)
         IN Word(v) /\ v \div 256 >= 192 /\ v % 2^14 = offset % 2^14
<1> DEFINE v == 3 * 2^14 + (offset % 2^14)
<1>1. 2^14 = 16384
  BY SMT
<1>2. v \in Nat /\ v >= 49152 /\ v < 65536
  BY <1>1, SMT
<1>7. v % 2^14 = offset % 2^14
  BY <1>1, SMT
<1> HIDE DEF v
<1>3. v \div 256 >= 192 /\ v \div 256 <= 255 /\ v \div 256 \in Nat
  BY <1>2, SMT
<1>4. v \div 256 \in Bytes
  BY <1>3, ByteRange
<1>5. v \in Nat
  BY <1>2, SMT
<1>6. QED
  BY <1>3, <1>4, <1>5, <1>7, Zenon DEF Word, v

\* WithOffset changes the two bytes of a pointer, which is one still.
LEMMA WithOffsetAt ==
  ASSUME NEW n \in Nat, NEW b \in Buffer(n), NEW l \in Nat, l + 1 < n, NEW offset \in Int
  PROVE  /\ WithOffset(b, l, offset) \in Buffer(n)
         /\ WithOffset(b, l, offset)[l] >= 192
         /\ Offset(WithOffset(b, l, offset), l) = offset % 2^14
         /\ \A p \in Nat : p < n /\ p # l /\ p # l + 1 => WithOffset(b, l, offset)[p] = b[p]
<1> DEFINE v == 3 * 2^14 + (offset % 2^14)
<1>1. Word(v) /\ v \div 256 >= 192 /\ v % 2^14 = offset % 2^14
  BY PointerWord
<1>2. WithOffset(b, l, offset) = Write16(b, l, v)
  BY DEF WithOffset
<1> HIDE DEF v
<1>3. U16(Write16(b, l, v), l) = v
  BY <1>1, Write16At
<1>4. Offset(WithOffset(b, l, offset), l) = offset % 2^14
  BY <1>1, <1>2, <1>3, Zenon DEF Offset
<1>5. QED
  BY <1>1, <1>2, <1>4, Write16Typed, Write16At

\* What memmove leaves in the buffer, byte by byte.
LEMMA MoveAt ==
  ASSUME NEW n \in Nat, NEW b \in Buffer(n), NEW to \in Nat, NEW from \in Nat, NEW count \in Int,
         from + count <= n
  PROVE  /\ Move(b, to, from, count) \in Buffer(n)
         /\ \A p \in 0 .. n - 1 :
              Move(b, to, from, count)[p] =
                IF to <= p /\ p < to + count THEN b[p - to + from] ELSE b[p]
<1> DEFINE w == Move(b, to, from, count)
<1>1. w = [p \in 0 .. n - 1 |-> IF p - to \in 0 .. count - 1 THEN b[p - to + from] ELSE b[p]]
  BY DEF Move, Buffer
<1> HIDE DEF w
<1>2. ASSUME NEW p \in 0 .. n - 1
      PROVE  /\ w[p] = IF to <= p /\ p < to + count THEN b[p - to + from] ELSE b[p]
             /\ w[p] \in Bytes
  <2>1. w[p] = IF to <= p /\ p < to + count THEN b[p - to + from] ELSE b[p]
    BY <1>1
  <2>2. b[p] \in Bytes
    BY ByteAt
  <2>3. to <= p /\ p < to + count => b[p - to + from] \in Bytes
    BY ByteAt
  <2>4. QED
    BY <2>1, <2>2, <2>3
<1>3. w \in Buffer(n)
  BY <1>1, <1>2 DEF Buffer
<1>4. QED
  BY <1>2, <1>3 DEF w

\* memcpy changes no byte outside its range.
LEMMA WriteAt ==
  ASSUME NEW n \in Nat, NEW b \in Buffer(n), NEW o \in Nat, NEW data \in Seq(Bytes)
  PROVE  /\ Write(b, o, data) \in Buffer(n)
         /\ \A p \in 0 .. n - 1 :
              p < o \/ p >= o + Len(data) => Write(b, o, data)[p] = b[p]
<1> DEFINE w == Write(b, o, data)
<1>1. w = [p \in 0 .. n - 1 |-> IF p - o \in 0 .. Len(data) - 1 THEN data[p - o + 1] ELSE b[p]]
  BY DEF Write, Buffer
<1>2. Len(data) \in Nat
  OBVIOUS
<1> HIDE DEF w
<1>3. ASSUME NEW p \in 0 .. n - 1
      PROVE  /\ w[p] \in Bytes
             /\ p < o \/ p >= o + Len(data) => w[p] = b[p]
  <2>1. CASE p - o \in 0 .. Len(data) - 1
    <3>1. w[p] = data[p - o + 1]
      BY <1>1, <2>1
    <3>2. p - o + 1 \in 1 .. Len(data)
      BY <1>2, <2>1
    <3>3. data[p - o + 1] \in Bytes
      BY <3>2, ElementOfSeq
    <3>4. QED
      BY <1>2, <2>1, <3>1, <3>3
  <2>2. CASE p - o \notin 0 .. Len(data) - 1
    <3>1. w[p] = b[p]
      BY <1>1, <2>2
    <3>2. QED
      BY <3>1, ByteAt
  <2>3. QED
    BY <2>1, <2>2
<1>4. w \in Buffer(n)
  BY <1>1, <1>3 DEF Buffer
<1>5. QED
  BY <1>3, <1>4 DEF w

\* The counts of the header are numbers.
LEMMA CountTyped ==
  ASSUME NEW m \in Nat, NEW b \in Buffer(m), HeaderSize <= m, NEW s \in 1 .. 4
  PROVE  Count(b, s) \in Nat
<1> DEFINE p == 2 * s + 2
<1>1. p \in Nat /\ p + 1 < m
  BY DEF HeaderSize
<1> HIDE DEF p
<1>2. U16(b, p) \in Nat
  BY <1>1, U16Word DEF Word
<1>3. QED
  BY <1>2 DEF Count, p

\* The counts are in the header.
LEMMA CountKept ==
  ASSUME NEW b, NEW c, \A p \in Nat : p < 12 => c[p] = b[p], NEW s \in 1 .. 4
  PROVE  Count(c, s) = Count(b, s)
<1> DEFINE p == 2 * s + 2
<1>1. p \in Nat /\ p < 12 /\ p + 1 \in Nat /\ p + 1 < 12
  OBVIOUS
<1> HIDE DEF p
<1>2. c[p] = b[p] /\ c[p + 1] = b[p + 1]
  BY <1>1
<1>3. U16(c, p) = U16(b, p)
  BY <1>2 DEF U16
<1>4. QED
  BY <1>3 DEF Count, p
-------------------------------------------------------------------------------
(* The labels of a name *)

\* The label at l has a size and no pointer.
Plain(b, l) == 1 <= b[l] /\ b[l] <= 63

\* What NameLabels says of the label at l, if it says f of those behind.
Rest(b, end, f, l) ==
  IF l >= end THEN <<>>
  ELSE IF b[l] = 0 \/ b[l] >= 64 THEN <<l>>
  ELSE <<l>> \o f[l + LabelSize(b, l)]

\* The recursion of NameLabels is well defined: it goes on behind the label.
LEMMA NameLabelsExist ==
  ASSUME NEW n \in Nat, NEW b \in Buffer(n), NEW end \in 0 .. n
  PROVE  \E f : f = [l \in Nat |-> Rest(b, end, f, l)]
<1> DEFINE D(k) == {l \in Nat : l >= end - k}
           S == {k \in Nat : \E f : f = [l \in D(k) |-> Rest(b, end, f, l)]}
<1>1. 0 \in S
  <2> DEFINE f == [l \in D(0) |-> <<>>]
  <2>1. f = [l \in D(0) |-> Rest(b, end, f, l)]
    BY DEF Rest
  <2>2. QED
    BY <2>1
<1>2. ASSUME NEW k \in Nat, k \in S PROVE k + 1 \in S
  <2>1. PICK f : f = [l \in D(k) |-> Rest(b, end, f, l)]
    BY <1>2
  <2> DEFINE g == [l \in D(k + 1) |-> Rest(b, end, f, l)]
  <2>2. ASSUME NEW l \in D(k) PROVE g[l] = f[l]
    BY <2>1
  <2>3. ASSUME NEW l \in D(k + 1) PROVE Rest(b, end, f, l) = Rest(b, end, g, l)
    <3>1. CASE l >= end
      BY <3>1 DEF Rest
    <3>2. CASE l < end /\ Plain(b, l)
      <4>1. b[l] \in Nat /\ LabelSize(b, l) = b[l] + 1
        BY <3>2, ByteAt DEF Plain, LabelSize, IsPointer
      <4>2. l + LabelSize(b, l) \in D(k)
        BY <4>1
      <4>3. QED
        BY <2>2, <4>2 DEF Rest
    <3>3. CASE l < end /\ ~Plain(b, l)
      <4>1. b[l] \in Nat
        BY <3>3, ByteAt
      <4>2. QED
        BY <3>3, <4>1 DEF Rest, Plain
    <3>4. QED
      BY <3>1, <3>2, <3>3
  <2> HIDE DEF g
  <2>4. g = [l \in D(k + 1) |-> Rest(b, end, g, l)]
    BY <2>3 DEF g
  <2>5. QED
    BY <2>4
<1>3. end \in S
  <2> HIDE DEF S
  <2>1. Nat \subseteq S
    BY <1>1, <1>2, SetInduction
  <2>2. QED
    BY <2>1
<1>4. D(end) = Nat
  OBVIOUS
<1>5. QED
  BY <1>3, <1>4

\* NameLabels, one label at a time.
LEMMA NameLabelsDef ==
  ASSUME NEW n \in Nat, NEW b \in Buffer(n), NEW end \in 0 .. n, NEW o \in Nat
  PROVE  NameLabels(b, o, end) =
           IF o >= end THEN <<>>
           ELSE IF ~Plain(b, o) THEN <<o>>
           ELSE <<o>> \o NameLabels(b, o + b[o] + 1, end)
<1> DEFINE f == CHOOSE f : f = [l \in Nat |-> Rest(b, end, f, l)]
<1>1. f = [l \in Nat |-> Rest(b, end, f, l)]
  BY NameLabelsExist
<1>2. \A l \in Nat : NameLabels(b, l, end) = f[l]
  BY DEF NameLabels, Rest
<1> HIDE DEF f
<1>3. NameLabels(b, o, end) = Rest(b, end, f, o)
  BY <1>1, <1>2
<1>4. CASE o >= end
  BY <1>3, <1>4 DEF Rest
<1>5. CASE o < end
  <2>1. b[o] \in Nat
    BY <1>5, ByteAt
  <2>2. CASE Plain(b, o)
    <3>1. LabelSize(b, o) = b[o] + 1 /\ o + LabelSize(b, o) \in Nat
      BY <2>1, <2>2 DEF Plain, LabelSize, IsPointer
    <3>2. NameLabels(b, o, end) = <<o>> \o f[o + LabelSize(b, o)]
      <4>1. ~(b[o] = 0 \/ b[o] >= 64)
        BY <2>1, <2>2 DEF Plain
      <4>2. QED
        BY <1>3, <1>5, <4>1 DEF Rest
    <3>3. f[o + LabelSize(b, o)] = NameLabels(b, o + b[o] + 1, end)
      <4>1. o + LabelSize(b, o) = o + b[o] + 1
        BY <2>1, <3>1
      <4>2. QED
        BY <1>2, <3>1, <4>1
    <3>4. QED
      BY <1>5, <2>2, <3>2, <3>3
  <2>3. CASE ~Plain(b, o)
    <3>1. b[o] = 0 \/ b[o] >= 64
      BY <2>1, <2>3 DEF Plain
    <3>2. QED
      BY <1>3, <1>5, <2>3, <3>1 DEF Rest
  <2>4. QED
    BY <2>2, <2>3
<1>6. QED
  BY <1>4, <1>5

\* ls are the labels of a name at o, found one behind the other, up to one that
\* nothing follows.
Chained(b, o, end, ls) ==
  /\ ls \in Seq(Nat)
  /\ Len(ls) >= 1
  /\ ls[1] = o
  /\ \A i \in 1 .. Len(ls) : ls[i] < end
  /\ \A i \in 1 .. Len(ls) - 1 : Plain(b, ls[i]) /\ ls[i + 1] = ls[i] + b[ls[i]] + 1
  /\ Plain(b, ls[Len(ls)]) => ls[Len(ls)] + b[ls[Len(ls)]] + 1 >= end

\* In front of the labels of a name there can be another one.
LEMMA ChainedCons ==
  ASSUME NEW n \in Nat, NEW b \in Buffer(n), NEW end \in 0 .. n, NEW o \in Nat, o < end,
         Plain(b, o), NEW ls, Chained(b, o + b[o] + 1, end, ls)
  PROVE  Chained(b, o, end, <<o>> \o ls)
<1> DEFINE more == <<o>> \o ls
<1>1. ls \in Seq(Nat) /\ Len(ls) >= 1
  BY DEF Chained
<1>2. more \in Seq(Nat) /\ Len(more) = Len(ls) + 1 /\ more[1] = o
  BY <1>1
<1>3. \A i \in 1 .. Len(ls) : more[i + 1] = ls[i]
  BY <1>1
<1> HIDE DEF more
<1>4. \A i \in 2 .. Len(more) : i - 1 \in 1 .. Len(ls) /\ more[i] = ls[i - 1]
  BY <1>1, <1>2, <1>3
<1>5. ASSUME NEW i \in 1 .. Len(more) PROVE more[i] < end
  <2>1. \A j \in 1 .. Len(ls) : ls[j] < end
    BY DEF Chained
  <2>2. CASE i = 1
    BY <1>2, <2>2
  <2>3. CASE i # 1
    <3>1. i \in 2 .. Len(more)
      BY <1>1, <1>2, <2>3
    <3>2. QED
      BY <1>4, <2>1, <3>1
  <2>4. QED
    BY <2>2, <2>3
<1>6. ASSUME NEW i \in 1 .. Len(more) - 1
      PROVE  Plain(b, more[i]) /\ more[i + 1] = more[i] + b[more[i]] + 1
  <2>1. CASE i = 1
    <3>1. ls[1] = o + b[o] + 1
      BY DEF Chained
    <3>2. more[1 + 1] = ls[1]
      BY <1>1, <1>3
    <3>3. QED
      BY <1>2, <2>1, <3>1, <3>2
  <2>2. CASE i # 1
    <3>1. i - 1 \in 1 .. Len(ls) - 1 /\ i \in 2 .. Len(more) /\ i + 1 \in 2 .. Len(more)
      BY <1>1, <1>2, <2>2
    <3>2. more[i] = ls[i - 1] /\ more[i + 1] = ls[i]
      BY <1>4, <3>1
    <3>3. Plain(b, ls[i - 1]) /\ ls[(i - 1) + 1] = ls[i - 1] + b[ls[i - 1]] + 1
      BY <3>1 DEF Chained
    <3>4. (i - 1) + 1 = i
      OBVIOUS
    <3>5. QED
      BY <3>2, <3>3, <3>4
  <2>3. QED
    BY <2>1, <2>2
<1>7. more[Len(more)] = ls[Len(ls)]
  BY <1>1, <1>2, <1>3, SMTT(20)
<1>8. Chained(b, o, end, more)
  BY <1>1, <1>2, <1>5, <1>6, <1>7 DEF Chained
<1>9. QED
  BY <1>8 DEF more

\* NameLabels finds such labels, if it finds one.
LEMMA NameLabelsChained ==
  ASSUME NEW n \in Nat, NEW b \in Buffer(n), NEW end \in 0 .. n
  PROVE  \A o \in Nat : o < end => Chained(b, o, end, NameLabels(b, o, end))
<1> DEFINE Good(k) == \A o \in Nat : o < end /\ end - o <= k => Chained(b, o, end, NameLabels(b, o, end))
           S == {k \in Nat : Good(k)}
<1>1. 0 \in S
  OBVIOUS
<1>2. ASSUME NEW k \in Nat, k \in S PROVE k + 1 \in S
  <2>1. ASSUME NEW o \in Nat, o < end, end - o <= k + 1
        PROVE  Chained(b, o, end, NameLabels(b, o, end))
    <3>1. b[o] \in Nat
      BY <2>1, ByteAt
    <3>2. CASE Plain(b, o) /\ o + b[o] + 1 < end
      <4>1. o + b[o] + 1 \in Nat /\ end - (o + b[o] + 1) <= k
        BY <2>1, <3>1
      <4>2. Chained(b, o + b[o] + 1, end, NameLabels(b, o + b[o] + 1, end))
        BY <1>2, <3>2, <4>1
      <4>3. NameLabels(b, o, end) = <<o>> \o NameLabels(b, o + b[o] + 1, end)
        BY <2>1, <3>2, NameLabelsDef
      <4>4. QED
        BY <2>1, <3>2, <4>2, <4>3, ChainedCons
    <3>3. CASE ~(Plain(b, o) /\ o + b[o] + 1 < end)
      <4>1. NameLabels(b, o, end) = <<o>>
        <5>1. CASE Plain(b, o)
          <6>1. o + b[o] + 1 \in Nat /\ o + b[o] + 1 >= end
            BY <3>1, <3>3, <5>1
          <6>2. NameLabels(b, o + b[o] + 1, end) = <<>>
            BY <6>1, NameLabelsDef
          <6>3. <<o>> \o <<>> = <<o>>
            BY ConcatEmptySeq
          <6>4. NameLabels(b, o, end) = <<o>> \o NameLabels(b, o + b[o] + 1, end)
            BY <2>1, <5>1, NameLabelsDef
          <6>5. QED
            BY <6>2, <6>3, <6>4
        <5>2. CASE ~Plain(b, o)
          <6>1. ~(o >= end)
            BY <2>1
          <6>2. QED
            BY <5>2, <6>1, NameLabelsDef, Zenon
        <5>3. QED
          BY <5>1, <5>2
      <4>2. Chained(b, o, end, <<o>>)
        <5> DEFINE one == <<o>>
        <5>1. one \in Seq(Nat) /\ Len(one) = 1 /\ one[1] = o
          OBVIOUS
        <5>2. Plain(b, o) => o + b[o] + 1 >= end
          BY <3>1, <3>3
        <5> HIDE DEF one
        <5>3. Chained(b, o, end, one)
          BY <2>1, <5>1, <5>2 DEF Chained
        <5>4. QED
          BY <5>3 DEF one
      <4>3. QED
        BY <4>1, <4>2
    <3>4. QED
      BY <3>2, <3>3
  <2>2. QED
    BY <2>1
<1>3. ASSUME NEW o \in Nat, o < end PROVE Chained(b, o, end, NameLabels(b, o, end))
  <2>1. end \in S
    <3> HIDE DEF S
    <3>1. Nat \subseteq S
      BY <1>1, <1>2, SetInduction
    <3>2. QED
      BY <3>1
  <2>2. QED
    BY <1>3, <2>1
<1>4. QED
  BY <1>3

\* They are in order, and there is room for a size and a character in between.
LEMMA ChainedApart ==
  ASSUME NEW n \in Nat, NEW b \in Buffer(n), NEW end \in 0 .. n, NEW o, NEW ls,
         Chained(b, o, end, ls)
  PROVE  \A i, j \in 1 .. Len(ls) : i < j => ls[i] + 2 <= ls[j]
<1> DEFINE S == {k \in Nat : \A i \in 1 .. Len(ls) : i + k + 1 <= Len(ls) => ls[i] + 2 <= ls[i + k + 1]}
<1>1. ls \in Seq(Nat)
  BY DEF Chained
<1>2. \A i \in 1 .. Len(ls) - 1 : Plain(b, ls[i]) /\ ls[i + 1] = ls[i] + b[ls[i]] + 1
  BY DEF Chained
<1>3. ASSUME NEW i \in 1 .. Len(ls) - 1 PROVE ls[i] + 2 <= ls[i + 1]
  <2>1. ls[i] \in Nat /\ ls[i + 1] \in Nat
    BY <1>1
  <2>2. ls[i + 1] = ls[i] + b[ls[i]] + 1 /\ 1 <= b[ls[i]]
    BY <1>2 DEF Plain
  <2>3. b[ls[i]] \in Nat
    <3>1. i \in 1 .. Len(ls)
      BY <1>1
    <3>2. ls[i] < end
      BY <3>1 DEF Chained
    <3>3. QED
      BY <2>1, <3>2, ByteAt
  <2>4. QED
    BY <2>1, <2>2, <2>3
<1>4. 0 \in S
  BY <1>1, <1>3
<1>5. ASSUME NEW k \in Nat, k \in S PROVE k + 1 \in S
  <2>1. ASSUME NEW i \in 1 .. Len(ls), i + (k + 1) + 1 <= Len(ls) PROVE ls[i] + 2 <= ls[i + (k + 1) + 1]
    <3>1. i + k + 1 \in 1 .. Len(ls) - 1 /\ (i + k + 1) + 1 = i + (k + 1) + 1
      BY <1>1, <2>1
    <3>2. ls[i] + 2 <= ls[i + k + 1] /\ ls[i + k + 1] + 2 <= ls[i + (k + 1) + 1]
      BY <1>3, <1>5, <3>1
    <3>3. ls[i] \in Nat /\ ls[i + k + 1] \in Nat /\ ls[i + (k + 1) + 1] \in Nat
      <4>1. i + k + 1 \in 1 .. Len(ls) /\ i + (k + 1) + 1 \in 1 .. Len(ls)
        BY <1>1, <2>1
      <4>2. \A x \in 1 .. Len(ls) : ls[x] \in Nat
        BY <1>1
      <4>3. QED
        BY <4>1, <4>2
    <3>4. QED
      BY <3>2, <3>3, SMTT(20)
  <2>2. QED
    BY <2>1
<1>6. Nat \subseteq S
  <2> HIDE DEF S
  <2>1. QED
    BY <1>4, <1>5, SetInduction
<1>7. ASSUME NEW i \in 1 .. Len(ls), NEW j \in 1 .. Len(ls), i < j PROVE ls[i] + 2 <= ls[j]
  <2>1. j - i - 1 \in Nat /\ i + (j - i - 1) + 1 = j
    BY <1>1, <1>7
  <2>2. j - i - 1 \in S
    BY <1>6, <2>1
  <2>3. QED
    BY <2>1, <2>2, <1>1
<1>8. QED
  BY <1>7

\* ls are the labels of a whole name at o: one behind the other, the last a root
\* or a pointer.
Named(b, o, ls) ==
  /\ ls \in Seq(Nat)
  /\ Len(ls) >= 1
  /\ ls[1] = o
  /\ \A i \in 1 .. Len(ls) - 1 : Plain(b, ls[i]) /\ ls[i + 1] = ls[i] + b[ls[i]] + 1
  /\ b[ls[Len(ls)]] = 0 \/ b[ls[Len(ls)]] >= 192

\* A whole name has no other labels than those NameLabels finds.
LEMMA NamedUnique ==
  ASSUME NEW n \in Nat, NEW b \in Buffer(n), NEW end \in 0 .. n, NEW o \in Nat, NEW ls,
         Named(b, o, ls), \A k \in 1 .. Len(ls) : ls[k] < end
  PROVE  NameLabels(b, o, end) = ls
<1> DEFINE ms == NameLabels(b, o, end)
<1>1. ls \in Seq(Nat) /\ Len(ls) \in Nat /\ Len(ls) >= 1 /\ ls[1] = o
  BY DEF Named
<1>2. o < end
  BY <1>1
<1>3. Chained(b, o, end, ms)
  BY <1>2, NameLabelsChained
<1> HIDE DEF ms
<1>4. ms \in Seq(Nat) /\ Len(ms) \in Nat /\ Len(ms) >= 1 /\ ms[1] = o
  BY <1>3 DEF Chained
<1>5. \A i \in 1 .. Len(ms) - 1 : Plain(b, ms[i]) /\ ms[i + 1] = ms[i] + b[ms[i]] + 1
  BY <1>3 DEF Chained
<1>6. \A i \in 1 .. Len(ls) - 1 : Plain(b, ls[i]) /\ ls[i + 1] = ls[i] + b[ls[i]] + 1
  BY DEF Named
<1> DEFINE S == {k \in Nat : k + 1 <= Len(ls) /\ k + 1 <= Len(ms) => ms[k + 1] = ls[k + 1]}
<1>7. 0 \in S
  BY <1>1, <1>4
<1>8. ASSUME NEW k \in Nat, k \in S PROVE k + 1 \in S
  <2>1. SUFFICES ASSUME (k + 1) + 1 <= Len(ls), (k + 1) + 1 <= Len(ms)
                 PROVE  ms[(k + 1) + 1] = ls[(k + 1) + 1]
    OBVIOUS
  <2>2. ms[k + 1] = ls[k + 1]
    BY <1>1, <1>4, <1>8, <2>1
  <2>3. k + 1 \in 1 .. Len(ls) - 1 /\ k + 1 \in 1 .. Len(ms) - 1
    BY <1>1, <1>4, <2>1
  <2>4. QED
    BY <1>5, <1>6, <2>2, <2>3
<1>9. \A k \in 1 .. Len(ls) : k <= Len(ms) => ms[k] = ls[k]
  <2>1. Nat \subseteq S
    <3> HIDE DEF S
    <3>1. QED
      BY <1>7, <1>8, SetInduction
  <2>2. TAKE k \in 1 .. Len(ls)
  <2>3. k - 1 \in Nat /\ (k - 1) + 1 = k
    BY <1>1
  <2>4. k - 1 \in S
    BY <2>1, <2>3
  <2>5. QED
    BY <1>1, <2>3, <2>4
<1>10. ~(Len(ms) > Len(ls))
  <2>1. SUFFICES ASSUME Len(ms) > Len(ls) PROVE FALSE
    OBVIOUS
  <2>2. Len(ls) \in 1 .. Len(ms) - 1 /\ ms[Len(ls)] = ls[Len(ls)]
    BY <1>1, <1>4, <1>9, <2>1
  <2>3. Plain(b, ls[Len(ls)])
    BY <1>5, <2>2
  <2>4. b[ls[Len(ls)]] = 0 \/ b[ls[Len(ls)]] >= 192
    BY DEF Named
  <2>5. ls[Len(ls)] \in Nat /\ ls[Len(ls)] < end
    BY <1>1
  <2>6. b[ls[Len(ls)]] \in Nat
    BY <2>5, ByteAt
  <2>7. QED
    BY <2>3, <2>4, <2>6 DEF Plain
<1>11. ~(Len(ms) < Len(ls))
  <2>1. SUFFICES ASSUME Len(ms) < Len(ls) PROVE FALSE
    OBVIOUS
  <2> DEFINE k == Len(ms)
  <2>2. k \in 1 .. Len(ls) - 1 /\ k + 1 \in 1 .. Len(ls) /\ ms[k] = ls[k]
    <3>1. k \in 1 .. Len(ls) - 1 /\ k + 1 \in 1 .. Len(ls) /\ k \in 1 .. Len(ls) /\ k <= Len(ms)
      BY <1>1, <1>4, <2>1
    <3> HIDE DEF k
    <3>2. ms[k] = ls[k]
      BY <1>9, <3>1
    <3>3. QED
      BY <3>1, <3>2
  <2>3. Plain(b, ls[k]) /\ ls[k + 1] = ls[k] + b[ls[k]] + 1
    BY <1>6, <2>2
  <2>4. ls[k + 1] \in Nat /\ ls[k + 1] < end
    BY <1>1, <2>2
  <2>5. Plain(b, ms[k]) => ms[k] + b[ms[k]] + 1 >= end
    BY <1>3 DEF Chained
  <2>6. QED
    BY <2>2, <2>3, <2>4, <2>5
<1>12. Len(ms) = Len(ls)
  BY <1>1, <1>4, <1>10, <1>11
<1>13. ms = ls
  BY <1>1, <1>4, <1>9, <1>12, SeqEqual
<1>14. QED
  BY <1>13 DEF ms

\* Where a whole name ends.
LEMMA NamedEnd ==
  ASSUME NEW n \in Nat, NEW b \in Buffer(n), NEW end \in 0 .. n, NEW o \in Nat, NEW ls,
         Named(b, o, ls), \A k \in 1 .. Len(ls) : ls[k] < end
  PROVE  /\ b[ls[Len(ls)]] >= 192 => NameEnd(b, o, end) = ls[Len(ls)] + 2
         /\ b[ls[Len(ls)]] < 192 => NameEnd(b, o, end) = ls[Len(ls)] + 1
<1>1. ls \in Seq(Nat) /\ Len(ls) \in Nat /\ Len(ls) >= 1 /\ ls # <<>>
  BY DEF Named
<1>2. NameLabels(b, o, end) = ls
  BY NamedUnique
<1> DEFINE l == ls[Len(ls)]
<1>3. NameEnd(b, o, end) = l + LabelSize(b, l)
  BY <1>1, <1>2 DEF NameEnd, Last
<1>4. l \in Nat /\ l < end /\ (b[l] = 0 \/ b[l] >= 192)
  BY <1>1 DEF Named
<1> HIDE DEF l
<1>5. b[l] \in Nat
  BY <1>4, ByteAt
<1>6. /\ b[l] >= 192 => LabelSize(b, l) = 2
      /\ b[l] < 192 => LabelSize(b, l) = 1
  BY <1>4, <1>5 DEF LabelSize, IsPointer
<1>7. QED
  BY <1>3, <1>5, <1>6 DEF l

\* The first bytes of the labels ls of b are those t bytes on in c, or pointers as they.
FoundOn(b, c, end, after, t, ls) ==
  \A k \in 1 .. Len(ls) :
    /\ ls[k] < end /\ ls[k] + t < after
    /\ b[ls[k]] < 192 => c[ls[k] + t] = b[ls[k]]
    /\ b[ls[k]] >= 192 => c[ls[k] + t] >= 192

\* The labels of a name that is found t bytes on.
LEMMA NameShifted ==
  ASSUME NEW n \in Nat, NEW b \in Buffer(n), NEW c \in Buffer(n), NEW end \in 0 .. n,
         NEW after \in 0 .. n, NEW o \in Nat, NEW t \in Nat, NEW ls,
         Named(b, o, ls), FoundOn(b, c, end, after, t, ls)
  PROVE  /\ NameLabels(c, o + t, after) = [k \in 1 .. Len(ls) |-> ls[k] + t]
         /\ Named(c, o + t, [k \in 1 .. Len(ls) |-> ls[k] + t])
         /\ NameEnd(c, o + t, after) = NameEnd(b, o, end) + t
<1> DEFINE ms == [k \in 1 .. Len(ls) |-> ls[k] + t]
<1>1. ls \in Seq(Nat) /\ Len(ls) \in Nat /\ Len(ls) >= 1 /\ ls[1] = o
  BY DEF Named
<1>2. \A k \in 1 .. Len(ls) : ls[k] \in Nat /\ ms[k] = ls[k] + t
  BY <1>1
<1>3. \A k \in 1 .. Len(ls) :
        /\ ls[k] < end /\ ls[k] + t < after
        /\ b[ls[k]] < 192 => c[ls[k] + t] = b[ls[k]]
        /\ b[ls[k]] >= 192 => c[ls[k] + t] >= 192
  BY DEF FoundOn
<1>4. ms \in Seq(Nat) /\ Len(ms) = Len(ls)
  BY <1>1, <1>2
<1>5. \A k \in 1 .. Len(ls) : b[ls[k]] \in Nat /\ c[ls[k] + t] \in Nat
  <2>1. TAKE k \in 1 .. Len(ls)
  <2>2. ls[k] \in Nat /\ ls[k] < n /\ ls[k] + t \in Nat /\ ls[k] + t < n
    BY <1>2, <1>3
  <2>3. QED
    BY <2>2, ByteAt
<1> HIDE DEF ms
<1>6. ASSUME NEW i \in 1 .. Len(ms) - 1
      PROVE  Plain(c, ms[i]) /\ ms[i + 1] = ms[i] + c[ms[i]] + 1
  <2>1. i \in 1 .. Len(ls) /\ i + 1 \in 1 .. Len(ls) /\ i \in 1 .. Len(ls) - 1
    BY <1>1, <1>4
  <2>2. Plain(b, ls[i]) /\ ls[i + 1] = ls[i] + b[ls[i]] + 1
    BY <2>1 DEF Named
  <2>3. b[ls[i]] < 192 /\ 1 <= b[ls[i]] /\ b[ls[i]] <= 63
    BY <1>5, <2>1, <2>2 DEF Plain
  <2>4. c[ms[i]] = b[ls[i]] /\ ms[i] = ls[i] + t /\ ms[i + 1] = ls[i + 1] + t
    BY <1>2, <1>3, <2>1, <2>3
  <2>5. ls[i] \in Nat /\ b[ls[i]] \in Nat
    BY <1>2, <1>5, <2>1
  <2>6. QED
    BY <2>2, <2>3, <2>4, <2>5, SMTT(20) DEF Plain
<1>7. Len(ls) \in 1 .. Len(ls) /\ Len(ms) = Len(ls) /\ ms[Len(ms)] = ls[Len(ls)] + t
  BY <1>1, <1>2, <1>4
<1>8. /\ b[ls[Len(ls)]] < 192 => c[ms[Len(ms)]] = b[ls[Len(ls)]]
      /\ b[ls[Len(ls)]] >= 192 => c[ms[Len(ms)]] >= 192
      /\ b[ls[Len(ls)]] \in Nat /\ c[ms[Len(ms)]] \in Nat
      /\ b[ls[Len(ls)]] = 0 \/ b[ls[Len(ls)]] >= 192
  BY <1>3, <1>5, <1>7 DEF Named
<1>9. c[ms[Len(ms)]] = 0 \/ c[ms[Len(ms)]] >= 192
  BY <1>8
<1>10. ms[1] = o + t
  BY <1>1, <1>2
<1>11. Named(c, o + t, ms)
  BY <1>1, <1>4, <1>6, <1>9, <1>10 DEF Named
<1>12. \A k \in 1 .. Len(ms) : ms[k] < after
  BY <1>2, <1>3, <1>4
<1>13. o + t \in Nat
  OBVIOUS
<1>14. NameLabels(c, o + t, after) = ms
  BY <1>11, <1>12, <1>13, NamedUnique
<1>15. NameEnd(c, o + t, after) = NameEnd(b, o, end) + t
  <2>1. /\ b[ls[Len(ls)]] >= 192 => NameEnd(b, o, end) = ls[Len(ls)] + 2
        /\ b[ls[Len(ls)]] < 192 => NameEnd(b, o, end) = ls[Len(ls)] + 1
    BY <1>3, NamedEnd
  <2>2. /\ c[ms[Len(ms)]] >= 192 => NameEnd(c, o + t, after) = ms[Len(ms)] + 2
        /\ c[ms[Len(ms)]] < 192 => NameEnd(c, o + t, after) = ms[Len(ms)] + 1
    BY <1>11, <1>12, <1>13, NamedEnd
  <2>3. ls[Len(ls)] \in Nat
    BY <1>2, <1>7
  <2>4. QED
    BY <1>7, <1>8, <2>1, <2>2, <2>3, SMTT(20)
<1>16. QED
  BY <1>11, <1>14, <1>15 DEF ms
-------------------------------------------------------------------------------
(* Entries *)

\* The pointers of a question and of a resource in the first n bytes of a buffer.
Questions(n) ==
  {e \in [begin : Nat, name : Nat, qtype : Nat, qclass : Nat] :
     e.begin < e.qtype /\ e.qclass = e.qtype + 2 /\ e.qclass + 2 <= n}

Resources(n) ==
  {e \in [begin : Nat, name : Nat, qtype : Nat, qclass : Nat, ttl : Nat, rdlength : Nat,
          rdata : Nat] :
     /\ e.begin < e.qtype /\ e.qclass = e.qtype + 2 /\ e.ttl = e.qtype + 4
     /\ e.rdlength = e.qtype + 8 /\ e.rdata = e.qtype + 10 /\ e.rdata <= n}

\* The entries of section s.
Shape(n, s) == IF s = 1 THEN Questions(n) ELSE Resources(n)

\* The fields of an entry, of whichever section.
LEMMA ShapeFields ==
  ASSUME NEW n, NEW s, NEW e \in Shape(n, s)
  PROVE  /\ e.begin \in Nat /\ e.qtype \in Nat /\ e.qclass = e.qtype + 2
         /\ e.begin < e.qtype
         /\ s = 1 => e.qtype + 4 <= n
         /\ s # 1 => /\ e.rdlength = e.qtype + 8 /\ e.rdata = e.qtype + 10
                     /\ e.rdata <= n
<1>1. CASE s = 1
  <2>1. e \in Questions(n)
    BY <1>1 DEF Shape
  <2>2. e.begin \in Nat /\ e.qtype \in Nat /\ e.qclass = e.qtype + 2
        /\ e.begin < e.qtype /\ e.qclass + 2 <= n
    BY <2>1 DEF Questions
  <2>3. QED
    BY <1>1, <2>2
<1>2. CASE s # 1
  <2>1. e \in Resources(n)
    BY <1>2 DEF Shape
  <2>2. QED
    BY <1>2, <2>1 DEF Resources
<1>3. QED
  BY <1>1, <1>2

\* What the constructors of an entry have made sure of when they have thrown nothing:
\* the name ends in a root or a pointer, and labels and fields are in the packet
\* (DNSQName, DNSQuestion, DNSResource).
LEMMA EntryFits ==
  ASSUME NEW n \in Nat, NEW b \in Buffer(n), NEW end \in 0 .. n, NEW o \in Nat, NEW s \in 1 .. 4,
         Fits(b, EntryAt(b, o, end, s), end, s)
  PROVE  LET e == EntryAt(b, o, end, s)
             ls == NameLabels(b, o, end)
         IN /\ Named(b, o, ls)
            /\ \A i \in 1 .. Len(ls) : ls[i] < e.qtype /\ ls[i] + 4 < end
            /\ IsPointer(b, ls[Len(ls)]) => ls[Len(ls)] + 2 = e.qtype
            /\ IF s = 1 THEN e \in Questions(end) ELSE e \in Resources(end)
            /\ EntryEnd(b, e, s) \in Nat /\ EntryEnd(b, e, s) <= end
<1> DEFINE e == EntryAt(b, o, end, s)
           ls == NameLabels(b, o, end)
           m == NameEnd(b, o, end)
<1>1. e.begin = o /\ e.qtype = m /\ e.qclass = m + 2 /\ (s # 1 => e.rdata = m + 10)
  BY DEF EntryAt
<1>2. ~InvalidLabel(b, ls) /\ FixedEnd(e, s) <= end /\ EntryEnd(b, e, s) <= end
  BY <1>1 DEF Fits
<1>3. FixedEnd(e, s) = IF s = 1 THEN (m + 2) + 2 ELSE m + 10
  BY <1>1 DEF FixedEnd
<1>4. o < end
  <2>1. SUFFICES ASSUME o >= end PROVE FALSE
    OBVIOUS
  <2>2. ls = <<>>
    BY <2>1, NameLabelsDef
  <2>3. m = o
    BY <2>2 DEF NameEnd
  <2>4. QED
    BY <1>2, <1>3, <2>1, <2>3
<1>5. Chained(b, o, end, ls)
  BY <1>4, NameLabelsChained
<1>6. ls \in Seq(Nat) /\ Len(ls) \in Nat /\ Len(ls) >= 1 /\ ls # <<>>
  BY <1>5 DEF Chained
<1> DEFINE l == ls[Len(ls)]
<1>7. m = l + LabelSize(b, l)
  BY <1>6 DEF NameEnd, Last
<1>8. l \in Nat /\ l < end
  BY <1>5, <1>6 DEF Chained
<1>9. b[l] \in Nat /\ b[l] <= 255
  BY <1>8, ByteAt
<1> HIDE DEF e, ls, m
<1>10. /\ Plain(b, l) => LabelSize(b, l) = b[l] + 1
       /\ b[l] = 0 => LabelSize(b, l) = 1
       /\ IsPointer(b, l) <=> b[l] >= 192
       /\ b[l] >= 192 => LabelSize(b, l) = 2
  <2> DEFINE c == b[l]
  <2> HIDE DEF c
  <2>1. c \in Nat
    BY <1>9 DEF c
  <2>2. QED
    BY <2>1 DEF Plain, LabelSize, IsPointer, c
<1>11. b[l] = 0 \/ b[l] >= 192
  <2>1. Len(ls) \in DOMAIN ls
    BY <1>6
  <2>2. b[l] \notin 64 .. 191
    BY <1>2, <2>1 DEF InvalidLabel
  <2>3. ~Plain(b, l)
    <3>1. SUFFICES ASSUME Plain(b, l) PROVE FALSE
      OBVIOUS
    <3>2. l + b[l] + 1 >= end
      BY <1>5, <3>1 DEF Chained
    <3>3. m = l + b[l] + 1
      BY <1>7, <1>8, <1>9, <1>10, <3>1
    <3>4. QED
      BY <1>2, <1>3, <1>8, <1>9, <3>2, <3>3
  <2> DEFINE c == b[l]
  <2>4. c \in Nat /\ c \notin 64 .. 191 /\ ~(1 <= c /\ c <= 63)
    BY <1>9, <2>2, <2>3 DEF Plain
  <2> HIDE DEF c
  <2>5. c = 0 \/ c >= 192
    BY <2>4
  <2>6. QED
    BY <2>5 DEF c
<1>12. /\ m \in Nat /\ l < m
       /\ IsPointer(b, l) => m = l + 2
  BY <1>7, <1>8, <1>9, <1>10, <1>11, SMTT(20)
<1>13. Named(b, o, ls)
  BY <1>5, <1>11 DEF Chained, Named
<1>14. ASSUME NEW i \in 1 .. Len(ls) PROVE ls[i] <= l
  <2>1. i < Len(ls) => ls[i] + 2 <= l
    BY <1>5, <1>6, ChainedApart
  <2>2. ls[i] \in Nat
    BY <1>6
  <2>3. QED
    BY <1>6, <1>8, <2>1, <2>2
<1>15. o <= l
  BY <1>5, <1>6, <1>14 DEF Chained
<1>16. \A i \in 1 .. Len(ls) : ls[i] < m /\ ls[i] + 4 < end
  <2>1. TAKE i \in 1 .. Len(ls)
  <2>2. ls[i] \in Nat /\ ls[i] <= l
    BY <1>6, <1>14
  <2>3. QED
    BY <1>2, <1>3, <1>8, <1>12, <2>2
<1>17. CASE s = 1
  <2>1. e = [begin |-> o, name |-> o, qtype |-> m, qclass |-> m + 2]
    BY <1>17 DEF EntryAt, e, m
  <2>2. e \in Questions(end)
    BY <1>2, <1>3, <1>8, <1>12, <1>15, <1>17, <2>1 DEF Questions
  <2>3. EntryEnd(b, e, s) \in Nat
    BY <1>3, <1>12, <1>17 DEF EntryEnd
  <2>4. QED
    BY <1>1, <1>2, <1>12, <1>13, <1>16, <1>17, <2>2, <2>3 DEF e, ls
<1>18. CASE s # 1
  <2>1. e = [begin |-> o, name |-> o, qtype |-> m, qclass |-> m + 2, ttl |-> m + 4,
             rdlength |-> m + 8, rdata |-> m + 10]
    BY <1>18 DEF EntryAt, e, m
  <2>2. e \in Resources(end)
    BY <1>2, <1>3, <1>8, <1>12, <1>15, <1>18, <2>1, SMTT(20) DEF Resources
  <2>3. EntryEnd(b, e, s) \in Nat
    <3>1. e.rdlength \in Nat /\ e.rdlength + 1 < n
      BY <1>2, <1>3, <1>12, <1>18, <2>1
    <3>2. U16(b, e.rdlength) \in Nat
      BY <3>1, U16Word DEF Word
    <3>3. QED
      BY <1>3, <1>12, <1>18, <3>2 DEF EntryEnd
  <2>4. QED
    BY <1>1, <1>2, <1>12, <1>13, <1>16, <1>18, <2>2, <2>3 DEF e, ls
<1>19. QED
  BY <1>17, <1>18

\* l is a label of the name of e.
HasLabel(b, n, e, l) ==
  \E k \in 1 .. Len(NameLabels(b, e.begin, n)) : NameLabels(b, e.begin, n)[k] = l

\* The pointers of e are where the constructor finds an entry of section s at e.begin.
EntryLaid(b, n, s, e) ==
  /\ e \in Shape(n, s)
  /\ Named(b, e.begin, NameLabels(b, e.begin, n))
  /\ \A l : HasLabel(b, n, e, l) => l < n
  /\ e.qtype = NameEnd(b, e.begin, n)
  /\ EntryEnd(b, e, s) <= n

\* Sections 2 to 4 are read alike.
LEMMA KindOfSection ==
  ASSUME NEW b, NEW n, NEW e, NEW s \in 1 .. 4, NEW k \in 1 .. 2, s = 1 <=> k = 1
  PROVE  /\ EntryEnd(b, e, s) = EntryEnd(b, e, k)
         /\ EntryLaid(b, n, s, e) <=> EntryLaid(b, n, k, e)
<1>1. EntryEnd(b, e, s) = EntryEnd(b, e, k)
  BY DEF EntryEnd, FixedEnd
<1>2. Shape(n, s) = Shape(n, k)
  BY DEF Shape
<1>3. QED
  BY <1>1, <1>2 DEF EntryLaid

\* An entry that has been read is laid out where it was read.
LEMMA EntryRead ==
  ASSUME NEW m \in Nat, NEW b \in Buffer(m), NEW n \in 0 .. m, NEW o \in Nat, NEW s \in 1 .. 4,
         Fits(b, EntryAt(b, o, n, s), n, s)
  PROVE  /\ EntryLaid(b, n, s, EntryAt(b, o, n, s))
         /\ EntryAt(b, o, n, s).begin = o
         /\ EntryAt(b, o, n, s) \in Questions(n) \cup Resources(n)
<1> DEFINE e == EntryAt(b, o, n, s)
           ls == NameLabels(b, o, n)
<1>1. e.begin = o /\ e.qtype = NameEnd(b, o, n)
  BY DEF EntryAt
<1>2. /\ Named(b, o, ls)
      /\ \A i \in 1 .. Len(ls) : ls[i] < e.qtype /\ ls[i] + 4 < n
      /\ IF s = 1 THEN e \in Questions(n) ELSE e \in Resources(n)
      /\ EntryEnd(b, e, s) <= n
  BY EntryFits
<1> HIDE DEF e, ls
<1>3. ls \in Seq(Nat) /\ Len(ls) \in Nat
  BY <1>2 DEF Named
<1>4. \A l : HasLabel(b, n, e, l) => l < n
  <2>1. SUFFICES ASSUME NEW l, HasLabel(b, n, e, l) PROVE l < n
    OBVIOUS
  <2>2. PICK i \in 1 .. Len(ls) : ls[i] = l
    BY <1>1, <2>1 DEF HasLabel, ls
  <2>3. l + 4 < n /\ l \in Nat
    BY <1>2, <1>3, <2>2
  <2>4. QED
    BY <2>3
<1>5. e \in Shape(n, s)
  BY <1>2 DEF Shape
<1>6. Named(b, e.begin, NameLabels(b, e.begin, n)) /\ e.qtype = NameEnd(b, e.begin, n)
  BY <1>1, <1>2 DEF ls
<1>7. EntryLaid(b, n, s, e)
  BY <1>2, <1>4, <1>5, <1>6 DEF EntryLaid
<1>8. QED
  BY <1>1, <1>2, <1>7 DEF e

\* An entry that is laid out ends in the packet, behind its fields.
LEMMA EntryEndTyped ==
  ASSUME NEW m \in Nat, NEW b \in Buffer(m), NEW n \in 0 .. m, NEW s, NEW e, EntryLaid(b, n, s, e)
  PROVE  /\ EntryEnd(b, e, s) \in Nat /\ EntryEnd(b, e, s) <= n
         /\ e.qtype + 4 <= EntryEnd(b, e, s)
         /\ s # 1 => /\ U16(b, e.rdlength) \in Nat
                     /\ EntryEnd(b, e, s) = e.rdata + U16(b, e.rdlength)
<1>1. e \in Shape(n, s)
  BY DEF EntryLaid
<1>2. /\ e.begin \in Nat /\ e.qtype \in Nat /\ e.qclass = e.qtype + 2
      /\ s = 1 => e.qtype + 4 <= n
      /\ s # 1 => e.rdlength = e.qtype + 8 /\ e.rdata = e.qtype + 10 /\ e.rdata <= n
  BY <1>1, ShapeFields
<1>3. EntryEnd(b, e, s) <= n
  BY DEF EntryLaid
<1>4. CASE s = 1
  BY <1>2, <1>3, <1>4 DEF EntryEnd, FixedEnd
<1>5. CASE s # 1
  <2>1. e.rdlength \in Nat /\ e.rdlength + 1 < m
    BY <1>2, <1>5
  <2>2. U16(b, e.rdlength) \in Nat
    BY <2>1, U16Word DEF Word
  <2>3. QED
    BY <1>2, <1>3, <1>5, <2>2 DEF EntryEnd, FixedEnd
<1>6. QED
  BY <1>4, <1>5

\* The labels of an entry are in front of its type, a pointer with both its bytes.
LEMMA LabelInside ==
  ASSUME NEW m \in Nat, NEW b \in Buffer(m), NEW n \in 0 .. m, NEW s, NEW e,
         EntryLaid(b, n, s, e), NEW l, HasLabel(b, n, e, l)
  PROVE  /\ l \in Nat /\ e.begin <= l /\ l < e.qtype
         /\ b[l] >= 192 => l + 2 <= e.qtype
         /\ b[l] \in Nat
<1> DEFINE ls == NameLabels(b, e.begin, n)
           o == e.begin
<1>1. Named(b, o, ls) /\ e \in Shape(n, s) /\ e.qtype = NameEnd(b, o, n)
  BY DEF EntryLaid
<1>2. o \in Nat
  BY <1>1, ShapeFields
<1>3. PICK k \in 1 .. Len(ls) : ls[k] = l
  BY DEF HasLabel
<1>4. \A i \in 1 .. Len(ls) : ls[i] < n
  BY DEF EntryLaid, HasLabel
<1> HIDE DEF ls, o
<1>5. ls \in Seq(Nat) /\ Len(ls) \in Nat /\ Len(ls) >= 1 /\ ls[1] = o
  BY <1>1 DEF Named
<1>6. o < n
  BY <1>4, <1>5
<1>7. Chained(b, o, n, ls)
  BY <1>2, <1>6, NameLabelsChained DEF ls, o
<1>8. \A i, j \in 1 .. Len(ls) : i < j => ls[i] + 2 <= ls[j]
  BY <1>7, ChainedApart
<1>9. l \in Nat /\ l < n /\ b[l] \in Nat
  BY <1>3, <1>4, <1>5, ByteAt
<1>10. o <= l
  <2>1. CASE k = 1
    BY <1>2, <1>3, <1>5, <2>1
  <2>2. CASE k # 1
    <3>1. 1 \in 1 .. Len(ls) /\ 1 < k
      BY <1>5, <2>2
    <3>2. QED
      BY <1>2, <1>3, <1>5, <1>8, <1>9, <3>1
  <2>3. QED
    BY <2>1, <2>2
<1> DEFINE z == ls[Len(ls)]
<1>11. z \in Nat /\ b[z] \in Nat /\ (b[z] = 0 \/ b[z] >= 192)
  <2>1. Len(ls) \in 1 .. Len(ls)
    BY <1>5
  <2>2. z \in Nat /\ z < n
    BY <1>4, <1>5, <2>1
  <2>3. QED
    BY <1>1, <2>2, ByteAt DEF Named
<1>12. /\ b[z] >= 192 => e.qtype = z + 2
       /\ b[z] < 192 => e.qtype = z + 1
  BY <1>1, <1>2, <1>4, NamedEnd
<1>13. CASE k = Len(ls)
  BY <1>3, <1>9, <1>10, <1>11, <1>12, <1>13 DEF o
<1>14. CASE k # Len(ls)
  <2>1. k \in 1 .. Len(ls) - 1 /\ Len(ls) \in 1 .. Len(ls) /\ k < Len(ls)
    BY <1>5, <1>14
  <2>2. l + 2 <= z
    BY <1>3, <1>8, <2>1
  <2>3. Plain(b, l)
    BY <1>1, <1>3, <2>1 DEF Named
  <2>4. ~(b[l] >= 192)
    BY <1>9, <2>3 DEF Plain
  <2> HIDE DEF z
  <2>5. l < e.qtype
    BY <1>9, <1>11, <1>12, <2>2
  <2>6. QED
    BY <1>9, <1>10, <2>4, <2>5 DEF o
<1>15. QED
  BY <1>13, <1>14

\* The labels of e are found t bytes on in c, or pointers as they.
LabelsOn(b, c, n, e, t) ==
  \A l \in Nat : HasLabel(b, n, e, l) =>
    /\ b[l] < 192 => c[l + t] = b[l]
    /\ b[l] >= 192 => c[l + t] >= 192

\* The labels of e and those of f, t bytes on.
SameLabels(b, c, n, after, e, f, t) ==
  /\ \A l \in Nat : HasLabel(b, n, e, l) => HasLabel(c, after, f, l + t)
  /\ \A l : HasLabel(c, after, f, l) => \E k \in Nat : HasLabel(b, n, e, k) /\ l = k + t

\* The pointers of f are those of e moved by t, and its rdata is u bytes longer.
Kept(b, c, n, after, s, e, f, t, u) ==
  /\ f \in Shape(after, s) /\ f.begin = e.begin + t /\ f.qtype = e.qtype + t
  /\ LabelsOn(b, c, n, e, t)
  /\ s = 1 => u = 0
  /\ s # 1 => U16(c, f.rdlength) = U16(b, e.rdlength) + u

\* An entry whose bytes are found t bytes on is laid out there.
LEMMA EntryKept ==
  ASSUME NEW m \in Nat, NEW b \in Buffer(m), NEW c \in Buffer(m), NEW n \in 0 .. m,
         NEW after \in 0 .. m, NEW t \in Nat, NEW u \in Nat, NEW s, NEW e, NEW f,
         EntryLaid(b, n, s, e), Kept(b, c, n, after, s, e, f, t, u),
         EntryEnd(b, e, s) + t + u <= after
  PROVE  /\ EntryLaid(c, after, s, f)
         /\ EntryEnd(c, f, s) = EntryEnd(b, e, s) + t + u
         /\ SameLabels(b, c, n, after, e, f, t)
<1>1. /\ f \in Shape(after, s) /\ f.begin = e.begin + t /\ f.qtype = e.qtype + t
      /\ LabelsOn(b, c, n, e, t)
      /\ s = 1 => u = 0
      /\ s # 1 => U16(c, f.rdlength) = U16(b, e.rdlength) + u
  BY DEF Kept
<1> DEFINE ls == NameLabels(b, e.begin, n)
           o == e.begin
<1>2. Named(b, o, ls) /\ e \in Shape(n, s) /\ e.qtype = NameEnd(b, o, n)
  BY DEF EntryLaid
<1>3. o \in Nat
  BY <1>2, ShapeFields
<1>4. ls \in Seq(Nat) /\ Len(ls) \in Nat
  BY <1>2 DEF Named
<1>5. /\ f.qclass = f.qtype + 2 /\ e.qclass = e.qtype + 2 /\ f.qtype \in Nat /\ e.qtype \in Nat
      /\ f.begin \in Nat
      /\ s = 1 => f.qtype + 4 <= after
      /\ s # 1 => /\ f.rdata = f.qtype + 10 /\ e.rdata = e.qtype + 10 /\ f.rdata <= after
                  /\ e.rdlength = e.qtype + 8 /\ e.rdata <= n
  BY <1>1, <1>2, ShapeFields
<1>6. f.qtype < after
  BY <1>5
<1>7. \A k \in 1 .. Len(ls) :
        /\ ls[k] \in Nat /\ HasLabel(b, n, e, ls[k])
        /\ ls[k] < n /\ ls[k] + t < after
        /\ b[ls[k]] < 192 => c[ls[k] + t] = b[ls[k]]
        /\ b[ls[k]] >= 192 => c[ls[k] + t] >= 192
  <2>1. TAKE k \in 1 .. Len(ls)
  <2>2. ls[k] \in Nat /\ HasLabel(b, n, e, ls[k])
    BY <1>4 DEF HasLabel
  <2>3. ls[k] < e.qtype
    BY <2>2, LabelInside
  <2>4. ls[k] < n
    BY <2>2 DEF EntryLaid
  <2>5. ls[k] + t < after
    <3> DEFINE l == ls[k]
               x == e.qtype
               y == f.qtype
    <3>1. l \in Nat /\ x \in Nat /\ y \in Nat /\ y = x + t /\ l < x /\ y < after
      BY <1>1, <1>5, <1>6, <2>2, <2>3
    <3> HIDE DEF l, x, y
    <3>2. l + t < after
      BY <3>1
    <3>3. QED
      BY <3>2 DEF l
  <2> HIDE DEF ls
  <2>6. QED
    BY <1>1, <2>2, <2>4, <2>5 DEF LabelsOn
<1> DEFINE ms == [k \in 1 .. Len(ls) |-> ls[k] + t]
<1>8. /\ NameLabels(c, o + t, after) = ms
      /\ Named(c, o + t, ms)
      /\ NameEnd(c, o + t, after) = NameEnd(b, o, n) + t
  <2> HIDE DEF ls, o, ms
  <2>1. QED
    <3>1. FoundOn(b, c, n, after, t, ls)
      BY <1>7 DEF FoundOn
    <3>2. QED
      BY <1>2, <1>3, <3>1, NameShifted DEF ms
<1>9. NameLabels(c, f.begin, after) = ms /\ Named(c, f.begin, ms) /\ f.qtype = NameEnd(c, f.begin, after)
  BY <1>1, <1>2, <1>8
<1>10. Len(ms) = Len(ls) /\ \A k \in 1 .. Len(ls) : ms[k] = ls[k] + t
  BY <1>4
<1>11. \A l \in Nat : HasLabel(b, n, e, l) => HasLabel(c, after, f, l + t)
  <2> HIDE DEF ms
  <2>1. QED
    BY <1>9, <1>10 DEF HasLabel
<1>12. ASSUME NEW l, HasLabel(c, after, f, l)
       PROVE  (\E k \in Nat : HasLabel(b, n, e, k) /\ l = k + t) /\ l < after
  <2> HIDE DEF ms
  <2>1. PICK i \in 1 .. Len(ls) : ms[i] = l
    BY <1>9, <1>10, <1>12 DEF HasLabel
  <2> HIDE DEF ls
  <2>2. ls[i] \in Nat /\ HasLabel(b, n, e, ls[i]) /\ l = ls[i] + t /\ ls[i] + t < after
    BY <1>7, <1>10, <2>1
  <2>3. QED
    BY <2>2
<1>13. EntryEnd(c, f, s) = EntryEnd(b, e, s) + t + u /\ EntryEnd(c, f, s) <= after
  <2>1. CASE s = 1
    BY <1>1, <1>5, <2>1 DEF EntryEnd, FixedEnd
  <2>2. CASE s # 1
    <3>1. U16(b, e.rdlength) \in Nat
      <4>1. e.rdlength \in Nat /\ e.rdlength + 1 < m
        BY <1>5, <2>2
      <4>2. QED
        BY <4>1, U16Word DEF Word
    <3>2. QED
      BY <1>1, <1>5, <2>2, <3>1 DEF EntryEnd, FixedEnd
  <2>3. QED
    BY <2>1, <2>2
<1>14. EntryLaid(c, after, s, f)
  <2> HIDE DEF ms
  <2>1. QED
    BY <1>1, <1>9, <1>12, <1>13 DEF EntryLaid
<1>15. QED
  BY <1>11, <1>12, <1>13, <1>14 DEF SameLabels
-------------------------------------------------------------------------------
(* The layout of a packet *)

\* Labels follow each other with a byte in between.
Apart(ls) == \A i, j \in 1 .. Len(ls) : i < j => ls[i] + 2 <= ls[j]

\* Of the first q entries the section is the questions'.
Kind(q, i) == IF i <= q THEN 1 ELSE 2

\* Where entry i ends.
EndOf(b, q, es, i) == EntryEnd(b, es[i], Kind(q, i))

\* The entries follow each other from behind the header to stop.
Tiled(b, n, q, es, stop) ==
  /\ \A i \in 1 .. Len(es) : EntryLaid(b, n, Kind(q, i), es[i])
  /\ Len(es) = 0 => stop = HeaderSize
  /\ Len(es) > 0 => es[1].begin = HeaderSize
  /\ \A i \in 1 .. Len(es) :
       EndOf(b, q, es, i) = IF i = Len(es) THEN stop ELSE es[i + 1].begin
  /\ \A i, k \in 1 .. Len(es) : i < k => EndOf(b, q, es, i) <= es[k].begin

\* ls are the labels of their names, in order.
Listed(b, n, es, ls) ==
  /\ Apart(ls)
  /\ \A i \in 1 .. Len(es) : \A l \in Nat :
       HasLabel(b, n, es[i], l) => \E j \in 1 .. Len(ls) : ls[j] = l
  /\ \A j \in 1 .. Len(ls) : \E i \in 1 .. Len(es) : HasLabel(b, n, es[i], ls[j])

\* A label is in one entry only, and the entries are in the order of their labels.
LEMMA LabelOwner ==
  ASSUME NEW m \in Nat, NEW b \in Buffer(m), NEW n \in 0 .. m, NEW q, NEW es, NEW stop,
         Tiled(b, n, q, es, stop), Len(es) \in Nat,
         NEW i \in 1 .. Len(es), NEW k \in 1 .. Len(es), NEW l, HasLabel(b, n, es[i], l)
  PROVE  /\ k < i => l \in Nat /\ EndOf(b, q, es, k) <= l
         /\ i < k => l \in Nat /\ l < es[k].begin
         /\ i < k /\ b[l] >= 192 => l + 1 < es[k].begin
<1>1. EntryLaid(b, n, Kind(q, i), es[i]) /\ EntryLaid(b, n, Kind(q, k), es[k])
  BY DEF Tiled
<1>2. /\ l \in Nat /\ es[i].begin <= l /\ l < es[i].qtype
      /\ b[l] >= 192 => l + 2 <= es[i].qtype
  BY <1>1, LabelInside
<1>3. /\ EndOf(b, q, es, i) \in Nat /\ es[i].qtype + 4 <= EndOf(b, q, es, i)
      /\ EndOf(b, q, es, k) \in Nat
  BY <1>1, EntryEndTyped DEF EndOf
<1>4. es[i].begin \in Nat /\ es[i].qtype \in Nat /\ es[k].begin \in Nat
  BY <1>1, ShapeFields DEF EntryLaid
<1>5. CASE k < i
  <2> DEFINE z == EndOf(b, q, es, k)
  <2>1. z \in Nat /\ z <= es[i].begin
    BY <1>3, <1>5 DEF Tiled
  <2> HIDE DEF z
  <2>2. z <= l
    BY <1>2, <1>4, <2>1, SMTT(20)
  <2>3. QED
    BY <1>2, <1>5, <2>2 DEF z
<1>6. CASE i < k
  <2> DEFINE z == EndOf(b, q, es, i)
  <2>1. z \in Nat /\ z <= es[k].begin /\ es[i].qtype + 4 <= z
    BY <1>3, <1>6 DEF Tiled
  <2> HIDE DEF z
  <2>2. l < es[k].begin /\ (b[l] >= 192 => l + 1 < es[k].begin)
    BY <1>2, <1>4, <2>1, SMTT(20)
  <2>3. QED
    BY <1>2, <1>6, <2>2
<1>7. QED
  BY <1>5, <1>6

\* How far entry i has moved when entry j has grown by d bytes, and grown itself.
Shift(i, j, d) == IF i > j THEN d ELSE 0

Growth(i, j, d) == IF i = j THEN d ELSE 0

\* No entry moves by more than d, and none overtakes the next.
LEMMA ShiftTyped ==
  ASSUME NEW i \in Nat, NEW j \in Nat, NEW d \in Nat
  PROVE  /\ Shift(i, j, d) \in Nat /\ Growth(i, j, d) \in Nat
         /\ Shift(i, j, d) + Growth(i, j, d) <= d
         /\ \A k \in Nat : i < k => Shift(i, j, d) + Growth(i, j, d) <= Shift(k, j, d)
  BY DEF Shift, Growth

\* What was behind entry j is d bytes further on in c, and entry j has d bytes more rdata.
MovedOn(b, c, n, q, es, fs, j, d) ==
  \A i \in 1 .. Len(es) :
    /\ fs[i] \in Shape(n + d, Kind(q, i))
    /\ fs[i].begin = es[i].begin + Shift(i, j, d)
    /\ fs[i].qtype = es[i].qtype + Shift(i, j, d)
    /\ LabelsOn(b, c, n, es[i], Shift(i, j, d))
    /\ i <= q => Growth(i, j, d) = 0
    /\ i > q => U16(c, fs[i].rdlength) = U16(b, es[i].rdlength) + Growth(i, j, d)

\* The entries are in front of stop.
LEMMA EndWithin ==
  ASSUME NEW m \in Nat, NEW b \in Buffer(m), NEW n \in 0 .. m, NEW q \in Nat, NEW es,
         Len(es) \in Nat, NEW stop \in Nat, Tiled(b, n, q, es, stop), NEW i \in 1 .. Len(es)
  PROVE  /\ EndOf(b, q, es, i) \in Nat /\ EndOf(b, q, es, i) <= stop
         /\ es[i].begin \in Nat /\ es[i].qtype \in Nat
         /\ es[i].begin < es[i].qtype /\ es[i].qtype + 4 <= EndOf(b, q, es, i)
<1>1. ASSUME NEW k \in 1 .. Len(es)
      PROVE  /\ EndOf(b, q, es, k) \in Nat /\ es[k].qtype + 4 <= EndOf(b, q, es, k)
             /\ es[k].begin \in Nat /\ es[k].qtype \in Nat /\ es[k].begin < es[k].qtype
  <2>1. EntryLaid(b, n, Kind(q, k), es[k])
    BY DEF Tiled
  <2>2. QED
    BY <2>1, EntryEndTyped, ShapeFields DEF EntryLaid, EndOf
<1>2. EndOf(b, q, es, i) <= stop
  <2>1. CASE i = Len(es)
    BY <1>1, <2>1 DEF Tiled
  <2>2. CASE i # Len(es)
    <3> DEFINE z == Len(es)
    <3>1. z \in 1 .. Len(es) /\ i < z
      BY <2>2
    <3>2. EndOf(b, q, es, i) <= es[z].begin /\ EndOf(b, q, es, z) = stop
      BY <3>1 DEF Tiled
    <3> DEFINE x == EndOf(b, q, es, i)
               y == es[z].begin
               t == es[z].qtype
    <3>3. /\ x \in Nat /\ y \in Nat /\ t \in Nat /\ stop \in Nat
          /\ x <= y /\ y < t /\ t + 4 <= stop
      BY <1>1, <3>1, <3>2
    <3> HIDE DEF x, y, t, z
    <3>4. x <= stop
      BY <3>3
    <3>5. QED
      BY <3>4 DEF x
  <2>3. QED
    BY <2>1, <2>2
<1>3. QED
  BY <1>1, <1>2

\* The layout of the entries es, j grown by d, is that of fs in c.
MovedLayout(b, c, n, q, es, fs, stop, j, d) ==
  /\ Tiled(c, n + d, q, fs, stop + d)
  /\ \A i \in 1 .. Len(es) : SameLabels(b, c, n, n + d, es[i], fs[i], Shift(i, j, d))

\* When one entry grows and those behind it move, the layout moves: the entries still
\* follow each other, each found by reading the bytes in front of it.
LEMMA TiledMoved ==
  ASSUME NEW m \in Nat, NEW b \in Buffer(m), NEW c \in Buffer(m), NEW n \in 0 .. m, NEW d \in Nat,
         n + d <= m, NEW q \in Nat, NEW es, NEW fs, Len(es) \in Nat, Len(fs) = Len(es),
         NEW j \in Nat, Len(es) > 0 => j \in 1 .. Len(es), Len(es) = 0 => d = 0,
         NEW stop \in Nat, stop <= n, Tiled(b, n, q, es, stop), MovedOn(b, c, n, q, es, fs, j, d)
  PROVE  MovedLayout(b, c, n, q, es, fs, stop, j, d)
<1>1. ASSUME NEW i \in 1 .. Len(es)
      PROVE  /\ EntryLaid(c, n + d, Kind(q, i), fs[i])
             /\ EndOf(c, q, fs, i) = EndOf(b, q, es, i) + Shift(i, j, d) + Growth(i, j, d)
             /\ SameLabels(b, c, n, n + d, es[i], fs[i], Shift(i, j, d))
             /\ fs[i].begin = es[i].begin + Shift(i, j, d)
  <2> DEFINE s == Kind(q, i)
             e == es[i]
             f == fs[i]
             t == Shift(i, j, d)
             u == Growth(i, j, d)
             after == n + d
  <2>1. EntryLaid(b, n, s, e)
    BY DEF Tiled
  <2>2. /\ f \in Shape(after, s) /\ f.begin = e.begin + t /\ f.qtype = e.qtype + t
        /\ LabelsOn(b, c, n, e, t)
        /\ s = 1 => u = 0
        /\ s # 1 => U16(c, f.rdlength) = U16(b, e.rdlength) + u
    BY DEF MovedOn, Kind
  <2>3. t \in Nat /\ u \in Nat /\ t + u <= d
    BY ShiftTyped
  <2>4. EntryEnd(b, e, s) \in Nat /\ EntryEnd(b, e, s) <= stop
    BY EndWithin DEF EndOf
  <2>5. after \in 0 .. m
    OBVIOUS
  <2> HIDE DEF s, e, f, t, u
  <2>6. EntryEnd(b, e, s) + t + u <= after
    BY <2>3, <2>4
  <2>7. Kept(b, c, n, after, s, e, f, t, u)
    BY <2>2 DEF Kept
  <2> HIDE DEF after
  <2>8. /\ EntryLaid(c, after, s, f)
        /\ EntryEnd(c, f, s) = EntryEnd(b, e, s) + t + u
        /\ SameLabels(b, c, n, after, e, f, t)
    BY <2>1, <2>3, <2>5, <2>6, <2>7, EntryKept
  <2>9. QED
    BY <2>2, <2>8 DEF e, f, s, t, u, after, EndOf
<1>2. ASSUME NEW i \in 1 .. Len(es), NEW k \in 1 .. Len(es), i < k
      PROVE  EndOf(c, q, fs, i) <= fs[k].begin
  <2>1. EndOf(b, q, es, i) <= es[k].begin
    BY <1>2 DEF Tiled
  <2>2. EndOf(b, q, es, i) \in Nat /\ es[k].begin \in Nat
    BY EndWithin
  <2>3. Shift(i, j, d) + Growth(i, j, d) <= Shift(k, j, d)
        /\ Shift(i, j, d) \in Nat /\ Growth(i, j, d) \in Nat /\ Shift(k, j, d) \in Nat
    BY <1>2, ShiftTyped
  <2>4. fs[k].begin = es[k].begin + Shift(k, j, d)
        /\ EndOf(c, q, fs, i) = EndOf(b, q, es, i) + Shift(i, j, d) + Growth(i, j, d)
    BY <1>1
  <2> DEFINE x == EndOf(b, q, es, i)
             y == es[k].begin
             z == EndOf(c, q, fs, i)
             w == fs[k].begin
             t == Shift(i, j, d)
             u == Growth(i, j, d)
             v == Shift(k, j, d)
  <2>5. /\ x <= y /\ x \in Nat /\ y \in Nat /\ t + u <= v /\ t \in Nat /\ u \in Nat /\ v \in Nat
        /\ z = x + t + u /\ w = y + v
    BY <2>1, <2>3, <2>2, <2>4
  <2> HIDE DEF x, y, z, w, t, u, v
  <2>6. z <= w
    BY <2>5
  <2>7. QED
    BY <2>6 DEF z, w
<1>3. ASSUME NEW i \in 1 .. Len(es)
      PROVE  EndOf(c, q, fs, i) = IF i = Len(es) THEN stop + d ELSE fs[i + 1].begin
  <2>1. EndOf(b, q, es, i) = IF i = Len(es) THEN stop ELSE es[i + 1].begin
    BY DEF Tiled
  <2>2. EndOf(c, q, fs, i) = EndOf(b, q, es, i) + Shift(i, j, d) + Growth(i, j, d)
        /\ EndOf(b, q, es, i) \in Nat
    BY <1>1, EndWithin
  <2>3. CASE i = Len(es)
    <3>1. Shift(i, j, d) + Growth(i, j, d) = d /\ Shift(i, j, d) \in Nat /\ Growth(i, j, d) \in Nat
      BY <2>3 DEF Shift, Growth
    <3>2. QED
      BY <2>1, <2>2, <2>3, <3>1
  <2>4. CASE i # Len(es)
    <3>1. i + 1 \in 1 .. Len(es)
      BY <2>4
    <3>2. Shift(i, j, d) + Growth(i, j, d) = Shift(i + 1, j, d)
          /\ Shift(i, j, d) \in Nat /\ Growth(i, j, d) \in Nat
      BY DEF Shift, Growth
    <3>3. fs[i + 1].begin = es[i + 1].begin + Shift(i + 1, j, d)
      BY <1>1, <3>1
    <3>4. QED
      BY <2>1, <2>2, <2>4, <3>2, <3>3
  <2>5. QED
    BY <2>3, <2>4
<1>4. Len(es) > 0 => fs[1].begin = HeaderSize
  <2>1. SUFFICES ASSUME Len(es) > 0 PROVE fs[1].begin = HeaderSize
    OBVIOUS
  <2>2. 1 \in 1 .. Len(es) /\ es[1].begin = HeaderSize /\ Shift(1, j, d) = 0
    BY <2>1 DEF Tiled, Shift
  <2>3. QED
    BY <1>1, <2>2, SMTT(20) DEF HeaderSize
<1>5. Len(fs) = 0 => stop + d = HeaderSize
  BY DEF Tiled, HeaderSize
<1>6. Tiled(c, n + d, q, fs, stop + d)
  BY <1>1, <1>2, <1>3, <1>4, <1>5 DEF Tiled
<1>7. QED
  BY <1>1, <1>6 DEF MovedLayout

\* p is behind the name of entry i and in front of its end.
InFields(b, q, es, i, p) == es[i].qtype <= p /\ p < EndOf(b, q, es, i)

\* The fields of an entry are in front of those of the next.
LEMMA FieldsApart ==
  ASSUME NEW m \in Nat, NEW b \in Buffer(m), NEW n \in 0 .. m, NEW q \in Nat, NEW es,
         Len(es) \in Nat, NEW stop \in Nat, Tiled(b, n, q, es, stop),
         NEW i \in 1 .. Len(es), NEW k \in 1 .. Len(es), i < k
  PROVE  /\ EndOf(b, q, es, i) <= es[k].begin
         /\ \A p \in Nat, r \in Nat : InFields(b, q, es, i, p) /\ InFields(b, q, es, k, r) => p < r
<1> DEFINE x == EndOf(b, q, es, i)
           y == es[k].begin
           z == es[k].qtype
<1>1. x <= y
  BY DEF Tiled
<1>2. x \in Nat /\ y \in Nat /\ z \in Nat /\ y < z
  BY EndWithin
<1>3. ASSUME NEW p \in Nat, NEW r \in Nat, InFields(b, q, es, i, p), InFields(b, q, es, k, r)
      PROVE  p < r
  <2>1. p < x /\ z <= r
    BY <1>3 DEF InFields
  <2> HIDE DEF x, y, z
  <2>2. QED
    BY <1>1, <1>2, <2>1
<1>4. QED
  BY <1>1, <1>3

\* No label is in the fields of an entry, nor the second byte of a pointer.
LEMMA FieldsFree ==
  ASSUME NEW m \in Nat, NEW b \in Buffer(m), NEW n \in 0 .. m, NEW q \in Nat, NEW es,
         Len(es) \in Nat, NEW stop \in Nat, Tiled(b, n, q, es, stop),
         NEW i \in 1 .. Len(es), NEW k \in 1 .. Len(es), NEW l, HasLabel(b, n, es[k], l),
         NEW p \in Nat, InFields(b, q, es, i, p)
  PROVE  l \in Nat /\ p # l /\ (b[l] >= 192 => p # l + 1)
<1> DEFINE x == EndOf(b, q, es, i)
           y == es[i].begin
           z == es[i].qtype
<1>1. x \in Nat /\ y \in Nat /\ z \in Nat /\ y < z
  BY EndWithin
<1>2. p < x /\ z <= p
  BY DEF InFields
<1>3. EntryLaid(b, n, Kind(q, k), es[k])
  BY DEF Tiled
<1>4. /\ l \in Nat /\ l < es[k].qtype
      /\ b[l] >= 192 => l + 2 <= es[k].qtype
  BY <1>3, LabelInside
<1>5. CASE k = i
  <2>1. l < z /\ (b[l] >= 192 => l + 2 <= z)
    BY <1>4, <1>5
  <2> HIDE DEF x, y, z
  <2>2. QED
    BY <1>1, <1>2, <1>4, <2>1
<1>6. CASE k < i
  <2>1. l < y /\ (b[l] >= 192 => l + 1 < y)
    BY <1>6, LabelOwner
  <2> HIDE DEF x, y, z
  <2>2. QED
    BY <1>1, <1>2, <1>4, <2>1
<1>7. CASE i < k
  <2>1. x <= l
    BY <1>7, LabelOwner
  <2> HIDE DEF x, y, z
  <2>2. QED
    BY <1>1, <1>2, <1>4, <2>1
<1>8. QED
  BY <1>5, <1>6, <1>7

\* Everything is behind the header.
LEMMA BehindHeader ==
  ASSUME NEW m \in Nat, NEW b \in Buffer(m), NEW n \in 0 .. m, NEW q \in Nat, NEW es,
         Len(es) \in Nat, NEW stop \in Nat, Tiled(b, n, q, es, stop), NEW i \in 1 .. Len(es)
  PROVE  /\ es[i].begin >= 12
         /\ \A l : HasLabel(b, n, es[i], l) => l \in Nat /\ l >= 12
<1>1. es[i].begin >= 12
  <2>1. 1 \in 1 .. Len(es) /\ es[1].begin = 12
    BY DEF Tiled, HeaderSize
  <2>2. CASE i = 1
    BY <2>1, <2>2
  <2>3. CASE i # 1
    <3> DEFINE x == EndOf(b, q, es, 1)
               y == es[i].begin
               z == es[1].qtype
               w == es[1].begin
    <3>1. x <= y
      BY <2>1, <2>3, FieldsApart
    <3>2. x \in Nat /\ y \in Nat /\ z \in Nat /\ w = 12 /\ w < z /\ z + 4 <= x
      BY <2>1, EndWithin
    <3> HIDE DEF x, y, z, w
    <3>3. y >= 12
      BY <3>1, <3>2
    <3>4. QED
      BY <3>3 DEF y
  <2>4. QED
    BY <2>2, <2>3
<1>2. ASSUME NEW l, HasLabel(b, n, es[i], l)
      PROVE  l \in Nat /\ l >= 12
  <2> DEFINE y == es[i].begin
  <2>1. EntryLaid(b, n, Kind(q, i), es[i])
    BY DEF Tiled
  <2>2. l \in Nat /\ y <= l
    BY <1>2, <2>1, LabelInside
  <2>3. y \in Nat /\ y >= 12
    BY <1>1, EndWithin
  <2> HIDE DEF y
  <2>4. QED
    BY <2>2, <2>3
<1>3. QED
  BY <1>1, <1>2

\* The fields of a resource are among the bytes in front of its end.
LEMMA ResourceFields ==
  ASSUME NEW m \in Nat, NEW b \in Buffer(m), NEW n \in 0 .. m, NEW q \in Nat, NEW es,
         Len(es) \in Nat, NEW stop \in Nat, Tiled(b, n, q, es, stop),
         NEW i \in 1 .. Len(es), q < i
  PROVE  /\ es[i].qtype \in Nat /\ es[i].rdlength = es[i].qtype + 8
         /\ es[i].rdata = es[i].qtype + 10
         /\ \A k \in 0 .. 9 : InFields(b, q, es, i, es[i].qtype + k)
         /\ U16(b, es[i].rdlength) \in Nat
         /\ EndOf(b, q, es, i) = es[i].rdata + U16(b, es[i].rdlength)
<1> DEFINE e == es[i]
<1>1. EntryLaid(b, n, Kind(q, i), e) /\ Kind(q, i) # 1
  BY DEF Tiled, Kind
<1>2. e \in Shape(n, Kind(q, i))
  BY <1>1 DEF EntryLaid
<1>3. e.qtype \in Nat /\ e.rdlength = e.qtype + 8 /\ e.rdata = e.qtype + 10
  BY <1>1, <1>2, ShapeFields, SMTT(20)
<1>4. U16(b, e.rdlength) \in Nat /\ EndOf(b, q, es, i) = e.rdata + U16(b, e.rdlength)
  <2> DEFINE s == Kind(q, i)
  <2>1. EndOf(b, q, es, i) = EntryEnd(b, e, s)
    BY DEF EndOf
  <2>2. EntryLaid(b, n, s, e) /\ s # 1
    BY <1>1
  <2> HIDE DEF s, e
  <2>3. U16(b, e.rdlength) \in Nat /\ EntryEnd(b, e, s) = e.rdata + U16(b, e.rdlength)
    BY <2>2, EntryEndTyped
  <2>4. QED
    BY <2>1, <2>3
<1>5. \A k \in 0 .. 9 : InFields(b, q, es, i, e.qtype + k)
  <2> DEFINE x == e.qtype
             y == U16(b, e.rdlength)
             z == EndOf(b, q, es, i)
  <2>1. x \in Nat /\ y \in Nat /\ z = x + 10 + y
    BY <1>3, <1>4
  <2> HIDE DEF x, y, z
  <2>2. \A k \in 0 .. 9 : x <= x + k /\ x + k < z
    BY <2>1
  <2>3. QED
    BY <2>2 DEF x, z, InFields
<1>6. QED
  BY <1>3, <1>4, <1>5
-------------------------------------------------------------------------------
(* Sequences of entries *)

\* A function of the numbers up to n is a sequence.
LEMMA FunctionIsSeq ==
  ASSUME NEW n \in Nat, NEW S, NEW f \in [1 .. n -> S]
  PROVE  f \in Seq(S) /\ Len(f) = n
OBVIOUS

\* A sequence of a smaller set is one of the larger.
LEMMA SeqWider ==
  ASSUME NEW S, NEW T, S \subseteq T, NEW s \in Seq(S)
  PROVE  s \in Seq(T)
<1>1. \A i \in 1 .. Len(s) : s[i] \in T
  BY ElementOfSeq
<1>2. s \in [1 .. Len(s) -> T] /\ Len(s) \in Nat
  BY <1>1
<1>3. QED
  BY <1>2, FunctionIsSeq

\* The four sections, one behind the other.
Join(a, b, c, d) == a \o b \o c \o d

\* Where the entries of the sections are in it.
Joined(S, a, b, c, d) ==
  /\ Join(a, b, c, d) \in Seq(S)
  /\ Len(Join(a, b, c, d)) = Len(a) + Len(b) + Len(c) + Len(d)
  /\ \A i \in 1 .. Len(a) : Join(a, b, c, d)[i] = a[i]
  /\ \A i \in 1 .. Len(b) : Join(a, b, c, d)[Len(a) + i] = b[i]

\* Joined says where everything is.
LEMMA JoinAt ==
  ASSUME NEW S, NEW a \in Seq(S), NEW b \in Seq(S), NEW c \in Seq(S), NEW d \in Seq(S)
  PROVE  Joined(S, a, b, c, d)
<1> DEFINE x == a \o b
           y == x \o c
           z == y \o d
<1>1. /\ Len(a) \in Nat /\ Len(b) \in Nat /\ Len(c) \in Nat /\ Len(d) \in Nat
  OBVIOUS
<1>2. /\ x \in Seq(S) /\ Len(x) = Len(a) + Len(b)
      /\ \A i \in 1 .. Len(a) + Len(b) : x[i] = IF i <= Len(a) THEN a[i] ELSE b[i - Len(a)]
  BY ConcatProperties
<1> HIDE DEF x
<1>3. /\ y \in Seq(S) /\ Len(y) = Len(x) + Len(c)
      /\ \A i \in 1 .. Len(x) + Len(c) : y[i] = IF i <= Len(x) THEN x[i] ELSE c[i - Len(x)]
  <2>1. x \in Seq(S)
    BY <1>2
  <2>2. QED
    BY <2>1, ConcatProperties
<1> HIDE DEF y
<1>4. /\ z \in Seq(S) /\ Len(z) = Len(y) + Len(d)
      /\ \A i \in 1 .. Len(y) + Len(d) : z[i] = IF i <= Len(y) THEN y[i] ELSE d[i - Len(y)]
  <2>1. y \in Seq(S)
    BY <1>3
  <2>2. QED
    BY <2>1, ConcatProperties
<1> HIDE DEF z
<1>5. Join(a, b, c, d) = z
  BY DEF Join, x, y, z
<1>6. Len(z) = Len(a) + Len(b) + Len(c) + Len(d)
  BY <1>1, <1>2, <1>3, <1>4
<1>7. ASSUME NEW i \in 1 .. Len(x) PROVE z[i] = x[i]
  <2>1. i <= Len(x) /\ i <= Len(y) /\ i \in 1 .. Len(x) + Len(c) /\ i \in 1 .. Len(y) + Len(d)
    BY <1>1, <1>2, <1>3, <1>4
  <2>2. QED
    BY <1>3, <1>4, <2>1
<1>8. ASSUME NEW i \in 1 .. Len(a) PROVE z[i] = a[i]
  <2>1. i <= Len(a) /\ i \in 1 .. Len(x) /\ i \in 1 .. Len(a) + Len(b)
    BY <1>1, <1>2
  <2>2. QED
    BY <1>2, <1>7, <2>1
<1>9. ASSUME NEW i \in 1 .. Len(b) PROVE z[Len(a) + i] = b[i]
  <2>1. ~(Len(a) + i <= Len(a)) /\ Len(a) + i \in 1 .. Len(x) /\ Len(a) + i \in 1 .. Len(a) + Len(b)
        /\ (Len(a) + i) - Len(a) = i
    BY <1>1, <1>2
  <2>2. QED
    BY <1>2, <1>7, <2>1
<1>10. QED
  BY <1>4, <1>5, <1>6, <1>8, <1>9 DEF Joined

\* fs is es with e behind it.
Appended(es, fs, e) ==
  /\ Len(fs) = Len(es) + 1
  /\ \A i \in 1 .. Len(es) : fs[i] = es[i]
  /\ fs[Len(es) + 1] = e

\* Appending to the second of two sequences appends to both.
LEMMA ConcatAppend ==
  ASSUME NEW S, NEW s \in Seq(S), NEW t \in Seq(S), NEW e \in S
  PROVE  s \o Append(t, e) = Append(s \o t, e)
OBVIOUS

\* An entry is put behind the others of its section, and the later sections are empty.
LEMMA JoinAppend ==
  ASSUME NEW S, NEW a \in Seq(S), NEW b \in Seq(S), NEW c \in Seq(S), NEW d \in Seq(S),
         NEW e \in S, NEW s \in 1 .. 4,
         s = 1 => b = <<>>, s <= 2 => c = <<>>, s <= 3 => d = <<>>
  PROVE  Appended(Join(a, b, c, d),
                  Join(IF s = 1 THEN Append(a, e) ELSE a, IF s = 2 THEN Append(b, e) ELSE b,
                       IF s = 3 THEN Append(c, e) ELSE c, IF s = 4 THEN Append(d, e) ELSE d), e)
<1> DEFINE one == <<e>>
           x == Join(a, b, c, d)
           y == Join(IF s = 1 THEN Append(a, e) ELSE a, IF s = 2 THEN Append(b, e) ELSE b,
                     IF s = 3 THEN Append(c, e) ELSE c, IF s = 4 THEN Append(d, e) ELSE d)
<1>1. one \in Seq(S) /\ <<>> \in Seq(S) /\ one # <<>>
  OBVIOUS
<1>2. \A t \in Seq(S) : Append(t, e) = t \o one
  BY AppendIsConcat
<1>3. \A t \in Seq(S) : t \o <<>> = t
  BY ConcatEmptySeq
<1>4. \A t \in Seq(S), u \in Seq(S) : t \o u \in Seq(S)
  BY ConcatProperties
<1> HIDE DEF one
<1>5. \A t \in Seq(S), u \in Seq(S) : (t \o u) \o one = t \o (u \o one)
  <2>1. TAKE t \in Seq(S), u \in Seq(S)
  <2>2. t \o Append(u, e) = Append(t \o u, e)
    BY ConcatAppend
  <2>3. (t \o u) \o one = Append(t \o u, e) /\ u \o one = Append(u, e)
    BY <1>2, <1>4, Zenon
  <2>4. QED
    BY <2>2, <2>3, Zenon
<1> DEFINE ab == a \o b
           abc == ab \o c
<1>6. ab \in Seq(S) /\ abc \in Seq(S) /\ x \in Seq(S) /\ x = abc \o d
  <2>1. x = abc \o d
    BY DEF Join
  <2> HIDE DEF x
  <2>2. ab \in Seq(S)
    BY <1>4
  <2> HIDE DEF ab
  <2>3. abc \in Seq(S)
    BY <1>4, <2>2
  <2> HIDE DEF abc
  <2>4. QED
    BY <1>4, <2>1, <2>2, <2>3
<1> DEFINE p == IF s = 1 THEN Append(a, e) ELSE a
           r == IF s = 2 THEN Append(b, e) ELSE b
           t == IF s = 3 THEN Append(c, e) ELSE c
           u == IF s = 4 THEN Append(d, e) ELSE d
<1>7. /\ s = 1 => p = a \o one /\ r = <<>> /\ t = <<>> /\ u = <<>> /\ b = <<>> /\ c = <<>> /\ d = <<>>
      /\ s = 2 => p = a /\ r = b \o one /\ t = <<>> /\ u = <<>> /\ c = <<>> /\ d = <<>>
      /\ s = 3 => p = a /\ r = b /\ t = c \o one /\ u = <<>> /\ d = <<>>
      /\ s = 4 => p = a /\ r = b /\ t = c /\ u = d \o one
  BY <1>2, SMTT(20)
<1>8. y = ((p \o r) \o t) \o u
  BY DEF Join
<1> HIDE DEF p, r, t, u, x, y
<1>9. a \o one \in Seq(S) /\ b \o one \in Seq(S) /\ c \o one \in Seq(S) /\ ab \o one \in Seq(S)
      /\ abc \o one \in Seq(S)
  <2> HIDE DEF ab, abc
  <2>1. QED
    BY <1>1, <1>4, <1>6
<1>10. y = x \o one
  <2>1. CASE s = 1
    <3>1. x = a /\ y = ((a \o one \o <<>>) \o <<>>) \o <<>>
      BY <1>3, <1>6, <1>7, <1>8, <2>1
    <3>2. QED
      BY <1>3, <1>9, <3>1
  <2>2. CASE s = 2
    <3>1. x = ab /\ y = ((a \o (b \o one)) \o <<>>) \o <<>>
      BY <1>3, <1>6, <1>7, <1>8, <2>2
    <3>2. a \o (b \o one) = ab \o one
      BY <1>5
    <3> HIDE DEF ab
    <3>3. QED
      BY <1>3, <1>9, <3>1, <3>2
  <2>3. CASE s = 3
    <3>1. x = abc /\ y = (ab \o (c \o one)) \o <<>>
      BY <1>3, <1>6, <1>7, <1>8, <2>3
    <3> HIDE DEF ab
    <3>2. ab \o (c \o one) = abc \o one
      BY <1>5, <1>6
    <3> HIDE DEF abc
    <3>3. QED
      BY <1>3, <1>9, <3>1, <3>2
  <2>4. CASE s = 4
    <3>1. y = abc \o (d \o one)
      BY <1>7, <1>8, <2>4
    <3> HIDE DEF abc
    <3>2. abc \o (d \o one) = (abc \o d) \o one
      BY <1>5, <1>6
    <3>3. QED
      BY <1>6, <3>1, <3>2
  <2>5. QED
    BY <2>1, <2>2, <2>3, <2>4
<1>11. y = Append(x, e)
  BY <1>2, <1>6, <1>10
<1>12. Appended(x, y, e)
  <2>1. x \in Seq(S)
    BY <1>6
  <2>2. QED
    BY <1>11, <2>1, AppendProperties DEF Appended
<1>13. QED
  BY <1>12 DEF x, y

\* Behind the entries that are laid out there is one more.
LEMMA TiledAppend ==
  ASSUME NEW m \in Nat, NEW b \in Buffer(m), NEW n \in 0 .. m, NEW q \in Nat, NEW r \in Nat,
         NEW es, NEW fs, NEW e, NEW stop \in Nat, Len(es) \in Nat, Appended(es, fs, e),
         Tiled(b, n, q, es, stop), e.begin = stop, EntryLaid(b, n, Kind(r, Len(es) + 1), e),
         \A i \in 1 .. Len(es) : Kind(r, i) = Kind(q, i)
  PROVE  Tiled(b, n, r, fs, EntryEnd(b, e, Kind(r, Len(es) + 1)))
<1> DEFINE k == Len(es)
           end == EntryEnd(b, e, Kind(r, k + 1))
<1>1. k \in Nat /\ Len(fs) = k + 1 /\ fs[k + 1] = e /\ \A i \in 1 .. k : fs[i] = es[i]
  BY DEF Appended
<1>2. \A i \in 1 .. k : EndOf(b, r, fs, i) = EndOf(b, q, es, i)
  BY <1>1 DEF EndOf
<1>3. EndOf(b, r, fs, k + 1) = end
  BY <1>1 DEF EndOf
<1>4. \A i \in 1 .. k : /\ EndOf(b, q, es, i) \in Nat /\ EndOf(b, q, es, i) <= stop
                        /\ EndOf(b, q, es, i) = IF i = k THEN stop ELSE es[i + 1].begin
                        /\ EntryLaid(b, n, Kind(q, i), es[i])
  BY EndWithin DEF Tiled
<1>5. \A i, j \in 1 .. k : i < j => EndOf(b, q, es, i) <= es[j].begin
  BY DEF Tiled
<1>6. /\ k = 0 => stop = HeaderSize
      /\ k > 0 => es[1].begin = HeaderSize
  BY DEF Tiled
<1> HIDE DEF k, end
<1>7. ASSUME NEW i \in 1 .. k + 1
      PROVE  /\ EntryLaid(b, n, Kind(r, i), fs[i])
             /\ EndOf(b, r, fs, i) = IF i = k + 1 THEN end ELSE fs[i + 1].begin
  <2>1. CASE i = k + 1
    <3>1. EntryLaid(b, n, Kind(r, k + 1), e)
      BY DEF k
    <3>2. QED
      BY <1>1, <1>3, <2>1, <3>1
  <2>2. CASE i # k + 1
    <3>1. i \in 1 .. k
      BY <1>1, <2>2
    <3>2. EntryLaid(b, n, Kind(r, i), fs[i])
      <4>1. Kind(r, i) = Kind(q, i)
        BY <3>1 DEF k
      <4>2. QED
        BY <1>1, <1>4, <3>1, <4>1
    <3>3. CASE i = k
      BY <1>1, <1>2, <1>4, <2>2, <3>1, <3>2, <3>3
    <3>4. CASE i # k
      <4>1. i + 1 \in 1 .. k
        BY <1>1, <3>1, <3>4
      <4>2. QED
        BY <1>1, <1>2, <1>4, <2>2, <3>1, <3>2, <3>4, <4>1
    <3>5. QED
      BY <3>3, <3>4
  <2>3. QED
    BY <2>1, <2>2
<1>8. ASSUME NEW i \in 1 .. k + 1, NEW j \in 1 .. k + 1, i < j
      PROVE  EndOf(b, r, fs, i) <= fs[j].begin
  <2>1. i \in 1 .. k
    BY <1>1, <1>8
  <2>2. CASE j = k + 1
    BY <1>1, <1>2, <1>4, <2>1, <2>2
  <2>3. CASE j # k + 1
    <3>1. j \in 1 .. k
      BY <1>1, <2>3
    <3>2. QED
      BY <1>1, <1>2, <1>5, <1>8, <2>1, <3>1
  <2>4. QED
    BY <2>2, <2>3
<1>9. fs[1].begin = HeaderSize
  <2>1. CASE k = 0
    BY <1>1, <1>6, <2>1
  <2>2. CASE k # 0
    <3>1. 1 \in 1 .. k /\ k > 0
      BY <1>1, <2>2
    <3>2. QED
      BY <1>1, <1>6, <3>1
  <2>3. QED
    BY <2>1, <2>2
<1>10. Tiled(b, n, r, fs, end)
  BY <1>1, <1>7, <1>8, <1>9, SMTT(20) DEF Tiled
<1>11. QED
  BY <1>10 DEF end, k

\* ... and its labels are behind those of the others.
LEMMA ListedAppend ==
  ASSUME NEW m \in Nat, NEW b \in Buffer(m), NEW n \in 0 .. m, NEW q \in Nat,
         NEW es, NEW fs, NEW e, NEW stop \in Nat, Len(es) \in Nat, Appended(es, fs, e),
         Tiled(b, n, q, es, stop), e.begin = stop, NEW s, EntryLaid(b, n, s, e),
         NEW ls \in Seq(Nat), Listed(b, n, es, ls)
  PROVE  Listed(b, n, fs, ls \o NameLabels(b, stop, n))
<1> DEFINE k == Len(es)
           ms == NameLabels(b, stop, n)
           ns == ls \o ms
<1>1. k \in Nat /\ Len(fs) = k + 1 /\ fs[k + 1] = e /\ \A i \in 1 .. k : fs[i] = es[i]
  BY DEF Appended
<1>2. Named(b, stop, ms) /\ (\A l : HasLabel(b, n, e, l) => l < n)
  BY DEF EntryLaid
<1>3. ms \in Seq(Nat) /\ Len(ms) \in Nat /\ Len(ms) >= 1 /\ ms[1] = stop
  BY <1>2 DEF Named
<1>4. \A i \in 1 .. Len(ms) : HasLabel(b, n, e, ms[i])
  BY DEF HasLabel
<1>5. \A l : HasLabel(b, n, e, l) => \E i \in 1 .. Len(ms) : ms[i] = l
  BY DEF HasLabel
<1> HIDE DEF ms
<1>6. stop < n
  BY <1>2, <1>3, <1>4
<1>7. \A i, j \in 1 .. Len(ms) : i < j => ms[i] + 2 <= ms[j]
  <2>1. Chained(b, stop, n, ms)
    BY <1>6, NameLabelsChained DEF ms
  <2>2. QED
    BY <2>1, ChainedApart
<1>8. \A i \in 1 .. Len(ms) : ms[i] \in Nat /\ stop <= ms[i]
  <2>1. TAKE i \in 1 .. Len(ms)
  <2>2. ms[i] \in Nat
    BY <1>3
  <2>3. CASE i = 1
    BY <1>3, <2>3
  <2>4. CASE i # 1
    <3>1. 1 \in 1 .. Len(ms) /\ 1 < i
      BY <1>3, <2>4
    <3>2. stop + 2 <= ms[i]
      BY <1>3, <1>7, <3>1
    <3>3. QED
      BY <2>2, <3>2
  <2>5. QED
    BY <2>3, <2>4
<1>9. /\ ns \in Seq(Nat) /\ Len(ns) = Len(ls) + Len(ms) /\ Len(ls) \in Nat
      /\ \A i \in 1 .. Len(ls) + Len(ms) : ns[i] = IF i <= Len(ls) THEN ls[i] ELSE ms[i - Len(ls)]
  BY <1>3, ConcatProperties
<1> HIDE DEF ns
<1> DEFINE g == Len(ls)
           h == Len(ms)
<1>10. /\ g \in Nat /\ h \in Nat /\ Len(ns) = g + h
       /\ \A i \in 1 .. g : ns[i] = ls[i]
       /\ \A i \in 1 .. h : ns[g + i] = ms[i]
  <2>1. g \in Nat /\ h \in Nat /\ Len(ns) = g + h
        /\ \A i \in 1 .. g + h : ns[i] = IF i <= g THEN ls[i] ELSE ms[i - g]
    BY <1>3, <1>9
  <2> HIDE DEF g, h
  <2>2. ASSUME NEW i \in 1 .. g PROVE ns[i] = ls[i]
    BY <2>1
  <2>3. ASSUME NEW i \in 1 .. h PROVE ns[g + i] = ms[i]
    <3>1. g + i \in 1 .. g + h /\ ~(g + i <= g) /\ (g + i) - g = i
      BY <2>1
    <3>2. QED
      BY <2>1, <3>1
  <2>4. QED
    BY <2>1, <2>2, <2>3
<1>11. \A i \in 1 .. Len(ls) : ls[i] \in Nat /\ ls[i] + 2 <= stop
  <2>1. TAKE i \in 1 .. Len(ls)
  <2>2. PICK j \in 1 .. k : HasLabel(b, n, es[j], ls[i])
    BY DEF Listed
  <2>3. EntryLaid(b, n, Kind(q, j), es[j])
    BY DEF Tiled
  <2>4. ls[i] \in Nat /\ ls[i] < es[j].qtype
    BY <2>2, <2>3, LabelInside
  <2> DEFINE x == es[j].qtype
             y == EndOf(b, q, es, j)
  <2>5. x \in Nat /\ y \in Nat /\ x + 4 <= y /\ y <= stop
    BY EndWithin
  <2> HIDE DEF x, y
  <2>6. ls[i] < x
    BY <2>4 DEF x
  <2>7. QED
    BY <2>4, <2>5, <2>6, SMTT(20)
<1>12. Apart(ns)
  <2>1. ASSUME NEW i \in 1 .. Len(ns), NEW j \in 1 .. Len(ns), i < j
        PROVE  ns[i] + 2 <= ns[j]
    <3> DEFINE x == i - g
               y == j - g
    <3>1. CASE j <= g
      <4>1. i \in 1 .. g /\ j \in 1 .. g
        <5> HIDE DEF g, h
        <5>1. QED
          BY <1>10, <2>1, <3>1
      <4>2. ls[i] + 2 <= ls[j]
        BY <2>1, <4>1 DEF Listed, Apart
      <4>3. ns[i] = ls[i] /\ ns[j] = ls[j]
        BY <1>10, <4>1
      <4>4. QED
        BY <4>2, <4>3
    <3>2. CASE i <= g /\ ~(j <= g)
      <4>1. i \in 1 .. g /\ y \in 1 .. h /\ g + y = j
        <5> HIDE DEF g, h
        <5>1. QED
          BY <1>10, <2>1, <3>2
      <4> HIDE DEF y
      <4>2. ns[i] = ls[i] /\ ns[j] = ms[y]
        BY <1>10, <4>1
      <4>3. ls[i] \in Nat /\ ls[i] + 2 <= stop /\ ms[y] \in Nat /\ stop <= ms[y]
        BY <1>8, <1>11, <4>1
      <4>4. QED
        BY <4>2, <4>3, SMTT(20)
    <3>3. CASE ~(i <= g)
      <4>1. x \in 1 .. h /\ y \in 1 .. h /\ g + x = i /\ g + y = j /\ x < y
        <5> HIDE DEF g, h
        <5>1. QED
          BY <1>10, <2>1, <3>3
      <4> HIDE DEF x, y
      <4>2. ns[i] = ms[x] /\ ns[j] = ms[y]
        BY <1>10, <4>1
      <4>3. QED
        BY <1>7, <4>1, <4>2
    <3>4. QED
      BY <3>1, <3>2, <3>3
  <2>2. QED
    BY <2>1 DEF Apart
<1>13. /\ \A j \in 1 .. h : g + j \in 1 .. Len(ns) /\ ns[g + j] = ms[j]
       /\ \A j \in 1 .. g : j \in 1 .. Len(ns) /\ ns[j] = ls[j]
       /\ \A j \in 1 .. Len(ns) : ~(j <= g) => j - g \in 1 .. h /\ g + (j - g) = j
  <2> HIDE DEF g, h
  <2>1. QED
    BY <1>10
<1>14. ASSUME NEW i \in 1 .. Len(fs), NEW l \in Nat, HasLabel(b, n, fs[i], l)
       PROVE  \E j \in 1 .. Len(ns) : ns[j] = l
  <2>1. CASE i = k + 1
    <3>1. PICK j \in 1 .. Len(ms) : ms[j] = l
      BY <1>1, <1>5, <1>14, <2>1
    <3>2. QED
      BY <1>13, <3>1
  <2>2. CASE i # k + 1
    <3>1. i \in 1 .. k
      BY <1>1, <2>2
    <3>2. HasLabel(b, n, es[i], l)
      BY <1>1, <1>14, <3>1
    <3>3. PICK j \in 1 .. Len(ls) : ls[j] = l
      BY <3>1, <3>2 DEF Listed
    <3>4. QED
      BY <1>13, <3>3
  <2>3. QED
    BY <2>1, <2>2
<1>15. ASSUME NEW j \in 1 .. Len(ns)
       PROVE  \E i \in 1 .. Len(fs) : HasLabel(b, n, fs[i], ns[j])
  <2>1. CASE j <= g
    <3>1. j \in 1 .. g /\ ns[j] = ls[j]
      <4> HIDE DEF g, h
      <4>1. QED
        BY <1>13, <1>10, <2>1
    <3>2. PICK i \in 1 .. k : HasLabel(b, n, es[i], ls[j])
      BY <3>1 DEF Listed
    <3>3. i \in 1 .. Len(fs) /\ fs[i] = es[i]
      BY <1>1
    <3>4. QED
      BY <3>1, <3>2, <3>3
  <2>2. CASE ~(j <= g)
    <3> DEFINE x == j - g
    <3>1. x \in 1 .. h /\ g + x = j
      BY <1>13, <2>2
    <3> HIDE DEF x
    <3>2. ns[j] = ms[x]
      BY <1>10, <3>1
    <3>3. k + 1 \in 1 .. Len(fs)
      BY <1>1
    <3>4. HasLabel(b, n, fs[k + 1], ns[j])
      BY <1>1, <1>4, <3>1, <3>2
    <3>5. QED
      BY <3>3, <3>4
  <2>3. QED
    BY <2>1, <2>2
<1>16. QED
  BY <1>12, <1>14, <1>15 DEF Listed, ns, ms
-------------------------------------------------------------------------------
(* Reading a packet again *)

\* f is e, but for where the name begins.
SameButName(e, f) ==
  /\ DOMAIN f = DOMAIN e
  /\ \A x \in DOMAIN e : x # "name" => f[x] = e[x]

\* Where an entry is laid out the constructor finds it.
LEMMA EntryFound ==
  ASSUME NEW b, NEW n, NEW s \in 1 .. 4, NEW k \in 1 .. 2, s = 1 <=> k = 1,
         NEW e, EntryLaid(b, n, k, e)
  PROVE  /\ SameButName(e, EntryAt(b, e.begin, n, s))
         /\ EntryEnd(b, EntryAt(b, e.begin, n, s), s) = EntryEnd(b, e, k)
<1> DEFINE f == EntryAt(b, e.begin, n, s)
<1>1. e \in Shape(n, k) /\ e.qtype = NameEnd(b, e.begin, n)
  BY DEF EntryLaid
<1>2. CASE s = 1
  <2>1. e \in Questions(n)
    BY <1>1, <1>2 DEF Shape
  <2>2. /\ DOMAIN e = {"begin", "name", "qtype", "qclass"}
        /\ e.qclass = e.qtype + 2
    BY <2>1 DEF Questions
  <2>3. f = [begin |-> e.begin, name |-> e.begin, qtype |-> e.qtype, qclass |-> e.qtype + 2]
    BY <1>1, <1>2 DEF EntryAt
  <2> HIDE DEF f
  <2>4. /\ DOMAIN f = {"begin", "name", "qtype", "qclass"}
        /\ f.begin = e.begin /\ f.qtype = e.qtype /\ f.qclass = e.qclass
    BY <2>2, <2>3
  <2>5. SameButName(e, f)
    BY <2>2, <2>4 DEF SameButName
  <2>6. EntryEnd(b, f, s) = EntryEnd(b, e, k)
    BY <1>2, <2>4 DEF EntryEnd, FixedEnd
  <2>7. QED
    BY <2>5, <2>6 DEF f
<1>3. CASE s # 1
  <2>1. e \in Resources(n)
    BY <1>1, <1>3 DEF Shape
  <2>2. /\ DOMAIN e = {"begin", "name", "qtype", "qclass", "ttl", "rdlength", "rdata"}
        /\ e.qclass = e.qtype + 2 /\ e.ttl = e.qtype + 4 /\ e.rdlength = e.qtype + 8
        /\ e.rdata = e.qtype + 10
    BY <2>1 DEF Resources
  <2>3. f = [begin |-> e.begin, name |-> e.begin, qtype |-> e.qtype, qclass |-> e.qtype + 2,
             ttl |-> e.qtype + 4, rdlength |-> e.qtype + 8, rdata |-> e.qtype + 10]
    BY <1>1, <1>3 DEF EntryAt
  <2> HIDE DEF f
  <2>4. /\ DOMAIN f = {"begin", "name", "qtype", "qclass", "ttl", "rdlength", "rdata"}
        /\ f.begin = e.begin /\ f.qtype = e.qtype /\ f.qclass = e.qclass /\ f.ttl = e.ttl
        /\ f.rdlength = e.rdlength /\ f.rdata = e.rdata
    BY <2>2, <2>3
  <2>5. SameButName(e, f)
    BY <2>2, <2>4 DEF SameButName
  <2>6. EntryEnd(b, f, s) = EntryEnd(b, e, k)
    BY <1>3, <2>4 DEF EntryEnd, FixedEnd
  <2>7. QED
    BY <2>5, <2>6 DEF f
<1>4. QED
  BY <1>2, <1>3

\* Where the i-th entry begins, going by the one in front of it.
StartOf(f, b, n, i) ==
  IF i = 1 THEN HeaderSize
  ELSE EntryEnd(b, EntryAt(b, f[i - 1], n, SectionOf(b, i - 1)), SectionOf(b, i - 1))

\* f says of every entry where it begins.
Starts(f, b, n, c) == f = [i \in 1 .. c |-> StartOf(f, b, n, i)]

\* The entries of the c sections in es are those in b.
Counted(b, q, es) ==
  /\ Len(es) = Counts(b) /\ Counts(b) \in Nat
  /\ \A i \in 1 .. Counts(b) : SectionOf(b, i) \in 1 .. 4 /\ (SectionOf(b, i) = 1 <=> Kind(q, i) = 1)

\* Reading the packet again finds the entries where they are laid out.
LEMMA StartsAt ==
  ASSUME NEW b, NEW n, NEW q, NEW es, NEW stop, Tiled(b, n, q, es, stop), Counted(b, q, es),
         NEW i \in 1 .. Counts(b), NEW f, i > 1 => f[i - 1] = es[i - 1].begin
  PROVE  StartOf(f, b, n, i) = es[i].begin
<1>1. CASE i = 1
  BY <1>1 DEF Tiled, Counted, StartOf
<1>2. CASE i # 1
  <2> DEFINE j == i - 1
             s == SectionOf(b, j)
  <2>1. j \in 1 .. Counts(b) /\ j # Len(es) /\ j + 1 = i /\ j \in 1 .. Len(es)
    BY <1>2 DEF Counted
  <2>2. s \in 1 .. 4 /\ (s = 1 <=> Kind(q, j) = 1)
    BY <2>1 DEF Counted
  <2> HIDE DEF j, s
  <2>3. EntryLaid(b, n, Kind(q, j), es[j])
    BY <2>1 DEF Tiled
  <2>4. Kind(q, j) \in 1 .. 2
    BY DEF Kind
  <2>5. EntryEnd(b, EntryAt(b, es[j].begin, n, s), s) = EndOf(b, q, es, j)
    BY <2>2, <2>3, <2>4, EntryFound DEF EndOf
  <2>6. EndOf(b, q, es, j) = es[i].begin
    BY <2>1 DEF Tiled
  <2>7. f[j] = es[j].begin
    BY <1>2 DEF j
  <2>8. StartOf(f, b, n, i) = EntryEnd(b, EntryAt(b, f[j], n, s), s)
    BY <1>2 DEF StartOf, j, s
  <2>9. QED
    BY <2>5, <2>6, <2>7, <2>8
<1>3. QED
  BY <1>1, <1>2

\* EntriesOf, the constructor run again, finds the entries that are laid out,
\* wherever they have been moved.
LEMMA EntriesFound ==
  ASSUME NEW b, NEW n, NEW q, NEW es, NEW stop, Tiled(b, n, q, es, stop), Counted(b, q, es)
  PROVE  EntriesOf(b, n) = [i \in 1 .. Counts(b) |-> EntryAt(b, es[i].begin, n, SectionOf(b, i))]
<1> DEFINE c == Counts(b)
           f == CHOOSE f : Starts(f, b, n, c)
<1>1. EntriesOf(b, n) = [i \in 1 .. c |-> EntryAt(b, f[i], n, SectionOf(b, i))]
  BY DEF EntriesOf, Starts, StartOf
<1>2. c \in Nat /\ c = Len(es)
  BY DEF Counted
<1>3. Starts(f, b, n, c)
  <2> DEFINE g == [i \in 1 .. c |-> es[i].begin]
  <2>1. ASSUME NEW i \in 1 .. c PROVE StartOf(g, b, n, i) = es[i].begin
    <3>1. i > 1 => g[i - 1] = es[i - 1].begin
      BY <1>2
    <3> HIDE DEF g
    <3>2. QED
      BY <3>1, StartsAt
  <2>2. g = [i \in 1 .. c |-> StartOf(g, b, n, i)]
    BY <2>1
  <2> HIDE DEF g
  <2>3. Starts(g, b, n, c)
    BY <2>2 DEF Starts
  <2>4. QED
    BY <2>3
<1> HIDE DEF f, c
<1> DEFINE S == {k \in Nat : k + 1 <= c => f[k + 1] = es[k + 1].begin}
<1>4. ASSUME NEW i \in 1 .. c, i > 1 => f[i - 1] = es[i - 1].begin PROVE f[i] = es[i].begin
  <2>1. f[i] = StartOf(f, b, n, i)
    BY <1>3 DEF Starts
  <2>2. StartOf(f, b, n, i) = es[i].begin
    BY <1>4, StartsAt DEF c
  <2>3. QED
    BY <2>1, <2>2
<1>5. 0 \in S
  BY <1>2, <1>4
<1>6. ASSUME NEW k \in Nat, k \in S PROVE k + 1 \in S
  <2>1. SUFFICES ASSUME (k + 1) + 1 <= c PROVE f[(k + 1) + 1] = es[(k + 1) + 1].begin
    OBVIOUS
  <2> DEFINE i == (k + 1) + 1
  <2>2. i \in 1 .. c /\ i - 1 = k + 1 /\ k + 1 <= c
    BY <1>2, <2>1
  <2> HIDE DEF i
  <2>3. f[i - 1] = es[i - 1].begin
    BY <1>6, <2>2
  <2>4. f[i] = es[i].begin
    BY <1>4, <2>2, <2>3
  <2>5. QED
    BY <2>4 DEF i
<1>7. Nat \subseteq S
  <2> HIDE DEF S
  <2>1. QED
    BY <1>5, <1>6, SetInduction
<1>8. ASSUME NEW i \in 1 .. c PROVE f[i] = es[i].begin
  <2>1. i - 1 \in Nat /\ (i - 1) + 1 = i
    BY <1>2
  <2>2. i - 1 \in S
    BY <1>7, <2>1
  <2>3. QED
    BY <1>2, <2>1, <2>2
<1>9. QED
  BY <1>1, <1>8 DEF c
-------------------------------------------------------------------------------
(* Reading a message of which only the first bytes are there *)

\* Of every entry it is said where it begins.
LEMMA StartsExist ==
  ASSUME NEW b, NEW n, NEW c \in Nat
  PROVE  \E f : Starts(f, b, n, c)
<1> DEFINE S == {k \in Nat : \E f : Starts(f, b, n, k)}
<1>1. 0 \in S
  <2> DEFINE f == [i \in 1 .. 0 |-> 0]
  <2>1. Starts(f, b, n, 0)
    BY DEF Starts
  <2>2. QED
    BY <2>1
<1>2. ASSUME NEW k \in Nat, k \in S PROVE k + 1 \in S
  <2>1. PICK f : Starts(f, b, n, k)
    BY <1>2
  <2> DEFINE g == [i \in 1 .. k + 1 |-> StartOf(f, b, n, i)]
  <2>2. ASSUME NEW i \in 1 .. k PROVE g[i] = f[i]
    BY <2>1 DEF Starts
  <2>3. ASSUME NEW i \in 1 .. k + 1 PROVE StartOf(f, b, n, i) = StartOf(g, b, n, i)
    <3>1. CASE i = 1
      BY <3>1 DEF StartOf
    <3>2. CASE i # 1
      <4>1. i - 1 \in 1 .. k
        BY <3>2
      <4>2. g[i - 1] = f[i - 1]
        BY <2>2, <4>1
      <4> HIDE DEF g
      <4>3. QED
        BY <3>2, <4>2 DEF StartOf
    <3>3. QED
      BY <3>1, <3>2
  <2> HIDE DEF g
  <2>4. g = [i \in 1 .. k + 1 |-> StartOf(g, b, n, i)]
    BY <2>3 DEF g
  <2>5. Starts(g, b, n, k + 1)
    BY <2>4 DEF Starts
  <2>6. QED
    BY <2>5
<1>3. Nat \subseteq S
  <2> HIDE DEF S
  <2>1. QED
    BY <1>1, <1>2, SetInduction
<1>4. QED
  BY <1>3

\* Where entry i of a message begins.
Where(b, n, i) ==
  IF i = 1 THEN HeaderSize ELSE EntryEnd(b, EntriesOf(b, n)[i - 1], SectionOf(b, i - 1))

\* Every entry of a message is read where the one in front of it ends.
LEMMA EntryNext ==
  ASSUME NEW b, NEW n, Counts(b) \in Nat, NEW i \in 1 .. Counts(b)
  PROVE  EntriesOf(b, n)[i] = EntryAt(b, Where(b, n, i), n, SectionOf(b, i))
<1> DEFINE c == Counts(b)
           f == CHOOSE f : Starts(f, b, n, c)
           es == EntriesOf(b, n)
<1>1. es = [k \in 1 .. c |-> EntryAt(b, f[k], n, SectionOf(b, k))]
  BY DEF EntriesOf, Starts, StartOf
<1>2. Starts(f, b, n, c)
  BY StartsExist
<1> HIDE DEF f, es, c
<1>3. i \in 1 .. c /\ c \in Nat
  BY DEF c
<1>4. es[i] = EntryAt(b, f[i], n, SectionOf(b, i)) /\ f[i] = StartOf(f, b, n, i)
  BY <1>1, <1>2, <1>3 DEF Starts
<1>5. StartOf(f, b, n, i) = Where(b, n, i)
  <2>1. CASE i = 1
    BY <2>1 DEF StartOf, Where
  <2>2. CASE i # 1
    <3>1. i - 1 \in 1 .. c
      BY <1>3, <2>2
    <3>2. es[i - 1] = EntryAt(b, f[i - 1], n, SectionOf(b, i - 1))
      BY <1>1, <3>1
    <3>3. QED
      BY <2>2, <3>2 DEF StartOf, Where, es
  <2>3. QED
    BY <2>1, <2>2
<1>6. QED
  BY <1>4, <1>5 DEF es

\* The first n bytes of b are those of c.
Agree(b, c, n) == \A p \in Nat : p < n => c[p] = b[p]

\* c holds the entry e of b at o.
Taken(b, c, stop, s, o, e) ==
  /\ EntryAt(c, o, stop, s) = e
  /\ EntryEnd(c, e, s) = EntryEnd(b, e, s)
  /\ Fits(c, e, stop, s)

\* An entry that fits into the first bytes of a message is the same when there are more.
LEMMA EntryTaken ==
  ASSUME NEW m \in Nat, NEW b \in Buffer(m), NEW n \in 0 .. m,
         NEW k \in Nat, NEW c \in Buffer(k), NEW stop \in 0 .. k, n <= stop, Agree(b, c, n),
         NEW s \in 1 .. 4, NEW o \in Nat, Fits(b, EntryAt(b, o, n, s), n, s)
  PROVE  Taken(b, c, stop, s, o, EntryAt(b, o, n, s))
<1> DEFINE e == EntryAt(b, o, n, s)
           ls == NameLabels(b, o, n)
           z == ls[Len(ls)]
<1>1. /\ Named(b, o, ls)
      /\ \A i \in 1 .. Len(ls) : ls[i] + 4 < n
      /\ IF s = 1 THEN e \in Questions(n) ELSE e \in Resources(n)
      /\ EntryEnd(b, e, s) <= n
  BY EntryFits
<1>2. e.begin = o /\ e.qtype = NameEnd(b, o, n) /\ ~InvalidLabel(b, NameLabels(b, e.begin, n))
  BY DEF EntryAt, Fits
<1> HIDE DEF ls
<1>3. ls \in Seq(Nat) /\ Len(ls) \in Nat /\ Len(ls) >= 1 /\ ls[1] = o
  BY <1>1 DEF Named
<1>4. ASSUME NEW i \in 1 .. Len(ls) PROVE ls[i] \in Nat /\ ls[i] < n /\ c[ls[i]] = b[ls[i]]
  <2>1. ls[i] \in Nat
    BY <1>3
  <2>2. ls[i] + 4 < n
    BY <1>1
  <2>3. ls[i] < n
    BY <2>1, <2>2
  <2>4. QED
    BY <2>1, <2>3 DEF Agree
<1>5. Named(c, o, ls)
  <2>1. ASSUME NEW i \in 1 .. Len(ls) - 1
        PROVE  Plain(c, ls[i]) /\ ls[i + 1] = ls[i] + c[ls[i]] + 1
    <3>1. i \in 1 .. Len(ls)
      BY <1>3
    <3>2. c[ls[i]] = b[ls[i]]
      BY <1>4, <3>1
    <3>3. Plain(b, ls[i]) /\ ls[i + 1] = ls[i] + b[ls[i]] + 1
      BY <1>1 DEF Named
    <3>4. QED
      BY <3>2, <3>3 DEF Plain
  <2>2. Len(ls) \in 1 .. Len(ls)
    BY <1>3
  <2>3. c[z] = b[z] /\ (b[z] = 0 \/ b[z] >= 192)
    BY <1>1, <1>4, <2>2 DEF Named
  <2>4. QED
    BY <1>3, <2>1, <2>3 DEF Named
<1>6. \A i \in 1 .. Len(ls) : ls[i] < stop
  BY <1>4
<1>7. NameLabels(c, o, stop) = ls
  BY <1>5, <1>6, NamedUnique
<1>8. NameEnd(c, o, stop) = NameEnd(b, o, n)
  <2>1. Len(ls) \in 1 .. Len(ls)
    BY <1>3
  <2>2. c[z] = b[z] /\ z \in Nat /\ z < n
    BY <1>4, <2>1
  <2>3. \A i \in 1 .. Len(ls) : ls[i] < n
    BY <1>4
  <2>4. /\ b[z] >= 192 => NameEnd(b, o, n) = z + 2
        /\ b[z] < 192 => NameEnd(b, o, n) = z + 1
    BY <1>1, <2>3, NamedEnd
  <2>5. /\ c[z] >= 192 => NameEnd(c, o, stop) = z + 2
        /\ c[z] < 192 => NameEnd(c, o, stop) = z + 1
    BY <1>5, <1>6, NamedEnd
  <2>6. b[z] \in Nat
    BY <2>2, ByteAt
  <2> HIDE DEF z
  <2>7. b[z] >= 192 \/ b[z] < 192
    BY <2>6
  <2>8. QED
    BY <2>2, <2>4, <2>5, <2>7
<1>9. EntryAt(c, o, stop, s) = e
  BY <1>8 DEF EntryAt
<1> HIDE DEF e, z
<1>10. e \in Shape(n, s)
  BY <1>1 DEF Shape
<1>11. /\ e.qtype \in Nat /\ e.qclass = e.qtype + 2
       /\ s = 1 => e.qtype + 4 <= n
       /\ s # 1 => e.rdlength = e.qtype + 8 /\ e.rdata = e.qtype + 10 /\ e.rdata <= n
  BY <1>10, ShapeFields
<1>12. s # 1 => U16(c, e.rdlength) = U16(b, e.rdlength)
  <2>1. ASSUME s # 1
        PROVE  /\ e.rdlength \in Nat /\ e.rdlength < n /\ e.rdlength + 1 \in Nat
               /\ e.rdlength + 1 < n
    BY <1>11, <2>1
  <2>2. QED
    BY <2>1 DEF Agree, U16
<1>13. EntryEnd(c, e, s) = EntryEnd(b, e, s)
  BY <1>12 DEF EntryEnd
<1>14. ~InvalidLabel(c, NameLabels(c, e.begin, stop))
  <2>1. NameLabels(c, e.begin, stop) = ls /\ NameLabels(b, e.begin, n) = ls
    BY <1>2, <1>7 DEF ls
  <2>2. \A i \in 1 .. Len(ls) : c[ls[i]] = b[ls[i]]
    BY <1>4
  <2>3. DOMAIN ls = 1 .. Len(ls)
    BY <1>3
  <2>4. QED
    BY <1>2, <2>1, <2>2, <2>3 DEF InvalidLabel
<1>15. FixedEnd(e, s) <= stop
  <2>1. CASE s = 1
    BY <1>11, <2>1 DEF FixedEnd
  <2>2. CASE s # 1
    BY <1>11, <2>2 DEF FixedEnd
  <2>3. QED
    BY <2>1, <2>2
<1>16. EntryEnd(c, e, s) <= stop
  <2>1. EntryEnd(b, e, s) \in Nat
    BY EntryFits DEF e
  <2> DEFINE x == EntryEnd(b, e, s)
  <2>2. x \in Nat /\ x <= n
    BY <1>1, <2>1
  <2> HIDE DEF x
  <2>3. x <= stop
    BY <2>2
  <2>4. QED
    BY <1>13, <2>3 DEF x
<1>17. Fits(c, e, stop, s)
  BY <1>14, <1>15, <1>16 DEF Fits
<1>18. QED
  BY <1>9, <1>13, <1>17 DEF Taken, e
-------------------------------------------------------------------------------
(* The meaning of names *)

\* The labels that are read from each label on with up to a number of hops.
Read(b, f, h) == [l \in Nat |-> IF h = 0 THEN << <<>> >> ELSE Followed(b, f[h - 1], l)]

\* Names are well defined: each hop uses up one of those that are left.
LEMMA ReadExists ==
  ASSUME NEW b, NEW n \in Nat
  PROVE  \E f : f = [h \in 0 .. n |-> Read(b, f, h)]
<1> DEFINE S == {k \in Nat : \E f : f = [h \in 0 .. k |-> Read(b, f, h)]}
<1>1. 0 \in S
  <2> DEFINE f == [h \in 0 .. 0 |-> [l \in Nat |-> << <<>> >>]]
  <2>1. f = [h \in 0 .. 0 |-> Read(b, f, h)]
    BY DEF Read
  <2>2. QED
    BY <2>1
<1>2. ASSUME NEW k \in Nat, k \in S PROVE k + 1 \in S
  <2>1. PICK f : f = [h \in 0 .. k |-> Read(b, f, h)]
    BY <1>2
  <2> DEFINE g == [h \in 0 .. k + 1 |-> Read(b, f, h)]
  <2>2. \A h \in 0 .. k : g[h] = f[h]
    BY <2>1
  <2>3. ASSUME NEW h \in 0 .. k + 1 PROVE Read(b, f, h) = Read(b, g, h)
    <3>1. CASE h = 0
      BY <3>1 DEF Read
    <3>2. CASE h # 0
      <4>1. h - 1 \in 0 .. k
        BY <3>2
      <4> HIDE DEF g
      <4>2. g[h - 1] = f[h - 1]
        BY <2>2, <4>1
      <4>3. QED
        BY <3>2, <4>2 DEF Read
    <3>3. QED
      BY <3>1, <3>2
  <2> HIDE DEF g
  <2>4. g = [h \in 0 .. k + 1 |-> Read(b, g, h)]
    BY <2>3 DEF g
  <2>5. QED
    BY <2>4
<1>3. n \in S
  <2> HIDE DEF S
  <2>1. Nat \subseteq S
    BY <1>1, <1>2, SetInduction
  <2>2. QED
    BY <2>1
<1>4. QED
  BY <1>3

\* Label l of b and label k of c, which R relates, are the same, and so is what is read next.
SameLabel(b, c, R, l, k) ==
  /\ l \in Nat /\ k \in Nat
  /\ IF b[l] >= 192
     THEN /\ l + 1 \in DOMAIN b /\ k + 1 \in DOMAIN c /\ c[k] >= 192
          /\ <<Offset(b, l), Offset(c, k)>> \in R
     ELSE /\ b[l] <= 63 /\ l + b[l] \in DOMAIN b /\ k + b[l] \in DOMAIN c
          /\ \A i \in 0 .. b[l] : c[k + i] = b[l + i]
          /\ b[l] # 0 => <<l + b[l] + 1, k + b[l] + 1>> \in R

Mirrored(b, c, R) == \A l, k : <<l, k>> \in R => SameLabel(b, c, R, l, k)

\* What is read from labels that are the same, if what is read next is.
LEMMA SameFollowed ==
  ASSUME NEW m \in Nat, NEW b \in Buffer(m), NEW n \in Nat, NEW c \in Buffer(n), NEW R, NEW f, NEW g,
         \A l, k : <<l, k>> \in R => f[l] = g[k],
         NEW l, NEW k, l \in DOMAIN b, k \in DOMAIN c, SameLabel(b, c, R, l, k)
  PROVE  Followed(b, f, l) = Followed(c, g, k)
<1>1. l \in Nat /\ k \in Nat /\ l < m /\ k < n
  BY DEF SameLabel, Buffer
<1>2. b[l] \in Nat /\ c[k] \in Nat
  BY <1>1, ByteAt
<1>3. CASE b[l] >= 192
  <2>1. /\ l + 1 \in DOMAIN b /\ k + 1 \in DOMAIN c /\ c[k] >= 192
        /\ <<Offset(b, l), Offset(c, k)>> \in R
    BY <1>3 DEF SameLabel
  <2>2. /\ LabelSize(b, l) = 2 /\ LabelSize(c, k) = 2
        /\ IsPointer(b, l) /\ IsPointer(c, k) /\ b[l] # 0 /\ c[k] # 0
    BY <1>2, <1>3, <2>1 DEF LabelSize, IsPointer
  <2>3. l + 2 - 1 = l + 1 /\ k + 2 - 1 = k + 1
    BY <1>1
  <2>4. f[Offset(b, l)] = g[Offset(c, k)]
    BY <2>1
  <2>5. QED
    BY <2>1, <2>2, <2>3, <2>4, Zenon DEF Followed
<1>4. CASE ~(b[l] >= 192)
  <2>1. /\ b[l] <= 63 /\ l + b[l] \in DOMAIN b /\ k + b[l] \in DOMAIN c
        /\ \A i \in 0 .. b[l] : c[k + i] = b[l + i]
        /\ b[l] # 0 => <<l + b[l] + 1, k + b[l] + 1>> \in R
    BY <1>4 DEF SameLabel
  <2>2. c[k] = b[l]
    <3>1. 0 \in 0 .. b[l] /\ k + 0 = k /\ l + 0 = l
      BY <1>1, <1>2
    <3>2. QED
      BY <2>1, <3>1
  <2>3. /\ LabelSize(b, l) = b[l] + 1 /\ LabelSize(c, k) = b[l] + 1
        /\ ~IsPointer(b, l) /\ ~IsPointer(c, k)
    BY <1>2, <1>4, <2>2 DEF LabelSize, IsPointer
  <2>4. CASE b[l] = 0
    BY <2>2, <2>4 DEF Followed
  <2>5. CASE b[l] # 0
    <3>1. l + (b[l] + 1) - 1 = l + b[l] /\ k + (b[l] + 1) - 1 = k + b[l]
          /\ l + (b[l] + 1) = l + b[l] + 1 /\ k + (b[l] + 1) = k + b[l] + 1
      BY <1>1, <1>2
    <3>2. f[l + b[l] + 1] = g[k + b[l] + 1]
      BY <2>1, <2>5
    <3>3. [i \in 1 .. b[l] |-> b[l + i]] = [i \in 1 .. c[k] |-> c[k + i]]
      <4>1. \A i \in 1 .. b[l] : i \in 0 .. b[l]
        BY <1>2
      <4>2. \A i \in 1 .. b[l] : b[l + i] = c[k + i]
        BY <2>1, <4>1
      <4>3. QED
        BY <2>2, <4>2
    <3>4. Followed(b, f, l) = <<[i \in 1 .. b[l] |-> b[l + i]]>> \o f[l + b[l] + 1]
      BY <2>1, <2>3, <2>5, <3>1, Zenon DEF Followed
    <3>5. Followed(c, g, k) = <<[i \in 1 .. c[k] |-> c[k + i]]>> \o g[k + b[l] + 1]
      BY <2>1, <2>2, <2>3, <2>5, <3>1, Zenon DEF Followed
    <3>6. QED
      BY <3>2, <3>3, <3>4, <3>5
  <2>6. QED
    BY <2>4, <2>5
<1>5. QED
  BY <1>3, <1>4

\* A label that is the same begins in its buffer.
LEMMA LabelInDomain ==
  ASSUME NEW m \in Nat, NEW b \in Buffer(m), NEW n \in Nat, NEW c \in Buffer(n), NEW R,
         NEW l, NEW k, SameLabel(b, c, R, l, k), b[l] \in Nat
  PROVE  l \in DOMAIN b /\ k \in DOMAIN c
<1>1. DOMAIN b = 0 .. m - 1 /\ DOMAIN c = 0 .. n - 1 /\ l \in Nat /\ k \in Nat
  BY DEF Buffer, SameLabel
<1>2. CASE b[l] >= 192
  BY <1>1, <1>2 DEF SameLabel
<1>3. CASE ~(b[l] >= 192)
  <2>1. l + b[l] \in 0 .. m - 1 /\ k + b[l] \in 0 .. n - 1
    BY <1>1, <1>3 DEF SameLabel
  <2>2. QED
    BY <1>1, <2>1
<1>4. QED
  BY <1>2, <1>3

\* Names whose labels are the same, one by one and pointer by pointer, are the same.
LEMMA NameMirrored ==
  ASSUME NEW m \in Nat, NEW b \in Buffer(m), NEW n \in Nat, NEW c \in Buffer(n), NEW R,
         Mirrored(b, c, R), \A l, k : <<l, k>> \in R => l \in DOMAIN b /\ k \in DOMAIN c,
         NEW o, NEW p, <<o, p>> \in R
  PROVE  Name(b, o) = Name(c, p)
<1> DEFINE f == CHOOSE f : f = [h \in 0 .. 16 |-> Read(b, f, h)]
           g == CHOOSE g : g = [h \in 0 .. 16 |-> Read(c, g, h)]
<1>1. f = [h \in 0 .. 16 |-> Read(b, f, h)] /\ g = [h \in 0 .. 16 |-> Read(c, g, h)]
  BY ReadExists
<1>2. Name(b, o) = f[16][o] /\ Name(c, p) = g[16][p]
  BY DEF Name, Read
<1> HIDE DEF f, g
<1>3. \A l, k : <<l, k>> \in R => l \in Nat /\ k \in Nat
  BY DEF Buffer
<1> DEFINE Same(h) == \A l, k : <<l, k>> \in R => f[h][l] = g[h][k]
           S == {h \in Nat : h <= 16 => Same(h)}
<1>4. 0 \in S
  <2>1. f[0] = [l \in Nat |-> << <<>> >>] /\ g[0] = [l \in Nat |-> << <<>> >>]
    BY <1>1 DEF Read
  <2>2. QED
    BY <1>3, <2>1
<1>5. ASSUME NEW h \in Nat, h \in S PROVE h + 1 \in S
  <2>1. SUFFICES ASSUME h + 1 <= 16, NEW l, NEW k, <<l, k>> \in R PROVE f[h + 1][l] = g[h + 1][k]
    OBVIOUS
  <2>2. \A u, v : <<u, v>> \in R => f[h][u] = g[h][v]
    BY <1>5, <2>1
  <2>3. h + 1 \in 0 .. 16 /\ h + 1 # 0 /\ (h + 1) - 1 = h
    BY <2>1
  <2>4. f[h + 1][l] = Followed(b, f[h], l) /\ g[h + 1][k] = Followed(c, g[h], k)
    <3>1. f[h + 1] = Read(b, f, h + 1) /\ g[h + 1] = Read(c, g, h + 1)
      BY <1>1, <2>3
    <3>2. l \in Nat /\ k \in Nat
      BY <1>3, <2>1
    <3>3. QED
      BY <2>3, <3>1, <3>2 DEF Read
  <2>5. l \in DOMAIN b /\ k \in DOMAIN c /\ SameLabel(b, c, R, l, k)
    BY <2>1 DEF Mirrored
  <2> DEFINE ff == f[h]
             gg == g[h]
  <2>6. \A u, v : <<u, v>> \in R => ff[u] = gg[v]
    BY <2>2
  <2> HIDE DEF ff, gg
  <2>7. Followed(b, ff, l) = Followed(c, gg, k)
    BY <2>5, <2>6, SameFollowed
  <2>8. QED
    BY <2>4, <2>7 DEF ff, gg
<1>6. Same(16)
  <2> HIDE DEF Same
  <2>1. Nat \subseteq S
    <3> HIDE DEF S
    <3>1. QED
      BY <1>4, <1>5, SetInduction
  <2>2. QED
    BY <2>1
<1>7. QED
  BY <1>2, <1>6

\* What has been written to o is read there.
LEMMA WrittenSlice ==
  ASSUME NEW n \in Nat, NEW b \in Buffer(n), NEW o \in Nat, NEW data \in Seq(Bytes),
         o + Len(data) <= n
  PROVE  Slice(Write(b, o, data), o, Len(data)) = data
<1> DEFINE w == Write(b, o, data)
<1>1. w = [p \in 0 .. n - 1 |-> IF p - o \in 0 .. Len(data) - 1 THEN data[p - o + 1] ELSE b[p]]
  BY DEF Write, Buffer
<1>2. Len(data) \in Nat
  OBVIOUS
<1> HIDE DEF w
<1>3. ASSUME NEW i \in 1 .. Len(data) PROVE w[o + i - 1] = data[i]
  <2> DEFINE p == o + i - 1
  <2>1. p \in 0 .. n - 1 /\ p - o \in 0 .. Len(data) - 1 /\ p - o + 1 = i
    BY <1>2
  <2> HIDE DEF p
  <2>2. w[p] = data[p - o + 1]
    BY <1>1, <2>1
  <2>3. QED
    BY <2>1, <2>2 DEF p
<1>4. Slice(w, o, Len(data)) = [i \in 1 .. Len(data) |-> data[i]]
  BY <1>3 DEF Slice
<1>5. data = [i \in 1 .. Len(data) |-> data[i]]
  OBVIOUS
<1>6. QED
  BY <1>4, <1>5 DEF w

\* Label k of a name from o to z: what it takes up, the label behind it, and that no pointer
\* of the name is in it.
Spanned(b, o, ls, k, z) ==
  LET l == ls[k]
  IN /\ l \in Nat /\ b[l] \in Nat /\ o <= l
     /\ b[l] >= 192 => l + 2 <= z
     /\ b[l] < 192 =>
          /\ b[l] <= 63 /\ l + b[l] + 1 <= z
          /\ \A j \in 1 .. Len(ls) : b[ls[j]] >= 192 => l + b[l] + 1 <= ls[j]
          /\ b[l] # 0 => k + 1 \in 1 .. Len(ls) /\ ls[k + 1] = l + b[l] + 1

\* The labels of a name are one behind the other in its bytes.
LEMMA NamedSpan ==
  ASSUME NEW n \in Nat, NEW b \in Buffer(n), NEW end \in 0 .. n, NEW o \in Nat, NEW ls,
         Named(b, o, ls), \A i \in 1 .. Len(ls) : ls[i] < end, NEW k \in 1 .. Len(ls)
  PROVE  Spanned(b, o, ls, k, NameEnd(b, o, end))
<1> DEFINE l == ls[k]
           z == ls[Len(ls)]
           e == NameEnd(b, o, end)
<1>1. ls \in Seq(Nat) /\ Len(ls) \in Nat /\ Len(ls) >= 1 /\ ls[1] = o
  BY DEF Named
<1>2. \A i \in 1 .. Len(ls) : ls[i] \in Nat /\ ls[i] < n /\ b[ls[i]] \in Nat
  <2>1. TAKE i \in 1 .. Len(ls)
  <2>2. ls[i] \in Nat
    BY <1>1, ElementOfSeq
  <2>3. ls[i] < n
    BY <2>2
  <2>4. QED
    BY <2>2, <2>3, ByteAt
<1>3. o \in Nat /\ o < end
  BY <1>1, <1>2
<1>4. Chained(b, o, end, ls)
  <2>1. NameLabels(b, o, end) = ls
    BY NamedUnique
  <2>2. QED
    BY <1>3, <2>1, NameLabelsChained
<1>5. \A i, j \in 1 .. Len(ls) : i < j => ls[i] + 2 <= ls[j]
  BY <1>4, ChainedApart
<1>6. Len(ls) \in 1 .. Len(ls)
  BY <1>1
<1>7. l \in Nat /\ b[l] \in Nat /\ z \in Nat /\ b[z] \in Nat
  BY <1>2, <1>6
<1>8. o <= l
  <2>1. CASE k = 1
    BY <1>1, <2>1
  <2>2. CASE k # 1
    <3>1. 1 \in 1 .. Len(ls) /\ 1 < k
      BY <1>1, <2>2
    <3>2. o + 2 <= l
      BY <1>1, <1>5, <3>1
    <3> HIDE DEF l
    <3>3. QED
      BY <1>7, <3>2
  <2>3. QED
    BY <2>1, <2>2
<1>9. /\ b[z] >= 192 => e = z + 2
      /\ b[z] < 192 => e = z + 1
      /\ (b[z] = 0 \/ b[z] >= 192)
  <2>1. (b[z] >= 192 => e = z + 2) /\ (b[z] < 192 => e = z + 1)
    BY <1>3, NamedEnd
  <2>2. b[z] = 0 \/ b[z] >= 192
    BY DEF Named
  <2>3. QED
    BY <2>1, <2>2
<1>10. \A j \in 1 .. Len(ls) : b[ls[j]] >= 192 => j = Len(ls)
  <2>1. SUFFICES ASSUME NEW j \in 1 .. Len(ls), b[ls[j]] >= 192, j # Len(ls) PROVE FALSE
    OBVIOUS
  <2>2. j \in 1 .. Len(ls) - 1
    BY <1>1, <2>1
  <2>3. Plain(b, ls[j])
    BY <2>2 DEF Named
  <2>4. QED
    BY <1>2, <2>1, <2>3 DEF Plain
<1>11. CASE k = Len(ls)
  <2>1. l = z
    BY <1>11
  <2>2. b[l] >= 192 => l + 2 <= e
    BY <1>7, <1>9, <2>1
  <2>3. ASSUME b[l] < 192
        PROVE  /\ b[l] <= 63 /\ l + b[l] + 1 <= e /\ ~(b[l] # 0)
               /\ \A j \in 1 .. Len(ls) : ~(b[ls[j]] >= 192)
    <3>1. b[l] = 0 /\ e = l + 1
      BY <1>7, <1>9, <2>1, <2>3
    <3>2. \A j \in 1 .. Len(ls) : ~(b[ls[j]] >= 192)
      BY <1>10, <2>1, <3>1
    <3> HIDE DEF l, e
    <3>3. QED
      BY <1>7, <3>1, <3>2
  <2>4. QED
    BY <1>7, <1>8, <2>2, <2>3 DEF Spanned
<1>12. CASE k # Len(ls)
  <2>1. k \in 1 .. Len(ls) - 1 /\ k + 1 \in 1 .. Len(ls)
    BY <1>1, <1>12
  <2>2. Plain(b, l) /\ ls[k + 1] = l + b[l] + 1
    BY <2>1 DEF Named
  <2>3. 1 <= b[l] /\ b[l] <= 63
    BY <2>2 DEF Plain
  <2>4. l + b[l] + 1 <= z
    <3>1. CASE k + 1 = Len(ls)
      <4>1. z = l + b[l] + 1
        BY <2>2, <3>1
      <4> HIDE DEF z
      <4>2. QED
        BY <1>7, <4>1
    <3>2. CASE k + 1 # Len(ls)
      <4>1. k + 1 < Len(ls)
        BY <2>1, <3>2
      <4>2. ls[k + 1] + 2 <= z
        BY <1>5, <1>6, <2>1, <4>1
      <4> HIDE DEF l, z
      <4>3. QED
        BY <1>7, <2>2, <4>2
    <3>3. QED
      BY <3>1, <3>2
  <2>5. \A j \in 1 .. Len(ls) : b[ls[j]] >= 192 => l + b[l] + 1 <= ls[j]
    BY <1>10, <2>4
  <2> HIDE DEF l, z, e
  <2>6. l + b[l] + 1 <= e /\ ~(b[l] >= 192)
    BY <1>7, <1>9, <2>3, <2>4
  <2>7. QED
    BY <1>7, <1>8, <2>1, <2>2, <2>3, <2>5, <2>6 DEF Spanned, l, e
<1>13. QED
  BY <1>11, <1>12
-------------------------------------------------------------------------------
(* The fields of an entry *)

\* Byte p of b is t bytes on in c.
KeptAt(b, c, p, t) == c[p + t] = b[p]

\* What the fields of entry e of section s say, its rdata as bytes.
FieldsOf(b, e, s) ==
  [type |-> U16(b, e.qtype), class |-> U16(b, e.qclass),
   ttl |-> IF s = 1 THEN <<>> ELSE Slice(b, e.ttl, 4),
   data |-> IF s = 1 THEN <<>> ELSE Slice(b, e.rdata, U16(b, e.rdlength))]

\* The r bytes from o on are t bytes on.
KeptFrom(b, c, o, r, t) == \A p \in Nat : o <= p /\ p < o + r => KeptAt(b, c, p, t)

\* Such bytes are the same sequence,
LEMMA SliceCarried ==
  ASSUME NEW b, NEW c, NEW o \in Nat, NEW t \in Nat, NEW r \in Nat, KeptFrom(b, c, o, r, t)
  PROVE  Slice(c, o + t, r) = Slice(b, o, r)
<1>1. ASSUME NEW i \in 1 .. r PROVE c[(o + t) + i - 1] = b[o + i - 1]
  <2>1. /\ o + i - 1 \in Nat /\ o <= o + i - 1 /\ o + i - 1 < o + r
        /\ (o + i - 1) + t = (o + t) + i - 1
    OBVIOUS
  <2>2. QED
    BY <2>1 DEF KeptFrom, KeptAt
<1>2. QED
  BY <1>1 DEF Slice

\* and the same number.
LEMMA NumberCarried ==
  ASSUME NEW b, NEW c, NEW o \in Nat, NEW t \in Nat, KeptAt(b, c, o, t), KeptAt(b, c, o + 1, t)
  PROVE  U16(c, o + t) = U16(b, o)
<1>1. (o + 1) + t = (o + t) + 1
  OBVIOUS
<1>2. QED
  BY <1>1 DEF KeptAt, U16

\* Where the fields of a resource are.
LEMMA ResourceShape ==
  ASSUME NEW n, NEW e \in Shape(n, 2)
  PROVE  /\ e.qtype \in Nat /\ e.qclass = e.qtype + 2 /\ e.ttl = e.qtype + 4
         /\ e.rdlength = e.qtype + 8 /\ e.rdata = e.qtype + 10
<1>1. e \in Resources(n)
  BY DEF Shape
<1>2. QED
  BY <1>1 DEF Resources

\* The fields of e are those of f, t bytes on.
FieldsKept(b, c, s, e, f, t) ==
  /\ f.qtype = e.qtype + t
  /\ s # 1 => U16(b, e.rdlength) \in Nat
  /\ \A p \in Nat : e.qtype <= p /\ p < EntryEnd(b, e, s) => KeptAt(b, c, p, t)

\* f says in c what e says in b.
SameFields(b, c, s, e, f) == FieldsOf(c, f, s) = FieldsOf(b, e, s)

\* An entry f of c that says what e says in b, t bytes in front of it.
LEMMA FieldsCarried ==
  ASSUME NEW b, NEW c, NEW n, NEW z, NEW s \in 1 .. 2, NEW e \in Shape(n, s), NEW f \in Shape(z, s),
         NEW t \in Nat, FieldsKept(b, c, s, e, f, t)
  PROVE  SameFields(b, c, s, e, f)
<1> DEFINE x == e.qtype
           y == f.qtype
           r == U16(b, e.rdlength)
<1>1. x \in Nat /\ y = x + t /\ e.qclass = x + 2 /\ f.qclass = y + 2
  BY ShapeFields DEF FieldsKept
<1>2. CASE s = 1
  <2>1. EntryEnd(b, e, s) = (x + 2) + 2
    <3>1. EntryEnd(b, e, s) = (x + 2) + 2 + 0
      BY <1>1, <1>2 DEF EntryEnd, FixedEnd
    <3> HIDE DEF x
    <3>2. QED
      BY <1>1, <3>1
  <2> DEFINE end == EntryEnd(b, e, s)
  <2>2. \A p \in Nat : x <= p /\ p < end => KeptAt(b, c, p, t)
    BY DEF FieldsKept
  <2>3. end = (x + 2) + 2
    BY <2>1
  <2> HIDE DEF x, y, end
  <2>4. KeptAt(b, c, x, t) /\ KeptAt(b, c, x + 1, t)
        /\ KeptAt(b, c, x + 2, t) /\ KeptAt(b, c, (x + 2) + 1, t)
    BY <1>1, <2>2, <2>3
  <2>5. U16(c, x + t) = U16(b, x) /\ U16(c, (x + 2) + t) = U16(b, x + 2)
    <3>1. x + 2 \in Nat
      BY <1>1
    <3>2. QED
      BY <1>1, <2>4, <3>1, NumberCarried
  <2>6. (x + 2) + t = y + 2
    BY <1>1
  <2>7. U16(c, f.qtype) = U16(b, e.qtype) /\ U16(c, f.qclass) = U16(b, e.qclass)
    BY <1>1, <2>5, <2>6 DEF x, y
  <2>8. QED
    BY <1>2, <2>7 DEF FieldsOf, SameFields
<1>3. CASE s # 1
  <2>1. s = 2
    BY <1>3
  <2>2. /\ e.ttl = x + 4 /\ e.rdlength = x + 8 /\ e.rdata = x + 10
        /\ f.ttl = y + 4 /\ f.rdlength = y + 8 /\ f.rdata = y + 10
    BY <2>1, ResourceShape
  <2>3. r \in Nat
    BY <1>3 DEF FieldsKept
  <2> DEFINE end == EntryEnd(b, e, s)
  <2>4. end = (x + 10) + r
    BY <1>3, <2>2 DEF EntryEnd, FixedEnd
  <2>5. \A p \in Nat : x <= p /\ p < end => KeptAt(b, c, p, t)
    BY DEF FieldsKept
  <2> HIDE DEF x, y, r, end
  <2>6. /\ KeptAt(b, c, x, t) /\ KeptAt(b, c, x + 1, t)
        /\ KeptAt(b, c, x + 2, t) /\ KeptAt(b, c, (x + 2) + 1, t)
        /\ KeptAt(b, c, x + 8, t) /\ KeptAt(b, c, (x + 8) + 1, t)
    BY <1>1, <2>3, <2>4, <2>5
  <2>7. /\ x + 2 \in Nat /\ x + 4 \in Nat /\ x + 8 \in Nat /\ x + 10 \in Nat
        /\ (x + 2) + t = y + 2 /\ (x + 4) + t = y + 4 /\ (x + 8) + t = y + 8
        /\ (x + 10) + t = y + 10
    BY <1>1
  <2>8. /\ U16(c, y) = U16(b, x) /\ U16(c, y + 2) = U16(b, x + 2)
        /\ U16(c, y + 8) = U16(b, x + 8)
    <3> DEFINE u == x + 2
               v == x + 8
    <3>1. /\ u \in Nat /\ KeptAt(b, c, u, t) /\ KeptAt(b, c, u + 1, t) /\ u + t = y + 2
          /\ v \in Nat /\ KeptAt(b, c, v, t) /\ KeptAt(b, c, v + 1, t) /\ v + t = y + 8
      BY <2>6, <2>7
    <3> HIDE DEF u, v
    <3>2. U16(c, x + t) = U16(b, x)
      BY <1>1, <2>6, NumberCarried
    <3>3. U16(c, u + t) = U16(b, u)
      BY <3>1, NumberCarried
    <3>4. U16(c, v + t) = U16(b, v)
      BY <3>1, NumberCarried
    <3>5. QED
      BY <1>1, <3>1, <3>2, <3>3, <3>4 DEF u, v
  <2>9. Slice(c, y + 4, 4) = Slice(b, x + 4, 4)
    <3> DEFINE o == x + 4
    <3>1. KeptFrom(b, c, o, 4, t) /\ 4 \in Nat
      BY <1>1, <2>3, <2>4, <2>5 DEF KeptFrom
    <3>2. o \in Nat /\ o + t = y + 4
      BY <2>7
    <3> HIDE DEF o
    <3>3. Slice(c, o + t, 4) = Slice(b, o, 4)
      BY <3>1, <3>2, SliceCarried
    <3>4. QED
      BY <3>2, <3>3 DEF o
  <2>10. Slice(c, y + 10, r) = Slice(b, x + 10, r)
    <3> DEFINE o == x + 10
    <3>1. KeptFrom(b, c, o, r, t)
      BY <1>1, <2>3, <2>4, <2>5 DEF KeptFrom
    <3>2. o \in Nat /\ o + t = y + 10
      BY <2>7
    <3> HIDE DEF o
    <3>3. Slice(c, o + t, r) = Slice(b, o, r)
      BY <2>3, <3>1, <3>2, SliceCarried
    <3>4. QED
      BY <3>2, <3>3 DEF o
  <2>11. /\ U16(c, f.qtype) = U16(b, e.qtype) /\ U16(c, f.qclass) = U16(b, e.qclass)
         /\ U16(c, f.rdlength) = U16(b, e.rdlength) /\ Slice(c, f.ttl, 4) = Slice(b, e.ttl, 4)
         /\ Slice(c, f.rdata, r) = Slice(b, e.rdata, r)
    <3>1. /\ e.qclass = x + 2 /\ f.qclass = y + 2 /\ e.qtype = x /\ f.qtype = y
      BY <1>1 DEF x, y
    <3>2. QED
      BY <2>2, <2>8, <2>9, <2>10, <3>1, Zenon
  <2>12. QED
    BY <1>3, <2>11 DEF FieldsOf, SameFields, r
<1>4. QED
  BY <1>2, <1>3

\* e and f have the same fields, so they say the same.
LEMMA SaidButName ==
  ASSUME NEW b, NEW n, NEW s \in 1 .. 2, NEW e \in Shape(n, s), NEW f, SameButName(e, f)
  PROVE  FieldsOf(b, f, s) = FieldsOf(b, e, s)
<1>1. CASE s = 1
  <2>1. DOMAIN e = {"begin", "name", "qtype", "qclass"}
    BY <1>1 DEF Shape, Questions
  <2>2. f.qtype = e.qtype /\ f.qclass = e.qclass
    BY <2>1 DEF SameButName
  <2>3. QED
    BY <1>1, <2>2 DEF FieldsOf
<1>2. CASE s = 2
  <2>1. DOMAIN e = {"begin", "name", "qtype", "qclass", "ttl", "rdlength", "rdata"}
    BY <1>2 DEF Shape, Resources
  <2>2. /\ f.qtype = e.qtype /\ f.qclass = e.qclass /\ f.ttl = e.ttl
        /\ f.rdlength = e.rdlength /\ f.rdata = e.rdata
    BY <2>1 DEF SameButName
  <2>3. QED
    BY <1>2, <2>2 DEF FieldsOf
<1>3. QED
  BY <1>1, <1>2

-------------------------------------------------------------------------------
(* The names of a message, and a buffer that begins with it *)

\* The buffers differ at most in the two bytes at p.
SameBut(b, c, n, p) == \A r \in Nat : r < n /\ r # p /\ r # p + 1 => c[r] = b[r]

\* Label k is in the rdata of entry i, which is not rewritten, and if it is a pointer, it points
\* to behind none of the A records among the entries v to w.
InTarget(b, q, es, v, w, i, k) ==
  /\ q < i /\ U16(b, es[i].qtype) # TypeA
  /\ k \in Nat /\ b[k] \in Nat /\ es[i].rdata <= k
  /\ b[k] >= 192 =>
       /\ k + 2 <= EndOf(b, q, es, i)
       /\ \A j \in v .. w : U16(b, es[j].qtype) = TypeA => Offset(b, k) <= es[j].rdata
  /\ b[k] < 192 => b[k] <= 63 /\ k + b[k] + 1 <= EndOf(b, q, es, i)

\* The labels names are read from: those the packet keeps and those in rdata.
Standing(b, q, es, ls, v, w, k) ==
  \/ \E u \in 1 .. Len(ls) : ls[u] = k
  \/ \E i \in 1 .. Len(es) : InTarget(b, q, es, v, w, i, k)

\* The labels of a and of b that are the same, and those of b are read.
Paired(a, b, q, es, ls, v, w, R) ==
  /\ Mirrored(a, b, R)
  /\ \A l, k : <<l, k>> \in R => l \in DOMAIN a /\ Standing(b, q, es, ls, v, w, k)

\* The name at o, read up to end, is the same in both buffers.
LEMMA NameAgreed ==
  ASSUME NEW m \in Nat, NEW b \in Buffer(m), NEW n \in 0 .. m, NEW a \in Buffer(n), Agree(a, b, n),
         NEW o \in Nat, Named(b, o, NameLabels(b, o, n)),
         \A k \in 1 .. Len(NameLabels(b, o, n)) : NameLabels(b, o, n)[k] < n
  PROVE  NameLabels(a, o, n) = NameLabels(b, o, n) /\ Named(a, o, NameLabels(b, o, n))
<1> DEFINE ls == NameLabels(b, o, n)
<1>1. Named(b, o, ls) /\ \A k \in 1 .. Len(ls) : ls[k] < n
  OBVIOUS
<1> HIDE DEF ls
<1>2. ls \in Seq(Nat) /\ Len(ls) \in Nat /\ Len(ls) >= 1
  BY <1>1 DEF Named
<1>3. \A k \in 1 .. Len(ls) : b[ls[k]] = a[ls[k]]
  <2>1. TAKE k \in 1 .. Len(ls)
  <2>2. ls[k] \in Nat /\ ls[k] < n
    BY <1>1, <1>2, ElementOfSeq
  <2>3. QED
    BY <2>2 DEF Agree
<1>4. Named(a, o, ls)
  <2>1. Len(ls) \in 1 .. Len(ls)
    BY <1>2
  <2>2. a[ls[Len(ls)]] = 0 \/ a[ls[Len(ls)]] >= 192
    BY <1>1, <1>3, <2>1 DEF Named
  <2>3. \A i \in 1 .. Len(ls) - 1 : Plain(a, ls[i]) /\ ls[i + 1] = ls[i] + a[ls[i]] + 1
    <3>1. TAKE i \in 1 .. Len(ls) - 1
    <3>2. i \in 1 .. Len(ls)
      BY <1>2
    <3>3. a[ls[i]] = b[ls[i]]
      BY <1>3, <3>2
    <3>4. Plain(b, ls[i]) /\ ls[i + 1] = ls[i] + b[ls[i]] + 1
      BY <1>1 DEF Named
    <3>5. QED
      BY <3>3, <3>4 DEF Plain
  <2>4. QED
    BY <1>1, <2>2, <2>3 DEF Named
<1>5. NameLabels(a, o, n) = ls
  BY <1>1, <1>4, NamedUnique
<1>6. QED
  BY <1>4, <1>5 DEF ls

\* Label l of a, in front of z, is found in c.
Copied(a, c, l, z) ==
  /\ l \in Nat /\ a[l] \in Nat /\ z \in Nat
  /\ a[l] >= 192 => l + 2 <= z
  /\ a[l] < 192 => a[l] <= 63 /\ l + a[l] + 1 <= z
  /\ \A p \in Nat : l <= p /\ p < z => c[p] = a[p]

\* R relates the labels read behind label l with themselves.
Onward(a, R, l) ==
  /\ a[l] >= 192 => <<Offset(a, l), Offset(a, l)>> \in R
  /\ a[l] < 192 /\ a[l] # 0 => <<l + a[l] + 1, l + a[l] + 1>> \in R

\* Such a label is the same.
LEMMA CopiedSame ==
  ASSUME NEW m \in Nat, NEW c \in Buffer(m), NEW n \in 0 .. m, NEW a \in Buffer(n), NEW z, z <= n,
         NEW l, Copied(a, c, l, z), NEW R, Onward(a, R, l)
  PROVE  SameLabel(a, c, R, l, l)
<1> DEFINE s == a[l]
<1>1. /\ l \in Nat /\ s \in Nat /\ z \in Nat
      /\ s >= 192 => l + 2 <= z
      /\ s < 192 => s <= 63 /\ l + s + 1 <= z
      /\ \A p \in Nat : l <= p /\ p < z => c[p] = a[p]
  BY DEF Copied
<1>2. DOMAIN a = 0 .. n - 1 /\ DOMAIN c = 0 .. m - 1
  BY DEF Buffer
<1>3. s >= 192 => <<Offset(a, l), Offset(a, l)>> \in R
  BY DEF Onward
<1>4. s < 192 /\ s # 0 => <<l + s + 1, l + s + 1>> \in R
  BY DEF Onward
<1>5. ASSUME s >= 192
      PROVE  l + 1 \in DOMAIN a /\ l + 1 \in DOMAIN c /\ c[l] >= 192 /\ Offset(c, l) = Offset(a, l)
  <2> HIDE DEF s
  <2>1. l + 1 \in Nat /\ l + 1 < z /\ l < z /\ l <= l /\ l <= l + 1
    BY <1>1, <1>5
  <2>2. c[l] = a[l] /\ c[l + 1] = a[l + 1]
    BY <1>1, <2>1
  <2>3. l + 1 \in DOMAIN a /\ l + 1 \in DOMAIN c
    <3>1. l + 1 \in 0 .. n - 1 /\ l + 1 \in 0 .. m - 1
      BY <1>1, <2>1
    <3>2. QED
      BY <1>2, <3>1
  <2>4. QED
    BY <1>5, <2>2, <2>3 DEF Offset, U16, s
<1>6. ASSUME ~(s >= 192)
      PROVE  /\ s <= 63 /\ l + s \in DOMAIN a /\ l + s \in DOMAIN c
             /\ \A i \in 0 .. s : c[l + i] = a[l + i]
             /\ s # 0 => <<l + s + 1, l + s + 1>> \in R
  <2> HIDE DEF s
  <2>1. s < 192 /\ s <= 63 /\ l + s + 1 <= z
    BY <1>1, <1>6
  <2>2. l + s \in DOMAIN a /\ l + s \in DOMAIN c
    BY <1>1, <1>2, <2>1
  <2>3. ASSUME NEW i \in 0 .. s PROVE c[l + i] = a[l + i]
    <3>1. l + i \in Nat /\ l <= l + i /\ l + i < z
      BY <1>1, <2>1
    <3>2. QED
      BY <1>1, <3>1
  <2>4. QED
    BY <1>4, <2>1, <2>2, <2>3
<1>7. QED
  BY <1>1, <1>3, <1>5, <1>6, Zenon DEF SameLabel

\* l is a label of the name in the rdata of entry i, an NS or CNAME record.
InRdata(b, n, q, es, i, l) ==
  /\ q < i /\ HoldsName(U16(b, es[i].qtype))
  /\ \E k \in 1 .. Len(NameLabels(b, es[i].rdata, n)) : NameLabels(b, es[i].rdata, n)[k] = l

\* l is a label of a name of the message.
Labelled(b, n, q, es, l) ==
  \E i \in 1 .. Len(es) : HasLabel(b, n, es[i], l) \/ InRdata(b, n, q, es, i, l)

\* The names in rdata are whole and end where it does or before, and every pointer of a name
\* points to a label of one.
NamesWhole(b, n, q, es) ==
  /\ \A i \in 1 .. Len(es) :
       q < i /\ HoldsName(U16(b, es[i].qtype)) =>
         /\ Named(b, es[i].rdata, NameLabels(b, es[i].rdata, n))
         /\ NameEnd(b, es[i].rdata, n) <= EndOf(b, q, es, i)
  /\ \A l \in Nat : Labelled(b, n, q, es, l) /\ b[l] >= 192 => Labelled(b, n, q, es, Offset(b, l))

\* No name in rdata points behind one of the A records among the entries v to w.
NoneBehind(b, n, q, es, v, w) ==
  \A i \in 1 .. Len(es) : \A l \in Nat :
    InRdata(b, n, q, es, i, l) /\ b[l] >= 192 =>
      \A j \in v .. w : U16(b, es[j].qtype) = TypeA => Offset(b, l) <= es[j].rdata

\* Every label of a message, with itself.
Itself(b, n, q, es) == {x \in Nat \X Nat : x[1] = x[2] /\ Labelled(b, n, q, es, x[1])}

\* What is read behind label l of a name.
Behind(b, n, q, es, l) ==
  /\ b[l] >= 192 => Labelled(b, n, q, es, Offset(b, l)) /\ Offset(b, l) \in Nat
  /\ b[l] < 192 /\ b[l] # 0 => Labelled(b, n, q, es, l + b[l] + 1)

LEMMA BehindItself ==
  ASSUME NEW b, NEW n, NEW q, NEW es, NEW l \in Nat, b[l] \in Nat, Behind(b, n, q, es, l)
  PROVE  Onward(b, Itself(b, n, q, es), l)
<1> DEFINE R == Itself(b, n, q, es)
           o == Offset(b, l)
           k == l + b[l] + 1
<1>1. ASSUME NEW x \in Nat, Labelled(b, n, q, es, x) PROVE <<x, x>> \in R
  BY <1>1 DEF Itself
<1>2. k \in Nat
  OBVIOUS
<1> HIDE DEF R
<1>3. b[l] >= 192 => <<o, o>> \in R
  <2> HIDE DEF o
  <2>1. b[l] >= 192 => o \in Nat /\ Labelled(b, n, q, es, o)
    BY DEF Behind, o
  <2>2. QED
    BY <1>1, <2>1
<1>4. b[l] < 192 /\ b[l] # 0 => <<k, k>> \in R
  <2>1. b[l] < 192 /\ b[l] # 0 => Labelled(b, n, q, es, k)
    BY DEF Behind
  <2> HIDE DEF k
  <2>2. QED
    BY <1>1, <1>2, <2>1
<1>5. QED
  BY <1>3, <1>4 DEF Onward, R

\* An offset is a number.
LEMMA OffsetTyped ==
  ASSUME NEW m \in Nat, NEW b \in Buffer(m), NEW l \in Nat, l + 1 < m
  PROVE  Offset(b, l) \in Nat
<1>1. U16(b, l) \in Nat
  BY U16Word DEF Word
<1>2. 2^14 \in Nat /\ 2^14 > 0
  BY SMT
<1>3. QED
  BY <1>1, <1>2, SMT DEF Offset

\* What is known of a name's labels when it is whole.
LEMMA WholeLabel ==
  ASSUME NEW m \in Nat, NEW b \in Buffer(m), NEW n \in 0 .. m, NEW o \in Nat,
         Named(b, o, NameLabels(b, o, n)), NEW k \in 1 .. Len(NameLabels(b, o, n)), NEW z \in Nat,
         o < n, NameEnd(b, o, n) <= z, NameEnd(b, o, n) \in Nat
  PROVE  LET l == NameLabels(b, o, n)[k]
         IN /\ l \in Nat /\ b[l] \in Nat /\ o <= l
            /\ b[l] >= 192 => l + 2 <= z
            /\ b[l] < 192 => b[l] <= 63 /\ l + b[l] + 1 <= z
            /\ b[l] < 192 /\ b[l] # 0 =>
                 \E y \in 1 .. Len(NameLabels(b, o, n)) : NameLabels(b, o, n)[y] = l + b[l] + 1
<1> DEFINE ls == NameLabels(b, o, n)
           e == NameEnd(b, o, n)
           l == ls[k]
           s == b[l]
<1>1. Named(b, o, ls) /\ \A y \in 1 .. Len(ls) : ls[y] < n
  BY NameLabelsChained DEF Chained
<1>2. k \in 1 .. Len(ls) /\ e <= z /\ e \in Nat
  OBVIOUS
<1>3. Spanned(b, o, ls, k, e)
  <2> HIDE DEF ls, e
  <2>1. Spanned(b, o, ls, k, NameEnd(b, o, n))
    BY <1>1, <1>2, NamedSpan
  <2>2. QED
    BY <2>1 DEF e
<1> HIDE DEF ls, e
<1>4. /\ l \in Nat /\ s \in Nat /\ o <= l
      /\ s >= 192 => l + 2 <= e
      /\ s < 192 => s <= 63 /\ l + s + 1 <= e
      /\ s < 192 /\ s # 0 => k + 1 \in 1 .. Len(ls) /\ ls[k + 1] = l + s + 1
  BY <1>3, Zenon DEF Spanned
<1> HIDE DEF l, s
<1>5. (s >= 192 => l + 2 <= z) /\ (s < 192 => s <= 63 /\ l + s + 1 <= z)
  BY <1>2, <1>4
<1>6. s < 192 /\ s # 0 => \E y \in 1 .. Len(ls) : ls[y] = l + s + 1
  BY <1>4
<1>7. QED
  BY <1>4, <1>5, <1>6 DEF ls, l, s

\* Entry e is laid out in a as it is in b, under the same labels.
SameEntry(a, b, n, s, e) ==
  /\ EntryLaid(a, n, s, e)
  /\ EntryEnd(a, e, s) = EntryEnd(b, e, s)
  /\ \A l : HasLabel(a, n, e, l) <=> HasLabel(b, n, e, l)

\* What is laid out in the first n bytes of b is laid out in a, if these are all of a.
LEMMA EntryAgreed ==
  ASSUME NEW m \in Nat, NEW b \in Buffer(m), NEW n \in 0 .. m, NEW a \in Buffer(n), Agree(a, b, n),
         NEW s, NEW e, EntryLaid(b, n, s, e)
  PROVE  SameEntry(a, b, n, s, e)
<1> DEFINE o == e.begin
           ls == NameLabels(b, o, n)
           z == Last(ls)
<1>1. /\ e \in Shape(n, s)
      /\ Named(b, o, ls)
      /\ \A l : HasLabel(b, n, e, l) => l < n
      /\ e.qtype = NameEnd(b, o, n)
      /\ EntryEnd(b, e, s) <= n
  BY DEF EntryLaid
<1>2. o \in Nat
  BY <1>1, ShapeFields
<1>3. \A k \in 1 .. Len(ls) : ls[k] < n
  BY <1>1 DEF HasLabel
<1>4. NameLabels(a, o, n) = ls /\ Named(a, o, ls)
  BY <1>1, <1>2, <1>3, NameAgreed
<1> HIDE DEF ls
<1>5. a[z] = b[z] /\ ls # <<>>
  <2>1. ls \in Seq(Nat) /\ Len(ls) \in Nat /\ Len(ls) >= 1
    BY <1>1 DEF Named
  <2>2. Len(ls) \in 1 .. Len(ls)
    BY <2>1
  <2>3. ls[Len(ls)] \in Nat /\ ls[Len(ls)] < n
    BY <1>3, <2>1, <2>2, ElementOfSeq
  <2>4. z = ls[Len(ls)]
    BY DEF Last
  <2>5. QED
    BY <2>1, <2>3, <2>4 DEF Agree
<1>6. NameEnd(a, o, n) = NameEnd(b, o, n)
  <2>1. NameEnd(a, o, n) = z + LabelSize(a, z) /\ NameEnd(b, o, n) = z + LabelSize(b, z)
    BY <1>4, <1>5, Zenon DEF NameEnd, ls
  <2>2. LabelSize(a, z) = LabelSize(b, z)
    BY <1>5 DEF LabelSize, IsPointer
  <2>3. QED
    BY <2>1, <2>2
<1>7. EntryEnd(a, e, s) = EntryEnd(b, e, s)
  <2>1. CASE s = 1
    BY <2>1 DEF EntryEnd
  <2>2. CASE s # 1
    <3> DEFINE x == e.rdlength
    <3>1. x \in Nat /\ x + 1 < n
      BY <1>1, <2>2, ShapeFields
    <3> HIDE DEF x
    <3>2. x < n /\ x + 1 \in Nat
      BY <3>1
    <3>3. b[x] = a[x] /\ b[x + 1] = a[x + 1]
      BY <3>1, <3>2 DEF Agree
    <3>4. U16(a, x) = U16(b, x)
      BY <3>3 DEF U16
    <3>5. QED
      BY <3>4 DEF EntryEnd, x
  <2>3. QED
    BY <2>1, <2>2
<1>8. \A l : HasLabel(a, n, e, l) <=> HasLabel(b, n, e, l)
  BY <1>4 DEF HasLabel, ls
<1>9. QED
  BY <1>1, <1>4, <1>6, <1>7, <1>8 DEF SameEntry, EntryLaid, ls

\* So is the whole message.
LEMMA MessageAgreed ==
  ASSUME NEW m \in Nat, NEW b \in Buffer(m), NEW n \in 0 .. m, NEW a \in Buffer(n), Agree(a, b, n),
         NEW q, NEW es, NEW stop, Tiled(b, n, q, es, stop), NEW ls, Listed(b, n, es, ls)
  PROVE  Tiled(a, n, q, es, stop) /\ Listed(a, n, es, ls)
<1>1. \A i \in 1 .. Len(es) : SameEntry(a, b, n, Kind(q, i), es[i])
  BY EntryAgreed DEF Tiled
<1>2. \A i \in 1 .. Len(es) : EntryLaid(a, n, Kind(q, i), es[i])
                             /\ EndOf(a, q, es, i) = EndOf(b, q, es, i)
  BY <1>1 DEF SameEntry, EndOf
<1>3. \A i \in 1 .. Len(es) : \A l : HasLabel(a, n, es[i], l) <=> HasLabel(b, n, es[i], l)
  BY <1>1 DEF SameEntry
<1>4. QED
  BY <1>2, <1>3, Zenon DEF Tiled, Listed

\* The name in the rdata of entry i is whole and ends in front of it.
TargetWhole(a, n, q, es, i) ==
  LET o == es[i].rdata
  IN /\ o \in Nat /\ o < n /\ Named(a, o, NameLabels(a, o, n))
     /\ NameEnd(a, o, n) \in Nat /\ NameEnd(a, o, n) <= EndOf(a, q, es, i)

LEMMA TargetNamed ==
  ASSUME NEW n \in Nat, NEW a \in Buffer(n), NEW q \in Nat, NEW es, Len(es) \in Nat,
         NEW stop \in Nat, Tiled(a, n, q, es, stop), NamesWhole(a, n, q, es),
         NEW i \in 1 .. Len(es), q < i, HoldsName(U16(a, es[i].qtype))
  PROVE  TargetWhole(a, n, q, es, i)
<1> DEFINE o == es[i].rdata
           ls == NameLabels(a, o, n)
           z == ls[Len(ls)]
<1>1. n \in 0 .. n
  OBVIOUS
<1>2. Named(a, o, ls) /\ NameEnd(a, o, n) <= EndOf(a, q, es, i)
  BY DEF NamesWhole
<1>3. o \in Nat
  <2> HIDE DEF o, ls, z
  <2>1. i \in Nat /\ ~(i <= q)
    OBVIOUS
  <2>2. Kind(q, i) = 2
    BY <2>1 DEF Kind
  <2>3. es[i] \in Shape(n, 2)
    BY <2>2 DEF Tiled, EntryLaid
  <2> DEFINE e == es[i]
  <2> HIDE DEF e
  <2>4. e.qtype \in Nat /\ e.rdata = e.qtype + 10
    BY <2>3, ResourceShape DEF e
  <2>5. e.rdata \in Nat
    BY <2>4
  <2>6. QED
    BY <2>5 DEF e, o
<1>4. ls # <<>>
  <2> HIDE DEF ls
  <2>1. ls \in Seq(Nat) /\ Len(ls) >= 1
    BY <1>2 DEF Named
  <2>2. QED
    BY <2>1
<1>5. o < n
  <2>1. SUFFICES ASSUME ~(o < n) PROVE FALSE
    OBVIOUS
  <2>2. o >= n
    BY <1>3, <2>1
  <2>3. ls = <<>>
    BY <1>1, <1>3, <2>2, NameLabelsDef
  <2>4. QED
    BY <1>4, <2>3
<1>6. \A k \in 1 .. Len(ls) : ls[k] < n
  BY <1>1, <1>3, <1>5, NameLabelsChained DEF Chained
<1> HIDE DEF ls
<1>7. z \in Nat
  <2>1. ls \in Seq(Nat) /\ Len(ls) \in Nat /\ Len(ls) >= 1
    BY <1>2 DEF Named
  <2>2. Len(ls) \in 1 .. Len(ls)
    BY <2>1
  <2>3. QED
    BY <2>1, <2>2, ElementOfSeq
<1>8. NameEnd(a, o, n) \in Nat
  <2>1. /\ a[ls[Len(ls)]] >= 192 => NameEnd(a, o, n) = ls[Len(ls)] + 2
        /\ a[ls[Len(ls)]] < 192 => NameEnd(a, o, n) = ls[Len(ls)] + 1
    BY <1>1, <1>2, <1>3, <1>6, NamedEnd
  <2>2. a[z] \in Nat
    <3>1. Len(ls) \in 1 .. Len(ls)
      BY <1>2 DEF Named
    <3>2. z < n
      BY <1>6, <3>1
    <3>3. QED
      BY <1>7, <3>2, ByteAt
  <2> HIDE DEF z
  <2>3. z \in Nat /\ a[z] \in Nat
    BY <1>7, <2>2
  <2>4. /\ a[z] >= 192 => NameEnd(a, o, n) = z + 2
        /\ a[z] < 192 => NameEnd(a, o, n) = z + 1
    BY <2>1 DEF z
  <2>5. QED
    BY <2>3, <2>4
<1>9. QED
  BY <1>2, <1>3, <1>5, <1>8, Zenon DEF TargetWhole, ls

\* Label l of a name of a, in front of z, with all behind it.
LabelWhole(a, n, q, es, l, z) ==
  /\ l \in Nat /\ a[l] \in Nat /\ z \in Nat /\ l < n
  /\ a[l] >= 192 => l + 2 <= z
  /\ a[l] < 192 => a[l] <= 63 /\ l + a[l] + 1 <= z
  /\ Behind(a, n, q, es, l)

\* The labels of whole names are such labels,
LEMMA NameLaid ==
  ASSUME NEW n \in Nat, NEW a \in Buffer(n), NEW q, NEW es, NamesWhole(a, n, q, es),
         NEW o \in Nat, o < n, Named(a, o, NameLabels(a, o, n)), NEW z \in Nat, z <= n,
         NameEnd(a, o, n) \in Nat, NameEnd(a, o, n) <= z,
         \A k \in 1 .. Len(NameLabels(a, o, n)) : Labelled(a, n, q, es, NameLabels(a, o, n)[k]),
         NEW k \in 1 .. Len(NameLabels(a, o, n))
  PROVE  LabelWhole(a, n, q, es, NameLabels(a, o, n)[k], z)
<1> DEFINE ls == NameLabels(a, o, n)
           l == ls[k]
           s == a[l]
<1>1. n \in 0 .. n
  OBVIOUS
<1>2. /\ l \in Nat /\ s \in Nat /\ o <= l
      /\ s >= 192 => l + 2 <= z
      /\ s < 192 => s <= 63 /\ l + s + 1 <= z
      /\ s < 192 /\ s # 0 => \E y \in 1 .. Len(ls) : ls[y] = l + s + 1
  BY <1>1, WholeLabel
<1>3. l < n
  BY <1>1, NameLabelsChained DEF Chained
<1>4. Labelled(a, n, q, es, l)
  OBVIOUS
<1>5. \A y \in 1 .. Len(ls) : Labelled(a, n, q, es, ls[y])
  OBVIOUS
<1> HIDE DEF ls, l
<1>6. s >= 192 => Labelled(a, n, q, es, Offset(a, l)) /\ Offset(a, l) \in Nat
  <2>1. SUFFICES ASSUME s >= 192 PROVE Labelled(a, n, q, es, Offset(a, l)) /\ Offset(a, l) \in Nat
    OBVIOUS
  <2>2. Labelled(a, n, q, es, Offset(a, l))
    BY <1>2, <1>4, <2>1 DEF NamesWhole
  <2>3. l + 1 < n
    BY <1>2, <2>1
  <2>4. QED
    BY <1>2, <2>2, <2>3, OffsetTyped
<1>7. s < 192 /\ s # 0 => Labelled(a, n, q, es, l + s + 1)
  BY <1>2, <1>5
<1>8. Behind(a, n, q, es, l)
  BY <1>6, <1>7, Zenon DEF Behind
<1>9. LabelWhole(a, n, q, es, l, z)
  BY <1>2, <1>3, <1>8, Zenon DEF LabelWhole
<1>10. QED
  BY <1>9 DEF l, ls

\* p is in entry i, in its name if it is the first.
InEntry(a, q, es, i, p) ==
  es[i].begin <= p /\ (p < es[i].qtype \/ (i # 1 /\ p < EndOf(a, q, es, i)))

InEntrySame(a, c, q, es, i) == \A p \in Nat : InEntry(a, q, es, i, p) => c[p] = a[p]

\* Setting the type of the question changes no name and no other record.
LEMMA Unwritten ==
  ASSUME NEW n \in Nat, NEW a \in Buffer(n), NEW c, NEW q \in Nat, q >= 1, NEW es, Len(es) \in Nat,
         NEW stop \in Nat, stop <= n, Tiled(a, n, q, es, stop), SameBut(a, c, n, es[1].qtype),
         NEW i \in 1 .. Len(es)
  PROVE  InEntrySame(a, c, q, es, i)
<1> SUFFICES ASSUME NEW p \in Nat, InEntry(a, q, es, i, p) PROVE c[p] = a[p]
  BY DEF InEntrySame
<1> DEFINE x == es[i].begin
           y == es[i].qtype
           z == EndOf(a, q, es, i)
           qt == es[1].qtype
           end == EndOf(a, q, es, 1)
<1>1. n \in 0 .. n /\ 1 \in 1 .. Len(es)
  OBVIOUS
<1>2. x \in Nat /\ y \in Nat /\ z \in Nat /\ x < y /\ y + 4 <= z /\ z <= stop
  BY <1>1, EndWithin
<1>3. qt \in Nat /\ end \in Nat /\ qt + 4 <= end
  BY <1>1, EndWithin
<1>4. i # 1 => end <= x
  <2>1. SUFFICES ASSUME i # 1 PROVE end <= x
    OBVIOUS
  <2>2. 1 < i
    BY <2>1
  <2>3. QED
    BY <1>1, <2>2, FieldsApart
<1>5. i = 1 => y = qt
  OBVIOUS
<1>6. p < y \/ (i # 1 /\ p < z)
  BY DEF InEntry
<1>7. x <= p
  BY DEF InEntry
<1> HIDE DEF x, y, z, qt, end
<1>8. p < n /\ p # qt /\ p # qt + 1
  BY <1>2, <1>3, <1>4, <1>5, <1>6, <1>7
<1>9. QED
  BY <1>8 DEF SameBut, qt

\* Record i has in c the type and the end it has in a.
SameRecord(a, c, q, es, i) ==
  U16(c, es[i].qtype) = U16(a, es[i].qtype) /\ EndOf(c, q, es, i) = EndOf(a, q, es, i)

LEMMA RecordUnwritten ==
  ASSUME NEW n \in Nat, NEW a \in Buffer(n), NEW c, NEW q \in Nat, q >= 1, NEW es, Len(es) \in Nat,
         NEW stop \in Nat, stop <= n, Tiled(a, n, q, es, stop), SameBut(a, c, n, es[1].qtype),
         NEW i \in 1 .. Len(es), q < i
  PROVE  SameRecord(a, c, q, es, i)
<1> DEFINE x == es[i].begin
           y == es[i].qtype
           z == EndOf(a, q, es, i)
<1>0. InEntrySame(a, c, q, es, i)
  BY Unwritten
<1>1. n \in 0 .. n
  OBVIOUS
<1>2. x \in Nat /\ y \in Nat /\ z \in Nat /\ x < y
  BY <1>1, EndWithin
<1>3. es[i].rdlength = y + 8 /\ es[i].rdata = y + 10 /\ U16(a, es[i].rdlength) \in Nat
      /\ z = es[i].rdata + U16(a, es[i].rdlength)
  BY <1>1, ResourceFields
<1>4. ASSUME NEW p \in Nat, y <= p, p < z PROVE c[p] = a[p]
  <2>1. x <= p
    BY <1>2, <1>4
  <2>2. InEntry(a, q, es, i, p)
    BY <1>4, <2>1 DEF InEntry
  <2>3. QED
    BY <2>2, <1>0 DEF InEntrySame
<1> DEFINE r == U16(a, es[i].rdlength)
<1>5. z = y + 10 + r /\ r \in Nat
  BY <1>2, <1>3
<1>6. c[y] = a[y] /\ c[y + 1] = a[y + 1] /\ c[y + 8] = a[y + 8] /\ c[y + 9] = a[y + 9]
  <2> HIDE DEF x, y, z, r
  <2>1. \A k \in {0, 1, 8, 9} : y + k \in Nat /\ y <= y + k /\ y + k < z
    BY <1>2, <1>5
  <2>2. \A k \in {0, 1, 8, 9} : c[y + k] = a[y + k]
    BY <1>4, <2>1
  <2>3. c[y + 0] = a[y + 0] /\ c[y + 1] = a[y + 1] /\ c[y + 8] = a[y + 8] /\ c[y + 9] = a[y + 9]
    BY <2>2
  <2>4. y + 0 = y
    BY <1>2
  <2>5. QED
    BY <2>3, <2>4
<1>7. U16(c, y) = U16(a, y)
  BY <1>6 DEF U16
<1>8. U16(c, es[i].rdlength) = U16(a, es[i].rdlength)
  <2> HIDE DEF y
  <2>1. (y + 8) + 1 = y + 9
    BY <1>2
  <2>2. U16(c, y + 8) = U16(a, y + 8)
    BY <1>6, <2>1 DEF U16
  <2>3. QED
    BY <1>3, <2>2
<1>9. EndOf(c, q, es, i) = EndOf(a, q, es, i)
  BY <1>8 DEF EndOf, EntryEnd
<1>10. QED
  BY <1>7, <1>9 DEF SameRecord

\* Labels of the names in front of records
LEMMA OwnerBegun ==
  ASSUME NEW m \in Nat, NEW c \in Buffer(m), NEW n \in 0 .. m, NEW a \in Buffer(n),
         NEW q \in Nat, q >= 1, NEW es, Len(es) \in Nat,
         NEW stop \in Nat, stop <= n, Tiled(a, n, q, es, stop), NamesWhole(a, n, q, es),
         SameBut(a, c, n, es[1].qtype), NEW i \in 1 .. Len(es), NEW l, HasLabel(a, n, es[i], l)
  PROVE  SameLabel(a, c, Itself(a, n, q, es), l, l) /\ l \in DOMAIN a
<1> DEFINE x == es[i].begin
           y == es[i].qtype
           ls == NameLabels(a, x, n)
<1>0. InEntrySame(a, c, q, es, i)
  BY Unwritten
<1>1. n \in Nat /\ n \in 0 .. n
  OBVIOUS
<1>2. x \in Nat /\ y \in Nat /\ x < y /\ y <= n
  <2> DEFINE z == EndOf(a, q, es, i)
  <2>1. x \in Nat /\ y \in Nat /\ z \in Nat /\ x < y /\ y + 4 <= z /\ z <= stop
    BY <1>1, EndWithin
  <2> HIDE DEF x, y, z
  <2>2. QED
    BY <2>1
<1>3. Named(a, x, ls) /\ y = NameEnd(a, x, n)
  BY DEF Tiled, EntryLaid
<1>4. PICK k \in 1 .. Len(ls) : ls[k] = l
  BY DEF HasLabel
<1>5. \A j \in 1 .. Len(ls) : Labelled(a, n, q, es, ls[j])
  BY DEF Labelled, HasLabel
<1>6. x < n
  BY <1>2
<1>7. LabelWhole(a, n, q, es, l, y)
  <2> HIDE DEF x, y
  <2>1. LabelWhole(a, n, q, es, NameLabels(a, x, n)[k], y)
    <3>1. NameEnd(a, x, n) \in Nat /\ NameEnd(a, x, n) <= y
      BY <1>2, <1>3
    <3>2. QED
      BY <1>1, <1>2, <1>3, <1>4, <1>5, <1>6, <3>1, NameLaid
  <2>2. QED
    BY <1>4, <2>1
<1>8. x <= l
  <2>1. EntryLaid(a, n, Kind(q, i), es[i])
    BY DEF Tiled
  <2>2. QED
    BY <1>1, <2>1, LabelInside
<1>9. \A p \in Nat : l <= p /\ p < y => c[p] = a[p]
  <2>1. SUFFICES ASSUME NEW p \in Nat, l <= p, p < y PROVE c[p] = a[p]
    OBVIOUS
  <2>2. x <= p
    <3>1. l \in Nat
      BY <1>7 DEF LabelWhole
    <3> HIDE DEF x
    <3>2. QED
      BY <1>2, <1>8, <2>1, <3>1
  <2>3. InEntry(a, q, es, i, p)
    BY <2>1, <2>2 DEF InEntry
  <2>4. QED
    BY <1>0, <2>3 DEF InEntrySame
<1>10. Copied(a, c, l, y)
  BY <1>7, <1>9 DEF Copied, LabelWhole
<1>11. Onward(a, Itself(a, n, q, es), l)
  BY <1>7, BehindItself DEF LabelWhole
<1>12. l \in DOMAIN a
  <2>1. l \in Nat /\ l < n
    BY <1>7 DEF LabelWhole
  <2>2. l \in 0 .. n - 1
    BY <2>1
  <2>3. QED
    BY <2>2 DEF Buffer
<1> HIDE DEF x, y
<1>13. QED
  BY <1>2, <1>10, <1>11, <1>12, CopiedSame

\* and of those in their rdata,
LEMMA TargetBegun ==
  ASSUME NEW m \in Nat, NEW c \in Buffer(m), NEW n \in 0 .. m, NEW a \in Buffer(n),
         NEW q \in Nat, q >= 1, NEW es, Len(es) \in Nat,
         NEW stop \in Nat, stop <= n, Tiled(a, n, q, es, stop), NamesWhole(a, n, q, es),
         SameBut(a, c, n, es[1].qtype), NEW i \in 1 .. Len(es), NEW l, InRdata(a, n, q, es, i, l),
         NEW v \in Nat, NEW w \in Nat, q < v, w <= Len(es), NoneBehind(a, n, q, es, v, w)
  PROVE  /\ SameLabel(a, c, Itself(a, n, q, es), l, l) /\ l \in DOMAIN a
         /\ InTarget(c, q, es, v, w, i, l)
<1> DEFINE o == es[i].rdata
           z == EndOf(a, q, es, i)
           ls == NameLabels(a, o, n)
<1>0. InEntrySame(a, c, q, es, i)
  BY Unwritten
<1>1. n \in Nat /\ n \in 0 .. n
  OBVIOUS
<1>2. q < i /\ HoldsName(U16(a, es[i].qtype))
  BY DEF InRdata
<1>3. TargetWhole(a, n, q, es, i)
  BY <1>2, TargetNamed
<1>4. o \in Nat /\ o < n /\ Named(a, o, ls) /\ NameEnd(a, o, n) \in Nat /\ NameEnd(a, o, n) <= z
  BY <1>3 DEF TargetWhole
<1>5. z \in Nat /\ z <= n
  <2>1. z \in Nat /\ z <= stop
    BY <1>1, EndWithin
  <2> HIDE DEF z
  <2>2. QED
    BY <2>1
<1>6. PICK k \in 1 .. Len(ls) : ls[k] = l
  BY DEF InRdata
<1>7. \A j \in 1 .. Len(ls) : Labelled(a, n, q, es, ls[j])
  BY <1>2 DEF Labelled, InRdata
<1>8. LabelWhole(a, n, q, es, l, z)
  <2> HIDE DEF o, z
  <2>1. LabelWhole(a, n, q, es, NameLabels(a, o, n)[k], z)
    BY <1>1, <1>4, <1>5, <1>6, <1>7, NameLaid
  <2>2. QED
    BY <1>6, <2>1
<1>9. /\ l \in Nat /\ a[l] \in Nat /\ l < n
      /\ a[l] >= 192 => l + 2 <= z
      /\ a[l] < 192 => a[l] <= 63 /\ l + a[l] + 1 <= z
  BY <1>8 DEF LabelWhole
<1>10. o <= l
  <2>1. o <= ls[k]
    <3> HIDE DEF z
    <3>1. n \in 0 .. n
      BY <1>1
    <3>2. QED
      BY <1>4, <1>5, <1>6, <3>1, WholeLabel
  <2>2. QED
    BY <1>6, <2>1
<1>11. es[i].begin <= o
  <2>1. es[i].begin \in Nat /\ es[i].qtype \in Nat /\ es[i].begin < es[i].qtype
    BY <1>1, EndWithin
  <2>2. o = es[i].qtype + 10
    BY <1>1, <1>2, ResourceFields
  <2>3. QED
    BY <2>1, <2>2
<1>12. \A p \in Nat : l <= p /\ p < z => c[p] = a[p]
  <2>1. SUFFICES ASSUME NEW p \in Nat, l <= p, p < z PROVE c[p] = a[p]
    OBVIOUS
  <2>2. es[i].begin <= p
    <3> DEFINE x == es[i].begin
    <3>1. x \in Nat /\ x <= o
      BY <1>1, <1>11, EndWithin
    <3> HIDE DEF x, o
    <3>2. x <= p
      BY <1>4, <1>9, <1>10, <2>1, <3>1
    <3>3. QED
      BY <3>2 DEF x
  <2>3. InEntry(a, q, es, i, p)
    BY <1>2, <2>1, <2>2 DEF InEntry
  <2>4. QED
    BY <1>0, <2>3 DEF InEntrySame
<1>13. Copied(a, c, l, z)
  BY <1>5, <1>9, <1>12 DEF Copied
<1>14. Onward(a, Itself(a, n, q, es), l)
  BY <1>8, BehindItself DEF LabelWhole
<1>15. l \in DOMAIN a
  <2>1. l \in 0 .. n - 1
    BY <1>9
  <2>2. QED
    BY <2>1 DEF Buffer
<1>16. SameLabel(a, c, Itself(a, n, q, es), l, l)
  <2> HIDE DEF z
  <2>1. QED
    BY <1>5, <1>13, <1>14, CopiedSame
<1>17. c[l] = a[l] /\ (a[l] >= 192 => Offset(c, l) = Offset(a, l))
  <2>1. CASE a[l] >= 192
    <3> HIDE DEF z
    <3>1. l < z /\ l + 1 < z /\ l + 1 \in Nat /\ l <= l + 1 /\ l <= l
      BY <1>5, <1>9, <2>1
    <3>2. c[l] = a[l] /\ c[l + 1] = a[l + 1]
      BY <1>9, <1>12, <3>1
    <3>3. QED
      BY <3>2 DEF Offset, U16
  <2>2. CASE ~(a[l] >= 192)
    <3> DEFINE s == a[l]
    <3> HIDE DEF z
    <3>1. s \in Nat /\ ~(s >= 192) /\ (s < 192 => l + s + 1 <= z) /\ l \in Nat
      BY <1>9, <2>2, Zenon
    <3> HIDE DEF s
    <3>2. l < z /\ l <= l
      BY <1>5, <3>1
    <3>3. QED
      BY <1>9, <1>12, <2>2, <3>2
  <2>3. QED
    BY <2>1, <2>2
<1>18. SameRecord(a, c, q, es, i)
  BY <1>2, RecordUnwritten
<1>19. U16(c, es[i].qtype) # TypeA
  <2>1. U16(c, es[i].qtype) = U16(a, es[i].qtype)
    BY <1>18 DEF SameRecord
  <2>2. QED
    BY <1>2, <2>1 DEF HoldsName, TypeNS, TypeCNAME, TypeA
<1>20. ASSUME a[l] >= 192, NEW j \in v .. w, U16(c, es[j].qtype) = TypeA
       PROVE  Offset(c, l) <= es[j].rdata
  <2>1. j \in 1 .. Len(es) /\ q < j
    OBVIOUS
  <2>2. SameRecord(a, c, q, es, j)
    BY <2>1, RecordUnwritten
  <2>3. U16(a, es[j].qtype) = TypeA
    BY <1>20, <2>2 DEF SameRecord
  <2>4. Offset(a, l) <= es[j].rdata
    BY <1>9, <1>20, <2>3 DEF NoneBehind
  <2>5. QED
    BY <1>17, <1>20, <2>4
<1>21. InTarget(c, q, es, v, w, i, l)
  <2>1. EndOf(c, q, es, i) = z
    BY <1>18 DEF SameRecord
  <2>2. c[l] = a[l]
    BY <1>17
  <2>3. \A j \in v .. w : a[l] >= 192 /\ U16(c, es[j].qtype) = TypeA => Offset(c, l) <= es[j].rdata
    BY <1>20
  <2> HIDE DEF z
  <2>4. QED
    BY <1>2, <1>9, <1>10, <1>19, <2>1, <2>2, <2>3, Zenon DEF InTarget
<1>22. QED
  BY <1>15, <1>16, <1>21

\* so that the names are read as they were received.
LEMMA Begun ==
  ASSUME NEW m \in Nat, NEW c \in Buffer(m), NEW n \in 0 .. m, NEW a \in Buffer(n),
         NEW q \in Nat, q >= 1, NEW es, Len(es) \in Nat,
         NEW stop \in Nat, stop <= n, Tiled(a, n, q, es, stop), NamesWhole(a, n, q, es),
         SameBut(a, c, n, es[1].qtype), NEW ls, Listed(a, n, es, ls),
         NEW v \in Nat, NEW w \in Nat, q < v, w <= Len(es), NoneBehind(a, n, q, es, v, w)
  PROVE  Paired(a, c, q, es, ls, v, w, Itself(a, n, q, es))
<1> DEFINE R == Itself(a, n, q, es)
<1>1. ASSUME NEW l, Labelled(a, n, q, es, l), l \in Nat
      PROVE  SameLabel(a, c, R, l, l) /\ l \in DOMAIN a /\ Standing(c, q, es, ls, v, w, l)
  <2>1. PICK i \in 1 .. Len(es) : HasLabel(a, n, es[i], l) \/ InRdata(a, n, q, es, i, l)
    BY <1>1 DEF Labelled
  <2>2. CASE HasLabel(a, n, es[i], l)
    <3>1. SameLabel(a, c, R, l, l) /\ l \in DOMAIN a
      BY <2>2, OwnerBegun
    <3>2. \E u \in 1 .. Len(ls) : ls[u] = l
      BY <1>1, <2>2 DEF Listed
    <3>3. QED
      BY <3>1, <3>2 DEF Standing
  <2>3. CASE InRdata(a, n, q, es, i, l)
    <3>1. SameLabel(a, c, R, l, l) /\ l \in DOMAIN a /\ InTarget(c, q, es, v, w, i, l)
      BY <2>3, TargetBegun
    <3>2. QED
      BY <3>1 DEF Standing
  <2>4. QED
    BY <2>1, <2>2, <2>3
<1>2. \A l, k : <<l, k>> \in R => l = k /\ l \in Nat /\ Labelled(a, n, q, es, l)
  BY DEF Itself
<1> HIDE DEF R
<1>3. \A l, k : <<l, k>> \in R => /\ SameLabel(a, c, R, l, k) /\ l \in DOMAIN a
                                  /\ Standing(c, q, es, ls, v, w, k)
  <2>1. SUFFICES ASSUME NEW l, NEW k, <<l, k>> \in R
                 PROVE  /\ SameLabel(a, c, R, l, k) /\ l \in DOMAIN a
                        /\ Standing(c, q, es, ls, v, w, k)
    OBVIOUS
  <2>2. k = l /\ l \in Nat /\ Labelled(a, n, q, es, l)
    BY <1>2, <2>1
  <2>3. SameLabel(a, c, R, l, l) /\ l \in DOMAIN a /\ Standing(c, q, es, ls, v, w, l)
    BY <1>1, <2>2
  <2>4. QED
    BY <2>2, <2>3
<1>4. QED
  BY <1>3 DEF Paired, Mirrored, R

\* The entries say what they said,
LEMMA FieldsBegun ==
  ASSUME NEW n \in Nat, NEW a \in Buffer(n), NEW c, NEW q \in Nat, q >= 1, NEW es, Len(es) \in Nat,
         NEW stop \in Nat, stop <= n, Tiled(a, n, q, es, stop), SameBut(a, c, n, es[1].qtype),
         NEW i \in 1 .. Len(es), i # 1
  PROVE  SameFields(a, c, Kind(q, i), es[i], es[i])
<1> DEFINE e == es[i]
           s == Kind(q, i)
<1>0. InEntrySame(a, c, q, es, i)
  BY Unwritten
<1>1. n \in 0 .. n
  OBVIOUS
<1>2. e \in Shape(n, s) /\ s \in 1 .. 2 /\ 0 \in Nat
  BY DEF Tiled, EntryLaid, Kind
<1>3. e.qtype = e.qtype + 0 /\ e.begin \in Nat /\ e.qtype \in Nat /\ e.begin < e.qtype
  <2>1. e.begin \in Nat /\ e.qtype \in Nat /\ e.begin < e.qtype
    BY <1>1, EndWithin
  <2>2. QED
    BY <2>1
<1>4. s # 1 => U16(a, e.rdlength) \in Nat
  <2>1. SUFFICES ASSUME s # 1 PROVE U16(a, e.rdlength) \in Nat
    OBVIOUS
  <2>2. q < i
    BY <2>1 DEF Kind
  <2>3. QED
    BY <1>1, <2>2, ResourceFields
<1>5. ASSUME NEW p \in Nat, e.qtype <= p, p < EntryEnd(a, e, s)
      PROVE  KeptAt(a, c, p, 0)
  <2>1. e.begin <= p
    BY <1>3, <1>5
  <2>2. InEntry(a, q, es, i, p)
    BY <1>5, <2>1 DEF InEntry, EndOf
  <2>3. c[p] = a[p]
    BY <1>0, <2>2 DEF InEntrySame
  <2>4. p + 0 = p
    OBVIOUS
  <2>5. QED
    BY <2>3, <2>4 DEF KeptAt
<1>6. FieldsKept(a, c, s, e, e, 0)
  BY <1>3, <1>4, <1>5 DEF FieldsKept
<1> HIDE DEF e, s
<1>7. SameFields(a, c, s, e, e)
  BY <1>2, <1>6, FieldsCarried
<1>8. QED
  BY <1>7 DEF e, s

\* What is said by a question for AAAA records that is like r otherwise.
ForAAAA(r) == [type |-> TypeAAAA, class |-> r.class, ttl |-> r.ttl, data |-> r.data]

\* The question e of a asks for them in c.
AsksAAAA(c, e) == U16(c, e.qtype) = TypeAAAA

AskedAnew(a, c, e) == FieldsOf(c, e, 1) = ForAAAA(FieldsOf(a, e, 1))

\* and the question asks for AAAA records.
LEMMA QuestionBegun ==
  ASSUME NEW n \in Nat, NEW a \in Buffer(n), NEW c, NEW q \in Nat, q >= 1, NEW es, Len(es) \in Nat,
         1 <= Len(es), NEW stop \in Nat, stop <= n, Tiled(a, n, q, es, stop),
         SameBut(a, c, n, es[1].qtype), AsksAAAA(c, es[1])
  PROVE  AskedAnew(a, c, es[1])
<1> DEFINE e == es[1]
           x == e.qtype
<1>1. n \in 0 .. n /\ 1 \in 1 .. Len(es) /\ Kind(q, 1) = 1
  BY DEF Kind
<1>2. e \in Shape(n, 1)
  BY <1>1 DEF Tiled, EntryLaid
<1>3. x \in Nat /\ e.qclass = x + 2 /\ x + 4 <= n
  BY <1>2, ShapeFields
<1>4. U16(c, e.qclass) = U16(a, e.qclass)
  <2> HIDE DEF x
  <2>1. \A k \in {2, 3} : x + k \in Nat /\ x + k < n /\ x + k # x /\ x + k # x + 1
    BY <1>3
  <2>2. \A k \in {2, 3} : c[x + k] = a[x + k]
    BY <2>1 DEF SameBut, x
  <2>3. c[x + 2] = a[x + 2] /\ c[x + 3] = a[x + 3] /\ (x + 2) + 1 = x + 3
    BY <1>3, <2>2
  <2>4. U16(c, x + 2) = U16(a, x + 2)
    BY <2>3 DEF U16
  <2>5. QED
    BY <1>3, <2>4
<1> DEFINE r == FieldsOf(a, e, 1)
           w == FieldsOf(c, e, 1)
           class == U16(a, e.qclass)
<1>5. /\ r = [type |-> U16(a, x), class |-> class, ttl |-> <<>>, data |-> <<>>]
      /\ w = [type |-> TypeAAAA, class |-> class, ttl |-> <<>>, data |-> <<>>]
  BY <1>4 DEF FieldsOf, AsksAAAA
<1> HIDE DEF e, r, w, class
<1>6. ForAAAA(r) = w
  <2>1. r.class = class /\ r.ttl = <<>> /\ r.data = <<>>
    BY <1>5
  <2>2. QED
    BY <1>5, <2>1 DEF ForAAAA
<1>7. QED
  BY <1>6 DEF e, r, w, AskedAnew

\* The resources, and those of the answer.
LEMMA SectionsOf ==
  ASSUME NEW b, Count(b, 1) \in Nat, Count(b, 2) \in Nat, Count(b, 3) \in Nat, Count(b, 4) \in Nat,
         NEW i \in Nat
  PROVE  /\ SectionOf(b, i) = 1 <=> i <= Count(b, 1)
         /\ SectionOf(b, i) = 2 <=> i \in Count(b, 1) + 1 .. Count(b, 1) + Count(b, 2)
<1> DEFINE c1 == Count(b, 1)
           c2 == Count(b, 2)
           c3 == Count(b, 3)
<1>1. SectionOf(b, i) = IF i <= c1 THEN 1 ELSE IF i <= c1 + c2 THEN 2
                        ELSE IF i <= c1 + c2 + c3 THEN 3 ELSE 4
  BY DEF SectionOf
<1>2. c1 \in Nat /\ c2 \in Nat /\ c3 \in Nat
  OBVIOUS
<1> HIDE DEF c1, c2, c3
<1>3. /\ SectionOf(b, i) = 1 <=> i <= c1
      /\ SectionOf(b, i) = 2 <=> i \in c1 + 1 .. c1 + c2
  BY <1>1, <1>2
<1>4. QED
  BY <1>3 DEF c1, c2

\* The message a, as EntriesOf reads it.
Whole(a, n, q, es) ==
  /\ Count(a, 1) \in Nat /\ Count(a, 2) \in Nat /\ Count(a, 3) \in Nat /\ Count(a, 4) \in Nat
  /\ q = Count(a, 1) /\ es = EntriesOf(a, n) /\ Len(es) = Counts(a)
  /\ DOMAIN es = 1 .. Counts(a) /\ Counts(a) \in Nat

\* The pointer of a whole name is its last label.
LEMMA PointerLast ==
  ASSUME NEW n \in Nat, NEW a \in Buffer(n), NEW o, Named(a, o, NameLabels(a, o, n)),
         NEW k \in 1 .. Len(NameLabels(a, o, n)), a[NameLabels(a, o, n)[k]] >= 192,
         NEW l, l = NameLabels(a, o, n)[k], a[l] \in Nat
  PROVE  Last(NameLabels(a, o, n)) = l
<1> DEFINE ls == NameLabels(a, o, n)
<1>1. /\ Len(ls) \in Nat /\ \A x \in 1 .. Len(ls) - 1 : Plain(a, ls[x])
  BY DEF Named
<1>2. k \in 1 .. Len(ls) /\ ls[k] = l /\ a[ls[k]] >= 192
  OBVIOUS
<1>3. Last(ls) = ls[Len(ls)]
  BY DEF Last
<1> HIDE DEF ls
<1>4. k = Len(ls)
  <2>1. SUFFICES ASSUME k # Len(ls) PROVE FALSE
    OBVIOUS
  <2>2. k \in 1 .. Len(ls) - 1
    BY <1>1, <1>2, <2>1
  <2>3. a[l] <= 63 /\ a[l] >= 192
    BY <1>1, <1>2, <2>2 DEF Plain
  <2>4. QED
    BY <2>3
<1>5. QED
  BY <1>2, <1>3, <1>4 DEF ls

\* What RecordsKept assumes of the names in rdata, said of each pointer.
LEMMA NonePointBehind ==
  ASSUME NEW n \in Nat, NEW a \in Buffer(n), NEW q \in Nat, NEW es, Len(es) \in Nat,
         NEW stop \in Nat, stop <= n, Tiled(a, n, q, es, stop), NamesWhole(a, n, q, es),
         Whole(a, n, q, es), ~RdataPointsBehindAddress(a, n)
  PROVE  NoneBehind(a, n, q, es, q + 1, q + Count(a, 2))
<1> SUFFICES ASSUME NEW i \in 1 .. Len(es), NEW l \in Nat, InRdata(a, n, q, es, i, l), a[l] >= 192,
                    NEW j \in q + 1 .. q + Count(a, 2), U16(a, es[j].qtype) = TypeA
             PROVE  Offset(a, l) <= es[j].rdata
  BY DEF NoneBehind
<1>1. q < i /\ HoldsName(U16(a, es[i].qtype))
      /\ \E k \in 1 .. Len(NameLabels(a, es[i].rdata, n)) : NameLabels(a, es[i].rdata, n)[k] = l
  BY DEF InRdata
<1> DEFINE o == es[i].rdata
           z == EndOf(a, q, es, i)
<1>2. PICK k \in 1 .. Len(NameLabels(a, o, n)) : NameLabels(a, o, n)[k] = l
  BY <1>1
<1>3. /\ o \in Nat /\ o < n /\ Named(a, o, NameLabels(a, o, n))
      /\ NameEnd(a, o, n) \in Nat /\ NameEnd(a, o, n) <= z
  <2>1. TargetWhole(a, n, q, es, i)
    BY <1>1, TargetNamed
  <2>2. QED
    BY <2>1 DEF TargetWhole
<1>4. z \in Nat /\ z <= n
  <2>1. n \in 0 .. n
    OBVIOUS
  <2>2. QED
    BY <2>1, EndWithin
<1> HIDE DEF o, z
<1>5. a[l] \in Nat /\ l + 2 <= z
  <2>1. n \in 0 .. n
    OBVIOUS
  <2>2. /\ a[NameLabels(a, o, n)[k]] \in Nat
        /\ a[NameLabels(a, o, n)[k]] >= 192 => NameLabels(a, o, n)[k] + 2 <= z
    BY <1>3, <1>4, <2>1, WholeLabel
  <2>3. QED
    BY <1>2, <2>2
<1>6. Offset(a, l) \in Nat
  <2>1. l + 1 < n
    BY <1>4, <1>5
  <2>2. QED
    BY <2>1, OffsetTyped
<1>7. Last(NameLabels(a, o, n)) = l
  BY <1>2, <1>3, <1>5, PointerLast
<1>8. /\ Count(a, 1) \in Nat /\ Count(a, 2) \in Nat /\ Count(a, 3) \in Nat /\ Count(a, 4) \in Nat
      /\ q = Count(a, 1) /\ es = EntriesOf(a, n) /\ Len(es) = Counts(a)
      /\ DOMAIN es = 1 .. Counts(a) /\ Counts(a) \in Nat
  BY DEF Whole
<1>9. SectionOf(a, i) # 1
  <2>1. i \in Nat
    OBVIOUS
  <2>2. ~(i <= Count(a, 1))
    BY <1>1, <1>8, <2>1
  <2>3. QED
    BY <1>8, <2>1, <2>2, SectionsOf
<1>10. j \in AddressRecords(a, n) /\ j \in 1 .. Len(es) /\ q < j /\ j \in Nat
  <2>1. j \in Nat /\ j \in Count(a, 1) + 1 .. Count(a, 1) + Count(a, 2) /\ q < j
    <3> DEFINE c1 == Count(a, 1)
               c2 == Count(a, 2)
    <3>1. c1 \in Nat /\ c2 \in Nat /\ q = c1 /\ j \in q + 1 .. q + c2
      BY <1>8
    <3> HIDE DEF c1, c2
    <3>2. j \in Nat /\ j \in c1 + 1 .. c1 + c2 /\ q < j
      BY <3>1
    <3>3. QED
      BY <3>2 DEF c1, c2
  <2>2. SectionOf(a, j) = 2
    BY <1>8, <2>1, SectionsOf
  <2>3. j \in 1 .. Counts(a)
    <3> DEFINE c1 == Count(a, 1)
               c2 == Count(a, 2)
               c3 == Count(a, 3)
               c4 == Count(a, 4)
    <3>1. Counts(a) = c1 + c2 + c3 + c4 /\ c1 \in Nat /\ c2 \in Nat /\ c3 \in Nat /\ c4 \in Nat
          /\ j \in c1 + 1 .. c1 + c2
      BY <1>8, <2>1 DEF Counts
    <3> HIDE DEF c1, c2, c3, c4
    <3>2. QED
      BY <3>1
  <2>4. QED
    BY <1>8, <2>1, <2>2, <2>3 DEF AddressRecords
<1>11. es[j].rdata \in AddressesOf(a, n)
  BY <1>8, <1>10 DEF AddressesOf
<1>12. es[j].rdata \in Nat
  <2>1. n \in 0 .. n
    OBVIOUS
  <2>2. ASSUME NEW x \in 1 .. Len(es), q < x
        PROVE  es[x].qtype \in Nat /\ es[x].rdata = es[x].qtype + 10
    BY <2>1, <2>2, ResourceFields
  <2> DEFINE y == es[j].qtype
  <2>3. y \in Nat /\ es[j].rdata = y + 10
    BY <1>10, <2>2
  <2> HIDE DEF y
  <2>4. y + 10 \in Nat
    BY <2>3
  <2>5. QED
    BY <2>3, <2>4
<1>13. ~(Offset(a, l) > es[j].rdata)
  <2>1. IsPointer(a, Last(NameLabels(a, es[i].rdata, n)))
    BY <1>7 DEF IsPointer, o
  <2>2. i \in DOMAIN es
    BY <1>8
  <2>3. SUFFICES ASSUME Offset(a, l) > es[j].rdata PROVE RdataPointsBehindAddress(a, n)
    OBVIOUS
  <2>4. /\ SectionOf(a, i) # 1
        /\ HoldsName(U16(a, es[i].qtype))
        /\ LET h == Last(NameLabels(a, es[i].rdata, n))
           IN IsPointer(a, h) /\ \E x \in AddressesOf(a, n) : Offset(a, h) > x
    BY <1>1, <1>7, <1>9, <1>11, <2>1, <2>3 DEF o
  <2>5. QED
    BY <1>8, <2>2, <2>4, Zenon DEF RdataPointsBehindAddress
<1>14. QED
  BY <1>6, <1>12, <1>13

\* Entry i of es in a is entry i of fs: R relates their names, and those in their rdata.
Met(a, q, es, fs, R, i) ==
  /\ <<es[i].begin, fs[i].begin>> \in R
  /\ q < i /\ HoldsName(U16(a, es[i].qtype)) => <<es[i].rdata, fs[i].rdata>> \in R

\* Every entry of a message meets itself.
LEMMA BegunMet ==
  ASSUME NEW n \in Nat, NEW a \in Buffer(n), NEW q \in Nat, NEW es, Len(es) \in Nat,
         NEW stop \in Nat, Tiled(a, n, q, es, stop), NamesWhole(a, n, q, es), NEW i \in 1 .. Len(es)
  PROVE  Met(a, q, es, es, Itself(a, n, q, es), i)
<1>1. <<es[i].begin, es[i].begin>> \in Itself(a, n, q, es)
  <2> DEFINE o == es[i].begin
             ls == NameLabels(a, o, n)
  <2>1. Named(a, o, ls)
    BY DEF Tiled, EntryLaid
  <2>2. ls \in Seq(Nat) /\ Len(ls) >= 1 /\ ls[1] = o
    BY <2>1 DEF Named
  <2> HIDE DEF ls
  <2>3. 1 \in 1 .. Len(ls) /\ o \in Nat
    BY <2>2
  <2>4. HasLabel(a, n, es[i], o)
    BY <2>2, <2>3 DEF HasLabel, ls
  <2>5. Labelled(a, n, q, es, o)
    BY <2>4 DEF Labelled
  <2> HIDE DEF o
  <2>6. <<o, o>> \in Itself(a, n, q, es)
    BY <2>3, <2>5 DEF Itself
  <2>7. QED
    BY <2>6 DEF o
<1>2. ASSUME q < i, HoldsName(U16(a, es[i].qtype))
      PROVE  <<es[i].rdata, es[i].rdata>> \in Itself(a, n, q, es)
  <2> DEFINE o == es[i].rdata
             ls == NameLabels(a, o, n)
  <2>1. TargetWhole(a, n, q, es, i)
    BY <1>2, TargetNamed
  <2>2. o \in Nat /\ Named(a, o, ls)
    BY <2>1 DEF TargetWhole
  <2>3. ls \in Seq(Nat) /\ Len(ls) >= 1 /\ ls[1] = o
    BY <2>2 DEF Named
  <2> HIDE DEF ls
  <2>4. 1 \in 1 .. Len(ls)
    BY <2>3
  <2>5. InRdata(a, n, q, es, i, o)
    BY <1>2, <2>3, <2>4 DEF InRdata, ls
  <2>6. Labelled(a, n, q, es, o)
    BY <2>5 DEF Labelled
  <2> HIDE DEF o
  <2>7. <<o, o>> \in Itself(a, n, q, es)
    BY <2>2, <2>6 DEF Itself
  <2>8. QED
    BY <2>7 DEF o
<1>3. QED
  BY <1>1, <1>2 DEF Met

\* Names that meet are the same.
LEMMA NamesMet ==
  ASSUME NEW m \in Nat, NEW b \in Buffer(m), NEW n \in Nat, NEW a \in Buffer(n), NEW q, NEW es,
         NEW fs, NEW ls, NEW v, NEW w, NEW R, Paired(a, b, q, fs, ls, v, w, R),
         NEW gs, NEW i, Met(a, q, gs, fs, R, i)
  PROVE  /\ Name(b, fs[i].begin) = Name(a, gs[i].begin)
         /\ q < i /\ HoldsName(U16(a, gs[i].qtype)) => Name(b, fs[i].rdata) = Name(a, gs[i].rdata)
<1>1. Mirrored(a, b, R) /\ \A l, k : <<l, k>> \in R => l \in DOMAIN a
  BY DEF Paired
<1>2. ASSUME NEW l, NEW k, <<l, k>> \in R PROVE l \in DOMAIN a /\ k \in DOMAIN b
  <2>1. SameLabel(a, b, R, l, k) /\ l \in DOMAIN a
    BY <1>1, <1>2 DEF Mirrored
  <2>2. a[l] \in Nat
    <3>1. l \in Nat /\ l < n
      BY <2>1 DEF Buffer
    <3>2. QED
      BY <3>1, ByteAt
  <2>3. QED
    BY <2>1, <2>2, LabelInDomain
<1>3. ASSUME NEW l, NEW k, <<l, k>> \in R PROVE Name(b, k) = Name(a, l)
  BY <1>1, <1>2, <1>3, NameMirrored
<1>4. QED
  BY <1>3 DEF Met
===============================================================================
