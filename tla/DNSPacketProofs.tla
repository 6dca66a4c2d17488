---------------------------- MODULE DNSPacketProofs ---------------------------
(***************************************************************************)
(* DNSPacket for every datagram and every buffer: while the answers are    *)
(* rewritten, the packet stays in its buffer and its pointers stay where   *)
(* the constructor would put them.                                         *)
(*                                                                         *)
(* What makes the one true makes the other: resize() moves what is behind  *)
(* the record and nothing else because the entries are behind each other   *)
(* and their labels in between (Laid), and the rest of the loop reads what *)
(* was received because what was moved is found again (AroundLayout).      *)
(*                                                                         *)
(* A proper datagram (ProperAssumption) is read as it was sent, so nothing *)
(* has to be assumed of how its records are rewritten, and it is thrown    *)
(* away for want of room alone (SentInv).                                  *)
(*                                                                         *)
(* The reply means what DNS64 makes of the answer because every label of   *)
(* the answer keeps a partner in the packet: the loop moves both the label *)
(* and what points to it (PairedMoved), and touches nothing else a record  *)
(* says (MeaningInv).                                                      *)
(***************************************************************************)
EXTENDS DNSPacket, DNSMessageProofs, FiniteSetTheorems

-------------------------------------------------------------------------------
(* resize() *)

\* The pointer at k of c points to where that at l of b does, or d bytes on if that is
\* behind at, as far as pointers reach.
Pointed(b, l, c, k, at, d) ==
  Offset(b, l) + d < 2^14 =>
    Offset(c, k) = IF Offset(b, l) > at THEN Offset(b, l) + d ELSE Offset(b, l)

\* resize() changes the two bytes of a pointer at most, and it stays a pointer.
LEMMA RepointedAt ==
  ASSUME NEW n \in Nat, NEW b \in Buffer(n), NEW l \in Nat, l + 1 < n, NEW at \in Nat, NEW d \in Nat
  PROVE  /\ Repointed(b, l, at, d) \in Buffer(n)
         /\ b[l] >= 192 => Repointed(b, l, at, d)[l] >= 192
         /\ b[l] >= 192 => Pointed(b, l, Repointed(b, l, at, d), l, at, d)
         /\ b[l] < 192 => Repointed(b, l, at, d) = b
         /\ \A p \in Nat : p < n /\ p # l /\ p # l + 1 => Repointed(b, l, at, d)[p] = b[p]
<1>1. U16(b, l) \in Nat
  BY U16Word DEF Word
<1>2. Offset(b, l) + d \in Int /\ Offset(b, l) + d >= 0
  <2>1. 2^14 \in Nat /\ 2^14 > 0
    BY SMT
  <2>2. QED
    BY <1>1, <2>1, SMT DEF Offset
<1>3. b[l] \in Nat
  BY ByteAt
<1>4. CASE IsPointer(b, l) /\ Offset(b, l) > at
  <2>1. Repointed(b, l, at, d) = WithOffset(b, l, Offset(b, l) + d)
    BY <1>4 DEF Repointed
  <2>2. b[l] >= 192
    BY <1>4 DEF IsPointer
  <2> DEFINE w == WithOffset(b, l, Offset(b, l) + d)
  <2>3. /\ w \in Buffer(n)
        /\ w[l] >= 192
        /\ Offset(w, l) = (Offset(b, l) + d) % 2^14
        /\ \A p \in Nat : p < n /\ p # l /\ p # l + 1 => w[p] = b[p]
    <3> DEFINE o == Offset(b, l) + d
    <3>1. o \in Int
      BY <1>2
    <3> HIDE DEF o
    <3> DEFINE x == WithOffset(b, l, o)
    <3>2. /\ x \in Buffer(n)
          /\ x[l] >= 192
          /\ Offset(x, l) = o % 2^14
          /\ \A p \in Nat : p < n /\ p # l /\ p # l + 1 => x[p] = b[p]
      BY <3>1, WithOffsetAt
    <3>3. QED
      BY <3>2, Zenon DEF o
  <2>4. ~(b[l] < 192)
    BY <1>3, <2>2
  <2> HIDE DEF w
  <2>5. Pointed(b, l, w, l, at, d)
    <3> DEFINE o == Offset(b, l)
    <3>1. o + d \in Int /\ o + d >= 0 /\ o > at
      BY <1>2, <1>4
    <3>2. Offset(w, l) = (o + d) % 2^14
      BY <2>3
    <3> HIDE DEF o
    <3>3. o + d < 2^14 => Offset(w, l) = o + d
      <4>1. 2^14 = 16384
        BY SMT
      <4>2. QED
        BY <3>1, <3>2, <4>1, SMT
    <3>4. o + d < 2^14 => Offset(w, l) = IF o > at THEN o + d ELSE o
      BY <3>1, <3>3, Zenon
    <3>5. QED
      BY <3>4, Zenon DEF Pointed, o
  <2>6. QED
    BY <2>1, <2>3, <2>4, <2>5, Zenon DEF w
<1>5. CASE ~(IsPointer(b, l) /\ Offset(b, l) > at)
  <2>1. Repointed(b, l, at, d) = b
    BY <1>5 DEF Repointed
  <2>2. b[l] >= 192 => Pointed(b, l, b, l, at, d)
    BY <1>5, Zenon DEF IsPointer, Pointed
  <2>3. QED
    BY <2>1, <2>2, Zenon
<1>6. QED
  BY <1>4, <1>5

\* What the loop over the labels has made of the buffer after i of them.
Turn(f, moved, ls, at, d, i) == IF i = 0 THEN moved ELSE Repointed(f[i - 1], ls[i], at, d)

\* f holds the buffer after each turn of the loop.
Turns(f, n, moved, ls, at, d) == f = [i \in 0 .. n |-> Turn(f, moved, ls, at, d, i)]

\* There is such a function: the loop ends.
LEMMA TurnsExist ==
  ASSUME NEW n \in Nat, NEW moved, NEW ls, NEW at, NEW d
  PROVE  \E f : Turns(f, n, moved, ls, at, d)
<1> DEFINE S == {k \in Nat : \E f : f = [i \in 0 .. k |-> Turn(f, moved, ls, at, d, i)]}
<1>1. 0 \in S
  <2> DEFINE f == [i \in 0 .. 0 |-> moved]
  <2>1. f = [i \in 0 .. 0 |-> Turn(f, moved, ls, at, d, i)]
    BY DEF Turn
  <2>2. QED
    BY <2>1
<1>2. ASSUME NEW k \in Nat, k \in S PROVE k + 1 \in S
  <2>1. PICK f : f = [i \in 0 .. k |-> Turn(f, moved, ls, at, d, i)]
    BY <1>2
  <2> DEFINE g == [i \in 0 .. k + 1 |-> Turn(f, moved, ls, at, d, i)]
  <2>2. \A i \in 0 .. k : g[i] = f[i]
    BY <2>1
  <2>3. ASSUME NEW i \in 0 .. k + 1
        PROVE  Turn(f, moved, ls, at, d, i) = Turn(g, moved, ls, at, d, i)
    <3>1. CASE i = 0
      BY <3>1 DEF Turn
    <3>2. CASE i # 0
      <4>1. i - 1 \in 0 .. k
        BY <3>2
      <4> HIDE DEF g
      <4>2. g[i - 1] = f[i - 1]
        BY <2>2, <4>1
      <4>3. QED
        BY <3>2, <4>2 DEF Turn
    <3>3. QED
      BY <3>1, <3>2
  <2> HIDE DEF g
  <2>4. g = [i \in 0 .. k + 1 |-> Turn(g, moved, ls, at, d, i)]
    BY <2>3 DEF g
  <2>5. QED
    BY <2>4
<1>3. Nat \subseteq S
  <2> HIDE DEF S
  <2>1. QED
    BY <1>1, <1>2, SetInduction
<1>4. QED
  BY <1>3 DEF Turns

\* The bytes of c are those of b, but for the pointers among ls, which are pointers still,
\* to where their targets have moved.
Patched(n, b, c, ls, at, d) ==
  /\ \A p \in Nat :
       p < n /\ (\A j \in 1 .. Len(ls) : b[ls[j]] >= 192 => p # ls[j] /\ p # ls[j] + 1)
         => c[p] = b[p]
  /\ \A j \in 1 .. Len(ls) :
       b[ls[j]] >= 192 => c[ls[j]] >= 192 /\ Pointed(b, ls[j], c, ls[j], at, d)

\* The bytes after the loop: those of the pointers among the labels have changed, and
\* these are pointers still.
LEMMA TurnsAt ==
  ASSUME NEW n \in Nat, NEW moved \in Buffer(n), NEW ls \in Seq(Nat),
         \A i \in 1 .. Len(ls) : ls[i] + 1 < n,
         NEW at \in Nat, NEW d \in Nat,
         NEW f, Turns(f, Len(ls), moved, ls, at, d)
  PROVE  /\ f[Len(ls)] \in Buffer(n)
         /\ Apart(ls) => Patched(n, moved, f[Len(ls)], ls, at, d)
<1> DEFINE Untouched(p, k) ==
             \A j \in 1 .. k : moved[ls[j]] >= 192 => p # ls[j] /\ p # ls[j] + 1
           Same(k) == \A p \in 0 .. n - 1 : Untouched(p, k) => f[k][p] = moved[p]
           Pointing(k) == \A j \in 1 .. k : moved[ls[j]] >= 192 =>
             f[k][ls[j]] >= 192 /\ Pointed(moved, ls[j], f[k], ls[j], at, d)
           Good(k) == f[k] \in Buffer(n) /\ (Apart(ls) => Same(k) /\ Pointing(k))
           S == {k \in Nat : k <= Len(ls) => Good(k)}
<1>1. Len(ls) \in Nat /\ \A i \in 1 .. Len(ls) : ls[i] \in Nat
  OBVIOUS
<1> HIDE DEF Untouched, Same, Pointing, Good
<1>2. 0 \in S
  <2>1. f[0] = moved
    BY <1>1 DEF Turns, Turn
  <2>2. QED
    BY <2>1 DEF Good, Same, Pointing
<1>3. ASSUME NEW k \in Nat, k \in S PROVE k + 1 \in S
  <2>1. SUFFICES ASSUME k + 1 <= Len(ls) PROVE Good(k + 1)
    OBVIOUS
  <2> DEFINE l == ls[k + 1]
             c == f[k]
             r == f[k + 1]
  <2>2. k + 1 \in 1 .. Len(ls) /\ k \in 0 .. Len(ls) /\ k + 1 \in 0 .. Len(ls)
    BY <1>1, <2>1
  <2>3. l \in Nat /\ l + 1 < n
    BY <1>1, <2>2
  <2>4. c \in Buffer(n) /\ (Apart(ls) => Same(k) /\ Pointing(k))
    BY <1>1, <1>3, <2>1 DEF Good
  <2>5. r = Repointed(c, l, at, d)
    <3>1. r = Turn(f, moved, ls, at, d, k + 1)
      BY <2>2 DEF Turns
    <3>2. k + 1 # 0 /\ (k + 1) - 1 = k
      OBVIOUS
    <3>3. QED
      BY <3>1, <3>2 DEF Turn
  <2> HIDE DEF c, r, l
  <2>6. /\ r \in Buffer(n)
        /\ c[l] >= 192 => r[l] >= 192 /\ Pointed(c, l, r, l, at, d)
        /\ c[l] < 192 => r = c
        /\ \A p \in Nat : p < n /\ p # l /\ p # l + 1 => r[p] = c[p]
    <3> DEFINE w == Repointed(c, l, at, d)
    <3>1. c \in Buffer(n)
      BY <2>4
    <3>2. /\ w \in Buffer(n)
          /\ c[l] >= 192 => w[l] >= 192 /\ Pointed(c, l, w, l, at, d)
          /\ c[l] < 192 => w = c
          /\ \A p \in Nat : p < n /\ p # l /\ p # l + 1 => w[p] = c[p]
      BY <2>3, <3>1, RepointedAt
    <3> HIDE DEF w
    <3>3. r = w
      BY <2>5 DEF w
    <3>4. QED
      BY <3>2, <3>3
  <2>7. ASSUME Apart(ls) PROVE Same(k + 1) /\ Pointing(k + 1)
    <3>1. \A j \in 1 .. k : j \in 1 .. Len(ls) /\ ls[j] \in Nat /\ ls[j] + 2 <= l
      <4>1. TAKE j \in 1 .. k
      <4>2. j \in 1 .. Len(ls) /\ j < k + 1
        BY <1>1, <2>1
      <4>3. ls[j] + 2 <= ls[k + 1]
        BY <2>2, <2>7, <4>2 DEF Apart
      <4>4. QED
        BY <1>1, <4>2, <4>3 DEF l
    <3>2. c[l] = moved[l] /\ c[l + 1] = moved[l + 1]
      <4>1. l \in 0 .. n - 1 /\ l + 1 \in 0 .. n - 1
        BY <2>3
      <4>2. Untouched(l, k)
        BY <2>3, <3>1 DEF Untouched
      <4>3. Untouched(l + 1, k)
        <5>1. \A j \in 1 .. k : l + 1 # ls[j] /\ l + 1 # ls[j] + 1
          <6>1. TAKE j \in 1 .. k
          <6>2. ls[j] \in Nat /\ ls[j] + 2 <= l /\ l \in Nat
            BY <2>3, <3>1
          <6>3. QED
            BY <6>2, SMTT(20)
        <5>2. QED
          BY <5>1, Zenon DEF Untouched
      <4>4. QED
        BY <2>4, <2>7, <4>1, <4>2, <4>3 DEF c, Same
    <3>3. moved[l] \in Nat
      BY <2>3, ByteAt
    <3>4. Same(k + 1)
      <4>1. SUFFICES ASSUME NEW p \in 0 .. n - 1, Untouched(p, k + 1) PROVE r[p] = moved[p]
        BY DEF r, Same
      <4>2. Untouched(p, k)
        BY <4>1 DEF Untouched
      <4>3. c[p] = moved[p]
        BY <2>4, <2>7, <4>2 DEF c, Same
      <4>4. moved[l] >= 192 => p # l /\ p # l + 1
        BY <2>2, <4>1 DEF Untouched, l
      <4>5. r[p] = c[p]
        <5>1. p \in Nat /\ p < n
          BY <4>1
        <5>2. CASE moved[l] >= 192
          BY <2>6, <4>4, <5>1, <5>2
        <5>3. CASE ~(moved[l] >= 192)
          <6>1. c[l] < 192
            BY <3>2, <3>3, <5>3
          <6>2. QED
            BY <2>6, <6>1
        <5>4. QED
          BY <5>2, <5>3
      <4>6. QED
        BY <4>3, <4>5
    <3>5. Pointing(k + 1)
      <4>1. SUFFICES ASSUME NEW j \in 1 .. k + 1, moved[ls[j]] >= 192
                     PROVE  r[ls[j]] >= 192 /\ Pointed(moved, ls[j], r, ls[j], at, d)
        BY DEF r, Pointing
      <4>2. CASE j = k + 1
        <5>1. ls[j] = l
          BY <4>2 DEF l
        <5>2. Offset(c, l) = Offset(moved, l)
          BY <3>2, Zenon DEF Offset, U16
        <5>3. r[l] >= 192 /\ Pointed(c, l, r, l, at, d)
          BY <2>6, <3>2, <4>1, <5>1, Zenon
        <5>4. Pointed(moved, l, r, l, at, d)
          BY <5>2, <5>3, Zenon DEF Pointed
        <5>5. QED
          BY <5>1, <5>3, <5>4, Zenon
      <4>3. CASE j \in 1 .. k
        <5>1. c[ls[j]] >= 192 /\ Pointed(moved, ls[j], c, ls[j], at, d)
          BY <2>4, <2>7, <4>1, <4>3 DEF c, Pointing
        <5>2. r[ls[j]] = c[ls[j]] /\ r[ls[j] + 1] = c[ls[j] + 1]
          <6>1. /\ ls[j] \in Nat /\ ls[j] < n /\ ls[j] # l /\ ls[j] # l + 1
                /\ ls[j] + 1 \in Nat /\ ls[j] + 1 < n /\ ls[j] + 1 # l /\ ls[j] + 1 # l + 1
            BY <2>3, <3>1, <4>3, SMTT(20)
          <6>2. QED
            BY <2>6, <6>1
        <5>3. Offset(r, ls[j]) = Offset(c, ls[j])
          BY <5>2, Zenon DEF Offset, U16
        <5>4. Pointed(moved, ls[j], r, ls[j], at, d)
          BY <5>1, <5>3, Zenon DEF Pointed
        <5>5. QED
          BY <5>1, <5>2, <5>4, Zenon
      <4>4. QED
        BY <4>2, <4>3
    <3>6. QED
      BY <3>4, <3>5
  <2>8. QED
    BY <2>6, <2>7 DEF r, Good
<1>4. Good(Len(ls))
  <2>1. Nat \subseteq S
    <3> HIDE DEF S
    <3>1. QED
      BY <1>2, <1>3, SetInduction
  <2>2. QED
    BY <1>1, <2>1
<1>5. Apart(ls) => Patched(n, moved, f[Len(ls)], ls, at, d)
  <2>1. \A p \in Nat : p < n => p \in 0 .. n - 1
    OBVIOUS
  <2>2. QED
    BY <1>4, <2>1 DEF Good, Same, Pointing, Untouched, Patched
<1>6. QED
  BY <1>4, <1>5 DEF Good

\* The labels behind at move with what they are in.
LEMMA LabelsMovedTyped ==
  ASSUME NEW at \in Nat, NEW d \in Nat, len \in Nat, labels \in Seq(Nat),
         \A i \in 1 .. Len(labels) : labels[i] + 4 <= len
  PROVE  /\ LabelsMoved(at, d) \in Seq(Nat)
         /\ Len(LabelsMoved(at, d)) = Len(labels)
         /\ \A i \in 1 .. Len(labels) :
              /\ LabelsMoved(at, d)[i] = IF labels[i] > at THEN labels[i] + d ELSE labels[i]
              /\ LabelsMoved(at, d)[i] + 4 <= len + d
<1> DEFINE ls == LabelsMoved(at, d)
<1>1. Len(labels) \in Nat /\ DOMAIN labels = 1 .. Len(labels)
      /\ \A i \in 1 .. Len(labels) : labels[i] \in Nat
  OBVIOUS
<1>2. ls = [i \in 1 .. Len(labels) |-> IF labels[i] > at THEN labels[i] + d ELSE labels[i]]
  BY <1>1 DEF LabelsMoved
<1> HIDE DEF ls
<1>3. \A i \in 1 .. Len(labels) :
        /\ ls[i] = IF labels[i] > at THEN labels[i] + d ELSE labels[i]
        /\ ls[i] \in Nat
        /\ ls[i] + 4 <= len + d
  BY <1>1, <1>2
<1>4. ls \in Seq(Nat) /\ Len(ls) = Len(labels)
  BY <1>1, <1>2, <1>3
<1>5. QED
  BY <1>3, <1>4 DEF ls

\* The buffer after resize() is the moved one, but for the pointers, which point on.
LEMMA ResizedAt ==
  ASSUME buflen \in Nat, len \in 0 .. buflen, labels \in Seq(Nat),
         \A i \in 1 .. Len(labels) : labels[i] + 4 <= len,
         NEW b \in Buffer(buflen), NEW at \in Nat, NEW old \in Nat, NEW new \in Nat,
         old <= new, new - old <= buflen - len
  PROVE  LET ls == LabelsMoved(at, new - old)
             moved == Move(b, at + new, at + old, len - (at + old))
             r == Resized(b, at, old, new)
         IN /\ r \in Buffer(buflen)
            /\ Apart(ls) => Patched(buflen, moved, r, ls, at, new - old)
<1> DEFINE d == new - old
           ls == LabelsMoved(at, d)
           moved == Move(b, at + new, at + old, len - (at + old))
           f == CHOOSE f : Turns(f, Len(labels), moved, ls, at, d)
<1>1. d \in Nat /\ len \in Nat /\ len + d <= buflen
  OBVIOUS
<1>2. /\ ls \in Seq(Nat) /\ Len(ls) = Len(labels)
      /\ \A i \in 1 .. Len(labels) : ls[i] + 4 <= len + d
  BY <1>1, LabelsMovedTyped
<1>3. moved \in Buffer(buflen)
  <2>1. at + new \in Nat /\ at + old \in Nat /\ len - (at + old) \in Int
        /\ (at + old) + (len - (at + old)) <= buflen
    BY <1>1
  <2>2. QED
    BY <2>1, MoveAt
<1>4. Resized(b, at, old, new) = f[Len(labels)]
  BY DEF Resized, Turn, Turns
<1> HIDE DEF moved, ls, d
<1>5. Turns(f, Len(labels), moved, ls, at, d)
  <2>1. Len(labels) \in Nat
    OBVIOUS
  <2>2. \E g : Turns(g, Len(labels), moved, ls, at, d)
    BY <2>1, TurnsExist
  <2>3. QED
    BY <2>2
<1> HIDE DEF f
<1>6. \A i \in 1 .. Len(ls) : ls[i] + 1 < buflen
  <2>1. TAKE i \in 1 .. Len(ls)
  <2>2. ls[i] \in Nat /\ ls[i] + 4 <= len + d
    BY <1>2, SMTT(20)
  <2>3. QED
    BY <1>1, <2>2
<1>7. d \in Nat
  BY <1>1 DEF d
<1>8. f[Len(ls)] \in Buffer(buflen) /\ (Apart(ls) => Patched(buflen, moved, f[Len(ls)], ls, at, d))
  <2>1. Turns(f, Len(ls), moved, ls, at, d) /\ ls \in Seq(Nat)
    BY <1>2, <1>5
  <2>2. QED
    BY <1>3, <1>6, <1>7, <2>1, TurnsAt
<1>9. f[Len(ls)] = Resized(b, at, old, new)
  BY <1>2, <1>4
<1>10. QED
  BY <1>8, <1>9, Zenon DEF ls, moved, d

\* What resize() does to the pointers of an entry.
LEMMA QuestionMoved ==
  ASSUME NEW n \in Nat, NEW e \in Questions(n), NEW at \in Nat, NEW d \in Nat
  PROVE  Moved(e, at, d) \in Questions(n + d)
<1>1. CASE e.begin > at
  <2>1. Moved(e, at, d) = [begin |-> e.begin + d, name |-> e.name, qtype |-> e.qtype + d,
                           qclass |-> e.qclass + d]
    BY <1>1 DEF Moved, Questions
  <2>2. QED
    BY <2>1 DEF Questions
<1>2. CASE ~(e.begin > at)
  BY <1>2 DEF Moved, Questions
<1>3. QED
  BY <1>1, <1>2

\* The same for a resource.
LEMMA ResourceMoved ==
  ASSUME NEW n \in Nat, NEW e \in Resources(n), NEW at \in Nat, NEW d \in Nat
  PROVE  Moved(e, at, d) \in Resources(n + d)
<1>1. CASE e.begin > at
  <2>1. Moved(e, at, d) = [begin |-> e.begin + d, name |-> e.name, qtype |-> e.qtype + d,
                           qclass |-> e.qclass + d, ttl |-> e.ttl + d,
                           rdlength |-> e.rdlength + d, rdata |-> e.rdata + d]
    BY <1>1 DEF Moved, Resources
  <2>2. QED
    BY <2>1 DEF Resources
<1>2. CASE ~(e.begin > at)
  BY <1>2 DEF Moved, Resources
<1>3. QED
  BY <1>1, <1>2

\* And for all of them.
LEMMA QuestionsMoved ==
  ASSUME NEW n \in Nat, NEW at \in Nat, NEW d \in Nat, NEW es \in Seq(Questions(n))
  PROVE  /\ AllMoved(es, at, d) \in Seq(Questions(n + d))
         /\ Len(AllMoved(es, at, d)) = Len(es)
         /\ \A i \in 1 .. Len(es) : AllMoved(es, at, d)[i] = Moved(es[i], at, d)
<1>1. \A i \in 1 .. Len(es) : Moved(es[i], at, d) \in Questions(n + d)
  BY ElementOfSeq, QuestionMoved
<1>2. AllMoved(es, at, d) = [i \in 1 .. Len(es) |-> Moved(es[i], at, d)]
  BY DEF AllMoved
<1>3. QED
  BY <1>1, <1>2

\* And for all resources of a section.
LEMMA ResourcesMoved ==
  ASSUME NEW n \in Nat, NEW at \in Nat, NEW d \in Nat, NEW es \in Seq(Resources(n))
  PROVE  /\ AllMoved(es, at, d) \in Seq(Resources(n + d))
         /\ Len(AllMoved(es, at, d)) = Len(es)
         /\ \A i \in 1 .. Len(es) : AllMoved(es, at, d)[i] = Moved(es[i], at, d)
<1>1. \A i \in 1 .. Len(es) : Moved(es[i], at, d) \in Resources(n + d)
  BY ElementOfSeq, ResourceMoved
<1>2. AllMoved(es, at, d) = [i \in 1 .. Len(es) |-> Moved(es[i], at, d)]
  BY DEF AllMoved
<1>3. QED
  BY <1>1, <1>2

\* What resize() makes of the pointers of an entry.
LEMMA MovedFields ==
  ASSUME NEW n \in Nat, NEW s, NEW e \in Shape(n, s), NEW at \in Nat, NEW d \in Nat
  PROVE  /\ Moved(e, at, d) \in Shape(n + d, s)
         /\ ~(e.begin > at) => Moved(e, at, d) = e
         /\ e.begin > at =>
              /\ Moved(e, at, d).begin = e.begin + d
              /\ Moved(e, at, d).qtype = e.qtype + d
              /\ s # 1 => Moved(e, at, d).rdlength = e.rdlength + d
<1>1. CASE s = 1
  <2>1. e \in Questions(n)
    BY <1>1 DEF Shape
  <2>2. Moved(e, at, d) \in Shape(n + d, s)
    BY <1>1, <2>1, QuestionMoved DEF Shape
  <2>3. DOMAIN e = {"begin", "name", "qtype", "qclass"}
    BY <2>1 DEF Questions
  <2>4. QED
    BY <1>1, <2>2, <2>3 DEF Moved
<1>2. CASE s # 1
  <2>1. e \in Resources(n)
    BY <1>2 DEF Shape
  <2>2. Moved(e, at, d) \in Shape(n + d, s)
    BY <1>2, <2>1, ResourceMoved DEF Shape
  <2>3. DOMAIN e = {"begin", "name", "qtype", "qclass", "ttl", "rdlength", "rdata"}
    BY <2>1 DEF Resources
  <2>4. QED
    BY <2>2, <2>3 DEF Moved
<1>3. QED
  BY <1>1, <1>2
-------------------------------------------------------------------------------
(* Types *)

\* The pointers of the entries and the labels are in the packet.
InBuffer ==
  /\ question \in Seq(Questions(len))
  /\ answer \in Seq(Resources(len))
  /\ authority \in Seq(Resources(len))
  /\ additional \in Seq(Resources(len))
  /\ \A i \in 1 .. Len(labels) : labels[i] + 4 <= len

\* TypeOK, with the places the pointers are confined to.
TypeInv == TypeOK /\ buflen \in Nat /\ InBuffer

\* recvfrom() has filled the buffer.
LEMMA InitTypes == Init => TypeInv
<1> SUFFICES ASSUME Init PROVE TypeInv
  OBVIOUS
<1>1. PICK d \in Datagrams, room \in Rooms :
        /\ Len(d) + room > 0
        /\ dgram = d
        /\ buflen = Len(d) + room
        /\ len = IF room < 0 THEN buflen ELSE Len(d)
        /\ bytes = [o \in 0..buflen - 1 |-> IF o < Len(d) THEN d[o + 1] ELSE 0]
  BY DEF Init
<1>2. /\ question = <<>> /\ answer = <<>> /\ authority = <<>> /\ additional = <<>>
      /\ labels = <<>> /\ begin = HeaderSize /\ next = 1 /\ pc = "header"
  BY DEF Init
<1>3. d \in Seq(Bytes) /\ room \in Int /\ Len(d) \in Nat
  BY DatagramsAssumption
<1>4. buflen \in Nat /\ len \in 0 .. buflen
  BY <1>1, <1>3
<1>5. bytes \in [0 .. buflen - 1 -> Bytes]
  <2>1. ASSUME NEW o \in 0 .. buflen - 1
        PROVE  (IF o < Len(d) THEN d[o + 1] ELSE 0) \in Bytes
    <3>1. CASE o < Len(d)
      <4>1. o + 1 \in 1 .. Len(d)
        BY <1>3, <1>4, <3>1
      <4>2. QED
        BY <1>3, <3>1, <4>1, ElementOfSeq
    <3>2. CASE ~(o < Len(d))
      BY <3>2, ByteRange
    <3>3. QED
      BY <3>1, <3>2
  <2>2. QED
    BY <1>1, <2>1
<1>6. TypeOK
  BY <1>1, <1>2, <1>3, <1>4, <1>5 DEF TypeOK, HeaderSize
<1>7. InBuffer
  BY <1>2 DEF InBuffer
<1>8. QED
  BY <1>4, <1>6, <1>7 DEF TypeInv

\* Section is the first that has not been read to its end.
LEMMA SectionTyped ==
  Unparsed # {} =>
    Section \in 1 .. 4 /\ Section \in Unparsed /\ \A t \in Unparsed : Section <= t
<1> SUFFICES ASSUME Unparsed # {}
             PROVE  Section \in 1 .. 4 /\ Section \in Unparsed /\ \A t \in Unparsed : Section <= t
  OBVIOUS
<1>1. Unparsed \subseteq {1, 2, 3, 4}
  BY DEF Unparsed
<1>2. \E s \in Unparsed : \A t \in Unparsed : s <= t
  <2>1. CASE 1 \in Unparsed
    BY <1>1, <2>1
  <2>2. CASE 1 \notin Unparsed /\ 2 \in Unparsed
    BY <1>1, <2>2
  <2>3. CASE 1 \notin Unparsed /\ 2 \notin Unparsed /\ 3 \in Unparsed
    BY <1>1, <2>3
  <2>4. CASE 1 \notin Unparsed /\ 2 \notin Unparsed /\ 3 \notin Unparsed
    <3>1. Unparsed = {4}
      BY <1>1, <2>4
    <3>2. QED
      BY <3>1
  <2>5. QED
    BY <2>1, <2>2, <2>3, <2>4
<1>3. Section \in Unparsed /\ \A t \in Unparsed : Section <= t
  BY <1>2 DEF Section
<1>4. QED
  BY <1>1, <1>3

\* The constructor stores pointers into the packet only.
LEMMA ReadEntryTypes == TypeInv /\ ReadEntry => TypeInv'
<1> SUFFICES ASSUME TypeInv, ReadEntry PROVE TypeInv'
  OBVIOUS
<1> DEFINE s == Section
           e == EntryAt(bytes, begin, len, s)
           ls == NameLabels(bytes, begin, len)
<1>1. s \in 1 .. 4
  BY SectionTyped DEF ReadEntry
<1>2. buflen \in Nat /\ bytes \in Buffer(buflen) /\ len \in 0 .. buflen /\ begin \in Nat
      /\ labels \in Seq(Nat)
  BY DEF TypeInv, TypeOK, Buffer
<1>3. /\ Fits(bytes, e, len, s)
      /\ question' = IF s = 1 THEN Append(question, e) ELSE question
      /\ answer' = IF s = 2 THEN Append(answer, e) ELSE answer
      /\ authority' = IF s = 3 THEN Append(authority, e) ELSE authority
      /\ additional' = IF s = 4 THEN Append(additional, e) ELSE additional
      /\ labels' = labels \o ls
      /\ begin' = EntryEnd(bytes, e, s)
      /\ UNCHANGED <<dgram, buflen, len, bytes, next, pc>>
  BY DEF ReadEntry
<1>4. /\ Named(bytes, begin, ls)
      /\ \A i \in 1 .. Len(ls) : ls[i] < e.qtype /\ ls[i] + 4 < len
      /\ IF s = 1 THEN e \in Questions(len) ELSE e \in Resources(len)
      /\ EntryEnd(bytes, e, s) \in Nat
  BY <1>1, <1>2, <1>3, EntryFits
<1> HIDE DEF s, e, ls
<1>5. ls \in Seq(Nat) /\ Len(ls) >= 1
  BY <1>4 DEF Named
<1>6. /\ question' \in Seq(Questions(len)) /\ answer' \in Seq(Resources(len))
      /\ authority' \in Seq(Resources(len)) /\ additional' \in Seq(Resources(len))
      /\ Len(question') + Len(answer') + Len(authority') + Len(additional') =
           Len(question) + Len(answer) + Len(authority) + Len(additional) + 1
      /\ Len(answer) <= Len(answer') /\ Len(answer') \in Nat
  <2>1. /\ question \in Seq(Questions(len)) /\ answer \in Seq(Resources(len))
        /\ authority \in Seq(Resources(len)) /\ additional \in Seq(Resources(len))
    BY DEF TypeInv, InBuffer
  <2>2. CASE s = 1
    BY <1>3, <1>4, <2>1, <2>2
  <2>3. CASE s = 2
    BY <1>3, <1>4, <2>1, <2>3
  <2>4. CASE s = 3
    BY <1>3, <1>4, <2>1, <2>4
  <2>5. CASE s = 4
    BY <1>3, <1>4, <2>1, <2>5
  <2>6. QED
    BY <1>1, <2>2, <2>3, <2>4, <2>5
<1>7. /\ labels' \in Seq(Nat)
      /\ Len(labels') = Len(labels) + Len(ls)
      /\ \A i \in 1 .. Len(labels') : labels'[i] + 4 <= len
  <2>1. /\ labels' \in Seq(Nat)
        /\ Len(labels') = Len(labels) + Len(ls)
        /\ \A i \in 1 .. Len(labels) + Len(ls) :
             labels'[i] = IF i <= Len(labels) THEN labels[i] ELSE ls[i - Len(labels)]
    BY <1>2, <1>3, <1>5, ConcatProperties
  <2>2. \A i \in 1 .. Len(labels) : labels[i] + 4 <= len
    BY DEF TypeInv, InBuffer
  <2>3. ASSUME NEW i \in 1 .. Len(labels') PROVE labels'[i] + 4 <= len
    <3>1. CASE i <= Len(labels)
      BY <1>2, <2>1, <2>2, <3>1, SMTT(20)
    <3>2. CASE ~(i <= Len(labels))
      <4>1. i - Len(labels) \in 1 .. Len(ls)
        BY <1>2, <1>5, <2>1, <3>2
      <4>2. ls[i - Len(labels)] + 4 < len /\ ls[i - Len(labels)] \in Nat
        BY <1>4, <1>5, <4>1
      <4>3. QED
        BY <1>2, <2>1, <3>2, <4>2
    <3>3. QED
      BY <3>1, <3>2
  <2>4. QED
    BY <2>1, <2>3
<1>8. TypeOK'
  <2>1. /\ Len(question) + Len(answer) + Len(authority) + Len(additional) <= Len(labels)
        /\ next \in 1 .. Len(answer) + 1
        /\ dgram \in Seq(Bytes) /\ bytes \in [0..buflen - 1 -> Bytes]
        /\ pc \in {"header", "entries", "answers", "sent", "dropped"}
    BY DEF TypeInv, TypeOK
  <2>2. Len(question) \in Nat /\ Len(answer) \in Nat /\ Len(authority) \in Nat /\ Len(additional) \in Nat
    BY DEF TypeInv, InBuffer
  <2>3. Len(question') + Len(answer') + Len(authority') + Len(additional') <= Len(labels')
    BY <1>2, <1>5, <1>6, <1>7, <2>1, <2>2, SMTT(20)
  <2>4. next \in 1 .. Len(answer') + 1
    BY <1>6, <2>1, <2>2
  <2>5. QED
    BY <1>2, <1>3, <1>4, <1>7, <2>1, <2>3, <2>4 DEF TypeOK
<1>9. InBuffer'
  BY <1>3, <1>6, <1>7 DEF InBuffer
<1>10. QED
  BY <1>2, <1>3, <1>8, <1>9 DEF TypeInv

\* qtype() writes two bytes of the packet.
LEMMA SetQuestionTypeTypes == TypeInv /\ SetQuestionType => TypeInv'
<1> SUFFICES ASSUME TypeInv, SetQuestionType PROVE TypeInv'
  OBVIOUS
<1>1. buflen \in Nat /\ bytes \in Buffer(buflen)
  BY DEF TypeInv, TypeOK, Buffer
<1>2. /\ bytes' = Write16(bytes, question[1].qtype, TypeAAAA)
      /\ pc' = "answers"
      /\ UNCHANGED <<dgram, buflen, len, question, answer, authority, additional, labels, begin, next>>
  BY DEF SetQuestionType, entries
<1>3. Word(TypeAAAA)
  BY SmallWord DEF TypeAAAA
<1>4. bytes' \in Buffer(buflen)
  BY <1>1, <1>2, <1>3, Write16Typed
<1>5. TypeOK'
  BY <1>2, <1>4 DEF TypeInv, TypeOK, Buffer
<1>6. InBuffer'
  BY <1>2 DEF TypeInv, InBuffer
<1>7. QED
  BY <1>1, <1>2, <1>5, <1>6 DEF TypeInv

\* An address that is synthesized has 16 bytes.
LEMMA PrefixTyped == Prefix \in Seq(Bytes) /\ Len(Prefix) = 12 /\ Synthesized = 16
<1>1. Prefix \in Seq(Bytes) /\ Len(Prefix) = 12
  BY DatagramsAssumption, FunctionIsSeq
<1>2. QED
  BY <1>1 DEF Synthesized

\* What a record and its buffer are when it is about to be rewritten.
LEMMA RecordTypes ==
  ASSUME TypeInv, AtA
  PROVE  LET e == answer[next]
             old == U16(bytes, e.rdlength)
         IN /\ next \in 1 .. Len(answer)
            /\ e \in Resources(len)
            /\ e.rdata \in Nat /\ e.rdata <= len
            /\ e.rdlength \in Nat /\ e.rdlength + 2 = e.rdata
            /\ old \in Nat
            /\ ~TooLong(old, Synthesized) => old <= 16 /\ 16 - old <= buflen - len
<1>1. buflen \in Nat /\ bytes \in Buffer(buflen) /\ len \in 0 .. buflen
  BY DEF TypeInv, TypeOK, Buffer
<1>2. next \in 1 .. Len(answer) /\ answer \in Seq(Resources(len))
  BY DEF TypeInv, TypeOK, InBuffer, AtA
<1> DEFINE e == answer[next]
           old == U16(bytes, e.rdlength)
<1>3. e \in Resources(len)
  BY <1>2, ElementOfSeq
<1>4. /\ e.rdata \in Nat /\ e.rdata <= len
      /\ e.rdlength \in Nat /\ e.rdlength + 2 = e.rdata
  <2> HIDE DEF e
  <2>1. QED
    BY <1>3 DEF Resources
<1>5. old \in Nat
  <2>1. e.rdlength + 1 < buflen
    BY <1>1, <1>4
  <2>2. QED
    BY <1>1, <1>4, <2>1, U16Word DEF Word
<1> HIDE DEF e, old
<1>6. ~TooLong(old, Synthesized) => old <= 16 /\ 16 - old <= buflen - len
  BY <1>1, <1>5, PrefixTyped DEF TooLong
<1>7. QED
  BY <1>2, <1>3, <1>4, <1>5, <1>6 DEF e, old

\* An embedded address.
LEMMA AddressTyped ==
  ASSUME NEW m \in Nat, NEW b \in Buffer(m), NEW at \in Nat, at + 4 <= m
  PROVE  LET v == Prefix \o [i \in 1..4 |-> b[at + i - 1]]
         IN v \in Seq(Bytes) /\ Len(v) = 16
<1> DEFINE v4 == [i \in 1..4 |-> b[at + i - 1]]
<1>1. \A i \in 1..4 : b[at + i - 1] \in Bytes
  <2>1. TAKE i \in 1..4
  <2>2. at + i - 1 \in Nat /\ at + i - 1 < m
    OBVIOUS
  <2>3. QED
    BY <2>2, ByteAt
<1>2. v4 \in Seq(Bytes) /\ Len(v4) = 4
  BY <1>1
<1> HIDE DEF v4
<1>3. Prefix \o v4 \in Seq(Bytes)
  BY <1>2, PrefixTyped, ConcatProperties
<1>4. Len(Prefix \o v4) = Len(Prefix) + Len(v4)
  BY <1>2, PrefixTyped, ConcatProperties
<1>5. Len(Prefix \o v4) = 16
  BY <1>2, <1>4, PrefixTyped
<1>6. QED
  BY <1>3, <1>5 DEF v4

\* resize() and the rdata setter write inside the buffer, if the four bytes of the
\* address that are read are in it.
LEMMA SynthesizeRecordTypes ==
  ASSUME TypeInv, SynthesizeRecord, answer[next].rdata + 4 <= buflen
  PROVE  TypeInv'
<1> DEFINE e == answer[next]
           at == e.rdata
           old == U16(bytes, e.rdlength)
           d == Synthesized - old
           ipv6 == Prefix \o [i \in 1..4 |-> bytes[at + i - 1]]
           typed == Write16(bytes, e.qtype, TypeAAAA)
           resized == Resized(typed, at, old, Synthesized)
<1>1. /\ AtA /\ ~TooLong(old, Synthesized)
      /\ question' = AllMoved(question, at, d)
      /\ answer' = AllMoved(answer, at, d)
      /\ authority' = AllMoved(authority, at, d)
      /\ additional' = AllMoved(additional, at, d)
      /\ labels' = LabelsMoved(at, d)
      /\ bytes' = Write(Write16(resized, answer'[next].rdlength, Synthesized),
                        answer'[next].rdata, ipv6)
      /\ len' = len + d
      /\ next' = next + 1
      /\ UNCHANGED <<dgram, buflen, begin, pc>>
  BY DEF SynthesizeRecord
<1>2. buflen \in Nat /\ bytes \in Buffer(buflen) /\ len \in 0 .. buflen /\ len \in Nat
      /\ labels \in Seq(Nat) /\ (\A i \in 1 .. Len(labels) : labels[i] + 4 <= len)
  <2>1. buflen \in Nat /\ bytes \in Buffer(buflen) /\ len \in 0 .. buflen /\ labels \in Seq(Nat)
    BY DEF TypeInv, TypeOK, Buffer
  <2>2. \A i \in 1 .. Len(labels) : labels[i] + 4 <= len
    BY DEF TypeInv, InBuffer
  <2>3. QED
    BY <2>1, <2>2
<1>3. next \in 1 .. Len(answer) /\ at \in Nat /\ at <= len /\ old \in Nat
      /\ old <= 16 /\ 16 - old <= buflen - len /\ at + 4 <= buflen
  BY <1>1, RecordTypes
<1> HIDE DEF e, at, old
<1>4. d \in Nat /\ d = 16 - old /\ len + d <= buflen
  BY <1>2, <1>3, PrefixTyped
<1>5. typed \in Buffer(buflen)
  <2>1. Word(TypeAAAA)
    BY SmallWord DEF TypeAAAA
  <2>2. QED
    BY <1>2, <2>1, Write16Typed
<1> HIDE DEF typed
<1>6. resized \in Buffer(buflen)
  BY <1>2, <1>3, <1>5, PrefixTyped, ResizedAt
<1> HIDE DEF resized
<1>7. ipv6 \in Seq(Bytes)
  BY <1>2, <1>3, AddressTyped
<1> HIDE DEF ipv6, d
<1>8. /\ question' \in Seq(Questions(len + d)) /\ Len(question') = Len(question)
      /\ answer' \in Seq(Resources(len + d)) /\ Len(answer') = Len(answer)
      /\ authority' \in Seq(Resources(len + d)) /\ Len(authority') = Len(authority)
      /\ additional' \in Seq(Resources(len + d)) /\ Len(additional') = Len(additional)
  <2>1. /\ question \in Seq(Questions(len)) /\ answer \in Seq(Resources(len))
        /\ authority \in Seq(Resources(len)) /\ additional \in Seq(Resources(len))
    BY DEF TypeInv, InBuffer
  <2>2. len \in Nat /\ at \in Nat /\ d \in Nat
    BY <1>2, <1>3, <1>4
  <2>3. question' \in Seq(Questions(len + d)) /\ Len(question') = Len(question)
    BY <1>1, <2>1, <2>2, QuestionsMoved
  <2>4. answer' \in Seq(Resources(len + d)) /\ Len(answer') = Len(answer)
    BY <1>1, <2>1, <2>2, ResourcesMoved
  <2>5. authority' \in Seq(Resources(len + d)) /\ Len(authority') = Len(authority)
    BY <1>1, <2>1, <2>2, ResourcesMoved
  <2>6. additional' \in Seq(Resources(len + d)) /\ Len(additional') = Len(additional)
    BY <1>1, <2>1, <2>2, ResourcesMoved
  <2>7. QED
    BY <2>3, <2>4, <2>5, <2>6
<1>9. /\ labels' \in Seq(Nat) /\ Len(labels') = Len(labels)
      /\ \A i \in 1 .. Len(labels') : labels'[i] + 4 <= len + d
  BY <1>1, <1>2, <1>3, <1>4, LabelsMovedTyped
<1>10. bytes' \in Buffer(buflen)
  <2>1. answer'[next] \in Resources(len + d)
    BY <1>3, <1>8, ElementOfSeq
  <2>2. answer'[next].rdata \in Nat
    BY <2>1 DEF Resources
  <2>3. Word(Synthesized)
    BY PrefixTyped, SmallWord
  <2>4. Write16(resized, answer'[next].rdlength, Synthesized) \in Buffer(buflen)
    BY <1>2, <1>6, <2>3, Write16Typed
  <2>5. QED
    BY <1>1, <1>2, <1>7, <2>2, <2>4, WriteAt
<1>11. TypeOK'
  <2>1. /\ Len(question) + Len(answer) + Len(authority) + Len(additional) <= Len(labels)
        /\ dgram \in Seq(Bytes) /\ begin \in Nat
        /\ pc \in {"header", "entries", "answers", "sent", "dropped"}
    BY DEF TypeInv, TypeOK
  <2>2. next' \in 1 .. Len(answer') + 1
    <3>1. Len(answer) \in Nat
      BY DEF TypeInv, InBuffer
    <3>2. Len(answer') = Len(answer) /\ next' = next + 1 /\ next \in 1 .. Len(answer)
      BY <1>1, <1>3, <1>8
    <3>3. QED
      BY <3>1, <3>2
  <2>3. len' \in 0 .. buflen'
    BY <1>1, <1>2, <1>4
  <2>4. bytes' \in [0 .. buflen' - 1 -> Bytes]
    BY <1>1, <1>10 DEF Buffer
  <2>5. QED
    BY <1>1, <1>8, <1>9, <2>1, <2>2, <2>3, <2>4 DEF TypeOK
<1>12. InBuffer'
  BY <1>1, <1>8, <1>9 DEF InBuffer
<1>13. QED
  BY <1>1, <1>2, <1>11, <1>12 DEF TypeInv
-------------------------------------------------------------------------------
(* The bytes of a rewritten record *)

\* Where byte p is when d bytes are put in before from.
Place(p, from, d) == IF p >= from THEN p + d ELSE p

\* p is one of the two bytes of a pointer among ls.
InPointer(b, ls, p) ==
  \E j \in 1 .. Len(ls) : b[ls[j]] >= 192 /\ (p = ls[j] \/ p = ls[j] + 1)

\* What is not in the record's type, its length, its rdata or a pointer is in its
\* place; the pointers are, and point to where their targets are.
Rewritten(b, c, n, ls, qt, at, from, d) ==
  /\ \A p \in Nat :
       /\ p < n /\ (p < at \/ p >= from) /\ ~InPointer(b, ls, p)
       /\ p # qt /\ p # qt + 1 /\ p # qt + 8 /\ p # qt + 9
       => c[Place(p, from, d)] = b[p]
  /\ \A j \in 1 .. Len(ls) : b[ls[j]] >= 192 =>
       /\ c[Place(ls[j], from, d)] >= 192
       /\ Pointed(b, ls[j], c, Place(ls[j], from, d), at, d)

\* The labels are in front of the record's type or behind its rdata.
Clear(b, ls, qt, from) ==
  \A j \in 1 .. Len(ls) :
    \/ ls[j] < qt /\ (b[ls[j]] >= 192 => ls[j] + 1 < qt)
    \/ ls[j] >= from

\* The labels ls of the first n bytes after d more have been put in before from.
Placed(n, ls, ms, from, d) ==
  /\ Len(ms) = Len(ls)
  /\ \A j \in 1 .. Len(ls) : ls[j] + 4 <= n /\ ms[j] = Place(ls[j], from, d)

\* The steps of a record's rewriting, one buffer after the other.
Steps(m, n, b, typed, moved, r, w, c, ls, ms, qt, at, from, d) ==
  /\ \A p \in Nat : p < m /\ p # qt /\ p # qt + 1 => typed[p] = b[p]
  /\ \A p \in Nat : p < m =>
       moved[p] = IF at + 16 <= p /\ p < n + d THEN typed[p - d] ELSE typed[p]
  /\ Patched(m, moved, r, ms, at, d)
  /\ \A p \in Nat : p < m /\ p # qt + 8 /\ p # qt + 9 => w[p] = r[p]
  /\ \A p \in Nat : p < m /\ (p < at \/ p >= at + 16) => c[p] = w[p]

\* The type at qt is that of typed.
SameType(typed, c, qt) == U16(c, qt) = U16(typed, qt)

\* Together the steps of resize() and the setter rewrite the packet.
LEMMA StepsRewrite ==
  ASSUME NEW m \in Nat, NEW n \in 0 .. m, NEW b \in Buffer(m), NEW typed, NEW moved,
         NEW r, NEW w, NEW c, NEW ls \in Seq(Nat), NEW ms,
         NEW qt \in Nat, NEW at \in Nat, NEW from \in Nat, NEW d \in Nat,
         at = qt + 10, from + d = at + 16, from <= n, n + d <= m,
         Placed(n, ls, ms, from, d),
         Clear(b, ls, qt, from), at < from,
         Steps(m, n, b, typed, moved, r, w, c, ls, ms, qt, at, from, d)
  PROVE  Rewritten(b, c, n, ls, qt, at, from, d) /\ SameType(typed, c, qt)
<1>1. ASSUME NEW p \in Nat, p < n, p < at \/ p >= from, p # qt, p # qt + 1
      PROVE  /\ moved[Place(p, from, d)] = b[p]
             /\ Place(p, from, d) \in Nat /\ Place(p, from, d) < m
             /\ Place(p, from, d) < at \/ Place(p, from, d) >= at + 16
  <2>1. CASE p < at
    <3>1. Place(p, from, d) = p
      BY <2>1 DEF Place
    <3>2. moved[p] = typed[p] /\ typed[p] = b[p]
      BY <1>1, <2>1 DEF Steps
    <3>3. QED
      BY <1>1, <2>1, <3>1, <3>2
  <2>2. CASE p >= from
    <3>1. Place(p, from, d) = p + d
      BY <2>2 DEF Place
    <3>2. p + d \in Nat /\ p + d < m /\ at + 16 <= p + d /\ p + d < n + d /\ (p + d) - d = p
      BY <1>1, <2>2
    <3>3. moved[p + d] = typed[p]
      BY <3>2 DEF Steps
    <3>4. typed[p] = b[p]
      <4>1. p < m
        BY <1>1
      <4>2. QED
        BY <1>1, <4>1, Zenon DEF Steps
    <3>5. QED
      BY <3>1, <3>2, <3>3, <3>4
  <2>3. QED
    BY <1>1, <2>1, <2>2
<1>2. ASSUME NEW j \in 1 .. Len(ls)
      PROVE  /\ ls[j] \in Nat /\ ms[j] = Place(ls[j], from, d) /\ ms[j] \in Nat /\ ms[j] < m
             /\ moved[ms[j]] = b[ls[j]]
             /\ b[ls[j]] >= 192 =>
                  /\ moved[ms[j] + 1] = b[ls[j] + 1] /\ ms[j] + 1 < m
                  /\ ms[j] + 1 < qt \/ ms[j] >= at + 16
             /\ ms[j] < qt \/ ms[j] >= at + 16
             /\ ls[j] < qt \/ ls[j] >= from
             /\ b[ls[j]] >= 192 => ls[j] + 1 < qt \/ ls[j] >= from
  <2> DEFINE l == ls[j]
  <2>1. l \in Nat /\ l + 4 <= n /\ ms[j] = Place(l, from, d)
    BY DEF Placed
  <2>2. l < qt \/ l >= from
    BY DEF Clear
  <2>3. b[l] >= 192 => l + 1 < qt \/ l >= from
    BY DEF Clear
  <2> HIDE DEF l
  <2>4. l < n /\ (l < at \/ l >= from) /\ l # qt /\ l # qt + 1
    BY <2>1, <2>2
  <2>5. moved[ms[j]] = b[l] /\ ms[j] \in Nat /\ ms[j] < m
    BY <1>1, <2>1, <2>4
  <2>6. ms[j] < qt \/ ms[j] >= at + 16
    BY <2>1, <2>2 DEF Place
  <2>7. ASSUME b[l] >= 192
        PROVE  /\ moved[ms[j] + 1] = b[l + 1] /\ ms[j] + 1 < m
               /\ ms[j] + 1 < qt \/ ms[j] >= at + 16
    <3>1. l + 1 < qt \/ l >= from
      BY <2>3, <2>7
    <3>2. l + 1 \in Nat /\ l + 1 < n /\ (l + 1 < at \/ l + 1 >= from) /\ l + 1 # qt /\ l + 1 # qt + 1
      BY <2>1, <3>1
    <3>3. Place(l + 1, from, d) = Place(l, from, d) + 1
      BY <2>1, <3>1 DEF Place
    <3>4. moved[Place(l + 1, from, d)] = b[l + 1] /\ Place(l + 1, from, d) < m
      BY <1>1, <3>2
    <3>5. ms[j] + 1 < qt \/ ms[j] >= at + 16
      BY <2>1, <3>1 DEF Place
    <3>6. QED
      BY <2>1, <3>3, <3>4, <3>5
  <2>8. QED
    BY <2>1, <2>2, <2>3, <2>5, <2>6, <2>7 DEF l
<1>3. ASSUME NEW p \in Nat, p < n, p < at \/ p >= from, ~InPointer(b, ls, p),
             p # qt, p # qt + 1, p # qt + 8, p # qt + 9
      PROVE  c[Place(p, from, d)] = b[p]
  <2> DEFINE x == Place(p, from, d)
  <2>1. /\ moved[x] = b[p] /\ x \in Nat /\ x < m
        /\ x < at \/ x >= at + 16
    BY <1>1, <1>3
  <2>2. x = IF p >= from THEN p + d ELSE p
    BY DEF Place
  <2> HIDE DEF x
  <2>3. ASSUME NEW j \in 1 .. Len(ms), moved[ms[j]] >= 192
        PROVE  x # ms[j] /\ x # ms[j] + 1
    <3> DEFINE l == ls[j]
               y == ms[j]
    <3>1. j \in 1 .. Len(ls)
      BY DEF Placed
    <3>2. l \in Nat /\ y = Place(l, from, d) /\ b[l] >= 192
      BY <1>2, <2>3, <3>1
    <3>3. l + 1 < qt \/ l >= from
      BY <1>2, <3>1, <3>2
    <3>4. p # l /\ p # l + 1
      BY <1>3, <3>1, <3>2 DEF InPointer
    <3> HIDE DEF l, y
    <3>5. x # y /\ x # y + 1
      BY <1>3, <2>2, <3>2, <3>3, <3>4 DEF Place
    <3>6. QED
      BY <3>5 DEF y
  <2>4. r[x] = moved[x]
    BY <2>1, <2>3 DEF Steps, Patched
  <2>5. x # qt + 8 /\ x # qt + 9
    BY <1>3, <2>1, <2>2
  <2>6. w[x] = r[x]
    BY <2>1, <2>5 DEF Steps
  <2>7. c[x] = w[x]
    BY <2>1 DEF Steps
  <2>8. QED
    BY <2>1, <2>4, <2>6, <2>7 DEF x
<1>4. ASSUME NEW j \in 1 .. Len(ls), b[ls[j]] >= 192
      PROVE  /\ c[Place(ls[j], from, d)] >= 192
             /\ Pointed(b, ls[j], c, Place(ls[j], from, d), at, d)
  <2> DEFINE y == ms[j]
  <2>1. j \in 1 .. Len(ms)
    BY DEF Placed
  <2>2. /\ y = Place(ls[j], from, d) /\ y \in Nat /\ y + 1 < m
        /\ moved[y] >= 192 /\ (y + 1 < qt \/ y >= at + 16)
        /\ moved[y] = b[ls[j]] /\ moved[y + 1] = b[ls[j] + 1]
    BY <1>2, <1>4
  <2>3. r[y] >= 192 /\ Pointed(moved, y, r, y, at, d)
    BY <2>1, <2>2 DEF Steps, Patched
  <2> HIDE DEF y
  <2>4. /\ y # qt + 8 /\ y # qt + 9 /\ (y < at \/ y >= at + 16) /\ y < m
        /\ y + 1 \in Nat /\ y + 1 # qt + 8 /\ y + 1 # qt + 9 /\ (y + 1 < at \/ y + 1 >= at + 16)
    BY <2>2, SMTT(20)
  <2>5. c[y] = w[y] /\ w[y] = r[y] /\ c[y + 1] = w[y + 1] /\ w[y + 1] = r[y + 1]
    BY <2>2, <2>4 DEF Steps
  <2>6. Offset(c, y) = Offset(r, y) /\ Offset(moved, y) = Offset(b, ls[j])
    BY <2>2, <2>5, Zenon DEF Offset, U16
  <2>7. Pointed(b, ls[j], c, y, at, d)
    BY <2>3, <2>6, Zenon DEF Pointed
  <2>8. QED
    BY <2>2, <2>3, <2>5, <2>7, Zenon
<1>5. ASSUME NEW p \in Nat, p = qt \/ p = qt + 1
      PROVE  c[p] = typed[p]
  <2>1. p < at /\ p < m /\ ~(at + 16 <= p) /\ p # qt + 8 /\ p # qt + 9
    BY <1>5
  <2>2. moved[p] = typed[p]
    BY <2>1 DEF Steps
  <2>3. ASSUME NEW j \in 1 .. Len(ms), moved[ms[j]] >= 192
        PROVE  p # ms[j] /\ p # ms[j] + 1
    <3> DEFINE y == ms[j]
    <3>1. j \in 1 .. Len(ls)
      BY DEF Placed
    <3>2. y \in Nat /\ (y + 1 < qt \/ y >= at + 16)
      BY <1>2, <2>3, <3>1
    <3> HIDE DEF y
    <3>3. p # y /\ p # y + 1
      BY <1>5, <2>1, <3>2
    <3>4. QED
      BY <3>3 DEF y
  <2>4. r[p] = moved[p]
    BY <2>1, <2>3 DEF Steps, Patched
  <2>5. w[p] = r[p]
    BY <2>1 DEF Steps
  <2>6. c[p] = w[p]
    BY <2>1 DEF Steps
  <2>7. QED
    BY <2>2, <2>4, <2>5, <2>6
<1>6. c[qt] = typed[qt] /\ c[qt + 1] = typed[qt + 1]
  BY <1>5
<1>7. SameType(typed, c, qt)
  BY <1>6 DEF SameType, U16
<1>8. QED
  BY <1>3, <1>4, <1>7 DEF Rewritten

\* A shift of what is behind keeps labels apart.
LEMMA ApartMoved ==
  ASSUME NEW ls \in Seq(Nat), Apart(ls), NEW ms, Len(ms) = Len(ls), NEW from \in Nat, NEW d \in Nat,
         \A j \in 1 .. Len(ls) : ms[j] = Place(ls[j], from, d)
  PROVE  Apart(ms)
<1> SUFFICES ASSUME NEW i \in 1 .. Len(ls), NEW k \in 1 .. Len(ls), i < k
             PROVE  ms[i] + 2 <= ms[k]
  BY DEF Apart
<1> DEFINE x == ls[i]
           y == ls[k]
<1>1. x \in Nat /\ y \in Nat /\ x + 2 <= y
  BY DEF Apart
<1>2. ms[i] = Place(x, from, d) /\ ms[k] = Place(y, from, d)
  OBVIOUS
<1> HIDE DEF x, y
<1>3. Place(x, from, d) + 2 <= Place(y, from, d)
  BY <1>1 DEF Place
<1>4. QED
  BY <1>2, <1>3

\* The record that is rewritten: where its type is, and its rdata, from at up to
\* from, and by how much that grows.
Record(qt, at, from, d) ==
  LET e == answer[next]
      old == U16(bytes, e.rdlength)
  IN /\ qt = e.qtype
     /\ at = e.rdata
     /\ from = at + old
     /\ d = Synthesized - old

\* The record at qt has become an AAAA record, the address at at embedded in the prefix.
Embedded(b, c, qt, at) ==
  U16(c, qt) = TypeAAAA /\ Slice(c, at, 16) = Prefix \o Slice(b, at, 4)

\* SynthesizeRecord takes these steps.
LEMMA SynthesizedBytes ==
  ASSUME TypeInv, SynthesizeRecord, Apart(labels),
         NEW qt \in Nat, NEW at \in Nat, NEW from \in Nat, NEW d \in Nat, Record(qt, at, from, d),
         at < from, from <= len, Clear(bytes, labels, qt, from)
  PROVE  /\ Rewritten(bytes, bytes', len, labels, qt, at, from, d)
         /\ U16(bytes', qt + 8) = 16
         /\ bytes' \in Buffer(buflen)
         /\ len + d <= buflen /\ from + d = at + 16 /\ at = qt + 10
         /\ \A j \in 1 .. Len(labels) : labels'[j] = Place(labels[j], from, d)
         /\ Embedded(bytes, bytes', qt, at)
<1> DEFINE e == answer[next]
           old == U16(bytes, e.rdlength)
           ipv6 == Prefix \o [i \in 1..4 |-> bytes[at + i - 1]]
           typed == Write16(bytes, qt, TypeAAAA)
           moved == Move(typed, at + Synthesized, at + old, len - (at + old))
           r == Resized(typed, at, old, Synthesized)
           w == Write16(r, qt + 8, Synthesized)
           ms == LabelsMoved(at, d)
<1>1. /\ AtA /\ ~TooLong(old, Synthesized)
      /\ answer' = AllMoved(answer, at, d)
      /\ labels' = LabelsMoved(at, d)
      /\ bytes' = Write(Write16(r, answer'[next].rdlength, Synthesized), answer'[next].rdata, ipv6)
  BY DEF SynthesizeRecord, Record
<1>2. buflen \in Nat /\ bytes \in Buffer(buflen) /\ len \in 0 .. buflen /\ len \in Nat
      /\ labels \in Seq(Nat) /\ (\A i \in 1 .. Len(labels) : labels[i] + 4 <= len)
      /\ answer \in Seq(Resources(len))
  BY DEF TypeInv, TypeOK, InBuffer, Buffer
<1>3. /\ next \in 1 .. Len(answer) /\ old \in Nat /\ old <= 16 /\ 16 - old <= buflen - len
      /\ e \in Resources(len)
  BY <1>1, RecordTypes
<1>4. e.begin \in Nat /\ e.begin < qt /\ e.rdlength = qt + 8 /\ e.rdata = at
      /\ at = qt + 10
  <2> HIDE DEF e
  <2>1. e.begin \in Nat /\ e.qtype \in Nat /\ e.begin < e.qtype /\ e.rdlength = e.qtype + 8
        /\ e.rdata = e.qtype + 10
    BY <1>3 DEF Resources
  <2>2. QED
    BY <2>1 DEF e, Record
<1>5. answer'[next].rdlength = qt + 8 /\ answer'[next].rdata = at
  <2>1. answer'[next] = Moved(e, at, d)
    BY <1>1, <1>2, <1>3 DEF AllMoved
  <2>2. ~(e.begin > at)
    BY <1>4
  <2>3. Moved(e, at, d) = e
    BY <2>2 DEF Moved
  <2>4. QED
    BY <1>4, <2>1, <2>3
<1>6. bytes' = Write(w, at, ipv6)
  BY <1>1, <1>5
<1>7. from = at + old /\ d = 16 - old
  BY PrefixTyped DEF Record
<1> HIDE DEF e, old
<1>8. len + d <= buflen /\ from + d = at + 16 /\ at + 4 <= buflen
  BY <1>2, <1>3, <1>7
<1>9. /\ typed \in Buffer(buflen) /\ U16(typed, qt) = TypeAAAA
      /\ (\A p \in Nat : p < buflen /\ p # qt /\ p # qt + 1 => typed[p] = bytes[p])
  <2>1. Word(TypeAAAA)
    BY SmallWord DEF TypeAAAA
  <2>2. qt + 1 < buflen
    BY <1>2, <1>4, <1>8
  <2>3. QED
    BY <1>2, <1>4, <2>1, <2>2, Write16Typed, Write16At
<1> HIDE DEF typed
<1>10. /\ moved \in Buffer(buflen)
       /\ \A p \in Nat : p < buflen =>
            moved[p] = IF at + 16 <= p /\ p < len + d THEN typed[p - d] ELSE typed[p]
  <2> DEFINE count == len - (at + old)
             to == at + 16
  <2>1. to \in Nat /\ from \in Nat /\ count \in Int /\ from + count <= buflen
        /\ moved = Move(typed, to, from, count)
    BY <1>2, <1>3, <1>7, PrefixTyped
  <2>2. count = len - from
    BY <1>7
  <2> HIDE DEF moved, count, to
  <2>3. typed \in Buffer(buflen) /\ buflen \in Nat
    BY <1>2, <1>9
  <2>4. moved \in Buffer(buflen)
        /\ \A p \in 0 .. buflen - 1 :
             moved[p] = IF to <= p /\ p < to + count THEN typed[p - to + from] ELSE typed[p]
    <3>1. /\ Move(typed, to, from, count) \in Buffer(buflen)
          /\ \A p \in 0 .. buflen - 1 :
               Move(typed, to, from, count)[p]
                 = IF to <= p /\ p < to + count THEN typed[p - to + from] ELSE typed[p]
      BY <2>1, <2>3, MoveAt
    <3>2. moved = Move(typed, to, from, count)
      BY <2>1
    <3>3. QED
      BY <3>1, <3>2, Zenon
  <2>5. ASSUME NEW p \in Nat, p < buflen
        PROVE  moved[p] = IF at + 16 <= p /\ p < len + d THEN typed[p - d] ELSE typed[p]
    <3>1. p \in 0 .. buflen - 1
      BY <1>2, <2>5
    <3>2. p - to + from = p - d /\ to + count = len + d
      BY <1>2, <1>3, <1>8, <2>2 DEF to
    <3>3. QED
      BY <2>4, <3>1, <3>2 DEF to
  <2>6. QED
    BY <2>4, <2>5
<1>11. ms \in Seq(Nat) /\ Len(ms) = Len(labels)
       /\ \A j \in 1 .. Len(labels) : ms[j] = IF labels[j] > at THEN labels[j] + d ELSE labels[j]
  BY <1>2, <1>3, <1>8, LabelsMovedTyped
<1> HIDE DEF ms
<1>12. \A j \in 1 .. Len(labels) : ms[j] = Place(labels[j], from, d)
  <2>1. TAKE j \in 1 .. Len(labels)
  <2> DEFINE l == labels[j]
  <2>2. l < qt \/ l >= from
    BY DEF Clear
  <2>3. l \in Nat
    BY <1>2, ElementOfSeq
  <2>4. ms[j] = IF l > at THEN l + d ELSE l
    BY <1>11, Zenon
  <2> HIDE DEF l
  <2>5. ms[j] = Place(l, from, d)
    BY <1>4, <2>2, <2>3, <2>4 DEF Place
  <2>6. QED
    BY <2>5 DEF l
<1>13. Apart(ms)
  BY <1>2, <1>8, <1>11, <1>12, ApartMoved
<1>14. r \in Buffer(buflen) /\ Patched(buflen, moved, r, ms, at, d)
  <2>1. Synthesized \in Nat /\ old <= Synthesized /\ Synthesized - old <= buflen - len
        /\ Synthesized - old = d
    BY <1>3, <1>7, PrefixTyped
  <2>2. ms = LabelsMoved(at, Synthesized - old)
    BY <2>1 DEF ms
  <2>3. /\ r \in Buffer(buflen)
        /\ Apart(LabelsMoved(at, Synthesized - old)) =>
             Patched(buflen, moved, r, LabelsMoved(at, Synthesized - old),
                     at, Synthesized - old)
    BY <1>2, <1>3, <1>9, <2>1, ResizedAt
  <2>4. QED
    BY <1>13, <2>1, <2>2, <2>3
<1> HIDE DEF moved, r
<1>15. /\ w \in Buffer(buflen)
       /\ \A p \in Nat : p < buflen /\ p # qt + 8 /\ p # qt + 9 => w[p] = r[p]
       /\ U16(w, qt + 8) = 16
  <2>1. Word(Synthesized) /\ Synthesized = 16
    BY PrefixTyped, SmallWord
  <2>2. qt + 8 \in Nat /\ (qt + 8) + 1 < buflen /\ (qt + 8) + 1 = qt + 9
    BY <1>2, <1>4, <1>8
  <2>3. QED
    BY <1>2, <1>14, <2>1, <2>2, Write16Typed, Write16At
<1> HIDE DEF w
<1>16. ipv6 \in Seq(Bytes) /\ Len(ipv6) = 16
  BY <1>2, <1>3, <1>8, AddressTyped
<1> HIDE DEF ipv6
<1>17. /\ bytes' \in Buffer(buflen)
       /\ \A p \in Nat : p < buflen /\ (p < at \/ p >= at + 16) => bytes'[p] = w[p]
  <2> DEFINE written == Write(w, at, ipv6)
  <2>1. /\ written \in Buffer(buflen)
        /\ \A p \in 0 .. buflen - 1 : p < at \/ p >= at + Len(ipv6) => written[p] = w[p]
    <3>1. w \in Buffer(buflen) /\ buflen \in Nat /\ ipv6 \in Seq(Bytes)
      BY <1>2, <1>15, <1>16
    <3>2. QED
      BY <3>1, WriteAt
  <2> HIDE DEF written
  <2>2. \A p \in Nat : p < buflen => p \in 0 .. buflen - 1
    BY <1>2
  <2>3. \A p \in Nat : p < buflen /\ (p < at \/ p >= at + 16) => written[p] = w[p]
    BY <1>16, <2>1, <2>2
  <2>4. QED
    BY <1>6, <2>1, <2>3 DEF written
<1>18. U16(bytes', qt + 8) = 16
  <2>1. qt + 8 \in Nat /\ qt + 8 < buflen /\ qt + 8 < at
        /\ (qt + 8) + 1 \in Nat /\ (qt + 8) + 1 < buflen /\ (qt + 8) + 1 < at
    BY <1>2, <1>4, <1>8
  <2>2. bytes'[qt + 8] = w[qt + 8] /\ bytes'[(qt + 8) + 1] = w[(qt + 8) + 1]
    BY <1>17, <2>1
  <2>3. QED
    BY <1>15, <2>2 DEF U16
<1>19. Steps(buflen, len, bytes, typed, moved, r, w, bytes', labels, ms, qt, at, from, d)
  BY <1>9, <1>10, <1>14, <1>15, <1>17 DEF Steps
<1>20. Placed(len, labels, ms, from, d)
  BY <1>2, <1>11, <1>12 DEF Placed
<1>21. Rewritten(bytes, bytes', len, labels, qt, at, from, d) /\ SameType(typed, bytes', qt)
  BY <1>2, <1>4, <1>8, <1>19, <1>20, StepsRewrite
<1>22. \A j \in 1 .. Len(labels) : labels'[j] = Place(labels[j], from, d)
  BY <1>1, <1>12 DEF ms
<1>23. Slice(bytes', at, 16) = Prefix \o Slice(bytes, at, 4)
  <2>1. at + Len(ipv6) <= buflen /\ w \in Buffer(buflen) /\ buflen \in Nat /\ ipv6 \in Seq(Bytes)
    <3>1. from <= len
      OBVIOUS
    <3>2. QED
      BY <1>2, <1>8, <1>15, <1>16, <3>1
  <2>2. Slice(Write(w, at, ipv6), at, Len(ipv6)) = ipv6
    BY <2>1, WrittenSlice
  <2>3. ipv6 = Prefix \o Slice(bytes, at, 4)
    BY DEF ipv6, Slice
  <2>4. QED
    BY <1>6, <1>16, <2>2, <2>3
<1>24. Embedded(bytes, bytes', qt, at)
  BY <1>9, <1>21, <1>23 DEF Embedded, SameType
<1>25. QED
  BY <1>4, <1>8, <1>17, <1>18, <1>21, <1>22, <1>24

\* The labels are in front of an entry's type or behind it.
LEMMA LayoutClear ==
  ASSUME NEW m \in Nat, NEW b \in Buffer(m), NEW n \in 0 .. m, NEW q \in Nat, NEW es,
         Len(es) \in Nat, NEW stop \in Nat, Tiled(b, n, q, es, stop), NEW ls, Listed(b, n, es, ls),
         NEW j \in 1 .. Len(es)
  PROVE  Clear(b, ls, es[j].qtype, EndOf(b, q, es, j))
<1> DEFINE x == es[j].qtype
           y == es[j].begin
           z == EndOf(b, q, es, j)
<1>1. x \in Nat /\ y \in Nat /\ z \in Nat /\ y < x
  BY EndWithin
<1>2. ASSUME NEW k \in 1 .. Len(ls)
      PROVE  (ls[k] < x /\ (b[ls[k]] >= 192 => ls[k] + 1 < x)) \/ ls[k] >= z
  <2> DEFINE l == ls[k]
  <2>1. PICK i \in 1 .. Len(es) : HasLabel(b, n, es[i], l)
    BY DEF Listed
  <2>2. EntryLaid(b, n, Kind(q, i), es[i])
    BY DEF Tiled
  <2>3. l \in Nat /\ l < es[i].qtype /\ (b[l] >= 192 => l + 2 <= es[i].qtype)
    BY <2>1, <2>2, LabelInside
  <2>4. CASE i = j
    <3>1. l < x /\ (b[l] >= 192 => l + 2 <= x)
      BY <2>3, <2>4
    <3> HIDE DEF l, x, y, z
    <3>2. l < x /\ (b[l] >= 192 => l + 1 < x)
      BY <1>1, <2>3, <3>1
    <3>3. QED
      BY <3>2 DEF l
  <2>5. CASE i < j
    <3>1. l < y /\ (b[l] >= 192 => l + 1 < y)
      BY <2>1, <2>5, LabelOwner
    <3> HIDE DEF l, x, y, z
    <3>2. l < x /\ (b[l] >= 192 => l + 1 < x)
      BY <1>1, <2>3, <3>1
    <3>3. QED
      BY <3>2 DEF l
  <2>6. CASE j < i
    <3>1. z <= l
      BY <2>1, <2>6, LabelOwner
    <3> HIDE DEF x, y, z, l
    <3>2. l >= z
      BY <1>1, <2>3, <3>1
    <3>3. QED
      BY <3>2 DEF l
  <2>7. QED
    BY <2>4, <2>5, <2>6
<1>3. QED
  BY <1>2 DEF Clear

\* No pointer is in the fields of an entry,
LEMMA FieldNotInPointer ==
  ASSUME NEW m \in Nat, NEW b \in Buffer(m), NEW n \in 0 .. m, NEW q \in Nat, NEW es,
         Len(es) \in Nat, NEW stop \in Nat, Tiled(b, n, q, es, stop), NEW ls, Listed(b, n, es, ls),
         NEW i \in 1 .. Len(es), NEW p \in Nat, InFields(b, q, es, i, p)
  PROVE  ~InPointer(b, ls, p)
<1>1. ASSUME NEW j \in 1 .. Len(ls), b[ls[j]] >= 192
      PROVE  p # ls[j] /\ p # ls[j] + 1
  <2>1. PICK k \in 1 .. Len(es) : HasLabel(b, n, es[k], ls[j])
    BY DEF Listed
  <2>2. QED
    BY <1>1, <2>1, FieldsFree
<1>2. QED
  BY <1>1 DEF InPointer

\* in a label that is none,
LEMMA LabelNotInPointer ==
  ASSUME NEW m \in Nat, NEW b \in Buffer(m), NEW n \in 0 .. m, NEW es,
         NEW ls \in Seq(Nat), Listed(b, n, es, ls),
         NEW i \in 1 .. Len(es), NEW l \in Nat, HasLabel(b, n, es[i], l), l < m, b[l] < 192
  PROVE  ~InPointer(b, ls, l)
<1>1. PICK k \in 1 .. Len(ls) : ls[k] = l
  BY DEF Listed
<1>2. ASSUME NEW j \in 1 .. Len(ls), b[ls[j]] >= 192, l = ls[j] \/ l = ls[j] + 1
      PROVE  FALSE
  <2> DEFINE x == ls[j]
  <2>1. x \in Nat /\ b[l] \in Nat
    BY ByteAt, SMTT(20)
  <2>2. l # x
    BY <1>2, <2>1, SMTT(20)
  <2>3. l = x + 1
    BY <1>2, <2>2
  <2>4. j # k
    BY <1>1, <2>2
  <2>5. CASE j < k
    <3>1. x + 2 <= l
      BY <1>1, <2>5 DEF Listed, Apart
    <3> HIDE DEF x
    <3>2. QED
      BY <2>1, <2>3, <3>1
  <2>6. CASE k < j
    <3>1. l + 2 <= x
      BY <1>1, <2>6 DEF Listed, Apart
    <3> HIDE DEF x
    <3>2. QED
      BY <2>1, <2>3, <3>1
  <2>7. QED
    BY <2>4, <2>5, <2>6
<1>3. QED
  BY <1>2 DEF InPointer

\* or in the header.
LEMMA HeaderNotInPointer ==
  ASSUME NEW m \in Nat, NEW b \in Buffer(m), NEW n \in 0 .. m, NEW q \in Nat, NEW es,
         Len(es) \in Nat, NEW stop \in Nat, Tiled(b, n, q, es, stop), NEW ls, Listed(b, n, es, ls),
         NEW p \in Nat, p < 12
  PROVE  ~InPointer(b, ls, p)
<1>1. ASSUME NEW j \in 1 .. Len(ls)
      PROVE  p # ls[j] /\ p # ls[j] + 1
  <2>1. PICK k \in 1 .. Len(es) : HasLabel(b, n, es[k], ls[j])
    BY DEF Listed
  <2>2. ls[j] \in Nat /\ ls[j] >= 12
    BY <2>1, BehindHeader
  <2> DEFINE x == ls[j]
  <2> HIDE DEF x
  <2>3. x \in Nat /\ x >= 12
    BY <2>2 DEF x
  <2>4. p # x /\ p # x + 1
    BY <2>3
  <2>5. QED
    BY <2>4 DEF x
<1>2. QED
  BY <1>1 DEF InPointer
-------------------------------------------------------------------------------
(* The layout around a rewritten record *)

\* Label l moves by t.
PlacedBy(l, from, d, t) == Place(l, from, d) = l + t

\* The labels of the entries, and where they are when entry j has grown by d in front of from.
LabelsMoveOn(b, c, n, after, es, fs, j, from, d) ==
  \A i \in 1 .. Len(es) :
    /\ SameLabels(b, c, n, after, es[i], fs[i], Shift(i, j, d))
    /\ \A l \in Nat : HasLabel(b, n, es[i], l) => PlacedBy(l, from, d, Shift(i, j, d))

\* When the packet's labels are moved with the entries they are in, they are those found there.
LEMMA ListedMoved ==
  ASSUME NEW b, NEW c, NEW n, NEW after, NEW es, NEW fs, Len(fs) = Len(es),
         NEW ls \in Seq(Nat), NEW ms, NEW j \in Nat, NEW from \in Nat, NEW d \in Nat,
         Listed(b, n, es, ls), Placed(n, ls, ms, from, d),
         LabelsMoveOn(b, c, n, after, es, fs, j, from, d)
  PROVE  Listed(c, after, fs, ms)
<1>1. Len(ms) = Len(ls) /\ \A k \in 1 .. Len(ls) : ms[k] = Place(ls[k], from, d)
  BY DEF Placed
<1>2. Apart(ms)
  BY <1>1, ApartMoved DEF Listed
<1>3. ASSUME NEW i \in 1 .. Len(es), NEW l \in Nat, HasLabel(c, after, fs[i], l)
      PROVE  \E k \in 1 .. Len(ms) : ms[k] = l
  <2>1. PICK x \in Nat : HasLabel(b, n, es[i], x) /\ l = x + Shift(i, j, d)
    BY <1>3 DEF LabelsMoveOn, SameLabels
  <2>2. PICK k \in 1 .. Len(ls) : ls[k] = x
    BY <2>1 DEF Listed
  <2>3. Place(x, from, d) = x + Shift(i, j, d)
    BY <2>1 DEF LabelsMoveOn, PlacedBy
  <2>4. QED
    BY <1>1, <2>1, <2>2, <2>3
<1>4. ASSUME NEW k \in 1 .. Len(ms)
      PROVE  \E i \in 1 .. Len(fs) : HasLabel(c, after, fs[i], ms[k])
  <2>1. k \in 1 .. Len(ls) /\ ls[k] \in Nat
    BY <1>1
  <2>2. PICK i \in 1 .. Len(es) : HasLabel(b, n, es[i], ls[k])
    BY <2>1 DEF Listed
  <2>3. HasLabel(c, after, fs[i], ls[k] + Shift(i, j, d))
    BY <2>1, <2>2 DEF LabelsMoveOn, SameLabels
  <2>4. ms[k] = ls[k] + Shift(i, j, d)
    BY <1>1, <2>1, <2>2 DEF LabelsMoveOn, PlacedBy
  <2>5. QED
    BY <2>3, <2>4
<1>5. QED
  BY <1>2, <1>3, <1>4 DEF Listed

\* Record j of a packet, from its type to the end of its rdata, and the packet's own layout.
Around(b, n, q, es, stop, ls, j, qt, at, from, d) ==
  /\ Len(es) \in Nat /\ j \in 1 .. Len(es) /\ q < j
  /\ stop <= n /\ Tiled(b, n, q, es, stop) /\ Listed(b, n, es, ls)
  /\ qt = es[j].qtype /\ at = qt + 10 /\ from = EndOf(b, q, es, j)
  /\ at < from /\ from + d = at + 16

\* Every entry is moved as resize() moves it.
Grown(es, fs, at, d) ==
  /\ Len(fs) = Len(es)
  /\ \A i \in 1 .. Len(es) : fs[i] = Moved(es[i], at, d)

\* What is in front of record j stays in front of from, what is behind it begins there.
LEMMA AroundOrder ==
  ASSUME NEW m \in Nat, NEW b \in Buffer(m), NEW n \in 0 .. m, NEW q \in Nat, NEW es,
         NEW stop \in Nat, NEW ls, NEW j \in Nat, NEW qt \in Nat, NEW at \in Nat,
         NEW from \in Nat, NEW d \in Nat, Around(b, n, q, es, stop, ls, j, qt, at, from, d),
         NEW i \in 1 .. Len(es)
  PROVE  LET x == es[i].begin
             y == es[i].qtype
             z == EndOf(b, q, es, i)
         IN /\ x \in Nat /\ y \in Nat /\ z \in Nat /\ x < y /\ y + 4 <= z /\ z <= n
            /\ i < j => z < qt
            /\ j < i => from <= x
            /\ i = j => x < qt /\ y = qt
            /\ at = qt + 10 /\ at < from /\ from <= n /\ i \in Nat
<1> DEFINE x == es[i].begin
           y == es[i].qtype
           z == EndOf(b, q, es, i)
           v == es[j].begin
<1>1. /\ Len(es) \in Nat /\ j \in 1 .. Len(es) /\ stop <= n
      /\ Tiled(b, n, q, es, stop) /\ Listed(b, n, es, ls)
      /\ qt = es[j].qtype /\ at = qt + 10 /\ from = EndOf(b, q, es, j) /\ at < from
  BY DEF Around
<1>2. x \in Nat /\ y \in Nat /\ z \in Nat /\ x < y /\ y + 4 <= z /\ z <= n
  BY <1>1, EndWithin
<1>3. v \in Nat /\ v < qt /\ from <= n
  BY <1>1, EndWithin
<1>4. /\ i < j => z <= v
      /\ j < i => from <= x
      /\ i = j => x = v /\ y = qt
  BY <1>1, FieldsApart
<1>5. at = qt + 10 /\ at < from /\ i \in Nat
  BY <1>1
<1> HIDE DEF x, y, z, v
<1>6. /\ i < j => z < qt
      /\ j < i => from <= x
      /\ i = j => x < qt /\ y = qt
  BY <1>2, <1>3, <1>4
<1>7. QED
  BY <1>2, <1>3, <1>5, <1>6 DEF x, y, z

\* p is neither in the type, the length and the rdata of the record nor behind the packet.
Aside(p, n, qt, at, from) ==
  /\ p < n /\ (p < at \/ p >= from)
  /\ p # qt /\ p # qt + 1 /\ p # qt + 8 /\ p # qt + 9

\* resize() moves the entries behind the record and no other: where the rdata begins
\* tells them apart, because it is not empty.
LEMMA AroundBegin ==
  ASSUME NEW m \in Nat, NEW b \in Buffer(m), NEW n \in 0 .. m, NEW q \in Nat, NEW es,
         NEW stop \in Nat, NEW ls, NEW j \in Nat, NEW qt \in Nat, NEW at \in Nat,
         NEW from \in Nat, NEW d \in Nat, Around(b, n, q, es, stop, ls, j, qt, at, from, d),
         NEW i \in 1 .. Len(es)
  PROVE  es[i].begin > at <=> i > j
<1> DEFINE x == es[i].begin
           y == es[i].qtype
           z == EndOf(b, q, es, i)
<1>1. /\ x \in Nat /\ y \in Nat /\ z \in Nat /\ x < y /\ y + 4 <= z /\ z <= n
      /\ i < j => z < qt
      /\ j < i => from <= x
      /\ i = j => x < qt /\ y = qt
      /\ at = qt + 10 /\ at < from /\ from <= n /\ i \in Nat
  BY AroundOrder
<1> HIDE DEF x, y, z
<1>2. x > at <=> i > j
  BY <1>1
<1>3. QED
  BY <1>2 DEF x

\* The labels of an entry move with it, and the record's fields have none.
LEMMA AroundLabel ==
  ASSUME NEW m \in Nat, NEW b \in Buffer(m), NEW n \in 0 .. m, NEW q \in Nat, NEW es,
         NEW stop \in Nat, NEW ls, NEW j \in Nat, NEW qt \in Nat, NEW at \in Nat,
         NEW from \in Nat, NEW d \in Nat, Around(b, n, q, es, stop, ls, j, qt, at, from, d),
         NEW i \in 1 .. Len(es),
         NEW l, HasLabel(b, n, es[i], l)
  PROVE  l \in Nat /\ Aside(l, n, qt, at, from) /\ PlacedBy(l, from, d, Shift(i, j, d))
<1> DEFINE x == es[i].begin
           y == es[i].qtype
           z == EndOf(b, q, es, i)
<1>1. /\ x \in Nat /\ y \in Nat /\ z \in Nat /\ x < y /\ y + 4 <= z /\ z <= n
      /\ i < j => z < qt
      /\ j < i => from <= x
      /\ i = j => x < qt /\ y = qt
      /\ at = qt + 10 /\ at < from /\ from <= n /\ i \in Nat
  BY AroundOrder
<1>2. EntryLaid(b, n, Kind(q, i), es[i])
  BY DEF Around, Tiled
<1>3. l \in Nat /\ x <= l /\ l < y
  BY <1>2, LabelInside
<1> HIDE DEF x, y, z
<1>4. CASE i <= j
  <2>1. l < qt
    BY <1>1, <1>3, <1>4
  <2>2. QED
    BY <1>1, <1>3, <1>4, <2>1 DEF Place, PlacedBy, Shift, Aside
<1>5. CASE i > j
  <2>1. l >= from /\ l < n
    BY <1>1, <1>3, <1>5
  <2>2. QED
    BY <1>1, <1>3, <1>5, <2>1 DEF Place, PlacedBy, Shift, Aside
<1>6. QED
  BY <1>1, <1>4, <1>5

\* The fields of another entry move with it.
LEMMA AroundField ==
  ASSUME NEW m \in Nat, NEW b \in Buffer(m), NEW n \in 0 .. m, NEW q \in Nat, NEW es,
         NEW stop \in Nat, NEW ls, NEW j \in Nat, NEW qt \in Nat, NEW at \in Nat,
         NEW from \in Nat, NEW d \in Nat, Around(b, n, q, es, stop, ls, j, qt, at, from, d),
         NEW i \in 1 .. Len(es),
         i # j, NEW p \in Nat, InFields(b, q, es, i, p)
  PROVE  Aside(p, n, qt, at, from) /\ Place(p, from, d) = p + Shift(i, j, d)
<1> DEFINE x == es[i].begin
           y == es[i].qtype
           z == EndOf(b, q, es, i)
<1>1. /\ x \in Nat /\ y \in Nat /\ z \in Nat /\ x < y /\ y + 4 <= z /\ z <= n
      /\ i < j => z < qt
      /\ j < i => from <= x
      /\ i = j => x < qt /\ y = qt
      /\ at = qt + 10 /\ at < from /\ from <= n /\ i \in Nat
  BY AroundOrder
<1>2. y <= p /\ p < z
  BY DEF InFields
<1> HIDE DEF x, y, z
<1>3. CASE i < j
  <2>1. p < qt
    BY <1>1, <1>2, <1>3
  <2>2. QED
    BY <1>1, <1>3, <2>1 DEF Place, Shift, Aside
<1>4. CASE i > j
  <2>1. p >= from /\ p < n
    BY <1>1, <1>2, <1>4
  <2>2. QED
    BY <1>1, <1>4, <2>1 DEF Place, Shift, Aside
<1>5. QED
  BY <1>1, <1>3, <1>4

\* The bytes of the header and of the other entries' fields are kept.
LEMMA HeaderKept ==
  ASSUME NEW m \in Nat, NEW b \in Buffer(m), NEW c, NEW n \in 0 .. m, NEW q \in Nat, NEW es,
         NEW stop \in Nat, NEW ls, NEW j \in Nat, NEW qt \in Nat, NEW at \in Nat,
         NEW from \in Nat, NEW d \in Nat, Around(b, n, q, es, stop, ls, j, qt, at, from, d),
         Rewritten(b, c, n, ls, qt, at, from, d), NEW p \in Nat, p < 12
  PROVE  c[p] = b[p]
<1>1. /\ Len(es) \in Nat /\ j \in 1 .. Len(es) /\ stop <= n
      /\ Tiled(b, n, q, es, stop) /\ Listed(b, n, es, ls)
      /\ qt = es[j].qtype /\ at = qt + 10 /\ from = EndOf(b, q, es, j) /\ at < from
  BY DEF Around
<1> DEFINE x == es[j].begin
<1>2. x \in Nat /\ x >= 12 /\ x < qt
  BY <1>1, BehindHeader, EndWithin
<1>3. from <= n /\ at = qt + 10 /\ at < from
  BY <1>1, EndWithin
<1>4. ~InPointer(b, ls, p)
  BY <1>1, HeaderNotInPointer
<1> HIDE DEF x
<1>5. Aside(p, n, qt, at, from) /\ Place(p, from, d) = p
  BY <1>2, <1>3 DEF Place, Aside
<1>6. QED
  BY <1>4, <1>5 DEF Rewritten, Aside

\* The bytes of the fields of another entry are found where these are now.
LEMMA FieldKept ==
  ASSUME NEW m \in Nat, NEW b \in Buffer(m), NEW c, NEW n \in 0 .. m, NEW q \in Nat, NEW es,
         NEW stop \in Nat, NEW ls, NEW j \in Nat, NEW qt \in Nat, NEW at \in Nat,
         NEW from \in Nat, NEW d \in Nat, Around(b, n, q, es, stop, ls, j, qt, at, from, d),
         Rewritten(b, c, n, ls, qt, at, from, d),
         NEW i \in 1 .. Len(es), i # j, NEW p \in Nat, InFields(b, q, es, i, p)
  PROVE  KeptAt(b, c, p, Shift(i, j, d))
<1>1. Len(es) \in Nat /\ Tiled(b, n, q, es, stop) /\ Listed(b, n, es, ls)
  BY DEF Around
<1>2. ~InPointer(b, ls, p)
  BY <1>1, FieldNotInPointer
<1>3. Aside(p, n, qt, at, from) /\ Place(p, from, d) = p + Shift(i, j, d)
  BY AroundField
<1>4. QED
  BY <1>2, <1>3 DEF Rewritten, Aside, KeptAt

\* The labels of all entries are found where they are now, pointers as pointers.
LEMMA AroundLabels ==
  ASSUME NEW m \in Nat, NEW b \in Buffer(m), NEW c, NEW n \in 0 .. m, NEW q \in Nat, NEW es,
         NEW stop \in Nat, NEW ls \in Seq(Nat), NEW j \in Nat, NEW qt \in Nat, NEW at \in Nat,
         NEW from \in Nat, NEW d \in Nat, Around(b, n, q, es, stop, ls, j, qt, at, from, d),
         Rewritten(b, c, n, ls, qt, at, from, d), NEW i \in 1 .. Len(es)
  PROVE  LabelsOn(b, c, n, es[i], Shift(i, j, d))
<1>1. Listed(b, n, es, ls)
  BY DEF Around
<1>2. ASSUME NEW l \in Nat, HasLabel(b, n, es[i], l)
      PROVE  /\ b[l] < 192 => c[l + Shift(i, j, d)] = b[l]
             /\ b[l] >= 192 => c[l + Shift(i, j, d)] >= 192
  <2>1. Aside(l, n, qt, at, from) /\ PlacedBy(l, from, d, Shift(i, j, d))
    BY <1>2, AroundLabel
  <2>2. l < n /\ n <= m
    BY <2>1 DEF Aside
  <2>3. CASE b[l] < 192
    <3>1. l < m
      BY <2>2
    <3>2. ~InPointer(b, ls, l)
      BY <1>1, <1>2, <2>3, <3>1, LabelNotInPointer
    <3>3. c[Place(l, from, d)] = b[l]
      BY <2>1, <3>2 DEF Rewritten, Aside
    <3>4. b[l] \in Nat
      BY <3>1, ByteAt
    <3>5. QED
      BY <2>1, <2>3, <3>3, <3>4 DEF PlacedBy
  <2>4. CASE b[l] >= 192
    <3>1. PICK k \in 1 .. Len(ls) : ls[k] = l
      BY <1>1, <1>2 DEF Listed
    <3>2. c[Place(l, from, d)] >= 192
      BY <2>4, <3>1 DEF Rewritten
    <3>3. b[l] \in Nat
      BY <2>2, ByteAt
    <3>4. QED
      BY <2>1, <2>4, <3>2, <3>3, SMTT(20) DEF PlacedBy
  <2>5. b[l] \in Nat
    BY <2>2, ByteAt
  <2>6. QED
    BY <2>3, <2>4, <2>5
<1>3. QED
  BY <1>2 DEF LabelsOn

\* The type and the length of e are found t bytes on.
SameNumbers(b, c, e, t) ==
  /\ U16(c, e.qtype + t) = U16(b, e.qtype)
  /\ U16(c, e.rdlength + t) = U16(b, e.rdlength)

\* A number in the fields of another entry is kept.
LEMMA AroundNumbers ==
  ASSUME NEW m \in Nat, NEW b \in Buffer(m), NEW c, NEW n \in 0 .. m, NEW q \in Nat, NEW es,
         NEW stop \in Nat, NEW ls, NEW j \in Nat, NEW qt \in Nat, NEW at \in Nat,
         NEW from \in Nat, NEW d \in Nat, Around(b, n, q, es, stop, ls, j, qt, at, from, d),
         Rewritten(b, c, n, ls, qt, at, from, d),
         NEW i \in 1 .. Len(es), i # j, q < i
  PROVE  SameNumbers(b, c, es[i], Shift(i, j, d))
<1> DEFINE x == es[i].qtype
           t == Shift(i, j, d)
<1>1. Len(es) \in Nat /\ Tiled(b, n, q, es, stop)
  BY DEF Around
<1>2. x \in Nat /\ es[i].rdlength = x + 8 /\ \A k \in 0 .. 9 : InFields(b, q, es, i, x + k)
  BY <1>1, ResourceFields
<1>3. t \in Nat
  BY ShiftTyped
<1>4. ASSUME NEW p \in Nat, InFields(b, q, es, i, p)
      PROVE  c[p + t] = b[p]
  <2>1. KeptAt(b, c, p, Shift(i, j, d))
    BY <1>4, FieldKept
  <2>2. QED
    BY <2>1 DEF KeptAt
<1> HIDE DEF x, t
<1>5. c[x + t] = b[x] /\ c[x + t + 1] = b[x + 1]
      /\ c[(x + 8) + t] = b[x + 8] /\ c[(x + 8) + t + 1] = b[(x + 8) + 1]
  <2>1. /\ c[(x + 0) + t] = b[x + 0] /\ c[(x + 1) + t] = b[x + 1]
        /\ c[(x + 8) + t] = b[x + 8] /\ c[(x + 9) + t] = b[x + 9]
    <3>1. x + 0 \in Nat /\ x + 1 \in Nat /\ x + 8 \in Nat /\ x + 9 \in Nat
      BY <1>2
    <3>2. /\ InFields(b, q, es, i, x + 0) /\ InFields(b, q, es, i, x + 1)
          /\ InFields(b, q, es, i, x + 8) /\ InFields(b, q, es, i, x + 9)
      BY <1>2
    <3>3. QED
      BY <1>4, <3>1, <3>2
  <2>2. /\ (x + 0) + t = x + t /\ x + 0 = x /\ (x + 1) + t = x + t + 1
        /\ (x + 9) + t = (x + 8) + t + 1 /\ x + 9 = (x + 8) + 1
    BY <1>2, <1>3
  <2>3. QED
    BY <2>1, <2>2
<1>6. U16(c, x + t) = U16(b, x) /\ U16(c, (x + 8) + t) = U16(b, x + 8)
  BY <1>5 DEF U16
<1>7. QED
  BY <1>2, <1>6 DEF x, t, SameNumbers

\* f is e with its pointers moved by t, in n bytes.
MovedBy(n, s, e, f, t) ==
  /\ f \in Shape(n, s)
  /\ f.begin = e.begin + t
  /\ f.qtype = e.qtype + t
  /\ s # 1 => f.rdlength = e.rdlength + t

\* Where the entries are afterwards.
LEMMA AroundMoved ==
  ASSUME NEW m \in Nat, NEW b \in Buffer(m), NEW n \in 0 .. m, NEW q \in Nat, NEW es, NEW fs,
         NEW stop \in Nat, NEW ls, NEW j \in Nat, NEW qt \in Nat, NEW at \in Nat,
         NEW from \in Nat, NEW d \in Nat, Around(b, n, q, es, stop, ls, j, qt, at, from, d),
         Grown(es, fs, at, d), NEW i \in 1 .. Len(es)
  PROVE  MovedBy(n + d, Kind(q, i), es[i], fs[i], Shift(i, j, d))
<1> DEFINE e == es[i]
<1>1. Tiled(b, n, q, es, stop) /\ Len(es) \in Nat
  BY DEF Around
<1>2. EntryLaid(b, n, Kind(q, i), e)
  BY <1>1 DEF Tiled
<1>3. /\ e \in Shape(n, Kind(q, i)) /\ e.begin \in Nat /\ e.qtype \in Nat
      /\ Kind(q, i) # 1 => e.rdlength = e.qtype + 8
  BY <1>2, ShapeFields, SMTT(20) DEF EntryLaid
<1>4. fs[i] = Moved(e, at, d)
  BY DEF Grown
<1>5. e.begin > at <=> i > j
  BY AroundBegin
<1>6. n \in Nat
  OBVIOUS
<1> DEFINE s == Kind(q, i)
           t == Shift(i, j, d)
<1>7. t = IF i > j THEN d ELSE 0
  BY DEF Shift
<1> HIDE DEF e, s, t
<1>8. /\ fs[i] \in Shape(n + d, s)
      /\ ~(e.begin > at) => fs[i] = e
      /\ e.begin > at =>
           /\ fs[i].begin = e.begin + d
           /\ fs[i].qtype = e.qtype + d
           /\ s # 1 => fs[i].rdlength = e.rdlength + d
  BY <1>3, <1>4, <1>6, MovedFields DEF s
<1>9. CASE i > j
  <2>1. MovedBy(n + d, s, e, fs[i], t)
    BY <1>5, <1>7, <1>8, <1>9 DEF MovedBy
  <2>2. QED
    BY <2>1 DEF e, s, t
<1>10. CASE ~(i > j)
  <2>1. t = 0 /\ fs[i] = e
    BY <1>5, <1>7, <1>8, <1>10
  <2>2. /\ fs[i].begin = e.begin + 0 /\ fs[i].qtype = e.qtype + 0
        /\ s # 1 => fs[i].rdlength = e.rdlength + 0
    BY <1>3, <2>1, SMTT(20) DEF s
  <2>3. MovedBy(n + d, s, e, fs[i], t)
    BY <1>8, <2>1, <2>2 DEF MovedBy
  <2>4. QED
    BY <2>3 DEF e, s, t
<1>11. QED
  BY <1>9, <1>10

\* When a record has been rewritten, the packet is laid out as before.
LEMMA AroundLayout ==
  ASSUME NEW m \in Nat, NEW b \in Buffer(m), NEW c \in Buffer(m), NEW n \in 0 .. m,
         NEW q \in Nat, NEW es, NEW fs, NEW stop \in Nat, NEW ls \in Seq(Nat), NEW ms,
         NEW j \in Nat, NEW qt \in Nat, NEW at \in Nat, NEW from \in Nat, NEW d \in Nat,
         Around(b, n, q, es, stop, ls, j, qt, at, from, d), n + d <= m,
         Rewritten(b, c, n, ls, qt, at, from, d), U16(c, qt + 8) = 16,
         Placed(n, ls, ms, from, d), Grown(es, fs, at, d)
  PROVE  Tiled(c, n + d, q, fs, stop + d) /\ Listed(c, n + d, fs, ms)
<1>1. /\ Len(es) \in Nat /\ j \in 1 .. Len(es) /\ q < j /\ stop <= n
      /\ Tiled(b, n, q, es, stop) /\ Listed(b, n, es, ls)
  BY DEF Around
<1>2. U16(b, es[j].rdlength) + d = 16 /\ es[j].rdlength = qt + 8
  <2> DEFINE old == U16(b, es[j].rdlength)
  <2>1. /\ qt = es[j].qtype /\ at = qt + 10 /\ from = EndOf(b, q, es, j) /\ from + d = at + 16
    BY DEF Around
  <2>2. /\ es[j].rdlength = es[j].qtype + 8 /\ es[j].rdata = es[j].qtype + 10 /\ old \in Nat
        /\ EndOf(b, q, es, j) = es[j].rdata + old
    BY <1>1, ResourceFields
  <2>3. from = qt + 10 + old /\ from + d = qt + 10 + 16
    BY <2>1, <2>2
  <2> HIDE DEF old
  <2>4. old \in Nat
    BY <2>2
  <2>5. old + d = 16
    BY <2>3, <2>4
  <2>6. QED
    BY <2>1, <2>2, <2>5 DEF old
<1>3. ASSUME NEW i \in 1 .. Len(es)
      PROVE  /\ fs[i] \in Shape(n + d, Kind(q, i))
             /\ fs[i].begin = es[i].begin + Shift(i, j, d)
             /\ fs[i].qtype = es[i].qtype + Shift(i, j, d)
             /\ LabelsOn(b, c, n, es[i], Shift(i, j, d))
             /\ i <= q => Growth(i, j, d) = 0
             /\ i > q => U16(c, fs[i].rdlength) = U16(b, es[i].rdlength) + Growth(i, j, d)
  <2>1. /\ fs[i] \in Shape(n + d, Kind(q, i))
        /\ fs[i].begin = es[i].begin + Shift(i, j, d)
        /\ fs[i].qtype = es[i].qtype + Shift(i, j, d)
        /\ q < i => fs[i].rdlength = es[i].rdlength + Shift(i, j, d)
    <3>1. MovedBy(n + d, Kind(q, i), es[i], fs[i], Shift(i, j, d))
      BY AroundMoved
    <3>2. q < i => Kind(q, i) # 1
      BY DEF Kind
    <3>3. QED
      BY <3>1, <3>2 DEF MovedBy
  <2>2. LabelsOn(b, c, n, es[i], Shift(i, j, d))
    BY AroundLabels
  <2>3. i <= q => Growth(i, j, d) = 0
    BY <1>1 DEF Growth
  <2>4. ASSUME i > q
        PROVE  U16(c, fs[i].rdlength) = U16(b, es[i].rdlength) + Growth(i, j, d)
    <3>1. q < i
      BY <2>4
    <3>2. CASE i = j
      <4>1. Shift(i, j, d) = 0 /\ Growth(i, j, d) = d
        BY <3>2 DEF Shift, Growth
      <4>2. (qt + 8) + 0 = qt + 8
        OBVIOUS
      <4>3. fs[i].rdlength = qt + 8
        BY <1>2, <2>1, <3>1, <3>2, <4>1, <4>2
      <4>4. QED
        BY <1>2, <3>2, <4>1, <4>3
    <3>3. CASE i # j
      <4>1. Growth(i, j, d) = 0
        BY <3>3 DEF Growth
      <4>2. U16(c, es[i].rdlength + Shift(i, j, d)) = U16(b, es[i].rdlength)
        <5>1. SameNumbers(b, c, es[i], Shift(i, j, d))
          BY <3>1, <3>3, AroundNumbers
        <5>2. QED
          BY <5>1 DEF SameNumbers
      <4>3. U16(b, es[i].rdlength) \in Nat
        BY <1>1, <3>1, ResourceFields
      <4>4. QED
        BY <2>1, <3>1, <4>1, <4>2, <4>3
    <3>4. QED
      BY <3>2, <3>3
  <2>5. QED
    BY <2>1, <2>2, <2>3, <2>4
<1>4. MovedOn(b, c, n, q, es, fs, j, d)
  BY <1>3 DEF MovedOn
<1>5. Len(fs) = Len(es)
  BY DEF Grown
<1>6. Len(es) > 0
  BY <1>1
<1>7. /\ Tiled(c, n + d, q, fs, stop + d)
      /\ \A i \in 1 .. Len(es) :
           SameLabels(b, c, n, n + d, es[i], fs[i], Shift(i, j, d))
  <2>1. MovedLayout(b, c, n, q, es, fs, stop, j, d)
    BY <1>1, <1>4, <1>5, <1>6, TiledMoved
  <2>2. QED
    BY <2>1 DEF MovedLayout
<1>8. LabelsMoveOn(b, c, n, n + d, es, fs, j, from, d)
  <2>1. ASSUME NEW i \in 1 .. Len(es), NEW l \in Nat, HasLabel(b, n, es[i], l)
        PROVE  PlacedBy(l, from, d, Shift(i, j, d))
    BY <2>1, AroundLabel
  <2>2. QED
    BY <1>7, <2>1 DEF LabelsMoveOn
<1>9. Listed(c, n + d, fs, ms)
  BY <1>1, <1>5, <1>8, ListedMoved
<1>10. QED
  BY <1>7, <1>9

\* What is moved in two sequences is moved in both together.
LEMMA GrownConcat ==
  ASSUME NEW S, NEW T, NEW a \in Seq(S), NEW b \in Seq(S), NEW u \in Seq(T), NEW v \in Seq(T),
         NEW at, NEW d, Grown(a, u, at, d), Grown(b, v, at, d)
  PROVE  Grown(a \o b, u \o v, at, d)
<1> DEFINE x == a \o b
           y == u \o v
<1>1. /\ Len(x) = Len(a) + Len(b)
      /\ \A i \in 1 .. Len(a) + Len(b) : x[i] = IF i <= Len(a) THEN a[i] ELSE b[i - Len(a)]
  BY ConcatProperties
<1>2. /\ Len(y) = Len(u) + Len(v)
      /\ \A i \in 1 .. Len(u) + Len(v) : y[i] = IF i <= Len(u) THEN u[i] ELSE v[i - Len(u)]
  BY ConcatProperties
<1> HIDE DEF x, y
<1>3. Len(u) = Len(a) /\ Len(v) = Len(b) /\ Len(a) \in Nat /\ Len(b) \in Nat
  BY DEF Grown
<1>4. ASSUME NEW i \in 1 .. Len(x) PROVE y[i] = Moved(x[i], at, d)
  <2>1. CASE i <= Len(a)
    <3>1. i \in 1 .. Len(a)
      BY <1>1, <2>1
    <3>2. x[i] = a[i] /\ y[i] = u[i]
      BY <1>1, <1>2, <1>3, <2>1
    <3>3. QED
      BY <3>1, <3>2 DEF Grown
  <2>2. CASE ~(i <= Len(a))
    <3>1. i - Len(a) \in 1 .. Len(b)
      BY <1>1, <1>3, <2>2
    <3>2. x[i] = b[i - Len(a)] /\ y[i] = v[i - Len(a)]
      BY <1>1, <1>2, <1>3, <2>2
    <3>3. QED
      BY <3>1, <3>2 DEF Grown
  <2>3. QED
    BY <2>1, <2>2
<1>5. QED
  BY <1>1, <1>2, <1>3, <1>4 DEF Grown, x, y

\* AllMoved moves every question,
LEMMA QuestionsGrown ==
  ASSUME NEW n \in Nat, NEW at \in Nat, NEW d \in Nat, NEW es \in Seq(Questions(n))
  PROVE  Grown(es, AllMoved(es, at, d), at, d)
BY QuestionsMoved DEF Grown

\* and every resource,
LEMMA ResourcesGrown ==
  ASSUME NEW n \in Nat, NEW at \in Nat, NEW d \in Nat, NEW es \in Seq(Resources(n))
  PROVE  Grown(es, AllMoved(es, at, d), at, d)
BY ResourcesMoved DEF Grown

\* and so all the entries of the packet.
LEMMA JoinGrown ==
  ASSUME NEW n \in Nat, NEW at \in Nat, NEW z \in Nat,
         NEW a \in Seq(Questions(n)), NEW b \in Seq(Resources(n)),
         NEW c \in Seq(Resources(n)), NEW d \in Seq(Resources(n))
  PROVE  Grown(Join(a, b, c, d),
               Join(AllMoved(a, at, z), AllMoved(b, at, z), AllMoved(c, at, z), AllMoved(d, at, z)),
               at, z)
<1> DEFINE S == Questions(n) \cup Resources(n)
           T == Questions(n + z) \cup Resources(n + z)
           a1 == AllMoved(a, at, z)
           b1 == AllMoved(b, at, z)
           c1 == AllMoved(c, at, z)
           d1 == AllMoved(d, at, z)
<1>1. Grown(a, a1, at, z) /\ a1 \in Seq(Questions(n + z))
  BY QuestionsMoved DEF Grown
<1>2. /\ Grown(b, b1, at, z) /\ b1 \in Seq(Resources(n + z))
      /\ Grown(c, c1, at, z) /\ c1 \in Seq(Resources(n + z))
      /\ Grown(d, d1, at, z) /\ d1 \in Seq(Resources(n + z))
  <2>1. \A es \in Seq(Resources(n)) : AllMoved(es, at, z) \in Seq(Resources(n + z))
    BY ResourcesMoved
  <2>2. \A es \in Seq(Resources(n)) : Grown(es, AllMoved(es, at, z), at, z)
    BY ResourcesGrown
  <2>3. QED
    BY <2>1, <2>2
<1> HIDE DEF a1, b1, c1, d1
<1>3. Questions(n) \subseteq S /\ Resources(n) \subseteq S
      /\ Questions(n + z) \subseteq T /\ Resources(n + z) \subseteq T
  OBVIOUS
<1> HIDE DEF S, T
<1>4. a \in Seq(S) /\ b \in Seq(S) /\ c \in Seq(S) /\ d \in Seq(S)
  BY <1>3, SeqWider
<1>5. a1 \in Seq(T) /\ b1 \in Seq(T) /\ c1 \in Seq(T) /\ d1 \in Seq(T)
  BY <1>1, <1>2, <1>3, SeqWider
<1>6. /\ a \o b \in Seq(S) /\ a1 \o b1 \in Seq(T)
      /\ Grown(a \o b, a1 \o b1, at, z)
  BY <1>1, <1>2, <1>4, <1>5, GrownConcat, ConcatProperties
<1>7. /\ (a \o b) \o c \in Seq(S) /\ (a1 \o b1) \o c1 \in Seq(T)
      /\ Grown((a \o b) \o c, (a1 \o b1) \o c1, at, z)
  BY <1>2, <1>4, <1>5, <1>6, GrownConcat, ConcatProperties
<1>8. Grown(((a \o b) \o c) \o d, ((a1 \o b1) \o c1) \o d1, at, z)
  BY <1>2, <1>4, <1>5, <1>7, GrownConcat
<1>9. QED
  BY <1>8 DEF Join, a1, b1, c1, d1

\* Writing the type of the question (qtype()) changes nothing of the layout.
LEMMA TypeWritten ==
  ASSUME NEW m \in Nat, NEW b \in Buffer(m), NEW c \in Buffer(m), NEW n \in 0 .. m, NEW q \in Nat,
         NEW es, Len(es) \in Nat, Len(es) > 0, NEW stop \in Nat, stop <= n,
         Tiled(b, n, q, es, stop), NEW ls \in Seq(Nat), Listed(b, n, es, ls),
         \A j \in 1 .. Len(ls) : ls[j] + 4 <= n, q >= 1, SameBut(b, c, m, es[1].qtype)
  PROVE  /\ Tiled(c, n, q, es, stop)
         /\ Listed(c, n, es, ls)
         /\ \A i \in 1 .. Len(es) : q < i => SameNumbers(b, c, es[i], 0)
<1> DEFINE qt == es[1].qtype
<1>1. 1 \in 1 .. Len(es)
  OBVIOUS
<1>2. qt \in Nat /\ InFields(b, q, es, 1, qt) /\ InFields(b, q, es, 1, qt + 1)
  <2> DEFINE x == EndOf(b, q, es, 1)
  <2>1. x \in Nat /\ qt \in Nat /\ qt + 4 <= x
    BY <1>1, EndWithin
  <2> HIDE DEF x, qt
  <2>2. qt <= qt /\ qt < x /\ qt <= qt + 1 /\ qt + 1 < x
    BY <2>1
  <2>3. QED
    BY <2>1, <2>2 DEF InFields, x, qt
<1>3. \A i \in 1 .. Len(es) : EntryLaid(b, n, Kind(q, i), es[i]) /\ es[i] \in Shape(n, Kind(q, i))
  BY DEF Tiled, EntryLaid
<1>4. ASSUME NEW i \in 1 .. Len(es), NEW l \in Nat, HasLabel(b, n, es[i], l)
      PROVE  c[l] = b[l]
  <2>1. l # qt /\ l # qt + 1
    <3>1. \A p \in Nat : InFields(b, q, es, 1, p) => p # l
      BY <1>1, <1>4, FieldsFree
    <3>2. qt + 1 \in Nat
      BY <1>2
    <3>3. QED
      BY <1>2, <3>1, <3>2
  <2>2. l < m
    <3>1. l < n
      BY <1>3, <1>4 DEF EntryLaid
    <3>2. QED
      BY <3>1
  <2>3. QED
    BY <2>1, <2>2 DEF SameBut
<1>5. ASSUME NEW i \in 1 .. Len(es), q < i
      PROVE  /\ es[i].qtype \in Nat /\ es[i].rdlength = es[i].qtype + 8
             /\ U16(c, es[i].qtype) = U16(b, es[i].qtype)
             /\ U16(c, es[i].rdlength) = U16(b, es[i].rdlength)
  <2> DEFINE x == es[i].qtype
  <2>1. x \in Nat /\ es[i].rdlength = x + 8 /\ (\A k \in 0 .. 9 : InFields(b, q, es, i, x + k))
    BY <1>5, ResourceFields
  <2>2. EndOf(b, q, es, i) \in Nat /\ EndOf(b, q, es, i) <= stop
    BY EndWithin
  <2>3. ASSUME NEW k \in 0 .. 9 PROVE c[x + k] = b[x + k]
    <3>1. InFields(b, q, es, i, x + k) /\ x + k \in Nat
      <4>1. InFields(b, q, es, i, x + k)
        BY <2>1
      <4>2. x \in Nat
        BY <2>1
      <4> HIDE DEF x
      <4>3. x + k \in Nat
        BY <4>2
      <4>4. QED
        BY <4>1, <4>3
    <3>2. 1 < i
      BY <1>5
    <3>3. qt < x + k /\ qt + 1 < x + k
      <4>1. \A p \in Nat, r \in Nat : InFields(b, q, es, 1, p) /\ InFields(b, q, es, i, r) => p < r
        BY <1>1, <3>2, FieldsApart
      <4>2. qt + 1 \in Nat
        BY <1>2
      <4>3. QED
        BY <1>2, <3>1, <4>1, <4>2
    <3>4. x + k < m
      <4> DEFINE y == EndOf(b, q, es, i)
      <4>1. x + k < y
        BY <3>1 DEF InFields
      <4>2. y \in Nat /\ y <= stop
        BY <2>2
      <4> HIDE DEF x, y
      <4>3. QED
        BY <3>1, <4>1, <4>2
    <3> HIDE DEF x, qt
    <3>5. x + k # qt /\ x + k # qt + 1
      BY <1>2, <3>1, <3>3
    <3>6. QED
      BY <3>1, <3>4, <3>5 DEF SameBut, qt
  <2> HIDE DEF x
  <2>4. c[x] = b[x] /\ c[x + 1] = b[x + 1] /\ c[x + 8] = b[x + 8] /\ c[(x + 8) + 1] = b[(x + 8) + 1]
    <3>1. c[x + 0] = b[x + 0] /\ c[x + 1] = b[x + 1] /\ c[x + 8] = b[x + 8] /\ c[x + 9] = b[x + 9]
      BY <2>3
    <3>2. x + 0 = x /\ (x + 8) + 1 = x + 9
      <4>1. x \in Nat
        BY <2>1
      <4>2. QED
        BY <4>1
    <3>3. QED
      BY <3>1, <3>2
  <2>5. U16(c, x) = U16(b, x) /\ U16(c, x + 8) = U16(b, x + 8)
    BY <2>4 DEF U16
  <2>6. QED
    BY <2>1, <2>5 DEF x
<1> HIDE DEF qt
<1> DEFINE j == Len(es)
<1>6. \A i \in 1 .. Len(es) : Shift(i, j, 0) = 0 /\ Growth(i, j, 0) = 0
  BY DEF Shift, Growth
<1>7. n + 0 = n /\ stop + 0 = stop
  OBVIOUS
<1>8. MovedOn(b, c, n, q, es, es, j, 0)
  <2>1. ASSUME NEW i \in 1 .. Len(es)
        PROVE  /\ es[i].begin = es[i].begin + 0
               /\ es[i].qtype = es[i].qtype + 0
               /\ LabelsOn(b, c, n, es[i], 0)
               /\ i > q => U16(c, es[i].rdlength) = U16(b, es[i].rdlength) + 0
    <3>1. es[i].begin \in Nat /\ es[i].qtype \in Nat
      BY <1>3, ShapeFields
    <3>2. LabelsOn(b, c, n, es[i], 0)
      <4>1. ASSUME NEW l \in Nat, HasLabel(b, n, es[i], l) PROVE c[l + 0] = b[l]
        <5>1. l + 0 = l
          OBVIOUS
        <5>2. QED
          BY <1>4, <4>1, <5>1
      <4>2. QED
        BY <4>1 DEF LabelsOn
    <3>3. ASSUME i > q PROVE U16(c, es[i].rdlength) = U16(b, es[i].rdlength) + 0
      <4>1. q < i
        BY <3>3
      <4>2. U16(b, es[i].rdlength) \in Nat
        BY <4>1, ResourceFields
      <4> DEFINE x == U16(b, es[i].rdlength)
      <4>3. x + 0 = x
        <5> HIDE DEF x
        <5>1. x \in Nat
          BY <4>2 DEF x
        <5>2. QED
          BY <5>1
      <4>4. QED
        BY <1>5, <4>1, <4>3
    <3>4. QED
      BY <3>1, <3>2, <3>3
  <2>2. QED
    BY <1>3, <1>6, <1>7, <2>1 DEF MovedOn
<1>9. MovedLayout(b, c, n, q, es, es, stop, j, 0)
  <2>1. 0 \in Nat /\ n + 0 <= m /\ j \in Nat /\ j \in 1 .. Len(es)
    OBVIOUS
  <2> HIDE DEF j
  <2>2. QED
    BY <1>8, <2>1, TiledMoved
<1>10. Tiled(c, n, q, es, stop) /\ \A i \in 1 .. Len(es) : SameLabels(b, c, n, n, es[i], es[i], 0)
  BY <1>6, <1>7, <1>9 DEF MovedLayout
<1>11. Listed(c, n, es, ls)
  <2>1. \A l \in Nat : Place(l, 0, 0) = l /\ PlacedBy(l, 0, 0, 0)
    BY DEF Place, PlacedBy
  <2>2. Placed(n, ls, ls, 0, 0)
    BY <2>1, ElementOfSeq DEF Placed
  <2>3. LabelsMoveOn(b, c, n, n, es, es, j, 0, 0)
    BY <1>6, <1>10, <2>1 DEF LabelsMoveOn
  <2>4. j \in Nat /\ 0 \in Nat
    OBVIOUS
  <2> HIDE DEF j
  <2>5. QED
    BY <2>2, <2>3, <2>4, ListedMoved
<1>12. ASSUME NEW i \in 1 .. Len(es), q < i PROVE SameNumbers(b, c, es[i], 0)
  <2> DEFINE x == es[i].qtype
             y == es[i].rdlength
  <2>1. x \in Nat /\ y = x + 8 /\ U16(c, x) = U16(b, x) /\ U16(c, y) = U16(b, y)
    BY <1>5, <1>12
  <2> HIDE DEF x, y
  <2>2. x + 0 = x /\ y + 0 = y
    BY <2>1
  <2>3. U16(c, x + 0) = U16(b, x) /\ U16(c, y + 0) = U16(b, y)
    BY <2>1, <2>2
  <2>4. QED
    BY <2>3 DEF SameNumbers, x, y
<1>13. QED
  BY <1>10, <1>11, <1>12
-------------------------------------------------------------------------------
(* The inductive invariant *)

\* All entries of the packet.
Entries == Join(question, answer, authority, additional)

\* The end of the last entry.
Stop == len - (ReceivedLength - begin)

\* The pointers are where the constructor would find the entries and their labels.
Laid ==
  /\ HeaderSize <= len
  /\ ReceivedLength \in begin .. len
  /\ Tiled(bytes, len, Len(question), Entries, Stop)
  /\ Listed(bytes, len, Entries, labels)

\* The sections are read one after the other.
InOrder ==
  /\ Len(question) <= Count(bytes, 1) /\ Len(answer) <= Count(bytes, 2)
  /\ Len(authority) <= Count(bytes, 3) /\ Len(additional) <= Count(bytes, 4)
  /\ Len(question) < Count(bytes, 1) => answer = <<>>
  /\ Len(question) < Count(bytes, 1) \/ Len(answer) < Count(bytes, 2) => authority = <<>>
  /\ \/ Len(question) < Count(bytes, 1)
     \/ Len(answer) < Count(bytes, 2)
     \/ Len(authority) < Count(bytes, 3)
     => additional = <<>>

\* All are read.
Complete ==
  /\ Len(question) = Count(bytes, 1) /\ Len(answer) = Count(bytes, 2)
  /\ Len(authority) = Count(bytes, 3) /\ Len(additional) = Count(bytes, 4)

\* Entry e has an address, if it is an A record.
Addressed(e) == U16(bytes, e.qtype) = TypeA => U16(bytes, e.rdlength) # 0

\* What the loop has still to come to can be translated.
Ahead == \A i \in next .. Len(answer) : Addressed(answer[i])

\* At the beginning there is nothing; while the constructor reads and while the
\* records are rewritten, the pointers are where they should be.
LayoutInv ==
  /\ pc = "header" =>
       /\ question = <<>> /\ answer = <<>> /\ authority = <<>> /\ additional = <<>>
       /\ labels = <<>> /\ begin = HeaderSize /\ len = ReceivedLength
  /\ pc = "entries" => Laid /\ InOrder /\ len = ReceivedLength
  /\ pc = "answers" => Laid /\ Complete /\ question # <<>> /\ Ahead

\* The inductive invariant.
IInv == TypeInv /\ LayoutInv

\* What the code takes for granted of a message that parses: there is a question
\* (question_[0] is read unchecked, query.cpp), and no A record of the answer has an
\* empty rdata (resize() compares with > and would leave the entry behind it where it
\* was; and four bytes are read there).
Translatable ==
  pc = "entries" /\ Unparsed = {} =>
    question # <<>> /\ \A i \in 1 .. Len(answer) : Addressed(answer[i])
-------------------------------------------------------------------------------
(* The steps *)

\* recvfrom() has returned.
LEMMA InitInv == Init => IInv
<1> SUFFICES ASSUME Init PROVE IInv
  OBVIOUS
<1>1. PICK d \in Datagrams, room \in Rooms :
        dgram = d /\ buflen = Len(d) + room /\ len = IF room < 0 THEN buflen ELSE Len(d)
  BY DEF Init
<1>2. d \in Seq(Bytes) /\ room \in Int /\ Len(d) \in Nat
  BY DatagramsAssumption
<1>3. len = ReceivedLength
  BY <1>1, <1>2 DEF ReceivedLength
<1>4. LayoutInv
  BY <1>3 DEF Init, LayoutInv
<1>5. QED
  BY <1>4, InitTypes DEF IInv

\* The sections have one type.
LEMMA SectionsTyped ==
  ASSUME TypeInv
  PROVE  LET S == Questions(len) \cup Resources(len)
         IN /\ question \in Seq(S) /\ answer \in Seq(S)
            /\ authority \in Seq(S) /\ additional \in Seq(S)
<1> DEFINE S == Questions(len) \cup Resources(len)
<1>1. Questions(len) \subseteq S /\ Resources(len) \subseteq S
  OBVIOUS
<1>2. /\ question \in Seq(Questions(len)) /\ answer \in Seq(Resources(len))
      /\ authority \in Seq(Resources(len)) /\ additional \in Seq(Resources(len))
  BY DEF TypeInv, InBuffer
<1> HIDE DEF S
<1>3. /\ question \in Seq(S) /\ answer \in Seq(S)
      /\ authority \in Seq(S) /\ additional \in Seq(S)
  BY <1>1, <1>2, SeqWider
<1>4. QED
  BY <1>3 DEF S

\* The entries of the packet, one behind the other.
LEMMA EntriesTyped ==
  ASSUME TypeInv
  PROVE  /\ Entries \in Seq(Questions(len) \cup Resources(len))
         /\ Len(Entries) \in Nat /\ Len(question) \in Nat /\ Len(answer) \in Nat
         /\ Len(Entries) = Len(question) + Len(answer) + Len(authority) + Len(additional)
         /\ \A i \in 1 .. Len(question) : Entries[i] = question[i]
         /\ \A i \in 1 .. Len(answer) : Entries[Len(question) + i] = answer[i]
<1> DEFINE S == Questions(len) \cup Resources(len)
<1>1. /\ question \in Seq(S) /\ answer \in Seq(S)
      /\ authority \in Seq(S) /\ additional \in Seq(S)
  BY SectionsTyped
<1> HIDE DEF S
<1>2. Joined(S, question, answer, authority, additional)
  BY <1>1, JoinAt
<1>3. Len(question) \in Nat /\ Len(answer) \in Nat /\ Len(authority) \in Nat /\ Len(additional) \in Nat
  BY <1>1
<1>4. QED
  BY <1>2, <1>3 DEF Joined, Entries, S

\* The header has been read, and no entry yet.
LEMMA ReadHeaderInv == IInv /\ ReadHeader => IInv'
<1> SUFFICES ASSUME IInv, ReadHeader PROVE IInv'
  OBVIOUS
<1>1. /\ TypeInv /\ pc = "header" /\ HeaderSize <= len /\ pc' = "entries"
      /\ UNCHANGED <<dgram, buflen, len, bytes, question, answer, authority, additional,
                     labels, begin, next>>
  BY DEF IInv, ReadHeader, entries, TypeInv, TypeOK, HeaderSize
<1>2. /\ question = <<>> /\ answer = <<>> /\ authority = <<>> /\ additional = <<>>
      /\ labels = <<>> /\ begin = HeaderSize /\ len = ReceivedLength
  BY <1>1 DEF IInv, LayoutInv
<1>3. buflen \in Nat /\ bytes \in Buffer(buflen) /\ len \in 0 .. buflen
  BY <1>1 DEF TypeInv, TypeOK, Buffer
<1>4. TypeInv'
  BY <1>1 DEF TypeInv, TypeOK, InBuffer
<1>5. Len(question) = 0 /\ Len(answer) = 0 /\ Len(authority) = 0 /\ Len(additional) = 0
      /\ Len(labels) = 0
  BY <1>2
<1>6. Len(Entries) = 0
  BY <1>1, <1>5, EntriesTyped
<1>7. InOrder
  <2>1. Count(bytes, 1) \in Nat /\ Count(bytes, 2) \in Nat /\ Count(bytes, 3) \in Nat
        /\ Count(bytes, 4) \in Nat
    <3>1. HeaderSize <= buflen
      BY <1>1, <1>3 DEF HeaderSize
    <3>2. QED
      BY <1>3, <3>1, CountTyped
  <2>2. QED
    BY <1>2, <1>5, <2>1 DEF InOrder
<1>8. Stop = HeaderSize
  BY <1>2, <1>3 DEF Stop, HeaderSize
<1>9. Tiled(bytes, len, Len(question), Entries, Stop) /\ Listed(bytes, len, Entries, labels)
  BY <1>5, <1>6, <1>8 DEF Tiled, Listed, Apart
<1>10. ReceivedLength \in begin .. len
  BY <1>1, <1>2, <1>3 DEF HeaderSize
<1>11. Laid
  BY <1>1, <1>9, <1>10 DEF Laid
<1>12. Laid' /\ InOrder' /\ len' = ReceivedLength'
  BY <1>1, <1>2, <1>7, <1>11 DEF Laid, InOrder, Stop, Entries, ReceivedLength
<1>13. LayoutInv'
  BY <1>1, <1>12 DEF LayoutInv
<1>14. QED
  BY <1>4, <1>13 DEF IInv

\* The section an entry is read for: those before it are read, those behind it empty.
LEMMA SectionOrder ==
  ASSUME TypeInv, InOrder, Unparsed # {}, HeaderSize <= len
  PROVE  /\ Section = 1 => answer = <<>> /\ authority = <<>> /\ additional = <<>>
                           /\ Len(question) + 1 <= Count(bytes, 1)
         /\ Section = 2 => authority = <<>> /\ additional = <<>>
                           /\ Len(question) = Count(bytes, 1) /\ Len(answer) + 1 <= Count(bytes, 2)
         /\ Section = 3 => additional = <<>>
                           /\ Len(question) = Count(bytes, 1) /\ Len(answer) = Count(bytes, 2)
                           /\ Len(authority) + 1 <= Count(bytes, 3)
         /\ Section = 4 => Len(question) = Count(bytes, 1) /\ Len(answer) = Count(bytes, 2)
                           /\ Len(authority) = Count(bytes, 3)
                           /\ Len(additional) + 1 <= Count(bytes, 4)
<1> DEFINE c1 == Count(bytes, 1)
           c2 == Count(bytes, 2)
           c3 == Count(bytes, 3)
           c4 == Count(bytes, 4)
<1>1. c1 \in Nat /\ c2 \in Nat /\ c3 \in Nat /\ c4 \in Nat
  <2>1. buflen \in Nat /\ bytes \in Buffer(buflen) /\ HeaderSize <= buflen
    BY DEF TypeInv, TypeOK, Buffer, HeaderSize
  <2>2. QED
    BY <2>1, CountTyped
<1>2. Len(question) \in Nat /\ Len(answer) \in Nat /\ Len(authority) \in Nat /\ Len(additional) \in Nat
  BY SectionsTyped
<1>3. Section \in 1 .. 4 /\ Section \in Unparsed /\ \A t \in Unparsed : Section <= t
  BY SectionTyped
<1>4. /\ 1 \in Unparsed <=> Len(question) < c1
      /\ 2 \in Unparsed <=> Len(answer) < c2
      /\ 3 \in Unparsed <=> Len(authority) < c3
      /\ 4 \in Unparsed <=> Len(additional) < c4
  BY DEF Unparsed, entries
<1>5. /\ Len(question) <= c1 /\ Len(answer) <= c2 /\ Len(authority) <= c3 /\ Len(additional) <= c4
      /\ Len(question) < c1 => answer = <<>>
      /\ Len(question) < c1 \/ Len(answer) < c2 => authority = <<>>
      /\ Len(question) < c1 \/ Len(answer) < c2 \/ Len(authority) < c3 => additional = <<>>
  BY DEF InOrder
<1> HIDE DEF c1, c2, c3, c4
<1>6. CASE Section = 1
  BY <1>1, <1>2, <1>3, <1>4, <1>5, <1>6 DEF c1
<1>7. CASE Section = 2
  BY <1>1, <1>2, <1>3, <1>4, <1>5, <1>7 DEF c1, c2
<1>8. CASE Section = 3
  BY <1>1, <1>2, <1>3, <1>4, <1>5, <1>8 DEF c1, c2, c3
<1>9. CASE Section = 4
  BY <1>1, <1>2, <1>3, <1>4, <1>5, <1>9 DEF c1, c2, c3, c4
<1>10. QED
  BY <1>3, <1>6, <1>7, <1>8, <1>9

\* An entry has been read.
LEMMA ReadEntryInv ==
  IInv /\ ReadEntry
    => IInv' /\ Appended(Entries, Entries', EntryAt(bytes, begin, len, Section))
<1> SUFFICES ASSUME IInv, ReadEntry
             PROVE  IInv' /\ Appended(Entries, Entries', EntryAt(bytes, begin, len, Section))
  OBVIOUS
<1> DEFINE s == Section
           e == EntryAt(bytes, begin, len, s)
<1>1. TypeInv /\ TypeInv'
  BY ReadEntryTypes DEF IInv
<1>2. pc = "entries" /\ Unparsed # {} /\ Laid /\ InOrder /\ len = ReceivedLength
  BY DEF IInv, LayoutInv, ReadEntry
<1>3. /\ Fits(bytes, e, len, s)
      /\ question' = IF s = 1 THEN Append(question, e) ELSE question
      /\ answer' = IF s = 2 THEN Append(answer, e) ELSE answer
      /\ authority' = IF s = 3 THEN Append(authority, e) ELSE authority
      /\ additional' = IF s = 4 THEN Append(additional, e) ELSE additional
      /\ labels' = labels \o NameLabels(bytes, begin, len)
      /\ begin' = EntryEnd(bytes, e, s)
      /\ UNCHANGED <<dgram, buflen, len, bytes, next, pc>>
  BY DEF ReadEntry
<1>4. buflen \in Nat /\ bytes \in Buffer(buflen) /\ len \in 0 .. buflen /\ begin \in Nat
      /\ labels \in Seq(Nat)
  BY <1>1 DEF TypeInv, TypeOK, Buffer
<1>5. HeaderSize <= len
  BY <1>2 DEF Laid
<1>6. s \in 1 .. 4
  BY <1>2, SectionTyped
<1>7. /\ s = 1 => answer = <<>> /\ authority = <<>> /\ additional = <<>>
                  /\ Len(question) + 1 <= Count(bytes, 1)
      /\ s = 2 => authority = <<>> /\ additional = <<>>
                  /\ Len(question) = Count(bytes, 1) /\ Len(answer) + 1 <= Count(bytes, 2)
      /\ s = 3 => additional = <<>>
                  /\ Len(question) = Count(bytes, 1) /\ Len(answer) = Count(bytes, 2)
                  /\ Len(authority) + 1 <= Count(bytes, 3)
      /\ s = 4 => Len(question) = Count(bytes, 1) /\ Len(answer) = Count(bytes, 2)
                  /\ Len(authority) = Count(bytes, 3)
                  /\ Len(additional) + 1 <= Count(bytes, 4)
  BY <1>1, <1>2, <1>5, SectionOrder
<1>8. EntryLaid(bytes, len, s, e) /\ e.begin = begin /\ e \in Questions(len) \cup Resources(len)
  BY <1>3, <1>4, <1>6, EntryRead
<1> HIDE DEF s, e
<1>9. begin' \in Nat /\ begin' <= len
  BY <1>3, <1>4, <1>8, EntryEndTyped
<1> DEFINE q == Len(question)
           r == Len(question')
           k == Len(Entries)
<1>10. /\ q \in Nat /\ k \in Nat /\ q <= k /\ (s = 1 => k = q)
       /\ r = IF s = 1 THEN q + 1 ELSE q
  <2>1. /\ question \in Seq(Questions(len) \cup Resources(len))
        /\ Len(question) \in Nat /\ Len(answer) \in Nat
        /\ Len(authority) \in Nat /\ Len(additional) \in Nat
    BY <1>1, SectionsTyped
  <2>2. k = Len(question) + Len(answer) + Len(authority) + Len(additional)
    BY <1>1, EntriesTyped
  <2>3. s = 1 => Len(answer) = 0 /\ Len(authority) = 0 /\ Len(additional) = 0
    BY <1>7
  <2>4. r = IF s = 1 THEN q + 1 ELSE q
    <3>1. CASE s = 1
      <4>1. question' = Append(question, e)
        BY <1>3, <3>1
      <4>2. Len(Append(question, e)) = Len(question) + 1
        BY <1>8, <2>1, AppendProperties
      <4>3. QED
        BY <3>1, <4>1, <4>2
    <3>2. CASE s # 1
      BY <1>3, <3>2
    <3>3. QED
      BY <3>1, <3>2
  <2> HIDE DEF k, r
  <2>5. QED
    BY <2>1, <2>2, <2>3, <2>4
<1>11. Appended(Entries, Entries', e)
  <2> DEFINE S == Questions(len) \cup Resources(len)
  <2>1. /\ question \in Seq(S) /\ answer \in Seq(S) /\ authority \in Seq(S) /\ additional \in Seq(S)
    BY <1>1, SectionsTyped
  <2>2. e \in S
    BY <1>8
  <2>3. s = 1 => answer = <<>>
    BY <1>7
  <2>4. s <= 2 => authority = <<>>
    BY <1>6, <1>7
  <2>5. s <= 3 => additional = <<>>
    BY <1>6, <1>7
  <2> HIDE DEF S
  <2>6. Appended(Join(question, answer, authority, additional),
                 Join(IF s = 1 THEN Append(question, e) ELSE question,
                      IF s = 2 THEN Append(answer, e) ELSE answer,
                      IF s = 3 THEN Append(authority, e) ELSE authority,
                      IF s = 4 THEN Append(additional, e) ELSE additional), e)
    BY <1>6, <2>1, <2>2, <2>3, <2>4, <2>5, JoinAppend
  <2>7. Entries' = Join(question', answer', authority', additional')
    BY DEF Entries
  <2>8. QED
    BY <1>3, <2>6, <2>7 DEF Entries
<1>12. Stop = begin /\ Stop' = begin'
  <2>1. ReceivedLength' = ReceivedLength
    BY <1>3 DEF ReceivedLength
  <2>2. QED
    BY <1>2, <1>3, <1>4, <1>9, <2>1 DEF Stop
<1>13. Tiled(bytes, len, q, Entries, begin) /\ Listed(bytes, len, Entries, labels)
  BY <1>2, <1>12 DEF Laid
<1> HIDE DEF q, r, k
<1> DEFINE kind == Kind(r, k + 1)
<1>14. kind \in 1 .. 2 /\ (s = 1 <=> kind = 1) /\ \A i \in 1 .. k : Kind(r, i) = Kind(q, i)
  BY <1>10 DEF Kind
<1> HIDE DEF kind
<1>15. EntryEnd(bytes, e, s) = EntryEnd(bytes, e, kind) /\ EntryLaid(bytes, len, kind, e)
  BY <1>6, <1>8, <1>14, KindOfSection
<1>16. Tiled(bytes, len, r, Entries', begin')
  <2>1. r \in Nat
    BY <1>10
  <2>2. Len(Entries) \in Nat /\ q \in Nat
    BY <1>10 DEF k
  <2>3. EntryLaid(bytes, len, Kind(r, Len(Entries) + 1), e)
    BY <1>15 DEF kind, k
  <2>4. \A i \in 1 .. Len(Entries) : Kind(r, i) = Kind(q, i)
    BY <1>14 DEF k
  <2>5. Tiled(bytes, len, r, Entries', EntryEnd(bytes, e, Kind(r, Len(Entries) + 1)))
    BY <1>4, <1>8, <1>11, <1>13, <2>1, <2>2, <2>3, <2>4, TiledAppend
  <2>6. QED
    BY <1>3, <1>15, <2>5 DEF kind, k
<1>17. Listed(bytes, len, Entries', labels')
  <2>1. Len(Entries) \in Nat /\ q \in Nat
    BY <1>10 DEF k
  <2>2. Listed(bytes, len, Entries', labels \o NameLabels(bytes, begin, len))
    BY <1>4, <1>8, <1>11, <1>13, <2>1, ListedAppend
  <2>3. QED
    BY <1>3, <2>2
<1>18. Laid'
  <2>1. ReceivedLength' = ReceivedLength
    BY <1>3 DEF ReceivedLength
  <2>2. ReceivedLength' \in begin' .. len'
    BY <1>2, <1>3, <1>4, <1>9, <2>1
  <2>3. Tiled(bytes', len', Len(question'), Entries', Stop')
        /\ Listed(bytes', len', Entries', labels')
    BY <1>3, <1>12, <1>16, <1>17 DEF r
  <2>4. QED
    BY <1>3, <1>5, <2>2, <2>3 DEF Laid
<1>19. InOrder'
  <2>1. /\ Len(question) \in Nat /\ Len(answer) \in Nat
        /\ Len(authority) \in Nat /\ Len(additional) \in Nat
    BY <1>1, SectionsTyped
  <2>2. /\ Len(question') = IF s = 1 THEN Len(question) + 1 ELSE Len(question)
        /\ Len(answer') = IF s = 2 THEN Len(answer) + 1 ELSE Len(answer)
        /\ Len(authority') = IF s = 3 THEN Len(authority) + 1 ELSE Len(authority)
        /\ Len(additional') = IF s = 4 THEN Len(additional) + 1 ELSE Len(additional)
    <3> DEFINE S == Questions(len) \cup Resources(len)
    <3>1. /\ question \in Seq(S) /\ answer \in Seq(S) /\ authority \in Seq(S) /\ additional \in Seq(S)
          /\ e \in S
      BY <1>1, <1>8, SectionsTyped
    <3> HIDE DEF S
    <3>2. \A t \in Seq(S) : Len(Append(t, e)) = Len(t) + 1
      BY <3>1, AppendProperties
    <3>3. QED
      BY <1>3, <3>1, <3>2
  <2> DEFINE c1 == Count(bytes, 1)
             c2 == Count(bytes, 2)
             c3 == Count(bytes, 3)
             c4 == Count(bytes, 4)
  <2>3. c1 \in Nat /\ c2 \in Nat /\ c3 \in Nat /\ c4 \in Nat
    <3>1. HeaderSize <= buflen
      BY <1>4, <1>5 DEF HeaderSize
    <3>2. QED
      BY <1>4, <3>1, CountTyped
  <2>4. /\ Len(question) <= c1 /\ Len(answer) <= c2 /\ Len(authority) <= c3 /\ Len(additional) <= c4
    BY <1>2 DEF InOrder
  <2>5. /\ Len(question') <= c1 /\ Len(answer') <= c2
        /\ Len(authority') <= c3 /\ Len(additional') <= c4
        /\ Len(question') < c1 => answer' = <<>>
        /\ Len(question') < c1 \/ Len(answer') < c2 => authority' = <<>>
        /\ Len(question') < c1 \/ Len(answer') < c2 \/ Len(authority') < c3 => additional' = <<>>
    <3> HIDE DEF c1, c2, c3, c4
    <3>1. CASE s = 1
      BY <1>3, <1>7, <2>1, <2>2, <2>3, <2>4, <3>1 DEF c1
    <3>2. CASE s = 2
      BY <1>3, <1>7, <2>1, <2>2, <2>3, <2>4, <3>2 DEF c1, c2
    <3>3. CASE s = 3
      BY <1>3, <1>7, <2>1, <2>2, <2>3, <2>4, <3>3 DEF c1, c2, c3
    <3>4. CASE s = 4
      BY <1>3, <1>7, <2>1, <2>2, <2>3, <2>4, <3>4 DEF c1, c2, c3, c4
    <3>5. QED
      BY <1>6, <3>1, <3>2, <3>3, <3>4
  <2>6. QED
    BY <1>3, <2>5 DEF InOrder
<1>20. len' = ReceivedLength' /\ pc' = "entries"
  BY <1>2, <1>3 DEF ReceivedLength
<1>21. LayoutInv'
  BY <1>18, <1>19, <1>20 DEF LayoutInv
<1>22. Appended(Entries, Entries', EntryAt(bytes, begin, len, Section))
  BY <1>11 DEF e, s
<1>23. QED
  BY <1>1, <1>21, <1>22 DEF IInv

\* The types and lengths of the answer's records from the k-th on are those there were.
NumbersKept(k) ==
  /\ Len(question') = Len(question) /\ Len(answer') = Len(answer)
  /\ \A i \in k .. Len(answer) :
       /\ U16(bytes', answer'[i].qtype) = U16(bytes, answer[i].qtype)
       /\ U16(bytes', answer'[i].rdlength) = U16(bytes, answer[i].rdlength)

\* Where the type of the question is, and that nothing else is written.
TypeSet(qt) ==
  /\ qt \in Nat /\ qt >= 12 /\ qt + 1 < buflen /\ Entries[1].qtype = qt
  /\ SameBut(bytes, bytes', buflen, qt) /\ U16(bytes', qt) = TypeAAAA

LEMMA QuestionWritten ==
  ASSUME IInv, SetQuestionType, question # <<>>
  PROVE  TypeSet(question[1].qtype)
<1> DEFINE q == Len(question)
           qt == question[1].qtype
<1>1. /\ pc = "entries" /\ Unparsed = {}
      /\ bytes' = Write16(bytes, qt, TypeAAAA)
      /\ pc' = "answers"
      /\ UNCHANGED <<dgram, buflen, len, question, answer, authority, additional, labels, begin, next>>
  BY DEF SetQuestionType, entries
<1>2. TypeInv /\ TypeInv'
  BY SetQuestionTypeTypes DEF IInv
<1>3. Laid /\ InOrder
  BY <1>1 DEF IInv, LayoutInv
<1>4. buflen \in Nat /\ bytes \in Buffer(buflen) /\ len \in 0 .. buflen /\ begin \in Nat
      /\ labels \in Seq(Nat) /\ bytes' \in Buffer(buflen)
      /\ \A i \in 1 .. Len(labels) : labels[i] + 4 <= len
  BY <1>1, <1>2 DEF TypeInv, TypeOK, InBuffer, Buffer
<1>5. Len(Entries) \in Nat /\ 1 \in 1 .. Len(Entries) /\ q \in Nat /\ Entries[1] = question[1]
  <2>1. /\ Len(question) \in Nat /\ Len(answer) \in Nat
        /\ Len(authority) \in Nat /\ Len(additional) \in Nat /\ Len(question) # 0
    BY <1>2, SectionsTyped
  <2>2. /\ Len(Entries) \in Nat
        /\ Len(Entries) = Len(question) + Len(answer) + Len(authority) + Len(additional)
        /\ \A i \in 1 .. Len(question) : Entries[i] = question[i]
    BY <1>2, EntriesTyped
  <2>3. 1 \in 1 .. Len(question) /\ 1 \in 1 .. Len(Entries)
    BY <2>1, <2>2
  <2>4. QED
    BY <2>1, <2>2, <2>3
<1>6. /\ Stop \in Nat /\ Stop <= len
      /\ Tiled(bytes, len, q, Entries, Stop) /\ Listed(bytes, len, Entries, labels)
      /\ HeaderSize <= len /\ ReceivedLength \in begin .. len
  <2>1. HeaderSize <= len /\ ReceivedLength \in begin .. len
        /\ Tiled(bytes, len, q, Entries, Stop) /\ Listed(bytes, len, Entries, labels)
    BY <1>3 DEF Laid
  <2>2. QED
    BY <1>4, <2>1 DEF Stop
<1>7. qt \in Nat /\ qt >= 12 /\ qt + 1 < buflen /\ Entries[1].qtype = qt
  <2> DEFINE x == Entries[1].begin
             z == EndOf(bytes, q, Entries, 1)
  <2>1. 1 \in 1 .. Len(Entries)
    BY <1>5
  <2>2. x >= 12
    BY <1>4, <1>5, <1>6, <2>1, BehindHeader
  <2>3. x \in Nat /\ z \in Nat /\ z <= Stop /\ Entries[1].qtype \in Nat /\ x < Entries[1].qtype
        /\ Entries[1].qtype + 4 <= z
    BY <1>4, <1>5, <1>6, <2>1, EndWithin
  <2>4. Entries[1].qtype = qt
    BY <1>5
  <2>5. qt \in Nat /\ x < qt /\ qt + 4 <= z
    BY <2>3, <2>4
  <2> HIDE DEF x, z, qt
  <2>6. QED
    BY <1>4, <1>6, <2>2, <2>3, <2>4, <2>5
<1> HIDE DEF qt
<1>8. SameBut(bytes, bytes', buflen, qt) /\ U16(bytes', qt) = TypeAAAA
  <2>1. Word(TypeAAAA)
    BY SmallWord DEF TypeAAAA
  <2>2. /\ \A p \in Nat : p < buflen /\ p # qt /\ p # qt + 1
                          => Write16(bytes, qt, TypeAAAA)[p] = bytes[p]
        /\ U16(Write16(bytes, qt, TypeAAAA), qt) = TypeAAAA
    BY <1>4, <1>7, <2>1, Write16At
  <2>3. QED
    BY <1>1, <2>2 DEF SameBut
<1>9. QED
  BY <1>7, <1>8 DEF TypeSet, qt

\* The type of the question has been set.
LEMMA SetQuestionTypeInv ==
  IInv /\ Translatable /\ SetQuestionType => IInv' /\ NumbersKept(1)
<1> SUFFICES ASSUME IInv, Translatable, SetQuestionType PROVE IInv' /\ NumbersKept(1)
  OBVIOUS
<1> DEFINE q == Len(question)
           qt == question[1].qtype
<1>1. /\ pc = "entries" /\ Unparsed = {}
      /\ bytes' = Write16(bytes, qt, TypeAAAA)
      /\ pc' = "answers"
      /\ UNCHANGED <<dgram, buflen, len, question, answer, authority, additional, labels, begin, next>>
  BY DEF SetQuestionType, entries
<1>2. TypeInv /\ TypeInv'
  BY SetQuestionTypeTypes DEF IInv
<1>3. Laid /\ InOrder
  BY <1>1 DEF IInv, LayoutInv
<1>4. question # <<>> /\ \A i \in 1 .. Len(answer) : Addressed(answer[i])
  BY <1>1 DEF Translatable
<1>5. buflen \in Nat /\ bytes \in Buffer(buflen) /\ len \in 0 .. buflen /\ begin \in Nat
      /\ labels \in Seq(Nat) /\ bytes' \in Buffer(buflen)
      /\ \A i \in 1 .. Len(labels) : labels[i] + 4 <= len
  BY <1>1, <1>2 DEF TypeInv, TypeOK, InBuffer, Buffer
<1>6. next \in 1 .. Len(answer) + 1
  BY <1>2 DEF TypeInv, TypeOK
<1>7. /\ Len(Entries) \in Nat /\ q \in Nat /\ Len(answer) \in Nat /\ q >= 1 /\ Len(Entries) >= q
      /\ Len(Entries) >= q + Len(answer)
      /\ Entries[1] = question[1]
      /\ \A i \in 1 .. Len(answer) : Entries[q + i] = answer[i]
  <2>1. /\ Len(question) \in Nat /\ Len(answer) \in Nat
        /\ Len(authority) \in Nat /\ Len(additional) \in Nat /\ Len(question) # 0
    BY <1>2, <1>4, SectionsTyped
  <2>2. /\ Len(Entries) \in Nat
        /\ Len(Entries) = Len(question) + Len(answer) + Len(authority) + Len(additional)
        /\ \A i \in 1 .. Len(question) : Entries[i] = question[i]
        /\ \A i \in 1 .. Len(answer) : Entries[q + i] = answer[i]
    BY <1>2, EntriesTyped
  <2>3. 1 \in 1 .. Len(question)
    BY <2>1
  <2>4. Len(Entries) >= q /\ Len(Entries) >= q + Len(answer) /\ q >= 1
    BY <2>1, <2>2
  <2>5. QED
    BY <2>1, <2>2, <2>3, <2>4
<1>8. /\ Stop \in Nat /\ Stop <= len
      /\ Tiled(bytes, len, q, Entries, Stop) /\ Listed(bytes, len, Entries, labels)
      /\ HeaderSize <= len /\ ReceivedLength \in begin .. len
  <2>1. HeaderSize <= len /\ ReceivedLength \in begin .. len
        /\ Tiled(bytes, len, q, Entries, Stop) /\ Listed(bytes, len, Entries, labels)
    BY <1>3 DEF Laid
  <2>2. QED
    BY <1>5, <2>1 DEF Stop
<1>9. qt \in Nat /\ qt >= 12 /\ Entries[1].qtype = qt
  BY <1>4, QuestionWritten DEF TypeSet
<1> HIDE DEF qt
<1>10. SameBut(bytes, bytes', buflen, qt)
  BY <1>4, QuestionWritten DEF TypeSet, qt
<1>11. /\ Tiled(bytes', len, q, Entries, Stop)
       /\ Listed(bytes', len, Entries, labels)
       /\ \A i \in 1 .. Len(Entries) : q < i => SameNumbers(bytes, bytes', Entries[i], 0)
  <2>1. Len(Entries) \in Nat /\ Len(Entries) > 0 /\ q \in Nat /\ q >= 1
    BY <1>7
  <2>2. SameBut(bytes, bytes', buflen, Entries[1].qtype)
    BY <1>9, <1>10
  <2>3. \A j \in 1 .. Len(labels) : labels[j] + 4 <= len
    BY <1>5
  <2> HIDE DEF q
  <2>4. QED
    BY <1>5, <1>8, <2>1, <2>2, <2>3, TypeWritten
<1>12. ASSUME NEW i \in 1 .. Len(answer)
       PROVE  /\ Addressed(answer[i])'
              /\ U16(bytes', answer'[i].qtype) = U16(bytes, answer[i].qtype)
              /\ U16(bytes', answer'[i].rdlength) = U16(bytes, answer[i].rdlength)
  <2>1. q + i \in 1 .. Len(Entries) /\ q < q + i /\ Entries[q + i] = answer[i]
    BY <1>7
  <2>2. SameNumbers(bytes, bytes', answer[i], 0)
    BY <1>11, <2>1
  <2> DEFINE x == answer[i].qtype
             y == answer[i].rdlength
  <2>3. x \in Nat /\ y \in Nat
    <3>1. answer[i] \in Resources(len)
      BY <1>2, ElementOfSeq DEF TypeInv, InBuffer
    <3>2. QED
      BY <3>1 DEF Resources
  <2>4. U16(bytes', x + 0) = U16(bytes, x) /\ U16(bytes', y + 0) = U16(bytes, y)
    BY <2>2 DEF SameNumbers
  <2> HIDE DEF x, y
  <2>5. x + 0 = x /\ y + 0 = y
    BY <2>3
  <2>6. U16(bytes', x) = U16(bytes, x) /\ U16(bytes', y) = U16(bytes, y)
    BY <2>4, <2>5
  <2>7. U16(bytes, x) = TypeA => U16(bytes, y) # 0
    BY <1>4 DEF Addressed, x, y
  <2>8. U16(bytes', x) = TypeA => U16(bytes', y) # 0
    BY <2>6, <2>7
  <2>9. answer' = answer
    BY <1>1
  <2>10. QED
    BY <2>6, <2>8, <2>9 DEF Addressed, x, y
<1>13. Complete'
  <2>1. Complete
    <3>1. /\ Len(question) \in Nat /\ Len(answer) \in Nat
          /\ Len(authority) \in Nat /\ Len(additional) \in Nat
      BY <1>2, SectionsTyped
    <3>2. /\ Count(bytes, 1) \in Nat /\ Count(bytes, 2) \in Nat
          /\ Count(bytes, 3) \in Nat /\ Count(bytes, 4) \in Nat
      <4>1. HeaderSize <= buflen
        BY <1>5, <1>8 DEF HeaderSize
      <4>2. QED
        BY <1>5, <4>1, CountTyped
    <3>3. ~(Len(question) < Count(bytes, 1)) /\ ~(Len(answer) < Count(bytes, 2))
          /\ ~(Len(authority) < Count(bytes, 3)) /\ ~(Len(additional) < Count(bytes, 4))
      <4>1. \A s \in 1 .. 4 : ~(Len(entries[s]) < Count(bytes, s))
        BY <1>1 DEF Unparsed
      <4>2. QED
        BY <4>1 DEF entries
    <3>4. /\ Len(question) <= Count(bytes, 1) /\ Len(answer) <= Count(bytes, 2)
          /\ Len(authority) <= Count(bytes, 3) /\ Len(additional) <= Count(bytes, 4)
      BY <1>3 DEF InOrder
    <3>5. QED
      BY <3>1, <3>2, <3>3, <3>4 DEF Complete
  <2>2. \A p \in Nat : p < 12 => bytes'[p] = bytes[p]
    <3>1. ASSUME NEW p \in Nat, p < 12 PROVE p < buflen /\ p # qt /\ p # qt + 1
      BY <1>5, <1>8, <1>9, <3>1 DEF HeaderSize
    <3>2. QED
      BY <1>10, <3>1 DEF SameBut
  <2>3. /\ Count(bytes', 1) = Count(bytes, 1) /\ Count(bytes', 2) = Count(bytes, 2)
        /\ Count(bytes', 3) = Count(bytes, 3) /\ Count(bytes', 4) = Count(bytes, 4)
    BY <2>2, CountKept
  <2>4. QED
    BY <1>1, <2>1, <2>3 DEF Complete
<1>14. Laid'
  <2>1. ReceivedLength' = ReceivedLength /\ Stop' = Stop /\ Entries' = Entries
    BY <1>1 DEF ReceivedLength, Stop, Entries
  <2>2. Tiled(bytes', len', Len(question'), Entries', Stop') /\ Listed(bytes', len', Entries', labels')
    BY <1>1, <1>11, <2>1 DEF q
  <2>3. HeaderSize <= len' /\ ReceivedLength' \in begin' .. len'
    BY <1>1, <1>8, <2>1
  <2>4. QED
    BY <2>2, <2>3 DEF Laid
<1>15. Ahead'
  <2>1. \A i \in next .. Len(answer) : i \in 1 .. Len(answer)
    BY <1>6, <1>7
  <2>2. QED
    BY <1>1, <1>12, <2>1 DEF Ahead, Addressed
<1>16. LayoutInv'
  BY <1>1, <1>4, <1>13, <1>14, <1>15 DEF LayoutInv
<1>17. NumbersKept(1)
  BY <1>1, <1>12 DEF NumbersKept
<1>18. QED
  BY <1>2, <1>16, <1>17 DEF IInv

\* The record the loop is at, with its fields, is one to be rewritten.
LEMMA RecordAround ==
  ASSUME TypeInv, Laid, Ahead, AtA, ~TooLong(U16(bytes, answer[next].rdlength), Synthesized),
         NEW qt \in Nat, NEW at \in Nat, NEW from, NEW d, Record(qt, at, from, d)
  PROVE  /\ from \in Nat /\ d \in Nat /\ from <= len /\ at < from
         /\ Around(bytes, len, Len(question), Entries, Stop, labels, Len(question) + next,
                   qt, at, from, d)
<1> DEFINE e == answer[next]
           old == U16(bytes, e.rdlength)
           q == Len(question)
           j == q + next
<1>1. buflen \in Nat /\ bytes \in Buffer(buflen) /\ len \in 0 .. buflen /\ begin \in Nat
  BY DEF TypeInv, TypeOK, Buffer
<1>2. next \in 1 .. Len(answer) /\ old \in Nat /\ old <= 16
  BY RecordTypes
<1>3. old # 0
  <2>1. next \in next .. Len(answer)
    BY <1>2
  <2>2. Addressed(answer[next])
    BY <2>1 DEF Ahead
  <2>3. QED
    BY <2>2 DEF Addressed, AtA
<1>4. qt = e.qtype /\ at = e.rdata /\ from = at + old /\ d = 16 - old
  BY PrefixTyped DEF Record
<1>5. /\ q \in Nat /\ Len(Entries) \in Nat /\ j \in 1 .. Len(Entries) /\ q < j /\ Entries[j] = e
  <2>1. /\ Len(Entries) \in Nat /\ Len(question) \in Nat
        /\ Len(Entries) = Len(question) + Len(answer) + Len(authority) + Len(additional)
        /\ \A i \in 1 .. Len(answer) : Entries[Len(question) + i] = answer[i]
    BY EntriesTyped
  <2>2. Len(answer) \in Nat /\ Len(authority) \in Nat /\ Len(additional) \in Nat
    BY SectionsTyped
  <2>3. Entries[j] = e
    BY <1>2, <2>1
  <2> DEFINE x == Len(answer)
             k == Len(Entries)
  <2>4. k >= q + x /\ k \in Nat /\ x \in Nat /\ q \in Nat /\ next \in 1 .. x
    BY <1>2, <2>1, <2>2
  <2> HIDE DEF x, k, q
  <2>5. j \in 1 .. k /\ q < j
    BY <2>4
  <2>6. QED
    BY <2>3, <2>4, <2>5 DEF k
<1>6. Stop \in Nat /\ Stop <= len /\ Tiled(bytes, len, q, Entries, Stop)
      /\ Listed(bytes, len, Entries, labels)
  <2>1. ReceivedLength \in begin .. len /\ Tiled(bytes, len, q, Entries, Stop)
        /\ Listed(bytes, len, Entries, labels)
    BY DEF Laid
  <2>2. QED
    BY <1>1, <2>1 DEF Stop
<1>7. at = qt + 10 /\ EndOf(bytes, q, Entries, j) = at + old
  <2>1. /\ Entries[j].rdata = Entries[j].qtype + 10
        /\ EndOf(bytes, q, Entries, j) = Entries[j].rdata + U16(bytes, Entries[j].rdlength)
    <3>1. q \in Nat /\ Len(Entries) \in Nat /\ j \in 1 .. Len(Entries) /\ q < j
      BY <1>5
    <3> HIDE DEF j, q
    <3>2. QED
      BY <1>1, <1>6, <3>1, ResourceFields
  <2>2. QED
    BY <1>4, <1>5, <2>1
<1>8. EndOf(bytes, q, Entries, j) <= Stop
  BY <1>1, <1>5, <1>6, EndWithin
<1> HIDE DEF j, q, old
<1>9. from \in Nat /\ d \in Nat /\ from <= len /\ at < from /\ from + d = at + 16
  <2> DEFINE z == EndOf(bytes, q, Entries, j)
  <2>1. z = at + old /\ z <= Stop
    BY <1>7, <1>8
  <2> HIDE DEF z
  <2>2. from = z /\ Stop \in Nat /\ Stop <= len /\ len \in Nat /\ old \in Nat /\ old <= 16 /\ old # 0
    BY <1>1, <1>2, <1>3, <1>4, <1>6, <2>1
  <2>3. QED
    BY <1>4, <2>1, <2>2
<1>10. qt = Entries[j].qtype
  BY <1>4, <1>5
<1>11. Around(bytes, len, q, Entries, Stop, labels, j, qt, at, from, d)
  BY <1>4, <1>5, <1>6, <1>7, <1>9, <1>10 DEF Around
<1>12. QED
  BY <1>9, <1>11 DEF q, j

\* What SynthesizeRecord makes of a record, and of the packet around it.
Reworked(qt, at, from, d) ==
  /\ from \in Nat /\ d \in Nat /\ from <= len /\ at < from /\ from + d = at + 16
  /\ Around(bytes, len, Len(question), Entries, Stop, labels, Len(question) + next, qt, at, from, d)
  /\ Rewritten(bytes, bytes', len, labels, qt, at, from, d)
  /\ Placed(len, labels, labels', from, d) /\ Grown(Entries, Entries', at, d)
  /\ U16(bytes', qt + 8) = 16 /\ Embedded(bytes, bytes', qt, at)
  /\ bytes' \in Buffer(buflen) /\ len + d <= buflen

LEMMA RecordReworked ==
  ASSUME IInv, SynthesizeRecord, NEW qt \in Nat, NEW at \in Nat, NEW from, NEW d,
         Record(qt, at, from, d)
  PROVE  Reworked(qt, at, from, d)
<1> DEFINE q == Len(question)
           j == q + next
<1>1. /\ AtA /\ ~TooLong(U16(bytes, answer[next].rdlength), Synthesized)
      /\ question' = AllMoved(question, at, d)
      /\ answer' = AllMoved(answer, at, d)
      /\ authority' = AllMoved(authority, at, d)
      /\ additional' = AllMoved(additional, at, d)
      /\ labels' = LabelsMoved(at, d)
      /\ len' = len + d
      /\ next' = next + 1
      /\ UNCHANGED <<dgram, buflen, begin, pc>>
  BY DEF SynthesizeRecord, Record
<1>2. TypeInv /\ pc = "answers" /\ Laid /\ Complete /\ question # <<>> /\ Ahead
  BY <1>1 DEF IInv, LayoutInv, AtA
<1>3. buflen \in Nat /\ bytes \in Buffer(buflen) /\ len \in 0 .. buflen /\ begin \in Nat
      /\ labels \in Seq(Nat)
      /\ \A i \in 1 .. Len(labels) : labels[i] + 4 <= len
  BY <1>2 DEF TypeInv, TypeOK, InBuffer, Buffer
<1>4. /\ from \in Nat /\ d \in Nat /\ from <= len /\ at < from
      /\ Around(bytes, len, q, Entries, Stop, labels, j, qt, at, from, d)
  BY <1>1, <1>2, RecordAround
<1>5. Len(Entries) \in Nat /\ q \in Nat
  BY <1>2, EntriesTyped
<1>6. /\ Stop \in Nat /\ Stop <= len /\ HeaderSize <= len /\ ReceivedLength \in begin .. len
      /\ Tiled(bytes, len, q, Entries, Stop) /\ Listed(bytes, len, Entries, labels)
  <2>1. HeaderSize <= len /\ ReceivedLength \in begin .. len
        /\ Tiled(bytes, len, q, Entries, Stop) /\ Listed(bytes, len, Entries, labels)
    BY <1>2 DEF Laid
  <2>2. QED
    BY <1>3, <2>1 DEF Stop
<1>7. /\ j \in 1 .. Len(Entries) /\ j \in Nat /\ q < j /\ qt = Entries[j].qtype
      /\ from = EndOf(bytes, q, Entries, j)
  BY <1>4 DEF Around
<1>8. Clear(bytes, labels, qt, from)
  <2>1. Clear(bytes, labels, Entries[j].qtype, EndOf(bytes, q, Entries, j))
    BY <1>3, <1>5, <1>6, <1>7, LayoutClear
  <2>2. QED
    BY <1>7, <2>1
<1> HIDE DEF q, j
<1>9. /\ Rewritten(bytes, bytes', len, labels, qt, at, from, d)
      /\ U16(bytes', qt + 8) = 16
      /\ bytes' \in Buffer(buflen)
      /\ len + d <= buflen /\ from + d = at + 16
      /\ Embedded(bytes, bytes', qt, at)
      /\ \A i \in 1 .. Len(labels) : labels'[i] = Place(labels[i], from, d)
  <2>1. Apart(labels)
    BY <1>6 DEF Listed
  <2>2. QED
    BY <1>2, <1>4, <1>8, <2>1, SynthesizedBytes
<1>10. Placed(len, labels, labels', from, d)
  <2>1. Len(labels') = Len(labels)
    <3>1. len \in Nat
      BY <1>3
    <3>2. QED
      BY <1>1, <1>3, <1>4, <3>1, LabelsMovedTyped
  <2>2. QED
    BY <1>3, <1>9, <2>1 DEF Placed
<1>11. Grown(Entries, Entries', at, d)
  <2>1. /\ question \in Seq(Questions(len)) /\ answer \in Seq(Resources(len))
        /\ authority \in Seq(Resources(len)) /\ additional \in Seq(Resources(len))
    BY <1>2 DEF TypeInv, InBuffer
  <2>2. Entries' = Join(AllMoved(question, at, d), AllMoved(answer, at, d),
                        AllMoved(authority, at, d), AllMoved(additional, at, d))
    BY <1>1 DEF Entries
  <2>3. len \in Nat
    BY <1>3
  <2>4. QED
    BY <1>4, <2>1, <2>2, <2>3, JoinGrown DEF Entries
<1>12. QED
  BY <1>4, <1>9, <1>10, <1>11 DEF Reworked, q, j

\* A record has been rewritten.
LEMMA SynthesizeRecordInv == IInv /\ SynthesizeRecord => IInv' /\ NumbersKept(next + 1)
<1> SUFFICES ASSUME IInv, SynthesizeRecord PROVE IInv' /\ NumbersKept(next + 1)
  OBVIOUS
<1> DEFINE e == answer[next]
           old == U16(bytes, e.rdlength)
           qt == e.qtype
           at == e.rdata
           from == at + old
           d == Synthesized - old
           q == Len(question)
           j == q + next
<1>1. /\ AtA /\ ~TooLong(old, Synthesized)
      /\ question' = AllMoved(question, at, d)
      /\ answer' = AllMoved(answer, at, d)
      /\ authority' = AllMoved(authority, at, d)
      /\ additional' = AllMoved(additional, at, d)
      /\ labels' = LabelsMoved(at, d)
      /\ len' = len + d
      /\ next' = next + 1
      /\ UNCHANGED <<dgram, buflen, begin, pc>>
  BY DEF SynthesizeRecord
<1>2. TypeInv /\ pc = "answers" /\ Laid /\ Complete /\ question # <<>> /\ Ahead
  BY <1>1 DEF IInv, LayoutInv, AtA
<1>3. buflen \in Nat /\ bytes \in Buffer(buflen) /\ len \in 0 .. buflen /\ begin \in Nat
      /\ labels \in Seq(Nat)
      /\ \A i \in 1 .. Len(labels) : labels[i] + 4 <= len
  BY <1>2 DEF TypeInv, TypeOK, InBuffer, Buffer
<1>4. /\ next \in 1 .. Len(answer) /\ qt \in Nat /\ at \in Nat
  <2>1. next \in 1 .. Len(answer) /\ e \in Resources(len)
    BY <1>1, <1>2, RecordTypes
  <2> HIDE DEF e
  <2>2. e.qtype \in Nat /\ e.rdata \in Nat
    BY <2>1 DEF Resources
  <2>3. QED
    BY <2>1, <2>2
<1>5. Record(qt, at, from, d)
  BY DEF Record
<1> HIDE DEF e, old, qt, at, from, d
<1>6. Reworked(qt, at, from, d)
  BY <1>4, <1>5, RecordReworked
<1>7. /\ from \in Nat /\ d \in Nat /\ from <= len /\ at < from
      /\ Around(bytes, len, q, Entries, Stop, labels, j, qt, at, from, d)
  BY <1>6 DEF Reworked
<1>8. /\ Len(Entries) \in Nat /\ q \in Nat /\ Len(answer) \in Nat /\ Len(Entries) >= q + Len(answer)
      /\ \A i \in 1 .. Len(answer) : Entries[q + i] = answer[i]
  <2>1. /\ Len(Entries) \in Nat /\ Len(question) \in Nat
        /\ Len(Entries) = Len(question) + Len(answer) + Len(authority) + Len(additional)
        /\ \A i \in 1 .. Len(answer) : Entries[q + i] = answer[i]
    BY <1>2, EntriesTyped
  <2>2. Len(answer) \in Nat /\ Len(authority) \in Nat /\ Len(additional) \in Nat
    BY <1>2, SectionsTyped
  <2>3. Len(Entries) >= q + Len(answer)
    BY <2>1, <2>2
  <2>4. QED
    BY <2>1, <2>2, <2>3
<1>9. /\ Stop \in Nat /\ Stop <= len /\ HeaderSize <= len /\ ReceivedLength \in begin .. len
      /\ Tiled(bytes, len, q, Entries, Stop) /\ Listed(bytes, len, Entries, labels)
  <2>1. HeaderSize <= len /\ ReceivedLength \in begin .. len
        /\ Tiled(bytes, len, q, Entries, Stop) /\ Listed(bytes, len, Entries, labels)
    BY <1>2 DEF Laid
  <2>2. QED
    BY <1>3, <2>1 DEF Stop
<1>10. j \in 1 .. Len(Entries) /\ j \in Nat /\ q < j /\ qt = Entries[j].qtype
       /\ from = EndOf(bytes, q, Entries, j)
  BY <1>7 DEF Around
<1> HIDE DEF q, j
<1>12. /\ Rewritten(bytes, bytes', len, labels, qt, at, from, d)
       /\ U16(bytes', qt + 8) = 16
       /\ bytes' \in Buffer(buflen)
       /\ len + d <= buflen /\ from + d = at + 16
  BY <1>6 DEF Reworked
<1>13. Placed(len, labels, labels', from, d)
  BY <1>6 DEF Reworked
<1>14. Grown(Entries, Entries', at, d)
  BY <1>6 DEF Reworked
<1>15. Tiled(bytes', len + d, q, Entries', Stop + d) /\ Listed(bytes', len + d, Entries', labels')
  <2>1. /\ buflen \in Nat /\ bytes \in Buffer(buflen) /\ bytes' \in Buffer(buflen)
        /\ len \in 0 .. buflen /\ len + d <= buflen
    BY <1>3, <1>12
  <2>2. /\ q \in Nat /\ Stop \in Nat /\ j \in Nat /\ qt \in Nat /\ at \in Nat /\ from \in Nat
        /\ d \in Nat
    BY <1>4, <1>7, <1>8, <1>9, <1>10
  <2>3. labels \in Seq(Nat) /\ U16(bytes', qt + 8) = 16
    BY <1>3, <1>12
  <2>4. QED
    BY <1>7, <1>12, <1>13, <1>14, <2>1, <2>2, <2>3, AroundLayout
<1>16. TypeInv'
  <2>1. answer[next].rdata + 4 <= buflen
    <3>1. at + 4 <= buflen
      BY <1>3, <1>4, <1>7, <1>12
    <3>2. QED
      BY <3>1 DEF at, e
  <2>2. QED
    BY <1>2, <2>1, SynthesizeRecordTypes
<1>17. /\ Len(question') = Len(question) /\ Len(answer') = Len(answer)
       /\ Len(authority') = Len(authority) /\ Len(additional') = Len(additional)
       /\ \A i \in 1 .. Len(answer) : answer'[i] = Moved(answer[i], at, d)
  <2>1. /\ question \in Seq(Questions(len)) /\ answer \in Seq(Resources(len))
        /\ authority \in Seq(Resources(len)) /\ additional \in Seq(Resources(len))
    BY <1>2 DEF TypeInv, InBuffer
  <2>2. len \in Nat
    BY <1>3
  <2>3. /\ Grown(question, AllMoved(question, at, d), at, d)
        /\ Grown(answer, AllMoved(answer, at, d), at, d)
        /\ Grown(authority, AllMoved(authority, at, d), at, d)
        /\ Grown(additional, AllMoved(additional, at, d), at, d)
    BY <1>4, <1>7, <2>1, <2>2, QuestionsGrown, ResourcesGrown
  <2>4. QED
    BY <1>1, <2>3 DEF Grown
<1>18. ReceivedLength' = ReceivedLength /\ Stop' = Stop + d
  <2>1. ReceivedLength' = ReceivedLength
    BY <1>1 DEF ReceivedLength
  <2>2. QED
    BY <1>1, <1>3, <1>7, <1>9, <2>1 DEF Stop
<1>19. Laid'
  <2>1. Tiled(bytes', len', Len(question'), Entries', Stop') /\ Listed(bytes', len', Entries', labels')
    BY <1>1, <1>15, <1>17, <1>18 DEF q
  <2>2. HeaderSize <= len' /\ ReceivedLength' \in begin' .. len'
    BY <1>1, <1>3, <1>7, <1>9, <1>18 DEF HeaderSize
  <2>3. QED
    BY <2>1, <2>2 DEF Laid
<1>20. Complete'
  <2>1. \A p \in Nat : p < 12 => bytes'[p] = bytes[p]
    <3>1. TAKE p \in Nat
    <3>2. ASSUME p < 12 PROVE bytes'[p] = bytes[p]
      <4>1. /\ buflen \in Nat /\ bytes \in Buffer(buflen) /\ len \in 0 .. buflen /\ q \in Nat
            /\ Stop \in Nat /\ j \in Nat /\ qt \in Nat /\ at \in Nat /\ from \in Nat /\ d \in Nat
        BY <1>3, <1>4, <1>7, <1>8, <1>9, <1>10
      <4>2. /\ Around(bytes, len, q, Entries, Stop, labels, j, qt, at, from, d)
            /\ Rewritten(bytes, bytes', len, labels, qt, at, from, d)
        BY <1>7, <1>12
      <4>3. QED
        BY <3>2, <4>1, <4>2, HeaderKept
    <3>3. QED
      BY <3>2
  <2>2. /\ Count(bytes', 1) = Count(bytes, 1) /\ Count(bytes', 2) = Count(bytes, 2)
        /\ Count(bytes', 3) = Count(bytes, 3) /\ Count(bytes', 4) = Count(bytes, 4)
    BY <2>1, CountKept
  <2>3. QED
    BY <1>2, <1>17, <2>2 DEF Complete
<1>21. ASSUME NEW i \in next + 1 .. Len(answer)
       PROVE  /\ Addressed(answer[i])'
              /\ U16(bytes', answer'[i].qtype) = U16(bytes, answer[i].qtype)
              /\ U16(bytes', answer'[i].rdlength) = U16(bytes, answer[i].rdlength)
  <2> DEFINE k == q + i
             t == Shift(k, j, d)
             x == answer[i].qtype
             y == answer[i].rdlength
  <2>1. i \in 1 .. Len(answer) /\ i \in next .. Len(answer)
    BY <1>4, <1>21
  <2>2. k \in 1 .. Len(Entries) /\ k # j /\ q < k /\ Entries[k] = answer[i]
    <3>1. k \in 1 .. Len(Entries) /\ q < k
      <4> DEFINE z == Len(Entries)
                 w == Len(answer)
      <4>1. z \in Nat /\ w \in Nat /\ z >= q + w /\ q \in Nat /\ i \in 1 .. w
        BY <1>8, <2>1
      <4> HIDE DEF z, w
      <4>2. k \in 1 .. z /\ q < k
        BY <4>1
      <4>3. QED
        BY <4>2 DEF z
    <3>2. k # j
      BY <1>4, <1>8, <1>21 DEF j
    <3>3. QED
      BY <1>8, <2>1, <3>1, <3>2
  <2> HIDE DEF k
  <2>3. SameNumbers(bytes, bytes', answer[i], t)
    <3>1. SameNumbers(bytes, bytes', Entries[k], Shift(k, j, d))
      BY <1>3, <1>4, <1>7, <1>8, <1>9, <1>10, <1>12, <2>2, AroundNumbers
    <3>2. QED
      BY <2>2, <3>1
  <2>4. answer'[i].qtype = x + t /\ answer'[i].rdlength = y + t
    <3>1. MovedBy(len + d, Kind(q, k), Entries[k], Entries'[k], Shift(k, j, d))
      BY <1>3, <1>4, <1>7, <1>8, <1>9, <1>10, <1>14, <2>2, AroundMoved
    <3>2. Entries'[k] = answer'[i]
      BY <1>14, <1>17, <2>1, <2>2 DEF Grown
    <3>3. Kind(q, k) # 1
      BY <1>8, <2>2 DEF Kind
    <3>4. QED
      BY <2>2, <3>1, <3>2, <3>3 DEF MovedBy
  <2>5. U16(bytes', x + t) = U16(bytes, x) /\ U16(bytes', y + t) = U16(bytes, y)
    BY <2>3 DEF SameNumbers
  <2>6. U16(bytes, x) = TypeA => U16(bytes, y) # 0
    BY <1>2, <2>1 DEF Ahead, Addressed
  <2> HIDE DEF t, x, y
  <2>7. U16(bytes', answer'[i].qtype) = U16(bytes, x) /\ U16(bytes', answer'[i].rdlength) = U16(bytes, y)
    BY <2>4, <2>5
  <2>8. U16(bytes', answer'[i].qtype) = TypeA => U16(bytes', answer'[i].rdlength) # 0
    BY <2>6, <2>7
  <2>9. QED
    BY <2>7, <2>8 DEF Addressed, x, y
<1>22. Ahead'
  <2>1. next' = next + 1 /\ Len(answer') = Len(answer)
    BY <1>1, <1>17
  <2>2. QED
    BY <1>21, <2>1 DEF Ahead, Addressed
<1>23. question' # <<>>
  <2>1. Len(question) # 0
    BY <1>2, SectionsTyped
  <2>2. QED
    BY <1>17, <2>1
<1>24. LayoutInv'
  BY <1>1, <1>2, <1>19, <1>20, <1>22, <1>23 DEF LayoutInv
<1>25. NumbersKept(next + 1)
  BY <1>17, <1>21 DEF NumbersKept
<1>26. QED
  BY <1>16, <1>24, <1>25 DEF IInv

\* The loop has come to a record that is not an A record.
LEMMA NextRecordInv == IInv /\ NextRecord => IInv'
<1> SUFFICES ASSUME IInv, NextRecord PROVE IInv'
  OBVIOUS
<1>1. /\ TypeInv /\ pc = "answers" /\ next <= Len(answer) /\ next' = next + 1
      /\ UNCHANGED <<dgram, buflen, len, bytes, question, answer, authority, additional,
                     labels, begin, pc>>
  BY DEF IInv, NextRecord, entries
<1>2. Len(answer) \in Nat /\ next \in 1 .. Len(answer) + 1
  BY <1>1 DEF TypeInv, TypeOK, InBuffer
<1>3. next' \in 1 .. Len(answer') + 1
  BY <1>1, <1>2
<1>4. TypeInv'
  BY <1>1, <1>3 DEF TypeInv, TypeOK, InBuffer
<1>5. Laid /\ Complete /\ question # <<>> /\ Ahead
  BY <1>1 DEF IInv, LayoutInv
<1>6. Laid' /\ Complete' /\ question' # <<>>
  <2>1. ReceivedLength' = ReceivedLength /\ Entries' = Entries
    BY <1>1 DEF ReceivedLength, Entries
  <2>2. Stop' = Stop
    BY <1>1, <2>1 DEF Stop
  <2>3. QED
    BY <1>1, <1>5, <2>1, <2>2 DEF Laid, Complete
<1>7. Ahead'
  <2>1. \A i \in next + 1 .. Len(answer) : i \in next .. Len(answer)
    BY <1>2
  <2>2. QED
    BY <1>1, <1>5, <2>1 DEF Ahead, Addressed
<1>8. LayoutInv'
  BY <1>1, <1>6, <1>7 DEF LayoutInv
<1>9. QED
  BY <1>4, <1>8 DEF IInv

\* The packet is sent or thrown away: its pointers are not used again.
LEMMA DoneInv ==
  ASSUME IInv, pc' \in {"sent", "dropped"},
         UNCHANGED <<dgram, buflen, len, bytes, entries, labels, begin, next>>
  PROVE  IInv'
<1>1. UNCHANGED <<dgram, buflen, len, bytes, question, answer, authority, additional,
                  labels, begin, next>>
  BY DEF entries
<1>2. TypeInv'
  BY <1>1 DEF IInv, TypeInv, TypeOK, InBuffer
<1>3. LayoutInv'
  BY DEF LayoutInv
<1>4. QED
  BY <1>2, <1>3 DEF IInv

\* Every step keeps the invariant, of a message the code was made for.
LEMMA NextInv == IInv /\ Translatable /\ [Next]_vars => IInv'
<1> SUFFICES ASSUME IInv, Translatable, [Next]_vars PROVE IInv'
  OBVIOUS
<1>1. CASE HeaderTooSmall
  BY <1>1, DoneInv DEF HeaderTooSmall
<1>2. CASE ReadHeader
  BY <1>2, ReadHeaderInv
<1>3. CASE ReadEntry
  BY <1>3, ReadEntryInv
<1>4. CASE EntryTooLong
  BY <1>4, DoneInv DEF EntryTooLong
<1>5. CASE SetQuestionType
  BY <1>5, SetQuestionTypeInv
<1>6. CASE NextRecord
  BY <1>6, NextRecordInv
<1>7. CASE SynthesizeRecord
  BY <1>7, SynthesizeRecordInv
<1>8. CASE NoRoom
  BY <1>8, DoneInv DEF NoRoom
<1>9. CASE SendReply
  BY <1>9, DoneInv DEF SendReply
<1>10. CASE UNCHANGED vars
  <2>1. UNCHANGED <<dgram, buflen, len, bytes, question, answer, authority, additional,
                    labels, begin, next, pc>>
    BY <1>10 DEF vars
  <2>2. TypeInv'
    BY <2>1 DEF IInv, TypeInv, TypeOK, InBuffer
  <2>3. ReceivedLength' = ReceivedLength /\ Entries' = Entries
    BY <2>1 DEF ReceivedLength, Entries
  <2>4. Stop' = Stop
    BY <2>1, <2>3 DEF Stop
  <2>5. LayoutInv'
    BY <2>1, <2>3, <2>4 DEF IInv, LayoutInv, Laid, InOrder, Complete, Ahead, Addressed
  <2>6. QED
    BY <2>2, <2>5 DEF IInv
<1>11. QED
  BY <1>1, <1>2, <1>3, <1>4, <1>5, <1>6, <1>7, <1>8, <1>9, <1>10 DEF Next
-------------------------------------------------------------------------------
(* The properties *)

\* Entries that differ only in where their names begin.
LEMMA ButNameEqual ==
  ASSUME NEW es, NEW fs, DOMAIN fs = DOMAIN es, \A i \in DOMAIN es : SameButName(es[i], fs[i])
  PROVE  ButName(es) = ButName(fs)
<1>1. ASSUME NEW i \in DOMAIN es
      PROVE  [x \in DOMAIN es[i] \ {"name"} |-> es[i][x]] = [x \in DOMAIN fs[i] \ {"name"} |-> fs[i][x]]
  BY DEF SameButName
<1>2. QED
  BY <1>1 DEF ButName

\* The constructor, reading the packet again, would find the entries where they are.
FoundAgain ==
  LET found == EntriesOf(bytes, len)
      q == Len(question)
  IN /\ Len(Entries) = Counts(bytes) /\ Counts(bytes) \in Nat /\ 1 <= Counts(bytes)
     /\ DOMAIN found = 1 .. Counts(bytes) /\ Len(found) = Counts(bytes)
     /\ Entries \in Seq(Questions(len) \cup Resources(len))
     /\ \A i \in 1 .. Counts(bytes) :
          /\ SectionOf(bytes, i) = 1 <=> Kind(q, i) = 1
          /\ SameButName(Entries[i], found[i])
          /\ found[i].begin = Entries[i].begin
          /\ EntryEnd(bytes, found[i], SectionOf(bytes, i)) = EndOf(bytes, q, Entries, i)

LEMMA LayoutFound ==
  ASSUME IInv, pc = "answers"
  PROVE  FoundAgain
<1> DEFINE c == Counts(bytes)
           q == Len(question)
           found == EntriesOf(bytes, len)
<1>1. TypeInv /\ Laid /\ Complete /\ question # <<>>
  BY DEF IInv, LayoutInv
<1>2. buflen \in Nat /\ bytes \in Buffer(buflen) /\ len \in 0 .. buflen /\ labels \in Seq(Nat)
      /\ begin \in Nat
  BY <1>1 DEF TypeInv, TypeOK, Buffer
<1>3. /\ Tiled(bytes, len, q, Entries, Stop) /\ Listed(bytes, len, Entries, labels)
      /\ HeaderSize <= len /\ ReceivedLength \in begin .. len
  BY <1>1 DEF Laid
<1>4. /\ Len(Entries) = c /\ c \in Nat /\ 1 <= c
      /\ Entries \in Seq(Questions(len) \cup Resources(len))
      /\ \A i \in 1 .. c : SectionOf(bytes, i) \in 1 .. 4
                           /\ (SectionOf(bytes, i) = 1 <=> Kind(q, i) = 1)
  <2>1. /\ Entries \in Seq(Questions(len) \cup Resources(len))
        /\ Len(Entries) = Len(question) + Len(answer) + Len(authority) + Len(additional)
    BY <1>1, EntriesTyped
  <2>2. /\ Len(question) \in Nat /\ Len(answer) \in Nat
        /\ Len(authority) \in Nat /\ Len(additional) \in Nat
        /\ Len(question) # 0
    BY <1>1, SectionsTyped
  <2>3. Len(Entries) = c /\ c \in Nat /\ 1 <= c
    BY <1>1, <2>1, <2>2 DEF Complete, Counts
  <2>4. q = Count(bytes, 1)
    BY <1>1 DEF Complete
  <2> HIDE DEF q
  <2>5. \A i \in 1 .. c : SectionOf(bytes, i) \in 1 .. 4
                          /\ (SectionOf(bytes, i) = 1 <=> Kind(q, i) = 1)
    BY <2>4 DEF SectionOf, Kind
  <2>6. QED
    BY <2>1, <2>3, <2>5
<1>5. Counted(bytes, q, Entries)
  BY <1>4 DEF Counted
<1> HIDE DEF q, found
<1>6. found = [i \in 1 .. c |-> EntryAt(bytes, Entries[i].begin, len, SectionOf(bytes, i))]
  BY <1>3, <1>5, EntriesFound DEF found
<1> HIDE DEF c
<1>7. DOMAIN found = 1 .. c /\ Len(found) = c
  BY <1>4, <1>6
<1>8. ASSUME NEW i \in 1 .. c
      PROVE  /\ SameButName(Entries[i], found[i])
             /\ found[i].begin = Entries[i].begin
             /\ EntryEnd(bytes, found[i], SectionOf(bytes, i)) = EndOf(bytes, q, Entries, i)
  <2> DEFINE s == SectionOf(bytes, i)
  <2>1. s \in 1 .. 4 /\ (s = 1 <=> Kind(q, i) = 1)
    BY <1>4
  <2>2. EntryLaid(bytes, len, Kind(q, i), Entries[i])
    BY <1>3, <1>4 DEF Tiled
  <2>3. Kind(q, i) \in 1 .. 2
    BY DEF Kind
  <2>4. found[i] = EntryAt(bytes, Entries[i].begin, len, s)
    BY <1>6
  <2> HIDE DEF s
  <2>5. /\ SameButName(Entries[i], found[i])
        /\ EntryEnd(bytes, found[i], s) = EndOf(bytes, q, Entries, i)
    BY <2>1, <2>2, <2>3, <2>4, EntryFound DEF EndOf
  <2>6. found[i].begin = Entries[i].begin
    BY <2>4 DEF EntryAt
  <2>7. QED
    BY <2>5, <2>6 DEF s
<1>9. QED
  BY <1>4, <1>7, <1>8 DEF FoundAgain, found, q, c

\* The layout is that of the packet read again.
LEMMA LayoutFollows == IInv => PointersFollow
<1> SUFFICES ASSUME IInv, pc = "answers"
             PROVE  LET found == EntriesOf(bytes, len)
                        last == Len(found)
                    IN /\ ButName(Entries) = ButName(found)
                       /\ len - EntryEnd(bytes, found[last], SectionOf(bytes, last))
                            = ReceivedLength - begin
                       /\ \A i, j \in DOMAIN labels : i < j => labels[i] < labels[j]
                       /\ ToSet(labels) =
                            UNION {ToSet(NameLabels(bytes, found[i].begin, len)) : i \in DOMAIN found}
  BY DEF PointersFollow, Entries, Join
<1> DEFINE c == Counts(bytes)
           q == Len(question)
           found == EntriesOf(bytes, len)
<1>1. TypeInv /\ Laid
  BY DEF IInv, LayoutInv
<1>2. buflen \in Nat /\ bytes \in Buffer(buflen) /\ len \in 0 .. buflen /\ labels \in Seq(Nat)
      /\ begin \in Nat
  BY <1>1 DEF TypeInv, TypeOK, Buffer
<1>3. /\ Tiled(bytes, len, q, Entries, Stop) /\ Listed(bytes, len, Entries, labels)
      /\ HeaderSize <= len /\ ReceivedLength \in begin .. len
  BY <1>1 DEF Laid
<1>4. FoundAgain
  BY LayoutFound
<1>5. /\ Len(Entries) = c /\ c \in Nat /\ 1 <= c
      /\ Entries \in Seq(Questions(len) \cup Resources(len))
  BY <1>4 DEF FoundAgain
<1>6. DOMAIN found = 1 .. c /\ Len(found) = c
  BY <1>4 DEF FoundAgain
<1>7. ASSUME NEW i \in 1 .. c
      PROVE  /\ SameButName(Entries[i], found[i])
             /\ found[i].begin = Entries[i].begin
             /\ EntryEnd(bytes, found[i], SectionOf(bytes, i)) = EndOf(bytes, q, Entries, i)
  BY <1>4 DEF FoundAgain
<1> HIDE DEF q, found, c
<1>8. ButName(Entries) = ButName(found)
  <2>1. DOMAIN Entries = 1 .. c
    BY <1>5
  <2>2. QED
    BY <1>6, <1>7, <2>1, ButNameEqual
<1>9. len - EntryEnd(bytes, found[c], SectionOf(bytes, c)) = ReceivedLength - begin
  <2>1. c \in 1 .. c /\ c \in 1 .. Len(Entries)
    BY <1>5
  <2>2. EndOf(bytes, q, Entries, c) = Stop
    BY <1>3, <1>5, <2>1 DEF Tiled
  <2>3. EntryEnd(bytes, found[c], SectionOf(bytes, c)) = Stop
    BY <1>7, <2>1, <2>2
  <2>4. len - Stop = ReceivedLength - begin
    BY <1>2, <1>3 DEF Stop
  <2>5. QED
    BY <2>3, <2>4
<1>10. \A i, j \in DOMAIN labels : i < j => labels[i] < labels[j]
  <2>1. DOMAIN labels = 1 .. Len(labels) /\ \A i \in 1 .. Len(labels) : labels[i] \in Nat
    BY <1>2
  <2>2. \A i, j \in 1 .. Len(labels) : i < j => labels[i] + 2 <= labels[j]
    BY <1>3 DEF Listed, Apart
  <2>3. QED
    BY <2>1, <2>2
<1>11. ASSUME NEW i \in 1 .. c, NEW l
       PROVE  l \in ToSet(NameLabels(bytes, found[i].begin, len))
                <=> HasLabel(bytes, len, Entries[i], l)
  <2> DEFINE ls == NameLabels(bytes, Entries[i].begin, len)
  <2>1. EntryLaid(bytes, len, Kind(q, i), Entries[i])
    BY <1>3, <1>5 DEF Tiled
  <2>2. ls \in Seq(Nat)
    BY <2>1 DEF EntryLaid, Named
  <2>3. found[i].begin = Entries[i].begin
    BY <1>7
  <2> HIDE DEF ls
  <2>4. l \in ToSet(ls) <=> \E k \in 1 .. Len(ls) : ls[k] = l
    BY <2>2 DEF ToSet
  <2>5. QED
    BY <2>3, <2>4 DEF ls, HasLabel
<1>12. ASSUME NEW l
       PROVE  l \in ToSet(labels) <=> \E i \in 1 .. c : HasLabel(bytes, len, Entries[i], l)
  <2>1. l \in ToSet(labels) <=> \E j \in 1 .. Len(labels) : labels[j] = l
    BY <1>2 DEF ToSet
  <2>2. \A i \in 1 .. c : HasLabel(bytes, len, Entries[i], l) => l \in Nat
    <3>1. TAKE i \in 1 .. c
    <3>2. EntryLaid(bytes, len, Kind(q, i), Entries[i])
      BY <1>3, <1>5 DEF Tiled
    <3>3. QED
      BY <1>2, <3>2 DEF EntryLaid, Named, HasLabel
  <2>3. QED
    BY <1>3, <1>5, <2>1, <2>2 DEF Listed
<1>13. ToSet(labels) =
         UNION {ToSet(NameLabels(bytes, found[i].begin, len)) : i \in DOMAIN found}
  <2> DEFINE T(i) == ToSet(NameLabels(bytes, found[i].begin, len))
  <2>1. \A i \in 1 .. c : \A l : l \in T(i) <=> HasLabel(bytes, len, Entries[i], l)
    BY <1>11
  <2> HIDE DEF T
  <2>2. \A l : l \in ToSet(labels) <=> \E i \in 1 .. c : l \in T(i)
    BY <1>12, <2>1
  <2>3. ToSet(labels) = UNION {T(i) : i \in 1 .. c}
    BY <2>2
  <2>4. QED
    BY <1>6, <2>3 DEF T
<1>14. QED
  BY <1>6, <1>8, <1>9, <1>10, <1>13 DEF found

\* Whatever a name server sends, of whatever length and compressed in whatever way,
\* and however much room there is behind it: the constructor, resize() and the rdata
\* setter keep the packet inside its buffer and every byte a byte, as long as the
\* message has a question and its A records addresses.
THEOREM SpecTypeOK == Spec /\ []Translatable => []TypeOK
<1>1. IInv => TypeOK
  BY DEF IInv, TypeInv
<1>2. QED
  BY <1>1, InitInv, NextInv, PTL DEF Spec

\* While the A records are rewritten one after another the pointers of the packet are
\* those the constructor would find in what the buffer has become: resize() leaves no
\* pointer behind, and moves none too far.
THEOREM SpecPointersFollow == Spec /\ []Translatable => []PointersFollow
  BY InitInv, NextInv, LayoutFollows, PTL DEF Spec
-------------------------------------------------------------------------------
(* What a proper datagram becomes *)

\* The length of the datagram, and its entries.
Size == Len(dgram)

Sent == EntriesOf(Received, Size)

\* The entries read are those sent, and the next one is where it was sent.
ReadAsSent ==
  /\ \A i \in 1 .. Len(Entries) : Entries[i] = Sent[i]
  /\ begin = Where(Received, Size, Len(Entries) + 1)

\* The A records of the answer section in front of its k-th record.
Before(k) == {i \in AddressRecords(Received, Size) : i < Count(Received, 1) + k}

\* Record i of the answer has the type and the length it was sent with.
SameAsSent(i) ==
  LET e == Sent[Len(question) + i]
  IN /\ U16(bytes, answer[i].qtype) = U16(Received, e.qtype)
     /\ U16(bytes, answer[i].rdlength) = U16(Received, e.rdlength)

\* What the loop has still to come to is as it was sent, and the packet has grown by 12
\* bytes for each address in front of it.
GrownAsSent ==
  /\ Len(question) = Count(Received, 1) /\ Len(answer) = Count(Received, 2)
  /\ \A i \in next .. Len(answer) : SameAsSent(i)
  /\ len = Size + 12 * Cardinality(Before(next))
  /\ TranslatedLength = Size + 12 * Cardinality(AddressRecords(Received, Size))

\* A proper datagram is read as it was sent, as far as it was received, and grows as its
\* records are rewritten.
SentInv ==
  /\ pc \in {"header", "entries"} => Agree(Received, bytes, len) /\ next = 1
  /\ pc = "entries" => ReadAsSent
  /\ pc = "answers" => GrownAsSent
  /\ SentWholeIfItFits

\* A proper datagram, as ProperAssumption has it.
ProperDatagram == dgram \in Seq(Bytes) /\ WellFormed(dgram)

\* The inductive invariant, of datagrams that are proper.
ProperInv == ProperDatagram => IInv /\ SentInv

\* What is not known to be malformed is proper.
ProperSent == dgram \notin Malformed => ProperDatagram
-------------------------------------------------------------------------------
(* Proper datagrams: what is known of them *)

LEMMA SentFacts ==
  ASSUME ProperDatagram
  PROVE  /\ Size \in Nat /\ Received \in Buffer(Size) /\ HeaderSize <= Size
         /\ Count(Received, 1) \in Nat /\ Count(Received, 2) \in Nat
         /\ Count(Received, 3) \in Nat /\ Count(Received, 4) \in Nat
         /\ Count(Received, 1) >= 1 /\ Counts(Received) \in Nat
         /\ \A i \in 1 .. Counts(Received) :
              Fits(Received, Sent[i], Size, SectionOf(Received, i))
         /\ Where(Received, Size, Counts(Received) + 1) = Size
         /\ \A i \in AddressRecords(Received, Size) : U16(Received, Sent[i].rdlength) = 4
<1>1. dgram \in Seq(Bytes) /\ WellFormed(dgram)
  BY DEF ProperDatagram
<1>2. Size \in Nat
  BY <1>1 DEF Size
<1>3. Received \in Buffer(Size)
  <2>1. ASSUME NEW p \in 0 .. Len(dgram) - 1 PROVE dgram[p + 1] \in Bytes
    <3>1. p + 1 \in 1 .. Len(dgram)
      BY <1>2, <2>1 DEF Size
    <3>2. QED
      BY <1>1, <3>1, ElementOfSeq
  <2>2. QED
    BY <2>1 DEF Received, BufferOf, Buffer, Size
<1>4. /\ HeaderSize <= Size
      /\ Count(Received, 1) >= 1
      /\ \A i \in 1 .. Counts(Received) :
           Fits(Received, Sent[i], Size, SectionOf(Received, i))
      /\ EntryEnd(Received, Sent[Counts(Received)], SectionOf(Received, Counts(Received))) = Size
      /\ \A i \in AddressRecords(Received, Size) : U16(Received, Sent[i].rdlength) = 4
  <2>1. Size >= HeaderSize
    BY <1>1 DEF WellFormed, Received, Size
  <2>2. QED
    BY <1>1, <1>2, <2>1 DEF WellFormed, Received, Size, Sent, HeaderSize
<1>5. Count(Received, 1) \in Nat /\ Count(Received, 2) \in Nat
      /\ Count(Received, 3) \in Nat /\ Count(Received, 4) \in Nat
  BY <1>2, <1>3, <1>4, CountTyped
<1>6. Counts(Received) \in Nat /\ Counts(Received) >= 1
  BY <1>4, <1>5 DEF Counts
<1> DEFINE c == Counts(Received)
<1> HIDE DEF c
<1>7. Where(Received, Size, c + 1) = Size
  <2>1. c + 1 # 1 /\ (c + 1) - 1 = c
    BY <1>6 DEF c
  <2>2. QED
    BY <1>4, <2>1 DEF Where, Sent, c
<1>8. QED
  BY <1>2, <1>3, <1>4, <1>5, <1>6, <1>7 DEF c

\* Entries of a message are where the one in front of them ends.
LEMMA SentNext ==
  ASSUME ProperDatagram, NEW i \in 1 .. Counts(Received)
  PROVE  Sent[i] = EntryAt(Received, Where(Received, Size, i), Size, SectionOf(Received, i))
BY SentFacts, EntryNext DEF Sent

\* There are finitely many A records, each with a place of its own, so that the length of
\* the translation is that of the datagram or more.
LEMMA AddressesFinite ==
  ASSUME ProperDatagram
  PROVE  /\ IsFiniteSet(AddressRecords(Received, Size))
         /\ Cardinality(AddressRecords(Received, Size)) \in Nat
         /\ TranslatedLength \in Nat /\ TranslatedLength >= Size
<1> DEFINE AR == AddressRecords(Received, Size)
           P == AddressesOf(Received, Size)
<1>1. Counts(Received) \in Nat /\ Size \in Nat
  BY SentFacts
<1>2. IsFiniteSet(AR)
  <2>1. AR \in SUBSET (1 .. Counts(Received))
    BY DEF AddressRecords
  <2>2. IsFiniteSet(1 .. Counts(Received))
    BY <1>1, FS_Interval
  <2> HIDE DEF AR
  <2>3. QED
    BY <2>1, <2>2, FS_Subset
<1>3. IsFiniteSet(P)
  <2> DEFINE f == [i \in AR |-> Sent[i].rdata]
  <2>1. f \in Surjection(AR, P)
    BY DEF AddressesOf, Sent, Surjection
  <2> HIDE DEF AR, P, f
  <2>2. QED
    BY <1>2, <2>1, FS_Surjection
<1> HIDE DEF AR, P
<1>4. Cardinality(AR) \in Nat /\ Cardinality(P) \in Nat
  BY <1>2, <1>3, FS_CardinalityType
<1>5. TranslatedLength = Size + (16 - 4) * Cardinality(P)
  BY PrefixTyped DEF TranslatedLength, Size, P
<1>6. TranslatedLength \in Nat /\ TranslatedLength >= Size
  BY <1>1, <1>4, <1>5
<1>7. QED
  BY <1>2, <1>4, <1>6 DEF AR

\* The header has been received as it was sent.
LEMMA CountsReceived ==
  ASSUME Agree(Received, bytes, len), HeaderSize <= len, len \in Nat
  PROVE  /\ Count(bytes, 1) = Count(Received, 1) /\ Count(bytes, 2) = Count(Received, 2)
         /\ Count(bytes, 3) = Count(Received, 3) /\ Count(bytes, 4) = Count(Received, 4)
<1>1. \A p \in Nat : p < 12 => bytes[p] = Received[p]
  BY DEF Agree, HeaderSize
<1>2. QED
  BY <1>1, CountKept

\* The entry that is read is the next one of the datagram.
LEMMA NextRead ==
  ASSUME ProperDatagram, TypeInv, Laid, InOrder, Unparsed # {}, Agree(Received, bytes, len)
  PROVE  /\ Len(Entries) + 1 \in 1 .. Counts(Received)
         /\ Section = SectionOf(Received, Len(Entries) + 1)
<1> DEFINE c1 == Count(Received, 1)
           c2 == Count(Received, 2)
           c3 == Count(Received, 3)
           c4 == Count(Received, 4)
           k == Len(Entries)
<1>1. c1 \in Nat /\ c2 \in Nat /\ c3 \in Nat /\ c4 \in Nat
  BY SentFacts
<1>2. len \in Nat /\ HeaderSize <= len
  BY DEF TypeInv, TypeOK, Laid
<1>3. /\ Count(bytes, 1) = c1 /\ Count(bytes, 2) = c2
      /\ Count(bytes, 3) = c3 /\ Count(bytes, 4) = c4
  BY <1>2, CountsReceived
<1>4. /\ Section = 1 => answer = <<>> /\ authority = <<>> /\ additional = <<>>
                        /\ Len(question) + 1 <= Count(bytes, 1)
      /\ Section = 2 => authority = <<>> /\ additional = <<>>
                        /\ Len(question) = Count(bytes, 1) /\ Len(answer) + 1 <= Count(bytes, 2)
      /\ Section = 3 => additional = <<>>
                        /\ Len(question) = Count(bytes, 1) /\ Len(answer) = Count(bytes, 2)
                        /\ Len(authority) + 1 <= Count(bytes, 3)
      /\ Section = 4 => Len(question) = Count(bytes, 1) /\ Len(answer) = Count(bytes, 2)
                        /\ Len(authority) = Count(bytes, 3)
                        /\ Len(additional) + 1 <= Count(bytes, 4)
  BY <1>2, SectionOrder
<1>5. Section \in 1 .. 4
  BY SectionTyped
<1>6. /\ Len(question) \in Nat /\ Len(answer) \in Nat
      /\ Len(authority) \in Nat /\ Len(additional) \in Nat
  BY SectionsTyped
<1>7. k = Len(question) + Len(answer) + Len(authority) + Len(additional)
  BY EntriesTyped
<1>8. /\ answer = <<>> => Len(answer) = 0
      /\ authority = <<>> => Len(authority) = 0
      /\ additional = <<>> => Len(additional) = 0
  OBVIOUS
<1>9. Counts(Received) = c1 + c2 + c3 + c4
  BY DEF Counts
<1>10. SectionOf(Received, k + 1) =
         IF k + 1 <= c1 THEN 1 ELSE IF k + 1 <= c1 + c2 THEN 2
         ELSE IF k + 1 <= c1 + c2 + c3 THEN 3 ELSE 4
  BY DEF SectionOf
<1> HIDE DEF c1, c2, c3, c4, k
<1>11. /\ Section = 1 => k + 1 <= c1
       /\ Section = 2 => c1 < k + 1 /\ k + 1 <= c1 + c2
       /\ Section = 3 => c1 + c2 < k + 1 /\ k + 1 <= c1 + c2 + c3
       /\ Section = 4 => c1 + c2 + c3 < k + 1 /\ k + 1 <= c1 + c2 + c3 + c4
  <2>1. CASE Section = 1
    <3>1. Len(answer) = 0 /\ Len(authority) = 0 /\ Len(additional) = 0 /\ Len(question) + 1 <= c1
      BY <1>3, <1>4, <1>8, <2>1
    <3>2. QED
      BY <1>6, <1>7, <2>1, <3>1
  <2>2. CASE Section = 2
    <3>1. Len(authority) = 0 /\ Len(additional) = 0 /\ Len(question) = c1 /\ Len(answer) + 1 <= c2
      BY <1>3, <1>4, <1>8, <2>2
    <3>2. QED
      BY <1>1, <1>6, <1>7, <2>2, <3>1
  <2>3. CASE Section = 3
    <3>1. /\ Len(additional) = 0 /\ Len(question) = c1 /\ Len(answer) = c2
          /\ Len(authority) + 1 <= c3
      BY <1>3, <1>4, <1>8, <2>3
    <3>2. QED
      BY <1>1, <1>6, <1>7, <2>3, <3>1
  <2>4. CASE Section = 4
    <3>1. /\ Len(question) = c1 /\ Len(answer) = c2 /\ Len(authority) = c3
          /\ Len(additional) + 1 <= c4
      BY <1>3, <1>4, <2>4
    <3>2. QED
      BY <1>1, <1>6, <1>7, <2>4, <3>1
  <2>5. QED
    BY <1>5, <2>1, <2>2, <2>3, <2>4
<1>12. k \in Nat
  BY <1>6, <1>7
<1>13. k + 1 \in 1 .. Counts(Received) /\ Section = SectionOf(Received, k + 1)
  <2>1. CASE Section = 1
    BY <1>1, <1>9, <1>10, <1>11, <1>12, <2>1
  <2>2. CASE Section = 2
    BY <1>1, <1>9, <1>10, <1>11, <1>12, <2>2
  <2>3. CASE Section = 3
    BY <1>1, <1>9, <1>10, <1>11, <1>12, <2>3
  <2>4. CASE Section = 4
    BY <1>1, <1>9, <1>10, <1>11, <1>12, <2>4
  <2>5. QED
    BY <1>5, <2>1, <2>2, <2>3, <2>4
<1>14. QED
  BY <1>13 DEF k
-------------------------------------------------------------------------------
(* The constructor reads a proper datagram *)

\* A proper datagram is thrown away for want of room only.
LEMMA ThrownAway ==
  ASSUME TranslatedLength > buflen, UNCHANGED <<dgram, buflen>>, pc' = "dropped"
  PROVE  SentInv'
<1>1. TranslatedLength' = TranslatedLength
  BY DEF TranslatedLength, Received
<1>2. SentWholeIfItFits'
  BY <1>1 DEF SentWholeIfItFits
<1>3. QED
  BY <1>2 DEF SentInv

\* What was cut off is missing.
LEMMA CutShort ==
  ASSUME ProperDatagram, TypeInv, len = ReceivedLength, len # Size
  PROVE  TranslatedLength > buflen
<1>1. Size \in Nat /\ TranslatedLength \in Nat /\ TranslatedLength >= Size
  BY SentFacts, AddressesFinite
<1>2. buflen \in Nat
  BY DEF TypeInv
<1>3. buflen < Size
  BY <1>1, <1>2 DEF ReceivedLength, Size
<1>4. QED
  BY <1>1, <1>2, <1>3

\* recvfrom() has written what was sent, or as much of it as there was room for.
LEMMA InitSent == Init => ProperInv /\ ProperSent
<1> SUFFICES ASSUME Init PROVE ProperInv /\ ProperSent
  OBVIOUS
<1>1. PICK d \in Datagrams, room \in Rooms :
        /\ Len(d) + room > 0 /\ dgram = d /\ buflen = Len(d) + room
        /\ len = IF room < 0 THEN buflen ELSE Len(d)
        /\ bytes = [o \in 0..buflen - 1 |-> IF o < Len(d) THEN d[o + 1] ELSE 0]
  BY DEF Init
<1>2. d \in Seq(Bytes) /\ room \in Int /\ Len(d) \in Nat
  BY DatagramsAssumption
<1>3. Agree(Received, bytes, len)
  <2>1. ASSUME NEW p \in Nat, p < len PROVE bytes[p] = Received[p]
    <3>1. p \in 0 .. buflen - 1 /\ p \in 0 .. Len(d) - 1 /\ p < Len(d)
      BY <1>1, <1>2, <2>1
    <3>2. bytes[p] = d[p + 1]
      BY <1>1, <3>1
    <3>3. Received[p] = d[p + 1]
      BY <1>1, <3>1 DEF Received, BufferOf
    <3>4. QED
      BY <3>2, <3>3
  <2>2. QED
    BY <2>1 DEF Agree
<1>4. pc = "header" /\ next = 1
  BY DEF Init
<1>5. SentInv
  BY <1>3, <1>4 DEF SentInv, SentWholeIfItFits
<1>6. ProperSent
  BY <1>1, DatagramsAssumption, ProperAssumption DEF ProperSent, ProperDatagram
<1>7. QED
  BY <1>5, <1>6, InitInv DEF ProperInv

\* The header is cut off.
LEMMA HeaderTooSmallSent ==
  ASSUME ProperDatagram, IInv, SentInv, HeaderTooSmall
  PROVE  SentInv'
<1>1. /\ pc = "header" /\ len < HeaderSize /\ pc' = "dropped"
      /\ UNCHANGED <<dgram, buflen>>
  BY DEF HeaderTooSmall
<1>2. TypeInv /\ len = ReceivedLength
  BY <1>1 DEF IInv, LayoutInv
<1>3. len # Size
  <2>1. HeaderSize <= Size /\ Size \in Nat /\ len \in Nat
    BY <1>2, SentFacts DEF TypeInv, TypeOK
  <2>2. QED
    BY <1>1, <2>1 DEF HeaderSize
<1>4. QED
  BY <1>1, <1>2, <1>3, CutShort, ThrownAway

\* The first entry is behind the header.
LEMMA ReadHeaderSent ==
  ASSUME ProperDatagram, IInv, SentInv, ReadHeader
  PROVE  SentInv'
<1>1. /\ pc = "header" /\ pc' = "entries"
      /\ UNCHANGED <<dgram, buflen, len, bytes, question, answer, authority, additional,
                     labels, begin, next>>
  BY DEF ReadHeader, entries
<1>2. TypeInv /\ question = <<>> /\ answer = <<>> /\ authority = <<>> /\ additional = <<>>
      /\ begin = HeaderSize
  BY <1>1 DEF IInv, LayoutInv
<1>3. Agree(Received, bytes, len) /\ next = 1
  BY <1>1 DEF SentInv
<1>4. Len(Entries) = 0
  <2>1. Len(Entries) = Len(question) + Len(answer) + Len(authority) + Len(additional)
    BY <1>2, EntriesTyped
  <2>2. Len(question) = 0 /\ Len(answer) = 0 /\ Len(authority) = 0 /\ Len(additional) = 0
    BY <1>2
  <2>3. QED
    BY <2>1, <2>2
<1>5. ReadAsSent
  BY <1>2, <1>4 DEF ReadAsSent, Where
<1>6. Received' = Received /\ Size' = Size /\ Sent' = Sent /\ Entries' = Entries
  BY <1>1 DEF Received, Size, Sent, Entries
<1>7. ReadAsSent'
  BY <1>1, <1>5, <1>6 DEF ReadAsSent
<1>8. QED
  BY <1>1, <1>3, <1>6, <1>7 DEF SentInv, SentWholeIfItFits

\* An entry that was received whole is the one that was sent.
LEMMA ReadEntrySent ==
  ASSUME ProperDatagram, IInv, SentInv, ReadEntry
  PROVE  SentInv'
<1> DEFINE s == Section
           e == EntryAt(bytes, begin, len, s)
           k == Len(Entries)
<1>1. /\ pc = "entries" /\ Unparsed # {} /\ Fits(bytes, e, len, s)
      /\ begin' = EntryEnd(bytes, e, s)
      /\ UNCHANGED <<dgram, buflen, len, bytes, next, pc>>
  BY DEF ReadEntry
<1>2. TypeInv /\ Laid /\ InOrder /\ len = ReceivedLength
  BY <1>1 DEF IInv, LayoutInv
<1>3. Agree(Received, bytes, len) /\ next = 1 /\ ReadAsSent
  BY <1>1 DEF SentInv
<1>4. /\ buflen \in Nat /\ bytes \in Buffer(buflen) /\ len \in 0 .. buflen /\ begin \in Nat
      /\ Size \in Nat /\ Received \in Buffer(Size) /\ len <= Size
  <2>1. Size \in Nat /\ Received \in Buffer(Size)
    BY SentFacts
  <2>2. buflen \in Nat /\ bytes \in Buffer(buflen) /\ len \in 0 .. buflen /\ begin \in Nat
    BY <1>2 DEF TypeInv, TypeOK, Buffer
  <2>3. len <= Size
    BY <1>2, <2>1, <2>2 DEF ReceivedLength, Size
  <2>4. QED
    BY <2>1, <2>2, <2>3
<1>5. k + 1 \in 1 .. Counts(Received) /\ s = SectionOf(Received, k + 1)
  BY <1>1, <1>2, <1>3, NextRead
<1>6. s \in 1 .. 4
  BY <1>1, <1>2, SectionTyped
<1>7. Agree(bytes, Received, len)
  BY <1>3 DEF Agree
<1>8. Taken(bytes, Received, Size, s, begin, e)
  BY <1>1, <1>4, <1>6, <1>7, EntryTaken
<1>9. Appended(Entries, Entries', e)
  BY ReadEntryInv
<1> HIDE DEF e, s
<1>10. Sent[k + 1] = e
  <2>1. Sent[k + 1] = EntryAt(Received, Where(Received, Size, k + 1), Size, s)
    BY <1>5, SentNext
  <2>2. Where(Received, Size, k + 1) = begin
    BY <1>3 DEF ReadAsSent
  <2>3. QED
    BY <1>8, <2>1, <2>2 DEF Taken
<1>11. begin' = Where(Received, Size, (k + 1) + 1)
  <2>1. k \in Nat
    BY <1>2, EntriesTyped
  <2> HIDE DEF k
  <2>2. (k + 1) + 1 # 1 /\ ((k + 1) + 1) - 1 = k + 1
    BY <2>1
  <2>3. Where(Received, Size, (k + 1) + 1) = EntryEnd(Received, Sent[k + 1], s)
    BY <1>5, <2>2 DEF Where, Sent
  <2>4. QED
    BY <1>1, <1>8, <1>10, <2>3 DEF Taken
<1>12. Received' = Received /\ Size' = Size /\ Sent' = Sent
  BY <1>1 DEF Received, Size, Sent
<1>13. \A i \in 1 .. Len(Entries') : Entries'[i] = Sent[i]
  <2>1. Len(Entries') = k + 1 /\ Entries'[k + 1] = e /\ k \in Nat
        /\ \A i \in 1 .. k : Entries'[i] = Entries[i]
    BY <1>2, <1>9, EntriesTyped DEF Appended
  <2>2. \A i \in 1 .. k : Entries[i] = Sent[i]
    BY <1>3 DEF ReadAsSent
  <2> HIDE DEF k
  <2>3. \A i \in 1 .. k + 1 : i \in 1 .. k \/ i = k + 1
    BY <2>1
  <2>4. QED
    BY <1>10, <2>1, <2>2, <2>3
<1>14. Len(Entries') = k + 1
  BY <1>9 DEF Appended
<1>15. ReadAsSent'
  BY <1>11, <1>12, <1>13, <1>14 DEF ReadAsSent
<1>16. Agree(Received, bytes, len)' /\ next' = 1 /\ pc' = "entries"
  BY <1>1, <1>3, <1>12
<1>17. QED
  BY <1>15, <1>16 DEF SentInv, SentWholeIfItFits

\* An entry that does not fit has been cut off.
LEMMA EntryTooLongSent ==
  ASSUME ProperDatagram, IInv, SentInv, EntryTooLong
  PROVE  SentInv'
<1> DEFINE s == Section
           k == Len(Entries)
<1>1. /\ pc = "entries" /\ Unparsed # {} /\ pc' = "dropped" /\ UNCHANGED <<dgram, buflen>>
      /\ ~Fits(bytes, EntryAt(bytes, begin, len, s), len, s)
  BY DEF EntryTooLong
<1>2. TypeInv /\ Laid /\ InOrder /\ len = ReceivedLength
  BY <1>1 DEF IInv, LayoutInv
<1>3. Agree(Received, bytes, len) /\ ReadAsSent
  BY <1>1 DEF SentInv
<1>4. /\ buflen \in Nat /\ bytes \in Buffer(buflen) /\ len \in 0 .. buflen /\ begin \in Nat
  BY <1>2 DEF TypeInv, TypeOK, Buffer
<1>5. /\ Size \in Nat /\ Received \in Buffer(Size)
      /\ \A i \in 1 .. Counts(Received) : Fits(Received, Sent[i], Size, SectionOf(Received, i))
  BY SentFacts
<1>6. k + 1 \in 1 .. Counts(Received) /\ s = SectionOf(Received, k + 1)
  BY <1>1, <1>2, <1>3, NextRead
<1>7. s \in 1 .. 4
  BY <1>1, <1>2, SectionTyped
<1> HIDE DEF s
<1>8. Sent[k + 1] = EntryAt(Received, begin, Size, s)
  <2>1. Sent[k + 1] = EntryAt(Received, Where(Received, Size, k + 1), Size, s)
    BY <1>6, SentNext
  <2>2. QED
    BY <1>3, <2>1 DEF ReadAsSent
<1>9. Fits(Received, EntryAt(Received, begin, Size, s), Size, s)
  BY <1>5, <1>6, <1>8
<1>10. len # Size
  <2>1. SUFFICES ASSUME len = Size PROVE FALSE
    OBVIOUS
  <2>2. Agree(Received, bytes, Size) /\ Size \in 0 .. buflen /\ Size <= Size /\ Size \in 0 .. Size
    BY <1>3, <1>4, <1>5, <2>1
  <2>3. Taken(Received, bytes, Size, s, begin, EntryAt(Received, begin, Size, s))
    BY <1>4, <1>5, <1>7, <1>9, <2>2, EntryTaken
  <2>4. Fits(bytes, EntryAt(bytes, begin, Size, s), Size, s)
    BY <2>3 DEF Taken
  <2>5. QED
    BY <1>1, <2>1, <2>4
<1>11. QED
  BY <1>1, <1>2, <1>10, CutShort, ThrownAway
-------------------------------------------------------------------------------
(* A proper datagram has been read *)

\* Two numbers of the buffer that were received.
LEMMA NumberReceived ==
  ASSUME Agree(Received, bytes, len), len \in Nat, NEW p \in Nat, p + 1 < len
  PROVE  U16(bytes, p) = U16(Received, p)
<1>1. p < len /\ p + 1 \in Nat
  OBVIOUS
<1>2. bytes[p] = Received[p] /\ bytes[p + 1] = Received[p + 1]
  BY <1>1 DEF Agree
<1>3. QED
  BY <1>2 DEF U16

\* All entries are those that were sent, and nothing was cut off.
LEMMA AllRead ==
  ASSUME ProperDatagram, IInv, SentInv, pc = "entries", Unparsed = {}
  PROVE  /\ Len(question) = Count(Received, 1) /\ Len(answer) = Count(Received, 2)
         /\ Len(Entries) = Counts(Received)
         /\ len = Size
         /\ \A i \in 1 .. Len(answer) :
              /\ answer[i] = Sent[Len(question) + i]
              /\ Len(question) + i \in 1 .. Counts(Received)
              /\ SameAsSent(i)
<1>1. TypeInv /\ Laid /\ InOrder /\ len = ReceivedLength
  BY DEF IInv, LayoutInv
<1>2. Agree(Received, bytes, len) /\ ReadAsSent
  BY DEF SentInv
<1>3. /\ buflen \in Nat /\ bytes \in Buffer(buflen) /\ len \in 0 .. buflen /\ begin \in Nat
      /\ answer \in Seq(Resources(len))
  BY <1>1 DEF TypeInv, TypeOK, Buffer, InBuffer
<1>4. HeaderSize <= len /\ begin <= len
  BY <1>1, <1>3 DEF Laid
<1>5. /\ Len(question) \in Nat /\ Len(answer) \in Nat
      /\ Len(authority) \in Nat /\ Len(additional) \in Nat
  BY <1>1, SectionsTyped
<1>6. /\ Count(bytes, 1) = Count(Received, 1) /\ Count(bytes, 2) = Count(Received, 2)
      /\ Count(bytes, 3) = Count(Received, 3) /\ Count(bytes, 4) = Count(Received, 4)
  BY <1>2, <1>3, <1>4, CountsReceived
<1>7. /\ Count(Received, 1) \in Nat /\ Count(Received, 2) \in Nat
      /\ Count(Received, 3) \in Nat /\ Count(Received, 4) \in Nat
      /\ Size \in Nat /\ Where(Received, Size, Counts(Received) + 1) = Size
  BY SentFacts
<1>8. ~(Len(question) < Count(bytes, 1)) /\ ~(Len(answer) < Count(bytes, 2))
      /\ ~(Len(authority) < Count(bytes, 3)) /\ ~(Len(additional) < Count(bytes, 4))
  <2>1. \A s \in 1 .. 4 : ~(Len(entries[s]) < Count(bytes, s))
    BY DEF Unparsed
  <2>2. QED
    BY <2>1 DEF entries
<1>9. /\ Len(question) <= Count(bytes, 1) /\ Len(answer) <= Count(bytes, 2)
      /\ Len(authority) <= Count(bytes, 3) /\ Len(additional) <= Count(bytes, 4)
  BY <1>1 DEF InOrder
<1>10. /\ Len(question) = Count(Received, 1) /\ Len(answer) = Count(Received, 2)
       /\ Len(authority) = Count(Received, 3) /\ Len(additional) = Count(Received, 4)
  BY <1>5, <1>6, <1>7, <1>8, <1>9
<1>11. Len(Entries) = Len(question) + Len(answer) + Len(authority) + Len(additional)
       /\ \A i \in 1 .. Len(answer) : Entries[Len(question) + i] = answer[i]
  BY <1>1, EntriesTyped
<1>12. Len(Entries) = Counts(Received)
  BY <1>10, <1>11 DEF Counts
<1>13. len = Size
  <2>1. begin = Size
    BY <1>2, <1>7, <1>12 DEF ReadAsSent
  <2>2. len <= Size
    BY <1>1, <1>3, <1>7 DEF ReceivedLength, Size
  <2>3. QED
    BY <1>3, <1>4, <1>7, <2>1, <2>2
<1>14. ASSUME NEW i \in 1 .. Len(answer)
       PROVE  /\ answer[i] = Sent[Len(question) + i]
              /\ Len(question) + i \in 1 .. Counts(Received)
              /\ SameAsSent(i)
  <2> DEFINE x == answer[i].qtype
             y == answer[i].rdlength
  <2>1. Len(question) + i \in 1 .. Len(Entries)
    <3> DEFINE z == Len(Entries)
               q == Len(question)
               a == Len(answer)
    <3>1. q \in Nat /\ a \in Nat /\ i \in 1 .. a /\ z \in Nat /\ q + a <= z
      BY <1>5, <1>11, <1>14
    <3> HIDE DEF z, q, a
    <3>2. q + i \in 1 .. z
      BY <3>1
    <3>3. QED
      BY <3>2 DEF z, q
  <2>2. answer[i] = Sent[Len(question) + i]
    BY <1>2, <1>11, <2>1 DEF ReadAsSent
  <2>3. answer[i] \in Resources(len)
    BY <1>3, ElementOfSeq
  <2>4. x \in Nat /\ y \in Nat /\ y = x + 8 /\ x + 10 <= len
    BY <2>3 DEF Resources
  <2> HIDE DEF x, y
  <2>5. x + 1 < len /\ y + 1 < len /\ len \in Nat
    BY <1>3, <2>4
  <2>6. U16(bytes, x) = U16(Received, x) /\ U16(bytes, y) = U16(Received, y)
    BY <1>2, <2>4, <2>5, NumberReceived
  <2>7. SameAsSent(i)
    BY <2>2, <2>6 DEF SameAsSent, x, y
  <2>8. QED
    BY <1>12, <2>1, <2>2, <2>7
<1>15. QED
  BY <1>10, <1>12, <1>13, <1>14

\* An entry of the answer section is an A record in the packet if it was sent as one.
LEMMA AddressSent ==
  ASSUME ProperDatagram, NEW i \in Nat, i >= 1, i <= Count(Received, 2),
         Len(question) = Count(Received, 1), SameAsSent(i)
  PROVE  /\ U16(bytes, answer[i].qtype) = TypeA
              <=> Count(Received, 1) + i \in AddressRecords(Received, Size)
         /\ U16(bytes, answer[i].qtype) = TypeA => U16(bytes, answer[i].rdlength) = 4
<1> DEFINE c1 == Count(Received, 1)
           c2 == Count(Received, 2)
           j == c1 + i
<1>1. c1 \in Nat /\ c2 \in Nat /\ Count(Received, 3) \in Nat /\ Count(Received, 4) \in Nat
  BY SentFacts
<1>2. Counts(Received) = c1 + c2 + Count(Received, 3) + Count(Received, 4)
  BY DEF Counts
<1>3. SectionOf(Received, j) = IF j <= c1 THEN 1 ELSE IF j <= c1 + c2 THEN 2
                               ELSE IF j <= c1 + c2 + Count(Received, 3) THEN 3 ELSE 4
  BY DEF SectionOf
<1>4. i <= c2
  OBVIOUS
<1> HIDE DEF c1, c2
<1>5. j \in 1 .. Counts(Received) /\ SectionOf(Received, j) = 2
  BY <1>1, <1>2, <1>3, <1>4
<1>6. /\ U16(bytes, answer[i].qtype) = U16(Received, Sent[j].qtype)
      /\ U16(bytes, answer[i].rdlength) = U16(Received, Sent[j].rdlength)
  BY DEF SameAsSent, c1
<1> HIDE DEF j
<1>7. U16(bytes, answer[i].qtype) = TypeA <=> j \in AddressRecords(Received, Size)
  BY <1>5, <1>6 DEF AddressRecords, Sent
<1>8. j \in AddressRecords(Received, Size) => U16(Received, Sent[j].rdlength) = 4
  BY SentFacts
<1>9. QED
  BY <1>6, <1>7, <1>8 DEF j, c1

\* What the theorems on all datagrams assume holds of the proper ones.
LEMMA SentTranslatable ==
  ASSUME ProperDatagram, IInv, SentInv
  PROVE  Translatable
<1> SUFFICES ASSUME pc = "entries", Unparsed = {}
             PROVE  question # <<>> /\ \A i \in 1 .. Len(answer) : Addressed(answer[i])
  BY DEF Translatable
<1>1. Len(question) = Count(Received, 1) /\ Len(answer) = Count(Received, 2)
      /\ \A i \in 1 .. Len(answer) : SameAsSent(i)
  BY AllRead
<1>2. Count(Received, 1) >= 1 /\ Count(Received, 1) \in Nat /\ Count(Received, 2) \in Nat
  BY SentFacts
<1>3. question # <<>>
  <2>1. Len(question) # 0
    BY <1>1, <1>2
  <2>2. QED
    BY <2>1
<1>4. ASSUME NEW i \in 1 .. Len(answer) PROVE Addressed(answer[i])
  <2>1. i \in Nat /\ i >= 1 /\ i <= Count(Received, 2)
    BY <1>1, <1>2
  <2>2. U16(bytes, answer[i].qtype) = TypeA => U16(bytes, answer[i].rdlength) = 4
    BY <1>1, <2>1, AddressSent
  <2>3. QED
    BY <2>2 DEF Addressed
<1>5. QED
  BY <1>3, <1>4

\* The rdata of every A record has a place of its own.
LEMMA PlacesApart ==
  ASSUME ProperDatagram, IInv, SentInv, pc = "entries", Unparsed = {}
  PROVE  TranslatedLength = Size + 12 * Cardinality(AddressRecords(Received, Size))
<1> DEFINE AR == AddressRecords(Received, Size)
           P == AddressesOf(Received, Size)
           f == [i \in AR |-> Sent[i].rdata]
           q == Len(question)
<1>1. TypeInv /\ Laid /\ ReadAsSent
  BY DEF IInv, LayoutInv, SentInv
<1>2. /\ buflen \in Nat /\ bytes \in Buffer(buflen) /\ len \in 0 .. buflen /\ begin \in Nat
  BY <1>1 DEF TypeInv, TypeOK, Buffer
<1>3. /\ Tiled(bytes, len, q, Entries, Stop) /\ Stop \in Nat
  <2>1. ReceivedLength \in begin .. len /\ Tiled(bytes, len, q, Entries, Stop)
    BY <1>1 DEF Laid
  <2>2. QED
    BY <1>2, <2>1 DEF Stop
<1>4. Len(Entries) = Counts(Received) /\ q = Count(Received, 1) /\ q \in Nat
      /\ Counts(Received) \in Nat
  BY AllRead, SentFacts
<1>5. ASSUME NEW i \in AR
      PROVE  /\ i \in 1 .. Len(Entries) /\ i \in Nat /\ q < i /\ Sent[i] = Entries[i]
             /\ Entries[i].qtype \in Nat /\ Sent[i].rdata = Entries[i].qtype + 10
             /\ InFields(bytes, q, Entries, i, Entries[i].qtype)
  <2>1. i \in 1 .. Counts(Received) /\ SectionOf(Received, i) = 2
    BY DEF AddressRecords
  <2> HIDE DEF AR
  <2>2. i \in 1 .. Len(Entries) /\ i \in Nat /\ Sent[i] = Entries[i]
    BY <1>1, <1>4, <2>1 DEF ReadAsSent
  <2>3. q < i
    <3>1. ~(i <= Count(Received, 1))
      BY <2>1 DEF SectionOf
    <3>2. QED
      BY <1>4, <2>2, <3>1
  <2>4. Len(Entries) \in Nat
    BY <1>4
  <2> HIDE DEF q
  <2>5. q \in Nat
    BY <1>4 DEF q
  <2>6. /\ Entries[i].qtype \in Nat /\ Entries[i].rdata = Entries[i].qtype + 10
        /\ \A k \in 0 .. 9 : InFields(bytes, q, Entries, i, Entries[i].qtype + k)
    BY <1>2, <1>3, <2>2, <2>3, <2>4, <2>5, ResourceFields
  <2>7. InFields(bytes, q, Entries, i, Entries[i].qtype + 0) /\ Entries[i].qtype + 0 = Entries[i].qtype
    BY <2>6
  <2>8. QED
    BY <2>2, <2>3, <2>6, <2>7
<1>6. ASSUME NEW i \in AR, NEW k \in AR, i < k PROVE Sent[i].rdata # Sent[k].rdata
  <2> DEFINE x == Entries[i].qtype
             y == Entries[k].qtype
  <2>1. /\ i \in 1 .. Len(Entries) /\ k \in 1 .. Len(Entries) /\ x \in Nat /\ y \in Nat
        /\ InFields(bytes, q, Entries, i, x) /\ InFields(bytes, q, Entries, k, y)
        /\ Sent[i].rdata = x + 10 /\ Sent[k].rdata = y + 10
    BY <1>5
  <2>2. Len(Entries) \in Nat /\ q \in Nat
    BY <1>4
  <2> HIDE DEF x, y, q, AR
  <2>3. x < y
    BY <1>2, <1>3, <1>6, <2>1, <2>2, FieldsApart
  <2>4. QED
    BY <2>1, <2>3
<1>7. f \in Bijection(AR, P)
  <2>1. f \in Surjection(AR, P)
    BY DEF AddressesOf, Sent, Surjection
  <2>2. ASSUME NEW i \in AR, NEW k \in AR, f[i] = f[k] PROVE i = k
    <3>1. Sent[i].rdata = Sent[k].rdata
      BY <2>2
    <3>2. i \in Nat /\ k \in Nat
      BY <1>5
    <3> HIDE DEF AR
    <3>3. ~(i < k) /\ ~(k < i)
      BY <1>6, <3>1
    <3>4. QED
      BY <3>2, <3>3
  <2> HIDE DEF AR, P
  <2>3. DOMAIN f = AR
    OBVIOUS
  <2>4. f \in [AR -> P]
    BY <2>1 DEF Surjection
  <2> HIDE DEF f
  <2>5. IsInjective(f)
    BY <2>2, <2>3 DEF IsInjective
  <2>6. f \in Injection(AR, P)
    BY <2>4, <2>5 DEF Injection
  <2>7. QED
    BY <2>1, <2>6 DEF Bijection
<1> HIDE DEF f, AR, P
<1>8. IsFiniteSet(AR)
  BY AddressesFinite DEF AR
<1>9. ExistsBijection(AR, P)
  BY <1>7 DEF ExistsBijection
<1>10. Cardinality(P) = Cardinality(AR)
  BY <1>8, <1>9, FS_Bijection
<1>11. TranslatedLength = Size + (16 - 4) * Cardinality(P)
  BY PrefixTyped DEF TranslatedLength, Size, P
<1>12. QED
  BY <1>10, <1>11 DEF AR
-------------------------------------------------------------------------------
(* The A records of a proper datagram are rewritten *)

\* The A records in front of the k-th of the answer, and in front of the next one.
LEMMA BeforeNext ==
  ASSUME ProperDatagram, NEW k \in Nat, k >= 1
  PROVE  /\ IsFiniteSet(Before(k)) /\ Cardinality(Before(k)) \in Nat
         /\ Cardinality(Before(k)) <= Cardinality(AddressRecords(Received, Size))
         /\ k = 1 => Before(k) = {}
         /\ k = Count(Received, 2) + 1 => Before(k) = AddressRecords(Received, Size)
         /\ Count(Received, 1) + k \notin AddressRecords(Received, Size)
              => Before(k + 1) = Before(k)
         /\ Count(Received, 1) + k \in AddressRecords(Received, Size)
              => Cardinality(Before(k + 1)) = Cardinality(Before(k)) + 1
<1> DEFINE AR == AddressRecords(Received, Size)
           c1 == Count(Received, 1)
           c2 == Count(Received, 2)
<1>1. c1 \in Nat /\ c2 \in Nat
  BY SentFacts
<1>2. IsFiniteSet(AR) /\ Cardinality(AR) \in Nat
  BY AddressesFinite
<1>3. \A i \in AR : i \in Nat /\ c1 < i /\ i <= c1 + c2
  <2>1. TAKE i \in AR
  <2>2. i \in 1 .. Counts(Received) /\ SectionOf(Received, i) = 2
    BY <2>1 DEF AddressRecords
  <2>3. i \in Nat
    BY <2>2, SentFacts
  <2>4. ~(i <= c1) /\ i <= c1 + c2
    BY <2>2 DEF SectionOf
  <2> HIDE DEF c1, c2
  <2>5. QED
    BY <1>1, <2>3, <2>4
<1>4. \A n : Before(n) = {i \in AR : i < c1 + n}
  BY DEF Before
<1> HIDE DEF AR, c1, c2
<1>5. ASSUME NEW n \in Nat
      PROVE  IsFiniteSet(Before(n)) /\ Cardinality(Before(n)) \in Nat
             /\ Cardinality(Before(n)) <= Cardinality(AR)
  <2>1. Before(n) \in SUBSET AR
    BY <1>4
  <2>2. IsFiniteSet(Before(n)) /\ Cardinality(Before(n)) <= Cardinality(AR)
    BY <1>2, <2>1, FS_Subset
  <2>3. QED
    BY <2>2, FS_CardinalityType
<1>6. k = 1 => Before(k) = {}
  BY <1>1, <1>3, <1>4
<1>7. k = c2 + 1 => Before(k) = AR
  BY <1>1, <1>3, <1>4
<1>8. c1 + k \notin AR => Before(k + 1) = Before(k)
  <2>1. SUFFICES ASSUME c1 + k \notin AR, NEW i \in AR PROVE i < c1 + (k + 1) <=> i < c1 + k
    BY <1>4
  <2>2. i # c1 + k /\ i \in Nat
    BY <1>3, <2>1
  <2>3. QED
    BY <1>1, <2>2
<1>9. ASSUME c1 + k \in AR PROVE Cardinality(Before(k + 1)) = Cardinality(Before(k)) + 1
  <2> DEFINE x == c1 + k
  <2>1. ASSUME NEW i \in AR PROVE i < c1 + (k + 1) <=> i < c1 + k \/ i = x
    BY <1>1, <1>3
  <2>2. Before(k + 1) = Before(k) \cup {x}
    BY <1>4, <1>9, <2>1
  <2>3. x \notin Before(k)
    BY <1>1, <1>4
  <2> HIDE DEF x
  <2>4. QED
    BY <1>5, <2>2, <2>3, FS_AddElement
<1>10. QED
  BY <1>5, <1>6, <1>7, <1>8, <1>9 DEF AR, c1, c2

\* The record the loop is at.
LEMMA AtSent ==
  ASSUME ProperDatagram, TypeInv, GrownAsSent, next <= Len(answer)
  PROVE  /\ next \in Nat /\ next >= 1
         /\ U16(bytes, answer[next].qtype) # TypeA
              => len = Size + 12 * Cardinality(Before(next + 1))
         /\ U16(bytes, answer[next].qtype) = TypeA
              => /\ U16(bytes, answer[next].rdlength) = 4
                 /\ len + 12 = Size + 12 * Cardinality(Before(next + 1))
                 /\ len + 12 <= TranslatedLength
<1> DEFINE a == Cardinality(Before(next))
           z == Cardinality(Before(next + 1))
           all == Cardinality(AddressRecords(Received, Size))
           j == Count(Received, 1) + next
<1>1. /\ Len(question) = Count(Received, 1) /\ Len(answer) = Count(Received, 2)
      /\ \A i \in next .. Len(answer) : SameAsSent(i)
      /\ len = Size + 12 * a
      /\ TranslatedLength = Size + 12 * all
  BY DEF GrownAsSent
<1>2. next \in 1 .. Len(answer) + 1
  BY DEF TypeInv, TypeOK
<1>3. Len(answer) \in Nat
  BY SectionsTyped
<1>4. next \in Nat /\ next >= 1 /\ next + 1 \in Nat /\ next + 1 >= 1 /\ next \in next .. Len(answer)
  BY <1>2, <1>3
<1>5. SameAsSent(next)
  BY <1>1, <1>4
<1>6. /\ U16(bytes, answer[next].qtype) = TypeA <=> j \in AddressRecords(Received, Size)
      /\ U16(bytes, answer[next].qtype) = TypeA => U16(bytes, answer[next].rdlength) = 4
  BY <1>1, <1>4, <1>5, AddressSent
<1>7. a \in Nat /\ z \in Nat /\ z <= all /\ all \in Nat /\ Size \in Nat
  BY <1>4, BeforeNext, AddressesFinite, SentFacts
<1>8. /\ j \notin AddressRecords(Received, Size) => z = a
      /\ j \in AddressRecords(Received, Size) => z = a + 1
  BY <1>4, BeforeNext
<1> HIDE DEF a, z, all, j
<1>9. CASE j \in AddressRecords(Received, Size)
  <2>1. z = a + 1
    BY <1>8, <1>9
  <2>2. len + 12 = Size + 12 * z /\ len + 12 <= TranslatedLength
    BY <1>1, <1>7, <2>1
  <2>3. QED
    BY <1>4, <1>6, <1>9, <2>2 DEF z
<1>10. CASE j \notin AddressRecords(Received, Size)
  <2>1. len = Size + 12 * z
    BY <1>1, <1>8, <1>10
  <2>2. QED
    BY <1>4, <1>6, <1>10, <2>1 DEF z
<1>11. QED
  BY <1>9, <1>10

\* What is read and rewritten from now on is as it was sent.
LEMMA SetQuestionTypeSent ==
  ASSUME ProperDatagram, IInv, SentInv, SetQuestionType
  PROVE  SentInv'
<1>1. /\ pc = "entries" /\ Unparsed = {} /\ pc' = "answers"
      /\ UNCHANGED <<dgram, buflen, len, next>>
  BY DEF SetQuestionType
<1>2. /\ Len(question) = Count(Received, 1) /\ Len(answer) = Count(Received, 2) /\ len = Size
      /\ \A i \in 1 .. Len(answer) : SameAsSent(i)
  BY <1>1, AllRead
<1>3. NumbersKept(1)
  BY SentTranslatable, SetQuestionTypeInv
<1>4. next = 1
  BY <1>1 DEF SentInv
<1>5. /\ Received' = Received /\ Size' = Size /\ Sent' = Sent
      /\ TranslatedLength' = TranslatedLength /\ \A k : Before(k)' = Before(k)
  BY <1>1 DEF Received, Size, Sent, TranslatedLength, Before
<1>6. \A i \in next .. Len(answer) : SameAsSent(i)'
  BY <1>2, <1>3, <1>4, <1>5 DEF NumbersKept, SameAsSent
<1>7. len' = Size' + 12 * Cardinality(Before(next)')
  <2>1. Before(1) = {} /\ Cardinality(Before(1)) = 0
    BY BeforeNext, FS_EmptySet
  <2>2. Size \in Nat
    BY SentFacts
  <2>3. QED
    BY <1>1, <1>2, <1>4, <1>5, <2>1, <2>2
<1>8. TranslatedLength' = Size' + 12 * Cardinality(AddressRecords(Received, Size)')
  BY <1>1, <1>5, PlacesApart
<1>9. GrownAsSent'
  BY <1>1, <1>2, <1>3, <1>5, <1>6, <1>7, <1>8 DEF NumbersKept, GrownAsSent, Before
<1>10. QED
  BY <1>1, <1>9 DEF SentInv, SentWholeIfItFits

\* The loop goes on behind a record that is no A record, or has become 12 bytes longer.
LEMMA NextSent ==
  ASSUME ProperDatagram, TypeInv, GrownAsSent, next <= Len(answer), next' = next + 1,
         UNCHANGED <<dgram, buflen>>, NumbersKept(next + 1), pc' = "answers",
         len' = Size + 12 * Cardinality(Before(next + 1))
  PROVE  SentInv'
<1>1. /\ Len(question) = Count(Received, 1) /\ Len(answer) = Count(Received, 2)
      /\ \A i \in next .. Len(answer) : SameAsSent(i)
      /\ TranslatedLength = Size + 12 * Cardinality(AddressRecords(Received, Size))
  BY DEF GrownAsSent
<1>2. Received' = Received /\ Size' = Size /\ Sent' = Sent /\ TranslatedLength' = TranslatedLength
  BY DEF Received, Size, Sent, TranslatedLength
<1>3. next \in Nat /\ Len(answer) \in Nat
  BY SectionsTyped DEF TypeInv, TypeOK
<1>4. \A i \in next + 1 .. Len(answer) : SameAsSent(i)'
  <2>1. TAKE i \in next + 1 .. Len(answer)
  <2>2. SameAsSent(i)
    <3>1. i \in next .. Len(answer)
      BY <1>3
    <3>2. QED
      BY <1>1, <3>1
  <2>3. QED
    BY <1>2, <2>2 DEF NumbersKept, SameAsSent
<1>5. Len(question') = Len(question) /\ Len(answer') = Len(answer)
  BY DEF NumbersKept
<1>6. GrownAsSent'
  BY <1>1, <1>2, <1>4, <1>5 DEF GrownAsSent, Before
<1>7. QED
  BY <1>6 DEF SentInv, SentWholeIfItFits

\* A record is passed over.
LEMMA NextRecordSent ==
  ASSUME ProperDatagram, IInv, SentInv, NextRecord
  PROVE  SentInv'
<1>1. /\ pc = "answers" /\ pc' = "answers" /\ next <= Len(answer) /\ next' = next + 1
      /\ U16(bytes, answer[next].qtype) # TypeA
      /\ UNCHANGED <<dgram, buflen, len, bytes, question, answer>>
  BY DEF NextRecord, entries
<1>2. TypeInv /\ GrownAsSent
  BY <1>1 DEF IInv, SentInv
<1>3. NumbersKept(next + 1)
  BY <1>1 DEF NumbersKept
<1>4. len' = Size + 12 * Cardinality(Before(next + 1))
  BY <1>1, <1>2, AtSent
<1>5. QED
  BY <1>1, <1>2, <1>3, <1>4, NextSent

\* A record is rewritten.
LEMMA SynthesizeRecordSent ==
  ASSUME ProperDatagram, IInv, SentInv, SynthesizeRecord
  PROVE  SentInv'
<1>1. /\ AtA /\ next' = next + 1
      /\ len' = len + (Synthesized - U16(bytes, answer[next].rdlength))
      /\ UNCHANGED <<dgram, buflen, pc>>
  BY DEF SynthesizeRecord
<1>2. pc = "answers" /\ next <= Len(answer) /\ U16(bytes, answer[next].qtype) = TypeA
  BY <1>1 DEF AtA
<1>3. TypeInv /\ GrownAsSent
  BY <1>2 DEF IInv, SentInv
<1>4. NumbersKept(next + 1)
  BY SynthesizeRecordInv
<1>5. U16(bytes, answer[next].rdlength) = 4 /\ len + 12 = Size + 12 * Cardinality(Before(next + 1))
  BY <1>2, <1>3, AtSent
<1>6. len' = Size + 12 * Cardinality(Before(next + 1))
  <2>1. len' = len + (16 - 4)
    BY <1>1, <1>5, PrefixTyped
  <2>2. QED
    BY <1>5, <2>1
<1>7. QED
  BY <1>1, <1>2, <1>3, <1>4, <1>6, NextSent

\* There is no room for a record, so there is none for the reply.
LEMMA NoRoomSent ==
  ASSUME ProperDatagram, IInv, SentInv, NoRoom
  PROVE  SentInv'
<1> DEFINE old == U16(bytes, answer[next].rdlength)
<1>1. /\ AtA /\ TooLong(old, Synthesized) /\ pc' = "dropped" /\ UNCHANGED <<dgram, buflen>>
  BY DEF NoRoom
<1>2. pc = "answers" /\ next <= Len(answer) /\ U16(bytes, answer[next].qtype) = TypeA
  BY <1>1 DEF AtA
<1>3. TypeInv /\ GrownAsSent
  BY <1>2 DEF IInv, SentInv
<1>4. old = 4 /\ len + 12 <= TranslatedLength
  BY <1>2, <1>3, AtSent
<1>5. TranslatedLength > buflen
  <2>1. 16 < 4 \/ 16 - 4 > buflen - len
    BY <1>1, <1>4, PrefixTyped DEF TooLong
  <2>2. buflen \in Nat /\ len \in Nat /\ TranslatedLength \in Nat
    BY <1>3, AddressesFinite DEF TypeInv, TypeOK
  <2>3. QED
    BY <1>4, <2>1, <2>2
<1>6. QED
  BY <1>1, <1>5, ThrownAway

\* All records are done.
LEMMA SendReplySent ==
  ASSUME ProperDatagram, IInv, SentInv, SendReply
  PROVE  SentInv'
<1>1. /\ pc = "answers" /\ next > Len(answer) /\ pc' = "sent" /\ UNCHANGED <<dgram, buflen, len>>
  BY DEF SendReply
<1>2. TypeInv /\ GrownAsSent
  BY <1>1 DEF IInv, SentInv
<1>3. next = Count(Received, 2) + 1 /\ next \in Nat /\ next >= 1
  <2>1. next \in 1 .. Len(answer) + 1 /\ Len(answer) \in Nat /\ Len(answer) = Count(Received, 2)
    BY <1>2, SectionsTyped DEF TypeInv, TypeOK, GrownAsSent
  <2>2. QED
    BY <1>1, <2>1
<1>4. Before(next) = AddressRecords(Received, Size)
  BY <1>3, BeforeNext
<1>5. len = TranslatedLength
  BY <1>2, <1>4 DEF GrownAsSent
<1>6. len <= buflen
  BY <1>2 DEF TypeInv, TypeOK
<1>7. TranslatedLength' = TranslatedLength
  BY <1>1 DEF TranslatedLength, Received
<1>8. SentWholeIfItFits'
  BY <1>1, <1>5, <1>6, <1>7 DEF SentWholeIfItFits
<1>9. QED
  BY <1>1, <1>8 DEF SentInv

\* Every step keeps the invariant, with no further assumption on the message.
LEMMA NextProper == [Next]_vars => (ProperInv => ProperInv') /\ (ProperSent => ProperSent')
<1> SUFFICES ASSUME [Next]_vars
             PROVE  (ProperInv => ProperInv') /\ (ProperSent => ProperSent')
  OBVIOUS
<1>1. dgram' = dgram
  BY DEF Next, vars, HeaderTooSmall, ReadHeader, ReadEntry, EntryTooLong, SetQuestionType,
         NextRecord, SynthesizeRecord, NoRoom, SendReply
<1>2. ProperDatagram' = ProperDatagram /\ ProperSent' = ProperSent
  BY <1>1 DEF ProperSent, ProperDatagram
<1>3. ASSUME ProperDatagram, ProperInv PROVE IInv' /\ SentInv'
  <2>1. ProperDatagram /\ IInv /\ SentInv
    BY <1>3 DEF ProperInv
  <2>2. Translatable
    BY <2>1, SentTranslatable
  <2>3. IInv'
    BY <2>1, <2>2, NextInv
  <2>4. SentInv'
    <3>1. CASE HeaderTooSmall
      BY <2>1, <3>1, HeaderTooSmallSent
    <3>2. CASE ReadHeader
      BY <2>1, <3>2, ReadHeaderSent
    <3>3. CASE ReadEntry
      BY <2>1, <3>3, ReadEntrySent
    <3>4. CASE EntryTooLong
      BY <2>1, <3>4, EntryTooLongSent
    <3>5. CASE SetQuestionType
      BY <2>1, <3>5, SetQuestionTypeSent
    <3>6. CASE NextRecord
      BY <2>1, <3>6, NextRecordSent
    <3>7. CASE SynthesizeRecord
      BY <2>1, <3>7, SynthesizeRecordSent
    <3>8. CASE NoRoom
      BY <2>1, <3>8, NoRoomSent
    <3>9. CASE SendReply
      BY <2>1, <3>9, SendReplySent
    <3>10. CASE UNCHANGED vars
      <4>1. UNCHANGED <<dgram, buflen, len, bytes, question, answer, authority, additional,
                        labels, begin, next, pc>>
        BY <3>10 DEF vars
      <4>2. /\ Received' = Received /\ Size' = Size /\ Sent' = Sent /\ Entries' = Entries
            /\ TranslatedLength' = TranslatedLength
        BY <4>1 DEF Received, Size, Sent, Entries, TranslatedLength
      <4>3. QED
        BY <2>1, <4>1, <4>2 DEF SentInv, ReadAsSent, GrownAsSent, SameAsSent, Before,
                                SentWholeIfItFits
    <3>11. QED
      BY <3>1, <3>2, <3>3, <3>4, <3>5, <3>6, <3>7, <3>8, <3>9, <3>10 DEF Next
  <2>5. QED
    BY <2>3, <2>4
<1>4. QED
  BY <1>2, <1>3 DEF ProperInv

\* A proper answer for which there is room, and for the addresses its translation adds, is sent
\* whole: the constructor accepts it and resize() does, and the reply ends where the
\* translation does.
THEOREM SpecSentWhole == Spec => []SentWholeIfItFits
<1>1. ProperInv /\ ProperSent => SentWholeIfItFits
  BY DEF ProperInv, ProperSent, SentInv, SentWholeIfItFits
<1>2. QED
  BY <1>1, InitSent, NextProper, PTL DEF Spec

\* Of the proper ones there is nothing to assume to keep the packet in its buffer and its
\* pointers in their places.
THEOREM SpecProper == Spec => [](dgram \notin Malformed => TypeOK /\ PointersFollow)
<1>1. ProperInv /\ ProperSent => (dgram \notin Malformed => TypeOK /\ PointersFollow)
  BY LayoutFollows DEF ProperInv, ProperSent, IInv, TypeInv
<1>2. QED
  BY <1>1, InitSent, NextProper, PTL DEF Spec
-------------------------------------------------------------------------------
(* Labels and the labels read behind them *)

\* Label k is in the name of entry i, and if it is none, so is no pointer in its bytes.
InName(b, es, ls, i, k) ==
  /\ k \in Nat /\ b[k] \in Nat /\ es[i].begin <= k
  /\ b[k] >= 192 => k + 2 <= es[i].qtype
  /\ b[k] < 192 =>
       /\ b[k] <= 63 /\ k + b[k] + 1 <= es[i].qtype
       /\ \A p \in Nat : k <= p /\ p <= k + b[k] => ~InPointer(b, ls, p)

\* A label of the packet is that of one of its entries.
LEMMA LabelInName ==
  ASSUME NEW m \in Nat, NEW b \in Buffer(m), NEW n \in 0 .. m, NEW q \in Nat, NEW es,
         Len(es) \in Nat, NEW stop \in Nat, Tiled(b, n, q, es, stop),
         NEW ls \in Seq(Nat), Listed(b, n, es, ls), NEW x \in 1 .. Len(ls)
  PROVE  \E i \in 1 .. Len(es) : InName(b, es, ls, i, ls[x])
<1> DEFINE k == ls[x]
<1>1. PICK i \in 1 .. Len(es) : HasLabel(b, n, es[i], k)
  BY DEF Listed
<1> DEFINE o == es[i].begin
           z == es[i].qtype
           stop_i == EndOf(b, q, es, i)
           ns == NameLabels(b, o, n)
<1>2. /\ Named(b, o, ns) /\ z = NameEnd(b, o, n) /\ \A y \in 1 .. Len(ns) : ns[y] < n
  BY DEF Tiled, EntryLaid, HasLabel
<1>3. o \in Nat /\ z \in Nat /\ stop_i \in Nat /\ z + 4 <= stop_i
  BY EndWithin
<1>4. PICK y \in 1 .. Len(ns) : ns[y] = k
  BY <1>1 DEF HasLabel
<1>5. Spanned(b, o, ns, y, z)
  <2> HIDE DEF ns, o, z
  <2>1. Spanned(b, o, ns, y, NameEnd(b, o, n))
    BY <1>2, <1>3, NamedSpan
  <2>2. QED
    BY <1>2, <2>1
<1>6. /\ k \in Nat /\ b[k] \in Nat /\ o <= k
      /\ b[k] >= 192 => k + 2 <= z
      /\ b[k] < 192 =>
           /\ b[k] <= 63 /\ k + b[k] + 1 <= z
           /\ \A v \in 1 .. Len(ns) : b[ns[v]] >= 192 => k + b[k] + 1 <= ns[v]
  BY <1>4, <1>5, Zenon DEF Spanned
<1>7. ASSUME b[k] < 192, NEW p \in Nat, k <= p, p <= k + b[k]
      PROVE  ~InPointer(b, ls, p)
  <2>1. SUFFICES ASSUME NEW u \in 1 .. Len(ls), b[ls[u]] >= 192, p = ls[u] \/ p = ls[u] + 1
                 PROVE  FALSE
    BY DEF InPointer
  <2> DEFINE l == ls[u]
  <2>2. PICK t \in 1 .. Len(es) : HasLabel(b, n, es[t], l)
    BY DEF Listed
  <2> DEFINE w == b[k]
  <2>21. k \in Nat /\ w \in Nat /\ o <= k /\ k + w + 1 <= z /\ k <= p /\ p <= k + w
    BY <1>6, <1>7, Zenon
  <2>22. \A v \in 1 .. Len(ns) : b[ns[v]] >= 192 => k + w + 1 <= ns[v]
    BY <1>6, <1>7, Zenon
  <2> HIDE DEF w
  <2>3. o <= p /\ p < z
    <3> HIDE DEF k, o, z
    <3>1. k \in Nat /\ w \in Nat /\ o \in Nat /\ z \in Nat
      BY <1>3, <2>21, Zenon
    <3>2. o <= p
      BY <2>21, <3>1
    <3>3. p < z
      BY <2>21, <3>1
    <3>4. QED
      BY <3>2, <3>3
  <2>4. /\ i < t => l \in Nat /\ stop_i <= l
        /\ t < i => l \in Nat /\ l < o
        /\ t < i /\ b[l] >= 192 => l + 1 < o
    <3> DEFINE f == es[t]
    <3>1. HasLabel(b, n, f, l)
      BY <2>2
    <3> HIDE DEF l
    <3>2. HasLabel(b, n, es[t], l)
      BY <3>1
    <3> HIDE DEF f
    <3>3. QED
      BY <3>2, LabelOwner
  <2>5. l \in Nat
    BY ElementOfSeq
  <2>6. b[l] >= 192 /\ (p = l \/ p = l + 1)
    BY <2>1
  <2>7. CASE t = i
    <3>1. PICK v \in 1 .. Len(ns) : ns[v] = l
      BY <2>2, <2>7 DEF HasLabel
    <3>2. k + w + 1 <= l
      BY <2>22, <2>6, <3>1, Zenon
    <3>3. p = l \/ p = l + 1
      BY <2>6
    <3> HIDE DEF k, l, o, z, ns, stop_i
    <3>4. k \in Nat /\ w \in Nat /\ p <= k + w /\ k + w + 1 <= l
      BY <2>21, <3>2, Zenon
    <3>5. p < l
      BY <2>5, <3>4
    <3>6. QED
      BY <2>5, <3>3, <3>5
  <2>8. CASE i < t
    <3>1. l \in Nat /\ stop_i <= l
      BY <2>4, <2>8
    <3> HIDE DEF l, o, z, stop_i
    <3>2. QED
      BY <1>3, <2>3, <2>6, <3>1
  <2>9. CASE t < i
    <3>1. l \in Nat /\ l + 1 < o
      BY <2>4, <2>6, <2>9
    <3> HIDE DEF l, o, z, stop_i
    <3>2. QED
      BY <1>3, <2>3, <2>6, <3>1
  <2>10. t \in Nat /\ i \in Nat
    OBVIOUS
  <2>11. QED
    BY <2>7, <2>8, <2>9, <2>10
<1>8. InName(b, es, ls, i, k)
  BY <1>6, <1>7, Zenon DEF InName
<1>9. QED
  BY <1>8

\* What resize() makes of label k: all its bytes are found where it is moved, and so is the
\* label behind it.
Carried(b, c, n, k, qt, from, d) ==
  LET h == Place(k, from, d)
  IN /\ k \in Nat /\ b[k] \in Nat /\ k < n /\ (k < qt \/ k >= from)
     /\ b[k] >= 192 => k + 1 < n /\ h + 1 < n + d /\ c[h] >= 192
     /\ b[k] < 192 =>
          /\ b[k] <= 63 /\ h + b[k] < n + d
          /\ \A x \in 0 .. b[k] : c[h + x] = b[k + x]
          /\ Place(k + b[k] + 1, from, d) = h + b[k] + 1

\* Label k, in front of z, and its bytes are t further on.
Taking(b, c, n, k, z, t, qt, from, d) ==
  /\ k \in Nat /\ b[k] \in Nat /\ z \in Nat /\ z <= n
  /\ (t = 0 /\ z <= qt) \/ (t = d /\ from <= k)
  /\ b[k] >= 192 => k + 2 <= z /\ c[Place(k, from, d)] >= 192
  /\ b[k] < 192 =>
       /\ b[k] <= 63 /\ k + b[k] + 1 <= z
       /\ \A p \in Nat : k <= p /\ p <= k + b[k] => KeptAt(b, c, p, t)

\* The label behind one that is moved as a whole is moved with it.
LEMMA TakenAlong ==
  ASSUME NEW n \in Nat, NEW b, NEW c, NEW k, NEW z, NEW t, NEW qt \in Nat, NEW from \in Nat,
         qt < from, NEW d \in Nat, Taking(b, c, n, k, z, t, qt, from, d)
  PROVE  Carried(b, c, n, k, qt, from, d)
<1> DEFINE h == Place(k, from, d)
           w == b[k]
<1>1. /\ k \in Nat /\ w \in Nat /\ z \in Nat /\ z <= n
      /\ (t = 0 /\ z <= qt) \/ (t = d /\ from <= k)
      /\ w >= 192 => k + 2 <= z /\ c[h] >= 192
      /\ w < 192 =>
           /\ w <= 63 /\ k + w + 1 <= z
           /\ \A p \in Nat : k <= p /\ p <= k + w => c[p + t] = b[p]
  BY DEF Taking, KeptAt
<1> HIDE DEF w
<1>2. w >= 192 \/ w < 192
  BY <1>1
<1>3. k + 1 <= z
  BY <1>1, <1>2
<1>4. t \in Nat /\ h = k + t /\ k < n /\ (k < qt \/ k >= from) /\ h \in Nat
  BY <1>1, <1>3 DEF Place
<1> HIDE DEF h
<1>5. w >= 192 => k + 1 < n /\ h + 1 < n + d /\ c[h] >= 192
  BY <1>1, <1>4
<1>6. ASSUME w < 192
      PROVE  /\ w <= 63 /\ h + w < n + d
             /\ \A x \in 0 .. w : c[h + x] = b[k + x]
             /\ Place(k + w + 1, from, d) = h + w + 1
  <2>1. w <= 63 /\ k + w + 1 <= z
    BY <1>1, <1>6
  <2>2. h + w < n + d
    BY <1>1, <1>4, <2>1
  <2>3. ASSUME NEW x \in 0 .. w PROVE c[h + x] = b[k + x]
    <3>1. k + x \in Nat /\ k <= k + x /\ k + x <= k + w
      BY <1>1
    <3>2. c[(k + x) + t] = b[k + x]
      BY <1>1, <1>6, <3>1, Zenon
    <3>3. (k + x) + t = h + x
      BY <1>1, <1>4
    <3>4. QED
      BY <3>2, <3>3
  <2>4. Place(k + w + 1, from, d) = h + w + 1
    BY <1>1, <1>4, <2>1 DEF Place
  <2>5. QED
    BY <2>1, <2>2, <2>3, <2>4
<1>7. QED
  BY <1>1, <1>4, <1>5, <1>6, Zenon DEF Carried, h, w

\* The labels the packet keeps are carried along with the names of their entries.
LEMMA LabelCarried ==
  ASSUME NEW m \in Nat, NEW b \in Buffer(m), NEW c, NEW n \in 0 .. m, NEW q \in Nat, NEW es,
         NEW stop \in Nat, NEW ls \in Seq(Nat), NEW j \in Nat, NEW qt \in Nat, NEW at \in Nat,
         NEW from \in Nat, NEW d \in Nat, Around(b, n, q, es, stop, ls, j, qt, at, from, d),
         Rewritten(b, c, n, ls, qt, at, from, d), NEW u \in 1 .. Len(ls)
  PROVE  Carried(b, c, n, ls[u], qt, from, d)
<1> DEFINE k == ls[u]
           w == b[k]
<1>1. Len(es) \in Nat /\ Tiled(b, n, q, es, stop) /\ Listed(b, n, es, ls)
  BY DEF Around
<1>2. PICK i \in 1 .. Len(es) : InName(b, es, ls, i, k)
  BY <1>1, LabelInName
<1> DEFINE x == es[i].begin
           y == es[i].qtype
           z == EndOf(b, q, es, i)
           t == Shift(i, j, d)
<1>3. /\ x \in Nat /\ y \in Nat /\ z \in Nat /\ x < y /\ y + 4 <= z /\ z <= n
      /\ i < j => z < qt
      /\ j < i => from <= x
      /\ i = j => x < qt /\ y = qt
      /\ at = qt + 10 /\ at < from /\ from <= n /\ i \in Nat
  BY AroundOrder
<1>4. /\ k \in Nat /\ w \in Nat /\ x <= k
      /\ w >= 192 => k + 2 <= y
      /\ w < 192 =>
           /\ w <= 63 /\ k + w + 1 <= y
           /\ \A p \in Nat : k <= p /\ p <= k + w => ~InPointer(b, ls, p)
  BY <1>2, Zenon DEF InName
<1>5. t = IF i > j THEN d ELSE 0
  BY DEF Shift
<1> HIDE DEF k, w, x, y, z, t
<1>6. y <= n /\ qt < from /\ ((t = 0 /\ y <= qt) \/ (t = d /\ from <= x))
  BY <1>3, <1>5
<1>7. w >= 192 => c[Place(k, from, d)] >= 192
  BY DEF Rewritten, k, w
<1>8. ASSUME w < 192, NEW p \in Nat, k <= p, p <= k + w
      PROVE  KeptAt(b, c, p, t)
  <2>1. ~InPointer(b, ls, p)
    BY <1>4, <1>8
  <2>2. k \in Nat /\ w \in Nat /\ k + w + 1 <= y
    BY <1>4, <1>8
  <2>3. x <= p /\ p < y
    BY <1>3, <1>4, <1>8, <2>2
  <2>4. Aside(p, n, qt, at, from)
    BY <1>3, <1>6, <2>3 DEF Aside
  <2>5. Place(p, from, d) = p + t
    <3>1. CASE t = 0 /\ y <= qt
      <4>1. p < from
        BY <1>3, <1>6, <2>3, <3>1
      <4>2. QED
        BY <3>1, <4>1 DEF Place
    <3>2. CASE t = d /\ from <= x
      <4>1. p >= from
        BY <1>3, <2>3, <3>2
      <4>2. QED
        BY <3>2, <4>1 DEF Place
    <3>3. QED
      BY <1>6, <3>1, <3>2
  <2>6. QED
    BY <2>1, <2>4, <2>5 DEF Rewritten, Aside, KeptAt
<1>9. Taking(b, c, n, k, y, t, qt, from, d)
  <2>1. (t = 0 /\ y <= qt) \/ (t = d /\ from <= k)
    BY <1>3, <1>4, <1>6
  <2>2. QED
    BY <1>3, <1>4, <1>6, <1>7, <1>8, <2>1, Zenon DEF Taking, w
<1>10. Carried(b, c, n, k, qt, from, d)
  BY <1>6, <1>9, TakenAlong
<1>11. QED
  BY <1>10 DEF k

\* The bytes of label k are t bytes on.
AllKeptAt(b, c, k, t) ==
  \A p \in Nat : k <= p /\ p < k + (IF b[k] >= 192 THEN 2 ELSE b[k] + 1) => KeptAt(b, c, p, t)

\* The labels in the rdata of the other records are carried along with these.
LEMMA TargetCarried ==
  ASSUME NEW m \in Nat, NEW b \in Buffer(m), NEW c, NEW n \in 0 .. m, NEW q \in Nat, NEW es,
         NEW stop \in Nat, NEW ls \in Seq(Nat), NEW j \in Nat, NEW qt \in Nat, NEW at \in Nat,
         NEW from \in Nat, NEW d \in Nat, Around(b, n, q, es, stop, ls, j, qt, at, from, d),
         Rewritten(b, c, n, ls, qt, at, from, d), U16(b, qt) = TypeA, NEW v, NEW w,
         NEW i \in 1 .. Len(es), NEW k, InTarget(b, q, es, v, w, i, k)
  PROVE  /\ Carried(b, c, n, k, qt, from, d)
         /\ i # j /\ PlacedBy(k, from, d, Shift(i, j, d))
         /\ AllKeptAt(b, c, k, Shift(i, j, d))
<1> DEFINE s == b[k]
           x == es[i].begin
           y == es[i].qtype
           z == EndOf(b, q, es, i)
           t == Shift(i, j, d)
<1>1. Len(es) \in Nat /\ Tiled(b, n, q, es, stop) /\ qt = es[j].qtype
  BY DEF Around
<1>2. i # j
  BY <1>1 DEF InTarget
<1>3. /\ x \in Nat /\ y \in Nat /\ z \in Nat /\ x < y /\ y + 4 <= z /\ z <= n
      /\ i < j => z < qt
      /\ j < i => from <= x
      /\ i = j => x < qt /\ y = qt
      /\ at = qt + 10 /\ at < from /\ from <= n /\ i \in Nat
  BY AroundOrder
<1>4. es[i].rdata = y + 10
  BY <1>1, ResourceFields DEF InTarget
<1>5. /\ k \in Nat /\ s \in Nat /\ y + 10 <= k
      /\ s >= 192 => k + 2 <= z
      /\ s < 192 => s <= 63 /\ k + s + 1 <= z
  BY <1>4, Zenon DEF InTarget
<1>6. t = IF i > j THEN d ELSE 0
  BY DEF Shift
<1>7. ASSUME NEW p \in Nat, k <= p, p < z
      PROVE  KeptAt(b, c, p, t)
  <2>1. InFields(b, q, es, i, p)
    <3> HIDE DEF s, x, y, z
    <3>1. y <= p /\ p < z
      BY <1>3, <1>5, <1>7
    <3>2. QED
      BY <3>1 DEF InFields, y, z
  <2>2. QED
    BY <1>2, <2>1, FieldKept
<1>8. ASSUME s >= 192 PROVE c[Place(k, from, d)] >= 192 /\ k + 2 <= z
  <2>1. k < z /\ k <= k
    BY <1>3, <1>5, <1>8
  <2>2. c[k + t] = s
    BY <1>5, <1>7, <2>1 DEF KeptAt
  <2> HIDE DEF s, x, y, z, t
  <2>3. Place(k, from, d) = k + t
    BY <1>2, <1>3, <1>5, <1>6, <2>1 DEF Place
  <2>4. QED
    BY <1>5, <1>8, <2>2, <2>3
<1> HIDE DEF s, x, y, z, t
<1>9. qt < from /\ ((t = 0 /\ z <= qt) \/ (t = d /\ from <= k))
  BY <1>2, <1>3, <1>5, <1>6
<1>10. \A p \in Nat : k <= p /\ p < k + (IF s >= 192 THEN 2 ELSE s + 1) => KeptAt(b, c, p, t)
  <2>1. TAKE p \in Nat
  <2>2. HAVE k <= p /\ p < k + (IF s >= 192 THEN 2 ELSE s + 1)
  <2>3. p < z
    BY <1>3, <1>5, <2>2
  <2>4. QED
    BY <1>7, <2>2, <2>3
<1>11. s < 192 => \A p \in Nat : k <= p /\ p <= k + s => KeptAt(b, c, p, t)
  <2>1. SUFFICES ASSUME s < 192, NEW p \in Nat, k <= p, p <= k + s PROVE KeptAt(b, c, p, t)
    OBVIOUS
  <2>2. p < z
    BY <1>3, <1>5, <2>1
  <2>3. QED
    BY <1>7, <2>1, <2>2
<1>12. Taking(b, c, n, k, z, t, qt, from, d)
  BY <1>3, <1>5, <1>8, <1>9, <1>11, Zenon DEF Taking, s
<1>13. Carried(b, c, n, k, qt, from, d)
  BY <1>9, <1>12, TakenAlong
<1>14. PlacedBy(k, from, d, t)
  <2>1. k < z
    BY <1>3, <1>5
  <2>2. QED
    BY <1>3, <1>5, <1>9, <2>1 DEF Place, PlacedBy
<1>15. AllKeptAt(b, c, k, t)
  BY <1>10 DEF AllKeptAt, s
<1>16. QED
  BY <1>2, <1>13, <1>14, <1>15 DEF t

\* All of them are carried along.
LEMMA StandingCarried ==
  ASSUME NEW m \in Nat, NEW b \in Buffer(m), NEW c, NEW n \in 0 .. m, NEW q \in Nat, NEW es,
         NEW stop \in Nat, NEW ls \in Seq(Nat), NEW j \in Nat, NEW qt \in Nat, NEW at \in Nat,
         NEW from \in Nat, NEW d \in Nat, Around(b, n, q, es, stop, ls, j, qt, at, from, d),
         Rewritten(b, c, n, ls, qt, at, from, d), U16(b, qt) = TypeA, NEW v, NEW w,
         NEW k, Standing(b, q, es, ls, v, w, k)
  PROVE  Carried(b, c, n, k, qt, from, d)
<1>1. CASE \E u \in 1 .. Len(ls) : ls[u] = k
  <2>1. PICK u \in 1 .. Len(ls) : ls[u] = k
    BY <1>1
  <2>2. Carried(b, c, n, ls[u], qt, from, d)
    BY LabelCarried
  <2>3. QED
    BY <2>1, <2>2
<1>2. CASE \E i \in 1 .. Len(es) : InTarget(b, q, es, v, w, i, k)
  <2>1. PICK i \in 1 .. Len(es) : InTarget(b, q, es, v, w, i, k)
    BY <1>2
  <2>2. QED
    BY <2>1, TargetCarried
<1>3. QED
  BY <1>1, <1>2 DEF Standing

\* Entry i of es is entry i of fs, t bytes on, with a type and a length of its own.
RecordFollows(b, c, q, es, fs, i, t) ==
  /\ es[i].qtype \in Nat /\ es[i].rdata = es[i].qtype + 10
  /\ fs[i].qtype = es[i].qtype + t /\ fs[i].rdata = es[i].rdata + t
  /\ U16(c, fs[i].qtype) = U16(b, es[i].qtype)
  /\ EndOf(b, q, es, i) \in Nat /\ EndOf(c, q, fs, i) = EndOf(b, q, es, i) + t

\* The other records are moved as they are.
LEMMA RecordMoved ==
  ASSUME NEW m \in Nat, NEW b \in Buffer(m), NEW c, NEW n \in 0 .. m, NEW q \in Nat, NEW es,
         NEW fs, NEW stop \in Nat, NEW ls, NEW j \in Nat, NEW qt \in Nat, NEW at \in Nat,
         NEW from \in Nat, NEW d \in Nat, Around(b, n, q, es, stop, ls, j, qt, at, from, d),
         Rewritten(b, c, n, ls, qt, at, from, d), Grown(es, fs, at, d),
         NEW i \in 1 .. Len(es), i # j, q < i
  PROVE  RecordFollows(b, c, q, es, fs, i, Shift(i, j, d))
<1> DEFINE t == Shift(i, j, d)
           e == es[i]
           f == fs[i]
<1>1. Len(es) \in Nat /\ Tiled(b, n, q, es, stop)
  BY DEF Around
<1>2. /\ e.qtype \in Nat /\ e.rdlength = e.qtype + 8 /\ e.rdata = e.qtype + 10
      /\ U16(b, e.rdlength) \in Nat /\ EndOf(b, q, es, i) = e.rdata + U16(b, e.rdlength)
  <2> HIDE DEF f, t
  <2>1. e.qtype \in Nat /\ e.rdlength = e.qtype + 8 /\ e.rdata = e.qtype + 10
    <3>1. Kind(q, i) = 2 /\ 2 # 1
      BY DEF Kind
    <3>2. e \in Shape(n, 2)
      BY <1>1, <3>1 DEF Tiled, EntryLaid
    <3> HIDE DEF e
    <3>3. QED
      BY <3>1, <3>2, ShapeFields
  <2>2. U16(b, es[i].rdlength) \in Nat
        /\ EndOf(b, q, es, i) = es[i].rdata + U16(b, es[i].rdlength)
    BY <1>1, ResourceFields
  <2>3. QED
    BY <2>1, <2>2, Zenon
<1>3. MovedBy(n + d, Kind(q, i), e, f, t)
  BY AroundMoved
<1>4. SameNumbers(b, c, e, t)
  BY AroundNumbers
<1>5. t \in Nat /\ Kind(q, i) = 2
  BY DEF Shift, Kind
<1> HIDE DEF t
<1>6. f \in Shape(n + d, 2) /\ f.qtype = e.qtype + t /\ f.rdlength = e.rdlength + t
  BY <1>3, <1>5 DEF MovedBy
<1>7. f.rdata = f.qtype + 10
  <2> HIDE DEF e, f
  <2>1. f \in Shape(n + d, 2) /\ 2 # 1
    BY <1>6
  <2>2. QED
    BY <2>1, ShapeFields
<1>8. EndOf(c, q, fs, i) = f.rdata + U16(c, f.rdlength)
  BY <1>5 DEF EndOf, EntryEnd, FixedEnd
<1>9. U16(c, f.qtype) = U16(b, e.qtype) /\ U16(c, f.rdlength) = U16(b, e.rdlength)
  BY <1>4, <1>6 DEF SameNumbers
<1> DEFINE r == U16(b, e.rdlength)
           x == e.qtype
           y == e.rdata
<1>10. x \in Nat /\ y = x + 10 /\ r \in Nat /\ f.rdata = (x + t) + 10
       /\ EndOf(c, q, fs, i) = f.rdata + r /\ EndOf(b, q, es, i) = y + r
  BY <1>2, <1>6, <1>7, <1>8, <1>9, Zenon
<1> HIDE DEF e, f, r, x, y
<1>11. f.rdata = y + t /\ EndOf(c, q, fs, i) = EndOf(b, q, es, i) + t /\ EndOf(b, q, es, i) \in Nat
  BY <1>5, <1>10
<1>12. QED
  BY <1>2, <1>6, <1>9, <1>11, Zenon DEF RecordFollows, e, f, t, y

\* A pointer points to where what it pointed to has been moved.
LEMMA PointerCarried ==
  ASSUME NEW m \in Nat, NEW b \in Buffer(m), NEW c, NEW n \in 0 .. m, NEW q \in Nat, NEW es,
         NEW stop \in Nat, NEW ls \in Seq(Nat), NEW j \in Nat, NEW qt \in Nat, NEW at \in Nat,
         NEW from \in Nat, NEW d \in Nat, Around(b, n, q, es, stop, ls, j, qt, at, from, d),
         Rewritten(b, c, n, ls, qt, at, from, d), U16(b, qt) = TypeA, n + d <= 2^14,
         NEW w \in Nat, j <= w, NEW k, Standing(b, q, es, ls, j, w, k), b[k] >= 192,
         Carried(b, c, n, Offset(b, k), qt, from, d)
  PROVE  Offset(c, Place(k, from, d)) = Place(Offset(b, k), from, d)
<1> DEFINE o == Offset(b, k)
           h == Place(k, from, d)
<1>1. o \in Nat /\ o < n /\ (o < qt \/ o >= from)
  BY Zenon DEF Carried
<1>2. /\ Len(es) \in Nat /\ Tiled(b, n, q, es, stop) /\ j \in 1 .. Len(es) /\ q < j
      /\ qt = es[j].qtype /\ at = qt + 10 /\ at < from
  BY DEF Around
<1>3. CASE \E u \in 1 .. Len(ls) : ls[u] = k
  <2>1. PICK u \in 1 .. Len(ls) : ls[u] = k
    BY <1>3
  <2>2. Pointed(b, k, c, h, at, d)
    BY <2>1 DEF Rewritten
  <2>3. o + d < 2^14 => Offset(c, h) = IF o > at THEN o + d ELSE o
    BY <2>2 DEF Pointed
  <2> HIDE DEF o, h
  <2>4. o + d < 2^14
    <3> DEFINE max == 2^14
    <3>1. max \in Nat /\ n + d <= max
      <4>1. 2^14 = 16384
        BY SMT
      <4>2. QED
        BY <4>1
    <3> HIDE DEF max
    <3>2. o + d < max
      BY <1>1, <3>1
    <3>3. QED
      BY <3>2 DEF max
  <2>5. (IF o > at THEN o + d ELSE o) = Place(o, from, d)
    <3>1. at < from /\ at = qt + 10
      BY DEF Around
    <3>2. CASE o < qt
      BY <1>1, <3>1, <3>2 DEF Place
    <3>3. CASE o >= from
      BY <1>1, <3>1, <3>3 DEF Place
    <3>4. QED
      BY <1>1, <3>2, <3>3
  <2>6. QED
    BY <2>3, <2>4, <2>5 DEF o, h
<1>4. CASE \E i \in 1 .. Len(es) : InTarget(b, q, es, j, w, i, k)
  <2>1. PICK i \in 1 .. Len(es) : InTarget(b, q, es, j, w, i, k)
    BY <1>4
  <2> DEFINE t == Shift(i, j, d)
  <2>2. /\ PlacedBy(k, from, d, t)
        /\ AllKeptAt(b, c, k, t)
    BY <2>1, TargetCarried
  <2>3. k \in Nat /\ t \in Nat
    BY <2>1 DEF InTarget, Shift
  <2> HIDE DEF t
  <2>4. KeptAt(b, c, k, t) /\ KeptAt(b, c, k + 1, t)
    <3>1. (IF b[k] >= 192 THEN 2 ELSE b[k] + 1) = 2
      OBVIOUS
    <3>2. \A p \in Nat : k <= p /\ p < k + 2 => KeptAt(b, c, p, t)
      BY <2>2, <3>1 DEF AllKeptAt
    <3>3. k + 1 \in Nat /\ k <= k /\ k < k + 2 /\ k <= k + 1 /\ k + 1 < k + 2
      BY <2>3
    <3>4. QED
      BY <2>3, <3>2, <3>3
  <2>5. c[h] = b[k] /\ c[h + 1] = b[k + 1]
    <3>1. h = k + t /\ (k + 1) + t = h + 1
      BY <2>2, <2>3 DEF PlacedBy
    <3>2. QED
      BY <2>4, <3>1 DEF KeptAt
  <2>6. Offset(c, h) = o
    BY <2>5 DEF Offset, U16
  <2>7. o <= at
    <3>1. j \in j .. w
      OBVIOUS
    <3>2. es[j].rdata = at
      BY <1>2, ResourceFields
    <3>3. Offset(b, k) <= es[j].rdata
      BY <1>2, <2>1, <3>1 DEF InTarget
    <3>4. QED
      BY <3>2, <3>3
  <2> HIDE DEF o
  <2>8. Place(o, from, d) = o
    <3>1. at < from
      BY <1>2
    <3>2. o < from
      BY <1>1, <2>7, <3>1
    <3>3. QED
      BY <1>1, <3>2 DEF Place
  <2>9. QED
    BY <2>6, <2>8 DEF o, h
<1>5. QED
  BY <1>3, <1>4 DEF Standing

\* They stand where they are carried to.
LEMMA StandingMoved ==
  ASSUME NEW m \in Nat, NEW b \in Buffer(m), NEW c \in Buffer(m), NEW n \in 0 .. m, NEW q \in Nat,
         NEW es, NEW fs, NEW stop \in Nat, NEW ls \in Seq(Nat), NEW ms, NEW j \in Nat,
         NEW qt \in Nat, NEW at \in Nat, NEW from \in Nat, NEW d \in Nat,
         Around(b, n, q, es, stop, ls, j, qt, at, from, d), n + d <= m,
         Rewritten(b, c, n, ls, qt, at, from, d), U16(b, qt) = TypeA,
         Placed(n, ls, ms, from, d), Grown(es, fs, at, d),
         NEW w \in Nat, w <= Len(es), NEW k, Standing(b, q, es, ls, j, w, k)
  PROVE  Standing(c, q, fs, ms, j + 1, w, Place(k, from, d))
<1> DEFINE h == Place(k, from, d)
<1>1. Len(es) \in Nat /\ Len(fs) = Len(es) /\ Len(ms) = Len(ls) /\ q < j /\ n \in Nat
  BY DEF Around, Grown, Placed
<1>2. CASE \E u \in 1 .. Len(ls) : ls[u] = k
  <2>1. PICK u \in 1 .. Len(ls) : ls[u] = k
    BY <1>2
  <2>2. ms[u] = h
    BY <2>1 DEF Placed
  <2>3. QED
    BY <1>1, <2>2 DEF Standing
<1>3. CASE \E i \in 1 .. Len(es) : InTarget(b, q, es, j, w, i, k)
  <2>1. PICK i \in 1 .. Len(es) : InTarget(b, q, es, j, w, i, k)
    BY <1>3
  <2> DEFINE t == Shift(i, j, d)
             s == b[k]
             z == EndOf(b, q, es, i)
  <2>2. /\ q < i /\ U16(b, es[i].qtype) # TypeA
        /\ k \in Nat /\ s \in Nat /\ es[i].rdata <= k
        /\ s >= 192 =>
             /\ k + 2 <= z
             /\ \A y \in j .. w : U16(b, es[y].qtype) = TypeA => Offset(b, k) <= es[y].rdata
        /\ s < 192 => s <= 63 /\ k + s + 1 <= z
    BY <2>1, Zenon DEF InTarget
  <2>3. i # j /\ PlacedBy(k, from, d, t) /\ AllKeptAt(b, c, k, t)
        /\ Carried(b, c, n, k, qt, from, d)
    BY <2>1, TargetCarried
  <2>4. t \in Nat
    BY DEF Shift
  <2>5. RecordFollows(b, c, q, es, fs, i, t)
    BY <2>2, <2>3, RecordMoved
  <2> DEFINE zz == EndOf(c, q, fs, i)
             r == es[i].rdata
             x == es[i].qtype
  <2>6. /\ x \in Nat /\ r = x + 10 /\ fs[i].rdata = r + t
        /\ U16(c, fs[i].qtype) # TypeA
        /\ z \in Nat /\ zz = z + t
    BY <2>2, <2>5 DEF RecordFollows
  <2>7. h = k + t
    BY <2>3 DEF PlacedBy
  <2>8. h \in Nat /\ fs[i].rdata <= h
    <3> HIDE DEF h, t, r, x
    <3>1. k \in Nat /\ r <= k
      BY <2>2, Zenon DEF r
    <3>2. QED
      BY <2>4, <2>6, <2>7, <3>1
  <2> HIDE DEF t
  <2>9. \A p \in Nat : k <= p /\ p < k + (IF s >= 192 THEN 2 ELSE s + 1) => c[p + t] = b[p]
    BY <2>3 DEF AllKeptAt, KeptAt
  <2> HIDE DEF h, s, z, zz, r, x
  <2>10. c[h] = s
    <3>1. k \in Nat /\ s \in Nat
      BY <2>2, Zenon
    <3>2. k <= k /\ k < k + (IF s >= 192 THEN 2 ELSE s + 1)
      BY <3>1
    <3>3. QED
      BY <2>7, <2>9, <3>1, <3>2 DEF s
  <2>11. s >= 192 => h + 2 <= zz
    BY <2>2, <2>4, <2>6, <2>7
  <2>12. s < 192 => s <= 63 /\ h + s + 1 <= zz
    BY <2>2, <2>4, <2>6, <2>7
  <2>13. ASSUME s >= 192 PROVE Offset(c, h) = Offset(b, k)
    <3>1. k <= k + 1 /\ k + 1 < k + (IF s >= 192 THEN 2 ELSE s + 1) /\ k + 1 \in Nat
      BY <2>2, <2>13
    <3>2. c[(k + 1) + t] = b[k + 1]
      BY <2>9, <3>1
    <3>3. (k + 1) + t = h + 1
      BY <2>2, <2>4, <2>7
    <3>4. QED
      BY <2>10, <3>2, <3>3 DEF Offset, U16, s
  <2>14. ASSUME s >= 192, NEW y \in j + 1 .. w, U16(c, fs[y].qtype) = TypeA
         PROVE  Offset(c, h) <= fs[y].rdata
    <3> DEFINE ty == Shift(y, j, d)
               ry == es[y].rdata
               o == Offset(b, k)
    <3>1. y \in 1 .. Len(es) /\ y # j /\ q < y /\ y \in j .. w
      BY <1>1
    <3>2. RecordFollows(b, c, q, es, fs, y, ty)
      BY <3>1, RecordMoved
    <3>3. U16(b, es[y].qtype) = TypeA /\ fs[y].rdata = ry + ty /\ ry = es[y].qtype + 10
          /\ es[y].qtype \in Nat
      BY <2>14, <3>2 DEF RecordFollows
    <3>4. o <= ry
      BY <2>2, <2>14, <3>1, <3>3
    <3>5. ty \in Nat
      BY DEF Shift
    <3>6. o \in Nat
      <4>1. Carried(b, c, n, k, qt, from, d) /\ b[k] >= 192
        BY <2>3, <2>14 DEF s
      <4>2. k \in Nat /\ k + 1 < m
        <5>1. k + 1 < n
          BY <4>1, Zenon DEF Carried
        <5>2. QED
          BY <2>2, <5>1
      <4>3. Word(U16(b, k))
        BY <4>2, U16Word
      <4>4. U16(b, k) \in Nat
        BY <4>3 DEF Word
      <4>5. 2^14 \in Nat /\ 2^14 > 0
        BY SMT
      <4>6. QED
        BY <4>4, <4>5, SMT DEF Offset
    <3>7. Offset(c, h) = o
      BY <2>13, <2>14
    <3> HIDE DEF o, ry, ty
    <3>8. ry \in Nat
      <4> DEFINE ey == es[y].qtype
      <4>1. ey \in Nat /\ ry = ey + 10
        BY <3>3, Zenon
      <4> HIDE DEF ey
      <4>2. QED
        BY <4>1
    <3>9. o <= ry + ty
      BY <3>4, <3>5, <3>6, <3>8
    <3>10. QED
      BY <3>3, <3>7, <3>9
  <2>15. InTarget(c, q, fs, j + 1, w, i, h)
    <3>1. q < i /\ h \in Nat /\ c[h] \in Nat
      BY <2>2, <2>8, <2>10
    <3>2. QED
      BY <2>6, <2>8, <2>10, <2>11, <2>12, <2>14, <3>1, Zenon DEF InTarget, zz
  <2>16. QED
    BY <1>1, <2>15 DEF Standing, h
<1>4. QED
  BY <1>2, <1>3 DEF Standing

\* The pairs once those on the right are moved.
Replaced(R, from, d) ==
  {x \in Nat \X Nat : \E k \in Nat : <<x[1], k>> \in R /\ x[2] = Place(k, from, d)}

LEMMA ReplacedPairs ==
  ASSUME NEW R, NEW from \in Nat, NEW d \in Nat, NEW l, NEW h
  PROVE  /\ <<l, h>> \in Replaced(R, from, d) =>
              l \in Nat /\ \E k \in Nat : <<l, k>> \in R /\ h = Place(k, from, d)
         /\ \A k \in Nat : l \in Nat /\ <<l, k>> \in R => <<l, Place(k, from, d)>> \in Replaced(R, from, d)
<1>1. ASSUME <<l, h>> \in Replaced(R, from, d)
      PROVE  l \in Nat /\ \E k \in Nat : <<l, k>> \in R /\ h = Place(k, from, d)
  BY <1>1 DEF Replaced
<1>2. ASSUME NEW k \in Nat, l \in Nat, <<l, k>> \in R
      PROVE  <<l, Place(k, from, d)>> \in Replaced(R, from, d)
  <2> DEFINE x == <<l, Place(k, from, d)>>
  <2>1. Place(k, from, d) \in Nat
    BY DEF Place
  <2>2. x \in Nat \X Nat /\ x[1] = l /\ x[2] = Place(k, from, d)
    BY <1>2, <2>1
  <2> HIDE DEF x
  <2>3. x \in Replaced(R, from, d)
    BY <1>2, <2>2 DEF Replaced
  <2>4. QED
    BY <2>3 DEF x
<1>3. QED
  BY <1>1, <1>2

\* A label and one of the packet that is the same are the same after it has been moved.
LEMMA SameLabelMoved ==
  ASSUME NEW m \in Nat, NEW a, NEW b, NEW c \in Buffer(m), NEW n \in 0 .. m, NEW R,
         NEW qt \in Nat, NEW from \in Nat, NEW d \in Nat, n + d <= m,
         NEW l, NEW k, SameLabel(a, b, R, l, k), a[l] \in Nat, Carried(b, c, n, k, qt, from, d),
         \A x, y : <<x, y>> \in R => x \in Nat /\ y \in Nat,
         b[k] >= 192 => Offset(c, Place(k, from, d)) = Place(Offset(b, k), from, d)
  PROVE  SameLabel(a, c, Replaced(R, from, d), l, Place(k, from, d))
<1> DEFINE h == Place(k, from, d)
           s == a[l]
           Q == Replaced(R, from, d)
<1>1. l \in Nat /\ k \in Nat /\ s \in Nat /\ h \in Nat
  BY DEF SameLabel, Place
<1>2. DOMAIN c = 0 .. m - 1
  BY DEF Buffer
<1>3. ASSUME s >= 192
      PROVE  l + 1 \in DOMAIN a /\ h + 1 \in DOMAIN c /\ c[h] >= 192 /\ <<Offset(a, l), Offset(c, h)>> \in Q
  <2>1. l + 1 \in DOMAIN a /\ b[k] >= 192 /\ <<Offset(a, l), Offset(b, k)>> \in R
    BY <1>3 DEF SameLabel
  <2>2. h + 1 < n + d /\ c[h] >= 192
    BY <2>1, Zenon DEF Carried
  <2> DEFINE x == Offset(a, l)
             y == Offset(b, k)
  <2>3. <<x, y>> \in R /\ Offset(c, h) = Place(y, from, d)
    BY <2>1
  <2> HIDE DEF x, y, h
  <2>4. x \in Nat /\ y \in Nat
    BY <2>3
  <2>5. <<x, Place(y, from, d)>> \in Q
    BY <2>3, <2>4, ReplacedPairs
  <2>6. h + 1 \in DOMAIN c
    BY <1>1, <1>2, <2>2
  <2>7. QED
    BY <2>1, <2>2, <2>3, <2>5, <2>6 DEF x
<1>4. ASSUME ~(s >= 192)
      PROVE  /\ s <= 63 /\ l + s \in DOMAIN a /\ h + s \in DOMAIN c
             /\ \A i \in 0 .. s : c[h + i] = a[l + i]
             /\ s # 0 => <<l + s + 1, h + s + 1>> \in Q
  <2>1. /\ s <= 63 /\ l + s \in DOMAIN a
        /\ \A i \in 0 .. s : b[k + i] = a[l + i]
        /\ s # 0 => <<l + s + 1, k + s + 1>> \in R
    BY <1>4, Zenon DEF SameLabel
  <2>2. b[k] = s
    <3>1. 0 \in 0 .. s /\ k + 0 = k /\ l + 0 = l
      BY <1>1
    <3>2. b[k + 0] = a[l + 0]
      BY <2>1, <3>1, Zenon
    <3>3. QED
      BY <3>1, <3>2
  <2>3. s < 192
    BY <1>1, <1>4
  <2>4. /\ h + s < n + d
        /\ \A x \in 0 .. s : c[h + x] = b[k + x]
        /\ Place(k + s + 1, from, d) = h + s + 1
    BY <2>2, <2>3, Zenon DEF Carried
  <2>5. \A i \in 0 .. s : c[h + i] = a[l + i]
    BY <2>1, <2>4, Zenon
  <2> HIDE DEF h, s
  <2>6. h + s \in DOMAIN c
    BY <1>1, <1>2, <2>4
  <2>7. ASSUME s # 0 PROVE <<l + s + 1, h + s + 1>> \in Q
    <3> DEFINE x == l + s + 1
               y == k + s + 1
    <3>1. <<x, y>> \in R /\ Place(y, from, d) = h + s + 1
      BY <2>1, <2>4, <2>7, Zenon
    <3> HIDE DEF x, y
    <3>2. x \in Nat /\ y \in Nat
      BY <3>1
    <3>3. <<x, Place(y, from, d)>> \in Q
      BY <3>1, <3>2, ReplacedPairs
    <3>4. QED
      BY <3>1, <3>3 DEF x
  <2>8. QED
    BY <2>1, <2>5, <2>6, <2>7, Zenon
<1>5. QED
  BY <1>1, <1>3, <1>4, Zenon DEF SameLabel

\* When a record has been rewritten, the labels are still the same.
LEMMA PairedMoved ==
  ASSUME NEW m \in Nat, NEW b \in Buffer(m), NEW c \in Buffer(m), NEW n \in 0 .. m, NEW q \in Nat,
         NEW es, NEW fs, NEW stop \in Nat, NEW ls \in Seq(Nat), NEW ms, NEW j \in Nat,
         NEW qt \in Nat, NEW at \in Nat, NEW from \in Nat, NEW d \in Nat,
         Around(b, n, q, es, stop, ls, j, qt, at, from, d), n + d <= m, n + d <= 2^14,
         Rewritten(b, c, n, ls, qt, at, from, d), U16(b, qt) = TypeA,
         Placed(n, ls, ms, from, d), Grown(es, fs, at, d),
         NEW w \in Nat, j <= w, w <= Len(es),
         NEW z \in Nat, NEW a \in Buffer(z), NEW R, Paired(a, b, q, es, ls, j, w, R)
  PROVE  Paired(a, c, q, fs, ms, j + 1, w, Replaced(R, from, d))
<1> DEFINE Q == Replaced(R, from, d)
<1>1. ASSUME NEW x, NEW y, <<x, y>> \in R
      PROVE  /\ x \in DOMAIN a /\ x \in Nat /\ y \in Nat /\ SameLabel(a, b, R, x, y)
             /\ Standing(b, q, es, ls, j, w, y)
             /\ Carried(b, c, n, y, qt, from, d)
  <2>1. SameLabel(a, b, R, x, y)
    BY <1>1 DEF Paired, Mirrored
  <2>2. x \in DOMAIN a /\ Standing(b, q, es, ls, j, w, y)
    BY <1>1 DEF Paired
  <2>3. Carried(b, c, n, y, qt, from, d)
    BY <2>2, StandingCarried
  <2>4. x \in Nat /\ y \in Nat
    BY <2>1 DEF SameLabel
  <2>5. QED
    BY <2>1, <2>2, <2>3, <2>4
<1>2. \A x, y : <<x, y>> \in R => x \in Nat /\ y \in Nat
  BY <1>1
<1>3. ASSUME NEW l, NEW h, <<l, h>> \in Q
      PROVE  SameLabel(a, c, Q, l, h) /\ l \in DOMAIN a /\ Standing(c, q, fs, ms, j + 1, w, h)
  <2>1. l \in Nat /\ \E k \in Nat : <<l, k>> \in R /\ h = Place(k, from, d)
    BY <1>3 DEF Replaced
  <2>2. PICK k \in Nat : <<l, k>> \in R /\ h = Place(k, from, d)
    BY <2>1
  <2>3. /\ l \in DOMAIN a /\ SameLabel(a, b, R, l, k) /\ Standing(b, q, es, ls, j, w, k)
        /\ Carried(b, c, n, k, qt, from, d)
    BY <1>1, <2>2
  <2>4. a[l] \in Nat
    <3>1. l < z
      BY <2>1, <2>3 DEF Buffer
    <3>2. QED
      BY <2>1, <3>1, ByteAt
  <2>5. ASSUME b[k] >= 192 PROVE Offset(c, Place(k, from, d)) = Place(Offset(b, k), from, d)
    <3>1. a[l] >= 192
      <4>1. SUFFICES ASSUME ~(a[l] >= 192) PROVE FALSE
        OBVIOUS
      <4>2. a[l] <= 63 /\ \A i \in 0 .. a[l] : b[k + i] = a[l + i]
        BY <2>3, <4>1, Zenon DEF SameLabel
      <4>3. 0 \in 0 .. a[l] /\ k + 0 = k /\ l + 0 = l
        BY <2>1, <2>4
      <4>4. b[k] = a[l]
        BY <4>2, <4>3
      <4>5. QED
        BY <2>4, <2>5, <4>1, <4>4
    <3>2. <<Offset(a, l), Offset(b, k)>> \in R
      BY <2>3, <3>1 DEF SameLabel
    <3>3. Carried(b, c, n, Offset(b, k), qt, from, d)
      BY <1>1, <3>2
    <3>4. QED
      BY <2>3, <2>5, <3>3, PointerCarried
  <2>6. SameLabel(a, c, Q, l, h)
    <3>1. SameLabel(a, c, Q, l, Place(k, from, d))
      BY <1>2, <2>3, <2>4, <2>5, SameLabelMoved
    <3>2. QED
      BY <2>2, <3>1
  <2>7. Standing(c, q, fs, ms, j + 1, w, h)
    BY <2>2, <2>3, StandingMoved
  <2>8. QED
    BY <2>3, <2>6, <2>7
<1>4. QED
  BY <1>3 DEF Paired, Mirrored
-------------------------------------------------------------------------------
(* What the entries say *)

\* What is said by an AAAA record that has the address of the A record r embedded.
AsAAAA(r) ==
  [type |-> TypeAAAA, class |-> r.class, ttl |-> r.ttl, data |-> Prefix \o r.data]

\* When a record is rewritten, the others say what they said,
LEMMA FieldsMoved ==
  ASSUME NEW m \in Nat, NEW b \in Buffer(m), NEW c, NEW n \in 0 .. m, NEW q \in Nat, NEW es,
         NEW fs, NEW stop \in Nat, NEW ls, NEW j \in Nat, NEW qt \in Nat, NEW at \in Nat,
         NEW from \in Nat, NEW d \in Nat, Around(b, n, q, es, stop, ls, j, qt, at, from, d),
         Rewritten(b, c, n, ls, qt, at, from, d), Grown(es, fs, at, d),
         NEW i \in 1 .. Len(es), i # j
  PROVE  SameFields(b, c, Kind(q, i), es[i], fs[i])
<1> DEFINE t == Shift(i, j, d)
           e == es[i]
           f == fs[i]
           s == Kind(q, i)
           z == n + d
<1>1. Len(es) \in Nat /\ Tiled(b, n, q, es, stop)
  BY DEF Around
<1>2. MovedBy(n + d, Kind(q, i), es[i], fs[i], Shift(i, j, d))
  BY AroundMoved
<1>3. f \in Shape(z, s) /\ f.qtype = e.qtype + t
  BY <1>2 DEF MovedBy
<1>4. e \in Shape(n, s) /\ t \in Nat /\ s \in 1 .. 2
  BY <1>1 DEF Tiled, EntryLaid, Shift, Kind
<1>5. s # 1 => U16(b, e.rdlength) \in Nat
  <2>1. SUFFICES ASSUME s # 1 PROVE U16(b, e.rdlength) \in Nat
    OBVIOUS
  <2>2. q < i
    BY <2>1 DEF Kind
  <2>3. QED
    BY <1>1, <2>2, ResourceFields
<1>6. FieldsKept(b, c, s, e, f, t)
  <2>1. SUFFICES ASSUME NEW p \in Nat, e.qtype <= p, p < EntryEnd(b, e, s) PROVE KeptAt(b, c, p, t)
    BY <1>3, <1>5 DEF FieldsKept
  <2>2. InFields(b, q, es, i, p)
    BY <2>1 DEF InFields, EndOf
  <2>3. QED
    BY <2>2, FieldKept
<1> HIDE DEF t, e, f, s, z
<1>7. SameFields(b, c, s, e, f)
  BY <1>3, <1>4, <1>6, FieldsCarried
<1>8. QED
  BY <1>7 DEF e, f, s

\* and it says what DNS64 makes of it.
LEMMA FieldsRewritten ==
  ASSUME NEW m \in Nat, NEW b \in Buffer(m), NEW c, NEW n \in 0 .. m, NEW q \in Nat, NEW es,
         NEW fs, NEW stop \in Nat, NEW ls, NEW j \in Nat, NEW qt \in Nat, NEW at \in Nat,
         NEW from \in Nat, NEW d \in Nat, Around(b, n, q, es, stop, ls, j, qt, at, from, d),
         Rewritten(b, c, n, ls, qt, at, from, d), Grown(es, fs, at, d),
         Embedded(b, c, qt, at), U16(c, qt + 8) = 16, U16(b, qt + 8) = 4
  PROVE  FieldsOf(c, fs[j], 2) = AsAAAA(FieldsOf(b, es[j], 2))
<1> DEFINE e == es[j]
<1>1. /\ Len(es) \in Nat /\ Tiled(b, n, q, es, stop) /\ j \in 1 .. Len(es) /\ q < j
      /\ qt = es[j].qtype /\ at = qt + 10 /\ from = EndOf(b, q, es, j) /\ at < from
  BY DEF Around
<1>2. fs[j] = e
  <2>1. ~(e.begin > at)
    <3>1. j \in 1 .. Len(es)
      BY <1>1
    <3>2. es[j].begin > at <=> j > j
      BY <3>1, AroundBegin
    <3>3. QED
      BY <3>2
  <2>2. fs[j] = Moved(e, at, d)
    BY <1>1 DEF Grown
  <2>3. QED
    BY <2>1, <2>2 DEF Moved
<1>3. /\ e.qtype = qt /\ e.qclass = qt + 2 /\ e.ttl = qt + 4
      /\ e.rdlength = qt + 8 /\ e.rdata = at
  <2>1. e \in Shape(n, 2)
    <3>1. Kind(q, j) = 2
      BY <1>1 DEF Kind
    <3>2. QED
      BY <1>1, <3>1 DEF Tiled, EntryLaid
  <2> HIDE DEF e
  <2>2. /\ e.qclass = e.qtype + 2 /\ e.ttl = e.qtype + 4
        /\ e.rdlength = e.qtype + 8 /\ e.rdata = e.qtype + 10
    BY <2>1, ResourceShape
  <2>3. e.qtype = qt
    BY <1>1 DEF e
  <2>4. QED
    BY <1>1, <2>2, <2>3
<1>4. from <= n /\ at = qt + 10 /\ at < from
  <2>1. EndOf(b, q, es, j) <= stop
    BY <1>1, EndWithin
  <2>2. stop <= n
    BY DEF Around
  <2>3. QED
    BY <1>1, <2>1, <2>2
<1>5. ASSUME NEW k \in 2 .. 7 PROVE KeptAt(b, c, qt + k, 0)
  <2> DEFINE p == qt + k
  <2>1. p \in Nat /\ p < n /\ p < at /\ qt <= p /\ p # qt /\ p # qt + 1 /\ p # qt + 8 /\ p # qt + 9
    BY <1>4
  <2>2. InFields(b, q, es, j, p)
    <3> DEFINE x == es[j].qtype
               y == EndOf(b, q, es, j)
    <3>1. x = qt /\ y = from
      BY <1>1
    <3> HIDE DEF x, y
    <3>2. x <= p /\ p < y
      BY <1>4, <2>1, <3>1
    <3>3. QED
      BY <3>2 DEF InFields, x, y
  <2> HIDE DEF p
  <2>3. ~InPointer(b, ls, p)
    <3>1. Listed(b, n, es, ls)
      BY DEF Around
    <3>2. QED
      BY <1>1, <2>1, <2>2, <3>1, FieldNotInPointer
  <2>4. Place(p, from, d) = p /\ p + 0 = p
    BY <1>4, <2>1 DEF Place
  <2>5. c[p] = b[p]
    BY <2>1, <2>3, <2>4 DEF Rewritten
  <2>6. QED
    BY <2>4, <2>5 DEF KeptAt, p
<1>6. U16(c, qt + 2) = U16(b, qt + 2)
  <2> DEFINE o == qt + 2
  <2>1. o \in Nat /\ qt + 3 = o + 1 /\ o + 0 = o
    OBVIOUS
  <2>2. KeptAt(b, c, qt + 2, 0) /\ KeptAt(b, c, qt + 3, 0)
    BY <1>5
  <2>3. KeptAt(b, c, o, 0) /\ KeptAt(b, c, o + 1, 0) /\ 0 \in Nat
    BY <2>1, <2>2
  <2> HIDE DEF o
  <2>4. U16(c, o + 0) = U16(b, o)
    BY <2>1, <2>3, NumberCarried
  <2>5. QED
    BY <2>1, <2>4 DEF o
<1>7. Slice(c, qt + 4, 4) = Slice(b, qt + 4, 4)
  <2> DEFINE o == qt + 4
  <2>1. o \in Nat /\ o + 0 = o
    OBVIOUS
  <2>2. KeptFrom(b, c, o, 4, 0) /\ 0 \in Nat /\ 4 \in Nat
    <3>1. SUFFICES ASSUME NEW p \in Nat, o <= p, p < o + 4 PROVE KeptAt(b, c, p, 0)
      BY DEF KeptFrom
    <3> DEFINE k == p - qt
    <3>2. k \in 2 .. 7 /\ qt + k = p
      BY <3>1
    <3> HIDE DEF k, o
    <3>3. KeptAt(b, c, qt + k, 0)
      BY <1>5, <3>2
    <3>4. QED
      BY <3>2, <3>3
  <2> HIDE DEF o
  <2>3. Slice(c, o + 0, 4) = Slice(b, o, 4)
    BY <2>1, <2>2, SliceCarried
  <2>4. QED
    BY <2>1, <2>3 DEF o
<1>8. U16(c, qt) = TypeAAAA /\ Slice(c, at, 16) = Prefix \o Slice(b, at, 4)
  BY DEF Embedded
<1> DEFINE class == U16(b, qt + 2)
           ttl == Slice(b, qt + 4, 4)
           data == Slice(b, at, 4)
           r == FieldsOf(b, e, 2)
           w == FieldsOf(c, e, 2)
<1>9. r = [type |-> U16(b, qt), class |-> class, ttl |-> ttl, data |-> data]
  <2> HIDE DEF e
  <2>1. U16(b, e.rdlength) = 4
    BY <1>3
  <2>2. r = [type |-> U16(b, e.qtype), class |-> U16(b, e.qclass), ttl |-> Slice(b, e.ttl, 4),
             data |-> Slice(b, e.rdata, U16(b, e.rdlength))]
    BY DEF FieldsOf
  <2> HIDE DEF r
  <2>3. QED
    BY <1>3, <2>1, <2>2
<1>10. w = [type |-> TypeAAAA, class |-> class, ttl |-> ttl, data |-> Prefix \o data]
  <2> HIDE DEF e
  <2>1. U16(c, e.rdlength) = 16 /\ U16(c, e.qtype) = TypeAAAA /\ U16(c, e.qclass) = class
        /\ Slice(c, e.ttl, 4) = ttl /\ Slice(c, e.rdata, 16) = Prefix \o data
    BY <1>3, <1>6, <1>7, <1>8
  <2>2. w = [type |-> U16(c, e.qtype), class |-> U16(c, e.qclass), ttl |-> Slice(c, e.ttl, 4),
             data |-> Slice(c, e.rdata, U16(c, e.rdlength))]
    BY DEF FieldsOf
  <2> HIDE DEF class, ttl, data, w
  <2>3. QED
    BY <2>1, <2>2
<1> HIDE DEF e, r, w, class, ttl, data
<1>11. AsAAAA(r) = w
  <2>1. r.class = class /\ r.ttl = ttl /\ r.data = data
    BY <1>9
  <2>2. QED
    BY <1>10, <2>1 DEF AsAAAA
<1>12. QED
  BY <1>2, <1>11 DEF e, r, w

\* When a record has been rewritten, the entries that met still do.
LEMMA MetMoved ==
  ASSUME NEW m \in Nat, NEW b \in Buffer(m), NEW n \in 0 .. m, NEW q \in Nat, NEW es, NEW fs,
         NEW stop \in Nat, NEW ls, NEW j \in Nat, NEW qt \in Nat, NEW at \in Nat,
         NEW from \in Nat, NEW d \in Nat, Around(b, n, q, es, stop, ls, j, qt, at, from, d),
         Grown(es, fs, at, d), NEW i \in 1 .. Len(es),
         NEW a, NEW gs, NEW R, Met(a, q, gs, es, R, i), \A l, k : <<l, k>> \in R => l \in Nat,
         i = j => ~HoldsName(U16(a, gs[i].qtype))
  PROVE  Met(a, q, gs, fs, Replaced(R, from, d), i)
<1> DEFINE x == es[i].begin
           y == es[i].qtype
           z == EndOf(b, q, es, i)
           t == Shift(i, j, d)
<1>1. /\ x \in Nat /\ y \in Nat /\ z \in Nat /\ x < y /\ y + 4 <= z /\ z <= n
      /\ i < j => z < qt
      /\ j < i => from <= x
      /\ i = j => x < qt /\ y = qt
      /\ at = qt + 10 /\ at < from /\ from <= n /\ i \in Nat
  BY AroundOrder
<1>2. Len(es) \in Nat /\ Tiled(b, n, q, es, stop)
  BY DEF Around
<1>3. MovedBy(n + d, Kind(q, i), es[i], fs[i], t)
  BY AroundMoved
<1>4. fs[i].begin = x + t /\ fs[i].qtype = y + t
  BY <1>3 DEF MovedBy
<1>5. t = IF i > j THEN d ELSE 0
  BY DEF Shift
<1>6. <<gs[i].begin, x>> \in R /\ gs[i].begin \in Nat
  BY DEF Met
<1>7. <<gs[i].begin, fs[i].begin>> \in Replaced(R, from, d)
  <2> HIDE DEF x, y, z, t
  <2>1. Place(x, from, d) = x + t
    BY <1>1, <1>5 DEF Place
  <2>2. <<gs[i].begin, Place(x, from, d)>> \in Replaced(R, from, d)
    BY <1>1, <1>6, ReplacedPairs
  <2>3. QED
    BY <1>4, <2>1, <2>2
<1>8. ASSUME q < i, HoldsName(U16(a, gs[i].qtype))
      PROVE  <<gs[i].rdata, fs[i].rdata>> \in Replaced(R, from, d)
  <2> DEFINE r == es[i].rdata
             u == U16(b, es[i].rdlength)
  <2>1. r = y + 10 /\ u \in Nat /\ z = r + u
    BY <1>2, <1>8, ResourceFields
  <2>2. fs[i].rdata = fs[i].qtype + 10
    <3>1. fs[i] \in Shape(n + d, 2)
      BY <1>3, <1>8 DEF MovedBy, Kind
    <3>2. QED
      BY <3>1, ResourceShape
  <2>3. <<gs[i].rdata, r>> \in R /\ gs[i].rdata \in Nat
    BY <1>8 DEF Met
  <2>4. i # j
    BY <1>8
  <2> HIDE DEF x, y, z, t, r, u
  <2>5. r \in Nat /\ Place(r, from, d) = r + t
    <3>1. x \in Nat /\ y \in Nat /\ x < y /\ r = y + 10 /\ u \in Nat /\ z = r + u
      BY <1>1, <2>1
    <3>2. r \in Nat /\ r <= z /\ x < r
      <4>1. r \in Nat /\ x < r
        BY <3>1
      <4>2. r <= z
        BY <3>1
      <4>3. QED
        BY <4>1, <4>2
    <3>3. CASE i < j
      BY <1>1, <1>5, <3>2, <3>3 DEF Place
    <3>4. CASE i > j
      BY <1>1, <1>5, <3>2, <3>4 DEF Place
    <3>5. QED
      BY <1>1, <2>4, <3>3, <3>4
  <2>6. fs[i].rdata = r + t
    <3>1. t \in Nat
      BY <1>5
    <3>2. QED
      BY <1>1, <1>4, <2>1, <2>2, <3>1
  <2>7. <<gs[i].rdata, Place(r, from, d)>> \in Replaced(R, from, d)
    BY <2>3, <2>5, ReplacedPairs
  <2>8. QED
    BY <2>5, <2>6, <2>7
<1>9. QED
  BY <1>7, <1>8 DEF Met
-------------------------------------------------------------------------------
(* What a proper datagram means once its A records are rewritten *)

\* A proper datagram with names that can be followed: those in rdata are whole, every pointer
\* points to a label of a name, none of rdata to behind an address, and all of what it becomes
\* can be pointed to.
Readable ==
  /\ ProperDatagram
  /\ NamesWhole(Received, Size, Count(Received, 1), Sent)
  /\ ~RdataPointsBehindAddress(Received, Size)
  /\ TranslatedLength <= 2^14

\* What entry i is to say when the loop is at record k.
ToSay(k, i) ==
  LET r == FieldsOf(Received, Sent[i], Kind(Count(Received, 1), i))
  IN IF i = 1 THEN ForAAAA(r) ELSE IF i \in Before(k) THEN AsAAAA(r) ELSE r

Says(b, es, k, i) == FieldsOf(b, es[i], Kind(Count(Received, 1), i)) = ToSay(k, i)

\* The names can be followed as they were sent.
SameNames(k) ==
  \E R : /\ Paired(Received, bytes, Len(question), Entries, labels, Len(question) + k,
                   Len(question) + Len(answer), R)
         /\ \A i \in 1 .. Len(Entries) : Met(Received, Len(question), Sent, Entries, R, i)

SameCounts ==
  /\ Count(bytes, 1) = Count(Received, 1) /\ Count(bytes, 2) = Count(Received, 2)
  /\ Count(bytes, 3) = Count(Received, 3) /\ Count(bytes, 4) = Count(Received, 4)

SameMeaning == Meaning(bytes, len) = Translated(Meaning(Received, Size))

\* The inductive invariant, of datagrams that can be read.
MeaningInv ==
  /\ pc = "answers" => /\ SameCounts
                       /\ SameNames(next)
                       /\ \A i \in 1 .. Len(Entries) : Says(bytes, Entries, next, i)
  /\ pc = "sent" => SameMeaning

\* The message as it was sent is laid out as the packet.
Unread ==
  /\ Entries = Sent /\ len = Size /\ Received \in Buffer(len)
  /\ Whole(Received, len, Len(question), Entries)
  /\ Tiled(Received, len, Len(question), Entries, Stop) /\ Listed(Received, len, Entries, labels)
  /\ Stop \in Nat /\ Stop <= len /\ Len(question) >= 1
  /\ Len(question) \in Nat /\ Len(Entries) \in Nat /\ Len(answer) = Count(Received, 2)
  /\ Len(question) + Len(answer) <= Len(Entries)
  /\ \A p \in Nat : p < len => bytes[p] = Received[p]

LEMMA AllUnread ==
  ASSUME ProperDatagram, IInv, SentInv, pc = "entries", Unparsed = {}
  PROVE  Unread
<1>1. /\ Len(question) = Count(Received, 1) /\ Len(answer) = Count(Received, 2)
      /\ Len(Entries) = Counts(Received) /\ len = Size
  BY AllRead
<1>2. TypeInv /\ Laid /\ ReadAsSent /\ Agree(Received, bytes, len)
  BY DEF IInv, LayoutInv, SentInv
<1>3. buflen \in Nat /\ bytes \in Buffer(buflen) /\ len \in 0 .. buflen /\ begin \in Nat
  BY <1>2 DEF TypeInv, TypeOK, Buffer
<1>4. /\ Received \in Buffer(Size)
      /\ Count(Received, 1) \in Nat /\ Count(Received, 2) \in Nat
      /\ Count(Received, 3) \in Nat /\ Count(Received, 4) \in Nat
      /\ Count(Received, 1) >= 1 /\ Counts(Received) \in Nat
  BY SentFacts
<1>5. Entries = Sent
  <2>1. Entries \in Seq(Questions(len) \cup Resources(len))
    BY <1>2, EntriesTyped
  <2>2. DOMAIN Sent = 1 .. Counts(Received) /\ Sent = [i \in 1 .. Counts(Received) |-> Sent[i]]
    BY DEF Sent, EntriesOf
  <2>3. DOMAIN Entries = 1 .. Counts(Received)
        /\ Entries = [i \in 1 .. Counts(Received) |-> Entries[i]]
    BY <1>1, <2>1
  <2>4. \A i \in 1 .. Counts(Received) : Entries[i] = Sent[i]
    BY <1>1, <1>2 DEF ReadAsSent
  <2>5. QED
    BY <2>2, <2>3, <2>4, Zenon
<1>6. Whole(Received, len, Len(question), Entries)
  <2>1. DOMAIN Sent = 1 .. Counts(Received)
    BY DEF Sent, EntriesOf
  <2>2. QED
    BY <1>1, <1>4, <1>5, <2>1 DEF Whole, Sent
<1>7. /\ Tiled(bytes, len, Len(question), Entries, Stop) /\ Listed(bytes, len, Entries, labels)
      /\ ReceivedLength \in begin .. len
  BY <1>2 DEF Laid
<1>8. Stop \in Nat /\ Stop <= len
  BY <1>3, <1>7 DEF Stop
<1>9. Received \in Buffer(len)
  BY <1>1, <1>4
<1>10. Tiled(Received, len, Len(question), Entries, Stop) /\ Listed(Received, len, Entries, labels)
  BY <1>2, <1>3, <1>7, <1>9, MessageAgreed
<1>11. /\ Len(question) \in Nat /\ Len(Entries) \in Nat /\ Len(question) >= 1
       /\ Len(question) + Len(answer) <= Len(Entries)
  <2> DEFINE c1 == Count(Received, 1)
             c2 == Count(Received, 2)
             c3 == Count(Received, 3)
             c4 == Count(Received, 4)
             c == Counts(Received)
  <2>1. /\ c1 \in Nat /\ c2 \in Nat /\ c3 \in Nat /\ c4 \in Nat /\ c = c1 + c2 + c3 + c4
        /\ Len(question) = c1 /\ Len(answer) = c2 /\ Len(Entries) = c /\ c1 >= 1
    BY <1>1, <1>4 DEF Counts
  <2> HIDE DEF c1, c2, c3, c4, c
  <2>2. QED
    BY <2>1
<1>12. \A p \in Nat : p < len => bytes[p] = Received[p]
  BY <1>2 DEF Agree
<1>13. QED
  BY <1>1, <1>5, <1>6, <1>8, <1>9, <1>10, <1>11, <1>12 DEF Unread

\* Only the question has changed.
LEMMA SetQuestionTypeMeaning ==
  ASSUME ProperDatagram, IInv, SentInv, Readable, SetQuestionType
  PROVE  MeaningInv'
<1> DEFINE q == Len(question)
           w == q + Len(answer)
           R == Itself(Received, len, q, Entries)
           qt == question[1].qtype
<1>1. /\ pc = "entries" /\ Unparsed = {} /\ pc' = "answers"
      /\ UNCHANGED <<dgram, buflen, len, question, answer, authority, additional, labels, begin, next>>
  BY DEF SetQuestionType, entries
<1>2. Unread
  BY <1>1, AllUnread
<1>3. /\ Received \in Buffer(len) /\ Whole(Received, len, q, Entries)
      /\ Tiled(Received, len, q, Entries, Stop) /\ Listed(Received, len, Entries, labels)
      /\ Stop \in Nat /\ Stop <= len /\ q >= 1 /\ q \in Nat /\ Len(Entries) \in Nat
      /\ Len(answer) = Count(Received, 2) /\ w <= Len(Entries)
  BY <1>2 DEF Unread
<1>4. Entries = Sent /\ len = Size /\ q = Count(Received, 1) /\ Count(Received, 2) \in Nat
  <2>1. Entries = Sent /\ len = Size
    BY <1>2 DEF Unread
  <2>2. QED
    BY <1>3, <2>1 DEF Whole
<1>5. question # <<>> /\ IInv' /\ next = 1
  <2>1. Translatable
    BY SentTranslatable
  <2>2. question # <<>>
    BY <1>1, <2>1 DEF Translatable
  <2>3. QED
    BY <1>1, <2>1, <2>2, SetQuestionTypeInv DEF SentInv
<1>6. TypeSet(qt)
  BY <1>5, QuestionWritten
<1>7. buflen \in Nat /\ len \in 0 .. buflen /\ bytes' \in Buffer(buflen)
  <2>1. TypeInv /\ TypeInv'
    BY <1>5 DEF IInv
  <2>2. buflen \in Nat /\ len \in 0 .. buflen
    BY <2>1 DEF TypeInv, TypeOK
  <2>3. bytes' \in Buffer(buflen')
    BY <2>1 DEF TypeInv, TypeOK, Buffer
  <2>4. QED
    BY <1>1, <2>2, <2>3
<1>8. SameBut(Received, bytes', len, Entries[1].qtype) /\ U16(bytes', Entries[1].qtype) = TypeAAAA
  <2>1. /\ Entries[1].qtype = qt /\ U16(bytes', qt) = TypeAAAA
        /\ \A r \in Nat : r < buflen /\ r # qt /\ r # qt + 1 => bytes'[r] = bytes[r]
    BY <1>6 DEF TypeSet, SameBut
  <2>2. \A r \in Nat : r < len => bytes[r] = Received[r] /\ r < buflen
    BY <1>2, <1>7 DEF Unread
  <2> HIDE DEF qt
  <2>3. \A r \in Nat : r < len /\ r # qt /\ r # qt + 1 => bytes'[r] = Received[r]
    BY <2>1, <2>2
  <2>4. QED
    BY <2>1, <2>3 DEF SameBut
<1>9. NamesWhole(Received, len, q, Entries) /\ ~RdataPointsBehindAddress(Received, len)
  BY <1>4 DEF Readable
<1>10. len \in Nat /\ q + 1 \in Nat /\ q < q + 1 /\ w \in Nat
  BY <1>3, <1>4, <1>7
<1>11. NoneBehind(Received, len, q, Entries, q + 1, w)
  <2>1. NoneBehind(Received, len, q, Entries, q + 1, q + Count(Received, 2))
    <3> HIDE DEF q
    <3>1. QED
      BY <1>3, <1>9, <1>10, NonePointBehind
  <2>2. QED
    BY <1>3, <2>1
<1> HIDE DEF q, w, R, qt
<1>12. Paired(Received, bytes', q, Entries, labels, q + 1, w, R)
  BY <1>3, <1>7, <1>8, <1>9, <1>10, <1>11, Begun DEF R
<1>13. ASSUME NEW i \in 1 .. Len(Entries) PROVE Met(Received, q, Sent, Entries, R, i)
  <2>1. Met(Received, q, Entries, Entries, R, i)
    BY <1>3, <1>9, <1>10, BegunMet DEF R
  <2>2. QED
    BY <1>4, <2>1
<1>14. FieldsOf(bytes', Entries[1], 1) = ForAAAA(FieldsOf(Received, Entries[1], 1))
  <2>1. 1 <= Len(Entries)
    BY <1>3, <1>10 DEF w
  <2>2. AsksAAAA(bytes', Entries[1])
    BY <1>8 DEF AsksAAAA
  <2>3. AskedAnew(Received, bytes', Entries[1])
    BY <1>3, <1>8, <1>10, <2>1, <2>2, QuestionBegun
  <2>4. QED
    BY <2>3 DEF AskedAnew
<1>15. ASSUME NEW i \in 1 .. Len(Entries)
       PROVE  FieldsOf(bytes', Entries[i], Kind(Count(Received, 1), i)) = ToSay(1, i)
  <2>1. Before(1) = {}
    BY BeforeNext
  <2>2. ToSay(1, i) = IF i = 1 THEN ForAAAA(FieldsOf(Received, Entries[i], Kind(q, i)))
                      ELSE FieldsOf(Received, Entries[i], Kind(q, i))
    BY <1>4, <2>1 DEF ToSay
  <2>3. CASE i = 1
    <3>1. Kind(q, i) = 1
      BY <1>3, <2>3 DEF Kind
    <3>2. QED
      BY <1>4, <1>14, <2>2, <2>3, <3>1
  <2>4. CASE i # 1
    <3>1. SameFields(Received, bytes', Kind(q, i), Entries[i], Entries[i])
      BY <1>3, <1>8, <1>10, <2>4, FieldsBegun
    <3>2. FieldsOf(bytes', Entries[i], Kind(q, i)) = FieldsOf(Received, Entries[i], Kind(q, i))
      BY <3>1 DEF SameFields
    <3>3. QED
      BY <1>4, <2>2, <2>4, <3>2
  <2>5. QED
    BY <2>3, <2>4
<1>16. /\ Received' = Received /\ Size' = Size /\ Sent' = Sent /\ Entries' = Entries
       /\ Len(question') = q /\ Len(answer') = Len(answer) /\ next' = 1 /\ labels' = labels
  BY <1>1, <1>5 DEF Received, Size, Sent, Entries, q
<1>17. SameCounts'
  <2>1. HeaderSize <= len /\ qt >= 12 /\ Entries[1].qtype = qt
    BY <1>4, <1>6, SentFacts DEF TypeSet
  <2>2. ASSUME NEW p \in Nat, p < 12 PROVE bytes'[p] = Received[p]
    <3>1. p < len /\ p # qt /\ p # qt + 1
      <4>1. qt \in Nat
        BY <1>6 DEF TypeSet
      <4>2. QED
        BY <1>10, <2>1, <2>2, <4>1 DEF HeaderSize
    <3>2. QED
      BY <1>8, <2>1, <3>1 DEF SameBut
  <2>3. /\ Count(bytes', 1) = Count(Received, 1) /\ Count(bytes', 2) = Count(Received, 2)
        /\ Count(bytes', 3) = Count(Received, 3) /\ Count(bytes', 4) = Count(Received, 4)
    BY <2>2, CountKept
  <2>4. QED
    BY <1>16, <2>3 DEF SameCounts
<1>18. SameNames(next)'
  <2>1. Paired(Received', bytes', Len(question'), Entries', labels', Len(question') + next',
               Len(question') + Len(answer'), R)
    BY <1>12, <1>16 DEF w
  <2>2. \A i \in 1 .. Len(Entries') : Met(Received', Len(question'), Sent', Entries', R, i)
    BY <1>13, <1>16
  <2>3. QED
    BY <2>1, <2>2 DEF SameNames
<1>19. ASSUME NEW i \in 1 .. Len(Entries') PROVE Says(bytes, Entries, next, i)'
  <2>1. FieldsOf(bytes', Entries[i], Kind(Count(Received, 1), i)) = ToSay(1, i)
    BY <1>15, <1>16
  <2>2. QED
    BY <1>16, <2>1 DEF Says, ToSay, Before
<1>20. QED
  BY <1>1, <1>17, <1>18, <1>19 DEF MeaningInv

\* Whose type the loop has changed.
LEMMA BeforeStep ==
  ASSUME ProperDatagram, NEW k \in Nat, k >= 1, NEW i \in Nat
  PROVE  /\ i # Count(Received, 1) + k => (i \in Before(k + 1) <=> i \in Before(k))
         /\ i = Count(Received, 1) + k =>
              /\ i \notin Before(k) /\ i # 1
              /\ i \in Before(k + 1) <=> i \in AddressRecords(Received, Size)
<1> DEFINE c1 == Count(Received, 1)
           AR == AddressRecords(Received, Size)
<1>1. c1 \in Nat /\ c1 >= 1
  BY SentFacts
<1>2. \A n : Before(n) = {x \in AR : x < c1 + n}
  BY DEF Before
<1> HIDE DEF c1, AR
<1>3. /\ i \in Before(k) <=> i \in AR /\ i < c1 + k
      /\ i \in Before(k + 1) <=> i \in AR /\ i < c1 + (k + 1)
  BY <1>2
<1>4. /\ i # c1 + k => (i < c1 + (k + 1) <=> i < c1 + k)
      /\ i = c1 + k => ~(i < c1 + k) /\ i < c1 + (k + 1) /\ i # 1
  BY <1>1
<1>5. QED
  BY <1>3, <1>4 DEF c1, AR

\* What is said by a record that is left as it is, and by one that is rewritten.
LEMMA ToSayNext ==
  ASSUME ProperDatagram, NEW k \in Nat, k >= 1, NEW i \in Nat
  PROVE  /\ i # Count(Received, 1) + k => ToSay(k + 1, i) = ToSay(k, i)
         /\ i = Count(Received, 1) + k =>
              ToSay(k + 1, i) = IF i \in AddressRecords(Received, Size)
                                THEN AsAAAA(ToSay(k, i)) ELSE ToSay(k, i)
<1>1. /\ i # Count(Received, 1) + k => (i \in Before(k + 1) <=> i \in Before(k))
      /\ i = Count(Received, 1) + k =>
           /\ i \notin Before(k) /\ i # 1
           /\ i \in Before(k + 1) <=> i \in AddressRecords(Received, Size)
  BY BeforeStep
<1>2. QED
  BY <1>1, Zenon DEF ToSay

\* The header is left alone.
LEMMA CountsReworked ==
  ASSUME IInv, Laid, SameCounts, UNCHANGED dgram, NEW qt \in Nat, NEW at \in Nat, NEW from, NEW d,
         Reworked(qt, at, from, d)
  PROVE  SameCounts'
<1>1. /\ from \in Nat /\ d \in Nat
      /\ Around(bytes, len, Len(question), Entries, Stop, labels, Len(question) + next, qt, at, from, d)
      /\ Rewritten(bytes, bytes', len, labels, qt, at, from, d)
  BY DEF Reworked
<1>2. TypeInv
  BY DEF IInv
<1>3. /\ buflen \in Nat /\ bytes \in Buffer(buflen) /\ len \in 0 .. buflen /\ Stop \in Nat
      /\ Len(question) \in Nat /\ Len(question) + next \in Nat
  <2>1. /\ buflen \in Nat /\ bytes \in Buffer(buflen) /\ len \in 0 .. buflen /\ begin \in Nat
        /\ next \in 1 .. Len(answer) + 1
    BY <1>2 DEF TypeInv, TypeOK, Buffer
  <2>2. Len(question) \in Nat /\ Len(answer) \in Nat
    BY <1>2, SectionsTyped
  <2>3. ReceivedLength \in begin .. len
    BY DEF Laid
  <2>4. Stop \in Nat
    BY <2>1, <2>3 DEF Stop
  <2>5. QED
    BY <2>1, <2>2, <2>4
<1>4. ASSUME NEW p \in Nat, p < 12 PROVE bytes'[p] = bytes[p]
  BY <1>1, <1>3, <1>4, HeaderKept
<1>5. /\ Count(bytes', 1) = Count(bytes, 1) /\ Count(bytes', 2) = Count(bytes, 2)
      /\ Count(bytes', 3) = Count(bytes, 3) /\ Count(bytes', 4) = Count(bytes, 4)
  BY <1>4, CountKept
<1>6. Received' = Received
  BY DEF Received
<1>7. QED
  BY <1>5, <1>6 DEF SameCounts

\* The record the loop is at, as an entry of the packet.
AtEntry(j) ==
  /\ j \in Nat /\ j = Len(question) + next /\ j \in 1 .. Len(Entries) /\ Len(question) < j
  /\ Entries[j] = answer[next]
  /\ Len(question) = Count(Received, 1) /\ Len(question) \in Nat /\ Len(answer) = Count(Received, 2)
  /\ Len(question) + Len(answer) \in Nat /\ j <= Len(question) + Len(answer)
  /\ Len(question) + Len(answer) <= Len(Entries) /\ Len(Entries) \in Nat
  /\ next \in Nat /\ next >= 1 /\ SameAsSent(next)
  /\ j \in AddressRecords(Received, Size) <=> U16(bytes, answer[next].qtype) = TypeA

LEMMA EntryReached ==
  ASSUME ProperDatagram, IInv, SentInv, pc = "answers", next <= Len(answer)
  PROVE  AtEntry(Len(question) + next)
<1>1. TypeInv /\ GrownAsSent
  BY DEF IInv, SentInv
<1>2. /\ Len(question) = Count(Received, 1) /\ Len(answer) = Count(Received, 2)
      /\ \A i \in next .. Len(answer) : SameAsSent(i)
  BY <1>1 DEF GrownAsSent
<1>3. /\ Len(question) \in Nat /\ Len(answer) \in Nat /\ Len(Entries) \in Nat
      /\ Len(authority) \in Nat /\ Len(additional) \in Nat
      /\ Len(Entries) = Len(question) + Len(answer) + Len(authority) + Len(additional)
      /\ \A i \in 1 .. Len(answer) : Entries[Len(question) + i] = answer[i]
  BY <1>1, EntriesTyped, SectionsTyped
<1>4. next \in Nat /\ next >= 1 /\ next \in 1 .. Len(answer) /\ next \in next .. Len(answer)
  BY <1>1, <1>3 DEF TypeInv, TypeOK
<1>5. SameAsSent(next) /\ Entries[Len(question) + next] = answer[next]
  BY <1>2, <1>3, <1>4
<1>6. Count(Received, 1) + next \in AddressRecords(Received, Size)
        <=> U16(bytes, answer[next].qtype) = TypeA
  BY <1>2, <1>4, <1>5, AddressSent
<1> DEFINE q == Len(question)
           a == Len(answer)
           z == Len(Entries)
<1>7. q \in Nat /\ a \in Nat /\ z \in Nat /\ q + a <= z /\ next \in 1 .. a
  BY <1>3, <1>4
<1> HIDE DEF q, a, z
<1>8. /\ q + next \in Nat /\ q + next \in 1 .. z /\ q < q + next /\ q + a \in Nat
      /\ q + next <= q + a /\ q + a <= z /\ z \in Nat /\ q \in Nat
  BY <1>7
<1>9. QED
  BY <1>2, <1>4, <1>5, <1>6, <1>8 DEF AtEntry, q, a, z

\* Of the names, nothing has to be shown again of a record that has been passed over.
LEMMA StandingNext ==
  ASSUME NEW b, NEW q, NEW es, NEW ls, NEW v \in Nat, NEW w \in Nat, NEW k,
         Standing(b, q, es, ls, v, w, k)
  PROVE  Standing(b, q, es, ls, v + 1, w, k)
<1>1. CASE \E u \in 1 .. Len(ls) : ls[u] = k
  BY <1>1 DEF Standing
<1>2. ASSUME NEW i \in 1 .. Len(es), InTarget(b, q, es, v, w, i, k)
      PROVE  InTarget(b, q, es, v + 1, w, i, k)
  <2>1. \A j \in v + 1 .. w : j \in v .. w
    OBVIOUS
  <2>2. QED
    BY <1>2, <2>1 DEF InTarget
<1>3. QED
  BY <1>1, <1>2 DEF Standing

LEMMA PairedNext ==
  ASSUME NEW a, NEW b, NEW q, NEW es, NEW ls, NEW v \in Nat, NEW w \in Nat, NEW R,
         Paired(a, b, q, es, ls, v, w, R)
  PROVE  Paired(a, b, q, es, ls, v + 1, w, R)
BY StandingNext DEF Paired

LEMMA NextRecordMeaning ==
  ASSUME ProperDatagram, IInv, SentInv, MeaningInv, NextRecord
  PROVE  MeaningInv'
<1> DEFINE q == Len(question)
           w == q + Len(answer)
           j == q + next
<1>1. /\ pc = "answers" /\ pc' = "answers" /\ next <= Len(answer) /\ next' = next + 1
      /\ U16(bytes, answer[next].qtype) # TypeA
      /\ UNCHANGED <<dgram, len, bytes, question, answer, authority, additional, labels>>
  BY DEF NextRecord, entries
<1>2. AtEntry(j)
  BY <1>1, EntryReached
<1>3. /\ j \in Nat /\ q = Count(Received, 1) /\ q \in Nat /\ w \in Nat /\ next \in Nat /\ next >= 1
      /\ Len(Entries) \in Nat /\ j \notin AddressRecords(Received, Size)
  BY <1>1, <1>2 DEF AtEntry
<1>4. /\ SameCounts /\ SameNames(next) /\ \A i \in 1 .. Len(Entries) : Says(bytes, Entries, next, i)
  BY <1>1 DEF MeaningInv
<1>5. PICK R : /\ Paired(Received, bytes, q, Entries, labels, j, w, R)
               /\ \A i \in 1 .. Len(Entries) : Met(Received, q, Sent, Entries, R, i)
  BY <1>4 DEF SameNames
<1>6. Paired(Received, bytes, q, Entries, labels, q + (next + 1), w, R)
  <2>1. q + (next + 1) = j + 1
    BY <1>3
  <2> HIDE DEF j, q, w
  <2>2. Paired(Received, bytes, q, Entries, labels, j + 1, w, R)
    BY <1>3, <1>5, PairedNext
  <2>3. QED
    BY <2>1, <2>2
<1>7. /\ Received' = Received /\ Size' = Size /\ Sent' = Sent /\ Entries' = Entries
  BY <1>1 DEF Received, Size, Sent, Entries
<1>8. SameNames(next)'
  <2>1. Paired(Received', bytes', Len(question'), Entries', labels', Len(question') + next',
               Len(question') + Len(answer'), R)
    BY <1>1, <1>6, <1>7
  <2>2. \A i \in 1 .. Len(Entries') : Met(Received', Len(question'), Sent', Entries', R, i)
    BY <1>1, <1>5, <1>7
  <2>3. QED
    BY <2>1, <2>2 DEF SameNames
<1>9. ASSUME NEW i \in 1 .. Len(Entries') PROVE Says(bytes, Entries, next, i)'
  <2>1. i \in Nat /\ i \in 1 .. Len(Entries)
    BY <1>3, <1>7
  <2>2. ToSay(next + 1, i) = ToSay(next, i)
    BY <1>3, <2>1, ToSayNext
  <2>3. FieldsOf(bytes, Entries[i], Kind(Count(Received, 1), i)) = ToSay(next + 1, i)
    BY <1>4, <2>1, <2>2 DEF Says
  <2>4. QED
    BY <1>1, <1>7, <2>3 DEF Says, ToSay, Before
<1>10. SameCounts'
  BY <1>1, <1>4, <1>7 DEF SameCounts
<1>11. QED
  BY <1>1, <1>8, <1>9, <1>10 DEF MeaningInv

\* What is known of the packet when a record of a message that can be read is rewritten.
Rewriting(qt, at, from, d) ==
  /\ Reworked(qt, at, from, d) /\ AtEntry(Len(question) + next)
  /\ buflen \in Nat /\ bytes \in Buffer(buflen) /\ len \in 0 .. buflen /\ Stop \in Nat
  /\ labels \in Seq(Nat) /\ len + d <= 2^14
  /\ U16(bytes, qt) = TypeA /\ U16(bytes, qt + 8) = 4
  /\ Received \in Buffer(Size) /\ Size \in Nat
  /\ HoldsName(U16(Received, Sent[Len(question) + next].qtype)) = FALSE

LEMMA RecordRewriting ==
  ASSUME ProperDatagram, IInv, SentInv, Readable, SynthesizeRecord, NEW qt \in Nat, NEW at \in Nat,
         NEW from, NEW d, Record(qt, at, from, d)
  PROVE  Rewriting(qt, at, from, d)
<1> DEFINE old == U16(bytes, answer[next].rdlength)
<1>1. AtA /\ pc = "answers" /\ next <= Len(answer) /\ U16(bytes, answer[next].qtype) = TypeA
  BY DEF SynthesizeRecord, AtA
<1>2. TypeInv /\ Laid /\ GrownAsSent
  BY <1>1 DEF IInv, LayoutInv, SentInv
<1>3. Reworked(qt, at, from, d)
  BY RecordReworked
<1>4. AtEntry(Len(question) + next)
  BY <1>1, EntryReached
<1>5. /\ buflen \in Nat /\ bytes \in Buffer(buflen) /\ len \in 0 .. buflen /\ labels \in Seq(Nat)
      /\ begin \in Nat
  BY <1>2 DEF TypeInv, TypeOK, Buffer
<1>6. Stop \in Nat
  <2>1. ReceivedLength \in begin .. len
    BY <1>2 DEF Laid
  <2>2. QED
    BY <1>5, <2>1 DEF Stop
<1>7. old = 4 /\ len + 12 <= TranslatedLength
  BY <1>1, <1>2, AtSent
<1>8. TranslatedLength \in Nat /\ Received \in Buffer(Size) /\ Size \in Nat
  BY AddressesFinite, SentFacts
<1>9. len + d <= 2^14
  <2>1. d = 16 - 4
    BY <1>7, PrefixTyped DEF Record
  <2>2. TranslatedLength <= 2^14
    BY DEF Readable
  <2>3. len \in Nat /\ len + d <= TranslatedLength
    BY <1>5, <1>7, <2>1
  <2>4. QED
    <3> DEFINE z == 2^14
    <3>1. z \in Nat
      OBVIOUS
    <3>2. TranslatedLength <= z
      BY <2>2
    <3> HIDE DEF z
    <3>3. len + d <= z
      <4>1. len + d \in Nat
        BY <2>1, <2>3
      <4>2. QED
        BY <1>8, <2>3, <3>1, <3>2, <4>1
    <3>4. QED
      BY <3>3 DEF z
<1>10. U16(bytes, qt) = TypeA /\ U16(bytes, qt + 8) = 4
  <2> DEFINE e == answer[next]
  <2>1. e \in Resources(len)
    BY <1>1, <1>2, RecordTypes
  <2>2. qt = e.qtype
    BY DEF Record
  <2> HIDE DEF e
  <2>3. e.rdlength = qt + 8
    BY <2>1, <2>2 DEF Resources
  <2>4. QED
    BY <1>1, <1>7, <2>2, <2>3 DEF e
<1>11. HoldsName(U16(Received, Sent[Len(question) + next].qtype)) = FALSE
  <2>1. U16(Received, Sent[Len(question) + next].qtype) = TypeA
    BY <1>1, <1>4 DEF AtEntry, SameAsSent
  <2>2. QED
    BY <2>1 DEF HoldsName, TypeA, TypeNS, TypeCNAME
<1>12. QED
  BY <1>3, <1>4, <1>5, <1>6, <1>8, <1>9, <1>10, <1>11 DEF Rewriting

\* The names can be followed as before,
LEMMA NamesReworked ==
  ASSUME NEW qt \in Nat, NEW at \in Nat, NEW from, NEW d, Rewriting(qt, at, from, d), SameNames(next)
  PROVE  \E R : /\ Paired(Received, bytes', Len(question), Entries', labels',
                          Len(question) + next + 1, Len(question) + Len(answer), R)
                /\ \A i \in 1 .. Len(Entries) : Met(Received, Len(question), Sent, Entries', R, i)
<1> DEFINE q == Len(question)
           w == q + Len(answer)
           j == q + next
<1>1. /\ from \in Nat /\ d \in Nat /\ bytes' \in Buffer(buflen) /\ len + d <= buflen
      /\ Around(bytes, len, q, Entries, Stop, labels, j, qt, at, from, d)
      /\ Rewritten(bytes, bytes', len, labels, qt, at, from, d)
      /\ Placed(len, labels, labels', from, d) /\ Grown(Entries, Entries', at, d)
  BY DEF Rewriting, Reworked
<1>2. /\ q \in Nat /\ j \in Nat /\ w \in Nat /\ j <= w /\ w <= Len(Entries)
  BY DEF Rewriting, AtEntry
<1>3. /\ buflen \in Nat /\ bytes \in Buffer(buflen) /\ len \in 0 .. buflen /\ Stop \in Nat
      /\ labels \in Seq(Nat) /\ len + d <= 2^14 /\ U16(bytes, qt) = TypeA
      /\ Received \in Buffer(Size) /\ Size \in Nat
  BY DEF Rewriting
<1>4. PICK R : /\ Paired(Received, bytes, q, Entries, labels, j, w, R)
               /\ \A i \in 1 .. Len(Entries) : Met(Received, q, Sent, Entries, R, i)
  BY DEF SameNames
<1>5. \A l, k : <<l, k>> \in R => l \in Nat
  BY <1>3, <1>4 DEF Paired, Buffer
<1>6. j = q + next /\ HoldsName(U16(Received, Sent[j].qtype)) = FALSE
  BY DEF Rewriting
<1> HIDE DEF q, w, j
<1>7. Paired(Received, bytes', q, Entries', labels', j + 1, w, Replaced(R, from, d))
  BY <1>1, <1>2, <1>3, <1>4, PairedMoved
<1>8. ASSUME NEW i \in 1 .. Len(Entries)
      PROVE  Met(Received, q, Sent, Entries', Replaced(R, from, d), i)
  <2>1. Met(Received, q, Sent, Entries, R, i)
    BY <1>4
  <2>2. i = j => ~HoldsName(U16(Received, Sent[i].qtype))
    BY <1>6
  <2>3. QED
    BY <1>1, <1>2, <1>3, <1>5, <2>1, <2>2, MetMoved
<1>9. QED
  BY <1>7, <1>8 DEF q, w, j

\* the other entries say what they said, and the record what is made of it.
LEMMA SaidReworked ==
  ASSUME ProperDatagram, NEW qt \in Nat, NEW at \in Nat, NEW from, NEW d,
         Rewriting(qt, at, from, d), NEW i \in 1 .. Len(Entries), Says(bytes, Entries, next, i)
  PROVE  Says(bytes', Entries', next + 1, i)
<1> DEFINE q == Len(question)
           j == q + next
<1>1. /\ from \in Nat /\ d \in Nat /\ bytes' \in Buffer(buflen)
      /\ Around(bytes, len, q, Entries, Stop, labels, j, qt, at, from, d)
      /\ Rewritten(bytes, bytes', len, labels, qt, at, from, d)
      /\ Grown(Entries, Entries', at, d)
      /\ U16(bytes', qt + 8) = 16 /\ Embedded(bytes, bytes', qt, at)
  BY DEF Rewriting, Reworked
<1>2. /\ buflen \in Nat /\ bytes \in Buffer(buflen) /\ len \in 0 .. buflen /\ Stop \in Nat
      /\ U16(bytes, qt) = TypeA /\ U16(bytes, qt + 8) = 4
  BY DEF Rewriting
<1>3. /\ q \in Nat /\ j \in Nat /\ next \in Nat /\ next >= 1 /\ q = Count(Received, 1) /\ q < j
      /\ i \in Nat /\ Entries[j] = answer[next]
      /\ j \in AddressRecords(Received, Size) <=> U16(bytes, answer[next].qtype) = TypeA
  BY DEF Rewriting, AtEntry
<1>4. /\ i # j => ToSay(next + 1, i) = ToSay(next, i)
      /\ i = j => ToSay(next + 1, i) = IF i \in AddressRecords(Received, Size)
                                       THEN AsAAAA(ToSay(next, i)) ELSE ToSay(next, i)
  BY <1>3, ToSayNext
<1>5. qt = Entries[j].qtype
  BY <1>1 DEF Around
<1>6. FieldsOf(bytes, Entries[i], Kind(q, i)) = ToSay(next, i)
  BY <1>3 DEF Says
<1>7. i # j => FieldsOf(bytes', Entries'[i], Kind(q, i)) = ToSay(next + 1, i)
  <2> HIDE DEF q, j
  <2>1. i # j => SameFields(bytes, bytes', Kind(q, i), Entries[i], Entries'[i])
    BY <1>1, <1>2, <1>3, FieldsMoved
  <2>2. QED
    BY <1>4, <1>6, <2>1 DEF SameFields
<1>8. FieldsOf(bytes', Entries'[j], 2) = AsAAAA(FieldsOf(bytes, Entries[j], 2))
  <2> HIDE DEF q, j
  <2>1. QED
    BY <1>1, <1>2, <1>3, FieldsRewritten
<1>9. i = j => FieldsOf(bytes', Entries'[i], Kind(q, i)) = ToSay(next + 1, i)
  <2>1. j \in AddressRecords(Received, Size)
    BY <1>2, <1>3, <1>5
  <2>2. Kind(q, j) = 2
    BY <1>3 DEF Kind
  <2>3. QED
    BY <1>4, <1>6, <1>8, <2>1, <2>2
<1>10. QED
  BY <1>3, <1>7, <1>9 DEF Says

\* A record has been rewritten.
LEMMA SynthesizeRecordMeaning ==
  ASSUME ProperDatagram, IInv, SentInv, Readable, MeaningInv, SynthesizeRecord
  PROVE  MeaningInv'
<1> DEFINE e == answer[next]
           qt == e.qtype
           at == e.rdata
           from == at + U16(bytes, e.rdlength)
           d == Synthesized - U16(bytes, e.rdlength)
<1>1. AtA /\ pc = "answers" /\ pc' = "answers" /\ next' = next + 1 /\ UNCHANGED dgram
  BY DEF SynthesizeRecord, AtA
<1>2. TypeInv /\ Laid
  BY <1>1 DEF IInv, LayoutInv
<1>3. SameCounts /\ SameNames(next) /\ \A i \in 1 .. Len(Entries) : Says(bytes, Entries, next, i)
  BY <1>1 DEF MeaningInv
<1>4. qt \in Nat /\ at \in Nat
  <2>1. e \in Resources(len)
    BY <1>1, <1>2, RecordTypes
  <2> HIDE DEF e
  <2>2. e.qtype \in Nat /\ e.rdata \in Nat
    BY <2>1 DEF Resources
  <2>3. QED
    BY <2>2
<1>5. Record(qt, at, from, d)
  BY DEF Record
<1> HIDE DEF e, qt, at, from, d
<1>6. Rewriting(qt, at, from, d)
  BY <1>4, <1>5, RecordRewriting
<1>7. Reworked(qt, at, from, d)
  BY <1>6 DEF Rewriting
<1>8. SameCounts'
  BY <1>1, <1>2, <1>3, <1>4, <1>7, CountsReworked
<1>9. /\ Received' = Received /\ Size' = Size /\ Sent' = Sent
      /\ Len(question') = Len(question) /\ Len(answer') = Len(answer) /\ Len(Entries') = Len(Entries)
      /\ Len(question) \in Nat /\ next \in Nat
  <2>1. Received' = Received /\ Size' = Size /\ Sent' = Sent
    BY <1>1 DEF Received, Size, Sent
  <2>2. Len(question') = Len(question) /\ Len(answer') = Len(answer)
    BY SynthesizeRecordInv DEF NumbersKept
  <2>3. Len(Entries') = Len(Entries)
    BY <1>7 DEF Reworked, Grown
  <2>4. Len(question) \in Nat /\ next \in Nat
    BY <1>6 DEF Rewriting, AtEntry
  <2>5. QED
    BY <2>1, <2>2, <2>3, <2>4
<1>10. SameNames(next)'
  <2>1. PICK R : /\ Paired(Received, bytes', Len(question), Entries', labels',
                          Len(question) + next + 1, Len(question) + Len(answer), R)
                 /\ \A i \in 1 .. Len(Entries) : Met(Received, Len(question), Sent, Entries', R, i)
    BY <1>3, <1>4, <1>6, NamesReworked
  <2>2. Len(question) + next + 1 = Len(question') + next'
    BY <1>1, <1>9
  <2>3. Paired(Received', bytes', Len(question'), Entries', labels', Len(question') + next',
               Len(question') + Len(answer'), R)
    BY <1>9, <2>1, <2>2
  <2>4. \A i \in 1 .. Len(Entries') : Met(Received', Len(question'), Sent', Entries', R, i)
    BY <1>9, <2>1
  <2>5. QED
    BY <2>3, <2>4 DEF SameNames
<1>11. ASSUME NEW i \in 1 .. Len(Entries') PROVE Says(bytes, Entries, next, i)'
  <2>1. i \in 1 .. Len(Entries)
    BY <1>9
  <2>2. Says(bytes, Entries, next, i)
    BY <1>3, <2>1
  <2>3. Says(bytes', Entries', next + 1, i)
    BY <1>4, <1>6, <2>1, <2>2, SaidReworked
  <2>4. QED
    BY <1>1, <1>9, <2>3 DEF Says, ToSay, Before
<1>12. QED
  BY <1>1, <1>8, <1>10, <1>11 DEF MeaningInv
-------------------------------------------------------------------------------
(* The reply *)

\* A record of section s that says r, under the name owner, the name in its rdata being target.
Stated(r, s, owner, target) ==
  LET name == s # 1 /\ HoldsName(r.type)
  IN [section |-> s, owner |-> owner, type |-> r.type, class |-> r.class, ttl |-> r.ttl,
      target |-> IF name THEN target ELSE <<>>,
      data |-> IF name THEN <<>> ELSE r.data]

LEMMA MeaningStated ==
  ASSUME NEW b, NEW e, NEW s, NEW k, s = 1 <=> k = 1
  PROVE  MeaningOf(b, e, s) = Stated(FieldsOf(b, e, k), s, Name(b, e.begin), Name(b, e.rdata))
<1> DEFINE r == FieldsOf(b, e, k)
           type == U16(b, e.qtype)
           class == U16(b, e.qclass)
           ttl == Slice(b, e.ttl, 4)
           data == Slice(b, e.rdata, U16(b, e.rdlength))
           owner == Name(b, e.begin)
           target == Name(b, e.rdata)
<1>1. r = [type |-> type, class |-> class, ttl |-> IF k = 1 THEN <<>> ELSE ttl,
           data |-> IF k = 1 THEN <<>> ELSE data]
  BY DEF FieldsOf
<1>2. MeaningOf(b, e, s) =
        [section |-> s, owner |-> owner, type |-> type, class |-> class,
         ttl |-> IF s = 1 THEN <<>> ELSE ttl,
         target |-> IF s # 1 /\ HoldsName(type) THEN target ELSE <<>>,
         data |-> IF s = 1 \/ (s # 1 /\ HoldsName(type)) THEN <<>> ELSE data]
  BY DEF MeaningOf
<1> HIDE DEF r, type, class, ttl, data, owner, target
<1>3. /\ r.type = type /\ r.class = class
      /\ r.ttl = IF k = 1 THEN <<>> ELSE ttl
      /\ r.data = IF k = 1 THEN <<>> ELSE data
  BY <1>1
<1>4. Stated(r, s, owner, target) =
        [section |-> s, owner |-> owner, type |-> type, class |-> class,
         ttl |-> IF k = 1 THEN <<>> ELSE ttl,
         target |-> IF s # 1 /\ HoldsName(type) THEN target ELSE <<>>,
         data |-> IF s # 1 /\ HoldsName(type) THEN <<>> ELSE (IF k = 1 THEN <<>> ELSE data)]
  BY <1>3, Zenon DEF Stated
<1>5. /\ (IF k = 1 THEN <<>> ELSE ttl) = (IF s = 1 THEN <<>> ELSE ttl)
      /\ (IF s # 1 /\ HoldsName(type) THEN <<>> ELSE (IF k = 1 THEN <<>> ELSE data))
           = (IF s = 1 \/ (s # 1 /\ HoldsName(type)) THEN <<>> ELSE data)
  BY Zenon
<1>6. MeaningOf(b, e, s) = Stated(r, s, owner, target)
  BY <1>2, <1>4, <1>5
<1>7. QED
  BY <1>6 DEF r, owner, target

\* What DNS64 makes of entry i of section s that means x.
OneTranslated(x, i) ==
  IF i = 1 THEN [x EXCEPT !.type = TypeAAAA]
  ELSE IF x.section = 2 /\ x.type = TypeA
  THEN [x EXCEPT !.type = TypeAAAA, !.data = Prefix \o @]
  ELSE x

\* The question,
LEMMA StatedQuestion ==
  ASSUME NEW r, NEW owner, NEW t, NEW u
  PROVE  Stated(ForAAAA(r), 1, owner, t) = OneTranslated(Stated(r, 1, owner, u), 1)
<1> DEFINE class == r.class
           ttl == r.ttl
           data == r.data
           type == r.type
           f == ForAAAA(r)
           x == Stated(r, 1, owner, u)
<1>1. f = [type |-> TypeAAAA, class |-> class, ttl |-> ttl, data |-> data]
  BY DEF ForAAAA
<1>2. x = [section |-> 1, owner |-> owner, type |-> type, class |-> class, ttl |-> ttl,
           target |-> <<>>, data |-> data]
  BY DEF Stated
<1> HIDE DEF f, x, class, ttl, data, type
<1>3. f.type = TypeAAAA /\ f.class = class /\ f.ttl = ttl /\ f.data = data
  BY <1>1
<1>4. Stated(f, 1, owner, t) = [section |-> 1, owner |-> owner, type |-> TypeAAAA, class |-> class,
                                ttl |-> ttl, target |-> <<>>, data |-> data]
  BY <1>3 DEF Stated
<1>5. [x EXCEPT !.type = TypeAAAA]
        = [section |-> 1, owner |-> owner, type |-> TypeAAAA, class |-> class,
           ttl |-> ttl, target |-> <<>>, data |-> data]
  BY <1>2
<1>6. Stated(f, 1, owner, t) = OneTranslated(x, 1)
  BY <1>4, <1>5 DEF OneTranslated
<1>7. QED
  BY <1>6 DEF f, x

\* the A records of the answer,
LEMMA StatedAddress ==
  ASSUME NEW r, r.type = TypeA, NEW owner, NEW t, NEW u, NEW i, i # 1
  PROVE  Stated(AsAAAA(r), 2, owner, t) = OneTranslated(Stated(r, 2, owner, u), i)
<1> DEFINE class == r.class
           ttl == r.ttl
           data == r.data
           f == AsAAAA(r)
           x == Stated(r, 2, owner, u)
<1>1. f = [type |-> TypeAAAA, class |-> class, ttl |-> ttl, data |-> Prefix \o data]
  BY DEF AsAAAA
<1>2. ~HoldsName(TypeA) /\ ~HoldsName(TypeAAAA)
  BY DEF HoldsName, TypeA, TypeAAAA, TypeNS, TypeCNAME
<1>3. x = [section |-> 2, owner |-> owner, type |-> TypeA, class |-> class, ttl |-> ttl,
           target |-> <<>>, data |-> data]
  BY <1>2 DEF Stated
<1> HIDE DEF f, x, class, ttl, data
<1>4. f.type = TypeAAAA /\ f.class = class /\ f.ttl = ttl /\ f.data = Prefix \o data
  BY <1>1
<1> DEFINE y == [section |-> 2, owner |-> owner, type |-> TypeAAAA, class |-> class, ttl |-> ttl,
                 target |-> <<>>, data |-> Prefix \o data]
<1>5. Stated(f, 2, owner, t) = y
  BY <1>2, <1>4 DEF Stated
<1>6. x.section = 2 /\ x.type = TypeA /\ x.data = data
  BY <1>3
<1> DEFINE p == Prefix \o data
<1>7. [x EXCEPT !.type = TypeAAAA, !.data = Prefix \o @] = [x EXCEPT !.type = TypeAAAA, !.data = p]
  BY <1>3
<1> HIDE DEF p
<1>8. [x EXCEPT !.type = TypeAAAA, !.data = p]
        = [section |-> 2, owner |-> owner, type |-> TypeAAAA, class |-> class, ttl |-> ttl,
           target |-> <<>>, data |-> p]
  <2> DEFINE z == [x EXCEPT !.type = TypeAAAA]
  <2>1. z = [section |-> 2, owner |-> owner, type |-> TypeAAAA, class |-> class, ttl |-> ttl,
             target |-> <<>>, data |-> data]
    BY <1>3
  <2>2. [x EXCEPT !.type = TypeAAAA, !.data = p] = [z EXCEPT !.data = p]
    OBVIOUS
  <2> HIDE DEF z
  <2>3. [z EXCEPT !.data = p]
          = [section |-> 2, owner |-> owner, type |-> TypeAAAA, class |-> class, ttl |-> ttl,
             target |-> <<>>, data |-> p]
    BY <2>1
  <2>4. QED
    BY <2>2, <2>3
<1>9. [x EXCEPT !.type = TypeAAAA, !.data = p] = y
  BY <1>8 DEF p
<1> HIDE DEF y
<1>10. Stated(f, 2, owner, t) = OneTranslated(x, i)
  BY <1>5, <1>6, <1>7, <1>9 DEF OneTranslated
<1>11. QED
  BY <1>10 DEF f, x

\* and what is neither.
LEMMA StatedOther ==
  ASSUME NEW r, NEW s, NEW owner, NEW t, NEW u, s # 1 /\ HoldsName(r.type) => t = u,
         NEW i, i # 1, ~(s = 2 /\ r.type = TypeA)
  PROVE  Stated(r, s, owner, t) = OneTranslated(Stated(r, s, owner, u), i)
<1> DEFINE x == Stated(r, s, owner, u)
<1>1. Stated(r, s, owner, t) = x
  BY Zenon DEF Stated
<1>2. x.section = s /\ x.type = r.type
  BY DEF Stated
<1> HIDE DEF x
<1>3. OneTranslated(x, i) = x
  BY <1>2, Zenon DEF OneTranslated
<1>4. QED
  BY <1>1, <1>3 DEF x

\* What is known of a message when the loop has come to the end of its answers.
Answered ==
  /\ next = Count(Received, 2) + 1 /\ Before(next) = AddressRecords(Received, Size)
  /\ FoundAgain /\ Len(question) = Count(Received, 1) /\ Counts(bytes) = Counts(Received)
  /\ \A i \in 1 .. Counts(Received) : SectionOf(bytes, i) = SectionOf(Received, i)
  /\ DOMAIN Sent = 1 .. Counts(Received)
  /\ buflen \in Nat /\ bytes \in Buffer(buflen) /\ Received \in Buffer(Size) /\ Size \in Nat
  /\ Tiled(bytes, len, Len(question), Entries, Stop)
  /\ SameNames(next) /\ \A i \in 1 .. Len(Entries) : Says(bytes, Entries, next, i)

LEMMA SendReplyAnswered ==
  ASSUME ProperDatagram, IInv, SentInv, MeaningInv, SendReply
  PROVE  Answered
<1>1. pc = "answers" /\ next > Len(answer)
  BY DEF SendReply
<1>2. TypeInv /\ Laid /\ GrownAsSent
  BY <1>1 DEF IInv, LayoutInv, SentInv
<1>3. SameCounts /\ SameNames(next) /\ \A i \in 1 .. Len(Entries) : Says(bytes, Entries, next, i)
  BY <1>1 DEF MeaningInv
<1>4. next = Count(Received, 2) + 1 /\ next \in Nat /\ next >= 1
  <2>1. next \in 1 .. Len(answer) + 1 /\ Len(answer) \in Nat /\ Len(answer) = Count(Received, 2)
    BY <1>2, SectionsTyped DEF TypeInv, TypeOK, GrownAsSent
  <2>2. QED
    BY <1>1, <2>1
<1>5. Before(next) = AddressRecords(Received, Size)
  BY <1>4, BeforeNext
<1>6. FoundAgain
  BY <1>1, LayoutFound
<1>7. Counts(bytes) = Counts(Received) /\ \A i : SectionOf(bytes, i) = SectionOf(Received, i)
  BY <1>3 DEF SameCounts, Counts, SectionOf
<1>8. DOMAIN Sent = 1 .. Counts(Received)
  BY DEF Sent, EntriesOf
<1>9. /\ buflen \in Nat /\ bytes \in Buffer(buflen) /\ Received \in Buffer(Size) /\ Size \in Nat
      /\ Tiled(bytes, len, Len(question), Entries, Stop) /\ Len(question) = Count(Received, 1)
  BY <1>2, SentFacts DEF TypeInv, TypeOK, Buffer, Laid, GrownAsSent
<1>10. QED
  BY <1>3, <1>4, <1>5, <1>6, <1>7, <1>8, <1>9 DEF Answered

\* Entry i, found again, says what was to be said, under the name it had.
FoundSaying(i) ==
  LET e == Sent[i]
      f == EntriesOf(bytes, len)[i]
      k == Kind(Len(question), i)
  IN /\ SectionOf(Received, i) = 1 <=> k = 1
     /\ FieldsOf(bytes, f, k) = ToSay(next, i)
     /\ Name(bytes, f.begin) = Name(Received, e.begin)
     /\ k # 1 /\ HoldsName(U16(Received, e.qtype)) => Name(bytes, f.rdata) = Name(Received, e.rdata)

LEMMA FoundSays ==
  ASSUME Answered, NEW i \in 1 .. Counts(Received)
  PROVE  FoundSaying(i)
<1> DEFINE found == EntriesOf(bytes, len)
           q == Len(question)
           e == Entries[i]
           f == found[i]
           g == Sent[i]
           k == Kind(q, i)
<1>1. /\ i \in 1 .. Len(Entries) /\ i \in 1 .. Counts(bytes)
      /\ SectionOf(Received, i) = 1 <=> k = 1
      /\ SameButName(e, f) /\ f.begin = e.begin
  BY DEF Answered, FoundAgain
<1>2. /\ e \in Shape(len, k) /\ k \in 1 .. 2 /\ (k # 1 <=> q < i)
  <2>1. EntryLaid(bytes, len, k, e)
    BY <1>1 DEF Answered, Tiled
  <2>2. q \in Nat /\ i \in Nat
    OBVIOUS
  <2>3. k \in 1 .. 2 /\ (k # 1 <=> q < i)
    BY <2>2 DEF Kind
  <2>4. QED
    BY <2>1, <2>3 DEF EntryLaid
<1>3. FieldsOf(bytes, f, k) = ToSay(next, i)
  <2>1. FieldsOf(bytes, e, k) = ToSay(next, i)
    BY <1>1 DEF Answered, Says
  <2> HIDE DEF e, f, k
  <2>2. FieldsOf(bytes, f, k) = FieldsOf(bytes, e, k)
    BY <1>1, <1>2, SaidButName
  <2>3. QED
    BY <2>1, <2>2
<1>4. PICK R : /\ Paired(Received, bytes, q, Entries, labels, q + next, q + Len(answer), R)
               /\ Met(Received, q, Sent, Entries, R, i)
  BY <1>1 DEF Answered, SameNames
<1>5. /\ Name(bytes, e.begin) = Name(Received, g.begin)
      /\ q < i /\ HoldsName(U16(Received, g.qtype)) => Name(bytes, e.rdata) = Name(Received, g.rdata)
  <2>1. buflen \in Nat /\ bytes \in Buffer(buflen) /\ Received \in Buffer(Size) /\ Size \in Nat
    BY DEF Answered
  <2> HIDE DEF q
  <2>2. QED
    BY <1>4, <2>1, NamesMet
<1>6. k # 1 => f.rdata = e.rdata
  <2>1. ASSUME k # 1 PROVE DOMAIN e = {"begin", "name", "qtype", "qclass", "ttl", "rdlength", "rdata"}
    BY <1>2, <2>1 DEF Shape, Resources
  <2>2. QED
    BY <1>1, <2>1 DEF SameButName
<1> HIDE DEF f, e, g, k, q
<1>7. QED
  BY <1>1, <1>2, <1>3, <1>5, <1>6 DEF FoundSaying, found, f, g, k, q

\* So it means what it is to mean.
EntryTranslated(i) ==
  MeaningOf(bytes, EntriesOf(bytes, len)[i], SectionOf(Received, i))
    = OneTranslated(MeaningOf(Received, Sent[i], SectionOf(Received, i)), i)

LEMMA FoundMeans ==
  ASSUME ProperDatagram, Answered, NEW i \in 1 .. Counts(Received)
  PROVE  EntryTranslated(i)
<1> DEFINE e == Sent[i]
           f == EntriesOf(bytes, len)[i]
           k == Kind(Len(question), i)
           s == SectionOf(Received, i)
           r == FieldsOf(Received, e, k)
           owner == Name(Received, e.begin)
           t == Name(bytes, f.rdata)
           u == Name(Received, e.rdata)
           A == AddressRecords(Received, Size)
<1>1. /\ s = 1 <=> k = 1
      /\ FieldsOf(bytes, f, k) = ToSay(next, i)
      /\ Name(bytes, f.begin) = owner
      /\ k # 1 /\ HoldsName(U16(Received, e.qtype)) => t = u
  BY FoundSays DEF FoundSaying
<1>2. ToSay(next, i) = IF i = 1 THEN ForAAAA(r) ELSE IF i \in A THEN AsAAAA(r) ELSE r
  BY DEF Answered, ToSay
<1>3. i \in A <=> s = 2 /\ r.type = TypeA
  BY DEF AddressRecords, Sent, FieldsOf
<1>4. i = 1 => s = 1
  BY SentFacts DEF SectionOf
<1>5. r.type = U16(Received, e.qtype)
  BY DEF FieldsOf
<1> HIDE DEF e, f, k, s
<1>6. /\ MeaningOf(bytes, f, s) = Stated(FieldsOf(bytes, f, k), s, owner, t)
      /\ MeaningOf(Received, e, s) = Stated(r, s, owner, u)
  BY <1>1, MeaningStated
<1> HIDE DEF r, owner, t, u, A
<1>7. Stated(ToSay(next, i), s, owner, t) = OneTranslated(Stated(r, s, owner, u), i)
  <2>1. CASE i = 1
    <3>1. Stated(ForAAAA(r), 1, owner, t) = OneTranslated(Stated(r, 1, owner, u), 1)
      BY StatedQuestion
    <3>2. QED
      BY <1>2, <1>4, <2>1, <3>1
  <2>2. CASE i # 1 /\ i \in A
    <3>1. Stated(AsAAAA(r), 2, owner, t) = OneTranslated(Stated(r, 2, owner, u), i)
      BY <1>3, <2>2, StatedAddress
    <3>2. QED
      BY <1>2, <1>3, <2>2, <3>1
  <2>3. CASE i # 1 /\ i \notin A
    <3>1. s # 1 /\ HoldsName(r.type) => t = u
      BY <1>1, <1>5
    <3>2. ~(s = 2 /\ r.type = TypeA)
      BY <1>3, <2>3
    <3>3. Stated(r, s, owner, t) = OneTranslated(Stated(r, s, owner, u), i)
      BY <2>3, <3>1, <3>2, StatedOther
    <3>4. QED
      BY <1>2, <2>3, <3>3
  <2>4. QED
    BY <2>1, <2>2, <2>3
<1>8. MeaningOf(bytes, f, s) = OneTranslated(MeaningOf(Received, e, s), i)
  BY <1>1, <1>6, <1>7
<1>9. QED
  BY <1>8 DEF EntryTranslated, e, f, s

\* The reply is sent.
LEMMA SendReplyMeaning ==
  ASSUME ProperDatagram, IInv, SentInv, MeaningInv, SendReply
  PROVE  MeaningInv'
<1> DEFINE found == EntriesOf(bytes, len)
           c == Counts(Received)
           m == Meaning(Received, Size)
<1>1. Answered
  BY SendReplyAnswered
<1>2. DOMAIN found = 1 .. c /\ DOMAIN Sent = 1 .. c
      /\ \A i \in 1 .. c : SectionOf(bytes, i) = SectionOf(Received, i)
  BY <1>1 DEF Answered, FoundAgain
<1>3. Meaning(bytes, len) = [i \in 1 .. c |-> MeaningOf(bytes, found[i], SectionOf(Received, i))]
  <2>1. Meaning(bytes, len) = [i \in DOMAIN found |-> MeaningOf(bytes, found[i], SectionOf(bytes, i))]
    BY DEF Meaning
  <2> HIDE DEF found, c
  <2>2. QED
    BY <1>2, <2>1
<1>4. m = [i \in 1 .. c |-> MeaningOf(Received, Sent[i], SectionOf(Received, i))]
  <2>1. m = [i \in DOMAIN Sent |-> MeaningOf(Received, Sent[i], SectionOf(Received, i))]
    BY DEF Meaning, Sent
  <2> HIDE DEF m, c
  <2>2. QED
    BY <1>2, <2>1
<1>5. ASSUME NEW i \in 1 .. c
      PROVE  MeaningOf(bytes, found[i], SectionOf(Received, i)) = OneTranslated(m[i], i)
  <2>1. EntryTranslated(i)
    BY <1>1, FoundMeans
  <2>2. m[i] = MeaningOf(Received, Sent[i], SectionOf(Received, i))
    BY <1>4
  <2> HIDE DEF m
  <2>3. QED
    BY <2>1, <2>2 DEF EntryTranslated
<1>6. Translated(m) = [i \in 1 .. c |-> OneTranslated(m[i], i)]
  <2>1. DOMAIN m = 1 .. c
    BY <1>4
  <2> HIDE DEF m, c
  <2>2. QED
    BY <2>1 DEF Translated, OneTranslated
<1> HIDE DEF found, c, m
<1>7. Meaning(bytes, len) = Translated(m)
  BY <1>3, <1>5, <1>6
<1>8. SameMeaning
  BY <1>7 DEF SameMeaning, m
<1>9. UNCHANGED <<dgram, len, bytes>> /\ pc' = "sent"
  BY DEF SendReply
<1>10. SameMeaning'
  BY <1>8, <1>9 DEF SameMeaning, Received, Size
<1>11. QED
  BY <1>9, <1>10 DEF MeaningInv

\* The inductive invariant, of datagrams proper and not, legible and not.
LegibleInv == ProperInv /\ (Readable => MeaningInv)

\* Every step keeps it.
LEMMA NextLegible == LegibleInv /\ [Next]_vars => LegibleInv'
<1> SUFFICES ASSUME LegibleInv, [Next]_vars PROVE LegibleInv'
  OBVIOUS
<1>1. ProperInv'
  BY NextProper DEF LegibleInv
<1>2. dgram' = dgram
  BY DEF Next, vars, HeaderTooSmall, ReadHeader, ReadEntry, EntryTooLong, SetQuestionType,
         NextRecord, SynthesizeRecord, NoRoom, SendReply
<1>3. Readable' = Readable
  BY <1>2 DEF Readable, ProperDatagram, Received, Size, Sent, TranslatedLength
<1>4. ASSUME Readable PROVE MeaningInv'
  <2>1. ProperDatagram /\ IInv /\ SentInv /\ MeaningInv
    BY <1>4 DEF LegibleInv, ProperInv, Readable
  <2>2. CASE SetQuestionType
    BY <1>4, <2>1, <2>2, SetQuestionTypeMeaning
  <2>3. CASE NextRecord
    BY <2>1, <2>3, NextRecordMeaning
  <2>4. CASE SynthesizeRecord
    BY <1>4, <2>1, <2>4, SynthesizeRecordMeaning
  <2>5. CASE SendReply
    BY <2>1, <2>5, SendReplyMeaning
  <2>6. CASE HeaderTooSmall \/ ReadHeader \/ ReadEntry \/ EntryTooLong \/ NoRoom
    <3>1. pc' \notin {"answers", "sent"}
      BY <2>6 DEF HeaderTooSmall, ReadHeader, ReadEntry, EntryTooLong, NoRoom
    <3>2. QED
      BY <3>1 DEF MeaningInv
  <2>7. CASE UNCHANGED vars
    <3>1. UNCHANGED <<dgram, buflen, len, bytes, question, answer, authority, additional,
                      labels, begin, next, pc>>
      BY <2>7 DEF vars
    <3>2. Received' = Received /\ Size' = Size /\ Sent' = Sent /\ Entries' = Entries
      BY <3>1 DEF Received, Size, Sent, Entries
    <3>3. QED
      BY <2>1, <3>1, <3>2 DEF MeaningInv, SameCounts, SameNames, SameMeaning, Says, ToSay, Before
  <2>8. QED
    BY <2>2, <2>3, <2>4, <2>5, <2>6, <2>7 DEF Next
<1>5. QED
  BY <1>1, <1>3, <1>4 DEF LegibleInv

\* The names of the datagram are whole: those in rdata end where it does or before, and every
\* pointer is to a label; and the translation is short enough for pointers to anywhere in it,
\* which have 14 bits.
Legible ==
  /\ dgram \notin Malformed
  /\ NamesWhole(Received, Size, Count(Received, 1), Sent)
  /\ TranslatedLength <= 2^14

\* The reply to a proper answer that is legible means what DNS64 makes of the answer: the same
\* records, in order, under the same names, whatever points to what, the addresses embedded in
\* the prefix, however many there are - as long as no name inside rdata is compressed against
\* something behind a translated address.
THEOREM SpecRecordsKept == Spec => [](Legible => RecordsKept)
<1>1. Init => LegibleInv /\ ProperSent
  <2>1. Init => ProperInv /\ ProperSent /\ pc = "header"
    BY InitSent DEF Init
  <2>2. QED
    BY <2>1 DEF LegibleInv, MeaningInv
<1>2. LegibleInv /\ ProperSent => (Legible => RecordsKept)
  BY DEF LegibleInv, ProperSent, MeaningInv, SameMeaning, Readable, Legible, RecordsKept, Size
<1>3. QED
  BY <1>1, <1>2, NextLegible, NextProper, PTL DEF Spec
===============================================================================
