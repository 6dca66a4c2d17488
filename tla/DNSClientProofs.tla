---------------------------- MODULE DNSClientProofs ---------------------------
(***************************************************************************)
(* Theorems about DNSClient, for any clients, any number of servers, none  *)
(* included, and any number of resends below the largest short.            *)
(*                                                                         *)
(* AttemptsExact compares the servers a call has asked with the bound; it  *)
(* is inductive only together with Counted, which ties the local           *)
(* `attempts` to what was asked at each point of the loop.  That keeps     *)
(* `attempts` below its wrap, which AttemptsExact and the loop need.       *)
(***************************************************************************)
EXTENDS DNSClient, TLAPS

\* How often a client has asked, in terms of `attempts`.
Counted ==
  \A c \in Clients :
    /\ attempts[c] >= 0
    /\ client[c] \in {"select", "send"} => Len(tried[c]) = attempts[c]
    /\ client[c] = "select" => attempts[c] <= ResendAttempts + 1
    /\ client[c] = "recv" => Len(tried[c]) = attempts[c] + 1
    /\ client[c] \in {"send", "recv"} => attempts[c] <= ResendAttempts

\* sendto() is called with an entry of dns_servers_.
Selected == \A c \in Clients : client[c] = "send" => target[c] \in 0 .. nservers - 1

\* There is a server to ask.
SomeServer == nservers \in Nat /\ nservers > 0

IInv == TypeOK /\ Counted /\ AttemptsExact /\ Selected

\* What a client does, also one that calls sendQuery() again.
Action ==
  \E c \in Clients :
    \/ SendQuery(c)
    \/ ClientStep(c)
    \/ Receive(c)
    \/ \E a \in Answers : SendAnswered(c, a)
-------------------------------------------------------------------------------
\* The remainder that selects a server is an index of dns_servers_, before and after the
\* counter has become negative.
LEMMA IndexInRange ==
  ASSUME SomeServer, NEW r \in Int
  PROVE  Index(r) \in 0 .. nservers - 1
<1>1. nservers \in Nat /\ nservers > 0
  BY DEF SomeServer
<1>2. ASSUME NEW x \in Int PROVE x % nservers \in 0 .. nservers - 1
  BY <1>1, SMT
<1>3. TwoTo64 \in 0 .. nservers - 1
  <2> DEFINE m == 65536 % nservers
             sq(x) == (x * x) % nservers
  <2>1. m \in Int
    BY <1>1, SMT
  <2>2. ASSUME NEW x \in Int PROVE sq(x) \in 0 .. nservers - 1
    <3>1. x * x \in Int
      BY SMT
    <3>2. QED
      BY <1>2, <3>1
  <2>3. sq(m) \in Int
    <3> HIDE DEF m, sq
    <3>1. sq(m) \in 0 .. nservers - 1
      BY <2>1, <2>2
    <3>2. QED
      BY <1>1, <3>1, SMT
  <2>4. sq(sq(m)) \in 0 .. nservers - 1
    <3> HIDE DEF m, sq
    <3>1. QED
      BY <2>2, <2>3
  <2>5. TwoTo64 = sq(sq(m))
    BY DEF TwoTo32, TwoTo64, Square
  <2>6. QED
    <3> HIDE DEF m, sq
    <3>1. QED
      BY <2>4, <2>5
<1>4. r % nservers \in Int /\ (r % nservers) + TwoTo64 \in Int
  BY <1>1, <1>2, <1>3, SMT
<1>5. QED
  BY <1>2, <1>4, SMT DEF Index

\* The largest int is one.
LEMMA IntMaxPositive == IntMax \in Nat /\ IntMax > 0
BY SMT DEF IntMax

\* The counter stays an int; it wraps where the processor lets it.
LEMMA NextRRInRange ==
  ASSUME rr \in (-IntMax - 1) .. IntMax
  PROVE  NextRR \in (-IntMax - 1) .. IntMax /\ NextRR \in Int
<1>1. IntMax \in Nat /\ IntMax > 0
  BY IntMaxPositive
<1>2. rr \in Int /\ -IntMax - 1 <= rr /\ rr <= IntMax
  BY <1>1, SMT
<1>3. CASE rr = IntMax
  <2>1. NextRR = -IntMax - 1
    BY <1>3 DEF NextRR
  <2>2. QED
    BY <1>1, <2>1, SMT
<1>4. CASE rr # IntMax
  <2>1. NextRR = rr + 1
    BY <1>4 DEF NextRR
  <2>2. QED
    BY <1>1, <1>2, <1>4, <2>1, SMT
<1>5. QED
  BY <1>3, <1>4

\* A client starts without a question asked.
LEMMA InitInv == ASSUME ResendAttempts < ShortMax PROVE ClientInit => IInv
<1> SUFFICES ASSUME ClientInit PROVE IInv
  OBVIOUS
<1>1. TypeOK
  <2>1. rr \in (-IntMax - 1) .. IntMax
    BY ValuesAssumption, Zenon DEF ClientInit
  <2>2. attempts \in [Clients -> (-ShortMax - 1) .. ShortMax]
    BY ShortAssumption, SMT DEF ClientInit
  <2>3. client \in [Clients -> ClientPC]
    BY DEF ClientInit, ClientPC
  <2>4. QED
    BY <2>1, <2>2, <2>3 DEF TypeOK, ClientInit
<1>2. \A c \in Clients : client[c] = "idle" /\ attempts[c] = 0 /\ Len(tried[c]) = 0
  BY DEF ClientInit
<1>3. Counted
  <2> SUFFICES ASSUME NEW c \in Clients PROVE Counted!(c)
    BY DEF Counted
  <2>1. client[c] = "idle" /\ attempts[c] = 0
    BY <1>2
  <2>2. QED
    BY <2>1, SMT
<1>4. AttemptsExact
  <2> SUFFICES ASSUME NEW c \in Clients PROVE AttemptsExact!(c)
    BY DEF AttemptsExact
  <2>1. client[c] = "idle" /\ Len(tried[c]) = 0
    BY <1>2
  <2>2. QED
    BY <2>1, ShortAssumption, SMT
<1>5. Selected
  BY <1>2 DEF Selected
<1>6. QED
  BY <1>1, <1>3, <1>4, <1>5 DEF IInv

\* The local `attempts` counts the questions asked, and no call asks too often or gives
\* up too early: sent between select and recv, counted between recv and select.
LEMMA CountKept ==
  ASSUME ResendAttempts < ShortMax, IInv, [Action]_clientVars
  PROVE  Counted' /\ AttemptsExact'
<1> USE ShortAssumption DEF IInv, TypeOK, Counted, AttemptsExact, ClientPC
<1>1. ASSUME NEW c \in Clients, SendQuery(c) PROVE Counted' /\ AttemptsExact'
  BY <1>1, SMT DEF SendQuery
<1>2. ASSUME NEW c \in Clients, Select(c) PROVE Counted' /\ AttemptsExact'
  BY <1>2, SMT DEF Select
<1>10. ASSUME NEW c \in Clients, DivideByZero(c) PROVE Counted' /\ AttemptsExact'
  BY <1>10, SMT DEF DivideByZero
<1>3. ASSUME NEW c \in Clients, GiveUp(c) PROVE Counted' /\ AttemptsExact'
  BY <1>3, SMT DEF GiveUp
<1>4. ASSUME NEW c \in Clients, SendFails(c) PROVE Counted' /\ AttemptsExact'
  BY <1>4, SMT DEF SendFails
<1>5. ASSUME NEW c \in Clients, Sent(c) PROVE Counted' /\ AttemptsExact'
  <2>1. Len(tried'[c]) = Len(tried[c]) + 1
    BY <1>5, SMT DEF Sent
  <2>2. QED
    BY <1>5, <2>1, SMT DEF Sent
<1>6. ASSUME NEW c \in Clients, Receive(c) PROVE Counted' /\ AttemptsExact'
  BY <1>6, SMT DEF Receive
<1>7. ASSUME NEW c \in Clients, NoAnswerInTime(c) PROVE Counted' /\ AttemptsExact'
  <2>1. Incremented(attempts[c]) = attempts[c] + 1
    BY <1>7, SMT DEF NoAnswerInTime, Incremented
  <2>2. QED
    BY <1>7, <2>1, SMT DEF NoAnswerInTime
<1>8. CASE UNCHANGED clientVars
  BY <1>8, SMT DEF clientVars
<1>9. QED
  BY <1>1, <1>2, <1>3, <1>4, <1>5, <1>6, <1>7, <1>8, <1>10
     DEF Action, ClientStep, SendUnanswered, SendAnswered

\* Every step keeps the types.  The counters and the index of the selected server are
\* what could leave theirs.
LEMMA TypeKept ==
  ASSUME ResendAttempts < ShortMax, IInv, [Action]_clientVars
  PROVE  TypeOK' /\ Selected'
<1> USE DEF IInv, TypeOK, Selected, ClientPC
<1>1. ASSUME NEW c \in Clients, SendQuery(c) PROVE TypeOK' /\ Selected'
  BY <1>1, ShortAssumption, SMT DEF SendQuery
<1>2. ASSUME NEW c \in Clients, Select(c) PROVE TypeOK' /\ Selected'
  <2>7. SomeServer
    <3>1. nservers \in Nat
      BY ServersAssumption, Zenon
    <3>2. nservers # 0
      BY <1>2 DEF Select
    <3>3. QED
      BY <3>1, <3>2, SMT DEF SomeServer
  <2>8. nservers' = nservers
    BY <1>2 DEF Select
  <2>1. rr' \in (-IntMax - 1) .. IntMax
    BY <1>2, NextRRInRange, Zenon DEF Select
  <2>2. \E i \in 0 .. nservers - 1 : target' = [target EXCEPT ![c] = i]
    <3>1. CASE sel_mode = "ROUND_ROBIN"
      <4>1. rr' = NextRR /\ target' = [target EXCEPT ![c] = Index(rr')]
        BY <1>2, <3>1, Zenon DEF Select
      <4>2. NextRR \in Int
        BY NextRRInRange, Zenon
      <4>3. Index(NextRR) \in 0 .. nservers - 1
        BY <2>7, <4>2, IndexInRange
      <4>4. QED
        BY <4>1, <4>3, Zenon
    <3>2. CASE sel_mode = "RANDOM"
      BY <1>2, <3>2, Zenon DEF Select
    <3>3. QED
      BY <3>1, <3>2, Zenon
  <2>3. client' \in [Clients -> ClientPC]
    BY <1>2, Zenon DEF Select
  <2>4. target' \in [Clients -> (0 .. nservers - 1) \cup {NoServer}]
    BY <2>2, Zenon
  <2>5. Selected'
    <3>1. target'[c] \in 0 .. nservers - 1
      BY <2>2, Zenon
    <3>2. \A d \in Clients \ {c} : client'[d] = client[d] /\ target'[d] = target[d]
      BY <1>2, <2>2, Zenon DEF Select
    <3>3. QED
      BY <2>8, <3>1, <3>2, Zenon
  <2>6. QED
    BY <1>2, <2>1, <2>3, <2>4, <2>5, <2>8, Zenon DEF Select
<1>12. ASSUME NEW c \in Clients, DivideByZero(c) PROVE TypeOK' /\ Selected'
  BY <1>12, Zenon DEF DivideByZero
<1>3. ASSUME NEW c \in Clients, GiveUp(c) PROVE TypeOK' /\ Selected'
  BY <1>3, Zenon DEF GiveUp
<1>4. ASSUME NEW c \in Clients, SendFails(c) PROVE TypeOK' /\ Selected'
  BY <1>4, Zenon DEF SendFails
<1>5. ASSUME NEW c \in Clients, Receive(c) PROVE TypeOK' /\ Selected'
  BY <1>5, SMT DEF Receive, Datagram
<1>6. ASSUME NEW c \in Clients, NoAnswerInTime(c) PROVE TypeOK' /\ Selected'
  <2>1. Incremented(attempts[c]) \in (-ShortMax - 1) .. ShortMax
    BY ShortAssumption, SMT DEF Incremented
  <2>2. attempts' \in [Clients -> (-ShortMax - 1) .. ShortMax]
    BY <1>6, <2>1, Zenon DEF NoAnswerInTime
  <2>3. arriving' \in [Clients -> SUBSET Datagram]
    BY <1>6, Zenon DEF NoAnswerInTime
  <2>4. QED
    BY <1>6, <2>2, <2>3, Zenon DEF NoAnswerInTime
<1>7. ASSUME NEW c \in Clients, Sent(c)
      PROVE  /\ client' \in [Clients -> ClientPC]
             /\ Selected'
             /\ tried' \in [Clients -> Seq(0 .. nservers - 1)]
  <2>1. target[c] \in 0 .. nservers - 1
    BY <1>7 DEF Sent
  <2>2. QED
    BY <1>7, <2>1, SMT DEF Sent
<1>8. ASSUME NEW c \in Clients, SendUnanswered(c) PROVE TypeOK' /\ Selected'
  BY <1>7, <1>8, Zenon DEF SendUnanswered, Sent
<1>9. ASSUME NEW c \in Clients, NEW a \in Answers, SendAnswered(c, a) PROVE TypeOK' /\ Selected'
  <2>1. [answer |-> a, nth |-> Len(tried[c])] \in Datagram
    BY SMT DEF Datagram
  <2>2. arriving' \in [Clients -> SUBSET Datagram]
    BY <1>9, <2>1, SMT DEF SendAnswered
  <2>3. QED
    BY <1>7, <1>9, <2>2, Zenon DEF SendAnswered, Sent
<1>10. CASE UNCHANGED clientVars
  BY <1>10, Zenon DEF clientVars
<1>11. QED
  BY <1>1, <1>2, <1>3, <1>4, <1>5, <1>6, <1>8, <1>9, <1>10, <1>12
     DEF Action, ClientStep

\* So every step keeps the invariant.
LEMMA InvarianceStep ==
  ASSUME ResendAttempts < ShortMax, IInv, [Action]_clientVars
  PROVE  IInv'
<1>1. Counted' /\ AttemptsExact' /\ TypeOK' /\ Selected'
  BY CountKept, TypeKept
<1>2. QED
  BY <1>1 DEF IInv

\* Every reachable state satisfies the invariant.
LEMMA Invariance == ASSUME ResendAttempts < ShortMax PROVE Spec => []IInv
<1>1. ClientInit => IInv
  BY InitInv
<1>2. IInv /\ [Next]_clientVars => IInv'
  <2>1. [Next]_clientVars => [Action]_clientVars
    BY DEF Next, Action
  <2>2. QED
    BY <2>1, InvarianceStep
<1>3. QED
  BY <1>1, <1>2, PTL DEF Spec
-------------------------------------------------------------------------------
(* The turn.  Modulo the number of servers, the conversion of rr_ to 64 bits adds 2^64 to *)
(* a negative value, and a wrap of the counter takes 2^32 away.                           *)

Congruent(x, y) == \E k \in Int : x = y + k * nservers

\* Congruence is what it should be.
LEMMA CongruentSym ==
  ASSUME SomeServer, NEW x \in Int, NEW y \in Int, Congruent(x, y) PROVE Congruent(y, x)
<1>1. PICK k \in Int : x = y + k * nservers
  BY DEF Congruent
<1>2. y = x + (-k) * nservers /\ -k \in Int
  BY <1>1, SMT DEF SomeServer
<1>3. QED
  BY <1>2 DEF Congruent

LEMMA CongruentTrans ==
  ASSUME SomeServer, NEW x \in Int, NEW y \in Int, NEW z \in Int, Congruent(x, y), Congruent(y, z)
  PROVE  Congruent(x, z)
<1>1. PICK k \in Int : x = y + k * nservers
  BY DEF Congruent
<1>2. PICK l \in Int : y = z + l * nservers
  BY DEF Congruent
<1>3. x = z + (k + l) * nservers /\ k + l \in Int
  BY <1>1, <1>2, SMT DEF SomeServer
<1>4. QED
  BY <1>3 DEF Congruent

\* A number and its remainder.
LEMMA CongruentMod ==
  ASSUME SomeServer, NEW x \in Int
  PROVE  x % nservers \in 0 .. nservers - 1 /\ Congruent(x, x % nservers)
<1>1. x % nservers \in 0 .. nservers - 1
  BY SMT DEF SomeServer
<1>2. x = (x % nservers) + (x \div nservers) * nservers /\ x \div nservers \in Int
  BY SMT DEF SomeServer
<1>3. QED
  BY <1>1, <1>2 DEF Congruent

\* There is one server for each remainder.
LEMMA CongruentUnique ==
  ASSUME SomeServer, NEW x \in 0 .. nservers - 1, NEW y \in 0 .. nservers - 1, Congruent(x, y)
  PROVE  x = y
<1>1. PICK k \in Int : x = y + k * nservers
  BY DEF Congruent
<1>2. nservers \in Nat /\ nservers > 0
  BY DEF SomeServer
<1>3. ASSUME k >= 1 PROVE FALSE
  <2>1. k * nservers >= nservers
    BY <1>2, <1>3, SMT
  <2>2. QED
    BY <1>1, <1>2, <2>1, SMT
<1>4. ASSUME k <= -1 PROVE FALSE
  <2>1. k * nservers <= -nservers
    BY <1>2, <1>4, SMT
  <2>2. QED
    BY <1>1, <1>2, <2>1, SMT
<1>5. k = 0
  BY <1>3, <1>4, SMT
<1>6. QED
  BY <1>1, <1>2, <1>5, SMT

\* TwoTo32 is 2^32 modulo the number of servers.
LEMMA TwoTo32Congruent ==
  ASSUME SomeServer
  PROVE  TwoTo32 \in 0 .. nservers - 1 /\ Congruent(2 * (IntMax + 1), TwoTo32)
<1> DEFINE m == 65536 % nservers
           w == 2 * (IntMax + 1)
<1>1. nservers \in Nat /\ nservers > 0
  BY DEF SomeServer
<1>2. PICK q \in Int : 65536 = m + q * nservers
  BY CongruentMod DEF Congruent
<1>3. m \in Int
  BY <1>1, SMT
<1>4. w = 65536 * 65536 /\ w \in Int
  BY SMT DEF IntMax
<1>5. TwoTo32 = (m * m) % nservers
  BY DEF TwoTo32, Square
<1> HIDE DEF m, w
<1>6. Congruent(w, m * m)
  <2>1. w = (m + q * nservers) * (m + q * nservers)
    BY <1>2, <1>4
  <2>2. w = m * m + (2 * m * q + q * q * nservers) * nservers
    BY <1>1, <1>3, <2>1, SMT
  <2>3. 2 * m * q + q * q * nservers \in Int
    BY <1>1, <1>3, SMT
  <2>4. QED
    BY <2>2, <2>3 DEF Congruent
<1>7. m * m \in Int
  BY <1>3, SMT
<1>8. TwoTo32 \in 0 .. nservers - 1 /\ Congruent(m * m, TwoTo32)
  BY <1>5, <1>7, CongruentMod
<1>9. TwoTo32 \in Int
  BY <1>1, <1>8, SMT
<1>10. Congruent(w, TwoTo32)
  BY <1>4, <1>6, <1>7, <1>8, <1>9, CongruentTrans
<1>11. QED
  BY <1>8, <1>10 DEF w

\* If 2^32 is a multiple of the number of servers, so is 2^64.
LEMMA TwoTo64Vanishes == ASSUME SomeServer, TwoTo32 = 0 PROVE TwoTo64 = 0
<1>1. TwoTo64 = (0 * 0) % nservers
  BY DEF TwoTo64, Square
<1>2. QED
  BY <1>1, SMT DEF SomeServer

\* What the conversion of rr_ adds to it.
Carry(r) == IF r >= 0 THEN 0 ELSE TwoTo64

\* So the index is the remainder of rr_ and that.
LEMMA IndexCongruent ==
  ASSUME SomeServer, NEW r \in Int
  PROVE  Carry(r) \in Int /\ Congruent(r + Carry(r), Index(r))
<1>1. r % nservers \in 0 .. nservers - 1 /\ Congruent(r, r % nservers)
  BY CongruentMod
<1>2. CASE r >= 0
  <2>1. Carry(r) = 0 /\ Index(r) = r % nservers /\ r + 0 = r
    BY <1>2, SMT DEF Carry, Index
  <2>2. QED
    BY <1>1, <2>1
<1>3. CASE ~(r >= 0)
  <2> DEFINE y == r % nservers
             z == TwoTo64
  <2>1. y \in Int
    BY <1>1, SMT DEF SomeServer
  <2>2. z \in Int
    <3>1. TwoTo32 * TwoTo32 \in Int
      BY TwoTo32Congruent, SMT DEF SomeServer
    <3>2. z = (TwoTo32 * TwoTo32) % nservers
      BY DEF TwoTo64, Square
    <3> HIDE DEF z
    <3>3. z \in 0 .. nservers - 1
      BY <3>1, <3>2, CongruentMod
    <3>4. QED
      BY <3>3, SMT DEF SomeServer
  <2>3. Index(r) = (y + z) % nservers /\ Carry(r) = z
    BY <1>3 DEF Index, Carry
  <2>4. Congruent(r, y)
    BY <1>1
  <2> HIDE DEF y, z
  <2>5. PICK k \in Int : r = y + k * nservers
    BY <2>4 DEF Congruent
  <2>6. r + z = (y + z) + k * nservers
    BY <2>1, <2>2, <2>5, SMT DEF SomeServer
  <2>7. Congruent(r + z, y + z)
    BY <2>6 DEF Congruent
  <2>8. y + z \in Int /\ r + z \in Int
    BY <2>1, <2>2, SMT
  <2>9. (y + z) % nservers \in 0 .. nservers - 1 /\ Congruent(y + z, (y + z) % nservers)
    BY <2>8, CongruentMod
  <2>10. (y + z) % nservers \in Int
    BY <2>9, SMT DEF SomeServer
  <2>11. QED
    BY <2>2, <2>3, <2>7, <2>8, <2>9, <2>10, CongruentTrans
<1>4. QED
  BY <1>2, <1>3

\* ++rr_ changes what the index is the remainder of by one, up to a multiple of the number
\* of servers, where the sign stays, and everywhere if 2^32 is such a multiple.
LEMMA NextCongruent ==
  ASSUME SomeServer, rr \in (-IntMax - 1) .. IntMax,
         ~(rr \in {IntMax, -1} /\ TwoTo32 # 0)
  PROVE  Congruent(NextRR + Carry(NextRR), (rr + Carry(rr)) + 1)
<1>1. rr \in Int /\ NextRR \in Int
  BY IntMaxPositive, NextRRInRange, SMT
<1>2. Carry(rr) \in Int /\ Carry(NextRR) \in Int
  BY <1>1, IndexCongruent
<1>3. CASE rr \notin {IntMax, -1}
  <2>1. NextRR = rr + 1
    BY <1>3 DEF NextRR
  <2>2. rr >= 0 <=> rr + 1 >= 0
    BY <1>1, <1>3, SMT
  <2>3. Carry(NextRR) = Carry(rr)
    BY <2>1, <2>2 DEF Carry
  <2>4. NextRR + Carry(NextRR) = ((rr + Carry(rr)) + 1) + 0 * nservers
    BY <1>1, <1>2, <2>1, <2>3, SMT DEF SomeServer
  <2>5. QED
    BY <2>4 DEF Congruent
<1>4. CASE TwoTo32 = 0
  <2>1. Carry(rr) = 0 /\ Carry(NextRR) = 0
    BY <1>4, TwoTo64Vanishes DEF Carry
  <2>2. CASE rr = IntMax
    <3>1. PICK k \in Int : 2 * (IntMax + 1) = 0 + k * nservers
      BY <1>4, TwoTo32Congruent DEF Congruent
    <3>2. NextRR = -IntMax - 1
      BY <2>2 DEF NextRR
    <3>3. NextRR + 0 = ((rr + 0) + 1) + (-k) * nservers /\ -k \in Int
      BY <2>2, <3>1, <3>2, IntMaxPositive, SMT DEF SomeServer
    <3>4. QED
      BY <2>1, <3>3 DEF Congruent
  <2>3. CASE rr # IntMax
    <3>1. NextRR + 0 = ((rr + 0) + 1) + 0 * nservers
      BY <1>1, <2>3, SMT DEF NextRR, SomeServer
    <3>2. QED
      BY <2>1, <3>1 DEF Congruent
  <2>4. QED
    BY <2>2, <2>3
<1>5. QED
  BY <1>3, <1>4

\* So ++rr_ selects the next server.
LEMMA NextIndex ==
  ASSUME SomeServer, rr \in (-IntMax - 1) .. IntMax,
         ~(rr \in {IntMax, -1} /\ TwoTo32 # 0)
  PROVE  Index(NextRR) = (Index(rr) + 1) % nservers
<1> DEFINE i == Index(rr)
           j == Index(NextRR)
           x == rr + Carry(rr)
           y == NextRR + Carry(NextRR)
<1>1. rr \in Int /\ NextRR \in Int
  BY IntMaxPositive, NextRRInRange, SMT
<1>2. Congruent(y, x + 1)
  BY NextCongruent
<1>3. /\ i \in 0 .. nservers - 1 /\ j \in 0 .. nservers - 1
      /\ Congruent(x, i) /\ Congruent(y, j)
  BY <1>1, IndexInRange, IndexCongruent
<1>12. x \in Int /\ y \in Int
  BY <1>1, IndexCongruent, SMT
<1> HIDE DEF i, j, x, y
<1>4. i \in Int /\ j \in Int /\ i + 1 \in Int
  BY <1>3, SMT DEF SomeServer
<1>5. /\ (i + 1) % nservers \in 0 .. nservers - 1
      /\ Congruent(i + 1, (i + 1) % nservers)
  BY <1>4, CongruentMod
<1>6. (i + 1) % nservers \in Int /\ x + 1 \in Int
  BY <1>5, <1>12, SMT DEF SomeServer
<1>7. Congruent(x + 1, i + 1)
  <2>1. PICK k \in Int : x = i + k * nservers
    BY <1>3 DEF Congruent
  <2>2. x + 1 = (i + 1) + k * nservers
    BY <1>4, <1>12, <2>1, SMT DEF SomeServer
  <2>3. QED
    BY <2>2 DEF Congruent
<1>8. Congruent(j, x + 1)
  BY <1>2, <1>3, <1>4, <1>6, <1>12, CongruentSym, CongruentTrans
<1>9. Congruent(x + 1, (i + 1) % nservers)
  BY <1>4, <1>5, <1>6, <1>7, CongruentTrans
<1>10. Congruent(j, (i + 1) % nservers)
  BY <1>4, <1>6, <1>8, <1>9, CongruentTrans
<1>11. j = (i + 1) % nservers
  BY <1>3, <1>5, <1>10, CongruentUnique
<1>13. QED
  BY <1>11 DEF i, j
-------------------------------------------------------------------------------
(* The theorems.  `resend-attempts 32767`, which the configuration allows, is excluded:   *)
(* attempts++ then wraps before the loop ends (run DNSClientResend).                      *)

\* attempts never wraps and rr_ stays an int.  A server that is selected, also with a
\* negative rr_, is an entry of dns_servers_; if there is none, none is: the process dies
\* first.
THEOREM ClientTypeCorrect ==
  ASSUME ResendAttempts < ShortMax PROVE Spec => []TypeOK
<1>1. IInv => TypeOK
  BY DEF IInv
<1>2. QED
  BY <1>1, Invariance, PTL

\* sendQuery() asks ResendAttempts + 1 times at most, and gives up only after exactly
\* that many, whatever the network does and however many clients share rr_.
THEOREM AttemptsCounted ==
  ASSUME ResendAttempts < ShortMax PROVE Spec => []AttemptsExact
<1>1. IInv => AttemptsExact
  BY DEF IInv
<1>2. QED
  BY <1>1, Invariance, PTL

\* Round-robin takes the servers in turn, whichever client selects, for any number of
\* servers: only where rr_ changes its sign may the turn jump, and not even there if the
\* number of servers divides 2^32.
THEOREM ServersInTurn ==
  ASSUME ResendAttempts < ShortMax PROVE Spec => InTurn
<1> DEFINE TurnStep ==
      \A c \in Clients :
        (sel_mode = "ROUND_ROBIN" /\ client[c] = "select" /\ client'[c] = "send")
          => \/ target'[c] = (Index(rr) + 1) % nservers
             \/ rr \in {IntMax, -1} /\ TwoTo32 # 0
<1>1. IInv /\ [Next]_clientVars => [TurnStep]_clientVars
  <2> SUFFICES ASSUME IInv, [Next]_clientVars, NEW c \in Clients,
                      sel_mode = "ROUND_ROBIN", client[c] = "select", client'[c] = "send",
                      ~(rr \in {IntMax, -1} /\ TwoTo32 # 0)
               PROVE  target'[c] = (Index(rr) + 1) % nservers
    OBVIOUS
  <2> USE DEF IInv, TypeOK
  <2>1. Select(c)
    <3>1. PICK d \in Clients :
            SendQuery(d) \/ Select(d) \/ DivideByZero(d) \/ GiveUp(d) \/ SendFails(d) \/ Sent(d)
              \/ NoAnswerInTime(d) \/ Receive(d)
      BY DEF Next, ClientStep, SendUnanswered, SendAnswered, clientVars
    <3>2. CASE d # c
      BY <3>1, <3>2, Zenon
         DEF SendQuery, Select, DivideByZero, GiveUp, SendFails, Sent, NoAnswerInTime, Receive
    <3>3. CASE d = c
      BY <3>1, <3>3
         DEF SendQuery, Select, DivideByZero, GiveUp, SendFails, Sent, NoAnswerInTime, Receive
    <3>4. QED
      BY <3>2, <3>3
  <2>2. target'[c] = Index(NextRR)
    BY <2>1, Zenon DEF Select
  <2>3. SomeServer
    <3>1. nservers \in Nat
      BY ServersAssumption, Zenon
    <3>2. nservers # 0
      BY <2>1 DEF Select
    <3>3. QED
      BY <3>1, <3>2, SMT DEF SomeServer
  <2>4. QED
    BY <2>2, <2>3, NextIndex
<1>2. QED
  BY <1>1, Invariance, PTL DEF Spec, InTurn
===============================================================================
