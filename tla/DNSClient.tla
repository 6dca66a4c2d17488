------------------------------ MODULE DNSClient -------------------------------
(***************************************************************************)
(* DNSClient::sendQuery() (src/mtd64-ng/dnsclient.cpp): each running Query *)
(* has a DNSClient with a UDP socket of its own and asks the name servers  *)
(* in turn until one answers in time.  All of them share Server::rr_, the  *)
(* counter of the round-robin selection.                                   *)
(*                                                                         *)
(* The name servers and the network are external: a question may be lost,  *)
(* ignored or answered; an answer may come at any time and in any order,   *)
(* also after the client has timed out, and stays in the socket until it   *)
(* is received.  No datagram is duplicated.                                *)
(***************************************************************************)
EXTENDS Integers, Sequences

CONSTANTS Clients,          \* the DNSClient of every running Query
          ServerCounts,     \* what dns_servers_.size() may be
          ResendAttempts,   \* resend_attempts_
          ShortMax,         \* the largest short int
          StartRR,          \* values rr_ may have had when the clients start
          Answers,          \* what a name server may answer
          NoAnswer,
          NoServer

IntMax == 2147483647

ASSUME ServersAssumption == ServerCounts \subseteq Nat

ASSUME ShortAssumption ==
  /\ ShortMax \in Nat
  /\ ResendAttempts \in 0 .. ShortMax

ASSUME ValuesAssumption ==
  /\ StartRR \subseteq (-IntMax - 1) .. IntMax
  /\ NoAnswer \notin Answers
  /\ NoServer \notin Nat

VARIABLES
  sel_mode,   \* Server::sel_mode_
  nservers,   \* dns_servers_.size(): 0 after a loadConfig() whose failure main() ignores
  rr,         \* Server::rr_
  client,     \* where each client is in sendQuery()
  attempts,   \* its local `attempts`
  target,     \* the server it selected last, as an index of dns_servers_
  arriving,   \* the answers on their way to its socket or in it
  answer,     \* its answer buffer
  tried       \* history: the servers this sendQuery() has asked, in order

clientVars == <<sel_mode, nservers, rr, client, attempts, target, arriving, answer, tried>>

ClientPC == {"idle",       \* no sendQuery() yet, or its result was used
             "select",     \* about to test attempts and select a server
             "send",       \* about to call sendto()
             "recv",       \* in recvfrom()
             "answered",   \* returned the length of the answer
             "failed",     \* returned -1
             "threw",      \* threw DNSClientException
             "died"}       \* divided by zero, and the process with it

\* An answer, and the how manieth question of a sendQuery() it is an answer to:
\* two equal answers are two datagrams.
Datagram == [answer : Answers, nth : Nat]

TypeOK ==
  /\ sel_mode \in {"ROUND_ROBIN", "RANDOM"}
  /\ nservers \in ServerCounts
  /\ rr \in (-IntMax - 1) .. IntMax
  /\ client \in [Clients -> ClientPC]
  /\ attempts \in [Clients -> (-ShortMax - 1) .. ShortMax]
  /\ target \in [Clients -> (0 .. nservers - 1) \cup {NoServer}]
  /\ arriving \in [Clients -> SUBSET Datagram]
  /\ answer \in [Clients -> Answers \cup {NoAnswer}]
  /\ tried \in [Clients -> Seq(0 .. nservers - 1)]

ClientInit ==
  /\ sel_mode \in {"ROUND_ROBIN", "RANDOM"}
  /\ nservers \in ServerCounts
  /\ rr \in StartRR
  /\ client = [c \in Clients |-> "idle"]
  /\ attempts = [c \in Clients |-> 0]
  /\ target = [c \in Clients |-> NoServer]
  /\ arriving = [c \in Clients |-> {}]
  /\ answer = [c \in Clients |-> NoAnswer]
  /\ tried = [c \in Clients |-> <<>>]
-------------------------------------------------------------------------------
\* attempts++ on a short int: the sum is an int, and is cut to 16 bits again.
Incremented(n) == IF n = ShortMax THEN -ShortMax - 1 ELSE n + 1

\* ++rr_ on an atomic<int>, which wraps.
NextRR == IF rr = IntMax THEN -IntMax - 1 ELSE rr + 1

\* 2^32 and 2^64 modulo the number of servers, without leaving 32 bits.
Square(x) == (x * x) % nservers
TwoTo32 == Square(65536 % nservers)
TwoTo64 == Square(TwoTo32)

\* Bug: the remainder of the signed counter.
IndexSigned(r) == IF r >= 0 THEN r % nservers ELSE -((nservers - (r % nservers)) % nservers)

\* rr_ % dns_servers_.size(): the int becomes a 64-bit size_t first.
Index(r) == IF r >= 0 THEN r % nservers ELSE ((r % nservers) + TwoTo64) % nservers

\* A call of sendQuery(): attempts = 0.
SendQuery(c) ==
  /\ client[c] \in {"idle", "answered"}
  /\ client' = [client EXCEPT ![c] = "select"]
  /\ attempts' = [attempts EXCEPT ![c] = 0]
  /\ tried' = [tried EXCEPT ![c] = <<>>]
  /\ UNCHANGED <<sel_mode, nservers, rr, target, arriving, answer>>

\* Bug: only the first attempt advances rr_.
SelectOncePerQuery(c) ==
  /\ client[c] = "select"
  /\ attempts[c] <= ResendAttempts
  /\ nservers # 0
  /\ rr' = IF sel_mode = "ROUND_ROBIN" /\ attempts[c] = 0 THEN NextRR ELSE rr
  /\ target' = [target EXCEPT ![c] = Index(rr')]
  /\ client' = [client EXCEPT ![c] = "send"]
  /\ UNCHANGED <<sel_mode, nservers, attempts, arriving, answer, tried>>

\* The loop condition holds: the next server in turn, or any (rand()).
Select(c) ==
  /\ client[c] = "select"
  /\ attempts[c] <= ResendAttempts
  /\ nservers # 0
  /\ \/ /\ sel_mode = "ROUND_ROBIN"
        /\ rr' = NextRR
        /\ target' = [target EXCEPT ![c] = Index(rr')]
     \/ /\ sel_mode = "RANDOM"
        /\ rr' = rr
        /\ \E s \in 0 .. nservers - 1 : target' = [target EXCEPT ![c] = s]
  /\ client' = [client EXCEPT ![c] = "send"]
  /\ UNCHANGED <<sel_mode, nservers, attempts, arriving, answer, tried>>

\* The remainder of a division by zero servers: the process is killed.
DivideByZero(c) ==
  /\ client[c] = "select"
  /\ attempts[c] <= ResendAttempts
  /\ nservers = 0
  /\ client' = [client EXCEPT ![c] = "died"]
  /\ UNCHANGED <<sel_mode, nservers, rr, attempts, target, arriving, answer, tried>>

\* Bug: the last attempt is not made.
GiveUpEarly(c) ==
  /\ client[c] = "select"
  /\ attempts[c] >= ResendAttempts
  /\ client' = [client EXCEPT ![c] = "failed"]
  /\ UNCHANGED <<sel_mode, nservers, rr, attempts, target, arriving, answer, tried>>

\* return -1 after the loop
GiveUp(c) ==
  /\ client[c] = "select"
  /\ attempts[c] > ResendAttempts
  /\ client' = [client EXCEPT ![c] = "failed"]
  /\ UNCHANGED <<sel_mode, nservers, rr, attempts, target, arriving, answer, tried>>

\* sendto() fails: throw.
SendFails(c) ==
  /\ client[c] = "send"
  /\ client' = [client EXCEPT ![c] = "threw"]
  /\ UNCHANGED <<sel_mode, nservers, rr, attempts, target, arriving, answer, tried>>

Sent(c) ==
  /\ client[c] = "send"
  /\ client' = [client EXCEPT ![c] = "recv"]
  /\ tried' = [tried EXCEPT ![c] = Append(@, target[c])]
  /\ UNCHANGED <<sel_mode, nservers, rr, attempts, target, answer>>

\* The question is lost, or its answer will be.
SendUnanswered(c) == Sent(c) /\ UNCHANGED arriving

\* The server answers a, sooner or later.
SendAnswered(c, a) ==
  /\ Sent(c)
  /\ arriving' = [arriving EXCEPT
                   ![c] = @ \cup {[answer |-> a, nth |-> Len(tried[c])]}]

\* recvfrom() returns the next datagram of the socket, whichever question it is
\* the answer to.
Receive(c) ==
  /\ client[c] = "recv"
  /\ \E d \in arriving[c] :
       /\ arriving' = [arriving EXCEPT ![c] = @ \ {d}]
       /\ answer' = [answer EXCEPT ![c] = d.answer]
  /\ client' = [client EXCEPT ![c] = "answered"]
  /\ UNCHANGED <<sel_mode, nservers, rr, attempts, target, tried>>

\* Bug: recvfrom() is called again when it times out, without a new question.
NoAnswerInTimeWaitingOn(c) ==
  /\ client[c] = "recv"
  /\ client' = client
  /\ UNCHANGED <<sel_mode, nservers, rr, attempts, target, arriving, answer, tried>>

\* recvfrom() fails or times out.  resp_len is not initialized: with a negative
\* value recvfrom() takes an answer from the socket and fails all the same.
NoAnswerInTime(c) ==
  /\ client[c] = "recv"
  /\ client' = [client EXCEPT ![c] = "select"]
  /\ attempts' = [attempts EXCEPT ![c] = Incremented(@)]
  /\ \/ arriving' = arriving
     \/ \E d \in arriving[c] : arriving' = [arriving EXCEPT ![c] = @ \ {d}]
  /\ UNCHANGED <<sel_mode, nservers, rr, target, answer, tried>>
-------------------------------------------------------------------------------
\* What a client does by itself: every wait ends with the timeout of the socket.
ClientStep(c) ==
  \/ Select(c)
  \/ DivideByZero(c)
  \/ GiveUp(c)
  \/ SendFails(c)
  \/ SendUnanswered(c)
  \/ NoAnswerInTime(c)

\* The clients are threads of one process.
Alive == \A c \in Clients : client[c] # "died"

\* Here every client makes one call.
Next ==
  /\ Alive
  /\ \E c \in Clients :
       \/ client[c] = "idle" /\ SendQuery(c)
       \/ ClientStep(c)
       \/ Receive(c)
       \/ \E a \in Answers : SendAnswered(c, a)

Spec == ClientInit /\ [][Next]_clientVars

\* Threads are scheduled and SO_RCVTIMEO is not zero.  An answer may never come.
Fairness == \A c \in Clients : WF_clientVars(Alive /\ ClientStep(c))

FairSpec == Spec /\ Fairness
-------------------------------------------------------------------------------
(* Properties *)

\* "How many times will the DNS server try to resend a DNS query message if there is no
\* answer": sendQuery() asks ResendAttempts + 1 times at most, and says that there is no
\* answer only after it has asked that often.
AttemptsExact ==
  \A c \in Clients :
    /\ Len(tried[c]) <= ResendAttempts + 1
    /\ client[c] = "failed" => Len(tried[c]) = ResendAttempts + 1

\* Round-robin: each selection, whichever client makes it, is the server after the one
\* selected before.  The counter wraps in turn only if the number of servers divides 2^32;
\* with any other number the turn may jump where rr_ becomes negative and where it is 0
\* again, and nowhere else.
InTurn ==
  [][\A c \in Clients :
       (sel_mode = "ROUND_ROBIN" /\ client[c] = "select" /\ client'[c] = "send")
         => \/ target'[c] = (Index(rr) + 1) % nservers
            \/ rr \in {IntMax, -1} /\ TwoTo32 # 0]_clientVars

\* sendQuery() ends, whatever the servers do, if there is one to ask.
SendQueryEnds ==
  \A c \in Clients :
    (client[c] = "select" /\ nservers # 0) ~> client[c] \in {"answered", "failed", "threw"}

\* "If one DNS server do not responds once, the next server will be used": a
\* client that asks again does not ask the server that has just not answered.
NextServerOnRetry ==
  sel_mode = "ROUND_ROBIN" =>
    \A c \in Clients : \A i \in 1 .. Len(tried[c]) - 1 : tried[c][i] # tried[c][i + 1]
===============================================================================
