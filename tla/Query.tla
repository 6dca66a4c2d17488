--------------------------------- MODULE Query ---------------------------------
(***************************************************************************)
(* Query::operator() (src/mtd64-ng/query.cpp): what a worker does with one *)
(* client datagram.  It forwards the question; when an AAAA question gets  *)
(* no AAAA record, and not NXDOMAIN, it overwrites the question type in    *)
(* the client's packet with A, asks again through the same DNSClient, and  *)
(* turns the A records of that answer into synthesized AAAA records.       *)
(*                                                                         *)
(* A packet is abstracted to its question type, its response code, the     *)
(* types of its answer records and how it parses.  The name servers        *)
(* (external) answer truthfully about the name, or with SERVFAIL, and an   *)
(* answer may not parse: malformed, or cut to response_maxlength_.         *)
(***************************************************************************)
EXTENDS Integers, Sequences

CONSTANTS Queries,
          Requests,         \* the client datagrams that are considered
          ServerCounts, ResendAttempts, ShortMax, StartRR,   \* see DNSClient
          NoAnswer, NoServer, NoReply

Types == {"A", "AAAA"}

\* A client datagram: whether it is a standard query, the type it asks for,
\* whether DNSPacket can parse it, and what there is under the name.
ClientDatagrams == [query : BOOLEAN, qtype : Types, parses : BOOLEAN,
                    name : {"dual", "v4only", "nxdomain"}]

ASSUME RequestsAssumption == Requests \subseteq ClientDatagrams

\* How an answer parses: it is refused ("broken"); it is accepted and has no room
\* left in the buffer for longer rdata ("full"); or it has ("ok").
AllAnswers == [question : Types, rcode : {"NoError", "NXDomain", "ServFail"},
               records : SUBSET Types, form : {"ok", "full", "broken"}]

ASSUME NoAnswerAssumption == NoAnswer \notin AllAnswers

AllReplies == [question : Types, rcode : {"NoError", "NXDomain", "ServFail"},
               records : SUBSET {"A", "AAAA", "synthesized"}]

VARIABLES
  sel_mode, nservers, rr, client, attempts, target, arriving, answer, tried,  \* DNSClient
  request,    \* the datagram of each Query, as received
  question,   \* the question type in its buffer data_ now
  pc,         \* where operator() is
  reply,      \* what was sent to the client
  first       \* history: the answer to the first sendQuery(), and its attempts

clientVars == <<sel_mode, nservers, rr, client, attempts, target, arriving, answer, tried>>
queryVars == <<request, question, pc, reply, first>>
vars == <<clientVars, queryVars>>

Client == INSTANCE DNSClient WITH Clients <- Queries, Answers <- AllAnswers

ASSUME ParametersAssumption ==
  Client!ServersAssumption /\ Client!ShortAssumption /\ Client!ValuesAssumption

QueryPC == {"start", "forward", "lookup", "done"}

TypeOK ==
  /\ Client!TypeOK
  /\ request \in [Queries -> Requests]
  /\ question \in [Queries -> Types]
  /\ pc \in [Queries -> QueryPC]
  /\ reply \in [Queries -> AllReplies \cup {NoReply}]
  /\ first \in [Queries -> [answer : AllAnswers \cup {NoAnswer}, sent : Nat]]

Init ==
  /\ Client!ClientInit
  /\ request \in [Queries -> Requests]
  /\ question = [q \in Queries |-> request[q].qtype]
  /\ pc = [q \in Queries |-> "start"]
  /\ reply = [q \in Queries |-> NoReply]
  /\ first = [q \in Queries |-> [answer |-> NoAnswer, sent |-> 0]]
-------------------------------------------------------------------------------
(* The name servers *)

RecordsOf(name, type) ==
  CASE name = "dual" -> {type}
    [] name = "v4only" -> {type} \cap {"A"}
    [] name = "nxdomain" -> {}

\* The truth about the name, in any form, or a failure.
AnswersTo(q) ==
  LET truth == [question |-> question[q],
                rcode |-> IF request[q].name = "nxdomain" THEN "NXDomain" ELSE "NoError",
                records |-> RecordsOf(request[q].name, question[q]),
                form |-> "ok"]
  IN  {truth, [truth EXCEPT !.form = "full"], [truth EXCEPT !.form = "broken"],
       [truth EXCEPT !.rcode = "ServFail", !.records = {}]}
-------------------------------------------------------------------------------
(* operator() *)

\* The DNSClient is destroyed: its socket and what is in it are gone.
Return(q) ==
  /\ pc' = [pc EXCEPT ![q] = "done"]
  /\ client' = [client EXCEPT ![q] = "idle"]
  /\ arriving' = [arriving EXCEPT ![q] = {}]
  /\ UNCHANGED <<sel_mode, nservers, rr, attempts, target, answer, tried, request, question>>

\* A response, or another opcode, is dropped. The constructor of the DNSClient
\* may throw.
Drop(q) ==
  /\ pc[q] = "start"
  /\ Return(q)
  /\ UNCHANGED <<reply, first>>

\* s->sendQuery(data_, ...)
Forward(q) ==
  /\ pc[q] = "start"
  /\ request[q].query
  /\ Client!SendQuery(q)
  /\ pc' = [pc EXCEPT ![q] = "forward"]
  /\ UNCHANGED <<request, question, reply, first>>

InSendQuery(q) == pc[q] \in {"forward", "lookup"}

\* Bug: sendQuery() is called until there is an answer.
NoAnswerReceivedRetrying(q) ==
  /\ InSendQuery(q)
  /\ client[q] \in {"failed", "threw"}
  /\ client' = [client EXCEPT ![q] = "idle"]
  /\ pc' = [pc EXCEPT ![q] = "start"]
  /\ UNCHANGED <<sel_mode, nservers, rr, attempts, target, arriving, answer, tried,
                 request, question, reply, first>>

\* sendQuery() returned -1 or threw.
NoAnswerReceived(q) ==
  /\ InSendQuery(q)
  /\ client[q] \in {"failed", "threw"}
  /\ Return(q)
  /\ UNCHANGED <<reply, first>>

Answered(q, stage) == pc[q] = stage /\ client[q] = "answered"

Remember(q) ==
  first' = [first EXCEPT ![q] = [answer |-> answer[q], sent |-> Len(tried[q])]]

\* Bug: the AAAA records of the answer are not looked for.
SynthesizesAlways(a) == a.question = "AAAA" /\ a.rcode # "NXDomain"

\* Bug: NXDOMAIN is not looked for.
SynthesizesDespiteNXDomain(a) == a.question = "AAAA" /\ "AAAA" \notin a.records

\* The condition of the if: the answer's question, its code and its records.
Synthesizes(a) ==
  /\ a.question = "AAAA"
  /\ a.rcode # "NXDomain"
  /\ "AAAA" \notin a.records

\* sendto() to the client may fail: that is logged.
Respond(q, r) == reply' \in {reply, [reply EXCEPT ![q] = r]}

\* The packet does not parse: the exception is logged.
RefuseFirst(q) ==
  /\ Answered(q, "forward")
  /\ \/ answer[q].form = "broken"
     \/ Synthesizes(answer[q]) /\ ~request[q].parses
  /\ Return(q)
  /\ Remember(q)
  /\ UNCHANGED reply

\* Any other answer goes to the client as it is.
PassOn(q) ==
  /\ Answered(q, "forward")
  /\ answer[q].form # "broken"
  /\ ~Synthesizes(answer[q])
  /\ Respond(q, [question |-> answer[q].question, rcode |-> answer[q].rcode,
                 records |-> answer[q].records])
  /\ Return(q)
  /\ Remember(q)

\* Bug: the question type is overwritten with another type than A.
LookUpOtherType(q) ==
  /\ Answered(q, "forward")
  /\ answer[q].form # "broken"
  /\ Synthesizes(answer[q])
  /\ request[q].parses
  /\ question' = [question EXCEPT ![q] = "A6"]
  /\ Client!SendQuery(q)
  /\ pc' = [pc EXCEPT ![q] = "lookup"]
  /\ Remember(q)
  /\ UNCHANGED <<request, reply>>

\* Bug: the question type is not overwritten.
LookUpSameType(q) ==
  /\ Answered(q, "forward")
  /\ answer[q].form # "broken"
  /\ Synthesizes(answer[q])
  /\ request[q].parses
  /\ Client!SendQuery(q)
  /\ pc' = [pc EXCEPT ![q] = "lookup"]
  /\ Remember(q)
  /\ UNCHANGED <<request, question, reply>>

\* qpacket.question_[0].qtype(A), in data_, and sendQuery() on the same socket.
LookUpA(q) ==
  /\ Answered(q, "forward")
  /\ answer[q].form # "broken"
  /\ Synthesizes(answer[q])
  /\ request[q].parses
  /\ question' = [question EXCEPT ![q] = "A"]
  /\ Client!SendQuery(q)
  /\ pc' = [pc EXCEPT ![q] = "lookup"]
  /\ Remember(q)
  /\ UNCHANGED <<request, reply>>

\* The packet does not parse, or rdata() finds no room for a longer address.
RefuseSecond(q) ==
  /\ Answered(q, "lookup")
  /\ \/ answer[q].form = "broken"
     \/ answer[q].form = "full" /\ "A" \in answer[q].records
  /\ Return(q)
  /\ UNCHANGED <<reply, first>>

\* Bug: the question of the A lookup is sent back.
SynthesizeKeepingQuestion(q) ==
  /\ Answered(q, "lookup")
  /\ answer[q].form = "ok" \/ (answer[q].form = "full" /\ "A" \notin answer[q].records)
  /\ Respond(q, [question |-> answer[q].question, rcode |-> answer[q].rcode,
                 records |-> {IF t = "A" THEN "synthesized" ELSE t : t \in answer[q].records}])
  /\ Return(q)
  /\ UNCHANGED first

\* The question becomes AAAA again and every A record a synthesized AAAA record.
Synthesize(q) ==
  /\ Answered(q, "lookup")
  /\ answer[q].form = "ok" \/ (answer[q].form = "full" /\ "A" \notin answer[q].records)
  /\ Respond(q, [question |-> "AAAA", rcode |-> answer[q].rcode,
                 records |-> {IF t = "A" THEN "synthesized" ELSE t : t \in answer[q].records}])
  /\ Return(q)
  /\ UNCHANGED first
-------------------------------------------------------------------------------
\* The loop of sendQuery(), which touches nothing but the client's state.
SendQueryStep(q) ==
  /\ InSendQuery(q)
  /\ Client!ClientStep(q)
  /\ UNCHANGED queryVars

Decide(q) ==
  \/ RefuseFirst(q)
  \/ PassOn(q)
  \/ LookUpA(q)
  \/ RefuseSecond(q)
  \/ Synthesize(q)

QueryStep(q) ==
  \/ Drop(q)
  \/ Forward(q)
  \/ SendQueryStep(q)
  \/ NoAnswerReceived(q)
  \/ Decide(q)

\* A name server answers; an answer is received.
NetworkStep(q) ==
  /\ InSendQuery(q)
  /\ \/ \E a \in AnswersTo(q) : Client!SendAnswered(q, a)
     \/ Client!Receive(q)
  /\ UNCHANGED queryVars

Next ==
  /\ Client!Alive
  /\ \E q \in Queries : QueryStep(q) \/ NetworkStep(q)

Spec == Init /\ [][Next]_vars

\* Workers are scheduled; a wait for an answer ends with the timeout.
Fairness == \A q \in Queries : WF_vars(Client!Alive /\ QueryStep(q))

FairSpec == Spec /\ Fairness
-------------------------------------------------------------------------------
(* Properties *)

\* The client gets an answer to the question it asked, though its packet was
\* overwritten and another question answered in between, and no A record in an
\* answer to an AAAA question.
AnswersTheQuestionAsked ==
  \A q \in Queries : reply[q] # NoReply =>
    /\ reply[q].question = request[q].qtype
    /\ request[q].qtype = "AAAA" => "A" \notin reply[q].records

\* Native AAAA records and NXDOMAIN are never replaced: what is synthesized
\* follows an answer to the AAAA question that had neither, and a name with AAAA
\* records gets synthesized ones only if a server failed.
NativeFirst ==
  \A q \in Queries : reply[q] # NoReply /\ "synthesized" \in reply[q].records =>
    /\ request[q].qtype = "AAAA"
    /\ first[q].answer.rcode # "NXDomain"
    /\ request[q].name = "dual" => first[q].answer.rcode = "ServFail"

\* What DNS64 makes of a name.
Expected(d) ==
  [question |-> d.qtype,
   rcode |-> IF d.name = "nxdomain" THEN "NXDomain" ELSE "NoError",
   records |-> IF d.qtype = "AAAA" /\ d.name = "v4only" THEN {"synthesized"}
               ELSE RecordsOf(d.name, d.qtype)]

\* If the question had to be sent once only, and no server failed, the client
\* gets what DNS64 makes of the name.  (After a resend it may not: see
\* AnswerMatchesQuery.)
ExpectedReply ==
  \A q \in Queries :
    /\ reply[q] # NoReply
    /\ first[q].sent = 1
    /\ first[q].answer.rcode # "ServFail" /\ answer[q].rcode # "ServFail"
    => reply[q] = Expected(request[q])

\* The refinement mapping to Dns64: the program counter says how far a question is.
Asked == [q \in Queries |-> [type |-> request[q].qtype, name |-> request[q].name]]

Stages == [q \in Queries |-> IF pc[q] = "lookup" THEN "noNative"
                             ELSE IF pc[q] = "done" THEN "closed" ELSE "asked"]

Failed == [q \in Queries |-> /\ first[q].answer # NoAnswer
                             /\ first[q].answer.rcode = "ServFail"]

\* What DNS64 promises, kept with lost, late and unreadable answers and failing servers:
\* whether a reply is native or synthesized is settled once and on the grounds that count,
\* and after the one reply, or none, nothing of the question is taken up again.
Promise == INSTANCE Dns64 WITH
  Questions <- Queries, asked <- Asked, stage <- Stages, failed <- Failed

ImplementsDns64 == Promise!Spec

\* A Query ends, whatever the servers do, if there is one to ask, and its worker takes the
\* next one.
QueryEnds ==
  \A q \in Queries : (pc[q] = "forward" /\ nservers # 0) ~> pc[q] = "done"

\* "Sends a DNS query, writes the response into the answer buffer": what
\* sendQuery() returns is an answer to the question it was given.
AnswerMatchesQuery ==
  \A q \in Queries :
    InSendQuery(q) /\ client[q] = "answered" => answer[q].question = question[q]
===============================================================================
