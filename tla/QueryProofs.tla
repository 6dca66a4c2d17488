------------------------------ MODULE QueryProofs -----------------------------
(***************************************************************************)
(* Theorems about Query, for any set of concurrent queries, any requests,  *)
(* servers and resends, and any pattern of lost and late answers.          *)
(*                                                                         *)
(* What was sent to the client is right because of what is known before it *)
(* is sent.  IInv says that every answer in a socket is true of the name   *)
(* and answers one of the two questions this query has asked               *)
(* (TrueAnswers), and, at each point of operator(), which of them can have *)
(* been asked and what the first answer was like (Stage).                  *)
(*                                                                         *)
(* The socket is used for two questions with the same transaction id, and  *)
(* the code does not tell their answers apart.  It does not have to if the *)
(* first question was sent once: its only answer has then been received    *)
(* when the second is sent (Once), so whatever comes later answers that.   *)
(*                                                                         *)
(* The part of the state that belongs to the DNSClients is typed by        *)
(* DNSClientProofs: a step of a Query is one of its client's, or the end   *)
(* of the client, which leaves less to be said of it.                      *)
(***************************************************************************)
EXTENDS Query, TLAPS

P == INSTANCE DNSClientProofs WITH Clients <- Queries, Answers <- AllAnswers

\* The part of TypeOK the argument needs.
Shape ==
  /\ request \in [Queries -> Requests]
  /\ question \in [Queries -> Types]
  /\ pc \in [Queries -> QueryPC]
  /\ client \in [Queries -> Client!ClientPC]
  /\ arriving = [q \in Queries |-> arriving[q]]
  /\ answer = [q \in Queries |-> answer[q]]
  /\ reply = [q \in Queries |-> reply[q]]
  /\ first = [q \in Queries |-> first[q]]

\* An answer to a question of q that is true of the name, or a failure.
TrueAnswer(q, a) ==
  /\ a \in AllAnswers
  /\ a.question \in {request[q].qtype, question[q]}
  /\ \/ a.rcode = "ServFail" /\ a.records = {}
     \/ /\ a.rcode = IF request[q].name = "nxdomain" THEN "NXDomain" ELSE "NoError"
        /\ a.records = RecordsOf(request[q].name, a.question)

\* What is in the socket of q, and what it has just received.
TrueAnswers ==
  \A q \in Queries :
    /\ \A d \in arriving[q] : TrueAnswer(q, d.answer)
    /\ client[q] = "answered" => TrueAnswer(q, answer[q])

\* The first answer of a query that looks up A.
NoNativeFirst(q) ==
  /\ request[q].qtype = "AAAA"
  /\ first[q].answer.rcode # "NXDomain"
  /\ request[q].name = "dual" => first[q].answer.rcode = "ServFail"

Stage ==
  \A q \in Queries :
    /\ pc[q] # "done" => reply[q] = NoReply
    /\ pc[q] \in {"start", "forward"} => /\ question[q] = request[q].qtype
                                         /\ first[q].answer = NoAnswer
    /\ pc[q] = "lookup" => NoNativeFirst(q)

IInv == Shape /\ TrueAnswers /\ Stage /\ AnswersTheQuestionAsked /\ NativeFirst
-------------------------------------------------------------------------------
\* A query starts with its own question and an empty socket.
LEMMA InitInv == Init => IInv
<1> SUFFICES ASSUME Init PROVE IInv
  OBVIOUS
<1> USE DEF Init, Client!ClientInit
<1>1. Shape
  <2>1. question \in [Queries -> Types]
    BY RequestsAssumption DEF ClientDatagrams
  <2>2. QED
    BY <2>1 DEF Shape, QueryPC, Client!ClientPC
<1>2. TrueAnswers
  BY DEF TrueAnswers
<1>3. Stage
  BY DEF Stage
<1>4. AnswersTheQuestionAsked /\ NativeFirst
  BY DEF AnswersTheQuestionAsked, NativeFirst
<1>5. QED
  BY <1>1, <1>2, <1>3, <1>4 DEF IInv

\* What the servers hold are records of the type asked for.
LEMMA RecordsOfType ==
  ASSUME NEW d \in ClientDatagrams, NEW t \in Types
  PROVE  /\ RecordsOf(d.name, t) \subseteq {t}
         /\ d.name = "dual" => RecordsOf(d.name, t) = {t}
BY DEF ClientDatagrams, Types, RecordsOf

\* A server says what is true, or fails.
LEMMA AnswersAreTrue ==
  ASSUME Shape, NEW q \in Queries, NEW a \in AnswersTo(q) PROVE TrueAnswer(q, a)
<1> DEFINE truth == [question |-> question[q],
                     rcode |-> IF request[q].name = "nxdomain" THEN "NXDomain" ELSE "NoError",
                     records |-> RecordsOf(request[q].name, question[q]),
                     form |-> "ok"]
<1>1. a \in {truth, [truth EXCEPT !.form = "full"], [truth EXCEPT !.form = "broken"],
            [truth EXCEPT !.rcode = "ServFail", !.records = {}]}
  BY Zenon DEF AnswersTo
<1>2. truth \in AllAnswers /\ [truth EXCEPT !.form = "full"] \in AllAnswers
      /\ [truth EXCEPT !.form = "broken"] \in AllAnswers
      /\ [truth EXCEPT !.rcode = "ServFail", !.records = {}] \in AllAnswers
  <2>1. question[q] \in Types /\ request[q] \in ClientDatagrams
    BY RequestsAssumption DEF Shape
  <2>2. RecordsOf(request[q].name, question[q]) \subseteq {question[q]}
    BY <2>1, RecordsOfType
  <2>3. truth \in AllAnswers
    BY <2>1, <2>2 DEF AllAnswers
  <2> HIDE DEF truth
  <2>4. QED
    BY <2>3 DEF AllAnswers
<1>3. CASE a \in {truth, [truth EXCEPT !.form = "full"], [truth EXCEPT !.form = "broken"]}
  <2>1. a.question = question[q] /\ a.rcode = truth.rcode /\ a.records = truth.records
    BY <1>3
  <2>2. QED
    BY <1>1, <1>2, <2>1 DEF TrueAnswer
<1>4. CASE a = [truth EXCEPT !.rcode = "ServFail", !.records = {}]
  <2>1. a.question = question[q] /\ a.rcode = "ServFail" /\ a.records = {}
    BY <1>4
  <2>2. QED
    BY <1>1, <1>2, <2>1 DEF TrueAnswer
<1>5. QED
  BY <1>1, <1>3, <1>4

\* What an answer is worth depends on the questions only.
LEMMA TrueAnswersStay ==
  ASSUME TrueAnswers, request' = request, question' = question,
         \A p \in Queries : /\ arriving'[p] \subseteq arriving[p]
                            /\ client'[p] = "answered" =>
                                 client[p] = "answered" /\ answer'[p] = answer[p]
  PROVE  TrueAnswers'
<1> SUFFICES ASSUME NEW p \in Queries
             PROVE  /\ \A d \in arriving'[p] : TrueAnswer(p, d.answer)
                    /\ client'[p] = "answered" => TrueAnswer(p, answer'[p])
  BY SMT DEF TrueAnswers, TrueAnswer
<1>1. ASSUME NEW d \in arriving'[p] PROVE TrueAnswer(p, d.answer)
  BY Zenon DEF TrueAnswers
<1>2. ASSUME client'[p] = "answered" PROVE TrueAnswer(p, answer'[p])
  <2>1. client[p] = "answered" /\ answer'[p] = answer[p]
    BY <1>2
  <2>2. QED
    BY <2>1, Zenon DEF TrueAnswers
<1>3. QED
  BY <1>1, <1>2

\* The client's own steps leave everything else alone, and answers arrive or are
\* received, or are lost, as they were sent.
LEMMA ClientKeeps ==
  ASSUME IInv, NEW q \in Queries, UNCHANGED queryVars,
         \/ Client!ClientStep(q)
         \/ Client!Receive(q)
         \/ \E a \in AnswersTo(q) : Client!SendAnswered(q, a)
  PROVE  IInv'
<1> USE DEF IInv, queryVars
<1>1. \/ Client!Select(q) \/ Client!DivideByZero(q) \/ Client!GiveUp(q)
      \/ Client!SendFails(q) \/ Client!SendUnanswered(q)
      \/ Client!NoAnswerInTime(q) \/ Client!Receive(q)
      \/ \E a \in AnswersTo(q) : Client!SendAnswered(q, a)
  BY DEF Client!ClientStep
<1>2. Shape'
  <2> USE DEF Shape, Client!ClientPC
  <2>1. CASE Client!Select(q)
    BY <2>1, Zenon DEF Client!Select
  <2>2. CASE Client!GiveUp(q)
    BY <2>2, Zenon DEF Client!GiveUp
  <2>3. CASE Client!SendFails(q)
    BY <2>3, Zenon DEF Client!SendFails
  <2>4. CASE Client!SendUnanswered(q)
    BY <2>4, Zenon DEF Client!SendUnanswered, Client!Sent
  <2>5. CASE Client!NoAnswerInTime(q)
    BY <2>5, Zenon DEF Client!NoAnswerInTime
  <2>6. CASE Client!Receive(q)
    BY <2>6, Zenon DEF Client!Receive
  <2>9. CASE Client!DivideByZero(q)
    BY <2>9, Zenon DEF Client!DivideByZero
  <2>7. ASSUME NEW a \in AnswersTo(q), Client!SendAnswered(q, a) PROVE Shape'
    BY <2>7, Zenon DEF Client!SendAnswered, Client!Sent
  <2>8. QED
    BY <1>1, <2>1, <2>2, <2>3, <2>4, <2>5, <2>6, <2>7, <2>9
<1>3. TrueAnswers'
  <2> SUFFICES ASSUME NEW p \in Queries
               PROVE  /\ \A d \in arriving'[p] : TrueAnswer(p, d.answer)
                      /\ client'[p] = "answered" => TrueAnswer(p, answer'[p])
    <3>1. request' = request /\ question' = question
      OBVIOUS
    <3> HIDE DEF IInv, queryVars
    <3>2. QED
      BY <3>1, Zenon DEF TrueAnswers, TrueAnswer
  <2> USE DEF Shape, TrueAnswers
  <2>1. \/ /\ Client!Select(q) \/ Client!DivideByZero(q) \/ Client!GiveUp(q)
              \/ Client!SendFails(q) \/ Client!SendUnanswered(q) \/ Client!NoAnswerInTime(q)
           /\ arriving'[p] \subseteq arriving[p]
           /\ client'[p] = "answered" => client[p] = "answered" /\ answer'[p] = answer[p]
        \/ Client!Receive(q)
        \/ \E a \in AnswersTo(q) : Client!SendAnswered(q, a)
    <3>1. ASSUME client' = [client EXCEPT ![q] = "send"] \/ client' = [client EXCEPT ![q] = "failed"]
                   \/ client' = [client EXCEPT ![q] = "threw"] \/ client' = [client EXCEPT ![q] = "recv"]
                   \/ client' = [client EXCEPT ![q] = "select"]
                   \/ client' = [client EXCEPT ![q] = "died"],
                 answer' = answer
          PROVE  client'[p] = "answered" => client[p] = "answered" /\ answer'[p] = answer[p]
      BY <3>1
    <3>2. CASE Client!Select(q)
      BY <3>1, <3>2, Zenon DEF Client!Select
    <3>3. CASE Client!GiveUp(q)
      BY <3>1, <3>3, Zenon DEF Client!GiveUp
    <3>4. CASE Client!SendFails(q)
      BY <3>1, <3>4, Zenon DEF Client!SendFails
    <3>5. CASE Client!SendUnanswered(q)
      BY <3>1, <3>5, Zenon DEF Client!SendUnanswered, Client!Sent
    <3>6. CASE Client!NoAnswerInTime(q)
      <4>1. arriving'[p] \subseteq arriving[p]
        BY <3>6, Zenon DEF Client!NoAnswerInTime
      <4>2. QED
        BY <3>1, <3>6, <4>1, Zenon DEF Client!NoAnswerInTime
    <3>8. CASE Client!DivideByZero(q)
      BY <3>1, <3>8, Zenon DEF Client!DivideByZero
    <3>7. QED
      BY <1>1, <3>2, <3>3, <3>4, <3>5, <3>6, <3>8
  <2>2. CASE Client!Receive(q)
    <3>1. PICK d \in arriving[q] : /\ arriving' = [arriving EXCEPT ![q] = @ \ {d}]
                                   /\ answer' = [answer EXCEPT ![q] = d.answer]
      BY <2>2, Zenon DEF Client!Receive
    <3>2. client' = [client EXCEPT ![q] = "answered"]
      BY <2>2, Zenon DEF Client!Receive
    <3>3. QED
      BY <3>1, <3>2, Zenon
  <2>3. ASSUME NEW a \in AnswersTo(q), Client!SendAnswered(q, a)
        PROVE  /\ \A d \in arriving'[p] : TrueAnswer(p, d.answer)
               /\ client'[p] = "answered" => TrueAnswer(p, answer'[p])
    <3>1. /\ arriving' = [arriving EXCEPT
                          ![q] = @ \cup {[answer |-> a, nth |-> Len(tried[q])]}]
          /\ client' = [client EXCEPT ![q] = "recv"]
          /\ answer' = answer
      BY <2>3, Zenon DEF Client!SendAnswered, Client!Sent
    <3>2. TrueAnswer(q, a)
      BY AnswersAreTrue
    <3>3. CASE p = q
      <4>1. \A d \in arriving'[q] : d \in arriving[q] \/ d.answer = a
        BY <3>1
      <4>2. client'[q] # "answered"
        BY <3>1
      <4>3. QED
        BY <3>2, <3>3, <4>1, <4>2, Zenon
    <3>4. CASE p # q
      BY <3>1, <3>4, Zenon
    <3>5. QED
      BY <3>3, <3>4
  <2>4. QED
    BY <2>1, <2>2, <2>3, Zenon
<1>4. Stage' /\ AnswersTheQuestionAsked' /\ NativeFirst'
  BY Zenon DEF Stage, NoNativeFirst, AnswersTheQuestionAsked, NativeFirst
<1>5. QED
  BY <1>2, <1>3, <1>4

\* Whoever returns destroys the DNSClient and says no more.
LEMMA ReturnKeeps ==
  ASSUME IInv, NEW q \in Queries, Return(q), UNCHANGED <<reply, first>>
  PROVE  IInv'
<1> USE DEF IInv, Return
<1>1. Shape'
  BY Zenon DEF Shape, QueryPC, Client!ClientPC
<1>2. TrueAnswers'
  <2>1. \A p \in Queries : /\ arriving'[p] \subseteq arriving[p]
                           /\ client'[p] = "answered" => client[p] = "answered" /\ answer'[p] = answer[p]
    BY Zenon DEF Shape
  <2>2. request' = request /\ question' = question /\ TrueAnswers
    OBVIOUS
  <2>3. QED
    BY <2>1, <2>2, TrueAnswersStay, Zenon
<1>3. Stage'
  BY DEF Shape, Stage, NoNativeFirst
<1>4. AnswersTheQuestionAsked' /\ NativeFirst'
  BY Zenon DEF AnswersTheQuestionAsked, NativeFirst
<1>5. QED
  BY <1>1, <1>2, <1>3, <1>4

\* A call of sendQuery(), which leaves the answers in the socket where they are.
LEMMA ForwardKeeps ==
  ASSUME IInv, NEW q \in Queries, Forward(q)
  PROVE  IInv'
<1> USE DEF IInv, Forward, Client!SendQuery
<1>1. Shape'
  BY Zenon DEF Shape, QueryPC, Client!ClientPC
<1>2. TrueAnswers'
  <2>1. \A p \in Queries : /\ arriving'[p] \subseteq arriving[p]
                           /\ client'[p] = "answered" => client[p] = "answered" /\ answer'[p] = answer[p]
    BY Zenon DEF Shape
  <2>2. request' = request /\ question' = question /\ TrueAnswers
    OBVIOUS
  <2>3. QED
    BY <2>1, <2>2, TrueAnswersStay, Zenon
<1>3. Stage'
  BY DEF Shape, Stage, NoNativeFirst
<1>4. AnswersTheQuestionAsked' /\ NativeFirst'
  BY Zenon DEF AnswersTheQuestionAsked, NativeFirst
<1>5. QED
  BY <1>1, <1>2, <1>3, <1>4

\* What operator() knows of an answer it has before the lookup of A: it is the answer to
\* the client's question, true or a failure.
LEMMA FirstAnswer ==
  ASSUME IInv, NEW q \in Queries, Answered(q, "forward")
  PROVE  /\ TrueAnswer(q, answer[q])
         /\ answer[q].question = request[q].qtype
         /\ request[q] \in ClientDatagrams /\ request[q].qtype \in Types
         /\ reply[q] = NoReply
<1>1. pc[q] = "forward" /\ client[q] = "answered"
  BY DEF Answered
<1>2. TrueAnswer(q, answer[q]) /\ question[q] = request[q].qtype /\ reply[q] = NoReply
  BY <1>1 DEF IInv, TrueAnswers, Stage
<1>3. request[q] \in ClientDatagrams
  BY RequestsAssumption DEF IInv, Shape
<1>4. QED
  BY <1>2, <1>3 DEF TrueAnswer, ClientDatagrams

\* A first answer that is refused settles nothing: the client hears nothing.
LEMMA RefuseFirstKeeps ==
  ASSUME IInv, NEW q \in Queries, RefuseFirst(q)
  PROVE  IInv'
<1> USE DEF IInv, RefuseFirst, Return, Remember
<1>1. reply[q] = NoReply
  BY FirstAnswer
<1>2. Shape'
  BY Zenon DEF Shape, QueryPC, Client!ClientPC
<1>3. TrueAnswers'
  <2>1. \A p \in Queries : /\ arriving'[p] \subseteq arriving[p]
                           /\ client'[p] = "answered" => client[p] = "answered" /\ answer'[p] = answer[p]
    BY Zenon DEF Shape
  <2>2. request' = request /\ question' = question /\ TrueAnswers
    OBVIOUS
  <2>3. QED
    BY <2>1, <2>2, TrueAnswersStay, Zenon
<1>4. \A p \in Queries \ {q} : first'[p] = first[p] /\ pc'[p] = pc[p]
  BY Zenon DEF Shape
<1>5. pc'[q] = "done"
  BY Zenon DEF Shape
<1>6. Stage'
  <2>1. request' = request /\ question' = question /\ reply' = reply /\ Stage
    OBVIOUS
  <2> HIDE DEF IInv, RefuseFirst, Return, Remember
  <2>2. QED
    BY <1>4, <1>5, <2>1, Zenon DEF Stage, NoNativeFirst
<1>7. AnswersTheQuestionAsked'
  BY Zenon DEF AnswersTheQuestionAsked
<1>8. NativeFirst'
  <2>1. reply' = reply /\ request' = request
    OBVIOUS
  <2>2. \A p \in Queries : reply'[p] # NoReply => first'[p] = first[p]
    BY <1>1, <1>4, <2>1, Zenon
  <2>3. QED
    BY <2>1, <2>2, Zenon DEF NativeFirst
<1>9. QED
  BY <1>2, <1>3, <1>6, <1>7, <1>8

\* An answer passed on is native and to the question that was asked.
LEMMA PassOnKeeps ==
  ASSUME IInv, NEW q \in Queries, PassOn(q)
  PROVE  IInv'
<1> DEFINE r == [question |-> answer[q].question, rcode |-> answer[q].rcode,
                 records |-> answer[q].records]
<1> USE DEF IInv, PassOn, Return, Remember
<1>1. r.question = answer[q].question /\ r.records = answer[q].records
  OBVIOUS
<1>2. reply' \in {reply, [reply EXCEPT ![q] = r]}
  BY Zenon DEF Respond
<1> HIDE DEF r
<1>3. r.question = request[q].qtype /\ r.records \subseteq {r.question}
  <2>1. Answered(q, "forward")
    OBVIOUS
  <2>2. answer[q].records = {} \/ answer[q].records \subseteq {answer[q].question}
    <3>1. /\ request[q] \in ClientDatagrams /\ answer[q].question \in Types
          /\ TrueAnswer(q, answer[q])
      BY <2>1, FirstAnswer
    <3>2. RecordsOf(request[q].name, answer[q].question) \subseteq {answer[q].question}
      BY <3>1, RecordsOfType
    <3>3. QED
      BY <3>1, <3>2, Zenon DEF TrueAnswer
  <2>3. QED
    BY <1>1, <2>1, <2>2, FirstAnswer
<1>4. Shape'
  BY <1>2, Zenon DEF Shape, QueryPC, Client!ClientPC
<1>5. TrueAnswers'
  <2>1. \A p \in Queries : /\ arriving'[p] \subseteq arriving[p]
                           /\ client'[p] = "answered" => client[p] = "answered" /\ answer'[p] = answer[p]
    BY Zenon DEF Shape
  <2>2. request' = request /\ question' = question /\ TrueAnswers
    OBVIOUS
  <2>3. QED
    BY <2>1, <2>2, TrueAnswersStay, Zenon
<1>6. \A p \in Queries \ {q} : reply'[p] = reply[p] /\ first'[p] = first[p] /\ pc'[p] = pc[p]
  BY <1>2, Zenon DEF Shape
<1>7. reply'[q] \in {NoReply, r} /\ pc'[q] = "done"
  <2>1. reply[q] = NoReply
    BY FirstAnswer
  <2>2. QED
    BY <1>2, <2>1, Zenon DEF Shape
<1>8. Stage'
  <2>1. request' = request /\ question' = question /\ Stage
    OBVIOUS
  <2> HIDE DEF IInv, PassOn, Return, Remember
  <2>2. QED
    BY <1>6, <1>7, <2>1, Zenon DEF Stage, NoNativeFirst
<1>9. AnswersTheQuestionAsked'
  <2>1. request[q].qtype = "AAAA" => "A" \notin r.records
    BY <1>3
  <2>2. QED
    BY <1>3, <1>6, <1>7, <2>1, Zenon DEF AnswersTheQuestionAsked
<1>10. NativeFirst'
  <2>1. "synthesized" \notin r.records
    <3>1. Answered(q, "forward")
      OBVIOUS
    <3>2. request[q].qtype \in {"A", "AAAA"}
      BY <3>1, FirstAnswer DEF Types
    <3>3. QED
      BY <1>3, <3>2
  <2>2. QED
    BY <1>6, <1>7, <2>1, Zenon DEF NativeFirst
<1>11. QED
  BY <1>4, <1>5, <1>8, <1>9, <1>10

\* The lookup of A starts only where the name has no native records or a server failed.
LEMMA LookUpAKeeps ==
  ASSUME IInv, NEW q \in Queries, LookUpA(q)
  PROVE  IInv'
<1> USE DEF IInv, LookUpA, Client!SendQuery, Remember
<1>1. Answered(q, "forward")
  OBVIOUS
<1>2. /\ request[q].qtype = "AAAA"
      /\ answer[q].rcode # "NXDomain"
      /\ request[q].name = "dual" => answer[q].rcode = "ServFail"
  <2>1. /\ answer[q].question = "AAAA" /\ answer[q].rcode # "NXDomain"
        /\ "AAAA" \notin answer[q].records
    BY Zenon DEF Synthesizes
  <2>2. "AAAA" \in Types
    BY DEF Types
  <2>3. request[q].name = "dual" => RecordsOf(request[q].name, "AAAA") = {"AAAA"}
    BY <1>1, <2>2, FirstAnswer, RecordsOfType
  <2>4. QED
    BY <1>1, <2>1, <2>3, FirstAnswer DEF TrueAnswer
<1>3. Shape'
  <2>1. "A" \in Types /\ "lookup" \in QueryPC /\ "select" \in Client!ClientPC
    BY DEF Types, QueryPC, Client!ClientPC
  <2>2. QED
    BY <2>1, Zenon DEF Shape
<1>4. first'[q].answer = answer[q]
  BY DEF Shape
<1>5. TrueAnswers'
  <2>1. question[q] = request[q].qtype
    BY <1>1 DEF Answered, Stage
  <2> SUFFICES ASSUME NEW p \in Queries, NEW a, TrueAnswer(p, a) PROVE TrueAnswer(p, a)'
    BY Zenon DEF Shape, TrueAnswers
  <2>2. a.question \in {request'[p].qtype, question'[p]}
    BY <2>1, Zenon DEF Shape, TrueAnswer
  <2>3. QED
    BY <2>2, Zenon DEF TrueAnswer
<1>6. \A p \in Queries \ {q} : /\ first'[p] = first[p] /\ pc'[p] = pc[p]
                               /\ question'[p] = question[p]
  BY Zenon DEF Shape
<1>7. pc'[q] = "lookup" /\ reply'[q] = NoReply
  BY <1>1, FirstAnswer DEF Shape
<1>8. Stage'
  BY <1>2, <1>4, <1>6, <1>7 DEF Stage, NoNativeFirst
<1>9. AnswersTheQuestionAsked'
  BY Zenon DEF AnswersTheQuestionAsked
<1>10. NativeFirst'
  <2>1. reply' = reply /\ request' = request
    OBVIOUS
  <2>2. \A p \in Queries : reply'[p] # NoReply => first'[p] = first[p]
    BY <1>6, <1>7, Zenon
  <2>3. NativeFirst
    OBVIOUS
  <2> HIDE DEF IInv, LookUpA, Client!SendQuery, Remember
  <2>4. QED
    BY <2>1, <2>2, <2>3, Zenon DEF NativeFirst
<1>11. QED
  BY <1>3, <1>5, <1>8, <1>9, <1>10

\* A synthesized reply answers the AAAA question, and NoNativeFirst allows it.
LEMMA SynthesizeKeeps ==
  ASSUME IInv, NEW q \in Queries, Synthesize(q)
  PROVE  IInv'
<1> DEFINE r == [question |-> "AAAA", rcode |-> answer[q].rcode,
                 records |-> {IF t = "A" THEN "synthesized" ELSE t : t \in answer[q].records}]
<1> USE DEF IInv, Synthesize, Return
<1>1. r.question = "AAAA" /\ "A" \notin r.records
  OBVIOUS
<1>2. reply' \in {reply, [reply EXCEPT ![q] = r]}
  BY Zenon DEF Respond
<1> HIDE DEF r
<1>3. NoNativeFirst(q) /\ reply[q] = NoReply
  BY DEF Answered, Stage
<1>4. Shape'
  BY <1>2, Zenon DEF Shape, QueryPC, Client!ClientPC
<1>5. TrueAnswers'
  <2>1. \A p \in Queries : /\ arriving'[p] \subseteq arriving[p]
                           /\ client'[p] = "answered" => client[p] = "answered" /\ answer'[p] = answer[p]
    BY Zenon DEF Shape
  <2>2. request' = request /\ question' = question /\ TrueAnswers
    OBVIOUS
  <2>3. QED
    BY <2>1, <2>2, TrueAnswersStay, Zenon
<1>6. \A p \in Queries \ {q} : reply'[p] = reply[p] /\ pc'[p] = pc[p]
  BY <1>2, Zenon DEF Shape
<1>7. reply'[q] \in {NoReply, r} /\ pc'[q] = "done"
  BY <1>2, <1>3, Zenon DEF Shape
<1>8. Stage'
  BY <1>6, <1>7, Zenon DEF Stage, NoNativeFirst
<1>9. AnswersTheQuestionAsked'
  BY <1>1, <1>3, <1>6, <1>7, Zenon DEF AnswersTheQuestionAsked, NoNativeFirst
<1>10. NativeFirst'
  BY <1>3, <1>6, <1>7, Zenon DEF NativeFirst, NoNativeFirst
<1>11. QED
  BY <1>4, <1>5, <1>8, <1>9, <1>10

\* Every step of every query keeps the invariant.
LEMMA NextKeeps == IInv /\ [Next]_vars => IInv'
<1> SUFFICES ASSUME IInv, [Next]_vars PROVE IInv'
  OBVIOUS
<1>1. ASSUME NEW q \in Queries, QueryStep(q) PROVE IInv'
  <2>1. CASE Drop(q) \/ NoAnswerReceived(q) \/ RefuseSecond(q)
    <3>1. Return(q) /\ UNCHANGED <<reply, first>>
      BY <2>1, Zenon DEF Drop, NoAnswerReceived, RefuseSecond
    <3>2. QED
      BY <3>1, ReturnKeeps
  <2>2. CASE Forward(q)
    BY <2>2, ForwardKeeps
  <2>3. CASE SendQueryStep(q)
    <3>1. Client!ClientStep(q) /\ UNCHANGED queryVars
      BY <2>3, Zenon DEF SendQueryStep
    <3>2. QED
      BY <3>1, ClientKeeps
  <2>4. CASE RefuseFirst(q)
    BY <2>4, RefuseFirstKeeps
  <2>5. CASE PassOn(q)
    BY <2>5, PassOnKeeps
  <2>6. CASE LookUpA(q)
    BY <2>6, LookUpAKeeps
  <2>7. CASE Synthesize(q)
    BY <2>7, SynthesizeKeeps
  <2>8. QED
    BY <1>1, <2>1, <2>2, <2>3, <2>4, <2>5, <2>6, <2>7, Zenon DEF QueryStep, Decide
<1>2. ASSUME NEW q \in Queries, NetworkStep(q) PROVE IInv'
  <2>1. /\ UNCHANGED queryVars
        /\ (\E a \in AnswersTo(q) : Client!SendAnswered(q, a)) \/ Client!Receive(q)
    BY <1>2, Zenon DEF NetworkStep
  <2>2. QED
    BY <2>1, ClientKeeps
<1>3. CASE UNCHANGED vars
  <2>1. /\ UNCHANGED <<request, question, pc, reply, first>>
        /\ client' = client /\ arriving' = arriving /\ answer' = answer
    BY <1>3, Zenon DEF vars, clientVars, queryVars
  <2>2. Shape'
    BY <2>1, Zenon DEF IInv, Shape
  <2>3. TrueAnswers'
    BY <2>1, Zenon DEF IInv, TrueAnswers, TrueAnswer
  <2>4. Stage' /\ AnswersTheQuestionAsked' /\ NativeFirst'
    BY <2>1, Zenon DEF IInv, Stage, NoNativeFirst, AnswersTheQuestionAsked, NativeFirst
  <2>5. QED
    BY <2>2, <2>3, <2>4 DEF IInv
<1>4. QED
  BY <1>1, <1>2, <1>3, Zenon DEF Next

\* Every reachable state satisfies the invariant.
LEMMA Invariance == Spec => []IInv
<1>1. QED
  BY InitInv, NextKeeps, PTL DEF Spec
-------------------------------------------------------------------------------
(* The theorems *)

\* Whatever is lost, late, malformed or resent, and with any number of queries that
\* share the servers: a client that gets a reply gets one to the question it asked.
THEOREM QuestionAnswered == Spec => []AnswersTheQuestionAsked
<1>1. IInv => AnswersTheQuestionAsked
  BY DEF IInv
<1>2. QED
  BY <1>1, Invariance, PTL

\* Nothing native is ever replaced by something synthesized, even by an answer that
\* comes after the A question was sent on the same socket.
THEOREM NativeNotReplaced == Spec => []NativeFirst
<1>1. IInv => NativeFirst
  BY DEF IInv
<1>2. QED
  BY <1>1, Invariance, PTL
-------------------------------------------------------------------------------
(* The refinement of Dns64 *)

\* Where a query ends without a word, Dns64 is silent: when the datagram is no query or
\* nobody answered, and when an answer does not parse.
LEMMA DropIsSilent ==
  ASSUME IInv, NEW q \in Queries, pc[q] # "done", Return(q), reply' = reply,
         first' = first \/ (pc[q] = "forward" /\ Remember(q))
  PROVE  Promise!Silent(q)
<1> USE DEF IInv, Shape, Return
<1>1. Stages[q] # "closed"
  BY DEF Stages
<1>2. Stages' = [Stages EXCEPT ![q] = "closed"]
  BY DEF Stages
<1>3. Asked' = Asked
  BY Zenon DEF Asked
<1>4. \E f \in BOOLEAN : Failed' = [Failed EXCEPT ![q] = @ \/ f]
  <2>1. CASE first' = first
    <3>1. Failed' = Failed
      BY <2>1, Zenon DEF Failed
    <3>2. Failed' = [Failed EXCEPT ![q] = @ \/ FALSE]
      BY <3>1, Zenon DEF Failed
    <3>3. QED
      BY <3>2
  <2>2. CASE pc[q] = "forward" /\ Remember(q)
    <3> DEFINE f == first'[q].answer # NoAnswer /\ first'[q].answer.rcode = "ServFail"
    <3>1. Failed[q] = FALSE
      BY <2>2 DEF Stage, Failed
    <3>2. \A p \in Queries \ {q} : first'[p] = first[p]
      BY <2>2, Zenon DEF Remember
    <3>3. Failed' = [p \in Queries |-> IF p = q THEN f ELSE Failed[p]]
      BY <3>2, Zenon DEF Failed
    <3>4. Failed' = [Failed EXCEPT ![q] = @ \/ f]
      BY <3>1, <3>3, Zenon DEF Failed
    <3>5. f \in BOOLEAN
      OBVIOUS
    <3>6. QED
      BY <3>4, <3>5
  <2>3. QED
    BY <2>1, <2>2
<1>5. QED
  BY <1>1, <1>2, <1>3, <1>4, Zenon DEF Promise!Silent

\* The first answer settles whether a server has failed.
LEMMA FirstFailed ==
  ASSUME IInv, NEW q \in Queries, Answered(q, "forward"), Remember(q)
  PROVE  Failed' = [Failed EXCEPT ![q] = answer[q].rcode = "ServFail"]
<1>1. answer[q] # NoAnswer
  BY FirstAnswer, NoAnswerAssumption DEF TrueAnswer
<1>2. first'[q].answer = answer[q]
  BY DEF IInv, Shape, Remember
<1>3. \A p \in Queries \ {q} : first'[p] = first[p]
  BY Zenon DEF IInv, Shape, Remember
<1>4. Failed' = [p \in Queries |-> IF p = q THEN answer[q].rcode = "ServFail" ELSE Failed[p]]
  BY <1>1, <1>2, <1>3, Zenon DEF Failed
<1>5. QED
  BY <1>4, Zenon DEF Failed

\* The same when it is no failure: nothing changes.
LEMMA NotFailed ==
  ASSUME IInv, NEW q \in Queries, Answered(q, "forward"), Remember(q),
         answer[q].rcode # "ServFail"
  PROVE  UNCHANGED Failed
<1>1. Failed[q] = FALSE
  BY DEF IInv, Stage, Answered, Failed
<1>2. Failed' = [Failed EXCEPT ![q] = FALSE]
  BY FirstFailed, Zenon
<1>3. QED
  BY <1>1, <1>2, Zenon DEF Failed

\* An answer that is passed on is what the servers hold, or the failure of one.
LEMMA PassOnIsNative ==
  ASSUME IInv, NEW q \in Queries, PassOn(q)
  PROVE  Promise!Native(q) \/ Promise!Failure(q)
<1> DEFINE r == [question |-> answer[q].question, rcode |-> answer[q].rcode,
                 records |-> answer[q].records]
           name == request[q].name
           qtype == request[q].qtype
<1>1. /\ Answered(q, "forward") /\ Remember(q) /\ Return(q) /\ ~Synthesizes(answer[q])
      /\ reply' \in {reply, [reply EXCEPT ![q] = r]}
  BY Zenon DEF PassOn, Respond
<1>2. /\ TrueAnswer(q, answer[q]) /\ answer[q].question = qtype
      /\ request[q] \in ClientDatagrams /\ qtype \in Types
  BY <1>1, FirstAnswer
<1>3. /\ Stages[q] = "asked" /\ Stages' = [Stages EXCEPT ![q] = "closed"] /\ Asked' = Asked
      /\ Asked[q].type = qtype /\ Asked[q].name = name
  <2>1. pc[q] = "forward" /\ pc' = [pc EXCEPT ![q] = "done"] /\ request' = request
    BY <1>1 DEF Answered, Return
  <2>2. QED
    BY <2>1 DEF Stages, Asked, IInv, Shape
<1>4. CASE answer[q].rcode = "ServFail"
  <2>1. answer[q].records = {}
    BY <1>2, <1>4, SMT DEF TrueAnswer
  <2>2. qtype = "A"
    BY <1>1, <1>2, <1>4, <2>1 DEF Synthesizes, Types
  <2>3. Failed' = [Failed EXCEPT ![q] = TRUE]
    BY <1>1, <1>4, FirstFailed, Zenon
  <2>4. r = Promise!Answer(q, "ServFail", {})
    BY <1>2, <1>3, <1>4, <2>1 DEF Promise!Answer
  <2> HIDE DEF r, name, qtype
  <2>5. Promise!Close(q, Promise!Answer(q, "ServFail", {}))
    BY <1>1, <1>3, <2>4, Zenon DEF Promise!Close
  <2>6. QED
    BY <1>3, <2>2, <2>3, <2>5, Zenon DEF Promise!Failure
<1>5. CASE answer[q].rcode # "ServFail"
  <2>1. answer[q].rcode = Promise!Code(name) /\ answer[q].records = Promise!Held(name, qtype)
    BY <1>2, <1>5, Zenon DEF TrueAnswer, Promise!Code, Promise!Held, RecordsOf
  <2>2. UNCHANGED Failed
    BY <1>1, <1>5, NotFailed
  <2>3. qtype = "AAAA" => name # "v4only"
    <3> SUFFICES ASSUME qtype = "AAAA", name = "v4only" PROVE FALSE
      OBVIOUS
    <3>1. answer[q].rcode = "NoError" /\ answer[q].records = {}
      BY <2>1 DEF Promise!Code, Promise!Held
    <3>2. QED
      BY <1>1, <1>2, <3>1 DEF Synthesizes
  <2>4. r = Promise!Answer(q, Promise!Code(name), Promise!Held(name, qtype))
    BY <1>2, <1>3, <2>1 DEF Promise!Answer
  <2> HIDE DEF r, name, qtype
  <2>5. Promise!Close(q, Promise!Answer(q, Promise!Code(name), Promise!Held(name, qtype)))
    BY <1>1, <1>3, <2>4, Zenon DEF Promise!Close
  <2>6. QED
    BY <1>3, <2>2, <2>3, <2>5, Zenon DEF Promise!Native
<1>6. QED
  BY <1>4, <1>5

\* The lookup of A is NoNative.
LEMMA LookUpAIsNoNative ==
  ASSUME IInv, NEW q \in Queries, LookUpA(q)
  PROVE  Promise!NoNative(q)
<1>1. /\ Answered(q, "forward") /\ Remember(q) /\ Synthesizes(answer[q])
      /\ reply' = reply /\ request' = request
      /\ pc[q] = "forward" /\ pc' = [pc EXCEPT ![q] = "lookup"]
  BY Zenon DEF LookUpA, Answered
<1>2. /\ TrueAnswer(q, answer[q]) /\ answer[q].question = request[q].qtype
      /\ request[q] \in ClientDatagrams
  BY <1>1, FirstAnswer
<1>3. /\ Stages[q] = "asked" /\ Stages' = [Stages EXCEPT ![q] = "noNative"] /\ Asked' = Asked
      /\ Asked[q].type = request[q].qtype /\ Asked[q].name = request[q].name
  BY <1>1 DEF Stages, Asked, IInv, Shape
<1>4. request[q].qtype = "AAAA" /\ answer[q].rcode # "NXDomain" /\ "AAAA" \notin answer[q].records
  BY <1>1, <1>2, Zenon DEF Synthesizes
<1>5. \/ Failed' = [Failed EXCEPT ![q] = TRUE]
      \/ request[q].name = "v4only" /\ UNCHANGED Failed
  <2>1. CASE answer[q].rcode = "ServFail"
    BY <1>1, <2>1, FirstFailed, Zenon
  <2>2. CASE answer[q].rcode # "ServFail"
    <3>1. UNCHANGED Failed
      BY <1>1, <2>2, NotFailed
    <3>2. /\ request[q].name # "nxdomain"
          /\ answer[q].records = RecordsOf(request[q].name, "AAAA")
      BY <1>2, <1>4, <2>2, Zenon DEF TrueAnswer
    <3>3. request[q].name # "dual"
      BY <1>4, <3>2 DEF RecordsOf
    <3>4. request[q].name = "v4only"
      BY <1>2, <3>2, <3>3 DEF ClientDatagrams
    <3>5. QED
      BY <3>1, <3>4
  <2>3. QED
    BY <2>1, <2>2
<1>6. QED
  BY <1>1, <1>3, <1>4, <1>5, Zenon DEF Promise!NoNative

\* What Synthesize sends is made from the A records, is the failure of a server, or is
\* made from the answer to the AAAA question, which has no A records to replace.
LEMMA SynthesizeIsSynthesized ==
  ASSUME IInv, NEW q \in Queries, Synthesize(q)
  PROVE  Promise!Synthesized(q)
<1> DEFINE Made(records) == {IF t = "A" THEN "synthesized" ELSE t : t \in records}
           r == [question |-> "AAAA", rcode |-> answer[q].rcode,
                 records |-> Made(answer[q].records)]
           name == request[q].name
<1>1. /\ Answered(q, "lookup") /\ Return(q) /\ first' = first
      /\ reply' \in {reply, [reply EXCEPT ![q] = r]}
  BY Zenon DEF Synthesize, Respond
<1>2. /\ TrueAnswer(q, answer[q]) /\ request[q] \in ClientDatagrams
      /\ request[q].qtype = "AAAA"
  BY <1>1, RequestsAssumption DEF Answered, IInv, Shape, TrueAnswers, Stage, NoNativeFirst
<1>3. /\ Stages[q] = "noNative" /\ Stages' = [Stages EXCEPT ![q] = "closed"] /\ Asked' = Asked
      /\ Asked[q].type = "AAAA" /\ Asked[q].name = name
  <2>1. pc[q] = "lookup" /\ pc' = [pc EXCEPT ![q] = "done"] /\ request' = request
    BY <1>1 DEF Answered, Return
  <2>2. QED
    BY <1>2, <2>1 DEF Stages, Asked, IInv, Shape
<1>4. Failed' = Failed
  BY <1>1, Zenon DEF Failed
<1>5. answer[q].question \in {"A", "AAAA"}
  BY <1>2 DEF TrueAnswer, IInv, Shape, Types
<1>6. \/ r = Promise!Answer(q, Promise!Code(name), {"synthesized" : t \in Promise!Held(name, "A")})
      \/ r = Promise!Answer(q, "ServFail", {})
      \/ r = Promise!Answer(q, Promise!Code(name), Promise!Held(name, "AAAA"))
  <2>1. CASE answer[q].rcode = "ServFail"
    <3>1. answer[q].records = {}
      BY <1>2, <2>1, SMT DEF TrueAnswer
    <3>2. Made(answer[q].records) = {}
      BY <3>1
    <3>3. QED
      BY <1>3, <2>1, <3>2 DEF Promise!Answer
  <2>2. CASE answer[q].rcode # "ServFail"
    <3>1. /\ answer[q].rcode = Promise!Code(name)
          /\ answer[q].records = Promise!Held(name, answer[q].question)
      BY <1>2, <2>2, Zenon DEF TrueAnswer, Promise!Code, Promise!Held, RecordsOf
    <3>2. \A t \in {"A", "AAAA"} : Promise!Held(name, t) \subseteq {t}
      <4>1. RecordsOf(name, "A") \subseteq {"A"} /\ RecordsOf(name, "AAAA") \subseteq {"AAAA"}
        BY <1>2, RecordsOfType DEF Types
      <4>2. \A t : Promise!Held(name, t) = RecordsOf(name, t)
        BY Zenon DEF Promise!Held, RecordsOf
      <4>3. QED
        BY <4>1, <4>2
    <3>3. CASE answer[q].question = "A"
      <4>1. Promise!Held(name, "A") \subseteq {"A"}
        BY <3>2
      <4>2. Made(answer[q].records) = {"synthesized" : t \in Promise!Held(name, "A")}
        BY <3>1, <3>3, <4>1
      <4>3. QED
        BY <1>3, <3>1, <4>2 DEF Promise!Answer
    <3>4. CASE answer[q].question = "AAAA"
      <4>1. Promise!Held(name, "AAAA") \subseteq {"AAAA"}
        BY <3>2
      <4>2. Made(answer[q].records) = Promise!Held(name, "AAAA")
        BY <3>1, <3>4, <4>1
      <4>3. QED
        BY <1>3, <3>1, <4>2 DEF Promise!Answer
    <3>5. QED
      BY <1>5, <3>3, <3>4
  <2>3. QED
    BY <2>1, <2>2
<1> HIDE DEF r, Made, name
<1>7. QED
  BY <1>1, <1>3, <1>4, <1>6, Zenon DEF Promise!Synthesized, Promise!Close

\* Every step of operator() is a step of Dns64 or, as sendQuery() is, invisible to it.
LEMMA StepRefines == IInv /\ [Next]_vars => [Promise!Next]_(Promise!vars)
<1> SUFFICES ASSUME IInv, [Next]_vars PROVE [Promise!Next]_(Promise!vars)
  OBVIOUS
<1> USE DEF IInv, Shape
<1>1. ASSUME UNCHANGED queryVars PROVE UNCHANGED Promise!vars
  BY <1>1, Zenon DEF queryVars, Promise!vars, Asked, Stages, Failed
<1>2. ASSUME NEW q \in Queries, QueryStep(q) PROVE Promise!Next \/ UNCHANGED Promise!vars
  <2>1. CASE Drop(q) \/ NoAnswerReceived(q) \/ RefuseSecond(q) \/ RefuseFirst(q)
    <3>1. /\ pc[q] # "done" /\ Return(q) /\ reply' = reply
          /\ first' = first \/ (pc[q] = "forward" /\ Remember(q))
      BY <2>1 DEF Drop, NoAnswerReceived, RefuseSecond, RefuseFirst, InSendQuery, Answered
    <3>2. Promise!Silent(q)
      BY <3>1, DropIsSilent
    <3>3. QED
      BY <3>2 DEF Promise!Next
  <2>2. CASE Forward(q)
    <3>1. Stages' = Stages
      BY <2>2 DEF Forward, Stages
    <3>2. Asked' = Asked /\ Failed' = Failed /\ reply' = reply
      BY <2>2, Zenon DEF Forward, Asked, Failed
    <3>3. QED
      BY <3>1, <3>2, Zenon DEF Promise!vars
  <2>3. CASE SendQueryStep(q)
    BY <1>1, <2>3, Zenon DEF SendQueryStep
  <2>4. CASE PassOn(q)
    BY <2>4, PassOnIsNative, Zenon DEF Promise!Next
  <2>5. CASE LookUpA(q)
    BY <2>5, LookUpAIsNoNative, Zenon DEF Promise!Next
  <2>6. CASE Synthesize(q)
    BY <2>6, SynthesizeIsSynthesized, Zenon DEF Promise!Next
  <2>7. QED
    BY <1>2, <2>1, <2>2, <2>3, <2>4, <2>5, <2>6, Zenon DEF QueryStep, Decide
<1>3. ASSUME NEW q \in Queries, NetworkStep(q) PROVE UNCHANGED Promise!vars
  BY <1>1, <1>3, Zenon DEF NetworkStep
<1>4. CASE UNCHANGED vars
  BY <1>1, <1>4, Zenon DEF vars, queryVars
<1>5. QED
  BY <1>2, <1>3, <1>4, Zenon DEF Next

\* With any number of queries, whatever becomes of their datagrams, every behaviour of
\* Query is one of Dns64: at most one reply, decided once, from native data first.
THEOREM QueryImplementsDns64 == Spec => ImplementsDns64
<1>1. Init => Promise!Init
  <2> SUFFICES ASSUME Init PROVE Promise!Init
    OBVIOUS
  <2>1. \A q \in Queries : request[q] \in ClientDatagrams
    BY RequestsAssumption DEF Init
  <2>2. Asked \in [Queries -> [type : {"A", "AAAA"}, name : {"dual", "v4only", "nxdomain"}]]
    BY <2>1 DEF Asked, ClientDatagrams, Types
  <2>3. Stages = [q \in Queries |-> "asked"]
    BY DEF Init, Stages
  <2>4. Failed = [q \in Queries |-> FALSE]
    BY Zenon DEF Init, Failed
  <2>5. QED
    BY <2>2, <2>3, <2>4 DEF Init, Promise!Init
<1>2. QED
  BY <1>1, StepRefines, Invariance, PTL DEF Spec, ImplementsDns64, Promise!Spec
-------------------------------------------------------------------------------
(* ExpectedReply: a client whose question had to be sent once only gets what DNS64  *)
(* makes of the name.                                                                *)
\* The types that let the questions sent be counted.
Counting ==
  /\ nservers \in Nat
  /\ rr \in Int
  /\ target \in [Queries -> Int \cup {NoServer}]
  /\ tried \in [Queries -> Seq(Int \cup {NoServer})]

OnceAt(q) ==
  /\ pc[q] = "start" => arriving[q] = {}
  /\ pc[q] = "forward" /\ Len(tried[q]) = 0 => arriving[q] = {}
  /\ pc[q] = "forward" /\ Len(tried[q]) = 1 =>
       /\ \A d, e \in arriving[q] : d = e
       /\ client[q] = "answered" => arriving[q] = {}
  /\ pc[q] = "lookup" => question[q] = "A"
  /\ pc[q] = "lookup" /\ first[q].sent = 1 =>
       /\ \A d \in arriving[q] : d.answer.question = "A"
       /\ client[q] = "answered" => answer[q].question = "A"

Once == \A q \in Queries : OnceAt(q)

EInv == IInv /\ Counting /\ Once /\ ExpectedReply
-------------------------------------------------------------------------------
\* The largest int is a number.
LEMMA IntMaxIsInt == Client!IntMax \in Int
BY SMT DEF Client!IntMax

\* Nothing was sent and nothing received.
LEMMA ExpectedInit == Init => EInv
<1> SUFFICES ASSUME Init PROVE EInv
  OBVIOUS
<1>1. IInv
  BY InitInv
<1>2. Counting
  <2>1. rr \in Int
    <3>1. (-Client!IntMax - 1) .. Client!IntMax \subseteq Int
      BY IntMaxIsInt, SMT
    <3>2. QED
      BY <3>1, ParametersAssumption, Zenon DEF Init, Client!ClientInit, Client!ValuesAssumption
  <2>2. nservers \in Nat
    BY ParametersAssumption, Zenon DEF Init, Client!ClientInit, Client!ServersAssumption
  <2>3. QED
    BY <2>1, <2>2 DEF Counting, Init, Client!ClientInit
<1>3. Once
  BY DEF Once, OnceAt, Init, Client!ClientInit
<1>4. ExpectedReply
  BY DEF ExpectedReply, Init
<1>5. QED
  BY <1>1, <1>2, <1>3, <1>4 DEF EInv

\* The index of a server is a number.
LEMMA IndexIsInt ==
  ASSUME nservers \in Nat, nservers # 0, NEW r \in Int PROVE Client!Index(r) \in Int
<1>1. nservers \in Nat /\ nservers > 0
  BY SMT
<1>2. ASSUME NEW x \in Int PROVE x % nservers \in Int
  BY <1>1, SMT
<1>3. Client!TwoTo64 \in Int
  <2> DEFINE m == 65536 % nservers
             sq(x) == (x * x) % nservers
  <2>1. ASSUME NEW x \in Int PROVE sq(x) \in Int
    <3>1. x * x \in Int
      BY SMT
    <3>2. QED
      BY <1>2, <3>1
  <2>2. m \in Int
    BY <1>2
  <2>3. Client!TwoTo64 = sq(sq(m))
    BY DEF Client!TwoTo64, Client!TwoTo32, Client!Square
  <2> HIDE DEF m, sq
  <2>4. QED
    BY <2>1, <2>2, <2>3
<1>4. r % nservers \in Int /\ (r % nservers) + Client!TwoTo64 \in Int
  BY <1>2, <1>3, SMT
<1>5. QED
  BY <1>2, <1>4, Zenon DEF Client!Index

\* The other queries' sockets are other sockets.
LEMMA OthersKeepOnce ==
  ASSUME Once, NEW q \in Queries,
         pc'[q] = pc[q], question'[q] = question[q], arriving'[q] = arriving[q],
         tried'[q] = tried[q], client'[q] = client[q], answer'[q] = answer[q],
         first'[q] = first[q]
  PROVE  OnceAt(q)'
BY SMT DEF Once, OnceAt

\* A server answers the question as it is when it is sent.
LEMMA AnswersQuestion ==
  ASSUME NEW q \in Queries, NEW a \in AnswersTo(q) PROVE a.question = question[q]
<1> DEFINE truth == [question |-> question[q],
                     rcode |-> IF request[q].name = "nxdomain" THEN "NXDomain" ELSE "NoError",
                     records |-> RecordsOf(request[q].name, question[q]),
                     form |-> "ok"]
<1>1. a \in {truth, [truth EXCEPT !.form = "full"], [truth EXCEPT !.form = "broken"],
            [truth EXCEPT !.rcode = "ServFail", !.records = {}]}
  BY Zenon DEF AnswersTo
<1>2. CASE a \in {truth, [truth EXCEPT !.form = "full"], [truth EXCEPT !.form = "broken"]}
  BY <1>2
<1>3. CASE a = [truth EXCEPT !.rcode = "ServFail", !.records = {}]
  BY <1>3
<1>4. QED
  BY <1>1, <1>2, <1>3

\* The steps of the client: a question adds one answer at most, an answer is received once.
LEMMA ClientKeepsOnce ==
  ASSUME EInv, NEW q \in Queries, UNCHANGED queryVars, InSendQuery(q),
         \/ Client!ClientStep(q)
         \/ Client!Receive(q)
         \/ \E a \in AnswersTo(q) : Client!SendAnswered(q, a)
  PROVE  Counting' /\ Once' /\ ExpectedReply'
<1> USE DEF EInv, IInv, Shape, Counting
<1>1. \/ Client!Select(q) \/ Client!DivideByZero(q) \/ Client!GiveUp(q)
      \/ Client!SendFails(q) \/ Client!SendUnanswered(q)
      \/ Client!NoAnswerInTime(q) \/ Client!Receive(q)
      \/ \E a \in AnswersTo(q) : Client!SendAnswered(q, a)
  BY DEF Client!ClientStep
<1>2. UNCHANGED <<request, question, pc, reply, first>>
  BY DEF queryVars
<1>3. \A p \in Queries \ {q} : /\ arriving'[p] = arriving[p] /\ tried'[p] = tried[p]
                               /\ client'[p] = client[p] /\ answer'[p] = answer[p]
  BY <1>1, Zenon
     DEF Client!Select, Client!DivideByZero, Client!GiveUp, Client!SendFails, Client!SendUnanswered, Client!Sent,
         Client!NoAnswerInTime, Client!Receive, Client!SendAnswered
<1>4. reply[q] = NoReply
  BY DEF Stage, InSendQuery
<1>5. ExpectedReply'
  BY <1>2, <1>3, <1>4, Zenon DEF ExpectedReply
<1>6. ASSUME NEW p \in Queries \ {q} PROVE OnceAt(p)'
  BY <1>2, <1>3, OthersKeepOnce
<1>7. /\ tried[q] \in Seq(Int \cup {NoServer}) /\ Len(tried[q]) \in Nat
      /\ target[q] \in Int \cup {NoServer}
  OBVIOUS
<1>8. Len(Append(tried[q], target[q])) = Len(tried[q]) + 1
  BY <1>7
<1>9. Shape /\ Counting /\ OnceAt(q)
  BY DEF Once
<1>16. nservers' = nservers
  BY <1>1, Zenon
     DEF Client!Select, Client!DivideByZero, Client!GiveUp, Client!SendFails, Client!SendUnanswered,
         Client!Sent, Client!NoAnswerInTime, Client!Receive, Client!SendAnswered
<1> HIDE DEF EInv, IInv, Shape, Counting
<1>10. CASE Client!Select(q) \/ Client!DivideByZero(q) \/ Client!GiveUp(q) \/ Client!SendFails(q)
  <2>1. arriving' = arriving /\ tried' = tried /\ client'[q] # "answered"
    <3>1. /\ arriving' = arriving /\ tried' = tried
          /\ \E x \in {"send", "failed", "threw", "died"} : client' = [client EXCEPT ![q] = x]
      BY <1>10, Zenon
         DEF Client!Select, Client!DivideByZero, Client!GiveUp, Client!SendFails
    <3>2. QED
      BY <1>9, <3>1 DEF Shape
  <2>2. OnceAt(q)'
    BY <1>2, <1>9, <2>1, Zenon DEF OnceAt
  <2>3. rr' \in Int
    <3>1. Client!NextRR \in Int /\ rr \in Int
      BY <1>9, IntMaxIsInt, SMT DEF Client!NextRR, Counting
    <3>2. QED
      BY <1>10, <3>1, Zenon
         DEF Client!Select, Client!DivideByZero, Client!GiveUp, Client!SendFails
  <2>4. target' \in [Queries -> Int \cup {NoServer}]
    <3>1. nservers # 0 => Client!Index(rr') \in Int
      BY <1>9, <2>3, IndexIsInt DEF Counting
    <3>2. \A i \in 0 .. nservers - 1 : i \in Int
      BY <1>9, SMT DEF Counting
    <3>3. \/ target' = target
          \/ nservers # 0 /\ target' = [target EXCEPT ![q] = Client!Index(rr')]
          \/ \E i \in 0 .. nservers - 1 : target' = [target EXCEPT ![q] = i]
      BY <1>10, Zenon
         DEF Client!Select, Client!DivideByZero, Client!GiveUp, Client!SendFails
    <3>4. QED
      BY <1>9, <3>1, <3>2, <3>3, Zenon DEF Counting
  <2>5. Counting'
    BY <1>9, <1>16, <2>1, <2>3, <2>4, Zenon DEF Counting
  <2>6. QED
    BY <1>5, <1>6, <2>2, <2>5, Zenon DEF Once
<1>11. CASE Client!NoAnswerInTime(q)
  <2>1. tried' = tried /\ rr' = rr /\ target' = target
    BY <1>11, Zenon DEF Client!NoAnswerInTime
  <2>2. client'[q] = "select"
    BY <1>9, <1>11, Zenon DEF Client!NoAnswerInTime, Shape
  <2>3. arriving'[q] \subseteq arriving[q]
    BY <1>9, <1>11, Zenon DEF Client!NoAnswerInTime, Shape
  <2>4. OnceAt(q)'
    BY <1>2, <1>9, <2>1, <2>2, <2>3 DEF OnceAt
  <2>5. Counting'
    BY <1>9, <1>16, <2>1, Zenon DEF Counting
  <2>6. QED
    BY <1>5, <1>6, <2>4, <2>5, Zenon DEF Once
<1>12. CASE Client!Receive(q)
  <2>1. PICK d \in arriving[q] : arriving'[q] = arriving[q] \ {d} /\ answer'[q] = d.answer
    BY <1>9, <1>12, Zenon DEF Client!Receive, Shape
  <2>2. tried' = tried /\ rr' = rr /\ target' = target /\ client'[q] = "answered"
    BY <1>9, <1>12, Zenon DEF Client!Receive, Shape
  <2>3. OnceAt(q)'
    BY <1>2, <1>9, <2>1, <2>2 DEF OnceAt
  <2>4. Counting'
    BY <1>9, <1>16, <2>2, Zenon DEF Counting
  <2>5. QED
    BY <1>5, <1>6, <2>3, <2>4, Zenon DEF Once
<1>13. ASSUME Client!Sent(q),
              \/ arriving' = arriving
              \/ \E a \in AnswersTo(q) : arriving' = [arriving EXCEPT
                   ![q] = @ \cup {[answer |-> a, nth |-> Len(tried[q])]}]
       PROVE  Counting' /\ Once' /\ ExpectedReply'
  <2>1. /\ tried' = [tried EXCEPT ![q] = Append(@, target[q])] /\ client'[q] # "answered"
        /\ rr' = rr /\ target' = target
    BY <1>9, <1>13, Zenon DEF Client!Sent, Shape
  <2>2. Counting'
    <3>1. Append(tried[q], target[q]) \in Seq(Int \cup {NoServer})
      BY <1>7
    <3>2. QED
      BY <1>9, <1>16, <2>1, <3>1, Zenon DEF Counting
  <2>3. Len(tried'[q]) = Len(tried[q]) + 1
    BY <1>8, <1>9, <2>1, Zenon DEF Counting
  <2>4. Len(tried'[q]) # 0 /\ (Len(tried'[q]) = 1 => Len(tried[q]) = 0)
    BY <1>7, <2>3, SMT
  <2>5. \E a \in AnswersTo(q) :
          arriving'[q] \subseteq arriving[q] \cup {[answer |-> a, nth |-> Len(tried[q])]}
    <3>1. CASE arriving' = arriving
      <4>1. PICK a \in AnswersTo(q) : TRUE
        BY Zenon DEF AnswersTo
      <4>2. QED
        BY <3>1, <4>1, Zenon
    <3>2. CASE arriving' # arriving
      <4>1. PICK a \in AnswersTo(q) : arriving' = [arriving EXCEPT
                   ![q] = @ \cup {[answer |-> a, nth |-> Len(tried[q])]}]
        BY <1>13, <3>2
      <4>2. arriving'[q] = arriving[q] \cup {[answer |-> a, nth |-> Len(tried[q])]}
        BY <1>9, <4>1, Zenon DEF Shape
      <4>3. QED
        BY <4>2, Zenon
    <3>3. QED
      BY <3>1, <3>2
  <2>6. /\ \A d \in arriving'[q] : d \in arriving[q] \/ d.answer.question = question[q]
        /\ arriving[q] = {} => \A d, e \in arriving'[q] : d = e
    <3>1. PICK a \in AnswersTo(q) :
            arriving'[q] \subseteq arriving[q] \cup {[answer |-> a, nth |-> Len(tried[q])]}
      BY <2>5
    <3>2. a.question = question[q]
      BY AnswersQuestion
    <3>3. \A d \in arriving'[q] : d \in arriving[q] \/ d.answer = a
      BY <3>1
    <3>4. arriving[q] = {} => \A d, e \in arriving'[q] : d = e
      BY <3>1
    <3>5. QED
      BY <3>2, <3>3, <3>4, Zenon
  <2>7. OnceAt(q)'
    BY <1>2, <1>9, <2>1, <2>4, <2>6, Zenon DEF InSendQuery, OnceAt
  <2>8. QED
    BY <1>5, <1>6, <2>2, <2>7, Zenon DEF Once
<1>14. CASE Client!SendUnanswered(q) \/ \E a \in AnswersTo(q) : Client!SendAnswered(q, a)
  BY <1>13, <1>14, Zenon DEF Client!SendUnanswered, Client!SendAnswered
<1>15. QED
  BY <1>1, <1>10, <1>11, <1>12, <1>14

\* Whoever returns has closed the socket; what matters is what it has sent.
LEMMA ReturnKeepsOnce ==
  ASSUME EInv, NEW q \in Queries, Return(q),
         first' = first \/ Remember(q),
         reply'[q] = NoReply \/ Expected(request[q]) = reply'[q]
           \/ first'[q].sent # 1 \/ first'[q].answer.rcode = "ServFail"
           \/ answer[q].rcode = "ServFail",
         \A p \in Queries \ {q} : reply'[p] = reply[p]
  PROVE  Counting' /\ Once' /\ ExpectedReply'
<1> USE DEF EInv, IInv, Shape, Return
<1>1. Counting'
  BY Zenon DEF Counting
<1>2. \A p \in Queries \ {q} : /\ first'[p] = first[p] /\ pc'[p] = pc[p] /\ client'[p] = client[p]
                               /\ arriving'[p] = arriving[p]
  BY Zenon DEF Remember
<1>3. request' = request /\ question' = question /\ tried' = tried /\ answer' = answer
      /\ pc'[q] = "done"
  BY Zenon
<1>4. ASSUME NEW p \in Queries \ {q} PROVE OnceAt(p)'
  BY <1>2, <1>3, OthersKeepOnce
<1>5. OnceAt(q)'
  BY <1>3, Zenon DEF OnceAt
<1>6. Once'
  BY <1>4, <1>5, Zenon DEF Once
<1>7. ExpectedReply'
  <2>1. ExpectedReply
    OBVIOUS
  <2> HIDE DEF EInv, IInv, Shape, Return
  <2>2. ASSUME NEW p \in Queries,
               reply'[p] # NoReply, first'[p].sent = 1, first'[p].answer.rcode # "ServFail",
               answer'[p].rcode # "ServFail"
        PROVE  reply'[p] = Expected(request[p])
    <3>1. CASE p = q
      BY <1>3, <2>2, <3>1
    <3>2. CASE p # q
      BY <1>2, <1>3, <2>1, <2>2, <3>2 DEF ExpectedReply
    <3>3. QED
      BY <3>1, <3>2
  <2>3. request' = request
    BY <1>3
  <2>4. \A p \in Queries : Expected(request'[p]) = Expected(request[p])
    BY <2>3
  <2>5. QED
    BY <2>2, <2>4, Zenon DEF ExpectedReply
<1>8. QED
  BY <1>1, <1>6, <1>7

\* A call of sendQuery() finds an empty socket if there can be only one answer.
LEMMA ForwardKeepsOnce ==
  ASSUME EInv, NEW q \in Queries, Forward(q)
  PROVE  Counting' /\ Once' /\ ExpectedReply'
<1> USE DEF EInv, IInv, Shape, Forward, Client!SendQuery
<1>1. Counting'
  <2>1. <<>> \in Seq(Int \cup {NoServer})
    OBVIOUS
  <2>2. QED
    BY <2>1, Zenon DEF Counting
<1>2. \A p \in Queries \ {q} : /\ tried'[p] = tried[p] /\ pc'[p] = pc[p] /\ client'[p] = client[p]
  BY Zenon DEF Counting
<1>3. /\ request' = request /\ question' = question /\ answer' = answer /\ first' = first
      /\ arriving' = arriving /\ reply' = reply
      /\ pc'[q] = "forward" /\ client'[q] = "select"
  BY Zenon
<1>4. ASSUME NEW p \in Queries \ {q} PROVE OnceAt(p)'
  BY <1>2, <1>3, OthersKeepOnce
<1>5. OnceAt(q)'
  <2>1. arriving[q] = {}
    BY Zenon DEF Once, OnceAt
  <2>2. QED
    BY <1>3, <2>1, Zenon DEF OnceAt
<1>6. Once'
  BY <1>4, <1>5, Zenon DEF Once
<1>7. ExpectedReply'
  <2>1. ExpectedReply
    OBVIOUS
  <2> HIDE DEF EInv, IInv, Shape, Forward, Client!SendQuery
  <2>2. QED
    BY <1>3, <2>1, Zenon DEF ExpectedReply, Expected
<1>8. QED
  BY <1>1, <1>6, <1>7

\* The same for the lookup of A.
LEMMA LookUpAKeepsOnce ==
  ASSUME EInv, NEW q \in Queries, LookUpA(q)
  PROVE  Counting' /\ Once' /\ ExpectedReply'
<1> USE DEF EInv, IInv, Shape, LookUpA, Client!SendQuery, Remember
<1>1. Counting'
  <2>1. <<>> \in Seq(Int \cup {NoServer})
    OBVIOUS
  <2>2. QED
    BY <2>1, Zenon DEF Counting
<1>2. \A p \in Queries \ {q} : /\ tried'[p] = tried[p] /\ pc'[p] = pc[p] /\ client'[p] = client[p]
                               /\ first'[p] = first[p] /\ question'[p] = question[p]
  BY Zenon DEF Counting
<1>3. /\ request' = request /\ answer' = answer /\ arriving' = arriving /\ reply' = reply
      /\ pc'[q] = "lookup" /\ client'[q] = "select" /\ question'[q] = "A"
  BY Zenon
<1>4. ASSUME NEW p \in Queries \ {q} PROVE OnceAt(p)'
  BY <1>2, <1>3, OthersKeepOnce
<1>5. OnceAt(q)'
  <2>1. first'[q].sent = Len(tried[q])
    OBVIOUS
  <2>2. first'[q].sent = 1 => arriving[q] = {}
    BY <2>1 DEF Once, OnceAt, Answered
  <2>3. QED
    BY <1>3, <2>2, Zenon DEF OnceAt
<1>6. Once'
  BY <1>4, <1>5, Zenon DEF Once
<1>7. ExpectedReply'
  <2>1. reply[q] = NoReply /\ ExpectedReply
    BY DEF Stage, Answered
  <2> HIDE DEF EInv, IInv, Shape, LookUpA, Client!SendQuery, Remember
  <2>2. \A p \in Queries : reply'[p] # NoReply => first'[p] = first[p]
    BY <1>2, <1>3, <2>1, Zenon
  <2>3. QED
    BY <1>3, <2>1, <2>2, Zenon DEF ExpectedReply, Expected
<1>8. QED
  BY <1>1, <1>6, <1>7

\* What is passed on is what DNS64 makes of the name, unless a server failed.
LEMMA PassOnExpected ==
  ASSUME EInv, NEW q \in Queries, PassOn(q), answer[q].rcode # "ServFail"
  PROVE  [question |-> answer[q].question, rcode |-> answer[q].rcode,
          records |-> answer[q].records] = Expected(request[q])
<1> DEFINE name == request[q].name
           qtype == request[q].qtype
<1>1. Answered(q, "forward") /\ ~Synthesizes(answer[q]) /\ IInv
  BY Zenon DEF PassOn, EInv
<1>2. /\ TrueAnswer(q, answer[q]) /\ answer[q].question = qtype
      /\ request[q] \in ClientDatagrams
  BY <1>1, FirstAnswer
<1>3. /\ answer[q].rcode = IF name = "nxdomain" THEN "NXDomain" ELSE "NoError"
      /\ answer[q].records = RecordsOf(name, qtype)
  BY <1>2, Zenon DEF TrueAnswer
<1>4. ~(qtype = "AAAA" /\ name = "v4only")
  <2> SUFFICES ASSUME qtype = "AAAA", name = "v4only" PROVE FALSE
    OBVIOUS
  <2>1. answer[q].rcode = "NoError" /\ answer[q].records = {}
    BY <1>3 DEF RecordsOf
  <2>2. QED
    BY <1>1, <1>2, <2>1 DEF Synthesizes
<1>5. QED
  BY <1>2, <1>3, <1>4 DEF Expected

\* What is synthesized is, too: in the socket there are answers to the A question only.
LEMMA SynthesizedExpected ==
  ASSUME EInv, NEW q \in Queries, Synthesize(q), answer[q].rcode # "ServFail",
         first[q].sent = 1, first[q].answer.rcode # "ServFail"
  PROVE  [question |-> "AAAA", rcode |-> answer[q].rcode,
          records |-> {IF t = "A" THEN "synthesized" ELSE t : t \in answer[q].records}]
           = Expected(request[q])
<1> DEFINE name == request[q].name
<1>1. pc[q] = "lookup" /\ client[q] = "answered"
  BY DEF Synthesize, Answered
<1>2. answer[q].question = "A"
  BY <1>1 DEF EInv, Once, OnceAt
<1>3. TrueAnswer(q, answer[q]) /\ NoNativeFirst(q) /\ request[q] \in ClientDatagrams
  BY <1>1, RequestsAssumption DEF EInv, IInv, Shape, TrueAnswers, Stage
<1>4. request[q].qtype = "AAAA" /\ name \in {"v4only", "nxdomain"}
  BY <1>3 DEF NoNativeFirst, ClientDatagrams
<1>5. /\ answer[q].rcode = IF name = "nxdomain" THEN "NXDomain" ELSE "NoError"
      /\ answer[q].records = RecordsOf(name, "A")
  BY <1>2, <1>3, Zenon DEF TrueAnswer
<1>6. CASE name = "v4only"
  <2>1. answer[q].records = {"A"}
    BY <1>5, <1>6 DEF RecordsOf
  <2>2. {IF t = "A" THEN "synthesized" ELSE t : t \in answer[q].records} = {"synthesized"}
    BY <2>1
  <2>3. QED
    BY <1>4, <1>5, <1>6, <2>2 DEF Expected
<1>7. CASE name = "nxdomain"
  <2>1. answer[q].records = {} /\ RecordsOf(name, "AAAA") = {}
    BY <1>5, <1>7 DEF RecordsOf
  <2>2. {IF t = "A" THEN "synthesized" ELSE t : t \in answer[q].records} = {}
    BY <2>1
  <2>3. QED
    BY <1>4, <1>5, <1>7, <2>1, <2>2 DEF Expected
<1>8. QED
  BY <1>4, <1>6, <1>7

\* Every step keeps the invariant.
LEMMA NextKeepsExpected == EInv /\ [Next]_vars => EInv'
<1> SUFFICES ASSUME EInv, [Next]_vars PROVE EInv'
  OBVIOUS
<1>1. IInv'
  BY NextKeeps DEF EInv
<1>2. ASSUME NEW q \in Queries, QueryStep(q) PROVE Counting' /\ Once' /\ ExpectedReply'
  <2>1. CASE Drop(q) \/ NoAnswerReceived(q) \/ RefuseSecond(q) \/ RefuseFirst(q)
    <3>1. Return(q) /\ reply' = reply /\ (first' = first \/ Remember(q))
      BY <2>1, Zenon DEF Drop, NoAnswerReceived, RefuseSecond, RefuseFirst
    <3>2. reply[q] = NoReply
      BY <2>1 DEF EInv, IInv, Stage, Drop, NoAnswerReceived, RefuseSecond, RefuseFirst, Answered,
                  InSendQuery
    <3>3. reply'[q] = NoReply /\ \A p \in Queries \ {q} : reply'[p] = reply[p]
      BY <3>1, <3>2
    <3>4. QED
      BY <3>1, <3>3, ReturnKeepsOnce
  <2>2. CASE Forward(q)
    BY <2>2, ForwardKeepsOnce
  <2>3. CASE SendQueryStep(q)
    BY <2>3, ClientKeepsOnce, Zenon DEF SendQueryStep
  <2>4. CASE PassOn(q)
    <3> DEFINE r == [question |-> answer[q].question, rcode |-> answer[q].rcode,
                     records |-> answer[q].records]
    <3>1. /\ Return(q) /\ Remember(q) /\ reply[q] = NoReply
          /\ reply' \in {reply, [reply EXCEPT ![q] = r]}
      BY <2>4 DEF PassOn, Respond, EInv, IInv, Stage, Answered
    <3>2. answer[q].rcode # "ServFail" => r = Expected(request[q])
      BY <2>4, PassOnExpected
    <3> HIDE DEF r
    <3>3. /\ reply'[q] \in {NoReply, r} /\ \A p \in Queries \ {q} : reply'[p] = reply[p]
      BY <3>1, Zenon DEF EInv, IInv, Shape
    <3>4. QED
      BY <3>1, <3>2, <3>3, ReturnKeepsOnce
  <2>5. CASE LookUpA(q)
    BY <2>5, LookUpAKeepsOnce
  <2>6. CASE Synthesize(q)
    <3> DEFINE r == [question |-> "AAAA", rcode |-> answer[q].rcode,
                     records |-> {IF t = "A" THEN "synthesized" ELSE t : t \in answer[q].records}]
    <3>1. /\ Return(q) /\ first' = first /\ reply[q] = NoReply
          /\ reply' \in {reply, [reply EXCEPT ![q] = r]}
      BY <2>6 DEF Synthesize, Respond, EInv, IInv, Stage, Answered
    <3>2. answer[q].rcode # "ServFail" /\ first[q].sent = 1 /\ first[q].answer.rcode # "ServFail"
            => r = Expected(request[q])
      BY <2>6, SynthesizedExpected
    <3> HIDE DEF r
    <3>3. /\ reply'[q] \in {NoReply, r} /\ \A p \in Queries \ {q} : reply'[p] = reply[p]
      BY <3>1, Zenon DEF EInv, IInv, Shape
    <3>4. QED
      BY <3>1, <3>2, <3>3, ReturnKeepsOnce
  <2>7. QED
    BY <1>2, <2>1, <2>2, <2>3, <2>4, <2>5, <2>6, Zenon DEF QueryStep, Decide
<1>3. ASSUME NEW q \in Queries, NetworkStep(q) PROVE Counting' /\ Once' /\ ExpectedReply'
  <2>1. /\ UNCHANGED queryVars /\ InSendQuery(q)
        /\ (\E a \in AnswersTo(q) : Client!SendAnswered(q, a)) \/ Client!Receive(q)
    BY <1>3, Zenon DEF NetworkStep
  <2>2. QED
    BY <2>1, ClientKeepsOnce
<1>4. CASE UNCHANGED vars
  <2>1. /\ request' = request /\ question' = question /\ pc' = pc /\ reply' = reply
        /\ first' = first /\ client' = client /\ arriving' = arriving /\ answer' = answer
        /\ tried' = tried /\ target' = target /\ rr' = rr /\ nservers' = nservers
    BY <1>4, Zenon DEF vars, clientVars, queryVars
  <2>2. Counting'
    BY <2>1, Zenon DEF EInv, Counting
  <2>3. ASSUME NEW p \in Queries PROVE OnceAt(p)'
    BY <2>1, OthersKeepOnce DEF EInv
  <2>4. ExpectedReply'
    <3>1. ExpectedReply
      BY DEF EInv
    <3>2. request' = request /\ reply' = reply /\ first' = first /\ answer' = answer
      BY <2>1
    <3>3. QED
      BY <3>1, <3>2, Zenon DEF ExpectedReply, Expected
  <2>5. QED
    BY <1>1, <2>2, <2>3, <2>4 DEF EInv, Once
<1>5. QED
  BY <1>1, <1>2, <1>3, <1>4, Zenon DEF Next, EInv

\* Whatever is lost or late, and however many queries run: if a question was sent once and
\* no server failed, a reply is what DNS64 makes of the name.
THEOREM ReplyAsExpected == Spec => []ExpectedReply
<1>1. EInv => ExpectedReply
  BY DEF EInv
<1>2. QED
  BY <1>1, ExpectedInit, NextKeepsExpected, PTL DEF Spec
-------------------------------------------------------------------------------
(* The types.  The reply has its type because what was received has one (TrueAnswers). *)
QueryTypes ==
  /\ request \in [Queries -> Requests]
  /\ question \in [Queries -> Types]
  /\ pc \in [Queries -> QueryPC]
  /\ reply \in [Queries -> AllReplies \cup {NoReply}]
  /\ first \in [Queries -> [answer : AllAnswers \cup {NoAnswer}, sent : Nat]]

TInv == IInv /\ P!IInv /\ QueryTypes
-------------------------------------------------------------------------------
(* The DNSClients *)

LEMMA SameIntMax == Client!IntMax = P!IntMax
BY DEF Client!IntMax, P!IntMax

\* The assumptions of DNSClientProofs are those of Query.
LEMMA ClientAssumptions == P!ServersAssumption /\ P!ShortAssumption /\ P!ValuesAssumption
BY SameIntMax, ParametersAssumption
DEF P!ServersAssumption, P!ShortAssumption, P!ValuesAssumption,
    Client!ServersAssumption, Client!ShortAssumption, Client!ValuesAssumption

\* The two instances of DNSClient are the same.
LEMMA SameClient ==
  ASSUME NEW q \in Queries
  PROVE  /\ Client!SendQuery(q) <=> P!SendQuery(q)
         /\ Client!ClientStep(q) <=> P!ClientStep(q)
         /\ Client!Receive(q) <=> P!Receive(q)
         /\ \A a \in AllAnswers : Client!SendAnswered(q, a) <=> P!SendAnswered(q, a)
<1>1. Client!SendQuery(q) <=> P!SendQuery(q)
  BY DEF Client!SendQuery, P!SendQuery
<1>2. Client!Receive(q) <=> P!Receive(q)
  BY DEF Client!Receive, P!Receive
<1>3. Client!Sent(q) <=> P!Sent(q)
  BY DEF Client!Sent, P!Sent
<1>4. \A a \in AllAnswers : Client!SendAnswered(q, a) <=> P!SendAnswered(q, a)
  BY <1>3, Zenon DEF Client!SendAnswered, P!SendAnswered
<1>5. Client!SendUnanswered(q) <=> P!SendUnanswered(q)
  BY <1>3 DEF Client!SendUnanswered, P!SendUnanswered
<1>6. Client!Select(q) <=> P!Select(q)
  <2>1. Client!NextRR = P!NextRR
    BY SameIntMax DEF Client!NextRR, P!NextRR
  <2>2. Client!TwoTo64 = P!TwoTo64
    BY DEF Client!TwoTo64, P!TwoTo64, Client!TwoTo32, P!TwoTo32, Client!Square, P!Square
  <2>3. \A r : Client!Index(r) = P!Index(r)
    BY <2>2, Zenon DEF Client!Index, P!Index
  <2>4. QED
    BY <2>1, <2>3 DEF Client!Select, P!Select
<1>7. Client!GiveUp(q) <=> P!GiveUp(q)
  BY Zenon DEF Client!GiveUp, P!GiveUp
<1>8. Client!SendFails(q) <=> P!SendFails(q)
  BY DEF Client!SendFails, P!SendFails
<1>9. Client!NoAnswerInTime(q) <=> P!NoAnswerInTime(q)
  BY Zenon
  DEF Client!NoAnswerInTime, P!NoAnswerInTime, Client!Incremented, P!Incremented
<1>11. Client!DivideByZero(q) <=> P!DivideByZero(q)
  BY Zenon DEF Client!DivideByZero, P!DivideByZero
<1>10. QED
  BY <1>1, <1>2, <1>4, <1>5, <1>6, <1>7, <1>8, <1>9, <1>11 DEF Client!ClientStep, P!ClientStep

\* A DNSClient that is gone has asked nothing and has nothing in its socket.
LEMMA ReturnKeepsClients ==
  ASSUME P!IInv, NEW q \in Queries, Return(q)
  PROVE  P!IInv'
<1> USE DEF Return
<1>1. P!TypeOK'
  BY Zenon DEF P!IInv, P!TypeOK, P!ClientPC
<1>2. \A r \in Queries : client'[r] = client[r] \/ client'[r] = "idle"
  BY DEF P!IInv, P!TypeOK
<1>3. UNCHANGED <<attempts, tried, target>>
  OBVIOUS
<1>4. P!Counted'
  BY <1>2, <1>3 DEF P!IInv, P!Counted
<1>5. P!AttemptsExact'
  BY <1>2, <1>3 DEF P!IInv, P!AttemptsExact
<1>6. P!Selected'
  BY <1>2, <1>3 DEF P!IInv, P!Selected
<1>7. QED
  BY <1>1, <1>4, <1>5, <1>6 DEF P!IInv

\* Every step of a Query is one of its DNSClient, or ends it, or is no business of it.
LEMMA ClientsStep ==
  ASSUME ResendAttempts < ShortMax, IInv, P!IInv, [Next]_vars
  PROVE  P!IInv'
<1>1. ASSUME P!Action PROVE P!IInv'
  BY <1>1, ClientAssumptions, P!InvarianceStep
<1>2. ASSUME UNCHANGED vars PROVE P!IInv'
  BY <1>2, ClientAssumptions, P!InvarianceStep DEF vars, clientVars, P!clientVars
<1>3. ASSUME NEW q \in Queries, QueryStep(q) PROVE P!IInv'
  <2>1. CASE Drop(q) \/ NoAnswerReceived(q) \/ RefuseFirst(q) \/ PassOn(q) \/ RefuseSecond(q)
             \/ Synthesize(q)
    BY <2>1, ReturnKeepsClients
    DEF Drop, NoAnswerReceived, RefuseFirst, PassOn, RefuseSecond, Synthesize
  <2>2. CASE Forward(q) \/ LookUpA(q)
    <3>1. P!SendQuery(q)
      BY <2>2, SameClient DEF Forward, LookUpA
    <3>2. QED
      BY <3>1, <1>1 DEF P!Action
  <2>3. CASE SendQueryStep(q)
    <3>1. P!ClientStep(q)
      BY <2>3, SameClient DEF SendQueryStep
    <3>2. QED
      BY <3>1, <1>1 DEF P!Action
  <2>4. QED
    BY <1>3, <2>1, <2>2, <2>3 DEF QueryStep, Decide
<1>4. ASSUME NEW q \in Queries, NetworkStep(q) PROVE P!IInv'
  <2>1. CASE Client!Receive(q)
    BY <2>1, <1>1, SameClient DEF P!Action
  <2>2. ASSUME NEW a \in AnswersTo(q), Client!SendAnswered(q, a) PROVE P!IInv'
    <3>1. a \in AllAnswers
      BY AnswersAreTrue DEF IInv, TrueAnswer
    <3>2. P!SendAnswered(q, a)
      BY <2>2, <3>1, SameClient
    <3>3. QED
      BY <3>1, <3>2, <1>1 DEF P!Action
  <2>3. QED
    BY <1>4, <2>1, <2>2 DEF NetworkStep
<1>5. QED
  BY <1>2, <1>3, <1>4 DEF Next
-------------------------------------------------------------------------------
(* The Query itself *)

\* What is remembered of the first call is an answer and a number.
LEMMA RememberType ==
  ASSUME P!IInv, QueryTypes, NEW q \in Queries, Remember(q)
  PROVE  first' \in [Queries -> [answer : AllAnswers \cup {NoAnswer}, sent : Nat]]
<1>1. answer[q] \in AllAnswers \cup {NoAnswer} /\ tried[q] \in Seq(0 .. nservers - 1)
  BY Zenon DEF P!IInv, P!TypeOK
<1>2. Len(tried[q]) \in Nat
  BY <1>1
<1>3. QED
  BY <1>1, <1>2 DEF QueryTypes, Remember

\* What is sent to the client is a reply, if what was received is an answer.
LEMMA ReplyType ==
  ASSUME QueryTypes, NEW q \in Queries, NEW r \in AllReplies, Respond(q, r)
  PROVE  reply' \in [Queries -> AllReplies \cup {NoReply}]
BY DEF QueryTypes, Respond

LEMMA QueryTypesStep ==
  ASSUME IInv, P!IInv, QueryTypes, [Next]_vars
  PROVE  QueryTypes'
<1> USE DEF QueryTypes, QueryPC
<1>1. ASSUME NEW q \in Queries, Return(q)
      PROVE  /\ request' \in [Queries -> Requests] /\ question' \in [Queries -> Types]
             /\ pc' \in [Queries -> QueryPC]
  BY <1>1 DEF Return
<1>2. ASSUME NEW q \in Queries, Return(q), UNCHANGED <<reply, first>> PROVE QueryTypes'
  BY <1>1, <1>2
<1>3. ASSUME NEW q \in Queries, Forward(q) PROVE QueryTypes'
  BY <1>3 DEF Forward
<1>4. ASSUME NEW q \in Queries, UNCHANGED queryVars PROVE QueryTypes'
  BY <1>4 DEF queryVars
<1>5. ASSUME NEW q \in Queries, RefuseFirst(q) PROVE QueryTypes'
  <2>1. Return(q) /\ Remember(q) /\ reply' = reply
    BY <1>5 DEF RefuseFirst
  <2>2. first' \in [Queries -> [answer : AllAnswers \cup {NoAnswer}, sent : Nat]]
    BY <2>1, RememberType
  <2>3. QED
    BY <1>1, <2>1, <2>2
<1>6. ASSUME NEW q \in Queries, PassOn(q) PROVE QueryTypes'
  <2> DEFINE r == [question |-> answer[q].question, rcode |-> answer[q].rcode,
                   records |-> answer[q].records]
  <2>1. Return(q) /\ Remember(q) /\ Respond(q, r) /\ Answered(q, "forward")
    BY <1>6 DEF PassOn
  <2>2. answer[q] \in AllAnswers
    BY <2>1, FirstAnswer DEF TrueAnswer
  <2>3. r \in AllReplies
    BY <2>2 DEF AllAnswers, AllReplies, Types
  <2>4. reply' \in [Queries -> AllReplies \cup {NoReply}]
    BY <2>1, <2>3, ReplyType
  <2>5. first' \in [Queries -> [answer : AllAnswers \cup {NoAnswer}, sent : Nat]]
    BY <2>1, RememberType
  <2>6. QED
    BY <1>1, <2>1, <2>4, <2>5
<1>7. ASSUME NEW q \in Queries, LookUpA(q) PROVE QueryTypes'
  <2>1. /\ Remember(q) /\ UNCHANGED <<request, reply>>
        /\ question' = [question EXCEPT ![q] = "A"]
        /\ pc' = [pc EXCEPT ![q] = "lookup"]
    BY <1>7 DEF LookUpA
  <2>2. first' \in [Queries -> [answer : AllAnswers \cup {NoAnswer}, sent : Nat]]
    BY <2>1, RememberType
  <2>3. QED
    BY <2>1, <2>2 DEF Types
<1>8. ASSUME NEW q \in Queries, Synthesize(q) PROVE QueryTypes'
  <2> DEFINE r == [question |-> "AAAA", rcode |-> answer[q].rcode,
                   records |-> {IF t = "A" THEN "synthesized" ELSE t : t \in answer[q].records}]
  <2>1. Return(q) /\ Respond(q, r) /\ first' = first /\ client[q] = "answered"
    BY <1>8 DEF Synthesize, Answered
  <2>2. answer[q] \in AllAnswers
    BY <2>1 DEF IInv, TrueAnswers, TrueAnswer
  <2>3. r \in AllReplies
    BY <2>2 DEF AllAnswers, AllReplies, Types
  <2>4. reply' \in [Queries -> AllReplies \cup {NoReply}]
    BY <2>1, <2>3, ReplyType
  <2>5. QED
    BY <1>1, <2>1, <2>4
<1>9. CASE UNCHANGED vars
  BY <1>9 DEF vars, queryVars
<1>10. QED
  BY <1>2, <1>3, <1>4, <1>5, <1>6, <1>7, <1>8, <1>9
  DEF Next, QueryStep, NetworkStep, Decide, Drop, NoAnswerReceived, RefuseSecond, SendQueryStep
-------------------------------------------------------------------------------
(* The theorems *)

LEMMA TypesInit == ASSUME ResendAttempts < ShortMax PROVE Init => TInv
<1> SUFFICES ASSUME Init PROVE TInv
  OBVIOUS
<1>1. P!IInv
  <2>1. P!ClientInit
    BY DEF Init, Client!ClientInit, P!ClientInit
  <2>2. QED
    BY <2>1, ClientAssumptions, P!InitInv
<1>2. IInv
  BY InitInv
<1>3. QueryTypes
  BY <1>2 DEF Init, QueryTypes, QueryPC, IInv, Shape
<1>4. QED
  BY <1>1, <1>2, <1>3 DEF TInv

\* TInv holds in every reachable state.
LEMMA TypesInvariance == ASSUME ResendAttempts < ShortMax PROVE Spec => []TInv
<1>1. Init => TInv
  BY TypesInit
<1>2. TInv /\ [Next]_vars => TInv'
  BY NextKeeps, ClientsStep, QueryTypesStep DEF TInv
<1>3. QED
  BY <1>1, <1>2, PTL DEF Spec

\* Every variable keeps its type: counters, indices and buffers of the DNSClients, though
\* each is used for two questions, and the replies.
THEOREM QueryTypeCorrect == ASSUME ResendAttempts < ShortMax PROVE Spec => []TypeOK
<1>1. TInv => TypeOK
  BY SameIntMax, Zenon
  DEF TInv, QueryTypes, P!IInv, TypeOK, P!TypeOK, Client!TypeOK, P!ClientPC, Client!ClientPC,
      P!Datagram, Client!Datagram
<1>2. QED
  BY <1>1, TypesInvariance, PTL
===============================================================================
