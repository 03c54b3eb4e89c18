-------------------------- MODULE ConnectionsProofs --------------------------
(***************************************************************************)
(* Proofs about Connections, for any finite set of peers, any requests and *)
(* any limits.                                                             *)
(*                                                                         *)
(* ConnectionInvariant is inductive: the properties of Connections and     *)
(* where the accept loop has its connection, what is known of a request    *)
(* that is being received, and what has been answered at each place.       *)
(***************************************************************************)
EXTENDS Connections, FiniteSetTheorems, SequenceTheorems, TLAPS

\* While the accept loop has a connection, that is nowhere else.
ClientPlaced ==
    /\ lpc \in {"configure", "acquire", "start"} => hpc[client] = "accepted"
    /\ lpc = "reject" => hpc[client] \in SendPcs

CountedSet == {c \in Peers : Counted(c)}

\* What is known of a request while it is received, so that it is whole after.
Reading ==
    \A c \in Peers : LET r == offer[c] IN
      /\ hpc[c] \in {"away", "backlog", "accepted"} => got[c] = 0
      /\ hpc[c] = "headers" => got[c] <= r.sent /\ got[c] <= MaxHeaders
      /\ hpc[c] = "body" =>
           /\ got[c] <= r.sent
           /\ r.header <= MaxHeaders /\ r.body <= MaxBody /\ r.kind # "length"

\* Nothing is answered before "head", and only its headers before "tail" ends.
Answering ==
    \A c \in Peers :
      /\ hpc[c] \in HandlerPcs \cup {"away", "backlog", "accepted", "head"} =>
           answer[c] = <<>>
      /\ hpc[c] \in {"head", "tail"} => status[c] \in Codes
      /\ hpc[c] = "tail" => answer[c] = Started(status[c])

ConnectionInvariant ==
    /\ TypeOK /\ ClientPlaced /\ CountIsExact
    /\ Reading /\ RequestIsWhole /\ Answering /\ OneResponse

USE DEF HandlerPcs, SendPcs

-----------------------------------------------------------------------------
(***************************************************************************)
(* Types.                                                                  *)
(***************************************************************************)
LEMMA TypeInit == Init => TypeOK
  <1> SUFFICES ASSUME Init PROVE TypeOK
    OBVIOUS
  <1>1. offer \in [Peers -> Requests]
    BY ConnectionsAssumption DEF Init
  <1>2. <<>> \in Answers
    BY DEF Answers
  <1> QED
    BY <1>1, <1>2 DEF Init, TypeOK

\* A part of an answer may be added to an answer.
LEMMA AnswerType ==
  ASSUME NEW sent \in Answers, NEW code \in Codes, NEW part \in {"head", "body", "stream"}
  PROVE  Append(sent, <<code, part>>) \in Answers
  BY DEF Answers, Parts

\* The size of what is received stays a number.
LEMMA SegmentType ==
  ASSUME TypeOK, NEW c \in Peers, NEW n \in Segments(c), got[c] <= offer[c].sent
  PROVE  /\ got[c] + n \in Nat /\ got[c] + n <= offer[c].sent
         /\ got[c] \in Nat /\ n \in Nat \ {0}
         /\ offer[c].sent \in Nat /\ offer[c].body \in Nat
         /\ offer[c].header \in Nat \ {0} /\ Total(c) \in Nat
  <1>1. offer[c] \in Requests /\ got[c] \in Nat
    BY DEF TypeOK
  <1>2. /\ offer[c].sent \in Nat /\ offer[c].body \in Nat
        /\ offer[c].header \in Nat \ {0}
    BY <1>1 DEF Requests
  <1>3. n \in 1..Smaller(Chunk, offer[c].sent - got[c])
    BY DEF Segments
  <1>4. n \in Nat \ {0} /\ n <= offer[c].sent - got[c]
    BY <1>1, <1>2, <1>3, ConnectionsAssumption DEF Smaller
  <1> QED
    BY <1>1, <1>2, <1>4 DEF Total
\* The count is the size of a finite set, from which connections may be taken
\* and to which they may be added.
LEMMA Counting ==
  ASSUME TypeOK, CountIsExact
  PROVE  /\ active = Cardinality(CountedSet) /\ active \in Nat
         /\ \A c \in CountedSet :
              active > 0 /\ Cardinality(CountedSet \ {c}) = active - 1
         /\ \A c \in Peers \ CountedSet :
              Cardinality(CountedSet \cup {c}) = active + 1
  <1>1. IsFiniteSet(CountedSet)
    BY FS_Subset, ConnectionsAssumption DEF CountedSet
  <1>2. active = Cardinality(CountedSet) /\ active \in Nat
    BY DEF CountIsExact, CountedSet, TypeOK
  <1>3. ASSUME NEW c \in CountedSet
        PROVE  active > 0 /\ Cardinality(CountedSet \ {c}) = active - 1
    <2>1. active # 0
      BY <1>1, <1>2, FS_EmptySet
    <2>2. Cardinality(CountedSet \ {c}) = active - 1
      BY <1>1, <1>2, FS_RemoveElement
    <2> QED
      BY <1>2, <2>1, <2>2
  <1>4. \A c \in Peers \ CountedSet : Cardinality(CountedSet \cup {c}) = active + 1
    BY <1>1, <1>2, FS_AddElement
  <1> QED
    BY <1>2, <1>3, <1>4

\* Every step keeps the types.
LEMMA TypeStep == ConnectionInvariant /\ Next => TypeOK'
  <1> SUFFICES ASSUME TypeOK, ClientPlaced, Reading, Answering, CountIsExact, Next
               PROVE  TypeOK'
    BY DEF ConnectionInvariant
  <1> USE DEF TypeOK, Goto, Reply, loopVars, handlerVars
  <1>1. ASSUME NEW c \in Peers, Connect(c) \/ Accept(c)
        PROVE  TypeOK'
    BY <1>1 DEF Connect, Accept
  <1>2. CASE Load \/ ConfigureFails \/ Acquire
    BY <1>2 DEF Load, ConfigureFails, Acquire
  <1>3. CASE Reject \/ Rejected \/ Start
    BY <1>3 DEF Reject, Rejected, Start, Codes
  <1>4. ASSUME NEW c \in Peers, Headers(c)
        PROVE  TypeOK'
    <2>1. PICK n \in Segments(c) : got' = [got EXCEPT ![c] = got[c] + n]
      BY <1>4 DEF Headers
    <2>2. got[c] + n \in Nat
      BY <1>4, SegmentType DEF Headers, Reading
    <2>3. got' \in [Peers -> Nat]
      BY <2>1, <2>2
    <2> QED
      BY <1>4, <2>3 DEF Headers, Codes
  <1>5. ASSUME NEW c \in Peers, Body(c)
        PROVE  TypeOK'
    <2>1. PICK n \in Segments(c) : got' = [got EXCEPT ![c] = got[c] + n]
      BY <1>5 DEF Body
    <2>2. got[c] + n \in Nat
      BY <1>5, SegmentType DEF Body, Reading
    <2>3. got' \in [Peers -> Nat]
      BY <2>1, <2>2
    <2> QED
      BY <1>5, <2>3 DEF Body
  <1>6. ASSUME NEW c \in Peers, Received(c)
        PROVE  TypeOK'
    <2>1. Total(c) \in Nat
      BY DEF Total, Requests
    <2> QED
      BY <1>6, <2>1 DEF Received
  <1>7. ASSUME NEW c \in Peers, ReceiveFails(c) \/ Parse(c) \/ Generate(c)
        PROVE  TypeOK'
    BY <1>7 DEF ReceiveFails, Parse, Generate, Codes
  <1>8. ASSUME NEW c \in Peers, SendHead(c) \/ SendBody(c) \/ Stream(c)
        PROVE  TypeOK'
    <2>1. PICK code \in Codes, part \in {"head", "body", "stream"} :
            answer' = [answer EXCEPT ![c] = Append(answer[c], <<code, part>>)]
      <3>1. CASE SendHead(c)
        <4>1. status[c] \in Codes
          BY <3>1 DEF SendHead, Answering
        <4>2. answer' = [answer EXCEPT ![c] = Append(answer[c], <<status[c], "head">>)]
          BY <3>1 DEF SendHead
        <4> QED  BY <4>1, <4>2
      <3>2. CASE SendBody(c)
        <4>1. status[c] \in Codes
          BY <3>2 DEF SendBody, Answering
        <4>2. answer' = [answer EXCEPT ![c] = Append(answer[c], <<status[c], "body">>)]
          BY <3>2 DEF SendBody
        <4> QED  BY <4>1, <4>2
      <3>3. CASE Stream(c)
        <4>1. answer' = [answer EXCEPT ![c] = Append(answer[c], <<200, "stream">>)]
          BY <3>3 DEF Stream
        <4> QED  BY <4>1 DEF Codes
      <3> QED  BY <1>8, <3>1, <3>2, <3>3
    <2>2. answer' \in [Peers -> Answers]
      BY <2>1, AnswerType
    <2> QED
      BY <1>8, <2>2 DEF SendHead, SendBody, Stream
  <1>9. ASSUME NEW c \in Peers, SendFails(c) \/ Close(c)
        PROVE  TypeOK'
    BY <1>9 DEF SendFails, Close
  <1>10. CASE StartFails
    <2>1. active > 0
      BY <1>10, Counting DEF StartFails, CountedSet, Counted
    <2> QED
      BY <1>10, <2>1 DEF StartFails
  <1>11. ASSUME NEW c \in Peers, Release(c)
         PROVE  TypeOK'
    <2>1. active > 0
      BY <1>11, Counting DEF Release, CountedSet, Counted
    <2> QED
      BY <1>11, <2>1 DEF Release
  <1>12. CASE AcceptFails
    BY <1>12 DEF AcceptFails
  <1> HIDE DEF TypeOK
  <1> QED
    BY <1>1, <1>2, <1>3, <1>4, <1>5, <1>6, <1>7, <1>8, <1>9, <1>10, <1>11, <1>12
    DEF Next, LoopStep, HandlerStep

-----------------------------------------------------------------------------
(***************************************************************************)
(* The place of the client, and the count.                                 *)
(***************************************************************************)
LEMMA PlacedStep == ConnectionInvariant /\ Next => ClientPlaced'
  <1> SUFFICES ASSUME TypeOK, ClientPlaced, Next PROVE ClientPlaced'
    BY DEF ConnectionInvariant
  <1> USE DEF TypeOK, ClientPlaced, Goto, Reply, loopVars, handlerVars
  <1>1. CASE LoopStep \/ AcceptFails
    BY <1>1 DEF LoopStep, AcceptFails, Accept, Load, ConfigureFails, Acquire,
                Reject, Rejected, Start, StartFails
  <1>2. ASSUME NEW c \in Peers,
               Connect(c) \/ Headers(c) \/ Body(c) \/ Received(c) \/ ReceiveFails(c)
        PROVE  ClientPlaced'
    BY <1>2 DEF Connect, Headers, Body, Received, ReceiveFails
  <1>3. ASSUME NEW c \in Peers,
               Parse(c) \/ Generate(c) \/ Stream(c) \/ SendHead(c) \/ SendBody(c)
        PROVE  ClientPlaced'
    BY <1>3 DEF Parse, Generate, Stream, SendHead, SendBody
  <1>4. ASSUME NEW c \in Peers, SendFails(c) \/ Release(c) \/ Close(c)
        PROVE  ClientPlaced'
    BY <1>4 DEF SendFails, Release, Close
  <1> HIDE DEF TypeOK, ClientPlaced
  <1> QED
    BY <1>1, <1>2, <1>3, <1>4 DEF Next, HandlerStep

\* Who is counted, and how many are, changes in three steps, by one connection.
LEMMA CountedStep ==
  ASSUME TypeOK, ClientPlaced, CountIsExact, Next
  PROVE  \/ active' = active /\ CountedSet' = CountedSet
         \/ /\ active' = active + 1 /\ active < Maximum
            /\ \E c \in Peers \ CountedSet : CountedSet' = CountedSet \cup {c}
         \/ /\ active' = active - 1
            /\ \E c \in CountedSet : CountedSet' = CountedSet \ {c}
  <1> DEFINE Same == active' = active /\ CountedSet' = CountedSet
             More == /\ active' = active + 1 /\ active < Maximum
                     /\ \E c \in Peers \ CountedSet : CountedSet' = CountedSet \cup {c}
             Less == /\ active' = active - 1
                     /\ \E c \in CountedSet : CountedSet' = CountedSet \ {c}
  <1> USE DEF TypeOK, ClientPlaced, Goto, Reply, loopVars, handlerVars, CountedSet, Counted
  <1>1. CASE (\E c \in Peers : Accept(c)) \/ Load \/ ConfigureFails \/ AcceptFails
    <2>1. Same
      BY <1>1 DEF Accept, Load, ConfigureFails, AcceptFails
    <2> QED
      BY <2>1
  <1>2. CASE Reject \/ Rejected \/ Start
    <2>1. Same
      BY <1>2 DEF Reject, Rejected, Start
    <2> QED
      BY <2>1
  <1>3. CASE Acquire
    <2>1. CASE active' = active /\ lpc' = lpc
      <3>1. Same
        BY <1>3, <2>1 DEF Acquire
      <3> QED
        BY <3>1
    <2>2. CASE active = seen /\ active' = active + 1 /\ lpc' = "start"
      <3>1. client \in Peers \ CountedSet
        BY <1>3 DEF Acquire
      <3>2. CountedSet' = CountedSet \cup {client}
        BY <1>3, <2>2 DEF Acquire
      <3>3. More
        BY <1>3, <2>2, <3>1, <3>2 DEF Acquire, BelowMaximum
      <3> QED
        BY <3>3
    <2> QED
      BY <1>3, <2>1, <2>2 DEF Acquire
  <1>4. CASE StartFails
    <2>1. client \in CountedSet /\ CountedSet' = CountedSet \ {client}
      BY <1>4 DEF StartFails
    <2> QED
      BY <1>4, <2>1 DEF StartFails
  <1>5. ASSUME NEW c \in Peers, Release(c)
        PROVE  Less
    <2>1. c \in CountedSet /\ CountedSet' = CountedSet \ {c}
      BY <1>5 DEF Release
    <2> QED
      BY <1>5, <2>1 DEF Release
  <1>6. ASSUME NEW c \in Peers,
               Connect(c) \/ Headers(c) \/ Body(c) \/ Received(c) \/ ReceiveFails(c)
        PROVE  Same
    BY <1>6 DEF Connect, Headers, Body, Received, ReceiveFails
  <1>7. ASSUME NEW c \in Peers,
               Parse(c) \/ Generate(c) \/ Stream(c) \/ SendHead(c) \/ SendBody(c)
        PROVE  Same
    BY <1>7 DEF Parse, Generate, Stream, SendHead, SendBody
  <1>8. ASSUME NEW c \in Peers, SendFails(c) \/ Close(c)
        PROVE  Same
    BY <1>8 DEF SendFails, Close
  <1> HIDE DEF TypeOK, ClientPlaced, CountedSet
  <1> QED
    BY <1>1, <1>2, <1>3, <1>4, <1>5, <1>6, <1>7, <1>8 DEF Next, LoopStep, HandlerStep

LEMMA CountStep == ConnectionInvariant /\ Next => CountIsExact'
  <1> SUFFICES ASSUME TypeOK, ClientPlaced, CountIsExact, Next PROVE CountIsExact'
    BY DEF ConnectionInvariant
  <1>1. active' = Cardinality(CountedSet') /\ active' <= Maximum
    BY CountedStep, Counting, ConnectionsAssumption DEF CountIsExact
  <1> QED
    BY <1>1 DEF CountIsExact, CountedSet

-----------------------------------------------------------------------------
(***************************************************************************)
(* What is received.                                                       *)
(***************************************************************************)
LEMMA ReadingStep == ConnectionInvariant /\ Next => Reading' /\ RequestIsWhole'
  <1> DEFINE Sound == Reading /\ RequestIsWhole
  <1> SUFFICES ASSUME TypeOK, ClientPlaced, Reading, RequestIsWhole, Next
               PROVE  Sound'
    BY DEF ConnectionInvariant
  <1> USE DEF ClientPlaced, Reading, RequestIsWhole, Goto, Reply, Total, loopVars, handlerVars
  <1>1. got \in [Peers -> Nat] /\ hpc \in [Peers -> HandlerPcs \cup SendPcs \cup
          {"away", "backlog", "accepted", "close", "closed"}]
        /\ status \in [Peers -> Codes \cup {0}] /\ client \in Peers
    BY DEF TypeOK
  <1>2. \A c \in Peers : /\ offer[c].sent \in Nat /\ offer[c].body \in Nat
                         /\ offer[c].header \in Nat \ {0}
    BY DEF TypeOK, Requests
  <1>3. CASE LoopStep \/ AcceptFails
    <2>1. ASSUME NEW c \in Peers, Accept(c)
          PROVE  Sound'
      BY <1>1, <2>1 DEF Accept
    <2>2. CASE Load \/ ConfigureFails \/ Acquire \/ AcceptFails
      BY <1>1, <2>2 DEF Load, ConfigureFails, Acquire, AcceptFails
    <2>3. CASE Reject \/ Rejected \/ StartFails
      BY <1>1, <2>3 DEF Reject, Rejected, StartFails
    <2>4. CASE Start
      BY <1>1, <1>2, <2>4, ConnectionsAssumption DEF Start
    <2> QED
      BY <1>3, <2>1, <2>2, <2>3, <2>4 DEF LoopStep
  <1>4. ASSUME NEW c \in Peers, Connect(c) \/ ReceiveFails(c) \/ Release(c) \/ Close(c)
        PROVE  Sound'
    BY <1>1, <1>4 DEF Connect, ReceiveFails, Release, Close
  <1>5. ASSUME NEW c \in Peers, Headers(c)
        PROVE  Sound'
    <2>1. PICK n \in Segments(c) :
            /\ got' = [got EXCEPT ![c] = got[c] + n]
            /\ CASE TooLong(c, got[c] + n) -> Reply(c, 400)
                 [] ~TooLong(c, got[c] + n) /\ got[c] + n < offer[c].header ->
                      UNCHANGED <<hpc, status>>
                 [] OTHER ->
                      IF offer[c].kind = "length" \/ offer[c].body > MaxBody
                      THEN Reply(c, 400)
                      ELSE Goto(c, "body") /\ UNCHANGED status
      BY <1>5 DEF Headers
    <2>2. got[c] + n \in Nat /\ got[c] + n <= offer[c].sent
      BY <1>5, SegmentType DEF Headers
    <2>3. CASE TooLong(c, got[c] + n)
      BY <1>1, <1>2, <1>5, <2>1, <2>2, <2>3, ConnectionsAssumption DEF Headers, TooLong
    <2>4. CASE ~TooLong(c, got[c] + n) /\ got[c] + n < offer[c].header
      BY <1>1, <1>2, <1>5, <2>1, <2>2, <2>4, ConnectionsAssumption DEF Headers, TooLong
    <2>5. CASE ~TooLong(c, got[c] + n) /\ ~(got[c] + n < offer[c].header)
      BY <1>1, <1>2, <1>5, <2>1, <2>2, <2>5, ConnectionsAssumption DEF Headers, TooLong
    <2> QED
      BY <2>3, <2>4, <2>5
  <1>6. ASSUME NEW c \in Peers, Body(c)
        PROVE  Sound'
    <2>1. PICK n \in Segments(c) : got' = [got EXCEPT ![c] = got[c] + n]
      BY <1>6 DEF Body
    <2>2. got[c] + n \in Nat /\ got[c] + n <= offer[c].sent
      BY <1>6, SegmentType DEF Body
    <2> QED
      BY <1>1, <1>2, <1>6, <2>1, <2>2 DEF Body
  <1>7. ASSUME NEW c \in Peers, Received(c)
        PROVE  Sound'
    BY <1>1, <1>2, <1>7 DEF Received
  <1>8. ASSUME NEW c \in Peers, Parse(c) \/ Generate(c)
        PROVE  Sound'
    BY <1>1, <1>2, <1>8 DEF Parse, Generate
  <1>9. ASSUME NEW c \in Peers, SendHead(c) \/ SendBody(c) \/ Stream(c) \/ SendFails(c)
        PROVE  Sound'
    BY <1>1, <1>9 DEF SendHead, SendBody, Stream, SendFails
  <1> HIDE DEF Sound
  <1> QED
    BY <1>3, <1>4, <1>5, <1>6, <1>7, <1>8, <1>9 DEF Next, HandlerStep

-----------------------------------------------------------------------------
(***************************************************************************)
(* What is answered.                                                       *)
(***************************************************************************)
\* An answer's first part, and its second.
LEMMA AppendParts ==
  /\ Append(<<>>, <<200, "stream">>) = Streamed
  /\ \A code : /\ Append(<<>>, <<code, "head">>) = Started(code)
               /\ Append(Started(code), <<code, "body">>) = Complete(code)
  <1>1. ASSUME NEW x PROVE Append(<<>>, x) = <<x>>
    <2>1. x \in {x}
      OBVIOUS
    <2>2. ASSUME NEW S, x \in S PROVE Append(<<>>, x) = <<x>>
      BY <2>2
    <2> QED
      BY <2>1, <2>2
  <1>2. ASSUME NEW x, NEW y PROVE Append(<<x>>, y) = <<x, y>>
    <2> DEFINE S == {x, y}
    <2>1. <<x>> \in Seq(S) /\ <<x, y>> \in Seq(S) /\ Len(<<x>>) = 1 /\ Len(<<x, y>>) = 2
      OBVIOUS
    <2>2. Append(<<x>>, y) \in Seq(S) /\ Len(Append(<<x>>, y)) = 2
          /\ Append(<<x>>, y)[1] = x /\ Append(<<x>>, y)[2] = y
      BY <2>1
    <2>3. \A i \in 1..2 : Append(<<x>>, y)[i] = <<x, y>>[i]
      BY <2>2
    <2> QED
      BY <2>1, <2>2, <2>3, SeqEqual
  <1> QED
    BY <1>1, <1>2 DEF Started, Complete, Streamed

\* At most one response, at every place.
LEMMA AnsweringStep == ConnectionInvariant /\ Next => Answering' /\ OneResponse'
  <1> DEFINE Sound == Answering /\ OneResponse
  <1> SUFFICES ASSUME TypeOK, ClientPlaced, Answering, OneResponse, Next
               PROVE  Sound'
    BY DEF ConnectionInvariant
  <1> USE DEF ClientPlaced, Answering, OneResponse, Codes, Goto, Reply, loopVars, handlerVars
  <1>1. answer \in [Peers -> Answers] /\ hpc \in [Peers -> HandlerPcs \cup SendPcs \cup
          {"away", "backlog", "accepted", "close", "closed"}]
        /\ status \in [Peers -> Codes \cup {0}] /\ client \in Peers
    BY DEF TypeOK
  <1>2. CASE LoopStep \/ AcceptFails
    BY <1>1, <1>2 DEF LoopStep, AcceptFails, Accept, Load, ConfigureFails, Acquire,
                      Reject, Rejected, Start, StartFails
  <1>3. ASSUME NEW c \in Peers, Connect(c) \/ Body(c) \/ Received(c) \/ ReceiveFails(c)
        PROVE  Sound'
    BY <1>1, <1>3 DEF Connect, Body, Received, ReceiveFails
  <1>4. ASSUME NEW c \in Peers, Headers(c) \/ Parse(c) \/ Generate(c)
        PROVE  Sound'
    BY <1>1, <1>4 DEF Headers, Parse, Generate
  <1>5. ASSUME NEW c \in Peers, Stream(c)
        PROVE  Sound'
    <2>1. Append(answer[c], <<200, "stream">>) = Streamed
      BY <1>5, AppendParts DEF Stream
    <2>2. answer' = [answer EXCEPT ![c] = Streamed]
      BY <1>5, <2>1 DEF Stream
    <2> QED
      BY <1>1, <1>5, <2>2 DEF Stream
  <1>6. ASSUME NEW c \in Peers, SendHead(c)
        PROVE  Sound'
    <2>1. Append(answer[c], <<status[c], "head">>) = Started(status[c])
      BY SMTT(60), <1>6, AppendParts DEF SendHead
    <2>2. answer' = [answer EXCEPT ![c] = Started(status[c])]
      BY ZenonT(60), <1>6, <2>1 DEF SendHead
    <2> QED
      BY <1>1, <1>6, <2>2 DEF SendHead
  <1>7. ASSUME NEW c \in Peers, SendBody(c)
        PROVE  Sound'
    <2>1. Append(answer[c], <<status[c], "body">>) = Complete(status[c])
      BY <1>7, AppendParts DEF SendBody
    <2>2. answer' = [answer EXCEPT ![c] = Complete(status[c])]
      BY ZenonT(60), <1>7, <2>1 DEF SendBody
    <2> QED
      BY SMTT(60), <1>1, <1>7, <2>2 DEF SendBody
  <1>8. ASSUME NEW c \in Peers, SendFails(c) \/ Release(c) \/ Close(c)
        PROVE  Sound'
    BY <1>1, <1>8 DEF SendFails, Release, Close
  <1> HIDE DEF Sound
  <1> QED
    BY <1>2, <1>3, <1>4, <1>5, <1>6, <1>7, <1>8 DEF Next, HandlerStep

-----------------------------------------------------------------------------
(***************************************************************************)
(* The theorems.                                                           *)
(***************************************************************************)
LEMMA InvariantInit == Init => ConnectionInvariant
  <1> SUFFICES ASSUME Init PROVE ConnectionInvariant
    OBVIOUS
  <1>1. TypeOK
    BY TypeInit
  <1>2. CountIsExact
    <2>1. {c \in Peers : Counted(c)} = {}
      BY DEF Init, Counted
    <2>2. active = 0 /\ Maximum \in Nat
      BY ConnectionsAssumption DEF Init
    <2>3. Cardinality({c \in Peers : Counted(c)}) = 0
      BY <2>1, FS_EmptySet
    <2> QED
      BY <2>2, <2>3 DEF CountIsExact
  <1>3. ClientPlaced /\ Reading /\ RequestIsWhole
    BY DEF Init, ClientPlaced, Reading, RequestIsWhole
  <1>4. Answering /\ OneResponse
    BY DEF Init, Answering, OneResponse
  <1> QED
    BY <1>1, <1>2, <1>3, <1>4 DEF ConnectionInvariant

LEMMA InvariantStep == ConnectionInvariant /\ [Next]_vars => ConnectionInvariant'
  <1>1. CASE Next
    BY <1>1, TypeStep, PlacedStep, CountStep, ReadingStep, AnsweringStep
    DEF ConnectionInvariant
  <1>2. ConnectionInvariant /\ UNCHANGED vars => ConnectionInvariant'
    BY DEF ConnectionInvariant, vars, loopVars, handlerVars, TypeOK, ClientPlaced,
           CountIsExact, Counted, Reading, RequestIsWhole, Total, Answering, OneResponse
  <1> QED
    BY <1>1, <1>2

\* The conjunction of what follows and of what it needs is an invariant, for any
\* finite set of peers, any requests, and any of the limits of src/server.cpp.
THEOREM ConnectionInvariantHolds == Spec => []ConnectionInvariant
  BY InvariantInit, InvariantStep, PTL DEF Spec

\* Every variable keeps its type.
THEOREM TypeCorrect == Spec => []TypeOK
  <1>1. ConnectionInvariant => TypeOK
    BY DEF ConnectionInvariant
  <1> QED
    BY <1>1, ConnectionInvariantHolds, PTL

\* active_connections is the number of connections that are handled and at most
\* maximum_connections, whatever fails in the accept loop or in a thread.
THEOREM CountHolds == Spec => []CountIsExact
  <1>1. ConnectionInvariant => CountIsExact
    BY DEF ConnectionInvariant
  <1> QED
    BY <1>1, ConnectionInvariantHolds, PTL

\* In any segmentation, receive_request returns the request that was sent, within
\* the limits, and refuses only what breaks one.
THEOREM RequestHolds == Spec => []RequestIsWhole
  <1>1. ConnectionInvariant => RequestIsWhole
    BY DEF ConnectionInvariant
  <1> QED
    BY <1>1, ConnectionInvariantHolds, PTL

\* handle_client and reject_busy send at most one response, in order.
THEOREM ResponseHolds == Spec => []OneResponse
  <1>1. ConnectionInvariant => OneResponse
    BY DEF ConnectionInvariant
  <1> QED
    BY <1>1, ConnectionInvariantHolds, PTL
=============================================================================
