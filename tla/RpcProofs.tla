------------------------------- MODULE RpcProofs -------------------------------
(***************************************************************************)
(* Proofs about Rpc, for any number of connections and calls: the answers  *)
(* on their way carry the number of their call, which gives that a         *)
(* callback gets its own answer, once; and a session is connected, then    *)
(* queued for its cleanup, then deleted, each at most once.                *)
(***************************************************************************)
EXTENDS Rpc, SequenceTheorems, TLAPS

Answer == {"response", "failed", "not implemented"}
Message == [type : Answer \cup {"request", "stream"}, id : Nat, body : Nat]

CallTypes ==
  /\ m_sequence \in [Chan -> Nat]
  /\ m_responses \in [Chan -> SUBSET Nat]
  /\ outcome \in [Chan -> Seq(Seq(Nat))]

\* Every message and every request kept carries what belongs to its number.
Carries(w) ==
  /\ w \in [Chan -> Seq(Message)]
  /\ \A c \in Chan : \A k \in 1..Len(w[c]) : w[c][k].body = w[c][k].id

Keeps(rs) == \A r \in rs : r.chan \in Chan /\ r.id \in Nat /\ r.body = r.id

\* A call that waits for its answer is one that was made, and its callback has
\* not been run.
Outstanding ==
  \A c \in Chan :
    /\ Len(outcome[c]) = m_sequence[c]
    /\ \A id \in m_responses[c] : id \in 1..m_sequence[c] /\ outcome[c][id] = <<>>

ReplyInv == CallTypes /\ Carries(wire) /\ Keeps(serving) /\ Outstanding /\ OwnReply

Server(s) == <<s, "server">>

ChannelState == {"none", "open", "failed", "closed", "deleted"}

SessionTypes ==
  /\ channel \in [Chan -> ChannelState]
  /\ removed \in [Session -> {0, 1}]
  /\ client \in [Session -> Address \cup {NoAddress}]
  /\ m_connected_sockets \subseteq Session
  /\ cleanup \subseteq Session

\* A session is connected, then queued for its cleanup, then deleted, and is
\* read from only while it is connected.
ConnectedAt(s) ==
  /\ Server(s) \in m_on_close <=> s \in m_connected_sockets
  /\ s \in m_connected_sockets =>
       removed[s] = 0 /\ s \notin cleanup /\ channel[Server(s)] \in {"open", "closed"}
  /\ Server(s) \in polled => s \in m_connected_sockets
  /\ s \in cleanup => channel[Server(s)] \notin {"none", "deleted"}
  /\ channel[Server(s)] = "none" => removed[s] = 0
  /\ channel[Server(s)] = "none" <=> client[s] = NoAddress

Connected == \A s \in Session : ConnectedAt(s)

\* The broker's clients are those of the connected sessions.
Brokered == \A a \in m_clients : \E s \in m_connected_sockets : client[s] = a

\* A request is kept with the address of its session's Client.
Kept ==
  \A r \in serving :
    \E s \in Session : /\ r.chan = Server(s) /\ r.client = client[s]
                       /\ client[s] # NoAddress

\* What has been misused, and why.
Excused ==
  \A s \in Session :
    /\ <<s, "channel">> \notin misused
    /\ <<s, "answer">> \in misused =>
         client[s] # NoAddress /\ \E t \in Session \ {s} : client[t] = client[s]
    /\ <<s, "client">> \in misused => channel[Server(s)] \in {"failed", "deleted"}

Sessions == SessionTypes /\ Connected /\ Brokered

SessionInv == Sessions /\ Kept /\ Excused

-----------------------------------------------------------------------------
(* Channels and messages.                                                   *)

LEMMA ChanFacts ==
  /\ \A c \in Chan : Peer(c) \in Chan /\ c = <<c[1], c[2]>> /\ c[1] \in Session
  /\ \A s \in Session : Server(s) \in Chan /\ <<s, "client">> \in Chan
  /\ \A s, t \in Session : Server(s) = Server(t) => s = t
  /\ \A s, t \in Session : Server(s) # <<t, "client">>
  /\ \A c \in Chan : c[2] = "server" => c = Server(c[1])
  /\ \A c \in Chan : c[2] # "server" => c = <<c[1], "client">>
BY DEF Chan, End, Peer, Server

LEMMA SendFacts ==
  ASSUME NEW c \in Chan, NEW rest, Carries(rest),
         NEW message \in Message, message.body = message.id,
         SendMsg(c, message, rest)
  PROVE  Carries(wire')
<1>1. CASE wire' = rest
  BY <1>1 DEF Carries
<1>2. CASE wire' = [rest EXCEPT ![Peer(c)] = Append(@, message)]
  <2>1. Peer(c) \in Chan /\ rest \in [Chan -> Seq(Message)]
    BY ChanFacts DEF Carries
  <2>2. /\ wire' \in [Chan -> Seq(Message)]
        /\ wire'[Peer(c)] = Append(rest[Peer(c)], message)
        /\ \A d \in Chan : d # Peer(c) => wire'[d] = rest[d]
    BY <1>2, <2>1
  <2>3. ASSUME NEW d \in Chan, NEW k \in 1..Len(wire'[d])
        PROVE  wire'[d][k].body = wire'[d][k].id
    <3>1. CASE d # Peer(c)
      BY <2>2, <3>1 DEF Carries
    <3>2. CASE d = Peer(c)
      <4>1. rest[d] \in Seq(Message) /\ Len(rest[d]) \in Nat
        BY <2>1
      <4>2. /\ k \in 1..(Len(rest[d]) + 1)
            /\ wire'[d][k] = IF k = Len(rest[d]) + 1 THEN message ELSE rest[d][k]
        <5>1. wire'[d] = Append(rest[d], message)
          BY <2>2, <3>2
        <5>2. k \in 1..Len(Append(rest[d], message))
          BY <5>1
        <5>3. k \in 1..(Len(rest[d]) + 1)
          BY <4>1, <5>2
        <5>4. Append(rest[d], message)[k] = IF k = Len(rest[d]) + 1 THEN message ELSE rest[d][k]
          BY <4>1, <5>3
        <5> QED
          BY <5>1, <5>3, <5>4
      <4>3. CASE k = Len(rest[d]) + 1
        BY <4>2, <4>3
      <4>4. CASE k # Len(rest[d]) + 1
        <5>1. k \in 1..Len(rest[d]) /\ wire'[d][k] = rest[d][k]
          BY <4>1, <4>2, <4>4
        <5> QED
          BY <5>1 DEF Carries
      <4> QED
        BY <4>3, <4>4
    <3> QED
      BY <3>1, <3>2
  <2> QED
    BY <2>2, <2>3 DEF Carries
<1> QED
  BY <1>1, <1>2 DEF SendMsg, Sent, SendFails, NotSent

LEMMA ReadFacts ==
  ASSUME Carries(wire), NEW c \in Chan, wire[c] # <<>>
  PROVE  /\ Carries(Read(c))
         /\ Head(wire[c]) \in Message
         /\ Head(wire[c]).body = Head(wire[c]).id
         /\ Head(wire[c]).id \in Nat
<1>1. wire \in [Chan -> Seq(Message)] /\ wire[c] \in Seq(Message) /\ Len(wire[c]) \in Nat
  BY DEF Carries
<1>2. /\ Tail(wire[c]) \in Seq(Message) /\ Len(Tail(wire[c])) = Len(wire[c]) - 1
      /\ \A k \in 1..Len(Tail(wire[c])) : Tail(wire[c])[k] = wire[c][k + 1]
      /\ Head(wire[c]) = wire[c][1] /\ 1 \in 1..Len(wire[c])
  BY <1>1
<1>3. Head(wire[c]) \in Message
  BY <1>1, <1>2
<1>4. Head(wire[c]).body = Head(wire[c]).id /\ Head(wire[c]).id \in Nat
  BY <1>2, <1>3 DEF Carries, Message
<1>5. /\ Read(c) \in [Chan -> Seq(Message)]
      /\ Read(c)[c] = Tail(wire[c])
      /\ \A d \in Chan : d # c => Read(c)[d] = wire[d]
  BY <1>1, <1>2 DEF Read
<1>6. ASSUME NEW d \in Chan, NEW k \in 1..Len(Read(c)[d])
      PROVE  Read(c)[d][k].body = Read(c)[d][k].id
  <2>1. CASE d # c
    BY <1>5, <2>1 DEF Carries
  <2>2. CASE d = c
    <3>1. k \in 1..Len(Tail(wire[c])) /\ Read(c)[d][k] = Tail(wire[c])[k]
      BY <1>5, <2>2
    <3>2. k + 1 \in 1..Len(wire[c]) /\ Read(c)[d][k] = wire[c][k + 1]
      BY <1>1, <1>2, <3>1
    <3> QED
      BY <3>2 DEF Carries
  <2> QED
    BY <2>1, <2>2
<1> QED
  BY <1>3, <1>4, <1>5, <1>6 DEF Carries

-----------------------------------------------------------------------------
(* The callback of a call.                                                  *)

CallInv == CallTypes /\ Outstanding /\ OwnReply

LEMMA CallFacts ==
  ASSUME CallInv, NEW c \in Chan
  PROVE  /\ m_sequence[c] \in Nat /\ m_responses[c] \subseteq Nat
         /\ outcome[c] \in Seq(Seq(Nat)) /\ Len(outcome[c]) = m_sequence[c]
         /\ DOMAIN outcome[c] = 1..m_sequence[c]
         /\ \A id \in m_responses[c] : id \in 1..m_sequence[c] /\ outcome[c][id] = <<>>
         /\ \A id \in 1..m_sequence[c] :
              /\ Len(outcome[c][id]) <= 1
              /\ Len(outcome[c][id]) = 1 => outcome[c][id][1] \in {id, Failed}
<1>1. /\ m_sequence[c] \in Nat /\ m_responses[c] \subseteq Nat
      /\ outcome[c] \in Seq(Seq(Nat)) /\ Len(outcome[c]) = m_sequence[c]
      /\ \A id \in m_responses[c] : id \in 1..m_sequence[c] /\ outcome[c][id] = <<>>
  BY DEF CallInv, CallTypes, Outstanding
<1>2. DOMAIN outcome[c] = 1..m_sequence[c]
  BY <1>1
<1> QED
  BY <1>1, <1>2 DEF CallInv, OwnReply

\* Only channel c's calls change, and they are as they should be.
LEMMA CallInvAt ==
  ASSUME CallInv, NEW c \in Chan, CallTypes',
         \A d \in Chan : d # c => /\ m_sequence'[d] = m_sequence[d]
                                  /\ m_responses'[d] = m_responses[d]
                                  /\ outcome'[d] = outcome[d],
         Len(outcome'[c]) = m_sequence'[c],
         \A id \in m_responses'[c] : id \in 1..m_sequence'[c] /\ outcome'[c][id] = <<>>,
         \A id \in DOMAIN outcome'[c] :
           /\ Len(outcome'[c][id]) <= 1
           /\ Len(outcome'[c][id]) = 1 => outcome'[c][id][1] \in {id, Failed}
  PROVE  CallInv'
<1>1. Outstanding'
  BY DEF CallInv, Outstanding
<1>2. OwnReply'
  BY DEF CallInv, OwnReply
<1> QED
  BY <1>1, <1>2 DEF CallInv

\* A call is made: it waits for its answer, or has failed at once.
LEMMA CallMade ==
  ASSUME CallInv, NEW c \in Chan, NEW result \in {<<>>, <<Failed>>},
         m_sequence' = [m_sequence EXCEPT ![c] = @ + 1],
         outcome' = [outcome EXCEPT ![c] = Append(@, result)],
         \/ m_responses' = m_responses
         \/ /\ result = <<>>
            /\ m_responses' = [m_responses EXCEPT ![c] = @ \cup {m_sequence'[c]}]
  PROVE  CallInv'
<1>1. /\ m_sequence \in [Chan -> Nat] /\ m_responses \in [Chan -> SUBSET Nat]
      /\ outcome \in [Chan -> Seq(Seq(Nat))]
  BY DEF CallInv, CallTypes
<1>2. PICK n \in Nat : n = m_sequence[c]
  BY <1>1
<1>3. /\ outcome[c] \in Seq(Seq(Nat)) /\ Len(outcome[c]) = n
      /\ m_responses[c] \subseteq Nat
      /\ \A id \in m_responses[c] : id \in 1..n /\ outcome[c][id] = <<>>
      /\ \A id \in 1..n :
           /\ Len(outcome[c][id]) <= 1
           /\ Len(outcome[c][id]) = 1 => outcome[c][id][1] \in {id, Failed}
  BY <1>2, CallFacts
<1>4. result \in Seq(Nat) /\ Len(result) <= 1 /\ (Len(result) = 1 => result[1] = Failed)
  <2>1. CASE result = <<>>
    BY <2>1
  <2>2. CASE result = <<Failed>>
    <3>1. Failed \in Nat
      BY DEF Failed
    <3> QED
      BY <2>2, <3>1
  <2> QED
    BY <2>1, <2>2
<1>5. /\ m_sequence' \in [Chan -> Nat] /\ m_sequence'[c] = n + 1
      /\ \A d \in Chan : d # c => m_sequence'[d] = m_sequence[d]
  BY <1>1, <1>2
<1>6. /\ Append(outcome[c], result) \in Seq(Seq(Nat))
      /\ Len(Append(outcome[c], result)) = n + 1
      /\ DOMAIN Append(outcome[c], result) = 1..(n + 1)
      /\ \A i \in 1..n : Append(outcome[c], result)[i] = outcome[c][i]
      /\ Append(outcome[c], result)[n + 1] = result
  BY <1>3, <1>4
<1>7. /\ outcome' \in [Chan -> Seq(Seq(Nat))]
      /\ outcome'[c] = Append(outcome[c], result)
      /\ \A d \in Chan : d # c => outcome'[d] = outcome[d]
  BY <1>1, <1>6
<1>8. /\ m_responses' \in [Chan -> SUBSET Nat]
      /\ \A d \in Chan : d # c => m_responses'[d] = m_responses[d]
      /\ \A id \in m_responses'[c] : id \in m_responses[c] \/ (id = n + 1 /\ result = <<>>)
  <2>1. CASE m_responses' = m_responses
    BY <1>1, <2>1
  <2>2. CASE /\ result = <<>>
             /\ m_responses' = [m_responses EXCEPT ![c] = @ \cup {n + 1}]
    BY <1>1, <2>2
  <2> QED
    BY <1>5, <2>1, <2>2
<1>9. ASSUME NEW id \in m_responses'[c]
      PROVE  id \in 1..m_sequence'[c] /\ outcome'[c][id] = <<>>
  <2>1. CASE id = n + 1 /\ result = <<>>
    BY <1>5, <1>6, <1>7, <2>1
  <2>2. CASE id \in m_responses[c]
    <3>1. id \in 1..n /\ outcome[c][id] = <<>>
      BY <1>3, <2>2
    <3> QED
      BY <1>5, <1>6, <1>7, <3>1
  <2> QED
    BY <1>8, <2>1, <2>2
<1>10. ASSUME NEW id \in DOMAIN outcome'[c]
       PROVE  /\ Len(outcome'[c][id]) <= 1
              /\ Len(outcome'[c][id]) = 1 => outcome'[c][id][1] \in {id, Failed}
  <2>1. id \in 1..n \/ id = n + 1
    BY <1>6, <1>7
  <2>2. CASE id \in 1..n
    BY <1>3, <1>6, <1>7, <2>2
  <2>3. CASE id = n + 1
    BY <1>4, <1>6, <1>7, <2>3
  <2> QED
    BY <2>1, <2>2, <2>3
<1>11. CallTypes'
  BY <1>5, <1>7, <1>8 DEF CallTypes
<1> QED
  BY <1>5, <1>6, <1>7, <1>8, <1>9, <1>10, <1>11, CallInvAt, SMTT(30)

\* A call is answered; the answer is its own.
LEMMA CallAnswered ==
  ASSUME CallInv, NEW c \in Chan, NEW id \in Nat, NEW result \in {id, Failed},
         m_sequence' = m_sequence,
         m_responses' = [m_responses EXCEPT ![c] = @ \ {id}],
         outcome' = IF id \notin m_responses[c] THEN outcome
                    ELSE Completed(c, id, result)
  PROVE  CallInv'
<1>1. /\ m_sequence \in [Chan -> Nat] /\ m_responses \in [Chan -> SUBSET Nat]
      /\ outcome \in [Chan -> Seq(Seq(Nat))]
  BY DEF CallInv, CallTypes
<1>2. /\ m_responses' \in [Chan -> SUBSET Nat]
      /\ \A d \in Chan : d # c => m_responses'[d] = m_responses[d]
      /\ m_responses'[c] = m_responses[c] \ {id}
  BY <1>1
<1>3. CASE id \notin m_responses[c]
  <2>1. outcome' = outcome /\ CallTypes'
    BY <1>1, <1>2, <1>3 DEF CallTypes
  <2>2. /\ Outstanding' /\ OwnReply'
    BY <1>2, <2>1 DEF CallInv, Outstanding, OwnReply
  <2> QED
    BY <2>1, <2>2 DEF CallInv
<1>4. CASE id \in m_responses[c]
  <2>1. PICK n \in Nat : n = m_sequence[c]
    BY <1>1
  <2>2. /\ outcome[c] \in Seq(Seq(Nat)) /\ Len(outcome[c]) = n
        /\ DOMAIN outcome[c] = 1..n
        /\ \A i \in m_responses[c] : i \in 1..n /\ outcome[c][i] = <<>>
        /\ \A i \in 1..n :
             /\ Len(outcome[c][i]) <= 1
             /\ Len(outcome[c][i]) = 1 => outcome[c][i][1] \in {i, Failed}
    BY <2>1, CallFacts
  <2>3. id \in 1..n /\ outcome[c][id] = <<>>
    BY <1>4, <2>2
  <2>4. result \in Nat /\ Append(<<>>, result) = <<result>>
    BY DEF Failed
  <2>5. <<result>> \in Seq(Nat) /\ Len(<<result>>) = 1 /\ <<result>>[1] = result
    BY <2>4
  <2>6. outcome' = [outcome EXCEPT ![c] = [outcome[c] EXCEPT ![id] = <<result>>]]
    BY <1>4, <2>3, <2>4 DEF Completed
  <2>7. /\ [outcome[c] EXCEPT ![id] = <<result>>] \in Seq(Seq(Nat))
        /\ Len([outcome[c] EXCEPT ![id] = <<result>>]) = n
        /\ DOMAIN [outcome[c] EXCEPT ![id] = <<result>>] = 1..n
        /\ [outcome[c] EXCEPT ![id] = <<result>>][id] = <<result>>
        /\ \A i \in 1..n : i # id => [outcome[c] EXCEPT ![id] = <<result>>][i] = outcome[c][i]
    BY <2>2, <2>3, <2>5
  <2>8. /\ outcome' \in [Chan -> Seq(Seq(Nat))]
        /\ outcome'[c] = [outcome[c] EXCEPT ![id] = <<result>>]
        /\ \A d \in Chan : d # c => outcome'[d] = outcome[d]
    BY <1>1, <2>6, <2>7
  <2>9. ASSUME NEW i \in m_responses'[c]
        PROVE  i \in 1..m_sequence'[c] /\ outcome'[c][i] = <<>>
    BY <1>2, <2>1, <2>2, <2>7, <2>8
  <2>10. ASSUME NEW i \in DOMAIN outcome'[c]
         PROVE  /\ Len(outcome'[c][i]) <= 1
                /\ Len(outcome'[c][i]) = 1 => outcome'[c][i][1] \in {i, Failed}
    <3>1. CASE i = id
      <4>1. outcome'[c][i] = <<result>>
        BY <2>7, <2>8, <3>1
      <4>2. Len(outcome'[c][i]) = 1 /\ outcome'[c][i][1] = result
        BY <2>5, <4>1, Zenon
      <4>3. \A k : k = 1 => k <= 1
        OBVIOUS
      <4> QED
        BY <3>1, <4>2, <4>3, Zenon
    <3>2. CASE i # id
      BY <2>2, <2>7, <2>8, <3>2
    <3> QED
      BY <3>1, <3>2
  <2>11. CallTypes'
    BY <1>1, <1>2, <2>8 DEF CallTypes
  <2>12. /\ Len(outcome'[c]) = m_sequence'[c]
         /\ \A d \in Chan : d # c => /\ m_sequence'[d] = m_sequence[d]
                                     /\ m_responses'[d] = m_responses[d]
                                     /\ outcome'[d] = outcome[d]
    BY <1>2, <2>1, <2>7, <2>8
  <2> QED
    BY <2>9, <2>10, <2>11, <2>12, CallInvAt
<1> QED
  BY <1>3, <1>4

-----------------------------------------------------------------------------
(* Every step keeps the answers apart.                                      *)

LEMMA CallMethodReply ==
  ASSUME ReplyInv, NEW c \in Chan, CallMethod(c)
  PROVE  ReplyInv'
<1>1. CallInv /\ Carries(wire) /\ Keeps(serving) /\ m_sequence \in [Chan -> Nat]
  BY DEF ReplyInv, CallInv, CallTypes
<1>2. /\ m_sequence' = [m_sequence EXCEPT ![c] = @ + 1] /\ serving' = serving
      /\ m_sequence'[c] \in Nat
  BY <1>1 DEF CallMethod
<1>3. PICK message \in Message :
        message = [type |-> "request", id |-> m_sequence'[c], body |-> m_sequence'[c]]
  BY <1>2 DEF Message, Answer
<1>4. message.body = message.id
  BY <1>3
<1>5. \/ /\ Sent(c, message, wire)
         /\ m_responses' = [m_responses EXCEPT ![c] = @ \cup {m_sequence'[c]}]
         /\ outcome' = [outcome EXCEPT ![c] = Append(@, <<>>)]
      \/ /\ SendFails(c, wire) \/ NotSent(c, wire)
         /\ outcome' = [outcome EXCEPT ![c] = Append(@, <<Failed>>)]
         /\ m_responses' = m_responses
  BY <1>3 DEF CallMethod
<1>6. SendMsg(c, message, wire)
  BY <1>5 DEF SendMsg
<1>7. Carries(wire')
  BY <1>1, <1>4, <1>6, SendFacts
<1>8. CallInv'
  BY <1>1, <1>2, <1>5, CallMade
<1> QED
  BY <1>1, <1>2, <1>7, <1>8 DEF ReplyInv, CallInv, Keeps

LEMMA CallStreamingReply ==
  ASSUME ReplyInv, NEW s \in Session, CallStreaming(s)
  PROVE  ReplyInv'
<1> DEFINE c == <<s, "client">>
<1>1. /\ CallInv /\ Carries(wire) /\ Keeps(serving) /\ m_sequence \in [Chan -> Nat]
      /\ c \in Chan
  BY ChanFacts DEF ReplyInv, CallInv, CallTypes
<1>2. /\ m_sequence' = [m_sequence EXCEPT ![c] = @ + 1] /\ serving' = serving
      /\ outcome' = [outcome EXCEPT ![c] = Append(@, <<>>)]
      /\ m_responses' = m_responses
      /\ SendMsg(c, [type |-> "stream", id |-> m_sequence'[c], body |-> m_sequence'[c]], wire)
  BY DEF CallStreaming
<1> HIDE DEF c
<1>3. m_sequence'[c] \in Nat
  BY <1>1, <1>2
<1>4. PICK message \in Message :
        message = [type |-> "stream", id |-> m_sequence'[c], body |-> m_sequence'[c]]
  BY <1>3 DEF Message, Answer
<1>5. message.body = message.id /\ SendMsg(c, message, wire)
  BY <1>2, <1>4
<1>6. Carries(wire')
  BY <1>1, <1>5, SendFacts
<1>7. CallInv'
  BY <1>1, <1>2, CallMade
<1> QED
  BY <1>1, <1>2, <1>6, <1>7 DEF ReplyInv, CallInv, Keeps

LEMMA HandleResponseReply ==
  ASSUME ReplyInv, NEW c \in Chan, HandleResponse(c)
  PROVE  ReplyInv'
<1>1. /\ CallInv /\ Carries(wire) /\ Keeps(serving) /\ wire[c] # <<>>
      /\ wire' = Read(c) /\ serving' = serving /\ m_sequence' = m_sequence
  BY DEF ReplyInv, CallInv, HandleResponse, Readable
<1>2. PICK msg \in Message : msg = Head(wire[c]) /\ msg.body = msg.id /\ msg.id \in Nat
  BY <1>1, ReadFacts
<1>3. PICK result \in {msg.id, Failed} :
        result = IF msg.type = "response" THEN msg.body ELSE Failed
  BY <1>2
<1>4. /\ m_responses' = [m_responses EXCEPT ![c] = @ \ {msg.id}]
      /\ outcome' = IF msg.id \notin m_responses[c] THEN outcome
                    ELSE Completed(c, msg.id, result)
  BY <1>2, <1>3 DEF HandleResponse
<1>5. CallInv'
  BY <1>1, <1>2, <1>3, <1>4, CallAnswered
<1>6. Carries(wire')
  BY <1>1, ReadFacts
<1> QED
  BY <1>1, <1>5, <1>6 DEF ReplyInv, CallInv, Keeps

\* The steps that make no call and answer none.
LEMMA OthersReply ==
  ASSUME ReplyInv, UNCHANGED callVars, Carries(wire'), Keeps(serving')
  PROVE  ReplyInv'
BY DEF ReplyInv, callVars, CallTypes, Outstanding, OwnReply

LEMMA RequestReply ==
  ASSUME ReplyInv, NEW c \in Chan, NEW type \in Answer, NEW id \in Nat, NEW rest,
         Carries(rest), SendMsg(c, [type |-> type, id |-> id, body |-> id], rest)
  PROVE  Carries(wire')
<1>1. PICK message \in Message : message = [type |-> type, id |-> id, body |-> id]
  BY DEF Message
<1>2. message.body = message.id
  BY <1>1
<1> QED
  BY <1>1, <1>2, SendFacts

LEMMA ServingReply ==
  ASSUME ReplyInv, NEW c \in Chan,
         \/ HandleRequest(c) \/ HandleStreamRequest(c)
         \/ c[2] = "server" /\ HandleRDMRequest(c[1])
         \/ c[2] = "client" /\ ReadWithoutDescriptor(c[1])
  PROVE  ReplyInv'
<1>1. Carries(wire) /\ Keeps(serving)
  BY DEF ReplyInv
<1>2. CASE HandleRequest(c)
  <2>1. UNCHANGED callVars /\ wire[c] # <<>> /\ serving' = serving
    BY <1>2 DEF HandleRequest, Readable
  <2>2. PICK id \in Nat : id = Head(wire[c]).id /\ id = Head(wire[c]).body /\ Carries(Read(c))
    BY <1>1, <2>1, ReadFacts
  <2>3. \/ wire' = Read(c)
        \/ \E type \in Answer : SendMsg(c, [type |-> type, id |-> id, body |-> id], Read(c))
    BY <1>2, <2>2 DEF HandleRequest, RequestComplete, Answer
  <2>4. Carries(wire')
    BY <2>2, <2>3, RequestReply
  <2> QED
    BY <1>1, <2>1, <2>4, OthersReply
<1>3. CASE HandleStreamRequest(c)
  <2>1. UNCHANGED callVars /\ wire[c] # <<>> /\ serving' = serving
    BY <1>3 DEF HandleStreamRequest, Readable
  <2>2. PICK id \in Nat : id = Head(wire[c]).id /\ id = Head(wire[c]).body /\ Carries(Read(c))
    BY <1>1, <2>1, ReadFacts
  <2>3. PICK type \in Answer : type = "not implemented"
    BY DEF Answer
  <2>4. \/ wire' = Read(c)
        \/ SendMsg(c, [type |-> type, id |-> id, body |-> id], Read(c))
    BY <1>3, <2>2, <2>3 DEF HandleStreamRequest
  <2>5. Carries(wire')
    BY <2>2, <2>4, RequestReply
  <2> QED
    BY <1>1, <2>1, <2>5, OthersReply
<1>4. CASE c[2] = "server" /\ HandleRDMRequest(c[1])
  <2>1. c = <<c[1], "server">>
    BY <1>4, ChanFacts DEF Server
  <2>2. /\ UNCHANGED callVars /\ wire[c] # <<>> /\ wire' = Read(c)
        /\ serving' = serving \cup {[chan |-> c, id |-> Head(wire[c]).id,
                                     body |-> Head(wire[c]).body, client |-> client[c[1]]]}
    BY <1>4, <2>1 DEF HandleRDMRequest, Readable
  <2>3. PICK id \in Nat : id = Head(wire[c]).id /\ id = Head(wire[c]).body /\ Carries(Read(c))
    BY <1>1, <2>2, ReadFacts
  <2> QED
    <3>1. PICK r : r = [chan |-> c, id |-> id, body |-> id, client |-> client[c[1]]]
      OBVIOUS
    <3>2. serving' = serving \cup {r} /\ r.chan \in Chan /\ r.id \in Nat /\ r.body = r.id
      BY <2>2, <2>3, <3>1
    <3>3. Keeps(serving')
      BY <1>1, <3>2 DEF Keeps
    <3> QED
      BY <2>2, <2>3, <3>3, OthersReply
<1>5. CASE c[2] = "client" /\ ReadWithoutDescriptor(c[1])
  BY <1>1, <1>5, OthersReply DEF ReadWithoutDescriptor
<1> QED
  BY <1>2, <1>3, <1>4, <1>5

LEMMA RDMCompleteReply ==
  ASSUME ReplyInv, NEW r \in serving, RDMComplete(r)
  PROVE  ReplyInv'
<1>1. Carries(wire) /\ Keeps(serving) /\ r.chan \in Chan /\ r.id \in Nat /\ r.body = r.id
  BY DEF ReplyInv, Keeps
<1>2. UNCHANGED callVars /\ serving' = serving \ {r}
  BY DEF RDMComplete
<1>3. Keeps(serving')
  BY <1>1, <1>2 DEF Keeps
<1>4. PICK c \in Chan, id \in Nat : c = r.chan /\ id = r.id /\ id = r.body
  BY <1>1
<1>5. \/ wire' = wire
      \/ SendMsg(c, [type |-> "response", id |-> id, body |-> id], wire)
  BY <1>4 DEF RDMComplete, RequestComplete
<1>6. "response" \in Answer
  BY DEF Answer
<1>7. Carries(wire')
  BY <1>1, <1>5, <1>6, RequestReply
<1> QED
  BY <1>2, <1>3, <1>7, OthersReply

LEMMA ReplyNext ==
  ASSUME ReplyInv, [Next]_vars
  PROVE  ReplyInv'
<1>1. ASSUME UNCHANGED <<callVars, wire, serving>>
      PROVE  ReplyInv'
  BY <1>1, OthersReply DEF ReplyInv
<1>2. ASSUME NEW s \in Session, AddClient(s) \/ CleanupChannel(s)
      PROVE  ReplyInv'
  BY <1>1, <1>2 DEF AddClient, CleanupChannel
<1>3. ASSUME NEW c \in Chan, Close(c) \/ OnClose(c)
      PROVE  ReplyInv'
  BY <1>1, <1>3 DEF Close, OnClose
<1>4. ASSUME Destroy \/ UNCHANGED vars
      PROVE  ReplyInv'
  BY <1>1, <1>4 DEF Destroy, vars
<1> QED
  BY <1>2, <1>3, <1>4, CallMethodReply, CallStreamingReply, HandleResponseReply,
     ServingReply, RDMCompleteReply
  DEF Next, Reads

LEMMA ReplyInit ==
  ASSUME Init
  PROVE  ReplyInv
<1>1. /\ wire = [c \in Chan |-> <<>>] /\ m_sequence = [c \in Chan |-> 0]
      /\ m_responses = [c \in Chan |-> {}] /\ outcome = [c \in Chan |-> <<>>]
      /\ serving = {}
  BY DEF Init
<1>2. <<>> \in Seq(Message) /\ <<>> \in Seq(Seq(Nat)) /\ Len(<<>>) = 0 /\ DOMAIN <<>> = {}
  OBVIOUS
<1>3. Carries(wire) /\ Keeps(serving)
  BY <1>1, <1>2 DEF Carries, Keeps
<1>4. CallTypes
  BY <1>1, <1>2 DEF CallTypes
<1>5. Outstanding /\ OwnReply
  BY <1>1, <1>2 DEF Outstanding, OwnReply
<1> QED
  BY <1>3, <1>4, <1>5 DEF ReplyInv

\* Whatever is lost, delayed or closed, the callback of a call is run at most
\* once and with the answer to that call, or as failed (OwnReply): m_responses
\* and the numbers of the messages keep any number of calls apart.
THEOREM OwnReplyHolds == Spec => []OwnReply
<1>1. Init => ReplyInv
  BY ReplyInit
<1>2. ReplyInv /\ [Next]_vars => ReplyInv'
  BY ReplyNext
<1>3. ReplyInv => OwnReply
  BY DEF ReplyInv
<1> QED
  BY <1>1, <1>2, <1>3, PTL DEF Spec

-----------------------------------------------------------------------------
(* The end of a session.                                                    *)

\* No session is added, no channel deleted, and none gets a descriptor again.
SameEnds ==
  /\ channel' \in [Chan -> ChannelState]
  /\ \A s \in Session : /\ channel'[Server(s)] = "none" <=> channel[Server(s)] = "none"
                        /\ channel'[Server(s)] = "deleted" <=> channel[Server(s)] = "deleted"
                        /\ channel[Server(s)] = "failed" => channel'[Server(s)] = "failed"

LEMMA SessionFacts ==
  ASSUME Sessions, NEW s \in Session
  PROVE  ConnectedAt(s) /\ removed[s] \in {0, 1}
BY DEF Sessions, Connected, SessionTypes

LEMMA UnchangedSessions ==
  ASSUME Sessions, SameEnds, UNCHANGED <<removed, client, m_connected_sockets, cleanup, m_clients>>,
         polled' \subseteq polled,
         \A s \in m_connected_sockets : channel'[Server(s)] \in {"open", "closed"},
         \A s \in Session : Server(s) \in m_on_close' <=> Server(s) \in m_on_close
  PROVE  Sessions'
<1>1. SessionTypes'
  BY DEF Sessions, SessionTypes, SameEnds
<1>2. Connected'
  <2> SUFFICES ASSUME NEW s \in Session PROVE ConnectedAt(s)'
    BY DEF Connected
  <2>1. ConnectedAt(s)
    BY SessionFacts
  <2> QED
    BY <2>1 DEF ConnectedAt, SameEnds
<1>3. Brokered'
  BY DEF Sessions, Brokered
<1> QED
  BY <1>1, <1>2, <1>3 DEF Sessions

LEMMA ClosedSessions ==
  ASSUME Sessions, SameEnds, client' = client, NEW c \in Chan, NEW registered,
         HandleChannelClose(c, registered), registered \subseteq polled,
         \A s \in Session : Server(s) # c => channel'[Server(s)] = channel[Server(s)]
  PROVE  Sessions'
<1>1. m_on_close' = m_on_close \ {c}
  BY DEF HandleChannelClose
<1>2. CASE c \in m_on_close /\ c[2] = "server"
  <2>1. PICK s \in Session : c = Server(s) /\ s = c[1]
    BY <1>2, ChanFacts
  <2>2. /\ m_clients' = m_clients \ {client[s]}
        /\ removed' = [removed EXCEPT ![s] = @ + 1]
        /\ polled' = registered \ {Server(s)}
        /\ m_connected_sockets' = m_connected_sockets \ {s}
        /\ cleanup' = cleanup \cup {s}
    BY <1>2, <2>1 DEF HandleChannelClose, ChannelClosed, Server
  <2>3. /\ s \in m_connected_sockets /\ removed[s] = 0
        /\ channel[Server(s)] \notin {"none", "deleted"}
    BY <1>2, <2>1, SessionFacts DEF ConnectedAt
  <2>4. /\ removed \in [Session -> {0, 1}] /\ m_connected_sockets \subseteq Session
        /\ cleanup \subseteq Session
        /\ client \in [Session -> Address \cup {NoAddress}]
    BY DEF Sessions, SessionTypes
  <2>5. /\ removed' \in [Session -> {0, 1}] /\ removed'[s] = 1
        /\ \A t \in Session : t # s => removed'[t] = removed[t]
    BY <2>2, <2>3, <2>4
  <2>6. SessionTypes'
    BY <2>2, <2>4, <2>5 DEF SessionTypes, SameEnds
  <2>7. ASSUME NEW t \in Session
        PROVE  ConnectedAt(t)'
    <3>1. /\ channel'[Server(t)] = "none" <=> channel[Server(t)] = "none"
          /\ channel'[Server(t)] = "deleted" <=> channel[Server(t)] = "deleted"
      BY DEF SameEnds
    <3>2. Server(t) = c <=> t = s
      BY <2>1, ChanFacts
    <3>3. ConnectedAt(t)
      BY SessionFacts
    <3>4. CASE t = s
      BY <1>1, <2>1, <2>2, <2>3, <2>5, <3>1, <3>3, <3>4 DEF ConnectedAt
    <3>5. CASE t # s
      <4>1. channel'[Server(t)] = channel[Server(t)] /\ Server(t) # Server(s)
        BY <2>1, <3>2, <3>5
      <4>2. Server(t) \in polled' => Server(t) \in polled
        BY <2>2
      <4> QED
        BY <1>1, <2>1, <2>2, <2>5, <3>3, <3>5, <4>1, <4>2 DEF ConnectedAt
    <3> QED
      BY <3>4, <3>5
  <2>8. Connected'
    BY <2>7 DEF Connected
  <2>9. Brokered'
    BY <2>2 DEF Sessions, Brokered
  <2> QED
    BY <2>6, <2>8, <2>9 DEF Sessions
<1>3. CASE ~(c \in m_on_close /\ c[2] = "server")
  <2>1. UNCHANGED <<removed, m_connected_sockets, cleanup, m_clients>> /\ polled' = registered
    BY <1>3 DEF HandleChannelClose
  <2>2. ASSUME NEW s \in Session, Server(s) \in m_on_close PROVE Server(s) # c
    BY <1>3, <2>2 DEF Server
  <2>3. \A s \in Session : Server(s) \in m_on_close' <=> Server(s) \in m_on_close
    BY <1>1, <2>2
  <2>4. ASSUME NEW s \in m_connected_sockets PROVE channel'[Server(s)] \in {"open", "closed"}
    <3>1. s \in Session
      BY DEF Sessions, SessionTypes
    <3>2. Server(s) \in m_on_close /\ channel[Server(s)] \in {"open", "closed"}
      BY <3>1, SessionFacts DEF ConnectedAt
    <3> QED
      BY <2>2, <3>1, <3>2
  <2> QED
    BY <2>1, <2>3, <2>4, UnchangedSessions
<1> QED
  BY <1>2, <1>3

\* A channel that changes nothing but itself, and what is not polled any more.
LEMMA SameChannels ==
  ASSUME Sessions, channel' = channel
  PROVE  /\ SameEnds
         /\ \A s \in m_connected_sockets : channel'[Server(s)] \in {"open", "closed"}
<1>1. channel \in [Chan -> ChannelState] /\ m_connected_sockets \subseteq Session
  BY DEF Sessions, SessionTypes
<1>2. \A s \in m_connected_sockets : channel[Server(s)] \in {"open", "closed"}
  BY <1>1, SessionFacts DEF ConnectedAt
<1> QED
  BY <1>1, <1>2 DEF SameEnds

LEMMA SentSessions ==
  ASSUME Sessions, client' = client, NEW c \in Chan, NEW message, NEW rest,
         SendMsg(c, message, rest)
  PROVE  /\ Sessions' /\ SameEnds
         /\ channel[c] # "deleted" => channel'[c] # "deleted"
         /\ m_clients' = m_clients \/ channel'[c] = "failed"
<1>1. channel \in [Chan -> ChannelState]
  BY DEF Sessions, SessionTypes
<1>2. CASE UNCHANGED channelVars
  <2>1. /\ UNCHANGED <<removed, m_connected_sockets, cleanup, m_clients, m_on_close>>
        /\ polled' = polled /\ channel' = channel
    BY <1>2 DEF channelVars
  <2> QED
    BY <2>1, SameChannels, UnchangedSessions
<1>3. CASE SendFails(c, rest)
  <2>1. /\ channel[c] = "open" /\ channel' = [channel EXCEPT ![c] = "failed"]
        /\ HandleChannelClose(c, polled)
    BY <1>3 DEF SendFails
  <2>2. channel'[c] = "failed"
    BY <1>1, <2>1
  <2>3. \A s \in Session : Server(s) # c => channel'[Server(s)] = channel[Server(s)]
    BY <1>1, <2>1, ChanFacts
  <2>4. SameEnds
    BY <1>1, <2>1, <2>2, <2>3, ChanFacts DEF SameEnds, ChannelState
  <2> QED
    BY <2>1, <2>2, <2>3, <2>4, ClosedSessions
<1> QED
  BY <1>2, <1>3 DEF SendMsg, Sent, NotSent

\* Nothing has been misused but what an address used again or a failed send of
\* SendDMX() explains.
LEMMA MisusedKept ==
  ASSUME Excused, SameEnds, client' = client, misused' = misused
  PROVE  Excused'
BY DEF Excused, SameEnds

LEMMA AddClientSessions ==
  ASSUME SessionInv, NEW s \in Session, AddClient(s)
  PROVE  SessionInv'
<1>1. /\ channel[Server(s)] = "none" /\ misused' = misused /\ serving' = serving
      /\ channel' = [c \in Chan |-> IF c[1] = s THEN "open" ELSE channel[c]]
      /\ m_on_close' = m_on_close \cup {c \in Chan : c[1] = s}
      /\ m_connected_sockets' = m_connected_sockets \cup {s}
      /\ cleanup' = cleanup /\ removed' = removed
  BY DEF AddClient, Server
<1>2. PICK a \in Address : /\ client' = [client EXCEPT ![s] = a]
                          /\ m_clients' = m_clients \cup {a}
  BY DEF AddClient
<1>3. /\ channel \in [Chan -> ChannelState] /\ removed \in [Session -> {0, 1}]
      /\ client \in [Session -> Address \cup {NoAddress}]
      /\ m_connected_sockets \subseteq Session /\ cleanup \subseteq Session
      /\ Sessions /\ Kept /\ Excused
  BY DEF SessionInv, Sessions, SessionTypes
<1>4. a # NoAddress
  BY ConstantsAssumption DEF NoAddress
<1>5. /\ client' \in [Session -> Address \cup {NoAddress}] /\ client'[s] = a
      /\ \A t \in Session : t # s => client'[t] = client[t]
  BY <1>2, <1>3
<1>6. /\ client[s] = NoAddress /\ removed[s] = 0 /\ s \notin cleanup
      /\ s \notin m_connected_sockets
  BY <1>1, <1>3, SessionFacts DEF ConnectedAt
<1>7. ASSUME NEW t \in Session
      PROVE  /\ channel'[Server(t)] = IF t = s THEN "open" ELSE channel[Server(t)]
             /\ Server(t) \in m_on_close' <=> Server(t) \in m_on_close \/ t = s
  <2>1. Server(t) \in Chan /\ Server(t)[1] = t
    BY ChanFacts DEF Server
  <2> QED
    BY <1>1, <2>1
<1>8. SessionTypes'
  <2>1. channel' \in [Chan -> ChannelState]
    BY <1>1, <1>3 DEF ChannelState
  <2> QED
    BY <1>1, <1>3, <1>5, <2>1 DEF SessionTypes
<1>9. Connected'
  <2>1. ASSUME NEW t \in Session
        PROVE  ConnectedAt(t)'
    <3>1. ConnectedAt(t)
      BY <1>3, SessionFacts
    <3>2. CASE t = s
      BY <1>1, <1>4, <1>5, <1>6, <1>7, <3>2 DEF ConnectedAt
    <3>3. CASE t # s
      <4>1. Server(t) \in polled' => Server(t) \in polled
        BY <3>3 DEF AddClient, Server
      <4> QED
        BY <1>1, <1>5, <1>7, <3>1, <3>3, <4>1 DEF ConnectedAt
    <3> QED
      BY <3>2, <3>3
  <2> QED
    BY <2>1 DEF Connected
<1>10. Brokered'
  <2>2. ASSUME NEW b \in m_clients'
        PROVE  \E t \in m_connected_sockets' : client'[t] = b
    <3>1. CASE b = a
      BY <1>1, <1>5, <3>1
    <3>2. CASE b \in m_clients
      <4>1. PICK t \in m_connected_sockets : client[t] = b
        BY <1>3, <3>2 DEF Sessions, Brokered
      <4>2. t # s /\ t \in Session
        BY <1>3, <1>6, <4>1
      <4> QED
        BY <1>1, <1>5, <4>1, <4>2
    <3> QED
      BY <1>2, <3>1, <3>2
  <2> QED
    BY <2>2 DEF Brokered
<1>11. Kept'
  <2>1. ASSUME NEW r \in serving'
        PROVE  \E t \in Session : /\ r.chan = Server(t) /\ r.client = client'[t]
                                  /\ client'[t] # NoAddress
    <3>1. PICK t \in Session : /\ r.chan = Server(t) /\ r.client = client[t]
                               /\ client[t] # NoAddress
      BY <1>1, <1>3 DEF Kept
    <3>2. t # s
      BY <1>6, <3>1
    <3> QED
      BY <1>5, <3>1, <3>2
  <2> QED
    BY <2>1 DEF Kept
<1>12. Excused'
  <2> SUFFICES ASSUME NEW t \in Session
               PROVE  /\ <<t, "channel">> \notin misused
                      /\ <<t, "answer">> \in misused =>
                           /\ client'[t] # NoAddress
                           /\ \E v \in Session \ {t} : client'[v] = client'[t]
                      /\ <<t, "client">> \in misused => channel'[Server(t)] \in {"failed", "deleted"}
    BY <1>1 DEF Excused
  <2>1. <<t, "channel">> \notin misused
    BY <1>3 DEF Excused
  <2>2. ASSUME <<t, "answer">> \in misused
        PROVE  client'[t] # NoAddress /\ \E v \in Session \ {t} : client'[v] = client'[t]
    <3>1. PICK v \in Session \ {t} : client[v] = client[t] /\ client[t] # NoAddress
      BY <1>3, <2>2 DEF Excused
    <3> QED
      BY <1>5, <1>6, <3>1
  <2>3. ASSUME <<t, "client">> \in misused
        PROVE  channel'[Server(t)] \in {"failed", "deleted"}
    <3>1. channel[Server(t)] \in {"failed", "deleted"}
      BY <1>3, <2>3 DEF Excused
    <3> QED
      BY <1>1, <1>7, <3>1
  <2> QED
    BY <2>1, <2>2, <2>3
<1> QED
  BY <1>8, <1>9, <1>10, <1>11, <1>12 DEF SessionInv, Sessions

LEMMA CleanupSessions ==
  ASSUME SessionInv, NEW s \in Session, CleanupChannel(s)
  PROVE  SessionInv'
<1>1. /\ s \in cleanup /\ cleanup' = cleanup \ {s}
      /\ channel' = [channel EXCEPT ![Server(s)] = "deleted"]
      /\ misused' = IF channel[Server(s)] = "deleted"
                    THEN misused \cup {<<s, "channel">>} ELSE misused
      /\ UNCHANGED <<m_on_close, polled, m_connected_sockets, m_clients, removed, serving, client>>
  BY DEF CleanupChannel, Server
<1>2. Sessions /\ Kept /\ Excused /\ SessionTypes /\ Connected /\ Brokered
  BY DEF SessionInv, Sessions
<1>3. /\ channel \in [Chan -> ChannelState] /\ Server(s) \in Chan
  BY <1>2, ChanFacts DEF SessionTypes
<1>4. /\ channel[Server(s)] \notin {"none", "deleted"} /\ s \notin m_connected_sockets
      /\ client[s] # NoAddress
  BY <1>1, <1>2, SessionFacts DEF ConnectedAt
<1>5. /\ channel' \in [Chan -> ChannelState] /\ channel'[Server(s)] = "deleted"
      /\ \A t \in Session : t # s => channel'[Server(t)] = channel[Server(t)]
  BY <1>1, <1>3, ChanFacts DEF ChannelState
<1>6. SessionTypes'
  BY <1>1, <1>2, <1>5 DEF SessionTypes
<1>7. Connected'
  <2>1. ASSUME NEW t \in Session
        PROVE  ConnectedAt(t)'
    <3>1. ConnectedAt(t)
      BY <1>2, SessionFacts
    <3>2. CASE t = s
      BY <1>1, <1>4, <1>5, <3>1, <3>2 DEF ConnectedAt
    <3>3. CASE t # s
      BY <1>1, <1>5, <3>1, <3>3 DEF ConnectedAt
    <3> QED
      BY <3>2, <3>3
  <2> QED
    BY <2>1 DEF Connected
<1>8. Brokered' /\ Kept'
  BY <1>1, <1>2 DEF Brokered, Kept
<1>9. Excused'
  <2>1. misused' = misused
    BY <1>1, <1>4
  <2> SUFFICES ASSUME NEW t \in Session, <<t, "client">> \in misused
               PROVE  channel'[Server(t)] \in {"failed", "deleted"}
    BY <1>1, <1>2, <2>1 DEF Excused
  <2> QED
    BY <1>2, <1>5 DEF Excused
<1> QED
  BY <1>6, <1>7, <1>8, <1>9 DEF SessionInv, Sessions

LEMMA DestroySessions ==
  ASSUME SessionInv, Destroy
  PROVE  SessionInv'
<1> DEFINE ends == m_connected_sockets \X {"server"}
           deleted == IF ends = {} THEN {} ELSE ends \cup (cleanup \X {"server"})
           unclosed == {t \in m_connected_sockets : <<t, "server">> \notin m_on_close}
<1>1. /\ m_clients' = m_clients \ {client[s] : s \in m_connected_sockets}
      /\ removed' = [s \in Session |-> removed[s] + IF s \in m_connected_sockets THEN 1 ELSE 0]
      /\ m_on_close' = m_on_close \ ends
      /\ polled' = polled \ ends
      /\ cleanup' = IF ends = {} THEN cleanup ELSE {}
      /\ channel' = [c \in Chan |-> IF c \in deleted THEN "deleted" ELSE channel[c]]
      /\ misused' = misused \cup {<<s, "channel">> : s \in unclosed}
      /\ m_connected_sockets' = {}
      /\ client' = client /\ serving' = serving
  BY DEF Destroy
<1>2. Sessions /\ Kept /\ Excused /\ SessionTypes /\ Connected /\ Brokered
  BY DEF SessionInv, Sessions
<1>3. \A s \in Session : Server(s) \in ends <=> s \in m_connected_sockets
  BY DEF Server
<1>4. \A s \in Session : Server(s) \in deleted =>
                          s \in m_connected_sockets \cup cleanup /\ ends # {}
  BY DEF Server
<1>5. unclosed = {}
  <2>1. \A s \in m_connected_sockets : s \in Session
    BY <1>2 DEF SessionTypes
  <2>2. \A s \in m_connected_sockets : <<s, "server">> \in m_on_close
    BY <1>2, <2>1, SessionFacts DEF ConnectedAt, Server
  <2> QED
    BY <2>2
<1> HIDE DEF ends, deleted, unclosed
<1>6. misused' = misused
  BY <1>1, <1>5
<1>7. ASSUME NEW s \in Session
      PROVE  /\ removed'[s] \in {0, 1}
             /\ s \notin m_connected_sockets => removed'[s] = removed[s]
  <2>1. CASE s \in m_connected_sockets
    BY <1>1, <1>2, <2>1, SessionFacts DEF ConnectedAt
  <2>2. CASE s \notin m_connected_sockets
    BY <1>1, <1>2, <2>2, SessionFacts
  <2> QED
    BY <2>1, <2>2
<1>8. SessionTypes'
  <2>1. channel' \in [Chan -> ChannelState]
    BY <1>1, <1>2 DEF SessionTypes, ChannelState
  <2>2. removed' \in [Session -> {0, 1}]
    BY <1>1, <1>7
  <2> QED
    BY <1>1, <1>2, <2>1, <2>2 DEF SessionTypes
<1>9. Connected'
  <2>1. ASSUME NEW t \in Session
        PROVE  ConnectedAt(t)'
    <3>0. ConnectedAt(t)
      BY <1>2, SessionFacts
    <3>1. channel'[Server(t)] = IF Server(t) \in deleted THEN "deleted" ELSE channel[Server(t)]
      BY <1>1, ChanFacts
    <3>2. Server(t) \notin m_on_close' /\ Server(t) \notin polled'
      BY <1>1, <1>3, <3>0 DEF ConnectedAt
    <3>3. channel'[Server(t)] = "none" <=> channel[Server(t)] = "none"
      BY <1>4, <3>0, <3>1 DEF ConnectedAt
    <3>4. t \in cleanup' => t \in cleanup /\ Server(t) \notin deleted
      BY <1>1, <1>4
    <3>5. channel[Server(t)] = "none" => t \notin m_connected_sockets
      BY <3>0 DEF ConnectedAt
    <3> QED
      BY <1>1, <1>7, <3>0, <3>1, <3>2, <3>3, <3>4, <3>5 DEF ConnectedAt
  <2> QED
    BY <2>1 DEF Connected
<1>10. Brokered'
  <2>1. \A a \in m_clients' : FALSE
    BY <1>1, <1>2 DEF Brokered
  <2> QED
    BY <1>1, <1>2, <2>1 DEF Brokered
<1>11. Kept'
  BY <1>1, <1>2 DEF Kept
<1>12. Excused'
  <2> SUFFICES ASSUME NEW t \in Session, <<t, "client">> \in misused
               PROVE  channel'[Server(t)] \in {"failed", "deleted"}
    BY <1>1, <1>2, <1>6 DEF Excused
  <2>1. channel[Server(t)] \in {"failed", "deleted"}
    BY <1>2 DEF Excused
  <2> QED
    BY <1>1, <2>1, ChanFacts
<1> QED
  BY <1>8, <1>9, <1>10, <1>11, <1>12 DEF SessionInv, Sessions

\* The broker finds the key of a request only while its session is connected, or
\* another one has a Client at the same address.
LEMMA KeyOfConnected ==
  ASSUME SessionInv, NEW r \in serving, KeyExists(r)
  PROVE  \E s \in Session :
           /\ r.chan = Server(s)
           /\ client[s] # NoAddress
           /\ channel[r.chan] = "deleted" => \E t \in Session \ {s} : client[t] = client[s]
<1>1. PICK s \in Session : /\ r.chan = Server(s) /\ r.client = client[s]
                           /\ client[s] # NoAddress
  BY DEF SessionInv, Kept
<1>2. PICK t \in m_connected_sockets : client[t] = client[s]
  BY <1>1 DEF SessionInv, Sessions, Brokered, KeyExists
<1>3. t \in Session /\ Sessions
  BY DEF SessionInv, Sessions, SessionTypes
<1>4. channel[Server(t)] # "deleted"
  BY <1>2, <1>3, SessionFacts DEF ConnectedAt
<1> QED
  BY <1>1, <1>2, <1>3, <1>4

LEMMA KeptSmaller ==
  ASSUME Kept, client' = client, serving' \subseteq serving
  PROVE  Kept'
BY DEF Kept

LEMMA CallMethodSessions ==
  ASSUME SessionInv, NEW c \in Chan, CallMethod(c)
  PROVE  SessionInv'
<1>1. Sessions /\ Kept /\ Excused
  BY DEF SessionInv
<1>2. /\ client' = client /\ serving' = serving /\ channel[c] # "deleted"
      /\ c[2] = "server" => client[c[1]] \in m_clients
      /\ misused' = misused \cup Uses(c, "channel") \cup UsesClient(c)
  BY DEF CallMethod
<1>3. PICK message : SendMsg(c, message, wire)
  BY DEF CallMethod, SendMsg
<1>4. /\ Sessions' /\ SameEnds /\ channel'[c] # "deleted"
      /\ m_clients' = m_clients \/ channel'[c] = "failed"
  BY <1>1, <1>2, <1>3, SentSessions
<1>5. Uses(c, "channel") = {}
  BY <1>2, <1>4 DEF Uses
<1>6. Excused'
  <2>1. CASE UsesClient(c) = {}
    BY <1>1, <1>2, <1>4, <1>5, <2>1, MisusedKept
  <2>2. CASE UsesClient(c) # {}
    <3>1. /\ c[2] = "server" /\ client[c[1]] \notin m_clients'
          /\ misused' = misused \cup {<<c[1], "client">>}
      BY <1>2, <1>5, <2>2 DEF UsesClient
    <3>2. channel'[c] = "failed" /\ c = Server(c[1]) /\ c[1] \in Session
      BY <1>2, <1>4, <3>1, ChanFacts
    <3>3. ASSUME NEW t \in Session
          PROVE  /\ <<t, "channel">> \in misused' <=> <<t, "channel">> \in misused
                 /\ <<t, "answer">> \in misused' <=> <<t, "answer">> \in misused
                 /\ <<t, "client">> \in misused' => <<t, "client">> \in misused \/ t = c[1]
      BY <3>1
    <3>4. ASSUME NEW t \in Session, <<t, "client">> \in misused'
          PROVE  channel'[Server(t)] \in {"failed", "deleted"}
      <4>1. CASE t = c[1]
        BY <3>2, <4>1
      <4>2. CASE <<t, "client">> \in misused
        BY <1>1, <1>4, <4>2 DEF Excused, SameEnds
      <4> QED
        BY <3>3, <3>4, <4>1, <4>2
    <3> QED
      BY <1>1, <1>2, <3>3, <3>4 DEF Excused
  <2> QED
    BY <2>1, <2>2
<1> QED
  BY <1>1, <1>2, <1>4, <1>6, KeptSmaller DEF SessionInv

LEMMA RDMCompleteSessions ==
  ASSUME SessionInv, ReplyInv, NEW r \in serving, RDMComplete(r), KeyExists(r)
  PROVE  SessionInv'
<1>1. Sessions /\ Kept /\ Excused
  BY DEF SessionInv
<1>2. /\ client' = client /\ serving' \subseteq serving
      /\ misused' = misused \cup Uses(r.chan, "answer")
      /\ \E message : SendMsg(r.chan, message, wire)
  BY DEF RDMComplete, RequestComplete
<1>3. r.chan \in Chan
  BY DEF ReplyInv, Keeps
<1>4. Sessions' /\ SameEnds
  BY <1>1, <1>2, <1>3, SentSessions
<1>5. PICK s \in Session :
        /\ r.chan = Server(s)
        /\ client[s] # NoAddress
        /\ channel[r.chan] = "deleted" => \E t \in Session \ {s} : client[t] = client[s]
  BY KeyOfConnected
<1>6. channel'[r.chan] = "deleted" <=> channel[r.chan] = "deleted"
  BY <1>4, <1>5 DEF SameEnds
<1>7. Excused'
  <2>1. CASE channel[r.chan] # "deleted"
    <3>1. Uses(r.chan, "answer") = {}
      BY <1>6, <2>1 DEF Uses
    <3> QED
      BY <1>1, <1>2, <1>4, <3>1, MisusedKept
  <2>2. CASE channel[r.chan] = "deleted"
    <3>1. PICK t \in Session \ {s} : client[t] = client[s]
      BY <1>5, <2>2
    <3>2. misused' = misused \cup {<<s, "answer">>}
      <4>1. r.chan[1] = s
        BY <1>5 DEF Server
      <4>2. Uses(r.chan, "answer") = {<<r.chan[1], "answer">>}
        BY <2>2 DEF Uses
      <4> QED
        BY <1>2, <4>1, <4>2
    <3>3. ASSUME NEW v \in Session
          PROVE  /\ <<v, "channel">> \in misused' <=> <<v, "channel">> \in misused
                 /\ <<v, "client">> \in misused' <=> <<v, "client">> \in misused
                 /\ <<v, "answer">> \in misused' => <<v, "answer">> \in misused \/ v = s
      BY <3>2
    <3>4. ASSUME NEW v \in Session, <<v, "answer">> \in misused'
          PROVE  client[v] # NoAddress /\ \E w \in Session \ {v} : client[w] = client[v]
      <4>1. CASE v = s
        BY <1>5, <3>1, <4>1
      <4>2. CASE <<v, "answer">> \in misused
        BY <1>1, <4>2 DEF Excused
      <4> QED
        BY <3>3, <3>4, <4>1, <4>2
    <3> QED
      BY <1>1, <1>2, <1>4, <3>3, <3>4 DEF Excused, SameEnds
  <2> QED
    BY <2>1, <2>2
<1> QED
  BY <1>1, <1>2, <1>4, <1>7, KeptSmaller DEF SessionInv

LEMMA SessionNext ==
  ASSUME SessionInv, ReplyInv, [Next]_vars
  PROVE  SessionInv'
<1>1. /\ Sessions /\ Kept /\ Excused /\ channel \in [Chan -> ChannelState]
      /\ m_connected_sockets \subseteq Session
  BY DEF SessionInv, Sessions, SessionTypes
<1>2. ASSUME client' = client, serving' \subseteq serving, misused' = misused, SameEnds, Sessions'
      PROVE  SessionInv'
  BY <1>1, <1>2, KeptSmaller, MisusedKept DEF SessionInv
<1>3. ASSUME UNCHANGED channelVars, client' = client
      PROVE  Sessions' /\ SameEnds
  <2>1. /\ UNCHANGED <<removed, m_connected_sockets, cleanup, m_clients, m_on_close>>
        /\ polled' = polled /\ channel' = channel
    BY <1>3 DEF channelVars
  <2> QED
    BY <1>1, <1>3, <2>1, SameChannels, UnchangedSessions
<1>4. ASSUME NEW c \in Chan, CallMethod(c)
      PROVE  SessionInv'
  BY <1>4, CallMethodSessions
<1>5. ASSUME NEW s \in Session, CallStreaming(s)
      PROVE  SessionInv'
  <2>1. client' = client /\ serving' = serving /\ misused' = misused
    BY <1>5 DEF CallStreaming
  <2>2. PICK c \in Chan : \E message : SendMsg(c, message, wire)
    BY <1>5, ChanFacts DEF CallStreaming
  <2> QED
    BY <1>1, <1>2, <2>1, <2>2, SentSessions
<1>6. ASSUME NEW c \in Chan, HandleResponse(c)
      PROVE  SessionInv'
  <2>1. client' = client /\ serving' = serving /\ misused' = misused /\ UNCHANGED channelVars
    BY <1>6 DEF HandleResponse
  <2> QED
    BY <1>2, <1>3, <2>1
<1>7. ASSUME NEW c \in Chan, HandleRequest(c) \/ HandleStreamRequest(c)
      PROVE  SessionInv'
  <2>1. /\ client' = client /\ serving' = serving /\ channel[c] = "open"
        /\ misused' = misused \cup Uses(c, "channel")
    BY <1>7 DEF HandleRequest, HandleStreamRequest, Readable
  <2>2. UNCHANGED channelVars \/ \E message, rest : SendMsg(c, message, rest)
    BY <1>7 DEF HandleRequest, HandleStreamRequest, RequestComplete
  <2>3. Sessions' /\ SameEnds /\ channel'[c] # "deleted"
    <3>1. CASE UNCHANGED channelVars
      BY <1>3, <2>1, <3>1 DEF channelVars
    <3>2. CASE \E message, rest : SendMsg(c, message, rest)
      BY <1>1, <2>1, <3>2, SentSessions
    <3> QED
      BY <2>2, <3>1, <3>2
  <2>4. misused' = misused
    BY <2>1, <2>3 DEF Uses
  <2> QED
    BY <1>2, <2>1, <2>3, <2>4
<1>8. ASSUME NEW s \in Session, HandleRDMRequest(s)
      PROVE  SessionInv'
  <2>1. /\ client' = client /\ misused' = misused /\ UNCHANGED channelVars
        /\ channel[Server(s)] = "open"
    BY <1>8 DEF HandleRDMRequest, Readable, Server
  <2>2. PICK r : /\ serving' = serving \cup {r}
                 /\ r = [chan |-> Server(s), id |-> Head(wire[Server(s)]).id,
                         body |-> Head(wire[Server(s)]).body, client |-> client[s]]
    BY <1>8 DEF HandleRDMRequest, Server
  <2>3. r.chan = Server(s) /\ r.client = client[s]
    BY <2>2
  <2>4. client[s] # NoAddress
    BY <1>1, <2>1, SessionFacts DEF ConnectedAt
  <2>5. Kept'
    BY <1>1, <2>1, <2>2, <2>3, <2>4 DEF Kept
  <2>6. Sessions' /\ SameEnds
    BY <1>3, <2>1
  <2> QED
    BY <1>1, <2>1, <2>5, <2>6, MisusedKept DEF SessionInv
<1>9. ASSUME NEW r \in serving, RDMComplete(r)
      PROVE  SessionInv'
  <2>1. CASE KeyExists(r)
    BY <1>9, <2>1, RDMCompleteSessions
  <2>2. CASE ~KeyExists(r)
    <3>1. /\ UNCHANGED channelVars /\ misused' = misused
          /\ client' = client /\ serving' \subseteq serving
      BY <1>9, <2>2 DEF RDMComplete
    <3> QED
      BY <1>2, <1>3, <3>1
  <2> QED
    BY <2>1, <2>2
<1>10. ASSUME NEW c \in Chan, Close(c)
       PROVE  SessionInv'
  <2>1. /\ client' = client /\ serving' = serving /\ misused' = misused /\ polled' = polled
        /\ channel[c] = "open" /\ channel' = [channel EXCEPT ![c] = "closed"]
        /\ UNCHANGED <<removed, m_connected_sockets, cleanup, m_clients, m_on_close>>
    BY <1>10 DEF Close
  <2>2. SameEnds
    BY <1>1, <2>1, ChanFacts DEF SameEnds, ChannelState
  <2>3. ASSUME NEW s \in m_connected_sockets PROVE channel'[Server(s)] \in {"open", "closed"}
    <3>1. s \in Session /\ Server(s) \in Chan
      BY <1>1, ChanFacts
    <3>2. channel[Server(s)] \in {"open", "closed"}
      BY <1>1, <3>1, SessionFacts DEF ConnectedAt
    <3> QED
      BY <1>1, <2>1, <3>1, <3>2
  <2>4. Sessions'
    BY <1>1, <2>1, <2>2, <2>3, UnchangedSessions
  <2> QED
    BY <1>2, <2>1, <2>2, <2>4
<1>11. ASSUME NEW c \in Chan, OnClose(c)
       PROVE  SessionInv'
  <2>1. /\ client' = client /\ serving' = serving /\ misused' = misused /\ channel' = channel
        /\ HandleChannelClose(c, polled \ {c})
    BY <1>11 DEF OnClose
  <2>2. SameEnds
    BY <1>1, <2>1, SameChannels
  <2>3. Sessions'
    BY <1>1, <2>1, <2>2, ClosedSessions
  <2> QED
    BY <1>2, <2>1, <2>2, <2>3
<1>12. CASE UNCHANGED vars
  BY <1>2, <1>3, <1>12 DEF vars
<1>13. ASSUME NEW s \in Session, ReadWithoutDescriptor(s)
       PROVE  SessionInv'
  <2>1. /\ client' = client /\ serving' = serving /\ misused' = misused
        /\ channel' = [channel EXCEPT ![<<s, "client">>] = "deleted"]
        /\ polled' \subseteq polled
        /\ UNCHANGED <<removed, m_connected_sockets, cleanup, m_clients, m_on_close>>
    BY <1>13 DEF ReadWithoutDescriptor
  <2>2. \A t \in Session : channel'[Server(t)] = channel[Server(t)]
    BY <1>1, <2>1, ChanFacts
  <2>3. channel' \in [Chan -> ChannelState]
    BY <1>1, <2>1 DEF ChannelState
  <2>4. SameEnds
    BY <2>2, <2>3 DEF SameEnds
  <2>5. \A t \in m_connected_sockets : channel'[Server(t)] \in {"open", "closed"}
    BY <1>1, <2>2, SessionFacts DEF ConnectedAt
  <2>6. Sessions'
    BY <1>1, <2>1, <2>4, <2>5, UnchangedSessions
  <2> QED
    BY <1>2, <2>1, <2>4, <2>6
<1>14. ASSUME NEW c \in Chan, Reads(c)
       PROVE  SessionInv'
  BY <1>6, <1>7, <1>8, <1>13, <1>14, ChanFacts DEF Reads
<1> QED
  BY <1>4, <1>5, <1>9, <1>10, <1>11, <1>12, <1>14, AddClientSessions, CleanupSessions,
     DestroySessions
  DEF Next

LEMMA SessionInit ==
  ASSUME Init
  PROVE  SessionInv
<1>1. SessionTypes
  BY DEF Init, SessionTypes, ChannelState
<1>2. Connected
  BY ChanFacts DEF Init, Connected, ConnectedAt
<1>3. Brokered /\ Kept /\ Excused
  BY DEF Init, Brokered, Kept, Excused
<1> QED
  BY <1>1, <1>2, <1>3 DEF SessionInv, Sessions

\* With any number of sessions, and Clients allocated at any free address: no
\* channel is deleted inside a call that uses it, or twice; a session ends once;
\* and the answer of a slow request reaches a deleted channel only by way of
\* another Client at the address of its own (NoUseAfterDelete).
THEOREM NoUseAfterDeleteHolds == Spec => []NoUseAfterDelete
<1>1. Init => ReplyInv /\ SessionInv
  BY ReplyInit, SessionInit
<1>2. (ReplyInv /\ SessionInv) /\ [Next]_vars => (ReplyInv /\ SessionInv)'
  BY ReplyNext, SessionNext
<1>3. SessionInv => NoUseAfterDelete
  <2> SUFFICES ASSUME SessionInv, NEW s \in Session
               PROVE  /\ removed[s] <= 1
                      /\ <<s, "channel">> \notin misused
                      /\ <<s, "answer">> \in misused
                           => \E t \in Session \ {s} : client[t] = client[s]
                      /\ <<s, "client">> \in misused
                           => channel[Server(s)] \in {"failed", "deleted"}
                      /\ channel[Server(s)] = "failed" => Server(s) \notin polled
    BY DEF NoUseAfterDelete, Server
  <2>1. Sessions /\ Excused
    BY DEF SessionInv
  <2>2. ConnectedAt(s) /\ removed[s] \in {0, 1}
    BY <2>1, SessionFacts
  <2>3. removed[s] <= 1
    BY <2>2
  <2>4. channel[Server(s)] = "failed" => Server(s) \notin polled
    BY <2>2 DEF ConnectedAt
  <2> QED
    BY <2>1, <2>3, <2>4 DEF Excused
<1> QED
  BY <1>1, <1>2, <1>3, PTL DEF Spec
=============================================================================
