-------------------------- MODULE AlgorithmProofs --------------------------
(***************************************************************************)
(* Two algorithms that are right whatever they are given.                   *)
(*                                                                          *)
(* The datagram driver: the reliable messages of a connection arrive whole, *)
(* in order and once, for messages of any length and any loss and delay of  *)
(* packets, and the unreliable ones arrive in order.                        *)
(*                                                                          *)
(* GenerateRandomIntegers: for every argument list the numbers it returns   *)
(* are in range and a gap apart.  The argument rests on one inductive       *)
(* invariant, IInv: along the slots the lower ends and the upper ends of    *)
(* the intervals are minGap apart, except at the one link the running loop  *)
(* is about to repair, and no interval is empty.                            *)
(***************************************************************************)
EXTENDS Datagram, RandomIntegers, FunctionTheorems, TLAPS

\* The two parts of a sequence, joined.
LEMMA PartsJoin ==
    ASSUME NEW S, NEW b \in Seq(S), NEW n \in Nat, n <= Len(b)
    PROVE  SubSeq(b, 1, n) \o SubSeq(b, n + 1, Len(b)) = b
<1> DEFINE x == SubSeq(b, 1, n)
           y == SubSeq(b, n + 1, Len(b))
           j == x \o y
<1>1. x \in Seq(S) /\ Len(x) = n /\ \A k \in 1 .. n : x[k] = b[k]
  OBVIOUS
<1>2. y \in Seq(S) /\ Len(y) = Len(b) - n /\ \A k \in 1 .. Len(b) - n : y[k] = b[n + k]
  OBVIOUS
<1> HIDE DEF x, y
<1>3. j \in Seq(S) /\ Len(j) = Len(b) /\ \A k \in 1 .. Len(b) : j[k] = IF k <= n THEN x[k] ELSE y[k - n]
  BY <1>1, <1>2
<1> HIDE DEF j
<1>4. \A k \in 1 .. Len(b) : j[k] = b[k]
  BY <1>1, <1>2, <1>3
<1>5. j = b
  BY <1>3, <1>4
<1> QED
  BY <1>5, Zenon DEF j, x, y

\* A message is its front followed by its rest.
LEMMA SplitMessage ==
    ASSUME NEW m \in Seq(Unit)
    PROVE  /\ Front(m) \in Seq(Unit) /\ Rest(m) \in Seq(Unit)
           /\ Front(m) \o Rest(m) = m
           /\ LastPart(m) => Front(m) = m
<1>0. MAX_DATAGRAM \in Nat /\ MAX_DATAGRAM # 0
  BY DatagramAssumption
<1>1. CASE LastPart(m)
  BY <1>1 DEF Front, Rest
<1>2. CASE ~LastPart(m)
  <2>1. MAX_DATAGRAM < Len(m)
    BY <1>0, <1>2 DEF LastPart
  <2>2. SubSeq(m, 1, MAX_DATAGRAM) \in Seq(Unit) /\ SubSeq(m, MAX_DATAGRAM + 1, Len(m)) \in Seq(Unit)
    BY <1>0, <2>1
  <2>3. SubSeq(m, 1, MAX_DATAGRAM) \o SubSeq(m, MAX_DATAGRAM + 1, Len(m)) = m
    <3>1. MAX_DATAGRAM <= Len(m)
      BY <1>0, <2>1
    <3> QED
      BY <1>0, <3>1, PartsJoin, Zenon
  <2> QED
    BY <1>2, <2>2, <2>3 DEF Front, Rest
<1> QED
  BY <1>1, <1>2

\* Putting parts together does not depend on the grouping.
LEMMA Regroup ==
    ASSUME NEW a \in Seq(Unit), NEW b \in Seq(Unit), NEW c \in Seq(Unit)
    PROVE  (a \o b) \o c = a \o (b \o c)
  OBVIOUS

\* The properties of the packets a step adds.
LEMMA Packets ==
    ASSUME NEW k, NEW m
    PROVE  /\ DataPacket(k, m).flag = "DATA" /\ DataPacket(k, m).sequence = k
           /\ DataPacket(k, m).eom = LastPart(m) /\ DataPacket(k, m).data = Front(m)
           /\ AckPacket(k).flag = "ACK" /\ AckPacket(k).sequence = k
           /\ UnreliablePacket(k).flag = "UNRELIABLE" /\ UnreliablePacket(k).sequence = k
  BY DEF DataPacket, AckPacket, UnreliablePacket

\* A part that the receiving socket takes is the part the sending socket waits for.
LEMMA TakenPart ==
    ASSUME Streaming, NEW p \in net, p.flag = "DATA", p.sequence = receiveSequence
    PROVE  /\ Waiting /\ ~Received /\ receiveSequence = ackSequence
           /\ p.eom = LastPart(sendMessage) /\ p.data = Front(sendMessage)
           /\ sent = Append(delivered, receiveMessage \o sendMessage)
<1>1. p.sequence < sendSequence
  BY DEF Streaming
<1>2. receiveSequence \in Nat /\ sendSequence \in Nat
  BY DEF Streaming, TypeOK
<1>3. receiveSequence # sendSequence
  BY <1>1, <1>2
<1>4. Waiting /\ receiveSequence = ackSequence /\ ~Received
  BY <1>3 DEF Streaming, Received
<1>5. p = DataPacket(ackSequence, sendMessage)
  BY <1>4 DEF Streaming
<1>6. p.eom = LastPart(sendMessage) /\ p.data = Front(sendMessage)
  BY <1>5, Packets
<1>7. sent = Append(delivered, receiveMessage \o sendMessage)
  BY <1>4 DEF Streaming, Waiting
<1> QED
  BY <1>4, <1>6, <1>7

\* The initial state satisfies the invariant.
LEMMA InitInv == Init => Streaming
<1> SUFFICES ASSUME Init PROVE Streaming
  OBVIOUS
<1>1. TypeOK
  BY DEF Init, TypeOK
<1>2. canSend /\ ~sendNext /\ ~Waiting
  BY DEF Init, Waiting
<1> QED
  BY <1>1, <1>2 DEF Init, Streaming

\* A new message starts on an empty stream.
LEMMA SendStep ==
    ASSUME Streaming, NEW m \in Message, Datagram_SendMessage(m)
    PROVE  Streaming'
<1> USE DEF receiver
<1>0. m \in Seq(Unit)
  BY DatagramAssumption
<1>1. TypeOK /\ canSend /\ ~sendNext /\ ~Waiting /\ ~Received
  BY DEF Streaming, Datagram_SendMessage, Waiting, Received
<1>2. /\ sent = delivered /\ receiveMessage = <<>>
      /\ sendSequence = ackSequence /\ receiveSequence = sendSequence
  BY <1>1 DEF Streaming, TypeOK
<1>3. Waiting' /\ ~Received' /\ ~canSend' /\ ~sendNext'
  BY <1>1, <1>2 DEF Datagram_SendMessage, Waiting, Received, TypeOK
<1>4. TypeOK'
  BY <1>0, <1>1, Packets DEF TypeOK, Datagram_SendMessage
<1>5. /\ sendSequence' = ackSequence' + 1
      /\ receiveSequence' = ackSequence'
  BY <1>1, <1>2 DEF Datagram_SendMessage, TypeOK
<1>6. ASSUME NEW p \in net'
      PROVE  /\ p.flag = "DATA" => p.sequence < sendSequence'
             /\ p.flag = "DATA" /\ p.sequence = ackSequence' => p = DataPacket(ackSequence', sendMessage')
             /\ p.flag = "ACK" => p.sequence < receiveSequence'
  <2>1. CASE p \in net
    BY <2>1, <1>1, <1>2 DEF Streaming, Datagram_SendMessage, TypeOK
  <2>2. CASE p = DataPacket(sendSequence, m)
    BY <2>2, <1>1, <1>2, Packets DEF Datagram_SendMessage, TypeOK
  <2> QED
    BY <2>1, <2>2 DEF Datagram_SendMessage
<1>7. sent' = Append(delivered', receiveMessage' \o sendMessage')
  BY <1>0, <1>1, <1>2 DEF Datagram_SendMessage
<1> QED
  BY <1>3, <1>4, <1>5, <1>6, <1>7 DEF Streaming, DataPacket, Front, LastPart

\* A retransmission repeats the packet under way: no part is pending between
\* two calls of Datagram_GetMessage.
LEMMA ResendStep ==
    ASSUME Streaming, Sender_GetMessage
    PROVE  Streaming'
<1> USE DEF receiver
<1>1. CASE ~canSend /\ late
  <2>1. TypeOK /\ ~sendNext /\ Waiting /\ sendSequence = ackSequence + 1
    BY <1>1 DEF Streaming, Sender_GetMessage, Waiting
  <2>2. sendSequence - 1 = ackSequence
    BY <2>1 DEF TypeOK
  <2>3. /\ net' = net \cup {DataPacket(ackSequence, sendMessage)}
        /\ sendNext' = FALSE
        /\ UNCHANGED <<canSend, sendMessage, sendSequence, ackSequence, unreliableSendSequence,
                       sent, receiveSequence, receiveMessage, unreliableReceiveSequence, delivered>>
    BY <1>1, <2>2 DEF Sender_GetMessage, ReSendMessage
  <2>4. Waiting' /\ (Received' <=> Received)
    BY <2>1, <2>3 DEF Waiting, Received
  <2>5. TypeOK'
    BY <2>1, <2>3, Packets DEF TypeOK
  <2>6. ASSUME NEW p \in net'
        PROVE  /\ p.flag = "DATA" => p.sequence < sendSequence
               /\ p.flag = "DATA" /\ p.sequence = ackSequence => p = DataPacket(ackSequence, sendMessage)
               /\ p.flag = "ACK" => p.sequence < receiveSequence
    <3>1. CASE p \in net
      BY <3>1, <2>1 DEF Streaming
    <3>2. CASE p = DataPacket(ackSequence, sendMessage)
      BY <3>2, <2>1, Packets DEF TypeOK
    <3> QED
      BY <3>1, <3>2, <2>3
  <2> QED
    BY <2>1, <2>3, <2>4, <2>5, <2>6, Zenon DEF Streaming, DataPacket, Front, Rest, LastPart
<1>2. CASE ~(~canSend /\ late)
  <2>1. UNCHANGED <<canSend, sendNext, sendMessage, sendSequence, ackSequence, unreliableSendSequence,
                    net, sent, receiveSequence, receiveMessage, unreliableReceiveSequence, delivered>>
    BY <1>2 DEF Sender_GetMessage
  <2>2. sReading'
    BY DEF Sender_GetMessage
  <2> QED
    BY <2>1, <2>2, Zenon DEF Streaming, TypeOK, Waiting, Received, DataPacket, Front, Rest, LastPart
<1> QED
  BY <1>1, <1>2

\* An acknowledgement of the part under way means that it has arrived.
LEMMA AckStep ==
    ASSUME Streaming, NEW p \in net, Read_ACK(p)
    PROVE  Streaming'
<1> USE DEF receiver
<1>1. TypeOK /\ p.flag = "ACK" /\ p.sequence = sendSequence - 1 /\ p.sequence = ackSequence /\ sReading
  BY DEF Streaming, Read_ACK
<1>2. sendSequence = ackSequence + 1
  BY <1>1 DEF TypeOK
<1>3. Waiting
  BY <1>1, <1>2 DEF Streaming, TypeOK
<1>4. p.sequence < receiveSequence
  BY <1>1 DEF Streaming
<1>5. Received
  BY <1>1, <1>3, <1>4 DEF Streaming, Received, TypeOK
<1>6. receiveSequence = sendSequence /\ sendMessage \in Seq(Unit) /\ Rest(sendMessage) \in Seq(Unit)
  BY <1>1, <1>5, SplitMessage DEF Received, TypeOK
<1>7. /\ ackSequence' = sendSequence /\ sendMessage' = Rest(sendMessage)
      /\ sendNext' = ~LastPart(sendMessage) /\ canSend' = LastPart(sendMessage)
      /\ UNCHANGED <<sendSequence, unreliableSendSequence, sReading, sent, net,
                     receiveSequence, receiveMessage, unreliableReceiveSequence, delivered>>
  BY <1>2 DEF Read_ACK
<1>8. ~Waiting' /\ ~Received'
  BY <1>7, Zenon DEF Waiting, Received, LastPart
<1>9. TypeOK'
  BY <1>1, <1>6, <1>7 DEF TypeOK
<1>10. sendNext' => sReading' /\ ~canSend'
  BY <1>1, <1>7, Zenon
<1>11. sendSequence' = ackSequence' + 0 /\ receiveSequence' = sendSequence'
  BY <1>1, <1>6, <1>7 DEF TypeOK
<1>12. \A q \in net' :
          /\ q.flag = "DATA" => q.sequence < sendSequence'
          /\ q.flag = "ACK" => q.sequence < receiveSequence'
  BY <1>7 DEF Streaming
<1>13. IF canSend' THEN sent' = delivered' /\ receiveMessage' = <<>>
                   ELSE sent' = Append(delivered', receiveMessage' \o sendMessage')
  <2>1. CASE LastPart(sendMessage)
    BY <2>1, <1>3, <1>5, <1>7 DEF Streaming, Waiting
  <2>2. CASE ~LastPart(sendMessage)
    BY <2>2, <1>3, <1>5, <1>7 DEF Streaming, Waiting
  <2> QED
    BY <2>1, <2>2
<1> QED
  BY <1>8, <1>9, <1>10, <1>11, <1>12, <1>13 DEF Streaming

\* The end of Datagram_GetMessage sends the part that has moved up.
LEMMA NextPartStep ==
    ASSUME Streaming, Sender_GetMessage_End
    PROVE  Streaming'
<1> USE DEF receiver
<1>0. TypeOK
  BY DEF Streaming
<1>1. CASE sendNext
  <2>1. ~canSend /\ ~Waiting /\ ~Received
    BY <1>1 DEF Streaming, Waiting, Received
  <2>2. sendSequence = ackSequence /\ receiveSequence = sendSequence
    BY <2>1, <1>0 DEF Streaming, TypeOK
  <2>3. /\ net' = net \cup {DataPacket(ackSequence, sendMessage)}
        /\ sendSequence' = ackSequence + 1 /\ sendNext' = FALSE
        /\ UNCHANGED <<canSend, sendMessage, ackSequence, unreliableSendSequence,
                       sent, receiveSequence, receiveMessage, unreliableReceiveSequence, delivered>>
    BY <1>1, <2>2 DEF Sender_GetMessage_End, SendMessageNext
  <2>4. Waiting' /\ ~Received' /\ receiveSequence' = ackSequence'
    BY <1>0, <2>1, <2>2, <2>3 DEF Waiting, Received, TypeOK
  <2>5. TypeOK'
    BY <1>0, <2>3, Packets DEF TypeOK
  <2>6. ASSUME NEW p \in net'
        PROVE  /\ p.flag = "DATA" => p.sequence < sendSequence'
               /\ p.flag = "DATA" /\ p.sequence = ackSequence => p = DataPacket(ackSequence, sendMessage)
               /\ p.flag = "ACK" => p.sequence < receiveSequence
    <3>1. CASE p \in net
      BY <3>1, <1>0, <2>2, <2>3 DEF Streaming, TypeOK
    <3>2. CASE p = DataPacket(ackSequence, sendMessage)
      BY <3>2, <1>0, <2>3, Packets DEF TypeOK
    <3> QED
      BY <3>1, <3>2, <2>3
  <2>7. sent' = Append(delivered', receiveMessage' \o sendMessage')
    BY <2>1, <2>3 DEF Streaming
  <2> QED
    BY <2>1, <2>3, <2>4, <2>5, <2>6, <2>7 DEF Streaming, DataPacket, Front, LastPart
<1>2. CASE ~sendNext
  <2>1. UNCHANGED <<canSend, sendNext, sendMessage, sendSequence, ackSequence, unreliableSendSequence,
                    net, sent, receiveSequence, receiveMessage, unreliableReceiveSequence, delivered>>
    BY <1>2 DEF Sender_GetMessage_End
  <2> QED
    BY <1>2, <2>1, Zenon DEF Streaming, TypeOK, Waiting, Received, DataPacket, Front, Rest, LastPart
<1> QED
  BY <1>1, <1>2

\* A part that arrives moves from what is left to send to what was received; the
\* last one completes the message that was sent.
LEMMA DataStep ==
    ASSUME Streaming, NEW p \in net, Read_DATA(p)
    PROVE  /\ Streaming'
           /\ UNCHANGED sent
           /\ delivered' = delivered \/ (delivered' = sent /\ \E m \in Seq(Unit) : sent = Append(delivered, m))
<1> USE DEF sender
<1>0. TypeOK /\ p.flag = "DATA" /\ p.sequence \in Nat /\ p.sequence < sendSequence
  BY DEF Streaming, TypeOK, Read_DATA
<1>1. /\ net' = net \cup {AckPacket(p.sequence)}
      /\ UNCHANGED <<canSend, sendNext, sendMessage, sendSequence, ackSequence,
                     unreliableSendSequence, sReading, sDisconnected, sent, unreliableReceiveSequence>>
  BY DEF Read_DATA
<1>2. Waiting' <=> Waiting
  BY <1>1 DEF Waiting
<1>3. \A q \in net' : q.sequence \in Nat
  <2>1. AckPacket(p.sequence).sequence = p.sequence
    BY Packets
  <2> QED
    BY <1>0, <1>1, <2>1 DEF TypeOK
<1>4. CASE p.sequence # receiveSequence
  <2>1. UNCHANGED <<receiveSequence, receiveMessage, delivered>>
    BY <1>4 DEF Read_DATA
  <2>2. Received' <=> Received
    BY <1>1, <1>2, <2>1 DEF Received
  <2>3. TypeOK'
    BY <1>0, <1>1, <1>3, <2>1 DEF TypeOK
  <2>4. p.sequence < receiveSequence
    BY <1>0, <1>4, SMTT(30) DEF Streaming, TypeOK
  <2>5. ASSUME NEW q \in net'
        PROVE  /\ q.flag = "DATA" => q.sequence < sendSequence
               /\ q.flag = "DATA" /\ Waiting /\ q.sequence = ackSequence => q = DataPacket(ackSequence, sendMessage)
               /\ q.flag = "ACK" => q.sequence < receiveSequence
    <3>1. CASE q \in net
      BY <3>1 DEF Streaming
    <3>2. CASE q = AckPacket(p.sequence)
      BY <3>2, <2>4, Packets
    <3> QED
      BY <3>1, <3>2, <1>1
  <2> QED
    BY <1>1, <1>2, <2>1, <2>2, <2>3, <2>5, Zenon DEF Streaming, DataPacket, Front, Rest, LastPart
<1>5. CASE p.sequence = receiveSequence
  <2>1. /\ Waiting /\ ~Received /\ receiveSequence = ackSequence
        /\ p.eom = LastPart(sendMessage) /\ p.data = Front(sendMessage)
        /\ sent = Append(delivered, receiveMessage \o sendMessage)
    BY <1>0, <1>5, TakenPart
  <2>2. sendSequence = ackSequence + 1 /\ receiveSequence' = ackSequence + 1
    BY <1>5, <2>1 DEF Streaming, Read_DATA
  <2>3. Waiting' /\ Received' /\ receiveSequence' = sendSequence'
    BY <1>1, <1>2, <2>1, <2>2 DEF Received
  <2>4. ASSUME NEW q \in net'
        PROVE  /\ q.flag = "DATA" => q.sequence < sendSequence
               /\ q.flag = "DATA" /\ Waiting /\ q.sequence = ackSequence => q = DataPacket(ackSequence, sendMessage)
               /\ q.flag = "ACK" => q.sequence < receiveSequence'
    <3>1. CASE q \in net
      BY <3>1, <1>0, <2>1, <2>2 DEF Streaming, TypeOK
    <3>2. CASE q = AckPacket(p.sequence)
      BY <3>2, <1>0, <1>5, <2>1, <2>2, Packets
    <3> QED
      BY <3>1, <3>2, <1>1
  <2>5. /\ sendMessage \in Seq(Unit) /\ receiveMessage \in Seq(Unit)
        /\ delivered \in Seq(Seq(Unit)) /\ sent \in Seq(Seq(Unit))
        /\ receiveMessage \o sendMessage \in Seq(Unit)
    BY <1>0 DEF TypeOK
  <2>6. /\ Front(sendMessage) \in Seq(Unit) /\ Rest(sendMessage) \in Seq(Unit)
        /\ Front(sendMessage) \o Rest(sendMessage) = sendMessage
        /\ LastPart(sendMessage) => Front(sendMessage) = sendMessage
    BY <2>5, SplitMessage, Zenon
  <2>7. CASE LastPart(sendMessage)
    <3>1. delivered' = sent /\ receiveMessage' = <<>>
      BY <1>5, <2>1, <2>6, <2>7 DEF Read_DATA
    <3>2. TypeOK'
      BY <1>0, <1>1, <1>3, <2>2, <2>5, <3>1 DEF TypeOK
    <3>3. \E m \in Seq(Unit) : sent = Append(delivered, m)
      BY <2>1, <2>5, Zenon
    <3> QED
      BY <1>1, <2>1, <2>2, <2>3, <2>4, <2>7, <3>1, <3>2, <3>3
      DEF Streaming, DataPacket, Front, LastPart
  <2>8. CASE ~LastPart(sendMessage)
    <3>1. delivered' = delivered /\ receiveMessage' = receiveMessage \o Front(sendMessage)
      BY <1>5, <2>1, <2>8 DEF Read_DATA
    <3>2. TypeOK'
      BY <1>0, <1>1, <1>3, <2>2, <2>5, <2>6, <3>1 DEF TypeOK
    <3>3. receiveMessage' \o Rest(sendMessage) = receiveMessage \o sendMessage
      <4>1. (receiveMessage \o Front(sendMessage)) \o Rest(sendMessage)
              = receiveMessage \o (Front(sendMessage) \o Rest(sendMessage))
        BY <2>5, <2>6, Regroup, Zenon
      <4> QED
        BY <2>6, <3>1, <4>1
    <3>4. sent' = Append(delivered', receiveMessage' \o Rest(sendMessage'))
      BY <1>1, <2>1, <3>1, <3>3
    <3>5. ~LastPart(sendMessage') /\ ~canSend'
      BY <1>1, <2>1, <2>8 DEF Waiting
    <3> QED
      BY <1>1, <2>1, <2>2, <2>3, <2>4, <3>1, <3>2, <3>4, <3>5, Zenon
      DEF Streaming, DataPacket, Front, Rest, LastPart
  <2> QED
    BY <2>7, <2>8
<1> QED
  BY <1>4, <1>5

\* The other steps leave the stream alone, and the network only loses packets.
LEMMA OtherSteps ==
    ASSUME Streaming,
           \/ Datagram_SendUnreliableMessage \/ Receiver_GetMessage
           \/ \E p \in net : Read_UNRELIABLE(p) \/ Lose(p)
           \/ Receiver_GetMessage_End \/ Sender_Close \/ Receiver_Close \/ Time_Passes
           \/ UNCHANGED vars
    PROVE  Streaming' /\ UNCHANGED <<sent, delivered>>
<1> USE DEF sender, receiver, vars
<1>1. /\ UNCHANGED <<canSend, sendNext, sendMessage, sendSequence, ackSequence,
                     receiveSequence, receiveMessage, sent, delivered>>
      /\ sReading \/ sDisconnected => sReading' \/ sDisconnected'
      /\ unreliableSendSequence' \in Nat /\ unreliableReceiveSequence' \in Nat
  <2>0. /\ unreliableSendSequence \in Nat /\ unreliableReceiveSequence \in Nat
        /\ \A p \in net : p.sequence \in Nat
    BY DEF Streaming, TypeOK
  <2>1. CASE Datagram_SendUnreliableMessage
    BY <2>0, <2>1 DEF Datagram_SendUnreliableMessage
  <2>2. ASSUME NEW p \in net, Read_UNRELIABLE(p) PROVE <1>1!:
    BY <2>0, <2>2 DEF Read_UNRELIABLE
  <2>3. ASSUME NEW p \in net, Lose(p) PROVE <1>1!:
    BY <2>0, <2>3 DEF Lose
  <2>4. CASE Receiver_GetMessage \/ Receiver_GetMessage_End \/ Receiver_Close
    BY <2>0, <2>4 DEF Receiver_GetMessage, Receiver_GetMessage_End, Receiver_Close
  <2>5. CASE Sender_Close \/ Time_Passes \/ UNCHANGED vars
    BY <2>0, <2>5 DEF Sender_Close, Time_Passes
  <2> QED
    BY <2>1, <2>2, <2>3, <2>4, <2>5
<1>2. net' \subseteq net \cup {UnreliablePacket(unreliableSendSequence)}
  BY DEF Datagram_SendUnreliableMessage, Receiver_GetMessage, Read_UNRELIABLE,
         Lose, Receiver_GetMessage_End, Sender_Close, Receiver_Close, Time_Passes
<1>3. ASSUME NEW p \in net'
      PROVE  /\ p.sequence \in Nat
             /\ p.flag = "DATA" => p.sequence < sendSequence
             /\ p.flag = "DATA" /\ Waiting /\ p.sequence = ackSequence => p = DataPacket(ackSequence, sendMessage)
             /\ p.flag = "ACK" => p.sequence < receiveSequence
  <2>1. CASE p \in net
    BY <2>1 DEF Streaming, TypeOK
  <2>2. CASE p = UnreliablePacket(unreliableSendSequence)
    <3>1. p.flag = "UNRELIABLE" /\ p.sequence = unreliableSendSequence
      BY <2>2, Packets
    <3>2. unreliableSendSequence \in Nat
      BY DEF Streaming, TypeOK
    <3> QED
      BY <3>1, <3>2
  <2> QED
    BY <2>1, <2>2, <1>2
<1>4. TypeOK'
  BY <1>1, <1>3 DEF Streaming, TypeOK
<1>5. /\ Waiting' <=> Waiting
      /\ Received' <=> Received
      /\ DataPacket(ackSequence, sendMessage)' = DataPacket(ackSequence, sendMessage)
      /\ Rest(sendMessage)' = Rest(sendMessage)
      /\ LastPart(sendMessage)' <=> LastPart(sendMessage)
  BY <1>1 DEF Waiting, Received, DataPacket, Front, Rest, LastPart
<1>6. /\ sendNext => (sReading \/ sDisconnected) /\ ~canSend
      /\ sendSequence = ackSequence + (IF Waiting THEN 1 ELSE 0)
      /\ receiveSequence = sendSequence \/ (Waiting /\ receiveSequence = ackSequence)
      /\ IF canSend \/ (Received /\ LastPart(sendMessage))
         THEN sent = delivered /\ receiveMessage = <<>>
         ELSE sent = Append(delivered,
                            receiveMessage \o (IF Received THEN Rest(sendMessage) ELSE sendMessage))
  BY DEF Streaming
<1> QED
  BY <1>1, <1>3, <1>4, <1>5, <1>6 DEF Streaming

\* A step of the sockets is a step of the channel or leaves it alone.
LEMMA StepSimulation ==
    ASSUME Streaming, [Next]_vars
    PROVE  Streaming' /\ [Channel!Next]_<<sent, delivered>>
<1> USE DEF receiver, sender
<1>1. ASSUME NEW m \in Message, Datagram_SendMessage(m)
      PROVE  Streaming' /\ Channel!Send(m)
  <2>1. sent = delivered /\ sent \in Seq(Seq(Unit))
    BY <1>1 DEF Streaming, TypeOK, Datagram_SendMessage
  <2>2. sent' = Append(sent, m) /\ UNCHANGED delivered
    BY <1>1 DEF Datagram_SendMessage
  <2>3. Len(sent) < Len(delivered) + 1
    <3>1. Len(sent) \in Nat
      BY <2>1
    <3> QED
      BY <2>1, <3>1
  <2> QED
    BY <1>1, <2>2, <2>3, SendStep DEF Channel!Send
<1>2. ASSUME Sender_GetMessage \/ Sender_GetMessage_End \/ \E p \in net : Read_ACK(p)
      PROVE  Streaming' /\ UNCHANGED <<sent, delivered>>
  <2>1. UNCHANGED <<sent, delivered>>
    BY <1>2 DEF Sender_GetMessage, Sender_GetMessage_End, Read_ACK
  <2> QED
    BY <1>2, <2>1, ResendStep, NextPartStep, AckStep
<1>3. ASSUME NEW p \in net, Read_DATA(p)
      PROVE  Streaming' /\ (UNCHANGED <<sent, delivered>> \/ Channel!Deliver)
  <2>1. /\ Streaming' /\ UNCHANGED sent
        /\ delivered' = delivered \/ (delivered' = sent /\ \E m \in Seq(Unit) : sent = Append(delivered, m))
    BY <1>3, DataStep
  <2>2. ASSUME NEW m \in Seq(Unit), sent = Append(delivered, m), delivered' = sent
        PROVE  Channel!Deliver
    <3>1. delivered \in Seq(Seq(Unit))
      BY DEF Streaming, TypeOK
    <3>2. Len(delivered) < Len(sent) /\ sent[Len(delivered) + 1] = m
      BY <2>2, <3>1
    <3> QED
      BY <2>1, <2>2, <3>2 DEF Channel!Deliver
  <2> QED
    BY <2>1, <2>2
<1> QED
  BY <1>1, <1>2, <1>3, OtherSteps DEF Next, Channel!Next

\* What is left to send and what was received are always the two parts of the
\* message under way, for messages of any length on any network: the sequence
\* numbers of net_dgrm.c never let a lost, repeated or late packet in.
THEOREM StreamingSafe == Spec => []Streaming
<1>1. Streaming /\ [Next]_vars => Streaming'
  BY StepSimulation
<1> QED
  BY InitInv, <1>1, PTL DEF Spec

\* The sockets of net_dgrm.c implement a reliable channel with one message under
\* way: every message is returned whole, in order and once.
THEOREM DatagramIsChannel == Spec => ImplementsChannel
<1>1. Init => Channel!Init
  BY DEF Init, Channel!Init
<1>2. Streaming /\ [Next]_vars => [Channel!Next]_<<sent, delivered>>
  BY StepSimulation
<1> QED
  BY <1>1, <1>2, StreamingSafe, PTL DEF Spec, ImplementsChannel, Channel!Spec, Channel!vars

-----------------------------------------------------------------------------
\* The datagrams that were returned are older than the one that is expected, and
\* in the order of their numbers.
DatagramInv ==
    /\ datagrams \in Seq(Nat)
    /\ \A k \in 1 .. Len(datagrams) : datagrams[k] < unreliableReceiveSequence
    /\ \A k, j \in 1 .. Len(datagrams) : k < j => datagrams[k] < datagrams[j]

\* Only a datagram that is not older than the one that is expected is returned.
LEMMA DatagramStep ==
    ASSUME TypeOK, DatagramInv, [Next]_vars
    PROVE  DatagramInv'
<1> USE DEF receiver, sender
<1>1. ASSUME NEW p \in net, Read_UNRELIABLE(p), ~(p.sequence < unreliableReceiveSequence)
      PROVE  DatagramInv'
  <2>1. /\ p.sequence \in Nat /\ unreliableReceiveSequence \in Nat
        /\ datagrams \in Seq(Nat) /\ Len(datagrams) \in Nat
    BY DEF TypeOK, DatagramInv
  <2>2. /\ datagrams' = Append(datagrams, p.sequence)
        /\ unreliableReceiveSequence' = p.sequence + 1
    BY <1>1 DEF Read_UNRELIABLE
  <2>3. /\ datagrams' \in Seq(Nat) /\ Len(datagrams') = Len(datagrams) + 1
        /\ datagrams'[Len(datagrams) + 1] = p.sequence
        /\ \A k \in 1 .. Len(datagrams) : datagrams'[k] = datagrams[k]
    BY <2>1, <2>2
  <2>4. \A k \in 1 .. Len(datagrams) : datagrams'[k] \in Nat /\ datagrams'[k] < p.sequence
    <3>1. ASSUME NEW k \in 1 .. Len(datagrams)
          PROVE  datagrams[k] \in Nat /\ datagrams[k] < unreliableReceiveSequence
      BY <2>1, <3>1 DEF DatagramInv
    <3> QED
      BY <1>1, <2>1, <2>3, <3>1, SMTT(30)
  <2>5. \A k \in 1 .. Len(datagrams') : k \in 1 .. Len(datagrams) \/ k = Len(datagrams) + 1
    BY <2>1, <2>3
  <2>6. \A k \in 1 .. Len(datagrams') : datagrams'[k] < unreliableReceiveSequence'
    BY <2>1, <2>2, <2>3, <2>4, <2>5
  <2>7. ASSUME NEW k \in 1 .. Len(datagrams'), NEW j \in 1 .. Len(datagrams'), k < j
        PROVE  datagrams'[k] < datagrams'[j]
    <3>1. k \in 1 .. Len(datagrams)
      BY <2>1, <2>3, <2>7
    <3>2. CASE j \in 1 .. Len(datagrams)
      BY <2>3, <2>7, <3>1, <3>2 DEF DatagramInv
    <3>3. CASE j = Len(datagrams) + 1
      BY <2>3, <2>4, <3>1, <3>3
    <3> QED
      BY <2>5, <3>2, <3>3
  <2> QED
    BY <2>3, <2>6, <2>7 DEF DatagramInv
<1>2. ASSUME NEW p \in net, Read_UNRELIABLE(p), p.sequence < unreliableReceiveSequence
      PROVE  UNCHANGED <<unreliableReceiveSequence, datagrams>>
  BY <1>2 DEF Read_UNRELIABLE
<1>3. ASSUME ~ \E p \in net : Read_UNRELIABLE(p)
      PROVE  UNCHANGED <<unreliableReceiveSequence, datagrams>>
  BY <1>3, Zenon DEF Next, vars, Datagram_SendMessage, Datagram_SendUnreliableMessage, Sender_GetMessage,
              Read_ACK, Sender_GetMessage_End, Receiver_GetMessage, Read_DATA,
              Receiver_GetMessage_End, Sender_Close, Receiver_Close, Time_Passes, Lose
<1>4. ASSUME UNCHANGED <<unreliableReceiveSequence, datagrams>>
      PROVE  DatagramInv'
  BY <1>4 DEF DatagramInv
<1> QED
  BY <1>1, <1>2, <1>3, <1>4

\* No datagram is returned twice or after a later one, however many are sent and
\* whatever the network does with them.
THEOREM DatagramsStayInOrder == Spec => []DatagramsInOrder
<1>1. Init => DatagramInv
  BY DEF Init, DatagramInv
<1>2. Streaming /\ DatagramInv /\ [Next]_vars => DatagramInv'
  BY DatagramStep DEF Streaming
<1>3. DatagramInv => DatagramsInOrder
  <2> SUFFICES ASSUME DatagramInv, NEW k \in 1 .. Len(datagrams) - 1
               PROVE  datagrams[k] < datagrams[k + 1]
    BY DEF DatagramsInOrder
  <2>1. k \in 1 .. Len(datagrams) /\ k + 1 \in 1 .. Len(datagrams) /\ k < k + 1
    BY DEF DatagramInv
  <2> QED
    BY <2>1 DEF DatagramInv
<1> QED
  BY <1>1, <1>2, <1>3, StreamingSafe, PTL DEF Spec


Placed == {k \in Slots : result[k] # sentinel}

\* The link between k and k+1 whose lower ends are not apart yet.
MinLinkPending(k) == (pc = "lower" /\ k = next) \/ (pc = "raise" /\ k = u - 1)
MaxLinkPending(k) == pc = "lower" /\ k = u

Bounds ==
    Arrays => \A k \in Slots : min <= mins[k] /\ maxs[k] <= max

MinsApart ==
    Arrays => \A k \in Slots : (k + 1 \in Slots /\ ~MinLinkPending(k)) =>
                               mins[k] + minGap <= mins[k + 1]

MaxsApart ==
    Arrays => \A k \in Slots : (k + 1 \in Slots /\ ~MaxLinkPending(k)) =>
                               maxs[k] + minGap <= maxs[k + 1]

PlacedPinned ==
    Arrays => \A k \in Placed : mins[k] = result[k] /\ maxs[k] = result[k]

PlacedCount ==
    /\ Arrays => ExistsBijection(1 .. (IF pc \in {"lower", "raise"} THEN i + 1 ELSE i), Placed)
    /\ pc = "entry" => i = 0
    /\ pc = "done" => i = number

IInv ==
    /\ RandomTypeOK
    /\ DrawIntervalNonempty
    /\ Bounds
    /\ MinsApart
    /\ MaxsApart
    /\ PlacedPinned
    /\ PlacedCount

-----------------------------------------------------------------------------
\* The arguments are integers, the gap is not negative.
LEMMA ArgTypes ==
    ASSUME arg \in Args
    PROVE  number \in Int /\ min \in Int /\ max \in Int /\ minGap \in Nat
BY ArgsAssumption DEF number, min, max, minGap

\* A call that is not refused has slots, and room for all of them.
LEMMA Accepted ==
    ASSUME arg \in Args, ~Refused
    PROVE  number >= 1 /\ (number - 1) * minGap <= max - min
BY ArgTypes DEF Refused, free_frames

\* A call starts with empty arrays: the invariant says nothing of them yet.
LEMMA InitIInv == RandomInit => IInv
BY DEF RandomInit, IInv, RandomTypeOK, Arrays, DrawIntervalNonempty, Bounds, MinsApart,
       MaxsApart, PlacedPinned, PlacedCount

\* Filling the arrays: the intervals start minGap apart and nonempty because
\* the call leaves free_frames >= 0.
LEMMA FillStep == ASSUME IInv, Fill PROVE IInv'
<1>1. /\ arg \in Args /\ arg' = arg /\ ~Refused /\ pc' = "pick" /\ i' = i /\ i = 0
      /\ next' = next /\ u' = u /\ next \in Int /\ u \in Int
  BY DEF IInv, RandomTypeOK, Fill, PlacedCount
<1>2. /\ number' = number /\ min' = min /\ max' = max /\ minGap' = minGap
      /\ Slots' = Slots /\ sentinel' = sentinel /\ Refused' = Refused /\ Arrays'
  BY <1>1 DEF number, min, max, minGap, Slots, sentinel, Refused, free_frames, Arrays
<1>3. /\ number \in Int /\ min \in Int /\ max \in Int /\ minGap \in Nat
      /\ number >= 1 /\ (number - 1) * minGap <= max - min
  BY <1>1, ArgTypes, Accepted
<1>4. /\ result' = [k \in Slots |-> sentinel]
      /\ mins' = [k \in Slots |-> k * minGap + min]
      /\ maxs' = [k \in Slots |-> max - (number - k - 1) * minGap]
  BY DEF Fill
<1>5. \A k \in Slots : /\ k \in Int /\ k >= 0 /\ k * minGap \in Nat
                       /\ (number - k - 1) * minGap \in Nat
                       /\ k * minGap + (number - k - 1) * minGap = (number - 1) * minGap
                       /\ (k + 1) * minGap = k * minGap + minGap
                       /\ (number - (k + 1) - 1) * minGap = (number - k - 1) * minGap - minGap
  BY <1>3 DEF Slots
<1>6. RandomTypeOK'
  BY <1>1, <1>2, <1>3, <1>4, <1>5 DEF RandomTypeOK, sentinel
<1>7. DrawIntervalNonempty'
  BY <1>2, <1>3, <1>4, <1>5 DEF DrawIntervalNonempty
<1>8. Bounds'
  BY <1>2, <1>3, <1>4, <1>5 DEF Bounds
<1>9. MinsApart'
  BY <1>2, <1>3, <1>4, <1>5 DEF MinsApart
<1>10. MaxsApart'
  BY <1>2, <1>3, <1>4, <1>5 DEF MaxsApart
<1>11. Placed' = {}
  BY <1>2, <1>4 DEF Placed
<1>12. PlacedPinned' /\ PlacedCount'
  BY <1>1, <1>11, Fun_NatBijEmpty DEF PlacedPinned, PlacedCount
<1>. QED
  BY <1>6, <1>7, <1>8, <1>9, <1>10, <1>12 DEF IInv

\* What a step that keeps the arguments keeps with them.
LEMMA ArgFrame ==
    ASSUME arg' = arg
    PROVE  /\ number' = number /\ min' = min /\ max' = max /\ minGap' = minGap
           /\ Slots' = Slots /\ sentinel' = sentinel /\ Refused' = Refused
BY DEF number, min, max, minGap, Slots, sentinel, Refused, free_frames

\* The steps that leave the arrays alone.
LEMMA QuietStep == ASSUME IInv, Refuse \/ Pick \/ Return \/ Probe \/ Returned PROVE IInv'
<1>1. arg \in Args /\ arg' = arg
  BY DEF IInv, RandomTypeOK, Refuse, Pick, Return, Probe, Returned, randomVars
<1>2. /\ number' = number /\ min' = min /\ max' = max /\ minGap' = minGap
      /\ Slots' = Slots /\ sentinel' = sentinel /\ Refused' = Refused
  BY <1>1, ArgFrame
<1>3. /\ number \in Int /\ min \in Int /\ max \in Int /\ minGap \in Nat
  BY <1>1, ArgTypes
<1>4. Arrays => number >= 1
  BY <1>1, Accepted DEF IInv, RandomTypeOK
<1>5. result' = result /\ mins' = mins /\ maxs' = maxs /\ i' = i
  BY DEF Refuse, Pick, Return, Probe, Returned, randomVars
<1>6. Placed' = Placed
  BY <1>2, <1>5 DEF Placed
<1>7. CASE Refuse
  BY <1>1, <1>2, <1>5, <1>7 DEF Refuse, IInv, RandomTypeOK, Arrays, DrawIntervalNonempty,
     Bounds, MinsApart, MaxsApart, PlacedPinned, PlacedCount
<1>8. CASE Pick
  <2>1. \A draw \in 0 .. number : draw % number \in Slots
    BY <1>3, <1>4, <1>8 DEF Slots, Pick, Arrays
  <2>2. RandomTypeOK'
    <3>1. next' \in Slots /\ next' \in Int /\ u' = u /\ pc' = "probe" /\ pc = "pick" /\ i < number
      BY <1>3, <1>8, <2>1 DEF Pick, Slots
    <3>. QED
      BY <1>1, <1>2, <1>5, <3>1 DEF IInv, RandomTypeOK, Arrays
  <2>. QED
    BY <1>2, <1>5, <1>6, <1>8, <2>2 DEF Pick, IInv, Arrays, DrawIntervalNonempty,
       Bounds, MinsApart, MaxsApart, MinLinkPending, MaxLinkPending, PlacedPinned, PlacedCount
<1>9. CASE Return
  <2>1. RandomTypeOK' /\ i = number
    BY <1>1, <1>2, <1>3, <1>5, <1>9 DEF Return, IInv, RandomTypeOK, Arrays
  <2>. QED
    BY <1>2, <1>5, <1>6, <1>9, <2>1 DEF Return, IInv, Arrays, DrawIntervalNonempty,
       Bounds, MinsApart, MaxsApart, MinLinkPending, MaxLinkPending, PlacedPinned, PlacedCount
<1>10. CASE Probe
  <2>1. (next + 1) % number \in Slots
    BY <1>3, <1>4, <1>10 DEF Slots, Probe, Arrays, IInv, RandomTypeOK
  <2>2. RandomTypeOK'
    BY <1>1, <1>2, <1>3, <1>5, <1>10, <2>1 DEF Probe, IInv, RandomTypeOK, Arrays
  <2>. QED
    BY <1>2, <1>5, <1>6, <1>10, <2>2 DEF Probe, IInv, Arrays, DrawIntervalNonempty,
       Bounds, MinsApart, MaxsApart, MinLinkPending, MaxLinkPending, PlacedPinned, PlacedCount
<1>11. CASE Returned
  <2>1. RandomTypeOK'
    BY <1>1, <1>2, <1>3, <1>5, <1>11 DEF Returned, randomVars, IInv, RandomTypeOK, Arrays
  <2>. QED
    BY <1>2, <1>5, <1>6, <1>11, <2>1 DEF Returned, randomVars, IInv, Arrays, DrawIntervalNonempty,
       Bounds, MinsApart, MaxsApart, MinLinkPending, MaxLinkPending, PlacedPinned, PlacedCount
<1>. QED
  BY <1>7, <1>8, <1>9, <1>10, <1>11

\* Placing a value pins slot `next' and breaks the two links beside it, the
\* ones the two loops then repair.
LEMMA PlaceStep == ASSUME IInv, Place PROVE IInv'
<1>1. /\ arg \in Args /\ arg' = arg /\ Arrays /\ Arrays' /\ ~Refused
      /\ result \in [Slots -> Int] /\ mins \in [Slots -> Int] /\ maxs \in [Slots -> Int]
      /\ next \in Slots /\ next' = next /\ u' = next - 1 /\ pc' = "lower" /\ pc = "probe"
      /\ i' = i /\ i \in Nat /\ i < number /\ result[next] = sentinel
  BY DEF IInv, RandomTypeOK, Place, Arrays
<1>2. /\ number' = number /\ min' = min /\ max' = max /\ minGap' = minGap
      /\ Slots' = Slots /\ sentinel' = sentinel /\ Refused' = Refused
  BY <1>1, ArgFrame
<1>3. /\ number \in Int /\ min \in Int /\ max \in Int /\ minGap \in Nat
  BY <1>1, ArgTypes
<1>4. PICK value \in mins[next] .. maxs[next] :
         /\ result' = [result EXCEPT ![next] = value]
         /\ mins' = [mins EXCEPT ![next] = value]
         /\ maxs' = [maxs EXCEPT ![next] = value]
  BY Zenon DEF Place
<1>5. value \in Int /\ mins[next] <= value /\ value <= maxs[next]
  BY <1>1, <1>4
<1>6. Slots \subseteq Int /\ next \in Int /\ next >= 0 /\ next < number
  BY <1>1, <1>3 DEF Slots
<1>7. RandomTypeOK'
  BY <1>1, <1>2, <1>3, <1>4, <1>5, <1>6 DEF RandomTypeOK
<1>8. DrawIntervalNonempty'
  BY <1>1, <1>2, <1>4, <1>5 DEF IInv, DrawIntervalNonempty
<1>9. Bounds'
  BY <1>1, <1>2, <1>3, <1>4, <1>5 DEF IInv, Bounds
<1>10. MinsApart'
  <2>1. \A k \in Slots : k + 1 \in Slots => mins[k] + minGap <= mins[k + 1]
    BY <1>1 DEF IInv, MinsApart, MinLinkPending
  <2>2. ASSUME NEW k \in Slots, k + 1 \in Slots, k # next
        PROVE  mins'[k] + minGap <= mins'[k + 1]
    BY <1>1, <1>3, <1>4, <1>5, <1>6, <2>1, <2>2
  <2>. QED
    BY <1>1, <1>2, <2>2 DEF MinsApart, MinLinkPending
<1>11. MaxsApart'
  <2>1. \A k \in Slots : k + 1 \in Slots => maxs[k] + minGap <= maxs[k + 1]
    BY <1>1 DEF IInv, MaxsApart, MaxLinkPending
  <2>2. ASSUME NEW k \in Slots, k + 1 \in Slots, k # next - 1
        PROVE  maxs'[k] + minGap <= maxs'[k + 1]
    BY <1>1, <1>3, <1>4, <1>5, <1>6, <2>1, <2>2
  <2>. QED
    BY <1>1, <1>2, <2>2 DEF MaxsApart, MaxLinkPending
<1>12. value # sentinel
  <2>1. min <= mins[next] /\ mins[next] \in Int
    BY <1>1 DEF IInv, Bounds
  <2>. QED
    BY <1>3, <1>5, <2>1 DEF sentinel
<1>13. Placed' = Placed \cup {next} /\ next \notin Placed
  BY <1>1, <1>2, <1>4, <1>12 DEF Placed
<1>14. PlacedPinned'
  BY <1>1, <1>2, <1>4, <1>13 DEF IInv, PlacedPinned, Placed
<1>15. PlacedCount'
  BY <1>1, <1>13, Fun_NatBijAddElem DEF IInv, PlacedCount
<1>. QED
  BY <1>7, <1>8, <1>9, <1>10, <1>11, <1>14, <1>15 DEF IInv

\* The loop towards slot 0.  It never lowers a placed slot: that would empty
\* its interval, and the lower ends to its right leave no room for that.
LEMMA LowerStep == ASSUME IInv, Lower PROVE IInv'
<1>1. /\ arg \in Args /\ arg' = arg /\ Arrays /\ Arrays' /\ ~Refused
      /\ result \in [Slots -> Int] /\ mins \in [Slots -> Int] /\ maxs \in [Slots -> Int]
      /\ next \in Slots /\ next' = next /\ pc = "lower" /\ pc' \in {"lower", "raise"}
      /\ i' = i /\ i \in Nat /\ i < number /\ u \in -1 .. next - 1
      /\ result' = result /\ mins' = mins
  BY DEF IInv, RandomTypeOK, Lower, Arrays
<1>2. /\ number' = number /\ min' = min /\ max' = max /\ minGap' = minGap
      /\ Slots' = Slots /\ sentinel' = sentinel /\ Refused' = Refused
  BY <1>1, ArgFrame
<1>3. /\ number \in Int /\ min \in Int /\ max \in Int /\ minGap \in Nat
  BY <1>1, ArgTypes
<1>4. Slots \subseteq Int /\ next \in Int /\ next >= 0 /\ next < number /\ u \in Int
      /\ (u >= 0 => u \in Slots /\ u + 1 \in Slots /\ u < next)
  BY <1>1, <1>3 DEF Slots
<1>5. Placed' = Placed
  BY <1>1, <1>2 DEF Placed
<1>6. PlacedCount'
  BY <1>1, <1>5 DEF IInv, PlacedCount
<1>7. CASE MustLower
  <2>1. /\ maxs' = [maxs EXCEPT ![u] = maxs[u + 1] - minGap]
        /\ u' = u - 1 /\ pc' = "lower" /\ u \in Slots /\ u + 1 \in Slots /\ u < next
        /\ maxs[u] > maxs[u + 1] - minGap
    BY <1>1, <1>4, <1>7 DEF Lower, MustLower
  <2>2. mins[u] + minGap <= mins[u + 1] /\ mins[u + 1] <= maxs[u + 1]
    BY <1>1, <1>4, <2>1 DEF IInv, MinsApart, MinLinkPending, DrawIntervalNonempty
  <2>3. mins[u] <= maxs[u + 1] - minGap /\ mins[u] < maxs[u]
    BY <1>1, <1>3, <2>1, <2>2
  <2>4. RandomTypeOK'
    <3>1. u' \in Int /\ u' \in -1 .. next - 1
      BY <1>3, <1>4, <2>1 DEF Slots
    <3>2. maxs' \in [Slots -> Int]
      BY <1>1, <1>3, <2>1
    <3>. QED
      BY <1>1, <1>2, <1>3, <1>4, <2>1, <3>1, <3>2 DEF RandomTypeOK
  <2>5. DrawIntervalNonempty'
    BY <1>1, <1>2, <2>1, <2>3 DEF IInv, DrawIntervalNonempty
  <2>6. maxs'[u] \in Int /\ maxs'[u] <= maxs[u]
    BY <1>1, <1>3, <2>1
  <2>7. Bounds'
    <3>1. maxs[u] <= max
      BY <1>1, <2>1 DEF IInv, Bounds
    <3>2. maxs'[u] <= max
      BY <1>1, <1>3, <2>1, <2>6, <3>1
    <3>. QED
      BY <1>1, <1>2, <2>1, <3>2 DEF IInv, Bounds
  <2>8. MinsApart'
    BY <1>1, <1>2, <2>1 DEF IInv, MinsApart, MinLinkPending
  <2>9. MaxsApart'
    <3>1. \A k \in Slots : k + 1 \in Slots /\ k # u => maxs[k] + minGap <= maxs[k + 1]
      BY <1>1 DEF IInv, MaxsApart, MaxLinkPending
    <3>2. ASSUME NEW k \in Slots, k + 1 \in Slots, k # u - 1
          PROVE  maxs'[k] + minGap <= maxs'[k + 1]
      BY <1>1, <1>3, <1>4, <2>1, <3>1, <3>2
    <3>. QED
      BY <1>1, <1>2, <2>1, <3>2 DEF MaxsApart, MaxLinkPending
  <2>10. u \notin Placed
    BY <1>1, <2>1, <2>3 DEF IInv, PlacedPinned, Placed
  <2>11. PlacedPinned'
    BY <1>1, <1>2, <1>5, <2>1, <2>10 DEF IInv, PlacedPinned, Placed
  <2>. QED
    BY <1>6, <2>4, <2>5, <2>7, <2>8, <2>9, <2>11 DEF IInv
<1>8. CASE ~MustLower
  <2>1. maxs' = maxs /\ u' = next + 1 /\ pc' = "raise"
    BY <1>8 DEF Lower
  <2>2. RandomTypeOK'
    BY <1>1, <1>2, <1>3, <1>4, <2>1 DEF RandomTypeOK
  <2>3. DrawIntervalNonempty' /\ Bounds' /\ PlacedPinned'
    BY <1>1, <1>2, <1>5, <2>1 DEF IInv, DrawIntervalNonempty, Bounds, PlacedPinned
  <2>4. MinsApart'
    <3>1. \A k \in Slots : k + 1 \in Slots /\ k # next => mins[k] + minGap <= mins[k + 1]
      BY <1>1 DEF IInv, MinsApart, MinLinkPending
    <3>2. next = u' - 1
      BY <1>4, <2>1
    <3>. QED
      BY <1>1, <1>2, <2>1, <3>1, <3>2 DEF MinsApart, MinLinkPending
  <2>5. MaxsApart'
    <3>1. \A k \in Slots : k + 1 \in Slots /\ k # u => maxs[k] + minGap <= maxs[k + 1]
      BY <1>1 DEF IInv, MaxsApart, MaxLinkPending
    <3>2. ASSUME u \in Slots, u + 1 \in Slots PROVE maxs[u] + minGap <= maxs[u + 1]
      BY <1>1, <1>3, <1>4, <1>8, <3>2 DEF MustLower, Slots
    <3>. QED
      BY <1>1, <1>2, <2>1, <3>1, <3>2 DEF MaxsApart
  <2>. QED
    BY <1>6, <2>2, <2>3, <2>4, <2>5 DEF IInv
<1>. QED
  BY <1>7, <1>8

\* The loop towards slot number - 1, the mirror image.
LEMMA RaiseStep == ASSUME IInv, Raise PROVE IInv'
<1>1. /\ arg \in Args /\ arg' = arg /\ Arrays /\ Arrays' /\ ~Refused
      /\ result \in [Slots -> Int] /\ mins \in [Slots -> Int] /\ maxs \in [Slots -> Int]
      /\ next \in Slots /\ next' = next /\ pc = "raise" /\ pc' \in {"raise", "pick"}
      /\ i \in Nat /\ i < number /\ u \in next + 1 .. number
      /\ result' = result /\ maxs' = maxs
  BY DEF IInv, RandomTypeOK, Raise, Arrays
<1>2. /\ number' = number /\ min' = min /\ max' = max /\ minGap' = minGap
      /\ Slots' = Slots /\ sentinel' = sentinel /\ Refused' = Refused
  BY <1>1, ArgFrame
<1>3. /\ number \in Int /\ min \in Int /\ max \in Int /\ minGap \in Nat
  BY <1>1, ArgTypes
<1>4. Slots \subseteq Int /\ next \in Int /\ next >= 0 /\ next < number /\ u \in Int
      /\ u > next /\ u <= number /\ u - 1 \in Slots
      /\ (u < number => u \in Slots)
  BY <1>1, <1>3 DEF Slots
<1>5. Placed' = Placed
  BY <1>1, <1>2 DEF Placed
<1>6. \A k \in Slots : k + 1 \in Slots => maxs[k] + minGap <= maxs[k + 1]
  BY <1>1 DEF IInv, MaxsApart, MaxLinkPending
<1>7. \A k \in Slots : k + 1 \in Slots /\ k # u - 1 => mins[k] + minGap <= mins[k + 1]
  BY <1>1 DEF IInv, MinsApart, MinLinkPending
<1>8. MaxsApart'
  BY <1>1, <1>2, <1>6 DEF MaxsApart
<1>9. CASE MustRaise
  <2>1. /\ mins' = [mins EXCEPT ![u] = mins[u - 1] + minGap]
        /\ u' = u + 1 /\ pc' = "raise" /\ i' = i /\ u \in Slots /\ u < number
        /\ mins[u] < mins[u - 1] + minGap
    BY <1>1, <1>4, <1>9 DEF Raise, MustRaise
  <2>2. maxs[u - 1] + minGap <= maxs[u] /\ mins[u - 1] <= maxs[u - 1]
    BY <1>1, <1>4, <1>6, <2>1 DEF IInv, DrawIntervalNonempty
  <2>3. mins[u - 1] + minGap <= maxs[u] /\ mins[u] < maxs[u]
    BY <1>1, <1>3, <1>4, <2>1, <2>2
  <2>4. RandomTypeOK'
    <3>1. u' \in Int /\ u' \in next + 1 .. number
      BY <1>3, <1>4, <2>1
    <3>2. mins' \in [Slots -> Int]
      BY <1>1, <1>3, <1>4, <2>1
    <3>. QED
      BY <1>1, <1>2, <1>3, <1>4, <2>1, <3>1, <3>2 DEF RandomTypeOK
  <2>5. DrawIntervalNonempty'
    BY <1>1, <1>2, <2>1, <2>3 DEF IInv, DrawIntervalNonempty
  <2>6. Bounds'
    <3>1. min <= mins[u - 1]
      BY <1>1, <1>4 DEF IInv, Bounds
    <3>2. min <= mins'[u]
      BY <1>1, <1>3, <1>4, <2>1, <3>1
    <3>. QED
      BY <1>1, <1>2, <2>1, <3>2 DEF IInv, Bounds
  <2>7. MinsApart'
    <3>1. ASSUME NEW k \in Slots, k + 1 \in Slots, k # u
          PROVE  mins'[k] + minGap <= mins'[k + 1]
      BY <1>1, <1>3, <1>4, <1>7, <2>1, <3>1
    <3>2. u = u' - 1
      BY <1>4, <2>1
    <3>. QED
      BY <1>1, <1>2, <2>1, <3>1, <3>2 DEF MinsApart, MinLinkPending
  <2>8. u \notin Placed
    BY <1>1, <2>1, <2>3 DEF IInv, PlacedPinned, Placed
  <2>9. PlacedPinned'
    BY <1>1, <1>2, <1>5, <2>1, <2>8 DEF IInv, PlacedPinned, Placed
  <2>10. PlacedCount'
    BY <1>1, <1>5, <2>1 DEF IInv, PlacedCount
  <2>. QED
    BY <1>8, <2>4, <2>5, <2>6, <2>7, <2>9, <2>10 DEF IInv
<1>10. CASE ~MustRaise
  <2>1. mins' = mins /\ u' = u /\ i' = i + 1 /\ pc' = "pick"
    BY <1>10 DEF Raise
  <2>2. RandomTypeOK'
    BY <1>1, <1>2, <1>3, <1>4, <2>1 DEF RandomTypeOK
  <2>3. DrawIntervalNonempty' /\ Bounds' /\ PlacedPinned'
    BY <1>1, <1>2, <1>5, <2>1 DEF IInv, DrawIntervalNonempty, Bounds, PlacedPinned
  <2>4. MinsApart'
    <3>1. ASSUME u \in Slots PROVE mins[u - 1] + minGap <= mins[u]
      BY <1>1, <1>3, <1>4, <1>10, <3>1 DEF MustRaise, Slots
    <3>2. ASSUME NEW k \in Slots, k + 1 \in Slots PROVE mins[k] + minGap <= mins[k + 1]
      <4>1. CASE k = u - 1
        <5>1. k + 1 = u
          BY <1>4, <4>1
        <5>. QED
          BY <3>1, <3>2, <4>1, <5>1
      <4>. QED
        BY <1>7, <3>2, <4>1
    <3>. QED
      BY <1>1, <1>2, <2>1, <3>2 DEF MinsApart
  <2>5. PlacedCount'
    BY <1>1, <1>5, <2>1 DEF IInv, PlacedCount
  <2>. QED
    BY <1>8, <2>2, <2>3, <2>4, <2>5 DEF IInv
<1>. QED
  BY <1>9, <1>10

-----------------------------------------------------------------------------
\* Every step of GenerateRandomIntegers keeps the invariant: one lemma per loop.
LEMMA NextIInv == IInv /\ [RandomNext]_randomVars => IInv'
<1>1. ASSUME IInv, UNCHANGED randomVars PROVE IInv'
  BY <1>1, Zenon DEF randomVars, IInv, RandomTypeOK, DrawIntervalNonempty, Bounds, MinsApart, MaxsApart,
     PlacedPinned, PlacedCount, Placed, MinLinkPending, MaxLinkPending, Arrays, Refused,
     free_frames, Slots, sentinel, number, min, max, minGap
<1>. QED
  BY <1>1, FillStep, QuietStep, PlaceStep, LowerStep, RaiseStep DEF RandomNext

\* As many placed slots as there are slots: all are placed.
LEMMA AllSlots ==
    ASSUME number \in Int, number >= 1, Placed \subseteq Slots, ExistsBijection(1 .. number, Placed)
    PROVE  Placed = Slots
<1> DEFINE f == [k \in 1 .. number |-> k - 1]
<1>1. f \in Bijection(1 .. number, Slots)
  <2>1. f \in [1 .. number -> Slots] /\ DOMAIN f = 1 .. number
    BY DEF Slots
  <2>2. \A k, l \in 1 .. number : f[k] = f[l] => k = l
    OBVIOUS
  <2>3. ASSUME NEW x \in Slots PROVE \E k \in 1 .. number : f[k] = x
    <3>1. x + 1 \in 1 .. number /\ f[x + 1] = x
      BY DEF Slots
    <3> QED
      BY <3>1
  <2> HIDE DEF f
  <2> QED
    BY <2>1, <2>2, <2>3, Zenon DEF Bijection, Injection, Surjection, IsInjective
<1>2. ExistsBijection(1 .. number, Slots) /\ number \in Nat
  BY <1>1 DEF ExistsBijection
<1>3. ASSUME NEW x \in Slots, x \notin Placed PROVE FALSE
  <2>1. ExistsBijection(1 .. (number + 1), Placed \cup {x}) /\ Placed \cup {x} \in SUBSET Slots
    BY <1>2, <1>3, Fun_NatBijAddElem, Zenon
  <2>2. PICK k \in Nat : ExistsBijection(1 .. k, Placed \cup {x}) /\ k <= number
    BY <1>2, <2>1, Fun_NatBijSubset, Zenon
  <2>3. number + 1 \in Nat
    BY <1>2
  <2>4. k = number + 1
    BY <2>1, <2>2, <2>3, Fun_NatBijSame, Zenon
  <2> QED
    BY <1>2, <2>2, <2>4
<1> QED
  BY <1>3, Zenon

\* The invariant holds throughout every call of GenerateRandomIntegers: the
\* intervals are nonempty, stay minGap apart up to where a loop still has to
\* repair them, and pin the values placed so far.
THEOREM Inductive == RandomSpec => []IInv
BY InitIInv, NextIInv, PTL DEF RandomSpec

\* GenerateRandomIntegers never draws from an empty interval (utils.cpp:411),
\* whatever its arguments.
THEOREM DrawIntervalSafe == RandomSpec => []DrawIntervalNonempty
<1>1. IInv => DrawIntervalNonempty
  BY DEF IInv
<1>. QED
  BY Inductive, <1>1, PTL

\* What GenerateRandomIntegers returns lies in [min, max] with minGap between
\* neighbours, whatever its arguments and whatever order the slots are filled in.
THEOREM ResultCorrect == RandomSpec => []ResultSpaced
<1>1. ASSUME IInv PROVE ResultSpaced
  <2>. SUFFICES ASSUME pc = "done" PROVE ResultSpaced
    BY DEF ResultSpaced
  <2>1. /\ arg \in Args /\ Arrays /\ ~Refused
        /\ result \in [Slots -> Int] /\ mins \in [Slots -> Int] /\ maxs \in [Slots -> Int]
    BY <1>1 DEF IInv, RandomTypeOK, Arrays
  <2>2. number \in Int /\ min \in Int /\ max \in Int /\ minGap \in Nat /\ number >= 1
    BY <2>1, ArgTypes, Accepted
  <2>3. Placed \subseteq Slots /\ ExistsBijection(1 .. number, Placed)
    BY <1>1, <2>1 DEF Placed, IInv, PlacedCount
  <2>4. Placed = Slots
    BY <2>2, <2>3, AllSlots
  <2>5. \A k \in Slots : mins[k] = result[k] /\ maxs[k] = result[k]
    BY <1>1, <2>1, <2>4 DEF IInv, PlacedPinned
  <2>6. \A k \in Slots : result[k] \in min .. max
    BY <1>1, <2>1, <2>2, <2>5 DEF IInv, Bounds
  <2>7. \A k \in Slots : k + 1 \in Slots => result[k] + minGap <= result[k + 1]
    BY <1>1, <2>1, <2>5 DEF IInv, MinsApart, MinLinkPending
  <2>. QED
    BY <2>6, <2>7 DEF ResultSpaced
<1>. QED
  BY Inductive, <1>1, PTL

=============================================================================
