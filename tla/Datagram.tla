------------------------------ MODULE Datagram ------------------------------
(***************************************************************************)
(* One direction of a network connection of the engine (Source/net_dgrm.c): *)
(* the socket that sends reliable messages and unreliable datagrams, the    *)
(* socket at the other end, and a network that loses, duplicates and        *)
(* reorders packets. The two directions of a connection share no field but  *)
(* the time-outs, so one is modelled.                                       *)
(*                                                                          *)
(* A message is a sequence of units, MAX_DATAGRAM of which fit a packet.    *)
(* Sequence numbers are unsigned 32-bit in the code and do not wrap here.   *)
(***************************************************************************)
EXTENDS Naturals, Sequences, FiniteSets

CONSTANTS
    Unit,             \* what messages are made of
    Message,          \* the reliable messages callers send
    MAX_DATAGRAM,     \* units of a message in one packet
    MaxPackets,       \* bound on the packets reliable messages take
    MaxDatagrams      \* bound on the unreliable datagrams sent

ASSUME DatagramAssumption ==
    /\ MAX_DATAGRAM \in Nat \ {0}
    /\ Message \subseteq Seq(Unit)
    /\ MaxPackets \in Nat
    /\ MaxDatagrams \in Nat

VARIABLES
    \* the sending qsocket_t
    canSend, sendNext, sendMessage, sendSequence, ackSequence,
    unreliableSendSequence,
    late,             \* net_time - lastSendTime > 1.0
    sReading,         \* inside the loop of Datagram_GetMessage
    sDisconnected,
    \* the receiving qsocket_t
    receiveSequence, receiveMessage, unreliableReceiveSequence,
    rReading, rDisconnected,
    \* the packets on the way
    net,
    \* history: reliable messages handed over and returned, datagrams returned
    sent, delivered, datagrams

sender == <<canSend, sendNext, sendMessage, sendSequence, ackSequence,
            unreliableSendSequence, late, sReading, sDisconnected, sent>>
receiver == <<receiveSequence, receiveMessage, unreliableReceiveSequence,
              rReading, rDisconnected, delivered, datagrams>>
vars == <<sender, receiver, net>>

-----------------------------------------------------------------------------
\* A packet holds the front of what is left of a message.

Parts(m) == (Len(m) + MAX_DATAGRAM - 1) \div MAX_DATAGRAM
LastPart(m) == Len(m) <= MAX_DATAGRAM
Front(m) == IF LastPart(m) THEN m ELSE SubSeq(m, 1, MAX_DATAGRAM)
Rest(m) == IF LastPart(m) THEN <<>> ELSE SubSeq(m, MAX_DATAGRAM + 1, Len(m))

DataPacket(sequence, m) ==
    [flag |-> "DATA", sequence |-> sequence, eom |-> LastPart(m), data |-> Front(m)]

AckPacket(sequence) == [flag |-> "ACK", sequence |-> sequence]

UnreliablePacket(sequence) == [flag |-> "UNRELIABLE", sequence |-> sequence]

Init ==
    /\ canSend = TRUE /\ sendNext = FALSE /\ sendMessage = <<>>
    /\ sendSequence = 0 /\ ackSequence = 0 /\ unreliableSendSequence = 0
    /\ late = FALSE /\ sReading = FALSE /\ sDisconnected = FALSE
    /\ receiveSequence = 0 /\ receiveMessage = <<>> /\ unreliableReceiveSequence = 0
    /\ rReading = FALSE /\ rDisconnected = FALSE
    /\ net = {} /\ sent = <<>> /\ delivered = <<>> /\ datagrams = <<>>

-----------------------------------------------------------------------------
\* The sending socket. Callers ask Datagram_CanSendMessage first, which returns
\* canSend; it would also send a pending part, but none is pending between two
\* calls (Streaming).

Datagram_SendMessage(m) ==
    /\ ~sReading /\ ~sDisconnected
    /\ canSend
    /\ sendSequence + Parts(m) <= MaxPackets
    /\ sendMessage' = m /\ sent' = Append(sent, m)
    /\ net' = net \cup {DataPacket(sendSequence, m)}
    /\ sendSequence' = sendSequence + 1
    /\ canSend' = FALSE /\ late' = FALSE
    /\ UNCHANGED <<sendNext, ackSequence, unreliableSendSequence, sReading, sDisconnected, receiver>>

Datagram_SendUnreliableMessage ==
    /\ ~sReading /\ ~sDisconnected
    /\ unreliableSendSequence < MaxDatagrams
    /\ net' = net \cup {UnreliablePacket(unreliableSendSequence)}
    /\ unreliableSendSequence' = unreliableSendSequence + 1
    /\ UNCHANGED <<canSend, sendNext, sendMessage, sendSequence, ackSequence, late,
                   sReading, sDisconnected, sent, receiver>>

\* Mutant: the packet that was lost is not sent again.
ReSendMessage_Bug == UNCHANGED <<net, sendNext, late>>

ReSendMessage ==
    /\ net' = net \cup {DataPacket(sendSequence - 1, sendMessage)}
    /\ sendNext' = FALSE
    /\ late' = FALSE

\* Datagram_GetMessage of the sending socket: its start, ...
Sender_GetMessage ==
    /\ ~sReading /\ ~sDisconnected
    /\ sReading' = TRUE
    /\ IF ~canSend /\ late THEN ReSendMessage ELSE UNCHANGED <<net, sendNext, late>>
    /\ UNCHANGED <<canSend, sendMessage, sendSequence, ackSequence, unreliableSendSequence,
                   sDisconnected, sent, receiver>>

\* Mutant: any acknowledgement counts.
Read_ACK_Bug(p) ==
    /\ sReading /\ p \in net /\ p.flag = "ACK"
    /\ ~canSend /\ ~sendNext
    /\ ackSequence' = sendSequence
    /\ sendMessage' = Rest(sendMessage)
    /\ sendNext' = ~LastPart(sendMessage)
    /\ canSend' = LastPart(sendMessage)
    /\ UNCHANGED <<sendSequence, unreliableSendSequence, late, sReading, sDisconnected,
                   sent, net, receiver>>

\* ... a packet with an acknowledgement; stale and duplicate ones change nothing, ...
Read_ACK(p) ==
    /\ sReading /\ p \in net /\ p.flag = "ACK"
    /\ p.sequence = sendSequence - 1
    /\ p.sequence = ackSequence
    /\ ackSequence' = ackSequence + 1
    /\ sendMessage' = Rest(sendMessage)
    /\ sendNext' = ~LastPart(sendMessage)
    /\ canSend' = LastPart(sendMessage)
    /\ UNCHANGED <<sendSequence, unreliableSendSequence, late, sReading, sDisconnected,
                   sent, net, receiver>>

SendMessageNext ==
    /\ net' = net \cup {DataPacket(sendSequence, sendMessage)}
    /\ sendSequence' = sendSequence + 1
    /\ sendNext' = FALSE
    /\ late' = FALSE

\* ... and its end, when no more packets wait.
Sender_GetMessage_End ==
    /\ sReading
    /\ sReading' = FALSE
    /\ IF sendNext THEN SendMessageNext ELSE UNCHANGED <<net, sendSequence, sendNext, late>>
    /\ UNCHANGED <<canSend, sendMessage, ackSequence, unreliableSendSequence,
                   sDisconnected, sent, receiver>>

-----------------------------------------------------------------------------
\* Datagram_GetMessage of the receiving socket: its start, ...
Receiver_GetMessage ==
    /\ ~rReading /\ ~rDisconnected
    /\ rReading' = TRUE
    /\ UNCHANGED <<receiveSequence, receiveMessage, unreliableReceiveSequence,
                   rDisconnected, delivered, datagrams, net, sender>>

\* Mutant: a part that comes again is taken again.
Read_DATA_Bug(p) ==
    /\ rReading /\ p \in net /\ p.flag = "DATA"
    /\ net' = net \cup {AckPacket(p.sequence)}
    /\ p.sequence <= receiveSequence
    /\ Len(delivered) < MaxPackets
    /\ receiveSequence' = p.sequence + 1
    /\ IF p.eom
       THEN /\ delivered' = Append(delivered, receiveMessage \o p.data)
            /\ receiveMessage' = <<>>
            /\ rReading' = FALSE
       ELSE /\ receiveMessage' = receiveMessage \o p.data
            /\ UNCHANGED <<delivered, rReading>>
    /\ UNCHANGED <<unreliableReceiveSequence, rDisconnected, datagrams, sender>>

\* ... a part of a message: always acknowledged, taken if it is the next one;
\* the last part completes the message and ends the call, ...
Read_DATA(p) ==
    /\ rReading /\ p \in net /\ p.flag = "DATA"
    /\ net' = net \cup {AckPacket(p.sequence)}
    /\ IF p.sequence # receiveSequence
       THEN UNCHANGED <<receiveSequence, receiveMessage, delivered, rReading>>
       ELSE /\ receiveSequence' = receiveSequence + 1
            /\ IF p.eom
               THEN /\ delivered' = Append(delivered, receiveMessage \o p.data)
                    /\ receiveMessage' = <<>>
                    /\ rReading' = FALSE
               ELSE /\ receiveMessage' = receiveMessage \o p.data
                    /\ UNCHANGED <<delivered, rReading>>
    /\ UNCHANGED <<unreliableReceiveSequence, rDisconnected, datagrams, sender>>

\* Mutant: a stale datagram is returned.
Read_UNRELIABLE_Bug(p) ==
    /\ rReading /\ p \in net /\ p.flag = "UNRELIABLE"
    /\ Len(datagrams) < MaxDatagrams
    /\ rReading' = FALSE
    /\ unreliableReceiveSequence' = p.sequence + 1
    /\ datagrams' = Append(datagrams, p.sequence)
    /\ UNCHANGED <<receiveSequence, receiveMessage, rDisconnected, delivered, net, sender>>

\* ... a datagram: dropped if a later one came first; it ends the call either way, ...
Read_UNRELIABLE(p) ==
    /\ rReading /\ p \in net /\ p.flag = "UNRELIABLE"
    /\ rReading' = FALSE
    /\ IF p.sequence < unreliableReceiveSequence
       THEN UNCHANGED <<unreliableReceiveSequence, datagrams>>
       ELSE /\ unreliableReceiveSequence' = p.sequence + 1
            /\ datagrams' = Append(datagrams, p.sequence)
    /\ UNCHANGED <<receiveSequence, receiveMessage, rDisconnected, delivered, net, sender>>

\* ... and its end, when no more packets wait.
Receiver_GetMessage_End ==
    /\ rReading
    /\ rReading' = FALSE
    /\ UNCHANGED <<receiveSequence, receiveMessage, unreliableReceiveSequence,
                   rDisconnected, delivered, datagrams, net, sender>>

-----------------------------------------------------------------------------
\* NET_GetMessage closes a socket after net_messagetimeout of silence, and
\* callers close it when a write fails: at any moment between two calls. They
\* also close it when a read fails or a packet has an invalid length, which ends
\* a call in its loop, with the next part of the message unsent.
Sender_Close ==
    /\ ~sDisconnected
    /\ sDisconnected' = TRUE
    /\ sReading' = FALSE
    /\ UNCHANGED <<canSend, sendNext, sendMessage, sendSequence, ackSequence,
                   unreliableSendSequence, late, sent, receiver, net>>

Receiver_Close ==
    /\ ~rDisconnected
    /\ rDisconnected' = TRUE
    /\ rReading' = FALSE
    /\ UNCHANGED <<receiveSequence, receiveMessage, unreliableReceiveSequence,
                   delivered, datagrams, net, sender>>

\* More than a second passes after a packet was sent.
Time_Passes ==
    /\ ~late /\ ~canSend
    /\ late' = TRUE
    /\ UNCHANGED <<canSend, sendNext, sendMessage, sendSequence, ackSequence,
                   unreliableSendSequence, sReading, sDisconnected, sent, receiver, net>>

\* A packet that was read may come again until the network drops it.
Lose(p) ==
    /\ p \in net
    /\ net' = net \ {p}
    /\ UNCHANGED <<sender, receiver>>

Next ==
    \/ \E m \in Message : Datagram_SendMessage(m)
    \/ Datagram_SendUnreliableMessage
    \/ Sender_GetMessage
    \/ \E p \in net : Read_ACK(p)
    \/ Sender_GetMessage_End
    \/ Receiver_GetMessage
    \/ \E p \in net : Read_DATA(p)
    \/ \E p \in net : Read_UNRELIABLE(p)
    \/ Receiver_GetMessage_End
    \/ Sender_Close
    \/ Receiver_Close
    \/ Time_Passes
    \/ \E p \in net : Lose(p)

Spec == Init /\ [][Next]_vars

\* Both sides call NET_GetMessage in every host frame and read what waits, time
\* passes, and an outage of the network ends.
Fairness ==
    /\ WF_vars(Sender_GetMessage) /\ WF_vars(Sender_GetMessage_End)
    /\ WF_vars(Receiver_GetMessage) /\ WF_vars(Receiver_GetMessage_End)
    /\ WF_vars(Time_Passes)
    /\ SF_vars(\E p \in net : Read_ACK(p))
    /\ SF_vars(\E p \in net : p.sequence = receiveSequence /\ Read_DATA(p))
    /\ SF_vars(\E p \in net : p.sequence # receiveSequence /\ Read_DATA(p))
    /\ <>[][net \subseteq net']_vars

LiveSpec == Spec /\ Fairness

-----------------------------------------------------------------------------
(* Properties *)

TypeOK ==
    /\ sendSequence \in Nat /\ ackSequence \in Nat /\ receiveSequence \in Nat
    /\ unreliableSendSequence \in Nat /\ unreliableReceiveSequence \in Nat
    /\ sendMessage \in Seq(Unit) /\ receiveMessage \in Seq(Unit)
    /\ sent \in Seq(Seq(Unit)) /\ delivered \in Seq(Seq(Unit))
    /\ \A p \in net : p.sequence \in Nat

Channel == INSTANCE MessageChannel WITH Window <- 1

\* Reliable messages arrive whole, in order and once, and a message is accepted
\* only when the one before it has arrived: the socket implements a channel of
\* window 1, whatever the network does (Datagram_GetMessage's sequence numbers).
ImplementsChannel == Channel!Spec

\* A part waits for its acknowledgement, and it has arrived at the other side.
Waiting == ~canSend /\ ~sendNext
Received == Waiting /\ receiveSequence = sendSequence

\* What the sending socket still holds and what the receiving socket has put
\* together are at every moment the two parts of the message under way, and no
\* packet in the network can disturb them (Datagram_SendMessage, SendMessageNext,
\* ReSendMessage against Datagram_GetMessage). While the connection is open a part
\* is pending only inside Datagram_GetMessage, so a retransmission never carries
\* the next part under the number of the previous one.
Streaming ==
    /\ TypeOK
    /\ sendNext => (sReading \/ sDisconnected) /\ ~canSend
    /\ sendSequence = ackSequence + (IF Waiting THEN 1 ELSE 0)
    /\ receiveSequence = sendSequence \/ (Waiting /\ receiveSequence = ackSequence)
    /\ \A p \in net :
          /\ p.flag = "DATA" => p.sequence < sendSequence
          /\ p.flag = "DATA" /\ Waiting /\ p.sequence = ackSequence =>
                p = DataPacket(ackSequence, sendMessage)
          /\ p.flag = "ACK" => p.sequence < receiveSequence
    /\ IF canSend \/ (Received /\ LastPart(sendMessage))
       THEN sent = delivered /\ receiveMessage = <<>>
       ELSE sent = Append(delivered,
                          receiveMessage \o (IF Received THEN Rest(sendMessage) ELSE sendMessage))

\* No datagram is returned twice or after a later one (unreliableReceiveSequence).
DatagramsInOrder ==
    \A i \in 1 .. Len(datagrams) - 1 : datagrams[i] < datagrams[i + 1]

\* Every reliable message gets through, and the socket can send again, unless one
\* side closes the connection: the retransmission after a second recovers from
\* every loss.
Delivery ==
    ~canSend ~> (canSend /\ delivered = sent) \/ sDisconnected \/ rDisconnected

=============================================================================
