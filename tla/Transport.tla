----------------------------- MODULE Transport -----------------------------
(***************************************************************************)
(* The sockets between games (libtasquake/src/boost_ipc.cpp and the loops   *)
(* of Source/tas/ipc2.cpp that use them). The server game and each client   *)
(* game have a game thread and an I/O thread. A message is a header that    *)
(* holds its length, then its payload, in a stream of units that arrives in *)
(* pieces of any size. Connections are numbered in the order in which they  *)
(* are made, as connection_id.                                              *)
(***************************************************************************)
EXTENDS Integers, Sequences, SequencesExt, FiniteSets

CONSTANTS
    Client,           \* the client games
    Payload,          \* the messages, in the order in which they are sent by anyone
    HEADER,           \* units of a header (4 bytes)
    BUFFER,           \* units of a read (4096 and 1024 bytes)
    MAX_BYTES,        \* longest message taken
    MaxConnections    \* bound

Connection == 0 .. MaxConnections - 1

None == -1

VARIABLES
    server,       \* [running, sessions, messages, todo, message],
                  \* and sends, the number of messages sent by anyone
    session,      \* connection -> [reader, up, down, clientOpen, serverOpen]
    client,       \* client -> [connection, m_bConnected, reader, messages]
    backlog,      \* connections not yet accepted
    connections,  \* connections made
    crashed,      \* <<>>, or what ended a game: <<"write", k>>, <<"stop">> or <<"command">>
    \* history, by connection: what each side sent and the other side handled
    sentUp, handledUp, sentDown, handledDown,
    framedUp, framedDown  \* the reader of the connection is in step with its stream

history == <<sentUp, handledUp, sentDown, handledDown, framedUp, framedDown>>
vars == <<server, session, client, backlog, connections, crashed, history>>

NextPayload == Payload[server.sends + 1]

EmptyReader == [length |-> 0, got |-> <<>>, skip |-> FALSE, out |-> <<>>]

NoServer == [running |-> FALSE, sessions |-> <<>>, messages |-> <<>>, todo |-> <<>>,
             message |-> <<>>, sends |-> 0]

NoClient == [connection |-> None, m_bConnected |-> FALSE, reader |-> EmptyReader, messages |-> <<>>]

Init ==
    /\ server = NoServer
    /\ session = [k \in Connection |-> [reader |-> EmptyReader, up |-> <<>>, down |-> <<>>,
                                        clientOpen |-> FALSE, serverOpen |-> FALSE]]
    /\ client = [c \in Client |-> NoClient]
    /\ backlog = <<>> /\ connections = 0 /\ crashed = <<>>
    /\ sentUp = [k \in Connection |-> <<>>] /\ handledUp = [k \in Connection |-> <<>>]
    /\ sentDown = [k \in Connection |-> <<>>] /\ handledDown = [k \in Connection |-> <<>>]
    /\ framedUp = [k \in Connection |-> TRUE] /\ framedDown = [k \in Connection |-> TRUE]

-----------------------------------------------------------------------------
\* The stream. write_to_socket writes the header, then the payload.
Frame(m) == [i \in 1 .. HEADER |-> IF i = HEADER THEN Len(m) ELSE 0] \o m

Drop(s, n) == SubSeq(s, n + 1, Len(s))

\* Where the last `rest' units of the messages sent begin: inside a header.
InHeader(sent, rest) ==
    \E j \in DOMAIN sent :
        LET last == Len(FlattenSeq([i \in 1 .. Len(sent) - j + 1 |-> Frame(sent[j + i - 1])]))
        IN  last - HEADER < rest /\ rest < last

\* The loop of do_read over the bytes of one read; session and client have the
\* same one. A read that ends inside a header drops that part of it: the reader
\* takes the rest for a header.
RECURSIVE Consume(_, _)
Consume(r, buffer) ==
    IF buffer = <<>> THEN r
    ELSE IF r.length = 0
    THEN IF Len(buffer) < HEADER THEN r
         ELSE Consume([r EXCEPT !.length = buffer[HEADER], !.skip = buffer[HEADER] > MAX_BYTES],
                      Drop(buffer, HEADER))
    ELSE LET bytesToRead == IF r.length - Len(r.got) < Len(buffer)
                            THEN r.length - Len(r.got) ELSE Len(buffer)
             bytes == SubSeq(buffer, 1, bytesToRead)
             got == r.got \o IF r.skip THEN [i \in DOMAIN bytes |-> 0] ELSE bytes
         IN  Consume(IF Len(got) = r.length
                     THEN [EmptyReader EXCEPT !.out = IF r.skip THEN r.out ELSE Append(r.out, got)]
                     ELSE [r EXCEPT !.got = got],
                     Drop(buffer, bytesToRead))

\* Mutant: the count of bytes of a message is not reset after it.
DoRead_Bug(r, buffer) ==
    LET n == Consume(r, buffer)
    IN  IF n.out # <<>> /\ n.length = 0 THEN [n EXCEPT !.got = <<0>>] ELSE n

\* What one read makes of a reader.
DoRead(r, buffer) == Consume(r, buffer)

\* Mutant: async_read, which waits for a full buffer.
ReadSizes_Bug(stream) == {n \in 1 .. Len(stream) : n = BUFFER}

\* The sizes a read may have: a full buffer, all that is there, or less.
ReadSizes(stream) == {n \in 1 .. Len(stream) : n <= BUFFER}

-----------------------------------------------------------------------------
\* The client's game thread.

\* The reader and the messages of an earlier connection stay as they were.
Connected(c) ==
    /\ connections < MaxConnections
    /\ connections' = connections + 1
    /\ backlog' = Append(backlog, connections)
    /\ session' = [session EXCEPT ![connections].clientOpen = TRUE, ![connections].serverOpen = TRUE]
    /\ client' = [client EXCEPT ![c].m_bConnected = TRUE, ![c].connection = connections]
    /\ framedDown' = [framedDown EXCEPT ![connections] = client[c].reader.length = 0]
    /\ UNCHANGED <<server, crashed, sentUp, handledUp, sentDown, handledDown, framedUp>>

\* Nobody listens and the exception is caught. A client that is connected has lost
\* its socket for one that is not open.
NotConnected(c) ==
    /\ client' = [client EXCEPT ![c].connection = None]
    /\ UNCHANGED <<server, session, backlog, connections, crashed, history>>

\* The client's side is gone, with what it had not read.
Left(c) == [k \in Connection |-> IF k # client[c].connection THEN session[k]
                                 ELSE [session[k] EXCEPT !.clientOpen = FALSE, !.down = <<>>]]

\* A new thread is assigned to the one that runs, which ends the game.
CL_Connect(c) ==
    \/ server.running /\ ~client[c].m_bConnected /\ Connected(c)
    \/ ~server.running /\ NotConnected(c)
    \/ /\ server.running /\ client[c].m_bConnected
       /\ crashed' = <<"command">>
       /\ client' = [client EXCEPT ![c] = NoClient] /\ session' = Left(c)
       /\ UNCHANGED <<server, backlog, connections, history>>

\* The I/O thread is joined and the socket closed.
CL_Disconnect(c) ==
    /\ client[c].m_bConnected
    /\ client' = [client EXCEPT ![c].m_bConnected = FALSE, ![c].connection = None]
    /\ session' = Left(c)
    /\ UNCHANGED <<server, backlog, connections, crashed, history>>

\* A write to a socket the other side has closed is swallowed or throws; one to a
\* socket that is not open throws.
CL_SendMessage(c) ==
    LET k == client[c].connection
    IN  /\ client[c].m_bConnected
        /\ server.sends < Len(Payload)
        /\ server' = [server EXCEPT !.sends = @ + 1]
        /\ IF k = None
           THEN crashed' = <<"command">> /\ UNCHANGED <<session, sentUp>>
           ELSE /\ IF session[k].serverOpen
                   THEN session' = [session EXCEPT ![k].up = @ \o Frame(NextPayload)] /\ UNCHANGED crashed
                   ELSE crashed' \in {<<>>, <<"write", k>>} /\ UNCHANGED session
                /\ sentUp' = [sentUp EXCEPT ![k] = Append(@, NextPayload)]
        /\ UNCHANGED <<client, backlog, connections, handledUp, sentDown, handledDown,
                       framedUp, framedDown>>

\* Handle_Client takes all messages and handles them one by one; those taken and
\* those that arrive meanwhile are one queue.
Handle_Client_Message(c) ==
    /\ client[c].m_bConnected /\ client[c].messages # <<>>
    /\ LET msg == Head(client[c].messages)
       IN  handledDown' = [handledDown EXCEPT ![msg.connection] = Append(@, msg.data)]
    /\ client' = [client EXCEPT ![c].messages = Tail(@)]
    /\ UNCHANGED <<server, session, backlog, connections, crashed, sentUp, handledUp, sentDown,
                   framedUp, framedDown>>

\* The client's I/O thread.
CL_DoRead(c) ==
    LET k == client[c].connection
    IN  /\ client[c].m_bConnected /\ k # None
        /\ \E n \in ReadSizes(session[k].down) :
             LET r == DoRead(client[c].reader, SubSeq(session[k].down, 1, n))
             IN  /\ client' = [client EXCEPT
                        ![c].reader = [r EXCEPT !.out = <<>>],
                        ![c].messages =
                            @ \o [i \in 1 .. Len(r.out) |-> [connection |-> k, data |-> r.out[i]]]]
                 /\ session' = [session EXCEPT ![k].down = Drop(@, n)]
                 /\ framedDown' = [framedDown EXCEPT
                        ![k] = @ /\ ~InHeader(sentDown[k], Len(session[k].down) - n)]
        /\ UNCHANGED <<server, backlog, connections, crashed, sentUp, handledUp, sentDown,
                       handledDown, framedUp>>

-----------------------------------------------------------------------------
\* The server's I/O thread.

Accept ==
    /\ server.running /\ backlog # <<>>
    /\ server' = [server EXCEPT !.sessions = Append(@, Head(backlog))]
    /\ backlog' = Tail(backlog)
    /\ UNCHANGED <<session, client, connections, crashed, history>>

SV_DoRead(k) ==
    /\ server.running /\ Contains(server.sessions, k)
    /\ \E n \in ReadSizes(session[k].up) :
         LET r == DoRead(session[k].reader, SubSeq(session[k].up, 1, n))
         IN  /\ session' = [session EXCEPT ![k].reader = [r EXCEPT !.out = <<>>],
                                           ![k].up = Drop(@, n)]
             /\ framedUp' = [framedUp EXCEPT ![k] = @ /\ ~InHeader(sentUp[k], Len(session[k].up) - n)]
             /\ server' = [server EXCEPT !.messages =
                    @ \o [i \in 1 .. Len(r.out) |-> [connection_id |-> k, data |-> r.out[i]]]]
    /\ UNCHANGED <<client, backlog, connections, crashed, sentUp, handledUp, sentDown, handledDown,
                   framedDown>>

\* Mutant: the last session goes instead of the one that ended.
DeleteSession_Bug(s, k) == [s EXCEPT !.sessions = Front(@)]

DeleteSession(s, k) == [s EXCEPT !.sessions = SelectSeq(@, LAMBDA j : j # k)]

\* The session of the server's side is gone, with what it had not read.
Ended(s) == [s EXCEPT !.serverOpen = FALSE, !.up = <<>>, !.reader = EmptyReader]

\* The read fails: the client has left. What it sent last may be lost.
SV_ReadError(k) ==
    /\ server.running /\ Contains(server.sessions, k)
    /\ ~session[k].clientOpen
    /\ server' = DeleteSession(server, k)
    /\ session' = [session EXCEPT ![k] = Ended(@)]
    /\ UNCHANGED <<client, backlog, connections, crashed, history>>

-----------------------------------------------------------------------------
\* The server's game thread.

Handle_Server_Message ==
    /\ server.running /\ server.todo = <<>> /\ server.messages # <<>>
    /\ LET msg == Head(server.messages)
       IN  handledUp' = [handledUp EXCEPT ![msg.connection_id] = Append(@, msg.data)]
    /\ server' = [server EXCEPT !.messages = Tail(@)]
    /\ UNCHANGED <<session, client, backlog, connections, crashed, sentUp, sentDown,
                   handledDown, framedUp, framedDown>>

\* SV_BroadCastMessage and the ping of Handle_Server ask for the sessions, then
\* send to one after the other; a prediction is asked of the first session. The
\* I/O thread may remove sessions meanwhile.
SV_BroadCastMessage ==
    /\ server.running /\ server.todo = <<>> /\ server.sessions # <<>>
    /\ server.sends < Len(Payload)
    /\ \E receivers \in {server.sessions, <<Head(server.sessions)>>} :
         server' = [server EXCEPT !.todo = receivers, !.message = NextPayload, !.sends = @ + 1]
    /\ UNCHANGED <<session, client, backlog, connections, crashed, history>>

\* No session of that number is a null pointer; a socket the client has closed
\* swallows the write or throws.
SV_SendMessage ==
    LET k == Head(server.todo)
    IN  /\ server.todo # <<>>
        /\ IF ~Contains(server.sessions, k)
           THEN crashed' = <<"write", k>> /\ UNCHANGED <<session, sentDown>>
           ELSE IF ~session[k].clientOpen
           THEN crashed' \in {<<>>, <<"write", k>>} /\ UNCHANGED <<session, sentDown>>
           ELSE /\ session' = [session EXCEPT ![k].down = @ \o Frame(server.message)]
                /\ sentDown' = [sentDown EXCEPT ![k] = Append(@, server.message)]
                /\ UNCHANGED crashed
        /\ server' = [server EXCEPT !.todo = Tail(@), !.message = IF Len(server.todo) = 1 THEN <<>> ELSE @]
        /\ UNCHANGED <<client, backlog, connections, sentUp, handledUp, handledDown,
                       framedUp, framedDown>>

\* The sockets of the server are closed.
Closed ==
    /\ session' = [k \in Connection |-> Ended(session[k])]
    /\ backlog' = <<>>

ServerGameEnds == Closed /\ crashed' = <<"command">> /\ server' = NoServer

\* server::stop joins the I/O thread and drops the sessions. The io_service is
\* deleted before the sockets that belong to it, which may be fatal. Without a
\* server there is no io_service to stop: a null pointer.
SV_Stop ==
    /\ server.todo = <<>>
    /\ \/ /\ server.running
          /\ server' = [server EXCEPT !.running = FALSE, !.sessions = <<>>]
          /\ Closed
          /\ crashed' \in {<<>>, <<"stop">>}
       \/ ~server.running /\ ServerGameEnds
    /\ UNCHANGED <<client, connections, history>>

\* With a server the port is taken and a thread runs already: one of them ends the game.
SV_Start ==
    /\ server.todo = <<>>
    /\ \/ /\ ~server.running
          /\ server' = [server EXCEPT !.running = TRUE]
          /\ UNCHANGED <<session, backlog, crashed>>
       \/ server.running /\ ServerGameEnds
    /\ UNCHANGED <<client, connections, history>>

Next ==
    /\ crashed = <<>>
    /\ \/ \E c \in Client : \/ CL_Connect(c) \/ CL_Disconnect(c) \/ CL_DoRead(c)
                            \/ Handle_Client_Message(c)
                            \/ CL_SendMessage(c)
       \/ Accept
       \/ \E k \in Connection : SV_DoRead(k) \/ SV_ReadError(k)
       \/ Handle_Server_Message
       \/ SV_BroadCastMessage
       \/ SV_SendMessage
       \/ SV_Stop
       \/ SV_Start

Spec == Init /\ [][Next]_vars

\* The threads go on; nothing is assumed of the users.
Fairness ==
    /\ WF_vars(crashed = <<>> /\ SV_SendMessage)
    /\ WF_vars(crashed = <<>> /\ Handle_Server_Message)
    /\ WF_vars(crashed = <<>> /\ Accept)
    /\ \A k \in Connection : WF_vars(crashed = <<>> /\ (SV_DoRead(k) \/ SV_ReadError(k)))
    /\ \A c \in Client : /\ WF_vars(crashed = <<>> /\ CL_DoRead(c))
                          /\ WF_vars(crashed = <<>> /\ Handle_Client_Message(c))

LiveSpec == Spec /\ Fairness

-----------------------------------------------------------------------------
Up(k) == INSTANCE MessageChannel
            WITH Message <- Range(Payload), Window <- Len(Payload),
                 sent <- sentUp[k], delivered <- handledUp[k]

Down(k) == INSTANCE MessageChannel
            WITH Message <- Range(Payload), Window <- Len(Payload),
                 sent <- sentDown[k], delivered <- handledDown[k]

\* Whatever the other connections do, each connection is a reliable channel in both
\* directions (the messages handled are those sent, whole, once and in order) for as
\* long as its reader is in step: until a read ends inside a header, of which do_read
\* drops the part it has, and unless the client inherits a partly read message of an
\* earlier connection. Other reads may cut the stream anywhere.
Channels ==
    /\ \A k \in Connection : Up(k)!Init /\ Down(k)!Init
    /\ [][\A k \in Connection :
             /\ framedUp'[k] => [Up(k)!Next]_(Up(k)!vars)
             /\ framedDown'[k] => [Down(k)!Next]_(Down(k)!vars)]_history

\* A session is on the server's list, once, exactly while its connection is accepted
\* and not ended; and a write is fatal, on a closed socket or on a session that is gone
\* from the list, only where the client or the server has left the connection. (The other
\* ends of a game are a stop and the commands given out of turn: starting a server twice,
\* stopping none, connecting twice, sending after connecting anew to nobody.)
SessionsKept ==
    /\ \A k \in Connection :
         Cardinality({i \in DOMAIN server.sessions : server.sessions[i] = k})
             = IF session[k].serverOpen /\ ~Contains(backlog, k) THEN 1 ELSE 0
    /\ \A k \in Connection : crashed = <<"write", k>> =>
         ~session[k].clientOpen \/ ~session[k].serverOpen

\* A message sent while both sides stay is handled in the end, unless a read ends inside
\* a header: nothing brings the reader back in step then.
MessagesArrive ==
    \A k \in Connection :
        []<>(\/ Len(handledUp[k]) >= Len(sentUp[k])
             \/ ~session[k].clientOpen \/ ~session[k].serverOpen
             \/ crashed # <<>> \/ ~framedUp[k])

=============================================================================
