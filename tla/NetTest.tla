------------------------------- MODULE NetTest -------------------------------
(***************************************************************************)
(* net_srv.c and net_clnt.c: a thread of the server takes one client after *)
(* the other, reads windows from its socket piece by piece and writes each *)
(* piece to the file data.recv.  Clients send bursts of windows until they *)
(* are stopped.  A byte is <<client, position>>.                           *)
(*                                                                         *)
(* recvMB only counts windows for a message.  sigstop ends the server in   *)
(* one step: what the thread still does before exit is lost.  The timer of *)
(* the server, which reads files into another buffer, is left out.         *)
(***************************************************************************)
EXTENDS Integers, Sequences

CONSTANTS
  Clients,     \* the clients, each connects once
  window,      \* size of buf_recv
  SocketSize,  \* bytes that fit between writen and read
  MaxSent      \* bound on the bytes of a client

ASSUME NetAssumption == {window, SocketSize, MaxSent} \subseteq Nat \ {0}

VARIABLES
  net,              \* the thread: "off", "accept", "read", "write", "exited"
  fd_socket_clnt,   \* the client served, or the one before while in accept
  buf_recv,
  got, nread,       \* readn_to_file: inLen - nleft, and the last read's result
  client,           \* its connection: [state, sent, unread]
  backlog,          \* connections not accepted yet
  data_recv,        \* the file
  write_failed      \* ghost: a write to the file failed or was short

netVars ==
  <<net, fd_socket_clnt, buf_recv, got, nread, client, backlog, data_recv, write_failed>>

NetStart ==
  /\ fd_socket_clnt \in Clients /\ buf_recv = [i \in 1 .. window |-> <<>>]
  /\ got = 0 /\ nread = 0
  /\ client = [c \in Clients |-> [state |-> "new", sent |-> 0, unread |-> 0]]
  /\ backlog = <<>> /\ data_recv = <<>> /\ write_failed = FALSE
NetInit == net = "accept" /\ NetStart
NetOff == net = "off" /\ NetStart

-----------------------------------------------------------------------------
(* The clients and their connections                                         *)

Listening == net \notin {"off", "exited"}
ServerUnchanged ==
  UNCHANGED <<net, fd_socket_clnt, buf_recv, got, nread, data_recv, write_failed>>

ConnectTo(c) ==
  /\ Listening /\ client[c].state = "new"
  /\ client' = [client EXCEPT ![c].state = "connected"]
  /\ backlog' = Append(backlog, c)
  /\ ServerUnchanged
\* writen waits while the socket is full; a signal may stop it within a window.
SendByte(c) ==
  /\ Listening /\ client[c].state = "connected"
  /\ client[c].unread < SocketSize /\ client[c].sent < MaxSent
  /\ client' = [client EXCEPT ![c].sent = @ + 1, ![c].unread = @ + 1]
  /\ UNCHANGED backlog /\ ServerUnchanged
StopClient(c) ==
  /\ Listening /\ client[c].state = "connected"
  /\ client' = [client EXCEPT ![c].state = "stopped"]
  /\ UNCHANGED backlog /\ ServerUnchanged
\* A reset takes along what has not been read.
ResetConnection(c) ==
  /\ Listening /\ client[c].state = "connected"
  /\ client' = [client EXCEPT ![c].state = "reset", ![c].unread = 0]
  /\ UNCHANGED backlog /\ ServerUnchanged

-----------------------------------------------------------------------------
(* receive_data_write and readn_to_file                                      *)

Served == client[fd_socket_clnt]

AcceptClient ==
  /\ net = "accept" /\ backlog # <<>>
  /\ net' = "read" /\ fd_socket_clnt' = Head(backlog) /\ backlog' = Tail(backlog)
  /\ UNCHANGED <<buf_recv, got, nread, client, data_recv, write_failed>>

\* What readn_to_file returns decides: a part of a window is reported and the next
\* window begun; nothing, or an error, is taken for the client's end.
ReadnReturns(n) ==
  /\ net' = IF n > 0 THEN "read" ELSE "accept"
  /\ got' = 0

ReadSocket ==
  /\ net = "read" /\ Served.unread > 0
  /\ \E n \in 1 .. window - got :
     /\ n <= Served.unread
     /\ nread' = n
     /\ buf_recv' = [i \in 1 .. window |->
          IF i \in got + 1 .. got + n
          THEN <<fd_socket_clnt, Served.sent - Served.unread + i - got>> ELSE buf_recv[i]]
     /\ client' = [client EXCEPT ![fd_socket_clnt].unread = @ - n]
  /\ net' = "write"
  /\ UNCHANGED <<fd_socket_clnt, got, backlog, data_recv, write_failed>>
EndOfClient ==
  /\ net = "read" /\ Served.unread = 0
  /\ \/ Served.state = "stopped" /\ ReadnReturns(got)
     \/ Served.state = "reset" /\ ReadnReturns(-1)
  /\ UNCHANGED <<fd_socket_clnt, buf_recv, nread, client, backlog, data_recv, write_failed>>

PieceOfBuffer(n) == SubSeq(buf_recv, 1, n)                               \* mutant
PieceRead(n) == SubSeq(buf_recv, got + 1, got + n)

\* The file takes n bytes of what was read; no error is seen if it takes some.
WriteToFile(n) ==
  /\ net = "write"
  /\ data_recv' = data_recv \o PieceRead(n)
  /\ \/ got + nread < window /\ got' = got + nread /\ net' = "read"
     \/ got + nread = window /\ ReadnReturns(window)
  /\ write_failed' = (write_failed \/ n < nread)
  /\ UNCHANGED <<fd_socket_clnt, buf_recv, nread, client, backlog>>
WriteError ==
  /\ net = "write" /\ ReadnReturns(got)
  /\ write_failed' = TRUE
  /\ UNCHANGED <<fd_socket_clnt, buf_recv, nread, client, backlog, data_recv>>

StopServer ==
  /\ Listening /\ net' = "exited"
  /\ UNCHANGED <<fd_socket_clnt, buf_recv, got, nread, client, backlog, data_recv, write_failed>>

ReceiveThread ==
  AcceptClient \/ ReadSocket \/ EndOfClient \/ WriteError
  \/ \E n \in 1 .. window : n <= nread /\ WriteToFile(n)
NetNext ==
  \/ ReceiveThread \/ StopServer
  \/ \E c \in Clients : ConnectTo(c) \/ SendByte(c) \/ StopClient(c) \/ ResetConnection(c)

NetFairness == WF_netVars(ReceiveThread)

-----------------------------------------------------------------------------

Bytes == Clients \X (1 .. MaxSent)

\* Every variable has its type.
NetTypeOK ==
  /\ net \in {"off", "accept", "read", "write", "exited"}
  /\ fd_socket_clnt \in Clients
  /\ buf_recv \in [1 .. window -> Bytes \cup {<<>>}]
  /\ got \in 0 .. window - 1 /\ nread \in 0 .. window
  /\ client \in [Clients -> [state : {"new", "connected", "stopped", "reset"},
                             sent : 0 .. MaxSent, unread : 0 .. SocketSize]]
  /\ backlog \in Seq(Clients) /\ data_recv \in Seq(Bytes)
  /\ write_failed \in BOOLEAN

\* What is in the file of a client is in the order it was sent, nothing of it twice; and as
\* long as every write succeeds it is all that was read from it, but for the piece that is
\* being written: wherever windows and reads cut the streams of several clients.
InOrder ==
  \A i, j \in DOMAIN data_recv :
    i < j /\ data_recv[i][1] = data_recv[j][1] => data_recv[i][2] < data_recv[j][2]
BeingWritten(c, k) ==
  /\ net = "write" /\ fd_socket_clnt = c
  /\ client[c].sent - client[c].unread - nread < k
AllReadKept ==
  \A c \in Clients : \A k \in 1 .. client[c].sent - client[c].unread :
    client[c].state # "reset" =>
      BeingWritten(c, k) \/ \E i \in DOMAIN data_recv : data_recv[i] = <<c, k>>
StreamsKept == InOrder /\ (write_failed \/ net = "exited" \/ AllReadKept)

\* Everything that a stopped client has sent comes into the file, once and in order, if
\* every write succeeds and the clients ahead of it end too: wherever windows and reads
\* cut the stream, and however the client before it ended.
RecordedOf(c) == SelectSeq(data_recv, LAMBDA b : b[1] = c)
ClientsRecorded ==
  \A c \in Clients :
    client[c].state = "stopped" /\ (\A d \in Clients : client[d].state # "connected")
      ~> \/ RecordedOf(c) = [k \in 1 .. client[c].sent |-> <<c, k>>]
         \/ write_failed \/ net \in {"off", "exited"}
=============================================================================
