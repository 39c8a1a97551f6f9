----------------------------- MODULE DataSocket -----------------------------
(***************************************************************************)
(* The data sockets of an FTP session (socket.go): the client's side, the  *)
(* goroutine that accepts one connection for a passive socket, and what    *)
(* Write and Close of the session find while that goes on.  socket.conn is *)
(* shared without a lock.                                                  *)
(***************************************************************************)
EXTENDS Naturals

CONSTANT Socket   \* the sockets the sessions of one client may open

VARIABLE sock     \* [Socket -> state of that socket]

\* "listening": Accept is waiting; "accepted": it has returned, wg.Done() has
\* run, socket.conn is still nil; "failed": it has returned an error; "open" and
\* "closed": socket.conn is set.  "peer" is the client's end of the connection;
\* "carried" counts the pieces of data that have been written to it.
SocketState ==
    [state : {"unused", "listening", "accepted", "failed", "open", "closed"},
     peer : {"none", "dialled", "left"},
     carried : Nat]

SocketsInit ==
    sock = [k \in Socket |-> [state |-> "unused", peer |-> "none", carried |-> 0]]

Unused == {k \in Socket : sock[k].state = "unused"}

\* The socket that is opened next.
Fresh == CHOOSE k \in Unused : TRUE

\* newActiveSocket, once DialTCP has succeeded.
NewActiveSocket == [sock EXCEPT ![Fresh].state = "open", ![Fresh].peer = "dialled"]

\* newPassiveSocket: GoListenAndServe has a listener and starts the goroutine.
\* The listener itself is never closed.
NewPassiveSocket == [sock EXCEPT ![Fresh].state = "listening"]

\* Variant of CloseSocket that leaves the connection alone.
CloseNothing(s, k) == s

\* Close of the session, with the sockets in state s: nothing unless socket.conn
\* is set.
CloseSocket(s, k) ==
    [s EXCEPT ![k].state = IF @ = "open" THEN "closed" ELSE @]

\* The connection has taken a piece of data.
Carry(k) == [sock EXCEPT ![k].carried = @ + 1]

\* Variant of Available that waits for socket.conn instead of the wait group.
AvailableOpen(k) == sock[k].state \in {"open", "closed"}

\* waitForOpenSocket returns: socket.conn is set or the wait group released.
Available(k) == sock[k].state # "listening"

\* Write may succeed: waitForOpenSocket has seen socket.conn, and the connection
\* takes the data; the client may have left without the connection knowing.
WriteSucceeds(k) == sock[k].state = "open"

\* Write may fail: the wait group was released by an error or before the
\* connection was stored, or the client has left.  A client that stays reads.
WriteFails(k) ==
    \/ sock[k].state \in {"accepted", "failed", "closed"}
    \/ sock[k].state = "open" /\ sock[k].peer = "left"

-----------------------------------------------------------------------------

\* The client connects to the port it was told.
Dial(k) ==
    /\ sock[k].state = "listening" /\ sock[k].peer = "none"
    /\ sock' = [sock EXCEPT ![k].peer = "dialled"]

\* The client closes its end while the connection may still be written to.
Leave(k) ==
    /\ sock[k].state \in {"listening", "accepted", "open"} /\ sock[k].peer = "dialled"
    /\ sock' = [sock EXCEPT ![k].peer = "left"]

\* The goroutine of GoListenAndServe: Accept returns and wg.Done() runs ...
Accept(k) ==
    /\ sock[k].state = "listening" /\ sock[k].peer # "none"
    /\ sock' = [sock EXCEPT ![k].state = "accepted"]

\* ... with an error ...
AcceptFails(k) ==
    /\ sock[k].state = "listening"
    /\ sock' = [sock EXCEPT ![k].state = "failed"]

\* ... or a connection, which is stored only now, wanted or not.
StoreConn(k) ==
    /\ sock[k].state = "accepted"
    /\ sock' = [sock EXCEPT ![k].state = "open"]

ClientStep(k) == Dial(k) \/ Leave(k)

AcceptStep(k) == Accept(k) \/ AcceptFails(k) \/ StoreConn(k)
=============================================================================
