----------------------------- MODULE FtpSession -----------------------------
(***************************************************************************)
(* The sessions of one FTP client, one after the other: the vendored       *)
(* server's command loop and commands (conn.go, cmd.go), its data sockets  *)
(* (DataSocket) and dftp's driver (FtpDriver).  The client may send any    *)
(* command at any time; the session takes a line only when it is through   *)
(* with the last one.  Server options are those dftp sets: no TLS, no      *)
(* public address, every password accepted.  renameFrom and appendData are *)
(* left out: only Rename and PutFile get them, which refuse in any case.   *)
(***************************************************************************)
EXTENDS DataSocket, FtpDriver

CONSTANTS
    User,       \* user names clients give
    NoUser,     \* the empty user name
    NoSocket,   \* dataConn is nil
    Param,      \* paths as clients write them, see below
    Offset,     \* offsets of REST
    MaxBlocks,  \* bound on the pieces in which io.Copy moves a file
    FromIPv6    \* the client's connection has an IPv6 address

ASSUME SessionAssumption ==
    /\ NoUser \notin User /\ NoSocket \notin Socket
    /\ Offset \subseteq Int /\ 0 \in Offset
    /\ MaxBlocks \in Nat /\ FromIPv6 \in BOOLEAN

\* A path parameter as filepath.Clean leaves it: absolute, or relative with so
\* many ".." in front; then names.  Commands that want one complain if none is
\* given, others take the current directory.
PathParam == [given : BOOLEAN, abs : BOOLEAN, up : Nat, names : Path]

NoParam == [given |-> FALSE, abs |-> FALSE, up |-> 0, names |-> <<>>]

ASSUME ParamAssumption == Param \subseteq PathParam

VARIABLES
    serving,      \* the accept loop of ListenAndServe runs
    control,      \* the client's end of the control connection: "up", "down"
    stage,        \* where the session's goroutine is, see Stage
    reply,        \* the final reply to the last command, see Class
    user, reqUser,
    namePrefix, lastFilePos,
    dataConn,     \* the session's data socket
    path,         \* the path a listing is about
    size,         \* pieces of the file that is being sent
    left          \* those that io.Copy has not yet written

login == <<user, reqUser>>
place == <<namePrefix, lastFilePos>>
data == <<dataConn, sock>>
work == <<stage, path, size, left>>
vars == <<serving, control, reply, login, place, data, work, tree>>

\* "ready" for a line; between the Stat and the ListDir of a listing; in the
\* Write of sendOutofbandData; in io.Copy, about to read or to write a piece;
\* "closed" after Close.  A panic in a session ends the whole process: "crashed".
Stage == {"none", "ready", "listing", "sending", "reading", "writing",
          "closed", "crashed"}

\* A reply is final unless its code is 150; 4xx and 5xx refuse.
Class(code) == IF code < 400 THEN "done" ELSE "refused"

Init ==
    /\ SocketsInit /\ TreeInit
    /\ serving = TRUE /\ control = "down" /\ stage = "none" /\ reply = "none"
    /\ user = NoUser /\ reqUser = NoUser
    /\ namePrefix = Root /\ lastFilePos = 0
    /\ dataConn = NoSocket /\ path = Root /\ size = 0 /\ left = 0

-----------------------------------------------------------------------------
\* The accept loop.

\* The next client: newConn, and the greeting of Serve.
NewConn ==
    /\ serving /\ stage \in {"none", "closed"}
    /\ control' = "up" /\ stage' = "ready" /\ reply' = Class(220)
    /\ user' = NoUser /\ reqUser' = NoUser
    /\ namePrefix' = Root /\ lastFilePos' = 0
    /\ dataConn' = NoSocket /\ path' = Root /\ size' = 0 /\ left' = 0
    /\ UNCHANGED <<serving, sock, tree>>

\* Accept returns an error, be it for want of descriptors: ListenAndServe breaks
\* its loop and returns nil, which ServeFtp takes for nothing wrong.  It does not
\* matter to a session that is running.
AcceptLoopEnds ==
    /\ serving /\ stage \in {"none", "closed"}
    /\ serving' = FALSE
    /\ UNCHANGED <<control, reply, login, place, data, work, tree>>

-----------------------------------------------------------------------------
\* What commands have in common.

Answer(code) == reply' = Class(code)

\* A command that does nothing but reply.
JustAnswer(code) == Answer(code) /\ UNCHANGED <<login, place, data, work>>

\* A panic: nobody recovers.
Panic == stage' = "crashed" /\ UNCHANGED <<reply, login, place, data, path, size, left>>

\* Variant of ReceiveLine without the login test.
ReceiveAnyLine(requireParam, requireAuth, given, Execute) ==
    /\ stage = "ready" /\ control = "up"
    /\ IF requireParam /\ ~given THEN JustAnswer(553) ELSE Execute
    /\ UNCHANGED <<serving, control, tree>>

\* Serve reads a line; receiveLine, with what the command's RequireParam and
\* RequireAuth return, and whether there is a parameter.
ReceiveLine(requireParam, requireAuth, given, Execute) ==
    /\ stage = "ready" /\ control = "up"
    /\ IF requireParam /\ ~given THEN JustAnswer(553)
       ELSE IF requireAuth /\ user = NoUser THEN JustAnswer(530)
       ELSE Execute
    /\ UNCHANGED <<serving, control, tree>>

Max0(n) == IF n > 0 THEN n ELSE 0

\* buildPath: ".." does not lead out of the root.
BuildPath(p) ==
    IF p.abs THEN p.names
    ELSE SubSeq(namePrefix, 1, Max0(Len(namePrefix) - p.up)) \o p.names

\* conn.Close.
CloseConn ==
    /\ stage' = "closed"
    /\ dataConn' = NoSocket
    /\ sock' = IF dataConn = NoSocket THEN sock ELSE CloseSocket(sock, dataConn)

-----------------------------------------------------------------------------
\* Login.

\* Not in the table of commands.
Unknown == ReceiveLine(FALSE, FALSE, TRUE, JustAnswer(500))

\* USER does not end the login before.
User_(u) ==
    ReceiveLine(TRUE, FALSE, u # NoUser,
        /\ Answer(331)
        /\ reqUser' = u
        /\ UNCHANGED <<user, place, data, work>>)

\* PASS: whoever USER has named last is logged in; nobody, if there is no such
\* name any more, with the same reply.
Pass ==
    ReceiveLine(FALSE, FALSE, TRUE,
        IF CheckPasswd(reqUser)
        THEN /\ Answer(230)
             /\ user' = reqUser
             /\ reqUser' = NoUser
             /\ UNCHANGED <<place, data, work>>
        ELSE JustAnswer(530))

Quit ==
    ReceiveLine(FALSE, FALSE, TRUE,
        /\ Answer(221)
        /\ CloseConn
        /\ UNCHANGED <<login, place, path, size, left>>)

-----------------------------------------------------------------------------
\* Commands that only reply.

Allo == ReceiveLine(FALSE, FALSE, TRUE, JustAnswer(202))
Feat == ReceiveLine(FALSE, FALSE, TRUE, JustAnswer(211))
Noop == ReceiveLine(FALSE, FALSE, TRUE, JustAnswer(200))
Pwd == ReceiveLine(FALSE, TRUE, TRUE, JustAnswer(257))
Syst(p) == ReceiveLine(TRUE, TRUE, p.given, JustAnswer(215))

\* Commands of which one parameter is accepted: "good".
Opts(good) == ReceiveLine(FALSE, FALSE, TRUE, JustAnswer(IF good THEN 200 ELSE 550))
Mode(p, good) == ReceiveLine(TRUE, TRUE, p.given, JustAnswer(IF good THEN 200 ELSE 504))
Stru(p, good) == ReceiveLine(TRUE, TRUE, p.given, JustAnswer(IF good THEN 200 ELSE 504))
Type(good) == ReceiveLine(FALSE, TRUE, TRUE, JustAnswer(IF good THEN 200 ELSE 500))

\* Commands about protection, of a server without TLS.
Auth(p) == ReceiveLine(TRUE, FALSE, p.given, JustAnswer(550))
Adat(p) == ReceiveLine(TRUE, TRUE, p.given, JustAnswer(550))
Ccc(p) == ReceiveLine(TRUE, TRUE, p.given, JustAnswer(550))
Conf(p) == ReceiveLine(TRUE, TRUE, p.given, JustAnswer(550))
Enc(p) == ReceiveLine(TRUE, TRUE, p.given, JustAnswer(550))
Mic(p) == ReceiveLine(TRUE, TRUE, p.given, JustAnswer(550))
Pbsz(p) == ReceiveLine(TRUE, TRUE, p.given, JustAnswer(550))
Prot(p) == ReceiveLine(TRUE, TRUE, p.given, JustAnswer(550))

JustAnswers ==
    \/ Unknown \/ Allo \/ Feat \/ Noop \/ Pwd
    \/ \E good \in BOOLEAN : Opts(good) \/ Type(good)
    \/ \E p \in Param : Syst(p) \/ Auth(p) \/ Adat(p) \/ Ccc(p) \/ Conf(p)
                           \/ Enc(p) \/ Mic(p) \/ Pbsz(p) \/ Prot(p)
    \/ \E p \in Param, good \in BOOLEAN : Mode(p, good) \/ Stru(p, good)

-----------------------------------------------------------------------------
\* Commands about the tree.

\* CWD; the path is remembered, not the TreeNode.
Cwd(p) ==
    ReceiveLine(TRUE, TRUE, p.given,
        IF ChangeDir(BuildPath(p))
        THEN /\ Answer(250)
             /\ namePrefix' = BuildPath(p)
             /\ UNCHANGED <<lastFilePos, login, data, work>>
        ELSE JustAnswer(550))

Parent == [given |-> TRUE, abs |-> FALSE, up |-> 1, names |-> <<>>]

\* CDUP is Execute of CWD with "..".
Cdup ==
    ReceiveLine(FALSE, TRUE, TRUE,
        IF ChangeDir(BuildPath(Parent))
        THEN /\ Answer(250)
             /\ namePrefix' = BuildPath(Parent)
             /\ UNCHANGED <<lastFilePos, login, data, work>>
        ELSE JustAnswer(550))

Mdtm(p) ==
    ReceiveLine(TRUE, TRUE, p.given,
        JustAnswer(IF StatFinds(BuildPath(p)) THEN 213 ELSE 450))

Size(p) ==
    ReceiveLine(TRUE, TRUE, p.given,
        JustAnswer(IF StatFinds(BuildPath(p)) THEN 213 ELSE 450))

\* No login is asked for by these; the driver refuses them.
Dele(p) == ReceiveLine(FALSE, FALSE, TRUE, JustAnswer(IF Modify(BuildPath(p)) THEN 250 ELSE 550))
Mkd(p) == ReceiveLine(FALSE, FALSE, TRUE, JustAnswer(IF Modify(BuildPath(p)) THEN 257 ELSE 550))
Rmd(p) == ReceiveLine(FALSE, FALSE, TRUE, JustAnswer(IF Modify(BuildPath(p)) THEN 250 ELSE 550))

Rnto(p) == ReceiveLine(FALSE, FALSE, TRUE, JustAnswer(IF Modify(BuildPath(p)) THEN 250 ELSE 550))
Rnfr == ReceiveLine(FALSE, FALSE, TRUE, JustAnswer(350))
Appe == ReceiveLine(FALSE, TRUE, TRUE, JustAnswer(202))

\* STOR: 150, PutFile, and a final reply; the data connection is not touched.
Stor(p) == ReceiveLine(TRUE, TRUE, p.given, JustAnswer(IF PutFile(BuildPath(p)) THEN 226 ELSE 450))

\* REST with an integer, a negative one too.
Rest(n, given) ==
    ReceiveLine(TRUE, TRUE, given,
        /\ Answer(350)
        /\ lastFilePos' = n
        /\ UNCHANGED <<namePrefix, login, data, work>>)

\* REST with something else: the error is ParseInt's, and so is the number, 0 or,
\* out of range, the nearest that there is.
RestFails(n) ==
    ReceiveLine(TRUE, TRUE, TRUE,
        /\ Answer(551)
        /\ lastFilePos' = n
        /\ UNCHANGED <<namePrefix, login, data, work>>)

TreeCommands ==
    \/ \E p \in Param : Cwd(p) \/ Mdtm(p) \/ Size(p) \/ Dele(p) \/ Mkd(p)
                           \/ Rmd(p) \/ Rnto(p) \/ Stor(p)
    \/ Cdup \/ Rnfr \/ Appe
    \/ \E n \in Offset : RestFails(n) \/ \E given \in BOOLEAN : Rest(n, given)

-----------------------------------------------------------------------------
\* Commands that open a data socket.  The one before is forgotten, not closed.

\* What the address of PORT or EPRT may be.
Address == {"missing", "reachable", "unreachable", "malformed"}

UseSocket(code, s) ==
    /\ Unused # {}
    /\ Answer(code)
    /\ dataConn' = Fresh
    /\ sock' = s
    /\ UNCHANGED <<login, place, work>>

\* PORT: the six numbers are indexed unchecked.
Port(address) ==
    ReceiveLine(TRUE, TRUE, address # "missing",
        \/ address = "malformed" /\ Panic
        \/ address = "unreachable" /\ JustAnswer(425)
        \/ address = "reachable" /\ UseSocket(200, NewActiveSocket))

\* EPRT: so are the four parts; an address family other than 1 and 2 is refused.
Eprt(address, family) ==
    ReceiveLine(TRUE, TRUE, address # "missing",
        \/ address = "malformed" /\ Panic
        \/ address # "malformed" /\ family \notin {1, 2} /\ JustAnswer(522)
        \/ address = "unreachable" /\ family \in {1, 2} /\ JustAnswer(425)
        \/ address = "reachable" /\ family \in {1, 2} /\ UseSocket(200, NewActiveSocket))

\* PASV: 425 if there is no listener.  The reply takes an IPv4 address apart.
Pasv(listens) ==
    ReceiveLine(FALSE, TRUE, TRUE,
        IF ~listens THEN JustAnswer(425)
        ELSE IF FromIPv6 THEN Panic
        ELSE UseSocket(227, NewPassiveSocket))

Epsv(listens) ==
    ReceiveLine(FALSE, TRUE, TRUE,
        IF listens THEN UseSocket(229, NewPassiveSocket) ELSE JustAnswer(425))

SocketCommands ==
    \/ \E listens \in BOOLEAN : Pasv(listens) \/ Epsv(listens)
    \/ \E address \in Address : Port(address) \/ \E f \in 1..3 : Eprt(address, f)

-----------------------------------------------------------------------------
\* Transfers.

\* Variant of StartListing that says nothing of a path that is not there.
StartListingQuiet(p) ==
    IF Seek(p) = "dir"
    THEN /\ reply' = "none" /\ stage' = "listing" /\ path' = p
         /\ UNCHANGED <<login, place, data, size, left>>
    ELSE reply' = "none" /\ UNCHANGED <<login, place, data, work>>

\* LIST and NLST up to Stat: 150, and no final reply at all for something that is
\* there and is not a directory.
StartListing(p) ==
    \/ ~StatFinds(p) /\ JustAnswer(550)
    \/ /\ StatFinds(p) /\ Seek(p) # "dir"
       /\ reply' = "none"
       /\ UNCHANGED <<login, place, data, work>>
    \/ /\ Seek(p) = "dir"
       /\ reply' = "none" /\ stage' = "listing" /\ path' = p
       /\ UNCHANGED <<login, place, data, size, left>>

\* Options are skipped; without a path it is the current directory.
List(p) == ReceiveLine(FALSE, TRUE, TRUE, StartListing(BuildPath(p)))
Nlst(p) == ReceiveLine(FALSE, TRUE, TRUE, StartListing(BuildPath(p)))

\* ListDir looks the path up again; sendOutofbandData has nothing to send to
\* without a data connection, and says that it has sent it.
FinishListing ==
    /\ stage = "listing"
    /\ IF ListDir(path) /\ dataConn # NoSocket
       THEN stage' = "sending" /\ UNCHANGED reply
       ELSE stage' = "ready" /\ Answer(IF ListDir(path) THEN 226 ELSE 550)
    /\ UNCHANGED <<serving, control, login, place, data, path, size, left, tree>>

\* Variant of EndTransfer that goes on using the socket.
EndTransferKeeping(s) == sock' = CloseSocket(s, dataConn) /\ UNCHANGED dataConn

\* The end of a transfer, with the sockets in state s: the data connection is
\* closed and forgotten.
EndTransfer(s) ==
    /\ sock' = CloseSocket(s, dataConn)
    /\ dataConn' = NoSocket

\* sendOutofbandData: the result of Write is not looked at.
SendListing ==
    /\ stage = "sending" /\ Available(dataConn)
    /\ \/ WriteSucceeds(dataConn) /\ EndTransfer(Carry(dataConn))
       \/ WriteFails(dataConn) /\ EndTransfer(sock)
    /\ stage' = "ready" /\ Answer(226)
    /\ UNCHANGED <<serving, control, login, place, path, size, left, tree>>

\* RETR: GetFile, OpenRead included; 150; the offset is used up in any case.
Retr(p) ==
    ReceiveLine(TRUE, TRUE, p.given,
        /\ lastFilePos' = 0
        /\ \/ /\ Answer(551)
              /\ UNCHANGED work
           \/ /\ GetFile(BuildPath(p), lastFilePos)
              /\ reply' = "none" /\ stage' = "reading"
              /\ size' \in 0..MaxBlocks /\ left' = size'
              /\ UNCHANGED path
        /\ UNCHANGED <<namePrefix, login, data>>)

\* Variant of ReadPiece that takes the end of the file for another piece.
ReadPiecePastEnd ==
    /\ stage = "reading" /\ dataConn # NoSocket
    /\ stage' = "writing"
    /\ UNCHANGED <<reply, login, place, data, path, size, left, serving, control, tree>>

\* io.Copy reads a piece.  Without a data connection the Write, or the Close at
\* the end of the file, after the reply, is a call on a nil interface.
ReadPiece ==
    /\ stage = "reading"
    /\ \/ dataConn = NoSocket /\ left > 0 /\ Panic
       \/ /\ dataConn = NoSocket /\ left = 0
          /\ stage' = "crashed" /\ Answer(226)
          /\ UNCHANGED <<login, place, data, path, size, left>>
       \/ /\ dataConn # NoSocket /\ left > 0
          /\ stage' = "writing"
          /\ UNCHANGED <<reply, login, place, data, path, size, left>>
       \/ /\ dataConn # NoSocket /\ left = 0
          /\ stage' = "ready" /\ size' = 0 /\ Answer(226)
          /\ EndTransfer(sock)
          /\ UNCHANGED <<login, place, path, left>>
    /\ UNCHANGED <<serving, control, tree>>

\* io.Copy returns an error: RETR drops it and replies nothing more.
CutShort ==
    /\ EndTransfer(sock)
    /\ stage' = "ready" /\ size' = 0 /\ left' = 0
    /\ UNCHANGED <<reply, login, place, path>>

\* The source of the contents fails.
ReadFails ==
    /\ stage = "reading"
    /\ IF dataConn = NoSocket THEN Panic ELSE CutShort
    /\ UNCHANGED <<serving, control, tree>>

\* Variant of WritePiece that goes on after an error.
WritePieceAnyway ==
    /\ stage = "writing" /\ Available(dataConn)
    /\ sock' = IF WriteSucceeds(dataConn) THEN Carry(dataConn) ELSE sock
    /\ left' = left - 1 /\ stage' = "reading"
    /\ UNCHANGED <<dataConn, reply, login, place, path, size, serving, control, tree>>

\* io.Copy writes it.
WritePiece ==
    /\ stage = "writing" /\ Available(dataConn)
    /\ \/ /\ WriteSucceeds(dataConn)
          /\ sock' = Carry(dataConn)
          /\ left' = left - 1 /\ stage' = "reading"
          /\ UNCHANGED <<dataConn, reply, login, place, path, size>>
       \/ WriteFails(dataConn) /\ CutShort
    /\ UNCHANGED <<serving, control, tree>>

TransferCommands == \E p \in Param : List(p) \/ Nlst(p) \/ Retr(p)

TransferStep == FinishListing \/ SendListing \/ ReadPiece \/ WritePiece

-----------------------------------------------------------------------------
\* The end of a session.

\* The client closes the control connection, in the middle of a command perhaps.
HangUp ==
    /\ control = "up" /\ stage \notin {"closed", "crashed"}
    /\ control' = "down"
    /\ UNCHANGED <<serving, reply, login, place, data, work, tree>>

\* Variant of EndOfSession that tries the next line after an error.
EndOfSessionRetrying ==
    stage = "ready" /\ control = "down" /\ UNCHANGED vars

\* Serve finds that out when it reads the next line.
EndOfSession ==
    /\ stage = "ready" /\ control = "down"
    /\ CloseConn
    /\ UNCHANGED <<serving, control, reply, login, place, path, size, left, tree>>

Command ==
    \/ \E u \in User \cup {NoUser} : User_(u)
    \/ Pass \/ Quit
    \/ JustAnswers \/ TreeCommands \/ SocketCommands \/ TransferCommands

\* The client's ends of its data connections.
ClientData ==
    /\ stage # "crashed"
    /\ \E k \in Socket : ClientStep(k)
    /\ UNCHANGED <<serving, control, reply, login, place, dataConn, work, tree>>

\* The goroutines that accept data connections, without and with failure.
AcceptGoes(k) ==
    /\ stage # "crashed"
    /\ Accept(k) \/ StoreConn(k)
    /\ UNCHANGED <<serving, control, reply, login, place, dataConn, work, tree>>

AcceptErrs(k) ==
    /\ stage # "crashed"
    /\ AcceptFails(k)
    /\ UNCHANGED <<serving, control, reply, login, place, dataConn, work, tree>>

Update ==
    /\ stage # "crashed"
    /\ \E p \in TreePath, kind \in Kind : ChangeTree(p, kind)
    /\ UNCHANGED <<serving, control, reply, login, place, data, work>>

Next ==
    \/ NewConn \/ AcceptLoopEnds
    \/ Command \/ TransferStep \/ ReadFails
    \/ HangUp \/ EndOfSession
    \/ ClientData \/ Update
    \/ \E k \in Socket : AcceptGoes(k) \/ AcceptErrs(k)

Spec == Init /\ [][Next]_vars

\* Goroutines run; what contents are read from delivers them or fails (OpenRead has
\* no timeout); a client that has connected reads or leaves, so that a Write comes
\* to an end.  That clients connect is not assumed, nor that anything fails.
Fairness ==
    /\ WF_vars(TransferStep) /\ WF_vars(EndOfSession)
    /\ \A k \in Socket : WF_vars(AcceptGoes(k))

FairSpec == Spec /\ Fairness

-----------------------------------------------------------------------------
\* Properties.

\* Session, sockets and tree keep their shape; the current directory, the offset
\* and the data connection are what commands may leave behind (conn.go Conn).
TypeOK ==
    /\ serving \in BOOLEAN /\ control \in {"up", "down"} /\ stage \in Stage
    /\ reply \in {"none", "done", "refused"}
    /\ user \in User \cup {NoUser} /\ reqUser \in User \cup {NoUser}
    /\ namePrefix \in Path /\ lastFilePos \in Offset
    /\ dataConn \in Socket \cup {NoSocket} /\ path \in Path
    /\ size \in 0..MaxBlocks /\ left \in 0..MaxBlocks
    /\ sock \in [Socket -> SocketState]
    /\ tree \in [TreePath -> Kind]

\* Between commands the data connection, if there is one, has not been closed and
\* has carried nothing: no transfer writes to a connection that an earlier one
\* has used up, and none is under way without one that can be waited for.
DataConnFresh ==
    /\ dataConn # NoSocket =>
          /\ sock[dataConn].state \notin {"unused", "closed"}
          /\ stage \notin {"reading", "writing"} => sock[dataConn].carried = 0
    /\ stage \in {"sending", "writing"} => dataConn # NoSocket

\* The command table asks for a login wherever it matters: whoever is not logged
\* in changes neither directory nor offset, opens no data connection, brings the
\* process down by no command, and no transfer is under way for him, although PASS
\* can log out at any time.
OnlyUsersReach ==
    [][user = NoUser /\ stage # "none" /\ stage' # "none" =>
          \/ stage \in {"closed", "crashed"}
          \/ /\ stage = "ready" /\ stage' \in {"ready", "closed"}
             /\ UNCHANGED <<namePrefix, lastFilePos>>
             /\ dataConn' \in {dataConn, NoSocket}
             /\ \A k \in Socket : sock'[k].carried = sock[k].carried]_vars

\* 226 tells the truth about a file: every piece has been written to the data
\* connection, once.  About a listing it does so if the accept goroutine has
\* stored the connection and the client is still there.
TransfersReportTruly ==
    [][/\ stage = "reading" /\ stage' = "ready" /\ reply' = "done" =>
             sock'[dataConn].carried = size
       /\ stage = "sending" /\ stage' = "ready" =>
             \/ sock'[dataConn].carried = 1
             \/ sock[dataConn].state # "open" \/ sock[dataConn].peer = "left"]_vars

\* A command ends without a final reply in two cases only: a listing of something
\* that is not a directory, and a file whose source or connection failed.
SilentOnlyOnFailure ==
    [][stage' = "ready" /\ reply' = "none" /\ (stage # "ready" \/ reply # "none") =>
          \/ stage = "ready" /\ \E p \in TreePath : tree[p] \in {"file", "gone"}
          \/ stage = "reading"
          \/ stage = "writing" /\ ~(sock[dataConn].state = "open" /\ sock[dataConn].peer = "dialled")]_vars

\* A data connection that the session has is closed when it lets go of it, unless
\* another one takes its place; that one, and one accepted too late, stay open.
LetGoClosed ==
    [][\A k \in Socket :
          k = dataConn /\ dataConn' # k /\ sock[k].state = "open" =>
              sock'[k].state = "closed" \/ dataConn' # NoSocket]_vars

\* The client has been told of a port and has not connected to it.
AwaitsClient ==
    /\ dataConn # NoSocket
    /\ sock[dataConn].state = "listening" /\ sock[dataConn].peer = "none"

\* Every command comes to an end: whatever the accept goroutine and the client do
\* while it waits, only a client that does not connect can keep it waiting.
CommandsEnd ==
    stage \in {"listing", "sending", "reading", "writing"} ~>
        (stage \in {"ready", "closed", "crashed"} \/ AwaitsClient)

\* So does the session of a client that has hung up.
HungUpSessionsEnd ==
    control = "down" ~> (stage \in {"none", "closed", "crashed"} \/ AwaitsClient)
=============================================================================
