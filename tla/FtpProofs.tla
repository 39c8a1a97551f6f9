----------------------------- MODULE FtpProofs ------------------------------
(***************************************************************************)
(* Theorems about FtpSession, for any number of data sockets, any tree,    *)
(* any parameters of commands and files of any size.                       *)
(***************************************************************************)
EXTENDS FtpSession, SequenceTheorems, TLAPS

Busy == {"listing", "sending", "reading", "writing"}

Replies == {"none", "done", "refused"}

Final == Replies \ {"none"}

\* What every command but those below comes to: a reply, and no final one for a
\* listing of what is not a directory.
OnlyReply ==
    /\ stage = "ready"
    /\ \/ reply' \in Final
       \/ reply' = "none" /\ \E p \in TreePath : tree[p] \in {"file", "gone"}
    /\ UNCHANGED <<serving, control, login, place, data, work, tree>>

\* The commands, as far as they change more than the reply.
ChangesLogin ==
    /\ stage = "ready" /\ reply' \in Final
    /\ user' \in {user, reqUser} /\ reqUser' \in User \cup {NoUser}
    /\ UNCHANGED <<serving, control, place, data, work, tree>>

ChangesPlace ==
    /\ stage = "ready" /\ reply' \in Final /\ user # NoUser
    /\ namePrefix' \in Path /\ lastFilePos' \in Offset
    /\ UNCHANGED <<serving, control, login, data, work, tree>>

OpensSocket ==
    /\ stage = "ready" /\ reply' \in Final /\ user # NoUser
    /\ Unused # {} /\ dataConn' = Fresh
    /\ sock' \in {NewActiveSocket, NewPassiveSocket}
    /\ UNCHANGED <<serving, control, login, place, work, tree>>

Panics ==
    /\ stage = "ready" /\ user # NoUser /\ stage' = "crashed"
    /\ UNCHANGED <<serving, control, reply, login, place, data, path, size, left, tree>>

StartsListing ==
    /\ stage = "ready" /\ reply' = "none" /\ user # NoUser
    /\ stage' = "listing" /\ path' \in Path
    /\ UNCHANGED <<serving, control, login, place, data, size, left, tree>>

StartsFile ==
    /\ stage = "ready" /\ reply' = "none" /\ user # NoUser
    /\ stage' = "reading" /\ size' \in 0..MaxBlocks /\ left' = size'
    /\ lastFilePos' = 0
    /\ UNCHANGED <<serving, control, login, namePrefix, data, path, tree>>

Closes ==
    /\ stage = "ready" /\ reply' \in Replies
    /\ CloseConn
    /\ UNCHANGED <<serving, control, login, place, path, size, left, tree>>

Effect ==
    \/ OnlyReply \/ ChangesLogin \/ ChangesPlace \/ OpensSocket \/ Panics
    \/ StartsListing \/ StartsFile \/ Closes

-----------------------------------------------------------------------------

\* buildPath makes a path of every parameter: ".." stops at the root.
LEMMA PathBuilt ==
    ASSUME TypeOK, NEW p \in PathParam PROVE BuildPath(p) \in Path
<1> DEFINE n == Max0(Len(namePrefix) - p.up)
<1>1. namePrefix \in Seq(Name) /\ p.names \in Seq(Name) /\ p.up \in Nat
  BY DEF TypeOK, Path, PathParam
<1>2. n \in 0..Len(namePrefix)
  BY <1>1 DEF Max0
<1>3. SubSeq(namePrefix, 1, n) \in Seq(Name)
  BY <1>1, <1>2, SubSeqProperties
<1>4. SubSeq(namePrefix, 1, n) \o p.names \in Seq(Name)
  BY <1>1, <1>3, ConcatProperties
<1> QED
  BY <1>1, <1>4 DEF BuildPath, Path

LEMMA JustAnswersReply == JustAnswers => OnlyReply
<1> USE DEF ReceiveLine, JustAnswer, Answer, Class, OnlyReply, Final, Replies
<1>1. Unknown \/ Allo \/ Feat \/ Noop \/ Pwd => OnlyReply
  BY DEF Unknown, Allo, Feat, Noop, Pwd
<1>2. ASSUME NEW good \in BOOLEAN, Opts(good) \/ Type(good) PROVE OnlyReply
  BY <1>2 DEF Opts, Type
<1>3. ASSUME NEW p \in Param,
             \/ Syst(p) \/ Auth(p) \/ Adat(p) \/ Ccc(p) \/ Conf(p)
             \/ Enc(p) \/ Mic(p) \/ Pbsz(p) \/ Prot(p)
      PROVE  OnlyReply
  BY <1>3 DEF Syst, Auth, Adat, Ccc, Conf, Enc, Mic, Pbsz, Prot
<1>4. ASSUME NEW p \in Param, NEW good \in BOOLEAN, Mode(p, good) \/ Stru(p, good)
      PROVE  OnlyReply
  BY <1>4 DEF Mode, Stru
<1> QED
  BY <1>1, <1>2, <1>3, <1>4 DEF JustAnswers

LEMMA TreeCommandsChange ==
    ASSUME TypeOK, TreeCommands PROVE OnlyReply \/ ChangesPlace
<1> USE ParamAssumption
        DEF ReceiveLine, JustAnswer, Answer, Class, OnlyReply, ChangesPlace, Final, Replies,
            login, place
<1>1. ASSUME NEW p \in Param, Cwd(p) PROVE OnlyReply \/ ChangesPlace
  BY <1>1, PathBuilt DEF Cwd, TypeOK
<1>2. CASE Cdup
  <2>1. Parent \in PathParam
    BY DEF Parent, PathParam, Path
  <2> QED
    BY <1>2, <2>1, PathBuilt DEF Cdup, TypeOK
<1>3. ASSUME NEW p \in Param,
             Mdtm(p) \/ Size(p) \/ Dele(p) \/ Mkd(p) \/ Rmd(p) \/ Rnto(p) \/ Stor(p)
      PROVE  OnlyReply
  BY <1>3 DEF Mdtm, Size, Dele, Mkd, Rmd, Rnto, Stor
<1>4. Rnfr \/ Appe => OnlyReply
  BY DEF Rnfr, Appe
<1>5. ASSUME NEW n \in Offset, NEW given \in BOOLEAN, Rest(n, given) \/ RestFails(n)
      PROVE  OnlyReply \/ ChangesPlace
  BY <1>5 DEF Rest, RestFails, TypeOK
<1> QED
  BY <1>1, <1>2, <1>3, <1>4, <1>5 DEF TreeCommands

LEMMA LoginCommandsChange ==
    ASSUME TypeOK, (\E u \in User \cup {NoUser} : User_(u)) \/ Pass \/ Quit
    PROVE  OnlyReply \/ ChangesLogin \/ Closes
<1> USE DEF ReceiveLine, JustAnswer, Answer, Class, OnlyReply, ChangesLogin, Final, Replies, login
<1>1. ASSUME NEW u \in User \cup {NoUser}, User_(u) PROVE OnlyReply \/ ChangesLogin
  BY <1>1 DEF User_, TypeOK
<1>2. Pass => OnlyReply \/ ChangesLogin
  BY DEF Pass, TypeOK
<1>3. Quit => OnlyReply \/ Closes
  BY DEF Quit, Closes
<1> QED
  BY <1>1, <1>2, <1>3

LEMMA SocketCommandsChange == SocketCommands => OnlyReply \/ OpensSocket \/ Panics
<1> USE DEF ReceiveLine, JustAnswer, Answer, Class, OnlyReply, OpensSocket, Panics,
            Panic, UseSocket, Final, Replies
<1>1. ASSUME NEW listens \in BOOLEAN, Pasv(listens) \/ Epsv(listens)
      PROVE  OnlyReply \/ OpensSocket \/ Panics
  BY <1>1, SessionAssumption DEF Pasv, Epsv
<1>2. ASSUME NEW address \in Address, Port(address)
      PROVE  OnlyReply \/ OpensSocket \/ Panics
  BY <1>2 DEF Port
<1>3. ASSUME NEW address \in Address, NEW f \in 1..3, Eprt(address, f)
      PROVE  OnlyReply \/ OpensSocket \/ Panics
  BY <1>3 DEF Eprt
<1> QED
  BY <1>1, <1>2, <1>3 DEF SocketCommands

LEMMA TransferCommandsChange ==
    ASSUME TypeOK, TransferCommands
    PROVE  OnlyReply \/ ChangesPlace \/ StartsListing \/ StartsFile
<1> USE DEF ReceiveLine, JustAnswer, Answer, Class, OnlyReply, Final, Replies
<1>1. ASSUME NEW p \in Path,
             ReceiveLine(FALSE, TRUE, TRUE, StartListing(p))
      PROVE  OnlyReply \/ StartsListing
  <2>1. StatFinds(p) /\ Seek(p) # "dir" => p \in TreePath /\ tree[p] \in {"file", "gone"}
    BY DEF StatFinds, Seek, TypeOK, Kind
  <2> QED
    BY <1>1, <2>1 DEF StartListing, StartsListing
<1>2. ASSUME NEW p \in Param, List(p) \/ Nlst(p) PROVE OnlyReply \/ StartsListing
  <2>1. BuildPath(p) \in Path
    BY PathBuilt, ParamAssumption
  <2> QED
    BY <1>1, <1>2, <2>1 DEF List, Nlst
<1>3. ASSUME NEW p \in Param, Retr(p)
      PROVE  OnlyReply \/ ChangesPlace \/ StartsFile
  BY <1>3, SessionAssumption
  DEF Retr, ChangesPlace, StartsFile, TypeOK, place
<1> QED
  BY <1>2, <1>3 DEF TransferCommands

\* Every command of the table has one of these effects.
LEMMA CommandsChange == ASSUME TypeOK, Command PROVE Effect
BY JustAnswersReply, TreeCommandsChange, LoginCommandsChange, SocketCommandsChange,
   TransferCommandsChange DEF Command, Effect

-----------------------------------------------------------------------------
\* The invariant: besides the types, and what DataConnFresh says, there is
\* something left to write in "writing"; what has been written and what is left
\* of a file add up; transfers are those of a user, who has had no final reply;
\* and a session that is over holds no data connection.

PiecesAddUp ==
    stage \in {"reading", "writing"} /\ dataConn # NoSocket =>
        sock[dataConn].carried + left = size

FtpInv ==
    /\ TypeOK
    /\ DataConnFresh
    /\ stage = "writing" => left > 0
    /\ PiecesAddUp
    /\ stage \in Busy => user # NoUser /\ reply = "none"
    /\ stage \in {"none", "closed"} => dataConn = NoSocket
    /\ \A k \in Unused : sock[k].carried = 0

Sockets == [Socket -> SocketState]

LEMMA InitInv == Init => FtpInv
<1> SUFFICES ASSUME Init PROVE FtpInv
  OBVIOUS
<1>1. sock \in Sockets /\ \A k \in Socket : sock[k].carried = 0
  BY DEF Init, SocketsInit, Sockets, SocketState
<1>2. <<>> \in Path
  BY DEF Path
<1>3. TypeOK
  BY <1>1, <1>2, SessionAssumption DEF Init, TreeInit, TypeOK, Root, Stage, Sockets
<1> QED
  BY <1>1, <1>3 DEF Init, FtpInv, DataConnFresh, PiecesAddUp, Busy, Unused

\* Closing a socket changes its state only.
LEMMA CloseTyped ==
    ASSUME NEW s \in Sockets, NEW k \in Socket
    PROVE  /\ CloseSocket(s, k) \in Sockets
           /\ \A j \in Socket : CloseSocket(s, k)[j].carried = s[j].carried
           /\ \A j \in Socket : CloseSocket(s, k)[j].state = "unused" <=> s[j].state = "unused"
           /\ s[k].state = "open" => CloseSocket(s, k)[k].state = "closed"
BY DEF CloseSocket, Sockets, SocketState

\* Writing adds a piece to one socket.
LEMMA CarryTyped ==
    ASSUME sock \in Sockets, NEW k \in Socket
    PROVE  /\ Carry(k) \in Sockets
           /\ Carry(k)[k].carried = sock[k].carried + 1
           /\ \A j \in Socket \ {k} : Carry(k)[j] = sock[j]
           /\ \A j \in Socket : Carry(k)[j].state = sock[j].state
BY DEF Carry, Sockets, SocketState

\* A new socket is a fresh one; it has carried nothing and is not closed.
LEMMA NewSocketTyped ==
    ASSUME sock \in Sockets, Unused # {},
           NEW s \in {NewActiveSocket, NewPassiveSocket}
    PROVE  /\ Fresh \in Socket /\ sock[Fresh].state = "unused"
           /\ s \in Sockets
           /\ s[Fresh].state \in {"open", "listening"}
           /\ \A j \in Socket : s[j].carried = sock[j].carried
           /\ \A j \in Socket \ {Fresh} : s[j] = sock[j]
<1>1. Fresh \in Unused
  BY DEF Fresh
<1>2. Fresh \in Socket /\ sock[Fresh].state = "unused"
  BY <1>1 DEF Unused
<1> QED
  BY <1>2 DEF NewActiveSocket, NewPassiveSocket, Sockets, SocketState

\* Neither the client nor an accept goroutine touches what a connection carries,
\* and none of them makes a socket closed or unused.
LEMMA ElsewhereTyped ==
    ASSUME sock \in Sockets, NEW k \in Socket, ClientStep(k) \/ AcceptStep(k)
    PROVE  /\ sock' \in Sockets
           /\ \A j \in Socket :
                /\ sock'[j].carried = sock[j].carried
                /\ sock'[j].state \in {"unused", "closed"} => sock'[j].state = sock[j].state
                /\ sock'[j].state = "unused" <=> sock[j].state = "unused"
BY DEF ClientStep, AcceptStep, Dial, Leave, Accept, AcceptFails, StoreConn,
       Sockets, SocketState

-----------------------------------------------------------------------------
\* Every step preserves the invariant.

\* Commands preserve the invariant, by their effects.
LEMMA EffectInv == ASSUME FtpInv, Effect PROVE FtpInv'
<1>1. TypeOK /\ sock \in Sockets
  BY DEF FtpInv, TypeOK, Sockets
<1>2. CASE OnlyReply
  BY <1>2 DEF OnlyReply, FtpInv, TypeOK, DataConnFresh, PiecesAddUp, Busy, Unused, Replies, Final,
              login, place, data, work
<1>3. CASE ChangesLogin
  BY <1>3 DEF ChangesLogin, FtpInv, TypeOK, DataConnFresh, PiecesAddUp, Busy, Unused, Replies, Final,
              place, data, work
<1>4. CASE ChangesPlace
  BY <1>4 DEF ChangesPlace, FtpInv, TypeOK, DataConnFresh, PiecesAddUp, Busy, Unused, Replies, Final,
              login, data, work
<1>5. CASE OpensSocket
  <2>1. /\ Fresh \in Socket /\ sock[Fresh].state = "unused"
        /\ sock' \in Sockets
        /\ sock'[Fresh].state \in {"open", "listening"}
        /\ \A j \in Socket : sock'[j].carried = sock[j].carried
        /\ \A j \in Socket \ {Fresh} : sock'[j] = sock[j]
    BY <1>1, <1>5, NewSocketTyped DEF OpensSocket
  <2>2. sock[Fresh].carried = 0
    BY <2>1 DEF FtpInv, Unused
  <2>3. \A k \in Unused' : k \in Unused
    BY <2>1 DEF Unused
  <2>4. TypeOK'
    BY <1>1, <1>5, <2>1 DEF OpensSocket, TypeOK, Sockets, Replies, Final, login, place, work
  <2> QED
    BY <1>5, <2>1, <2>2, <2>3, <2>4
    DEF OpensSocket, FtpInv, DataConnFresh, PiecesAddUp, Busy, Unused, login, place, work
<1>6. CASE Panics
  BY <1>6 DEF Panics, FtpInv, TypeOK, DataConnFresh, PiecesAddUp, Busy, Unused, Stage,
              login, place, data
<1>7. CASE StartsListing
  BY <1>7 DEF StartsListing, FtpInv, TypeOK, DataConnFresh, PiecesAddUp, Busy, Unused, Stage,
              login, place, data
<1>8. CASE StartsFile
  <2>1. TypeOK'
    BY <1>1, <1>8, SessionAssumption DEF StartsFile, TypeOK, Stage, login, data
  <2>2. PiecesAddUp'
    BY <1>1, <1>8, SessionAssumption
    DEF StartsFile, FtpInv, TypeOK, DataConnFresh, PiecesAddUp, SocketState, data
  <2> QED
    BY <1>8, <2>1, <2>2 DEF StartsFile, FtpInv, DataConnFresh, Busy, Unused, login, data
<1>9. CASE Closes
  <2>1. /\ sock' \in Sockets
        /\ \A j \in Socket : sock'[j].carried = sock[j].carried
        /\ \A j \in Socket : sock'[j].state = "unused" <=> sock[j].state = "unused"
    BY <1>1, <1>9, CloseTyped DEF Closes, CloseConn, TypeOK
  <2>2. TypeOK'
    BY <1>1, <1>9, <2>1 DEF Closes, CloseConn, TypeOK, Stage, Sockets, Replies, login, place
  <2> QED
    BY <1>9, <2>1, <2>2
    DEF Closes, CloseConn, FtpInv, DataConnFresh, PiecesAddUp, Busy, Unused
<1> QED
  BY <1>2, <1>3, <1>4, <1>5, <1>6, <1>7, <1>8, <1>9 DEF Effect

\* What the end of a transfer does to the sockets, in state s.
LEMMA EndTransferTyped ==
    ASSUME FtpInv, dataConn # NoSocket, NEW s \in Sockets, EndTransfer(s),
           \A j \in Socket : s[j].state = sock[j].state,
           \A j \in Unused : s[j].carried = 0
    PROVE  /\ dataConn' = NoSocket /\ sock' \in Sockets
           /\ \A j \in Unused' : sock'[j].carried = 0
<1>1. dataConn \in Socket
  BY DEF FtpInv, TypeOK
<1> QED
  BY <1>1, CloseTyped DEF EndTransfer, Unused

LEMMA NewConnInv == ASSUME FtpInv, NewConn PROVE FtpInv'
<1>1. <<>> \in Path
  BY DEF Path
<1>2. TypeOK'
  BY <1>1, SessionAssumption DEF NewConn, FtpInv, TypeOK, Class, Stage, Root
<1> QED
  BY <1>2 DEF NewConn, FtpInv, DataConnFresh, PiecesAddUp, Busy, Unused

\* The steps of a listing.
LEMMA ListingInv == ASSUME FtpInv, FinishListing \/ SendListing PROVE FtpInv'
<1>1. TypeOK /\ sock \in Sockets
  BY DEF FtpInv, TypeOK, Sockets
<1>2. CASE FinishListing
  BY <1>2 DEF FinishListing, Answer, Class, FtpInv, TypeOK, DataConnFresh, PiecesAddUp,
              Busy, Unused, Stage, login, place, data
<1>3. CASE SendListing
  <2>1. dataConn \in Socket /\ dataConn # NoSocket
    BY <1>3 DEF SendListing, FtpInv, DataConnFresh, TypeOK
  <2>2. /\ dataConn' = NoSocket /\ sock' \in Sockets
        /\ \A j \in Unused' : sock'[j].carried = 0
    <3>1. CASE WriteSucceeds(dataConn) /\ EndTransfer(Carry(dataConn))
      <4>1. sock[dataConn].state = "open"
        BY <3>1 DEF WriteSucceeds
      <4>2. Carry(dataConn) \in Sockets
        BY <1>1, <2>1, CarryTyped
      <4>3. \A j \in Socket : Carry(dataConn)[j].state = sock[j].state
        BY <1>1, <2>1, CarryTyped
      <4>4. \A j \in Unused : Carry(dataConn)[j].carried = 0
        BY <1>1, <2>1, <4>1, CarryTyped DEF Unused, FtpInv
      <4> QED
        BY <2>1, <3>1, <4>2, <4>3, <4>4, EndTransferTyped
    <3>2. CASE EndTransfer(sock)
      BY <1>1, <2>1, <3>2, EndTransferTyped DEF FtpInv
    <3> QED
      BY <1>3, <3>1, <3>2 DEF SendListing
  <2>3. TypeOK'
    BY <1>1, <1>3, <2>2
    DEF SendListing, Answer, Class, TypeOK, Sockets, Stage, login, place
  <2> QED
    BY <1>3, <2>2, <2>3
    DEF SendListing, FtpInv, DataConnFresh, PiecesAddUp, Busy, Unused, login
<1> QED
  BY <1>2, <1>3

\* A copy that is cut short.
LEMMA CutShortInv ==
    ASSUME FtpInv, dataConn # NoSocket, CutShort, UNCHANGED <<serving, control, tree>>
    PROVE  FtpInv'
<1>1. TypeOK /\ sock \in Sockets
  BY DEF FtpInv, TypeOK, Sockets
<1>2. /\ dataConn' = NoSocket /\ sock' \in Sockets
      /\ \A j \in Unused' : sock'[j].carried = 0
  BY <1>1, EndTransferTyped DEF CutShort, FtpInv
<1>3. TypeOK'
  BY <1>1, <1>2, SessionAssumption DEF CutShort, TypeOK, Sockets, Stage, login, place
<1> QED
  BY <1>2, <1>3 DEF CutShort, FtpInv, DataConnFresh, PiecesAddUp, Busy, Unused

\* The steps of a file.
LEMMA FileInv == ASSUME FtpInv, ReadPiece \/ WritePiece \/ ReadFails PROVE FtpInv'
<1>1. TypeOK /\ sock \in Sockets
  BY DEF FtpInv, TypeOK, Sockets
<1>2. ASSUME stage = "reading", dataConn = NoSocket, Panic,
             UNCHANGED <<serving, control, tree>>
      PROVE  FtpInv'
  BY <1>1, <1>2 DEF Panic, FtpInv, TypeOK, DataConnFresh, PiecesAddUp, Busy, Unused, Stage,
                    login, place, data
<1>3. CASE ReadPiece
  <2>1. CASE dataConn = NoSocket
    BY <1>1, <1>3, <2>1
    DEF ReadPiece, Panic, Answer, Class, FtpInv, TypeOK, DataConnFresh, PiecesAddUp, Busy,
        Unused, Stage, login, place, data
  <2>2. CASE dataConn # NoSocket /\ stage' = "writing"
    <3>1. TypeOK'
      BY <1>1, <1>3, <2>2 DEF ReadPiece, TypeOK, Stage, login, place, data
    <3>2. left' > 0
      BY <1>3, <2>2 DEF ReadPiece
    <3> QED
      BY <1>3, <2>2, <3>1, <3>2
      DEF ReadPiece, FtpInv, DataConnFresh, PiecesAddUp, Busy, Unused, login, data
  <2>3. CASE dataConn # NoSocket /\ stage' = "ready"
    <3>1. EndTransfer(sock) /\ size' = 0 /\ Answer(226)
      BY <1>3, <2>3 DEF ReadPiece, Panic
    <3>2. /\ dataConn' = NoSocket /\ sock' \in Sockets
          /\ \A j \in Unused' : sock'[j].carried = 0
      BY <1>1, <2>3, <3>1, EndTransferTyped DEF FtpInv
    <3>3. UNCHANGED <<login, place, path, left, serving, control, tree>>
      BY <1>3, <2>3 DEF ReadPiece, Panic
    <3>4. TypeOK'
      BY <1>1, <2>3, <3>1, <3>2, <3>3, SessionAssumption
      DEF Answer, Class, TypeOK, Sockets, Stage, login, place
    <3> QED
      BY <2>3, <3>2, <3>4
      DEF FtpInv, DataConnFresh, PiecesAddUp, Busy, Unused
  <2> QED
    BY <1>3, <2>1, <2>2, <2>3 DEF ReadPiece
<1>4. CASE WritePiece
  <2>1. dataConn \in Socket /\ dataConn # NoSocket /\ left > 0
    BY <1>4 DEF WritePiece, FtpInv, DataConnFresh, TypeOK
  <2>2. CASE CutShort
    BY <1>4, <2>1, <2>2, CutShortInv DEF WritePiece
  <2>3. CASE WriteSucceeds(dataConn) /\ sock' = Carry(dataConn)
             /\ left' = left - 1 /\ stage' = "reading"
             /\ UNCHANGED <<dataConn, reply, login, place, path, size>>
    <3>1. /\ sock' \in Sockets
          /\ sock'[dataConn].carried = sock[dataConn].carried + 1
          /\ \A j \in Socket \ {dataConn} : sock'[j] = sock[j]
          /\ \A j \in Socket : sock'[j].state = sock[j].state
      BY <1>1, <2>1, <2>3, CarryTyped
    <3>2. TypeOK'
      BY <1>1, <1>4, <2>1, <2>3, <3>1, SessionAssumption
      DEF WritePiece, TypeOK, Sockets, Stage, login, place
    <3>3. PiecesAddUp'
      BY <1>1, <1>4, <2>1, <2>3, <3>1, SessionAssumption
      DEF WritePiece, FtpInv, TypeOK, PiecesAddUp, SocketState
    <3> QED
      BY <1>4, <2>1, <2>3, <3>1, <3>2, <3>3
      DEF WritePiece, WriteSucceeds, FtpInv, DataConnFresh, Busy, Unused, login
  <2> QED
    BY <1>4, <2>2, <2>3 DEF WritePiece
<1>5. CASE ReadFails
  BY <1>2, <1>5, CutShortInv DEF ReadFails
<1> QED
  BY <1>3, <1>4, <1>5

\* What happens outside the session's goroutine, and its end.
LEMMA OutsideInv ==
    ASSUME FtpInv, AcceptLoopEnds \/ HangUp \/ EndOfSession \/ ClientData \/ Update
                   \/ \E k \in Socket : AcceptGoes(k) \/ AcceptErrs(k)
    PROVE  FtpInv'
<1>1. TypeOK /\ sock \in Sockets
  BY DEF FtpInv, TypeOK, Sockets
<1>2. CASE AcceptLoopEnds \/ HangUp
  BY <1>2 DEF AcceptLoopEnds, HangUp, FtpInv, TypeOK, DataConnFresh, PiecesAddUp, Busy, Unused,
              login, place, data, work
<1>3. CASE EndOfSession
  <2>1. Closes \/ reply' \notin Replies
    BY <1>3 DEF EndOfSession, Closes
  <2>2. reply' \in Replies
    BY <1>3 DEF EndOfSession, FtpInv, TypeOK, Replies
  <2> QED
    BY <2>1, <2>2, EffectInv DEF Effect
<1>4. CASE Update
  <2>1. tree' \in [TreePath -> Kind]
    BY <1>1, <1>4 DEF Update, ChangeTree, TypeOK, Kind
  <2> QED
    BY <1>4, <2>1 DEF Update, FtpInv, TypeOK, DataConnFresh, PiecesAddUp, Busy, Unused,
                      login, place, data, work
<1>5. ASSUME NEW k \in Socket, ClientStep(k) \/ AcceptStep(k),
             UNCHANGED <<serving, control, reply, login, place, dataConn, work, tree>>
      PROVE  FtpInv'
  <2>1. /\ sock' \in Sockets
        /\ \A j \in Socket :
             /\ sock'[j].carried = sock[j].carried
             /\ sock'[j].state \in {"unused", "closed"} => sock'[j].state = sock[j].state
             /\ sock'[j].state = "unused" <=> sock[j].state = "unused"
    BY <1>1, <1>5, ElsewhereTyped
  <2>2. TypeOK'
    BY <1>1, <1>5, <2>1 DEF TypeOK, Sockets, login, place, work
  <2> QED
    BY <1>5, <2>1, <2>2
    DEF FtpInv, DataConnFresh, PiecesAddUp, TypeOK, Busy, Unused, login, work
<1> QED
  BY <1>2, <1>3, <1>4, <1>5 DEF ClientData, AcceptGoes, AcceptErrs, AcceptStep

\* The invariant is inductive.
LEMMA StepInv == FtpInv /\ [Next]_vars => FtpInv'
<1> SUFFICES ASSUME FtpInv, [Next]_vars PROVE FtpInv'
  OBVIOUS
<1>1. CASE NewConn
  BY <1>1, NewConnInv
<1>2. CASE Command
  <2>1. Effect
    BY <1>2, CommandsChange DEF FtpInv
  <2> QED
    BY <2>1, EffectInv
<1>3. CASE TransferStep \/ ReadFails
  BY <1>3, ListingInv, FileInv DEF TransferStep
<1>4. CASE AcceptLoopEnds \/ HangUp \/ EndOfSession \/ ClientData \/ Update
           \/ \E k \in Socket : AcceptGoes(k) \/ AcceptErrs(k)
  BY <1>4, OutsideInv
<1>5. CASE UNCHANGED vars
  BY <1>5 DEF vars, FtpInv, TypeOK, DataConnFresh, PiecesAddUp, Busy, Unused,
              login, place, data, work
<1> QED
  BY <1>1, <1>2, <1>3, <1>4, <1>5 DEF Next

THEOREM InvariantHolds == Spec => []FtpInv
BY InitInv, StepInv, PTL DEF Spec

\* Session, sockets and tree keep their shape, whatever commands clients send.
THEOREM TypeCorrect == Spec => []TypeOK
<1>1. FtpInv => TypeOK
  BY DEF FtpInv
<1> QED
  BY <1>1, InvariantHolds, PTL

\* No transfer finds a data connection that an earlier one has used up
\* (conn.go sendOutOfBandDataWriter, which forgets the connection it closes).
THEOREM FreshDataConn == Spec => []DataConnFresh
<1>1. FtpInv => DataConnFresh
  BY DEF FtpInv
<1> QED
  BY <1>1, InvariantHolds, PTL

-----------------------------------------------------------------------------
\* What steps may do.

\* Steps elsewhere, which leave the session and what connections have carried alone.
Aside ==
    /\ UNCHANGED <<stage, reply, namePrefix, lastFilePos, dataConn>>
    /\ \A k \in Socket : /\ sock'[k].carried = sock[k].carried
                         /\ sock[k].state = "closed" => sock'[k].state = "closed"

\* The steps by what a property of steps has to look at.
LEMMA StepKinds ==
    ASSUME FtpInv, [Next]_vars
    PROVE  \/ NewConn \/ Effect \/ FinishListing \/ SendListing \/ ReadPiece \/ WritePiece
           \/ ReadFails
           \/ Aside
           \/ EndOfSession
<1>1. TypeOK /\ sock \in Sockets
  BY DEF FtpInv, TypeOK, Sockets
<1>2. CASE Command
  BY <1>1, <1>2, CommandsChange
<1>3. CASE AcceptLoopEnds \/ HangUp \/ Update \/ UNCHANGED vars
  BY <1>3 DEF AcceptLoopEnds, HangUp, Update, vars, Aside, place, data, work
<1>4. ASSUME NEW k \in Socket, ClientStep(k) \/ AcceptStep(k),
             UNCHANGED <<reply, place, dataConn, work>>
      PROVE  Aside
  <2>1. \A j \in Socket : /\ sock'[j].carried = sock[j].carried
                          /\ sock[j].state = "closed" => sock'[j].state = "closed"
    BY <1>1, <1>4 DEF ClientStep, AcceptStep, Dial, Leave, Accept, AcceptFails, StoreConn,
                      Sockets, SocketState
  <2> QED
    BY <1>4, <2>1 DEF Aside, place, work
<1>5. CASE ClientData \/ \E k \in Socket : AcceptGoes(k) \/ AcceptErrs(k)
  BY <1>4, <1>5 DEF ClientData, AcceptGoes, AcceptErrs, AcceptStep, place, work
<1> QED
  BY <1>2, <1>3, <1>5 DEF Next, TransferStep

\* The sockets at the end of a transfer.
LEMMA EndTransferCloses ==
    ASSUME TypeOK, dataConn # NoSocket, NEW s \in Sockets, EndTransfer(s)
    PROVE  /\ \A j \in Socket : sock'[j].carried = s[j].carried
           /\ s[dataConn].state = "open" => sock'[dataConn].state = "closed"
           /\ dataConn' = NoSocket
<1>1. dataConn \in Socket
  BY DEF TypeOK
<1> QED
  BY <1>1, CloseTyped DEF EndTransfer

\* The body of each property, from the kinds of step that can matter.

LEMMA StepReportsTruly ==
    ASSUME FtpInv, [Next]_vars
    PROVE  /\ stage = "reading" /\ stage' = "ready" /\ reply' = "done" =>
                 sock'[dataConn].carried = size
           /\ stage = "sending" /\ stage' = "ready" =>
                 \/ sock'[dataConn].carried = 1
                 \/ sock[dataConn].state # "open" \/ sock[dataConn].peer = "left"
<1>1. TypeOK /\ sock \in Sockets
  BY DEF FtpInv, TypeOK, Sockets
<1>2. ASSUME stage = "reading", stage' = "ready", reply' = "done"
      PROVE  sock'[dataConn].carried = size
  <2>1. ReadPiece
    BY <1>2, StepKinds
    DEF NewConn, Effect, OnlyReply, ChangesLogin, ChangesPlace, OpensSocket, Panics,
        StartsListing, StartsFile, Closes, FinishListing, SendListing, WritePiece,
        ReadFails, CutShort, Panic, Aside, EndOfSession, FtpInv, Busy
  <2>2. dataConn # NoSocket /\ left = 0 /\ EndTransfer(sock)
    BY <1>2, <2>1 DEF ReadPiece, Panic
  <2>3. dataConn \in Socket /\ sock'[dataConn].carried = sock[dataConn].carried
    BY <1>1, <2>2, EndTransferCloses DEF TypeOK
  <2> QED
    BY <1>1, <1>2, <2>2, <2>3, SessionAssumption
    DEF FtpInv, PiecesAddUp, TypeOK, SocketState
<1>3. ASSUME stage = "sending", stage' = "ready"
      PROVE  \/ sock'[dataConn].carried = 1
             \/ sock[dataConn].state # "open" \/ sock[dataConn].peer = "left"
  <2>1. SendListing
    BY <1>3, StepKinds
    DEF NewConn, Effect, OnlyReply, ChangesLogin, ChangesPlace, OpensSocket, Panics,
        StartsListing, StartsFile, Closes, FinishListing, ReadPiece, WritePiece,
        ReadFails, Aside, EndOfSession
  <2>2. dataConn \in Socket /\ dataConn # NoSocket /\ sock[dataConn].carried = 0
    BY <1>3 DEF FtpInv, DataConnFresh, TypeOK
  <2>3. CASE EndTransfer(Carry(dataConn))
    <3>1. Carry(dataConn) \in Sockets /\ Carry(dataConn)[dataConn].carried = 1
      BY <1>1, <2>2, CarryTyped
    <3> QED
      BY <1>1, <2>2, <2>3, <3>1, EndTransferCloses
  <2>4. CASE WriteFails(dataConn)
    BY <2>4 DEF WriteFails
  <2> QED
    BY <2>1, <2>3, <2>4 DEF SendListing
<1> QED
  BY <1>2, <1>3

LEMMA StepKeepsOut ==
    ASSUME FtpInv, [Next]_vars, user = NoUser, stage # "none", stage' # "none",
           stage \notin {"closed", "crashed"}
    PROVE  /\ stage = "ready" /\ stage' \in {"ready", "closed"}
           /\ UNCHANGED <<namePrefix, lastFilePos>>
           /\ dataConn' \in {dataConn, NoSocket}
           /\ \A k \in Socket : sock'[k].carried = sock[k].carried
<1>1. TypeOK /\ sock \in Sockets /\ stage \notin Busy
  BY DEF FtpInv, TypeOK, Sockets
<1>2. stage = "ready"
  BY <1>1 DEF TypeOK, Stage, Busy
<1>3. ASSUME stage = "ready", CloseConn, UNCHANGED place
      PROVE  /\ stage' = "closed" /\ dataConn' = NoSocket
             /\ UNCHANGED <<namePrefix, lastFilePos>>
             /\ \A k \in Socket : sock'[k].carried = sock[k].carried
  BY <1>1, <1>3, CloseTyped DEF CloseConn, TypeOK, place
<1>4. \/ OnlyReply \/ ChangesLogin
      \/ stage = "ready" /\ CloseConn /\ UNCHANGED place
      \/ Aside
  BY <1>1, <1>2, StepKinds
  DEF NewConn, Effect, ChangesPlace, OpensSocket, Panics, StartsListing, StartsFile, Closes,
      FinishListing, SendListing, ReadPiece, WritePiece, ReadFails, EndOfSession, Busy
<1> QED
  BY <1>2, <1>3, <1>4
  DEF OnlyReply, ChangesLogin, Aside, place, data, work

LEMMA StepCloses ==
    ASSUME FtpInv, [Next]_vars, NEW k \in Socket,
           k = dataConn, dataConn' # k, sock[k].state = "open"
    PROVE  sock'[k].state = "closed" \/ dataConn' # NoSocket
<1>1. TypeOK /\ sock \in Sockets /\ dataConn # NoSocket
  BY SessionAssumption DEF FtpInv, TypeOK, Sockets
<1>2. ASSUME EndTransfer(sock) \/ EndTransfer(Carry(k)) PROVE sock'[k].state = "closed"
  <2>1. Carry(k) \in Sockets /\ Carry(k)[k].state = "open"
    BY <1>1, CarryTyped
  <2> QED
    BY <1>1, <1>2, <2>1, EndTransferCloses
<1>3. ASSUME CloseConn PROVE sock'[k].state = "closed"
  BY <1>1, <1>3, CloseTyped DEF CloseConn
<1>4. ASSUME OpensSocket PROVE dataConn' # NoSocket
  BY <1>1, <1>4, NewSocketTyped, SessionAssumption DEF OpensSocket
<1>5. \/ EndTransfer(sock) \/ EndTransfer(Carry(k)) \/ CloseConn \/ OpensSocket
  BY <1>1, StepKinds
  DEF NewConn, FtpInv, Effect, OnlyReply, ChangesLogin, ChangesPlace, Panics,
      StartsListing, StartsFile, Closes, FinishListing, SendListing, ReadPiece, WritePiece,
      ReadFails, CutShort, Panic, Aside, EndOfSession, data
<1> QED
  BY <1>2, <1>3, <1>4, <1>5

LEMMA StepSilent ==
    ASSUME FtpInv, [Next]_vars, stage' = "ready", reply' = "none",
           stage # "ready" \/ reply # "none"
    PROVE  \/ stage = "ready" /\ \E p \in TreePath : tree[p] \in {"file", "gone"}
           \/ stage = "reading"
           \/ stage = "writing"
              /\ ~(sock[dataConn].state = "open" /\ sock[dataConn].peer = "dialled")
<1>1. OnlyReply \/ ReadPiece \/ ReadFails \/ WritePiece
  BY StepKinds
  DEF NewConn, Effect, ChangesLogin, ChangesPlace, OpensSocket, Panics, StartsListing,
      StartsFile, Closes, CloseConn, FinishListing, SendListing, Aside, EndOfSession,
      Answer, Class, Final, Replies
<1>2. CASE OnlyReply
  BY <1>2 DEF OnlyReply, Final
<1>3. CASE ReadPiece \/ ReadFails
  BY <1>3 DEF ReadPiece, ReadFails
<1>4. CASE WritePiece
  <2>1. stage = "writing" /\ WriteFails(dataConn)
    BY <1>4 DEF WritePiece
  <2> QED
    BY <2>1 DEF WriteFails
<1> QED
  BY <1>1, <1>2, <1>3, <1>4

\* 226 after a file means that every piece of it has been written to the data
\* connection, once (cmd.go commandRetr, conn.go sendOutOfBandDataWriter).
THEOREM ReportsTruly == Spec => TransfersReportTruly
<1>1. FtpInv /\ [Next]_vars =>
        [/\ stage = "reading" /\ stage' = "ready" /\ reply' = "done" =>
               sock'[dataConn].carried = size
         /\ stage = "sending" /\ stage' = "ready" =>
               \/ sock'[dataConn].carried = 1
               \/ sock[dataConn].state # "open" \/ sock[dataConn].peer = "left"]_vars
  BY StepReportsTruly
<1> QED
  BY <1>1, InvariantHolds, PTL DEF Spec, TransfersReportTruly

\* Who is not logged in gets nowhere (conn.go receiveLine and what RequireAuth of
\* each command returns).
THEOREM UsersOnly == Spec => OnlyUsersReach
<1>1. FtpInv /\ [Next]_vars =>
        [user = NoUser /\ stage # "none" /\ stage' # "none" =>
            \/ stage \in {"closed", "crashed"}
            \/ /\ stage = "ready" /\ stage' \in {"ready", "closed"}
               /\ UNCHANGED <<namePrefix, lastFilePos>>
               /\ dataConn' \in {dataConn, NoSocket}
               /\ \A k \in Socket : sock'[k].carried = sock[k].carried]_vars
  BY StepKeepsOut
<1> QED
  BY <1>1, InvariantHolds, PTL DEF Spec, OnlyUsersReach

\* A stored data connection that the session lets go of is closed, or replaced
\* (conn.go Close, sendOutofbandData, sendOutOfBandDataWriter).
THEOREM ConnectionsClosed == Spec => LetGoClosed
<1>1. FtpInv /\ [Next]_vars =>
        [\A k \in Socket :
            k = dataConn /\ dataConn' # k /\ sock[k].state = "open" =>
                sock'[k].state = "closed" \/ dataConn' # NoSocket]_vars
  BY StepCloses
<1> QED
  BY <1>1, InvariantHolds, PTL DEF Spec, LetGoClosed

\* Commands that get no final reply are the two kinds known (cmd.go commandList,
\* commandNlst and commandRetr).
THEOREM RarelySilent == Spec => SilentOnlyOnFailure
<1>1. FtpInv /\ [Next]_vars =>
        [stage' = "ready" /\ reply' = "none" /\ (stage # "ready" \/ reply # "none") =>
            \/ stage = "ready" /\ \E p \in TreePath : tree[p] \in {"file", "gone"}
            \/ stage = "reading"
            \/ stage = "writing"
               /\ ~(sock[dataConn].state = "open" /\ sock[dataConn].peer = "dialled")]_vars
  BY StepSilent
<1> QED
  BY <1>1, InvariantHolds, PTL DEF Spec, SilentOnlyOnFailure
=============================================================================
