---------------------------- MODULE MCFtpSession ----------------------------
(* A small instance of FtpSession: one path besides the root. *)
EXTENDS FtpSession

Paths == {<<>>, <<"d">>}

\* No parameter, "..", and "/d".
Params == {NoParam, Parent, [given |-> TRUE, abs |-> TRUE, up |-> 0, names |-> <<"d">>]}
=============================================================================
