---------------------------- MODULE MCTfsClients ----------------------------
(* Values for the constants of TfsClients.                                 *)
EXTENDS TfsClients, TLC

FileAnswers == {-1, 0}
OneAnswer == {-1}

\* Text, and a character that is no operation code followed by zero bytes.
Text       == [op |-> "other", sid |-> GARBAGE]
ZeroBytes  == [op |-> "other", sid |-> 0]
SomePayloads == {Text, ZeroBytes}
JustZeroBytes == {ZeroBytes}
NoPayload  == {}

=============================================================================
