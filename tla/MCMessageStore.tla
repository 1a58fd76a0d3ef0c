--------------------------- MODULE MCMessageStore ---------------------------
(* Two or three messages of one conversation and one of another, with room *)
(* for one conversation of two messages, one of them hot.                  *)
EXTENDS MessageStore

CONSTANTS a, b, c, d,   \* messages
          x, y          \* their peers

PairMsg == {a, b}
PairPeerOf == [m \in PairMsg |-> x]
OwnPath == [m \in PairMsg |-> m]
OnePath == [m \in PairMsg |-> a]

FourMsg == {a, b, c, d}
FourPeerOf == [m \in FourMsg |-> IF m = d THEN y ELSE x]
FourOwnPath == [m \in FourMsg |-> m]

OneStatus == {"OUTBOUND"}
TwoStatus == {"OUTBOUND", "DELIVERED"}

SafeFaults == {"write", "remove", "preserve", "commit", "restore", "recover",
               "readPayload"}
=============================================================================
