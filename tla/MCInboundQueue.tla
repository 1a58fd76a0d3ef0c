--------------------------- MODULE MCInboundQueue ---------------------------
(* Three messages, of which one has a bad signature and one no stamp, with *)
(* rings and queues of two slots: every slot wraps and every queue fills.  *)
EXTENDS InboundQueue, TLC

CONSTANTS m1, m2, m3

InboundMsg == {m1, m2, m3}
InboundGenuine == {m1, m2}
InboundStamped == {m1, m3}
=============================================================================
