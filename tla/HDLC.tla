-------------------------------- MODULE HDLC --------------------------------
(***************************************************************************)
(* The framing of Reticulum packets on a TCP stream: HDLC.h and the part   *)
(* of reader_loop() (PosixTCPInterface.cpp) that cuts frames out of the    *)
(* bytes received so far.  Each is a loop over bytes, given here by what   *)
(* one byte does.                                                          *)
(***************************************************************************)
EXTENDS Integers, Sequences

CONSTANT HEADER_MINSIZE     \* bytes of the shortest packet

ASSUME HeaderAssumption == HEADER_MINSIZE \in Nat \ {0}

Byte == 0..255

FLAG == 126
ESC == 125

(* byte ^ ESC_MASK: bit 5 the other way round.                             *)
Masked(b) == IF (b \div 32) % 2 = 1 THEN b - 32 ELSE b + 32

(* What a loop over s makes of start, when step[b] is what byte b does.    *)
Folded(step, start, s) ==
    LET after[i \in 0..Len(s)] ==
            IF i = 0 THEN start ELSE step[s[i]][after[i - 1]]
    IN  after[Len(s)]

-----------------------------------------------------------------------------
(* HDLC.h.                                                                 *)

EscapeByte == [byte \in Byte |-> [out \in Seq(Byte) |->
    IF byte \in {ESC, FLAG} THEN out \o <<ESC, Masked(byte)>>
                            ELSE Append(out, byte)]]

Escape(data) == Folded(EscapeByte, <<>>, data)

Frame(data) == <<FLAG>> \o Escape(data) \o <<FLAG>>

Unescaping == [out : Seq(Byte), escaped : BOOLEAN]

UnescapeByte == [byte \in Byte |-> [done \in Unescaping |->
    IF done.escaped
    THEN [out |-> Append(done.out, Masked(byte)), escaped |-> FALSE]
    ELSE IF byte = ESC THEN [done EXCEPT !.escaped = TRUE]
    ELSE [done EXCEPT !.out = Append(@, byte)]]]

(* unescape(), empty when an escape has nothing to escape.                 *)
Unescape(data) ==
    LET done == Folded(UnescapeByte, [out |-> <<>>, escaped |-> FALSE], data)
    IN  IF done.escaped THEN <<>> ELSE done.out

-----------------------------------------------------------------------------
(* reader_loop().                                                          *)

Packet(p) == Len(p) >= HEADER_MINSIZE

(* Whether a flag has been read, what has been read after the last one,    *)
(* and the packets found.                                                  *)
Reading == [open : BOOLEAN, body : Seq(Byte \ {FLAG}), packets : Seq(Seq(Byte))]

NothingRead == [open |-> FALSE, body |-> <<>>, packets |-> <<>>]

(* What stands between two neighbouring flags is a packet unless it is     *)
(* nothing, ends in an escape, or is too short; the second flag may open   *)
(* another frame.  Bytes before the first flag are thrown away.            *)
ReadByte == [byte \in Byte |-> [r \in Reading |->
    IF byte = FLAG
    THEN [open    |-> TRUE,
          body    |-> <<>>,
          packets |-> IF r.open /\ Packet(Unescape(r.body))
                      THEN Append(r.packets, Unescape(r.body))
                      ELSE r.packets]
    ELSE IF r.open THEN [r EXCEPT !.body = Append(@, byte)] ELSE r]]

Read(bytes) == Folded(ReadByte, NothingRead, bytes)

Packets(bytes) == Read(bytes).packets

(* Mutant: the buffer starts empty at each recv().                         *)
RestForgotten(bytes) == <<>>

(* What stays in the buffer: the last flag and the bytes after it.         *)
Rest(bytes) ==
    IF Read(bytes).open THEN <<FLAG>> \o Read(bytes).body ELSE <<>>
=============================================================================
