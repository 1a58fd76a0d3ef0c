---------------------------- MODULE BridgeProofs ----------------------------
(***************************************************************************)
(* Theorems about the conformance bridge: the framing of HDLC, for every   *)
(* sequence of bytes; TcpInterface, for any threads and packets at both    *)
(* ends; SyncBridge, for any number of calls.                              *)
(***************************************************************************)
EXTENDS SyncBridge, TcpInterface, FiniteSetTheorems, WellFoundedInduction,
        TLAPS

-----------------------------------------------------------------------------
(* Loops over sequences.                                                   *)

(* Induction up to a bound, over the set of the numbers a fact holds of.   *)
LEMMA UpTo ==
    ASSUME NEW N \in Nat, NEW S, 0 \in S,
           \A n \in 1..N : n - 1 \in S => n \in S
    PROVE  0..N \subseteq S
<1> DEFINE Missing == (0..N) \ S
<1>1. SUFFICES ASSUME Missing # {}
               PROVE  FALSE
  OBVIOUS
<1>2. Missing \subseteq Nat
  OBVIOUS
<1>3. PICK x \in Missing : \A y \in Missing : ~(<<y, x>> \in OpToRel(<, Nat))
  <2> HIDE DEF Missing
  <2> QED
    BY <1>1, <1>2, NatLessThanWellFounded, WFMin, Zenon
<1>4. OpToRel(<, Nat) = {ss \in Nat \X Nat : ss[1] < ss[2]}
  BY Zenon DEF OpToRel
<1>5. \A y \in Missing : ~(y < x)
  BY <1>2, <1>3, <1>4
<1>6. x \in 1..N /\ x - 1 \in 0..N
  OBVIOUS
<1>7. x - 1 \in S
  BY <1>5, <1>6
<1> QED
  BY <1>6, <1>7

(* Appending after joining.                                                *)
Associate(v, u, b) == Append(v \o u, b) = v \o Append(u, b)

(* Appending commutes with joining in front.                               *)
LEMMA Associates ==
    ASSUME NEW B, NEW v \in Seq(B), NEW u \in Seq(B), NEW b \in B
    PROVE  Associate(v, u, b)
  BY DEF Associate

(* Joining three.                                                          *)
Regroup(u, v, w) == u \o (v \o w) = (u \o v) \o w

(* Joining is associative.                                                 *)
LEMMA JoinsRegroup ==
    ASSUME NEW B, NEW u \in Seq(B), NEW v \in Seq(B), NEW w \in Seq(B)
    PROVE  Regroup(u, v, w)
  BY DEF Regroup

(* Both parts of a sequence that is cut are sequences of the same kind.    *)
LEMMA CutInTwo ==
    ASSUME NEW B, NEW s \in Seq(B), NEW n \in 1..Len(s)
    PROVE  SubSeq(s, 1, n) \in Seq(B) /\ SubSeq(s, n + 1, Len(s)) \in Seq(B)
  OBVIOUS

(* Induction over sequences, over the set of those a fact holds of.        *)
LEMMA ByAppending ==
    ASSUME NEW B, NEW S, <<>> \in S,
           \A s \in Seq(B), b \in B : s \in S => Append(s, b) \in S
    PROVE  Seq(B) \subseteq S
<1> SUFFICES ASSUME NEW s \in Seq(B)
             PROVE  s \in S
  OBVIOUS
<1> DEFINE Good == {n \in 0..Len(s) : SubSeq(s, 1, n) \in S}
<1>1. Len(s) \in Nat /\ \A i \in 1..Len(s) : s[i] \in B
  OBVIOUS
<1>2. 0 \in Good
  <2>1. SubSeq(s, 1, 0) = <<>>
    OBVIOUS
  <2>2. SubSeq(s, 1, 0) \in S
    BY <2>1, Zenon
  <2> QED
    BY <1>1, <2>2
<1>3. ASSUME NEW n \in 1..Len(s), n - 1 \in Good
      PROVE  n \in Good
  <2>1. /\ SubSeq(s, 1, n - 1) \in Seq(B) /\ SubSeq(s, 1, n - 1) \in S
        /\ s[n] \in B
    BY <1>1, <1>3
  <2>2. SubSeq(s, 1, n) = Append(SubSeq(s, 1, n - 1), s[n])
    BY <1>1
  <2>3. SubSeq(s, 1, n) \in S
    BY <2>1, <2>2, Zenon
  <2> QED
    BY <1>1, <2>3
<1>4. 0..Len(s) \subseteq Good
  <2> HIDE DEF Good
  <2> QED
    BY <1>1, <1>2, <1>3, UpTo
<1>5. SubSeq(s, 1, Len(s)) = s
  OBVIOUS
<1>6. SubSeq(s, 1, Len(s)) \in S
  BY <1>1, <1>4
<1> QED
  BY <1>5, <1>6, Zenon

(* What one element does, by the elements of B, to the values in V.        *)
IsStep(step, V, B) == step \in [B -> [V -> V]]

(* What the loop has made of start after each element of s.                *)
IsLoop(f, V, step, start, s) ==
    /\ f \in [0..Len(s) -> V]
    /\ Folded(step, start, s) = f[Len(s)]
    /\ f[0] = start
    /\ \A i \in 1..Len(s) : f[i] = step[s[i]][f[i - 1]]

(* The loop is what its definition says: the recursive definition has a    *)
(* solution, built up one element at a time.                               *)
LEMMA LoopExists ==
    ASSUME NEW V, NEW B, NEW step, IsStep(step, V, B), NEW start \in V,
           NEW s \in Seq(B)
    PROVE  \E f : IsLoop(f, V, step, start, s)
<1> DEFINE N == Len(s)
           Run(f, n) == f = [i \in 0..n |-> IF i = 0 THEN start
                                           ELSE step[s[i]][f[i - 1]]]
           Runs == {n \in 0..N : \E f : Run(f, n)}
           whole == CHOOSE f : Run(f, N)
<1>1. N \in Nat /\ \A i \in 1..N : s[i] \in B
  OBVIOUS
<1>2. 0..N \subseteq Runs
  <2>1. 0 \in Runs
    <3>1. Run([i \in 0..0 |-> start], 0)
      OBVIOUS
    <3>2. 0 \in 0..N
      BY <1>1
    <3> QED
      BY <3>1, <3>2
  <2>2. ASSUME NEW n \in 1..N, n - 1 \in Runs
        PROVE  n \in Runs
    <3>1. PICK f : Run(f, n - 1)
      BY <2>2
    <3> DEFINE g == [i \in 0..n |-> IF i < n THEN f[i]
                                    ELSE step[s[n]][f[n - 1]]]
    <3>2. ASSUME NEW i \in 0..n
          PROVE  g[i] = IF i = 0 THEN start ELSE step[s[i]][g[i - 1]]
      <4>1. CASE i = 0
        <5>1. i \in 0..(n - 1) /\ i < n
          BY <1>1, <4>1
        <5>2. f[i] = start
          BY <3>1, <4>1, <5>1
        <5>3. g[i] = f[i]
          BY <5>1
        <5> HIDE DEF g
        <5> QED
          BY <4>1, <5>2, <5>3
      <4>2. CASE i # 0 /\ i < n
        <5>1. i \in 0..(n - 1) /\ i - 1 \in 0..n /\ i - 1 < n
          BY <1>1, <4>2
        <5>2. f[i] = step[s[i]][f[i - 1]]
          BY <3>1, <4>2, <5>1
        <5>3. g[i] = f[i] /\ g[i - 1] = f[i - 1]
          BY <4>2, <5>1
        <5> HIDE DEF g
        <5> QED
          BY <4>2, <5>2, <5>3
      <4>3. CASE i = n
        <5>1. i # 0 /\ i - 1 \in 0..n /\ i - 1 < n /\ ~(i < n) /\ n \in 0..n
          BY <1>1, <4>3
        <5>2. g[i - 1] = f[i - 1] /\ g[n] = step[s[n]][f[n - 1]]
          BY <4>3, <5>1
        <5> HIDE DEF g
        <5> QED
          BY <4>3, <5>1, <5>2
      <4>4. i = n \/ i < n
        BY <1>1
      <4> HIDE DEF g
      <4> QED
        BY <4>1, <4>2, <4>3, <4>4
    <3>3. Run(g, n)
      <4>1. g = [i \in 0..n |-> g[i]]
        OBVIOUS
      <4> QED
        BY <3>2, <4>1
    <3> HIDE DEF g, Run
    <3>4. \E h : Run(h, n)
      BY <3>3
    <3>5. n \in 0..N
      BY <1>1
    <3> QED
      BY <3>4, <3>5
  <2> HIDE DEF Runs
  <2> QED
    BY <1>1, <2>1, <2>2, UpTo
<1>3. Run(whole, N)
  <2> HIDE DEF Run
  <2>1. \E f : Run(f, N)
    BY <1>1, <1>2
  <2> QED
    BY <2>1
<1>4. Folded(step, start, s) = whole[N]
  BY DEF Folded
<1> HIDE DEF whole
<1>5. /\ whole = [i \in 0..N |-> whole[i]]
      /\ whole[0] = start
  BY <1>1, <1>3
<1>6. ASSUME NEW i \in 1..N
      PROVE  whole[i] = step[s[i]][whole[i - 1]]
  <2>1. i \in 0..N /\ i # 0
    BY <1>1
  <2> QED
    BY <1>3, <2>1
<1> DEFINE Good == {i \in 0..N : whole[i] \in V}
<1>7. 0..N \subseteq Good
  <2>1. 0 \in Good
    BY <1>1, <1>5
  <2>2. ASSUME NEW n \in 1..N, n - 1 \in Good
        PROVE  n \in Good
    <3>1. whole[n - 1] \in V /\ s[n] \in B
      BY <1>1, <2>2
    <3>2. step[s[n]][whole[n - 1]] \in V
      BY <3>1 DEF IsStep
    <3>3. whole[n] = step[s[n]][whole[n - 1]]
      BY <1>6
    <3>4. whole[n] \in V
      BY <3>2, <3>3, Zenon
    <3>5. n \in 0..N
      BY <1>1
    <3> QED
      BY <3>4, <3>5
  <2> HIDE DEF Good
  <2> QED
    BY <1>1, <2>1, <2>2, UpTo
<1>8. whole \in [0..N -> V]
  BY <1>5, <1>7
<1> QED
  BY <1>4, <1>5, <1>6, <1>8 DEF IsLoop

(* A loop over nothing.                                                    *)
LEMMA LoopStarts ==
    ASSUME NEW V, NEW B, NEW step, IsStep(step, V, B), NEW start \in V
    PROVE  Folded(step, start, <<>>) = start
<1>1. <<>> \in Seq(B) /\ Len(<<>>) = 0
  OBVIOUS
<1>2. PICK f : IsLoop(f, V, step, start, <<>>)
  BY <1>1, LoopExists
<1> QED
  BY <1>1, <1>2 DEF IsLoop

(* A loop keeps its type.                                                  *)
LEMMA LoopType ==
    ASSUME NEW V, NEW B, NEW step, IsStep(step, V, B), NEW start \in V,
           NEW s \in Seq(B)
    PROVE  Folded(step, start, s) \in V
<1>1. PICK f : IsLoop(f, V, step, start, s)
  BY LoopExists
<1> QED
  BY <1>1 DEF IsLoop

(* A loop over one element more.                                           *)
LEMMA LoopSteps ==
    ASSUME NEW V, NEW B, NEW step, IsStep(step, V, B), NEW start \in V,
           NEW s \in Seq(B), NEW b \in B
    PROVE  Folded(step, start, Append(s, b)) = step[b][Folded(step, start, s)]
<1>1. PICK f : IsLoop(f, V, step, start, s)
  BY LoopExists
<1>2. /\ f \in [0..Len(s) -> V]
      /\ Folded(step, start, s) = f[Len(s)]
      /\ f[0] = start
      /\ \A i \in 1..Len(s) : f[i] = step[s[i]][f[i - 1]]
  BY <1>1 DEF IsLoop
<1>3. Len(s) \in Nat
  OBVIOUS
<1> DEFINE t == Append(s, b)
<1>4. /\ t \in Seq(B) /\ Len(t) = Len(s) + 1 /\ t[Len(s) + 1] = b
      /\ \A i \in 1..Len(s) : t[i] = s[i]
  OBVIOUS
<1> HIDE DEF t
<1>5. PICK g : IsLoop(g, V, step, start, t)
  BY <1>4, LoopExists
<1>6. /\ g \in [0..Len(t) -> V]
      /\ Folded(step, start, t) = g[Len(t)]
      /\ g[0] = start
      /\ \A i \in 1..Len(t) : g[i] = step[t[i]][g[i - 1]]
  BY <1>5 DEF IsLoop
<1> DEFINE Good == {i \in 0..Len(s) : g[i] = f[i]}
<1>7. 0..Len(s) \subseteq Good
  <2>1. 0 \in Good
    BY <1>2, <1>3, <1>6
  <2>2. ASSUME NEW n \in 1..Len(s), n - 1 \in Good
        PROVE  n \in Good
    <3>1. g[n] = step[t[n]][g[n - 1]] /\ f[n] = step[s[n]][f[n - 1]]
      BY <1>2, <1>3, <1>4, <1>6
    <3>2. g[n - 1] = f[n - 1] /\ t[n] = s[n]
      BY <1>4, <2>2
    <3>3. g[n] = f[n]
      BY <3>1, <3>2
    <3> QED
      BY <1>3, <3>3
  <2> HIDE DEF Good
  <2> QED
    BY <1>3, <2>1, <2>2, UpTo
<1>8. g[Len(s)] = f[Len(s)]
  BY <1>3, <1>7
<1>9. g[Len(s) + 1] = step[b][g[Len(s)]]
  <2>1. Len(s) + 1 \in 1..Len(t) /\ (Len(s) + 1) - 1 = Len(s)
    BY <1>3, <1>4
  <2> QED
    BY <1>4, <1>6, <2>1
<1> QED
  BY <1>2, <1>4, <1>6, <1>8, <1>9 DEF t

(* A loop over two sequences is one over the second after one over the     *)
(* first.                                                                  *)
LEMMA LoopOverTwo ==
    ASSUME NEW V, NEW B, NEW step, IsStep(step, V, B), NEW start \in V,
           NEW s \in Seq(B), NEW t \in Seq(B)
    PROVE  Folded(step, start, s \o t) =
               Folded(step, Folded(step, start, s), t)
<1> DEFINE mid == Folded(step, start, s)
           Good == {u \in Seq(B) : Folded(step, start, s \o u) =
                                       Folded(step, mid, u)}
<1>1. mid \in V
  BY LoopType
<1> HIDE DEF mid
<1>2. <<>> \in Good
  <2>1. s \o <<>> = s /\ <<>> \in Seq(B)
    OBVIOUS
  <2>2. Folded(step, mid, <<>>) = mid
    BY <1>1, LoopStarts
  <2> QED
    BY <2>1, <2>2 DEF mid
<1>3. ASSUME NEW u \in Seq(B), NEW b \in B, u \in Good
      PROVE  Append(u, b) \in Good
  <2>1. s \o Append(u, b) = Append(s \o u, b) /\ s \o u \in Seq(B)
    OBVIOUS
  <2>2. \A w \in Seq(B) : Folded(step, start, Append(w, b)) =
                              step[b][Folded(step, start, w)]
    BY LoopSteps
  <2>3. Folded(step, mid, Append(u, b)) = step[b][Folded(step, mid, u)]
    BY <1>1, LoopSteps
  <2>4. Folded(step, start, s \o u) = Folded(step, mid, u)
    BY <1>3
  <2>5. Folded(step, start, s \o Append(u, b)) =
            Folded(step, mid, Append(u, b))
    BY <2>1, <2>2, <2>3, <2>4, Zenon
  <2>6. Append(u, b) \in Seq(B)
    OBVIOUS
  <2> QED
    BY <2>5, <2>6, Zenon
<1>4. Seq(B) \subseteq Good
  <2> HIDE DEF Good
  <2> QED
    BY <1>2, <1>3, ByAppending
<1> QED
  BY <1>4 DEF mid
-----------------------------------------------------------------------------
(* Framing (HDLC.h).                                                       *)

(* What is read of a frame: anything but a flag.                           *)
Plain == Byte \ {FLAG}

(* A masked byte is a byte.                                                *)
LEMMA MaskedIsByte == \A b \in Byte : Masked(b) \in Byte
  BY DEF Masked, Byte

(* The bytes with a meaning, and what masking makes of them.               *)
LEMMA MaskedSpecials ==
    /\ FLAG \in Byte /\ ESC \in Byte /\ ESC # FLAG
    /\ \A b \in {ESC, FLAG} : /\ Masked(b) \in Byte
                              /\ Masked(b) \notin {ESC, FLAG}
                              /\ Masked(Masked(b)) = b
  BY DEF Masked, Byte, ESC, FLAG

(* One step of escaping: the loop's lemmas apply to it.                    *)
LEMMA EscapeByteType == IsStep(EscapeByte, Seq(Byte), Byte)
<1>1. ASSUME NEW byte \in Byte, NEW out \in Seq(Byte)
      PROVE  (IF byte \in {ESC, FLAG} THEN out \o <<ESC, Masked(byte)>>
                                      ELSE Append(out, byte)) \in Seq(Byte)
  <2>1. <<ESC, Masked(byte)>> \in Seq(Byte)
    BY MaskedSpecials, MaskedIsByte
  <2> QED
    BY <2>1
<1> QED
  BY <1>1 DEF EscapeByte, IsStep

(* One step of unescaping: the loop's lemmas apply to it.                  *)
LEMMA UnescapeByteType == IsStep(UnescapeByte, Unescaping, Byte)
<1>1. ASSUME NEW byte \in Byte, NEW done \in Unescaping
      PROVE  (IF done.escaped
              THEN [out |-> Append(done.out, Masked(byte)), escaped |-> FALSE]
              ELSE IF byte = ESC THEN [done EXCEPT !.escaped = TRUE]
              ELSE [done EXCEPT !.out = Append(@, byte)]) \in Unescaping
  <2>1. Masked(byte) \in Byte /\ done.out \in Seq(Byte)
    BY MaskedIsByte DEF Unescaping
  <2>2. Append(done.out, Masked(byte)) \in Seq(Byte)
    BY <2>1
  <2>3. Append(done.out, byte) \in Seq(Byte)
    BY <2>1
  <2> QED
    BY <2>2, <2>3 DEF Unescaping
<1> QED
  BY <1>1 DEF UnescapeByte, IsStep

(* What escape() makes of one byte.                                        *)
Escaped(b) == IF b \in {ESC, FLAG} THEN <<ESC, Masked(b)>> ELSE <<b>>

(* Escaping nothing writes nothing.                                        *)
LEMMA EscapeStarts == Escape(<<>>) = <<>>
<1>1. <<>> \in Seq(Byte)
  OBVIOUS
<1> QED
  BY <1>1, EscapeByteType, LoopStarts DEF Escape

(* Escaping writes bytes.                                                  *)
LEMMA EscapeType ==
    ASSUME NEW d \in Seq(Byte)
    PROVE  Escape(d) \in Seq(Byte)
<1>1. <<>> \in Seq(Byte)
  OBVIOUS
<1> QED
  BY <1>1, EscapeByteType, LoopType DEF Escape

(* Escaping one byte more writes that byte's escape after the rest.        *)
LEMMA EscapeSteps ==
    ASSUME NEW d \in Seq(Byte), NEW b \in Byte
    PROVE  Escape(Append(d, b)) = Escape(d) \o Escaped(b)
<1>1. <<>> \in Seq(Byte)
  OBVIOUS
<1>2. Escape(Append(d, b)) = EscapeByte[b][Escape(d)]
  <2>1. \A out \in Seq(Byte) :
            Folded(EscapeByte, out, Append(d, b)) =
                EscapeByte[b][Folded(EscapeByte, out, d)]
    BY EscapeByteType, LoopSteps
  <2> QED
    BY <1>1, <2>1, Zenon DEF Escape
<1> HIDE DEF Escape
<1>3. Escape(d) \in Seq(Byte)
  BY EscapeType
<1>4. EscapeByte[b][Escape(d)] =
          IF b \in {ESC, FLAG} THEN Escape(d) \o <<ESC, Masked(b)>>
                               ELSE Append(Escape(d), b)
  BY <1>3 DEF EscapeByte
<1>5. Append(Escape(d), b) = Escape(d) \o <<b>>
  BY <1>3
<1> QED
  BY <1>2, <1>4, <1>5 DEF Escaped

(* No flag is left inside a frame.                                         *)
LEMMA EscapeIsPlain ==
    ASSUME NEW d \in Seq(Byte)
    PROVE  Escape(d) \in Seq(Plain)
<1> DEFINE Good == {u \in Seq(Byte) : Escape(u) \in Seq(Plain)}
<1>1. <<>> \in Good
  <2>1. <<>> \in Seq(Byte) /\ <<>> \in Seq(Plain)
    OBVIOUS
  <2> QED
    BY <2>1, EscapeStarts
<1>2. ASSUME NEW u \in Seq(Byte), NEW b \in Byte, u \in Good
      PROVE  Append(u, b) \in Good
  <2>1. Escaped(b) \in Seq(Plain)
    <3>1. CASE b \in {ESC, FLAG}
      <4>1. ESC \in Plain /\ Masked(b) \in Plain
        BY <3>1, MaskedSpecials DEF Plain
      <4>2. <<ESC, Masked(b)>> \in Seq(Plain)
        BY <4>1
      <4> QED
        BY <3>1, <4>2 DEF Escaped
    <3>2. CASE b \notin {ESC, FLAG}
      <4>1. b \in Plain
        BY <3>2 DEF Plain
      <4>2. <<b>> \in Seq(Plain)
        BY <4>1
      <4> QED
        BY <3>2, <4>2 DEF Escaped
    <3> QED
      BY <3>1, <3>2
  <2>2. Escape(u) \in Seq(Plain)
    BY <1>2
  <2>3. Escape(Append(u, b)) = Escape(u) \o Escaped(b)
    BY EscapeSteps
  <2>4. Escape(u) \o Escaped(b) \in Seq(Plain)
    BY <2>1, <2>2
  <2>5. Append(u, b) \in Seq(Byte)
    OBVIOUS
  <2> QED
    BY <2>3, <2>4, <2>5
<1>3. Seq(Byte) \subseteq Good
  <2> HIDE DEF Good
  <2> QED
    BY <1>1, <1>2, ByAppending
<1> QED
  BY <1>3

(* Where unescaping starts: nothing written, no escape open.               *)
NothingUnescaped == [out |-> <<>>, escaped |-> FALSE]

(* It is a state of the loop.                                              *)
LEMMA NothingUnescapedType == NothingUnescaped \in Unescaping
<1>1. <<>> \in Seq(Byte)
  OBVIOUS
<1> QED
  BY <1>1 DEF NothingUnescaped, Unescaping

(* One byte escaped is that byte unescaped.                                *)
LEMMA UnescapedByte ==
    ASSUME NEW u \in Seq(Byte), NEW b \in Byte
    PROVE  Folded(UnescapeByte, [out |-> u, escaped |-> FALSE], Escaped(b)) =
               [out |-> Append(u, b), escaped |-> FALSE]
<1> DEFINE at == [out |-> u, escaped |-> FALSE]
           half == [out |-> u, escaped |-> TRUE]
<1>1. at \in Unescaping /\ half \in Unescaping
  BY DEF Unescaping
<1>2. \A w \in Seq(Byte), x \in Byte :
          Folded(UnescapeByte, at, Append(w, x)) =
              UnescapeByte[x][Folded(UnescapeByte, at, w)]
  <2> HIDE DEF at
  <2> QED
    BY <1>1, UnescapeByteType, LoopSteps
<1>3. \A x \in Byte : Folded(UnescapeByte, at, <<x>>) = UnescapeByte[x][at]
  <2> SUFFICES ASSUME NEW x \in Byte
               PROVE  Folded(UnescapeByte, at, <<x>>) = UnescapeByte[x][at]
    OBVIOUS
  <2>1. <<>> \in Seq(Byte) /\ Append(<<>>, x) = <<x>>
    OBVIOUS
  <2> HIDE DEF at
  <2>2. Folded(UnescapeByte, at, <<>>) = at
    BY <1>1, UnescapeByteType, LoopStarts
  <2>3. Folded(UnescapeByte, at, Append(<<>>, x)) =
            UnescapeByte[x][Folded(UnescapeByte, at, <<>>)]
    BY <1>2, <2>1, Zenon
  <2> QED
    BY <2>1, <2>2, <2>3
<1>4. CASE b \notin {ESC, FLAG}
  <2>1. Escaped(b) = <<b>>
    BY <1>4 DEF Escaped
  <2>2. UnescapeByte[b][at] = [out |-> Append(u, b), escaped |-> FALSE]
    BY <1>1, <1>4 DEF UnescapeByte
  <2> QED
    BY <1>3, <2>1, <2>2
<1>5. CASE b \in {ESC, FLAG}
  <2>1. /\ ESC \in Byte /\ Masked(b) \in Byte /\ Masked(Masked(b)) = b
    BY <1>5, MaskedSpecials
  <2>2. Escaped(b) = Append(<<ESC>>, Masked(b)) /\ <<ESC>> \in Seq(Byte)
    BY <1>5, <2>1 DEF Escaped
  <2>3. UnescapeByte[ESC][at] = half
    BY <1>1, <2>1 DEF UnescapeByte
  <2>4. UnescapeByte[Masked(b)][half] = [out |-> Append(u, b), escaped |-> FALSE]
    BY <1>1, <2>1 DEF UnescapeByte
  <2>5. Folded(UnescapeByte, at, <<ESC>>) = half
    BY <1>3, <2>1, <2>3
  <2> HIDE DEF at, half
  <2>6. Folded(UnescapeByte, at, Append(<<ESC>>, Masked(b))) =
            UnescapeByte[Masked(b)][Folded(UnescapeByte, at, <<ESC>>)]
    BY <1>2, <2>1, <2>2, Zenon
  <2> QED
    BY <2>2, <2>4, <2>5, <2>6 DEF at
<1> QED
  BY <1>4, <1>5

(* unescape() undoes escape() for all bytes (HDLC.h).                      *)
THEOREM UnescapeUndoesEscape ==
    ASSUME NEW d \in Seq(Byte)
    PROVE  Unescape(Escape(d)) = d
<1> DEFINE Done(u) == Folded(UnescapeByte, NothingUnescaped, Escape(u))
           Good == {u \in Seq(Byte) : Done(u) = [out |-> u, escaped |-> FALSE]}
<1>1. <<>> \in Good
  <2>1. <<>> \in Seq(Byte)
    OBVIOUS
  <2>2. Folded(UnescapeByte, NothingUnescaped, <<>>) = NothingUnescaped
    BY NothingUnescapedType, UnescapeByteType, LoopStarts
  <2> QED
    BY <2>1, <2>2, EscapeStarts DEF NothingUnescaped
<1>2. ASSUME NEW u \in Seq(Byte), NEW b \in Byte, u \in Good
      PROVE  Append(u, b) \in Good
  <2>1. Escaped(b) \in Seq(Byte)
    <3>1. CASE b \in {ESC, FLAG}
      <4>1. ESC \in Byte /\ Masked(b) \in Byte
        BY <3>1, MaskedSpecials
      <4>2. <<ESC, Masked(b)>> \in Seq(Byte)
        BY <4>1
      <4> QED
        BY <3>1, <4>2 DEF Escaped
    <3>2. CASE b \notin {ESC, FLAG}
      BY <3>2 DEF Escaped
    <3> QED
      BY <3>1, <3>2
  <2>2. Done(Append(u, b)) = Folded(UnescapeByte, Done(u), Escaped(b))
    <3>1. Escape(Append(u, b)) = Escape(u) \o Escaped(b)
      BY EscapeSteps
    <3>2. Escape(u) \in Seq(Byte)
      BY EscapeType
    <3> QED
      BY <2>1, <3>1, <3>2, NothingUnescapedType, UnescapeByteType, LoopOverTwo
  <2>3. Done(u) = [out |-> u, escaped |-> FALSE]
    BY <1>2
  <2>4. Done(Append(u, b)) = [out |-> Append(u, b), escaped |-> FALSE]
    BY <2>2, <2>3, UnescapedByte
  <2>5. Append(u, b) \in Seq(Byte)
    OBVIOUS
  <2> HIDE DEF Done
  <2> QED
    BY <2>4, <2>5
<1>3. Seq(Byte) \subseteq Good
  <2> HIDE DEF Good
  <2> QED
    BY <1>1, <1>2, ByAppending
<1>4. Done(d) = [out |-> d, escaped |-> FALSE]
  BY <1>3
<1> QED
  BY <1>4 DEF Unescape, NothingUnescaped

-----------------------------------------------------------------------------
(* Reading frames (reader_loop()).                                         *)

(* Unescaping any bytes gives bytes.                                       *)
LEMMA UnescapeType ==
    ASSUME NEW d \in Seq(Byte)
    PROVE  Unescape(d) \in Seq(Byte)
<1>1. Folded(UnescapeByte, NothingUnescaped, d) \in Unescaping
  BY NothingUnescapedType, UnescapeByteType, LoopType
<1>2. ASSUME NEW done \in Unescaping
      PROVE  done.out \in Seq(Byte)
  BY DEF Unescaping
<1>3. <<>> \in Seq(Byte)
  OBVIOUS
<1> QED
  BY <1>1, <1>2, <1>3 DEF Unescape, NothingUnescaped

(* Bytes without a flag among them are bytes.                              *)
LEMMA PlainBytes ==
    ASSUME NEW w \in Seq(Plain)
    PROVE  w \in Seq(Byte)
  BY DEF Plain

(* Where reading starts.                                                   *)
LEMMA NothingReadType == NothingRead \in Reading
<1>1. <<>> \in Seq(Byte \ {FLAG}) /\ <<>> \in Seq(Seq(Byte))
  OBVIOUS
<1> QED
  BY <1>1 DEF NothingRead, Reading

(* The parts of what was read so far.                                      *)
LEMMA ReadingFields ==
    ASSUME NEW r \in Reading
    PROVE  /\ r.open \in BOOLEAN
           /\ r.body \in Seq(Plain) /\ r.body \in Seq(Byte)
           /\ r.packets \in Seq(Seq(Byte))
           /\ r = [open |-> r.open, body |-> r.body, packets |-> r.packets]
<1>1. r.body \in Seq(Plain)
  BY DEF Reading, Plain
<1> QED
  BY <1>1, PlainBytes DEF Reading

(* A reading from its parts.                                               *)
LEMMA ReadingIs ==
    ASSUME NEW o \in BOOLEAN, NEW w \in Seq(Plain), NEW ps \in Seq(Seq(Byte))
    PROVE  [open |-> o, body |-> w, packets |-> ps] \in Reading
  BY DEF Reading, Plain

(* What one byte does.                                                     *)
LEMMA FlagIsRead ==
    ASSUME NEW r \in Reading
    PROVE  ReadByte[FLAG][r] =
               [open    |-> TRUE,
                body    |-> <<>>,
                packets |-> IF r.open /\ Packet(Unescape(r.body))
                            THEN Append(r.packets, Unescape(r.body))
                            ELSE r.packets]
  BY MaskedSpecials DEF ReadByte

(* What a byte that is no flag does: inside a frame it is kept.            *)
LEMMA PlainIsRead ==
    ASSUME NEW r \in Reading, NEW b \in Plain
    PROVE  ReadByte[b][r] =
               [open    |-> r.open,
                body    |-> IF r.open THEN Append(r.body, b) ELSE r.body,
                packets |-> r.packets]
<1>1. ReadByte[b][r] = IF r.open THEN [r EXCEPT !.body = Append(@, b)] ELSE r
  BY DEF ReadByte, Plain
<1>2. r = [open |-> r.open, body |-> r.body, packets |-> r.packets]
  BY ReadingFields
<1>3. [r EXCEPT !.body = Append(@, b)] =
          [open |-> r.open, body |-> Append(r.body, b), packets |-> r.packets]
  <2> DEFINE w == Append(r.body, b)
  <2> HIDE DEF w
  <2>1. [r EXCEPT !.body = w] =
            [open |-> r.open, body |-> w, packets |-> r.packets]
    BY DEF Reading
  <2> QED
    BY <2>1 DEF w
<1> QED
  BY <1>1, <1>2, <1>3

(* One step of reading: the loop's lemmas apply to it.                     *)
LEMMA ReadByteType == IsStep(ReadByte, Reading, Byte)
<1>1. ASSUME NEW b \in Byte, NEW r \in Reading
      PROVE  ReadByte[b][r] \in Reading
  <2>1. CASE b = FLAG
    <3>1. Unescape(r.body) \in Seq(Byte) /\ r.packets \in Seq(Seq(Byte))
      BY ReadingFields, UnescapeType
    <3>2. Append(r.packets, Unescape(r.body)) \in Seq(Seq(Byte))
      BY <3>1
    <3>3. <<>> \in Seq(Plain)
      OBVIOUS
    <3> QED
      BY <2>1, <3>1, <3>2, <3>3, FlagIsRead, ReadingIs
  <2>2. CASE b # FLAG
    <3>1. b \in Plain /\ r.body \in Seq(Plain)
      BY <2>2, ReadingFields DEF Plain
    <3>2. Append(r.body, b) \in Seq(Plain)
      BY <3>1
    <3>3. /\ r.open \in BOOLEAN /\ r.packets \in Seq(Seq(Byte))
          /\ (IF r.open THEN Append(r.body, b) ELSE r.body) \in Seq(Plain)
      BY <3>1, <3>2, ReadingFields
    <3>4. [open    |-> r.open,
           body    |-> IF r.open THEN Append(r.body, b) ELSE r.body,
           packets |-> r.packets] \in Reading
      BY <3>3, ReadingIs, Zenon
    <3> QED
      BY <3>1, <3>4, PlainIsRead
  <2> QED
    BY <2>1, <2>2
<1>2. ReadByte = [b \in Byte |-> [r \in Reading |-> ReadByte[b][r]]]
  BY DEF ReadByte
<1> QED
  BY <1>1, <1>2 DEF IsStep

(* Reading on from r.                                                      *)
LEMMA ReadOn ==
    ASSUME NEW r \in Reading
    PROVE  /\ Folded(ReadByte, r, <<>>) = r
           /\ \A w \in Seq(Byte) : Folded(ReadByte, r, w) \in Reading
           /\ \A w \in Seq(Byte), b \in Byte :
                  Folded(ReadByte, r, Append(w, b)) =
                      ReadByte[b][Folded(ReadByte, r, w)]
           /\ \A b \in Byte : Folded(ReadByte, r, <<b>>) = ReadByte[b][r]
<1>1. Folded(ReadByte, r, <<>>) = r
  BY ReadByteType, LoopStarts
<1>2. \A w \in Seq(Byte) : Folded(ReadByte, r, w) \in Reading
  BY ReadByteType, LoopType
<1>3. \A w \in Seq(Byte), b \in Byte :
          Folded(ReadByte, r, Append(w, b)) = ReadByte[b][Folded(ReadByte, r, w)]
  BY ReadByteType, LoopSteps
<1>4. \A b \in Byte : Folded(ReadByte, r, <<b>>) = ReadByte[b][r]
  <2> SUFFICES ASSUME NEW b \in Byte
               PROVE  Folded(ReadByte, r, <<b>>) = ReadByte[b][r]
    OBVIOUS
  <2>1. <<>> \in Seq(Byte) /\ Append(<<>>, b) = <<b>>
    OBVIOUS
  <2>2. Folded(ReadByte, r, Append(<<>>, b)) =
            ReadByte[b][Folded(ReadByte, r, <<>>)]
    BY <1>3, <2>1, Zenon
  <2> QED
    BY <1>1, <2>1, <2>2
<1> QED
  BY <1>1, <1>2, <1>3, <1>4

(* Reading two pieces is reading them joined.                              *)
Joined(r, w, x) ==
    Folded(ReadByte, r, w \o x) = Folded(ReadByte, Folded(ReadByte, r, w), x)

(* Reading two stretches is reading the second after the first.            *)
LEMMA ReadJoined ==
    ASSUME NEW r \in Reading, NEW w \in Seq(Byte), NEW x \in Seq(Byte)
    PROVE  Joined(r, w, x)
  BY ReadByteType, LoopOverTwo DEF Joined

(* Inside a frame, bytes that are no flags are kept as they are.           *)
LEMMA PlainsAreKept ==
    ASSUME NEW r \in Reading, r.open, NEW w \in Seq(Plain)
    PROVE  Folded(ReadByte, r, w) =
               [open |-> TRUE, body |-> r.body \o w, packets |-> r.packets]
<1> DEFINE kept(u) == [open |-> TRUE, body |-> r.body \o u, packets |-> r.packets]
           Good == {u \in Seq(Plain) : Folded(ReadByte, r, u) = kept(u)}
<1>1. r.body \in Seq(Plain) /\ r.packets \in Seq(Seq(Byte))
  BY ReadingFields
<1>2. <<>> \in Good
  <2>1. r.body \o <<>> = r.body /\ <<>> \in Seq(Plain)
    BY <1>1
  <2>2. r = [open |-> TRUE, body |-> r.body, packets |-> r.packets]
    BY ReadingFields
  <2> QED
    BY <2>1, <2>2, ReadOn
<1>3. ASSUME NEW u \in Seq(Plain), NEW b \in Plain, u \in Good
      PROVE  Append(u, b) \in Good
  <2>1. u \in Seq(Byte) /\ b \in Byte
    BY PlainBytes DEF Plain
  <2>2. r.body \o u \in Seq(Plain)
    BY <1>1
  <2>3. kept(u) \in Reading
    BY <1>1, <2>2, ReadingIs
  <2>4. Folded(ReadByte, r, Append(u, b)) = ReadByte[b][kept(u)]
    <3>1. Folded(ReadByte, r, u) = kept(u)
      BY <1>3
    <3> HIDE DEF kept
    <3>2. Folded(ReadByte, r, Append(u, b)) =
              ReadByte[b][Folded(ReadByte, r, u)]
      BY <2>1, ReadOn
    <3> QED
      BY <3>1, <3>2, Zenon
  <2>5. ReadByte[b][kept(u)] =
            [open |-> TRUE, body |-> Append(r.body \o u, b),
             packets |-> r.packets]
    BY <2>3, PlainIsRead
  <2>6. Append(r.body \o u, b) = r.body \o Append(u, b)
    <3>1. Associate(r.body, u, b)
      BY <1>1, Associates
    <3> QED
      BY <3>1, Zenon DEF Associate
  <2>7. Folded(ReadByte, r, Append(u, b)) = kept(Append(u, b))
    BY <2>4, <2>5, <2>6
  <2>8. Append(u, b) \in Seq(Plain)
    OBVIOUS
  <2> QED
    BY <2>7, <2>8
<1>4. Seq(Plain) \subseteq Good
  <2> HIDE DEF Good
  <2> QED
    BY <1>2, <1>3, ByAppending
<1> QED
  BY <1>4

(* The reading r with no packets found yet.                                *)
Bare(r) == [open |-> r.open, body |-> r.body, packets |-> <<>>]

(* A reading whose packets were taken away.                                *)
LEMMA BareType ==
    ASSUME NEW r \in Reading
    PROVE  /\ Bare(r) \in Reading
           /\ Bare(r).open = r.open /\ Bare(r).body = r.body
           /\ Bare(r).packets = <<>>
<1>1. <<>> \in Seq(Seq(Byte))
  OBVIOUS
<1> QED
  BY <1>1, ReadingFields, ReadingIs DEF Bare

(* What has been found before does not change what is found next.          *)
LEMMA FindsMore ==
    ASSUME NEW r \in Reading, NEW w \in Seq(Byte)
    PROVE  LET more == Folded(ReadByte, Bare(r), w)
           IN  Folded(ReadByte, r, w) =
                   [open |-> more.open, body |-> more.body,
                    packets |-> r.packets \o more.packets]
<1> DEFINE more(u) == Folded(ReadByte, Bare(r), u)
           plus(g) == [open |-> g.open, body |-> g.body,
                       packets |-> r.packets \o g.packets]
           Good == {u \in Seq(Byte) : Folded(ReadByte, r, u) = plus(more(u))}
<1>1. Bare(r) \in Reading
  BY BareType
<1>2. r.packets \in Seq(Seq(Byte))
  BY ReadingFields
<1>3. <<>> \in Good
  <2>1. more(<<>>) = Bare(r)
    BY <1>1, ReadOn
  <2>2. r.packets \o <<>> = r.packets /\ <<>> \in Seq(Byte)
    BY <1>2
  <2>3. plus(Bare(r)) = r
    <3>1. r = [open |-> r.open, body |-> r.body, packets |-> r.packets]
      BY ReadingFields
    <3> QED
      BY <2>2, <3>1, BareType
  <2>4. Folded(ReadByte, r, <<>>) = r
    BY ReadOn
  <2> HIDE DEF more, plus
  <2> QED
    BY <2>1, <2>2, <2>3, <2>4
<1>4. ASSUME NEW u \in Seq(Byte), NEW b \in Byte, u \in Good
      PROVE  Append(u, b) \in Good
  <2> DEFINE g == more(u)
  <2>1. g \in Reading
    BY <1>1, ReadOn
  <2>2. more(Append(u, b)) = ReadByte[b][g]
    BY <1>1, ReadOn
  <2>3. Folded(ReadByte, r, u) = plus(g)
    BY <1>4
  <2>4. Folded(ReadByte, r, Append(u, b)) = ReadByte[b][Folded(ReadByte, r, u)]
    BY ReadOn
  <2> HIDE DEF g, more
  <2>5. /\ g.open \in BOOLEAN /\ g.body \in Seq(Plain) /\ g.body \in Seq(Byte)
        /\ g.packets \in Seq(Seq(Byte))
    BY <2>1, ReadingFields
  <2>6. r.packets \o g.packets \in Seq(Seq(Byte))
    BY <1>2, <2>5
  <2>7. plus(g) \in Reading
    BY <2>5, <2>6, ReadingIs
  <2>8. ReadByte[b][plus(g)] = plus(ReadByte[b][g])
    <3>1. CASE b = FLAG
      <4> DEFINE p == Unescape(g.body)
      <4>1. p \in Seq(Byte)
        BY <2>5, UnescapeType
      <4> HIDE DEF p
      <4>2. Append(r.packets \o g.packets, p) = r.packets \o Append(g.packets, p)
        <5>1. Associate(r.packets, g.packets, p)
          BY <1>2, <2>5, <4>1, Associates
        <5> QED
          BY <5>1, Zenon DEF Associate
      <4> DEFINE found == g.open /\ Packet(p)
      <4>3. ReadByte[b][g] =
                [open    |-> TRUE, body |-> <<>>,
                 packets |-> IF found THEN Append(g.packets, p) ELSE g.packets]
        BY <2>1, <3>1, FlagIsRead DEF p
      <4>4. ReadByte[b][plus(g)] =
                [open    |-> TRUE, body |-> <<>>,
                 packets |-> IF found THEN Append(r.packets \o g.packets, p)
                             ELSE r.packets \o g.packets]
        <5>1. /\ plus(g).open = g.open /\ plus(g).body = g.body
              /\ plus(g).packets = r.packets \o g.packets
          OBVIOUS
        <5> HIDE DEF plus
        <5> QED
          BY <2>7, <3>1, <5>1, FlagIsRead DEF p
      <4> HIDE DEF found
      <4> DEFINE ps == IF found THEN Append(g.packets, p) ELSE g.packets
      <4>5. r.packets \o ps = IF found THEN Append(r.packets \o g.packets, p)
                              ELSE r.packets \o g.packets
        BY <4>2, Zenon
      <4> HIDE DEF ps
      <4>6. plus(ReadByte[b][g]) =
                [open |-> TRUE, body |-> <<>>, packets |-> r.packets \o ps]
        BY <4>3 DEF ps
      <4> QED
        BY <4>4, <4>5, <4>6
    <3>2. CASE b # FLAG
      <4>1. b \in Plain
        BY <3>2 DEF Plain
      <4>2. ReadByte[b][g] =
                [open    |-> g.open,
                 body    |-> IF g.open THEN Append(g.body, b) ELSE g.body,
                 packets |-> g.packets]
        BY <2>1, <4>1, PlainIsRead
      <4>3. ReadByte[b][plus(g)] =
                [open    |-> g.open,
                 body    |-> IF g.open THEN Append(g.body, b) ELSE g.body,
                 packets |-> r.packets \o g.packets]
        <5>1. /\ plus(g).open = g.open /\ plus(g).body = g.body
              /\ plus(g).packets = r.packets \o g.packets
          OBVIOUS
        <5> HIDE DEF plus
        <5>2. ReadByte[b][plus(g)] =
                  [open    |-> plus(g).open,
                   body    |-> IF plus(g).open THEN Append(plus(g).body, b)
                                               ELSE plus(g).body,
                   packets |-> plus(g).packets]
          BY <2>7, <4>1, PlainIsRead
        <5> QED
          BY <5>1, <5>2
      <4> DEFINE grown == IF g.open THEN Append(g.body, b) ELSE g.body
      <4> HIDE DEF grown
      <4>4. ReadByte[b][g] =
                [open |-> g.open, body |-> grown, packets |-> g.packets]
        BY <4>2 DEF grown
      <4>5. ReadByte[b][plus(g)] =
                [open |-> g.open, body |-> grown,
                 packets |-> r.packets \o g.packets]
        BY <4>3 DEF grown
      <4>6. plus(ReadByte[b][g]) =
                [open |-> g.open, body |-> grown,
                 packets |-> r.packets \o g.packets]
        BY <4>4
      <4> QED
        BY <4>5, <4>6
    <3> QED
      BY <3>1, <3>2
  <2>9. Append(u, b) \in Seq(Byte)
    OBVIOUS
  <2> HIDE DEF plus
  <2> QED
    BY <2>2, <2>3, <2>4, <2>8, <2>9
<1>5. Seq(Byte) \subseteq Good
  <2> HIDE DEF Good
  <2> QED
    BY <1>3, <1>4, ByAppending
<1> QED
  BY <1>5

(* Before the first flag nothing is kept.                                  *)
LEMMA ClosedIsEmpty ==
    ASSUME NEW w \in Seq(Byte)
    PROVE  Read(w) \in Reading /\ (~Read(w).open => Read(w).body = <<>>)
<1> DEFINE Good == {u \in Seq(Byte) : ~Read(u).open => Read(u).body = <<>>}
<1>1. \A u \in Seq(Byte) : Read(u) \in Reading
  BY NothingReadType, ReadOn DEF Read
<1>2. <<>> \in Good
  <2>1. Read(<<>>) = NothingRead
    BY NothingReadType, ReadOn DEF Read
  <2>2. <<>> \in Seq(Byte) /\ NothingRead.body = <<>>
    BY DEF NothingRead
  <2> QED
    BY <2>1, <2>2
<1>3. ASSUME NEW u \in Seq(Byte), NEW b \in Byte, u \in Good
      PROVE  Append(u, b) \in Good
  <2>1. Read(Append(u, b)) = ReadByte[b][Read(u)]
    BY NothingReadType, ReadOn DEF Read
  <2>2. Read(u) \in Reading /\ (~Read(u).open => Read(u).body = <<>>)
    BY <1>1, <1>3
  <2> DEFINE r == Read(u)
  <2> HIDE DEF r
  <2>3. r \in Reading /\ (~r.open => r.body = <<>>)
    BY <2>2 DEF r
  <2>4. ~ReadByte[b][r].open => ReadByte[b][r].body = <<>>
    <3>1. CASE b = FLAG
      <4> DEFINE ps == IF r.open /\ Packet(Unescape(r.body))
                       THEN Append(r.packets, Unescape(r.body))
                       ELSE r.packets
      <4>1. ReadByte[b][r] = [open |-> TRUE, body |-> <<>>, packets |-> ps]
        BY <2>3, <3>1, FlagIsRead
      <4> HIDE DEF ps
      <4> QED
        BY <4>1
    <3>2. CASE b # FLAG
      <4>1. b \in Plain
        BY <3>2 DEF Plain
      <4>2. ReadByte[b][r] =
                [open    |-> r.open,
                 body    |-> IF r.open THEN Append(r.body, b) ELSE r.body,
                 packets |-> r.packets]
        BY <2>3, <4>1, PlainIsRead, Zenon
      <4>3. /\ ReadByte[b][r].open = r.open
            /\ ~r.open => ReadByte[b][r].body = r.body
        BY <4>2
      <4> QED
        BY <2>3, <4>3, Zenon
    <3> QED
      BY <3>1, <3>2
  <2>5. Append(u, b) \in Seq(Byte)
    OBVIOUS
  <2> QED
    BY <2>1, <2>4, <2>5 DEF r
<1>4. Seq(Byte) \subseteq Good
  <2> HIDE DEF Good
  <2> QED
    BY <1>2, <1>3, ByAppending
<1> QED
  BY <1>1, <1>4

(* What is left to read is bytes.                                          *)
LEMMA RestType ==
    ASSUME NEW w \in Seq(Byte)
    PROVE  Rest(w) \in Seq(Byte)
<1>1. Read(w).body \in Seq(Byte)
  BY ClosedIsEmpty, ReadingFields
<1>2. <<FLAG>> \in Seq(Byte) /\ <<>> \in Seq(Byte)
  BY MaskedSpecials
<1>3. <<FLAG>> \o Read(w).body \in Seq(Byte)
  BY <1>1, <1>2
<1> QED
  BY <1>2, <1>3 DEF Rest

(* The first flag of a frame finds nothing: there is no packet of no byte. *)
LEMMA FlagOpens ==
    ASSUME NEW r \in Reading, r.body = <<>>
    PROVE  Folded(ReadByte, r, <<FLAG>>) =
               [open |-> TRUE, body |-> <<>>, packets |-> r.packets]
<1>1. <<>> \in Seq(Byte) /\ Len(<<>>) = 0
  OBVIOUS
<1>2. Escape(<<>>) = <<>>
  BY EscapeStarts
<1>3. Unescape(<<>>) = <<>>
  BY <1>1, <1>2, UnescapeUndoesEscape
<1>4. ~Packet(Unescape(r.body))
  BY <1>1, <1>3, HeaderAssumption DEF Packet
<1>5. Folded(ReadByte, r, <<FLAG>>) = ReadByte[FLAG][r]
  BY MaskedSpecials, ReadOn
<1> QED
  BY <1>4, <1>5, FlagIsRead

(* What is kept in the buffer is read again as it was.                     *)
LEMMA RestReads ==
    ASSUME NEW w \in Seq(Byte)
    PROVE  Read(Rest(w)) = Bare(Read(w))
<1> DEFINE r == Read(w)
<1>1. /\ r \in Reading /\ r.body \in Seq(Plain) /\ r.body \in Seq(Byte)
      /\ r.open \in BOOLEAN
      /\ ~r.open => r.body = <<>>
  BY ClosedIsEmpty, ReadingFields
<1> HIDE DEF r
<1>2. CASE ~r.open
  <2>1. Rest(w) = <<>>
    BY <1>2 DEF Rest, r
  <2>2. Read(<<>>) = NothingRead
    BY NothingReadType, ReadOn DEF Read
  <2>3. Bare(r) = NothingRead
    BY <1>1, <1>2 DEF Bare, NothingRead
  <2> QED
    BY <2>1, <2>2, <2>3 DEF r
<1>3. CASE r.open
  <2> DEFINE opened == [open |-> TRUE, body |-> <<>>, packets |-> <<>>]
  <2>1. Rest(w) = <<FLAG>> \o r.body
    BY <1>3 DEF Rest, r
  <2>2. NothingRead.body = <<>> /\ NothingRead.packets = <<>>
    BY DEF NothingRead
  <2>3. Folded(ReadByte, NothingRead, <<FLAG>>) = opened
    BY <2>2, NothingReadType, FlagOpens
  <2>4. <<FLAG>> \in Seq(Byte)
    BY MaskedSpecials
  <2>5. opened \in Reading
    BY <2>3, <2>4, NothingReadType, ReadOn
  <2>6. Read(Rest(w)) = Folded(ReadByte, opened, r.body)
    <3> HIDE DEF opened
    <3> QED
      <4>1. Joined(NothingRead, <<FLAG>>, r.body)
        BY <1>1, <2>4, NothingReadType, ReadJoined
      <4> QED
        BY <2>1, <2>3, <4>1, Zenon DEF Joined, Read
  <2>7. /\ opened.open = TRUE /\ opened.body = <<>> /\ opened.packets = <<>>
    OBVIOUS
  <2> HIDE DEF opened
  <2>8. Folded(ReadByte, opened, r.body) =
            [open |-> TRUE, body |-> opened.body \o r.body,
             packets |-> opened.packets]
    BY <1>1, <2>5, <2>7, PlainsAreKept
  <2>9. <<>> \o r.body = r.body
    BY <1>1
  <2> QED
    BY <1>1, <1>3, <2>6, <2>7, <2>8, <2>9 DEF Bare, r
<1> QED
  BY <1>1, <1>2, <1>3

(* A frame is the escaped packet and two flags.                            *)
LEMMA FrameType ==
    ASSUME NEW d \in Seq(Byte)
    PROVE  /\ Frame(d) \in Seq(Byte)
           /\ Len(Frame(d)) = Len(Escape(d)) + 2
<1>1. Escape(d) \in Seq(Byte) /\ <<FLAG>> \in Seq(Byte)
  BY EscapeType, MaskedSpecials
<1> QED
  BY <1>1 DEF Frame

(* The packet d as the reader finds it.                                    *)
Told(d) == IF Packet(d) THEN <<d>> ELSE <<>>

(* A frame read whole gives its packet back, and any shorter part of it    *)
(* gives nothing.                                                          *)
LEMMA FrameReads ==
    ASSUME NEW d \in Seq(Byte), NEW r \in Reading, r.body = <<>>,
           r.packets = <<>>
    PROVE  /\ Folded(ReadByte, r, Frame(d)) =
                  [open |-> TRUE, body |-> <<>>, packets |-> Told(d)]
           /\ \A n \in 0..(Len(Frame(d)) - 1) :
                  Folded(ReadByte, r, SubSeq(Frame(d), 1, n)).packets = <<>>
<1> DEFINE esc == Escape(d)
           opened == [open |-> TRUE, body |-> <<>>, packets |-> <<>>]
           in(w) == [open |-> TRUE, body |-> w, packets |-> <<>>]
<1>1. /\ esc \in Seq(Plain) /\ esc \in Seq(Byte)
      /\ <<FLAG>> \in Seq(Byte) /\ FLAG \in Byte
      /\ Len(esc) \in Nat
  BY EscapeIsPlain, EscapeType, MaskedSpecials
<1>2. Folded(ReadByte, r, <<FLAG>>) = opened
  BY FlagOpens
<1>3. opened \in Reading
  BY <1>1, <1>2, ReadOn
<1>4. ASSUME NEW w \in Seq(Plain)
      PROVE  /\ Folded(ReadByte, r, <<FLAG>> \o w) = in(w)
             /\ in(w) \in Reading
  <2>1. w \in Seq(Byte)
    BY PlainBytes
  <2>2. /\ opened.open = TRUE /\ opened.body = <<>> /\ opened.packets = <<>>
    OBVIOUS
  <2> HIDE DEF opened
  <2>3. Folded(ReadByte, r, <<FLAG>> \o w) = Folded(ReadByte, opened, w)
    <3>1. Joined(r, <<FLAG>>, w)
      BY <1>1, <2>1, ReadJoined
    <3> QED
      BY <1>2, <3>1, Zenon DEF Joined
  <2>4. Folded(ReadByte, opened, w) =
            [open |-> TRUE, body |-> opened.body \o w,
             packets |-> opened.packets]
    BY <1>3, <2>2, PlainsAreKept
  <2>5. <<>> \o w = w /\ <<>> \in Seq(Seq(Byte))
    OBVIOUS
  <2> QED
    BY <2>2, <2>3, <2>4, <2>5, ReadingIs
<1>5. Folded(ReadByte, r, Frame(d)) =
          [open |-> TRUE, body |-> <<>>, packets |-> Told(d)]
  <2>1. Folded(ReadByte, r, <<FLAG>> \o esc) = in(esc) /\ in(esc) \in Reading
    BY <1>1, <1>4
  <2>2. Unescape(esc) = d
    BY UnescapeUndoesEscape
  <2> HIDE DEF esc
  <2>3. <<FLAG>> \o esc \in Seq(Byte)
    BY <1>1
  <2>4. Folded(ReadByte, r, (<<FLAG>> \o esc) \o <<FLAG>>) =
            Folded(ReadByte, in(esc), <<FLAG>>)
    <3>1. Joined(r, <<FLAG>> \o esc, <<FLAG>>)
      BY <1>1, <2>3, ReadJoined
    <3> QED
      BY <2>1, <3>1, Zenon DEF Joined
  <2>5. Folded(ReadByte, in(esc), <<FLAG>>) = ReadByte[FLAG][in(esc)]
    BY <1>1, <2>1, ReadOn
  <2>6. ReadByte[FLAG][in(esc)] =
            [open |-> TRUE, body |-> <<>>,
             packets |-> IF Packet(d) THEN Append(<<>>, d) ELSE <<>>]
    BY <2>1, <2>2, FlagIsRead
  <2>7. Append(<<>>, d) = <<d>>
    OBVIOUS
  <2>8. Frame(d) = (<<FLAG>> \o esc) \o <<FLAG>>
    BY DEF Frame, esc
  <2> HIDE DEF in
  <2> QED
    BY <2>4, <2>5, <2>6, <2>7, <2>8 DEF Told
<1>6. ASSUME NEW n \in 0..(Len(Frame(d)) - 1)
      PROVE  Folded(ReadByte, r, SubSeq(Frame(d), 1, n)).packets = <<>>
  <2> HIDE DEF esc
  <2>1. Len(Frame(d)) = Len(esc) + 2 /\ Frame(d) = <<FLAG>> \o esc \o <<FLAG>>
    BY FrameType DEF esc, Frame
  <2>2. CASE n = 0
    <3>1. SubSeq(Frame(d), 1, 0) = <<>>
      BY FrameType
    <3> QED
      BY <2>2, <3>1, ReadOn
  <2>3. CASE n # 0
    <3>1. n - 1 \in 0..Len(esc) /\ n \in 1..(Len(esc) + 1)
      BY <1>1, <2>1, <2>3
    <3>2. SubSeq(esc, 1, n - 1) \in Seq(Plain)
      BY <1>1, <3>1
    <3>3. SubSeq(<<FLAG>> \o esc \o <<FLAG>>, 1, n) =
              <<FLAG>> \o SubSeq(esc, 1, n - 1)
      BY <1>1, <3>1
    <3>4. in(SubSeq(esc, 1, n - 1)).packets = <<>>
      OBVIOUS
    <3> QED
      BY <1>4, <2>1, <3>2, <3>3, <3>4
  <2> QED
    BY <2>2, <2>3
<1> QED
  BY <1>5, <1>6

(* Frames cut out of a stream are exact: after any bytes that leave no     *)
(* frame half read, a frame adds its packet, if it is long enough, to the  *)
(* packets found, and leaves no frame half read (reader_loop(), HDLC.h).   *)
THEOREM FramingIsExactForAll ==
    ASSUME NEW w \in Seq(Byte), Read(w).body = <<>>, NEW d \in Seq(Byte)
    PROVE  /\ Packets(w \o Frame(d)) =
                  Packets(w) \o (IF Packet(d) THEN <<d>> ELSE <<>>)
           /\ Read(w \o Frame(d)).body = <<>>
<1> DEFINE r == Read(w)
           next == [open |-> TRUE, body |-> <<>>, packets |-> Told(d)]
<1>1. r \in Reading /\ r.body = <<>>
  BY ClosedIsEmpty
<1>2. Frame(d) \in Seq(Byte)
  BY FrameType
<1>3. Read(w \o Frame(d)) = Folded(ReadByte, r, Frame(d))
  BY <1>2, NothingReadType, ReadJoined DEF Joined, Read
<1> HIDE DEF r
<1>4. Folded(ReadByte, Bare(r), Frame(d)) = next
  BY <1>1, BareType, FrameReads
<1>5. Folded(ReadByte, r, Frame(d)) =
          [open |-> next.open, body |-> next.body,
           packets |-> r.packets \o next.packets]
  <2> HIDE DEF next
  <2> QED
    BY <1>1, <1>2, <1>4, FindsMore
<1>6. Folded(ReadByte, r, Frame(d)).packets = r.packets \o Told(d)
  BY <1>5
<1>7. Folded(ReadByte, r, Frame(d)).body = <<>>
  BY <1>5
<1> QED
  BY <1>3, <1>6, <1>7 DEF Packets, Told, r

(* What is left of a frame of d, and where the reader is when it has read  *)
(* the rest: only the last byte completes the packet.                      *)
Pending(d, rest, r) ==
    /\ rest = <<>> => r.body = <<>>
    /\ rest # <<>> =>
           /\ Folded(ReadByte, Bare(r), rest).body = <<>>
           /\ Folded(ReadByte, Bare(r), rest).packets = Told(d)
           /\ \A n \in 0..(Len(rest) - 1) :
                  Folded(ReadByte, Bare(r), SubSeq(rest, 1, n)).packets = <<>>

(* A whole frame is a frame of which everything is still to be read.       *)
LEMMA PendingStarts ==
    ASSUME NEW d \in Seq(Byte), NEW r \in Reading, r.body = <<>>
    PROVE  Pending(d, Frame(d), r)
<1> DEFINE whole == [open |-> TRUE, body |-> <<>>, packets |-> Told(d)]
<1>1. /\ Bare(r) \in Reading /\ Bare(r).body = <<>> /\ Bare(r).packets = <<>>
  BY BareType
<1>2. /\ Folded(ReadByte, Bare(r), Frame(d)) = whole
      /\ \A n \in 0..(Len(Frame(d)) - 1) :
             Folded(ReadByte, Bare(r), SubSeq(Frame(d), 1, n)).packets = <<>>
  BY <1>1, FrameReads
<1>3. whole.body = <<>> /\ whole.packets = Told(d)
  OBVIOUS
<1>4. Frame(d) # <<>>
  <2>1. Len(Frame(d)) = Len(Escape(d)) + 2 /\ Len(Escape(d)) \in Nat
    BY FrameType, EscapeType
  <2>2. Len(<<>>) = 0
    OBVIOUS
  <2> QED
    BY <2>1, <2>2
<1> HIDE DEF whole
<1> QED
  BY <1>2, <1>3, <1>4 DEF Pending

(* Sending n bytes more.                                                   *)
LEMMA PendingSteps ==
    ASSUME NEW d, NEW r \in Reading, NEW rest \in Seq(Byte),
           Pending(d, rest, r), NEW n \in 1..Len(rest)
    PROVE  LET next == Folded(ReadByte, r, SubSeq(rest, 1, n))
               after == SubSeq(rest, n + 1, Len(rest))
           IN  /\ next \in Reading
               /\ Pending(d, after, next)
               /\ n = Len(rest) => /\ after = <<>>
                                   /\ next.packets = r.packets \o Told(d)
               /\ n # Len(rest) => /\ after # <<>>
                                   /\ next.packets = r.packets
<1> DEFINE chunk == SubSeq(rest, 1, n)
           after == SubSeq(rest, n + 1, Len(rest))
           next == Folded(ReadByte, r, chunk)
           bare == Folded(ReadByte, Bare(r), chunk)
<1>1. /\ chunk \in Seq(Byte) /\ after \in Seq(Byte) /\ rest = chunk \o after
      /\ Len(rest) \in Nat /\ Len(after) = Len(rest) - n /\ rest # <<>>
      /\ Len(chunk) = n
  OBVIOUS
<1>2. Bare(r) \in Reading /\ r.packets \in Seq(Seq(Byte))
  BY BareType, ReadingFields
<1>3. next \in Reading /\ bare \in Reading
  BY <1>1, <1>2, ReadOn
<1>4. next = [open |-> bare.open, body |-> bare.body,
              packets |-> r.packets \o bare.packets]
  BY <1>1, FindsMore
<1>5. /\ Folded(ReadByte, Bare(r), rest).body = <<>>
      /\ Folded(ReadByte, Bare(r), rest).packets = Told(d)
      /\ \A m \in 0..(Len(rest) - 1) :
             Folded(ReadByte, Bare(r), SubSeq(rest, 1, m)).packets = <<>>
  BY <1>1 DEF Pending
<1>6. CASE n = Len(rest)
  <2>1. after = <<>> /\ chunk = rest
    BY <1>1, <1>6
  <2>2. bare.body = <<>> /\ bare.packets = Told(d)
    BY <1>5, <2>1
  <2> HIDE DEF bare
  <2>3. next.body = <<>> /\ next.packets = r.packets \o Told(d)
    BY <1>4, <2>2
  <2> HIDE DEF next, after
  <2>4. Pending(d, after, next)
    BY <2>1, <2>3 DEF Pending
  <2> QED
    BY <1>3, <1>6, <2>1, <2>3, <2>4 DEF next, after
<1>7. CASE n # Len(rest)
  <2>1. n \in 0..(Len(rest) - 1) /\ Len(after) # 0
    <3> HIDE DEF after
    <3> QED
      BY <1>1, <1>7
  <2>2. after # <<>>
    BY <2>1
  <2>3. bare.packets = <<>>
    BY <1>5, <2>1
  <2>4. Bare(next) = bare
    <3> HIDE DEF bare
    <3>1. bare = [open |-> bare.open, body |-> bare.body,
                  packets |-> bare.packets]
      BY <1>3, ReadingFields
    <3> QED
      BY <1>4, <2>3, <3>1 DEF Bare
  <2>5. next.packets = r.packets
    <3>1. next.packets = r.packets \o <<>>
      <4> HIDE DEF bare
      <4> QED
        BY <1>4, <2>3
    <3>2. r.packets \o <<>> = r.packets
      BY <1>2
    <3> QED
      BY <3>1, <3>2
  <2>6. Folded(ReadByte, bare, after) = Folded(ReadByte, Bare(r), rest)
    <3>1. Joined(Bare(r), chunk, after)
      BY <1>1, <1>2, ReadJoined
    <3> QED
      BY <1>1, <3>1, Zenon DEF Joined
  <2>7. ASSUME NEW m \in 0..(Len(after) - 1)
        PROVE  Folded(ReadByte, bare, SubSeq(after, 1, m)).packets = <<>>
    <3>1. Joined(Bare(r), chunk, SubSeq(after, 1, m))
      <4>1. SubSeq(after, 1, m) \in Seq(Byte)
        BY <1>1
      <4> QED
        BY <1>1, <1>2, <4>1, ReadJoined
    <3>2. chunk \o SubSeq(after, 1, m) = SubSeq(rest, 1, n + m)
      BY <1>1
    <3>3. n + m \in 0..(Len(rest) - 1)
      BY <1>1
    <3>4. Folded(ReadByte, bare, SubSeq(after, 1, m)) =
              Folded(ReadByte, Bare(r), SubSeq(rest, 1, n + m))
      BY <3>1, <3>2, Zenon DEF Joined
    <3> QED
      BY <1>5, <3>3, <3>4, Zenon
  <2> HIDE DEF bare, next, after
  <2>8. Pending(d, after, next)
    BY <1>5, <2>2, <2>4, <2>6, <2>7, Zenon DEF Pending
  <2> QED
    BY <1>3, <1>7, <2>2, <2>5, <2>8 DEF next, after
<1> QED
  BY <1>6, <1>7

(* A recv() of n bytes: what it finds comes before what is found later.    *)
LEMMA ReceivedInOrder ==
    ASSUME NEW b \in Seq(Byte), NEW w \in Seq(Byte), NEW n \in 1..Len(w)
    PROVE  LET bytes == b \o SubSeq(w, 1, n)
               old == Read(b \o w)
               new == Read(Rest(bytes) \o SubSeq(w, n + 1, Len(w)))
           IN  /\ bytes \in Seq(Byte)
               /\ Packets(bytes) \in Seq(Seq(Byte))
               /\ new \in Reading
               /\ new.body = old.body /\ Bare(new) = Bare(old)
               /\ old.packets = Packets(bytes) \o new.packets
               /\ Packets(Rest(bytes)) = <<>>
<1> DEFINE chunk == SubSeq(w, 1, n)
           after == SubSeq(w, n + 1, Len(w))
           bytes == b \o chunk
           r == Read(bytes)
           old == Read(b \o w)
           new == Read(Rest(bytes) \o after)
<1>1. chunk \in Seq(Byte) /\ after \in Seq(Byte) /\ w = chunk \o after
  OBVIOUS
<1> HIDE DEF chunk, after
<1>2. bytes \in Seq(Byte) /\ b \o w = bytes \o after
  <2>1. bytes \in Seq(Byte)
    BY <1>1
  <2>2. b \o (chunk \o after) = (b \o chunk) \o after
    BY <1>1
  <2> QED
    BY <1>1, <2>1, <2>2, Zenon
<1> HIDE DEF bytes
<1>3. r \in Reading /\ r.packets \in Seq(Seq(Byte))
  BY <1>2, ClosedIsEmpty, ReadingFields
<1>4. old = Folded(ReadByte, r, after)
  <2>1. Joined(NothingRead, bytes, after)
    BY <1>1, <1>2, NothingReadType, ReadJoined
  <2> QED
    BY <1>2, <2>1, Zenon DEF Joined, Read
<1>5. Rest(bytes) \in Seq(Byte) /\ Read(Rest(bytes)) = Bare(r)
  BY <1>2, RestType, RestReads
<1>6. new = Folded(ReadByte, Bare(r), after)
  <2>1. Joined(NothingRead, Rest(bytes), after)
    BY <1>1, <1>5, NothingReadType, ReadJoined
  <2> QED
    BY <1>5, <2>1, Zenon DEF Joined, Read
<1> HIDE DEF r, old, new
<1>7. Bare(r) \in Reading /\ Bare(r).packets = <<>>
  BY <1>3, BareType
<1>8. new \in Reading
  BY <1>1, <1>6, <1>7, ReadOn
<1>9. old = [open |-> new.open, body |-> new.body,
             packets |-> r.packets \o new.packets]
  BY <1>1, <1>3, <1>4, <1>6, FindsMore
<1>10. /\ old.body = new.body /\ old.open = new.open
       /\ old.packets = r.packets \o new.packets
  BY <1>9
<1>11. Bare(new) = Bare(old)
  BY <1>10 DEF Bare
<1>12. Packets(bytes) = r.packets
  BY DEF Packets, r
<1>13. Packets(Rest(bytes)) = <<>>
  BY <1>5, <1>7 DEF Packets
<1> QED
  BY <1>2, <1>3, <1>8, <1>10, <1>11, <1>12, <1>13
     DEF old, new, bytes, after, chunk

-----------------------------------------------------------------------------
(* Sequences found in others, in order.                                    *)

(* The elements of a are elements of b, in the same order.                 *)
Embeds(a, b) ==
    \E at \in [DOMAIN a -> DOMAIN b] :
        /\ \A i \in DOMAIN at : a[i] = b[at[i]]
        /\ \A i, j \in DOMAIN at : i < j => at[i] < at[j]

(* The same, of one place for each element.                                *)
Places(at, a, b) ==
    /\ at \in [DOMAIN a -> DOMAIN b]
    /\ \A i \in DOMAIN a : a[i] = b[at[i]]
    /\ \A i, j \in DOMAIN a : i < j => at[i] < at[j]

(* To be embedded is to have places.                                       *)
LEMMA EmbedsByPlaces ==
    ASSUME NEW a, NEW b
    PROVE  Embeds(a, b) <=> \E at : Places(at, a, b)
  BY DEF Embeds, Places

(* Embedding is transitive.                                                *)
LEMMA EmbedsThrough ==
    ASSUME NEW a, NEW b, NEW c, Embeds(a, b), Embeds(b, c)
    PROVE  Embeds(a, c)
<1>1. PICK f : Places(f, a, b)
  BY EmbedsByPlaces
<1>2. PICK g : Places(g, b, c)
  BY EmbedsByPlaces
<1> DEFINE h == [i \in DOMAIN a |-> g[f[i]]]
<1>3. h \in [DOMAIN a -> DOMAIN c]
  BY <1>1, <1>2 DEF Places
<1>4. \A i \in DOMAIN a : a[i] = c[h[i]]
  BY <1>1, <1>2 DEF Places
<1>5. \A i, j \in DOMAIN a : i < j => h[i] < h[j]
  BY <1>1, <1>2 DEF Places
<1> HIDE DEF h
<1>6. Places(h, a, c)
  BY <1>3, <1>4, <1>5 DEF Places
<1> QED
  BY <1>6, EmbedsByPlaces

(* The elements of two sequences in a row.                                 *)
LEMMA JoinedElements ==
    ASSUME NEW S, NEW a \in Seq(S), NEW b \in Seq(S)
    PROVE  /\ a \o b \in Seq(S) /\ Len(a \o b) = Len(a) + Len(b)
           /\ \A i \in 1..Len(a) : (a \o b)[i] = a[i]
           /\ \A i \in 1..Len(b) : (a \o b)[Len(a) + i] = b[i]
  OBVIOUS

(* Leaving out all but the first k of some elements.                       *)
LEMMA EmbedsWithout ==
    ASSUME NEW S, NEW a \in Seq(S), NEW f \in Seq(S), NEW c \in Seq(S),
           NEW k \in 0..Len(f)
    PROVE  Embeds((a \o SubSeq(f, 1, k)) \o c, a \o (f \o c))
<1> DEFINE short == (a \o SubSeq(f, 1, k)) \o c
           long == a \o (f \o c)
           at == [i \in 1..(Len(a) + k + Len(c)) |->
                      IF i <= Len(a) + k THEN i ELSE i + (Len(f) - k)]
<1>1. Len(a) \in Nat /\ Len(f) \in Nat /\ Len(c) \in Nat /\ k \in Nat
      /\ k <= Len(f)
  OBVIOUS
<1>2. /\ DOMAIN short = 1..(Len(a) + k + Len(c))
      /\ DOMAIN long = 1..(Len(a) + Len(f) + Len(c))
  OBVIOUS
<1> DEFINE m == SubSeq(f, 1, k)
           am == a \o m
           fc == f \o c
<1>3. /\ m \in Seq(S) /\ Len(m) = k
      /\ \A i \in 1..k : m[i] = f[i]
  OBVIOUS
<1>4. /\ fc \in Seq(S) /\ Len(fc) = Len(f) + Len(c)
      /\ \A i \in 1..Len(f) : fc[i] = f[i]
      /\ \A i \in 1..Len(c) : fc[Len(f) + i] = c[i]
  BY JoinedElements
<1> HIDE DEF m, fc
<1>5. /\ am \in Seq(S) /\ Len(am) = Len(a) + k
      /\ \A i \in 1..Len(a) : am[i] = a[i]
      /\ \A i \in 1..k : am[Len(a) + i] = f[i]
  <2>1. /\ am \in Seq(S) /\ Len(am) = Len(a) + Len(m)
        /\ \A i \in 1..Len(a) : am[i] = a[i]
        /\ \A i \in 1..Len(m) : am[Len(a) + i] = m[i]
    <3>1. m \in Seq(S)
      BY <1>3
    <3> QED
      BY <3>1, JoinedElements
  <2> HIDE DEF am
  <2> QED
    BY <1>3, <2>1
<1> HIDE DEF am
<1>6. /\ short = am \o c /\ long = a \o fc
  BY DEF am, fc, m
<1>7. /\ \A i \in 1..Len(a) : short[i] = a[i]
      /\ \A i \in 1..k : short[Len(a) + i] = f[i]
      /\ \A i \in 1..Len(c) : short[Len(a) + k + i] = c[i]
  <2> HIDE DEF short
  <2>1. /\ \A i \in 1..Len(am) : short[i] = am[i]
        /\ \A i \in 1..Len(c) : short[Len(am) + i] = c[i]
    <3>1. am \in Seq(S)
      BY <1>5
    <3> QED
      BY <1>6, <3>1, JoinedElements
  <2> QED
    BY <1>1, <1>5, <2>1
<1>8. /\ \A i \in 1..Len(a) : long[i] = a[i]
      /\ \A i \in 1..Len(f) : long[Len(a) + i] = f[i]
      /\ \A i \in 1..Len(c) : long[Len(a) + Len(f) + i] = c[i]
  <2> HIDE DEF long
  <2>1. /\ \A i \in 1..Len(a) : long[i] = a[i]
        /\ \A i \in 1..Len(fc) : long[Len(a) + i] = fc[i]
    <3>1. fc \in Seq(S)
      BY <1>4
    <3> QED
      BY <1>6, <3>1, JoinedElements
  <2>2. ASSUME NEW i \in 1..Len(f)
        PROVE  long[Len(a) + i] = f[i]
    BY <1>1, <1>4, <2>1
  <2>3. ASSUME NEW i \in 1..Len(c)
        PROVE  long[Len(a) + Len(f) + i] = c[i]
    <3>1. Len(f) + i \in 1..Len(fc) /\ Len(a) + Len(f) + i = Len(a) + (Len(f) + i)
      BY <1>1, <1>4
    <3> QED
      BY <1>4, <2>1, <3>1
  <2> QED
    BY <2>1, <2>2, <2>3
<1> HIDE DEF short, long
<1>9. ASSUME NEW i \in DOMAIN short
      PROVE  at[i] \in DOMAIN long /\ short[i] = long[at[i]]
  <2>1. CASE i <= Len(a)
    BY <1>1, <1>2, <1>7, <1>8, <2>1
  <2>2. CASE i > Len(a) /\ i <= Len(a) + k
    <3> DEFINE j == i - Len(a)
    <3>1. j \in 1..k /\ j \in 1..Len(f) /\ i = Len(a) + j /\ at[i] = i
      BY <1>1, <1>2, <2>2
    <3>2. at[i] \in DOMAIN long
      BY <1>1, <1>2, <3>1
    <3> HIDE DEF at, j
    <3> QED
      BY <1>7, <1>8, <3>1, <3>2
  <2>3. CASE i > Len(a) + k
    <3> DEFINE j == i - (Len(a) + k)
    <3>1. i \in 1..(Len(a) + k + Len(c)) /\ at[i] = i + (Len(f) - k)
      BY <1>1, <1>2, <2>3
    <3> HIDE DEF at
    <3>2. /\ j \in 1..Len(c) /\ i = Len(a) + k + j
          /\ at[i] = Len(a) + Len(f) + j
      BY <1>1, <2>3, <3>1
    <3>3. at[i] \in DOMAIN long
      BY <1>1, <1>2, <3>2
    <3> HIDE DEF at, j
    <3> QED
      BY <1>7, <1>8, <3>2, <3>3
  <2> QED
    BY <1>1, <1>2, <2>1, <2>2, <2>3
<1>10. ASSUME NEW i \in DOMAIN short, NEW j \in DOMAIN short, i < j
      PROVE  at[i] < at[j]
  BY <1>1, <1>2, <1>10
<1>11. at \in [DOMAIN short -> DOMAIN long]
  BY <1>2, <1>9
<1> HIDE DEF at, short, long
<1>12. Places(at, short, long)
  BY <1>9, <1>10, <1>11 DEF Places
<1> QED
  BY <1>12, EmbedsByPlaces DEF short, long

(* A sequence is embedded in every longer one that starts with it.         *)
LEMMA EmbedsPrefix ==
    ASSUME NEW S, NEW a \in Seq(S), NEW f \in Seq(S)
    PROVE  Embeds(a, a \o f)
<1> DEFINE at == [i \in DOMAIN a |-> i]
           long == a \o f
<1>1. /\ DOMAIN a = 1..Len(a) /\ DOMAIN long = 1..(Len(a) + Len(f))
      /\ Len(a) \in Nat /\ Len(f) \in Nat
      /\ \A i \in 1..Len(a) : long[i] = a[i]
  OBVIOUS
<1> HIDE DEF long
<1>2. at \in [DOMAIN a -> DOMAIN long]
  BY <1>1
<1>3. Places(at, a, long)
  BY <1>1, <1>2 DEF Places
<1> HIDE DEF at
<1> QED
  BY <1>3, EmbedsByPlaces DEF long

(* One element more at the end of both.                                    *)
LEMMA EmbedsBoth ==
    ASSUME NEW S, NEW a \in Seq(S), NEW b \in Seq(S), NEW x \in S, Embeds(a, b)
    PROVE  Embeds(a \o <<x>>, b \o <<x>>)
<1>1. PICK f : Places(f, a, b)
  BY EmbedsByPlaces
<1> DEFINE long == a \o <<x>>
           over == b \o <<x>>
           at == [i \in 1..(Len(a) + 1) |->
                      IF i <= Len(a) THEN f[i] ELSE Len(b) + 1]
<1>2. /\ Len(a) \in Nat /\ Len(b) \in Nat
      /\ DOMAIN a = 1..Len(a) /\ DOMAIN b = 1..Len(b)
      /\ DOMAIN long = 1..(Len(a) + 1) /\ DOMAIN over = 1..(Len(b) + 1)
      /\ \A i \in 1..Len(a) : long[i] = a[i]
      /\ \A i \in 1..Len(b) : over[i] = b[i]
      /\ long[Len(a) + 1] = x /\ over[Len(b) + 1] = x
  OBVIOUS
<1> HIDE DEF long, over
<1>3. /\ f \in [1..Len(a) -> 1..Len(b)]
      /\ \A i \in 1..Len(a) : a[i] = b[f[i]]
      /\ \A i, j \in 1..Len(a) : i < j => f[i] < f[j]
  BY <1>1, <1>2 DEF Places
<1>4. ASSUME NEW i \in 1..(Len(a) + 1)
      PROVE  at[i] \in 1..(Len(b) + 1) /\ long[i] = over[at[i]]
  <2>1. CASE i <= Len(a)
    BY <1>2, <1>3, <2>1
  <2>2. CASE i = Len(a) + 1
    BY <1>2, <2>2
  <2> QED
    BY <1>2, <2>1, <2>2
<1>5. ASSUME NEW i \in 1..(Len(a) + 1), NEW j \in 1..(Len(a) + 1), i < j
      PROVE  at[i] < at[j]
  <2>1. i \in 1..Len(a) /\ at[i] = f[i] /\ f[i] \in 1..Len(b)
    BY <1>2, <1>3, <1>5
  <2>2. CASE j <= Len(a)
    BY <1>2, <1>3, <1>5, <2>1, <2>2
  <2>3. CASE j = Len(a) + 1
    BY <1>2, <2>1, <2>3
  <2> QED
    BY <1>2, <2>2, <2>3
<1>6. at \in [DOMAIN long -> DOMAIN over]
  BY <1>2, <1>4
<1> HIDE DEF at
<1>7. Places(at, long, over)
  BY <1>2, <1>4, <1>5, <1>6 DEF Places
<1> QED
  BY <1>7, EmbedsByPlaces DEF long, over

-----------------------------------------------------------------------------
(* The interface at both ends.                                             *)

(* There are two ends, each the other's other.                             *)
LEMMA OtherEnd ==
    ASSUME NEW e \in End
    PROVE  /\ Other(e) \in End /\ Other(e) # e /\ Other(Other(e)) = e
           /\ \A f \in End : f = e \/ f = Other(e)
  BY DEF End, Other

(* The types, those of the sequences too.                                  *)
TcpTyped ==
    /\ TcpTypeOK
    /\ buffer \in [End -> Seq(Byte)] /\ wire \in [End -> Seq(Byte)]
    /\ packet \in [Thread -> Seq(Byte)] /\ left \in [Thread -> Seq(Byte)]
    /\ incoming \in [End -> Seq(Seq(Byte))]
    /\ handled \in [End -> Seq(Seq(Byte))]
    /\ sent \in [End -> Seq(Seq(Byte))]
    /\ given \in [End -> Nat]

(* Of the packets found the queue takes the first, as many as fit.         *)
LEMMA QueuedIs ==
    ASSUME NEW q \in Seq(Seq(Byte)), NEW ps \in Seq(Seq(Byte)),
           Len(q) <= MAX_PENDING_INBOUND
    PROVE  \E k \in 0..Len(ps) :
               /\ Queued(q, ps) = q \o SubSeq(ps, 1, k)
               /\ Queued(q, ps) \in Seq(Seq(Byte))
               /\ Len(Queued(q, ps)) = Len(q) + k
               /\ Len(Queued(q, ps)) <= MAX_PENDING_INBOUND
<1> DEFINE room == MAX_PENDING_INBOUND - Len(q)
           k == IF Len(ps) <= room THEN Len(ps) ELSE room
           part == SubSeq(ps, 1, k)
<1>1. room \in Nat /\ Len(ps) \in Nat /\ Len(q) \in Nat
  BY TcpAssumption
<1>2. k \in 0..Len(ps)
  BY <1>1
<1>3. part \in Seq(Seq(Byte)) /\ Len(part) = k
  BY <1>2
<1>4. Queued(q, ps) = q \o part
  <2>1. CASE Len(ps) <= room
    <3>1. SubSeq(ps, 1, Len(ps)) = ps
      OBVIOUS
    <3>2. k = Len(ps)
      BY <2>1
    <3>3. Queued(q, ps) = q \o ps
      BY <2>1, Zenon DEF Queued
    <3> QED
      BY <3>1, <3>2, <3>3
  <2>2. CASE ~(Len(ps) <= room)
    BY <2>2, Zenon DEF Queued
  <2> QED
    BY <2>1, <2>2
<1>5. Len(q) + k <= MAX_PENDING_INBOUND
  BY <1>1, <1>2, TcpAssumption
<1> HIDE DEF k, part
<1>6. q \o part \in Seq(Seq(Byte)) /\ Len(q \o part) = Len(q) + k
  <2>1. part \in Seq(Seq(Byte))
    BY <1>3
  <2>2. q \o part \in Seq(Seq(Byte)) /\ Len(q \o part) = Len(q) + Len(part)
    BY <2>1
  <2> QED
    BY <1>3, <2>2
<1> QED
  BY <1>2, <1>4, <1>5, <1>6 DEF part

(* The types hold at first.                                                *)
LEMMA TcpInitTyped == TcpInit => TcpTyped
<1> SUFFICES ASSUME TcpInit PROVE TcpTyped
  OBVIOUS
<1> USE DEF TcpInit
<1>1. /\ <<>> \in Seq(Byte) /\ <<>> \in Seq(Seq(Byte)) /\ Len(<<>>) = 0
  OBVIOUS
<1>2. TcpTypeOK
  <2>1. \A e \in End : Len(incoming[e]) <= MAX_PENDING_INBOUND
    BY <1>1, TcpAssumption
  <2>2. \A e \in End : given[e] <= Len(Payloads[e])
    <3>1. \A e \in End : Payloads[e] \in Seq(Seq(Byte) \ {<<>>})
      BY TcpAssumption
    <3>2. \A e \in End : Len(Payloads[e]) \in Nat
      BY <3>1
    <3> QED
      BY <3>2
  <2>3. /\ -1 \in -1..MAX_DRAIN_PER_TICK /\ 0 \in Nat
    BY TcpAssumption
  <2> QED
    BY <2>1, <2>2, <2>3 DEF TcpTypeOK
<1> QED
  BY <1>1, <1>2 DEF TcpTyped

(* Every step keeps the types.                                             *)
LEMMA TcpStepTyped == TcpTyped /\ [TcpNext]_tcpVars => TcpTyped'
<1> SUFFICES ASSUME TcpTyped, [TcpNext]_tcpVars PROVE TcpTyped'
  OBVIOUS
<1> USE DEF TcpTyped, TcpTypeOK, control, sending, receiving
<1>1. "server" \in End /\ "client" \in End
  BY DEF End
<1>2. /\ <<>> \in Seq(Byte)
      /\ \A t \in Thread : EndOf[t] \in End
      /\ MAX_DRAIN_PER_TICK \in Nat \ {0}
  BY TcpAssumption
<1>3. CASE UNCHANGED tcpVars
  BY <1>3 DEF tcpVars
<1>4. CASE StartServer
  BY <1>1, <1>4 DEF StartServer
<1>5. CASE StartClient
  BY <1>1, <1>5 DEF StartClient
<1>6. CASE Break
  BY <1>2, <1>6 DEF Break
<1>7. CASE Accept
  BY <1>1, <1>7 DEF Accept
<1>8. CASE AcceptFails
  BY <1>1, <1>8 DEF AcceptFails
<1>9. CASE AttachSocket
  BY <1>1, <1>9 DEF AttachSocket
<1>10. CASE GoOnline
  BY <1>1, <1>10 DEF GoOnline
<1>11. ASSUME NEW e \in End, ReaderLoops(e)
       PROVE  TcpTyped'
  BY <1>11 DEF ReaderLoops
<1>12. ASSUME NEW e \in End, Receive(e)
       PROVE  TcpTyped'
  <2> DEFINE w == wire[Other(e)]
  <2>1. w \in Seq(Byte) /\ buffer[e] \in Seq(Byte) /\ Other(e) \in End
    BY OtherEnd
  <2>2. PICK n \in 1..Len(w) :
            LET bytes == buffer[e] \o SubSeq(w, 1, n)
                found == Packets(bytes)
                queue == Queued(incoming[e], found)
            IN  /\ wire' = [wire EXCEPT ![Other(e)] = SubSeq(w, n + 1, Len(w))]
                /\ buffer' = [buffer EXCEPT ![e] = Rest(bytes)]
                /\ incoming' = [incoming EXCEPT ![e] = queue]
                /\ dropped' = [dropped EXCEPT ![e] =
                       @ + Len(incoming[e]) + Len(found) - Len(queue)]
    BY <1>12 DEF Receive
  <2> DEFINE bytes == buffer[e] \o SubSeq(w, 1, n)
             found == Packets(bytes)
             queue == Queued(incoming[e], found)
  <2>3. bytes \in Seq(Byte) /\ SubSeq(w, n + 1, Len(w)) \in Seq(Byte)
    <3>1. buffer[e] \in Seq(Byte) /\ w \in Seq(Byte)
      BY <2>1
    <3>2. n \in 1..Len(w)
      BY <2>2
    <3> HIDE DEF TcpTyped, TcpTypeOK, w
    <3>3. SubSeq(w, 1, n) \in Seq(Byte) /\ SubSeq(w, n + 1, Len(w)) \in Seq(Byte)
      BY <3>1, <3>2
    <3>4. buffer[e] \o SubSeq(w, 1, n) \in Seq(Byte)
      BY <3>1, <3>3
    <3> QED
      BY <3>3, <3>4
  <2>4. found \in Seq(Seq(Byte)) /\ Rest(bytes) \in Seq(Byte)
    BY <2>3, ClosedIsEmpty, ReadingFields, RestType DEF Packets
  <2>5. /\ queue \in Seq(Seq(Byte)) /\ Len(queue) <= MAX_PENDING_INBOUND
        /\ Len(queue) - Len(incoming[e]) \in 0..Len(found)
    <3> HIDE DEF found
    <3>1. incoming[e] \in Seq(Seq(Byte)) /\ Len(incoming[e]) <= MAX_PENDING_INBOUND
      OBVIOUS
    <3>2. PICK k \in 0..Len(found) :
              /\ Queued(incoming[e], found) \in Seq(Seq(Byte))
              /\ Len(Queued(incoming[e], found)) = Len(incoming[e]) + k
              /\ Len(Queued(incoming[e], found)) <= MAX_PENDING_INBOUND
      BY <2>4, <3>1, QueuedIs
    <3>3. Len(incoming[e]) \in Nat
      BY <3>1
    <3>4. Len(found) \in Nat
      BY <2>4
    <3> QED
      BY <3>2, <3>3, <3>4
  <2>6. dropped[e] + Len(incoming[e]) + Len(found) - Len(queue) \in Nat
    <3> HIDE DEF found, queue
    <3>1. Len(incoming[e]) \in Nat /\ dropped[e] \in Nat
      OBVIOUS
    <3>2. Len(found) \in Nat
      BY <2>4
    <3> DEFINE more == Len(queue) - Len(incoming[e])
               had == Len(incoming[e])
               new == Len(found)
    <3>3. Len(queue) \in Nat
      BY <2>5
    <3>4. /\ more \in 0..new /\ had \in Nat /\ new \in Nat
          /\ Len(queue) = had + more
      BY <2>5, <3>1, <3>2, <3>3
    <3> HIDE DEF more, had, new
    <3>5. dropped[e] + had + new - Len(queue) \in Nat
      <4>1. dropped[e] \in Nat
        BY <3>1
      <4> HIDE DEF TcpTyped, TcpTypeOK
      <4> QED
        BY <3>4, <4>1
    <3> QED
      BY <3>5 DEF had, new
  <2> HIDE DEF w, bytes, found, queue
  <2>7. /\ wire' \in [End -> Seq(Byte)] /\ buffer' \in [End -> Seq(Byte)]
        /\ incoming' \in [End -> Seq(Seq(Byte))]
        /\ dropped' \in [End -> Nat]
        /\ \A f \in End : Len(incoming'[f]) <= MAX_PENDING_INBOUND
    BY <2>1, <2>2, <2>3, <2>4, <2>5, <2>6 DEF w, bytes, found, queue
  <2>8. /\ reader' = [reader EXCEPT ![e] = "loop"]
        /\ UNCHANGED <<online, stop, listening, fd, data, drained, handled,
                       sending, broken>>
    BY <1>12 DEF Receive
  <2> QED
    BY <2>7, <2>8
<1>13. ASSUME NEW e \in End, ReceiveEnds(e)
       PROVE  TcpTyped'
  BY <1>13 DEF ReceiveEnds
<1>14. ASSUME NEW e \in End, ReaderEnds(e)
       PROVE  TcpTyped'
  BY <1>14 DEF ReaderEnds
<1>15. ASSUME NEW e \in End, DrainBegins(e)
       PROVE  TcpTyped'
  <2>1. drained' = [drained EXCEPT ![e] = 0]
    BY <1>15 DEF DrainBegins
  <2>2. 0 \in -1..MAX_DRAIN_PER_TICK
    BY <1>2
  <2>3. drained' \in [End -> -1..MAX_DRAIN_PER_TICK]
    BY <2>1, <2>2
  <2> QED
    BY <1>15, <2>3 DEF DrainBegins
<1>16. ASSUME NEW e \in End, DrainOne(e)
       PROVE  TcpTyped'
  <2>1. /\ incoming[e] \in Seq(Seq(Byte)) /\ incoming[e] # <<>>
        /\ handled[e] \in Seq(Seq(Byte))
        /\ Len(incoming[e]) <= MAX_PENDING_INBOUND
    BY <1>16 DEF DrainOne
  <2>2. /\ Head(incoming[e]) \in Seq(Byte) /\ Tail(incoming[e]) \in Seq(Seq(Byte))
        /\ Len(Tail(incoming[e])) = Len(incoming[e]) - 1
        /\ Len(incoming[e]) \in Nat
    BY <2>1
  <2>3. Append(handled[e], Head(incoming[e])) \in Seq(Seq(Byte))
    BY <2>1, <2>2
  <2>4. Len(Tail(incoming[e])) <= MAX_PENDING_INBOUND
    BY <2>1, <2>2, TcpAssumption
  <2>5. drained[e] + 1 \in -1..MAX_DRAIN_PER_TICK
    <3> HIDE DEF TcpTyped, TcpTypeOK
    <3>1. drained[e] \in 0..(MAX_DRAIN_PER_TICK - 1)
      BY <1>16 DEF DrainOne
    <3> QED
      BY <1>2, <3>1
  <2>6. /\ incoming' \in [End -> Seq(Seq(Byte))]
        /\ handled' \in [End -> Seq(Seq(Byte))]
        /\ drained' \in [End -> -1..MAX_DRAIN_PER_TICK]
        /\ \A f \in End : Len(incoming'[f]) <= MAX_PENDING_INBOUND
    BY <1>16, <2>2, <2>3, <2>4, <2>5 DEF DrainOne
  <2> QED
    BY <1>16, <2>6 DEF DrainOne
<1>17. ASSUME NEW e \in End, DrainEnds(e)
       PROVE  TcpTyped'
  <2>1. drained' = [drained EXCEPT ![e] = -1]
    BY <1>17 DEF DrainEnds
  <2>2. -1 \in -1..MAX_DRAIN_PER_TICK
    BY <1>2
  <2>3. drained' \in [End -> -1..MAX_DRAIN_PER_TICK]
    BY <2>1, <2>2
  <2> QED
    BY <1>17, <2>3 DEF DrainEnds
<1>18. ASSUME NEW e \in End, StopBegins(e)
       PROVE  TcpTyped'
  BY <1>18 DEF StopBegins
<1>19. ASSUME NEW e \in End, StopData(e)
       PROVE  TcpTyped'
  <2>1. Other(e) \in End
    BY OtherEnd
  <2>2. /\ fd' \in [End -> {"none", "open", "shut"}]
        /\ data' \in [End -> BOOLEAN]
        /\ wire' \in [End -> Seq(Byte)]
    <3>1. \/ /\ fd' = [fd EXCEPT ![e] = "shut"]
             /\ data' = [data EXCEPT ![e] = FALSE]
             /\ wire' = [wire EXCEPT ![Other(e)] = <<>>]
          \/ fd' = fd /\ data' = data /\ wire' = wire
      BY <1>19 DEF StopData
    <3>2. /\ fd \in [End -> {"none", "open", "shut"}]
          /\ data \in [End -> BOOLEAN] /\ wire \in [End -> Seq(Byte)]
      OBVIOUS
    <3>3. <<>> \in Seq(Byte)
      BY <1>2
    <3> HIDE DEF TcpTyped, TcpTypeOK
    <3> QED
      BY <2>1, <3>1, <3>2, <3>3
  <2> QED
    BY <1>19, <2>2 DEF StopData
<1>20. ASSUME NEW e \in End, StopListen(e)
       PROVE  TcpTyped'
  BY <1>20 DEF StopListen
<1>21. ASSUME NEW e \in End, StopJoins(e)
       PROVE  TcpTyped'
  BY <1>21 DEF StopJoins
<1>22. ASSUME NEW t \in Thread, CallSend(t)
       PROVE  TcpTyped'
  <2> DEFINE e == EndOf[t]
  <2>1. e \in End /\ given[e] \in Nat /\ given[e] < Len(Payloads[e])
    BY <1>2, <1>22 DEF CallSend
  <2>2. Payloads[e] \in Seq(Seq(Byte) \ {<<>>})
    BY <2>1, TcpAssumption
  <2>3. Len(Payloads[e]) \in Nat /\ Payloads[e][given[e] + 1] \in Seq(Byte)
    <3> DEFINE ps == Payloads[e]
               i == given[e] + 1
    <3> HIDE DEF ps, i
    <3>1. ps \in Seq(Seq(Byte) \ {<<>>}) /\ i \in Nat /\ i >= 1 /\ i <= Len(ps)
      <4>1. ps \in Seq(Seq(Byte) \ {<<>>})
        BY <2>2 DEF ps
      <4>2. Len(ps) \in Nat
        BY <4>1
      <4>3. given[e] \in Nat /\ given[e] < Len(ps)
        BY <2>1 DEF ps
      <4>4. i \in Nat /\ i >= 1 /\ i <= Len(ps)
        <5> HIDE DEF TcpTyped, TcpTypeOK
        <5> QED
          BY <4>2, <4>3 DEF i
      <4> QED
        BY <4>1, <4>4, Zenon
    <3>2. Len(ps) \in Nat /\ ps[i] \in Seq(Byte) \ {<<>>}
      BY <3>1
    <3> QED
      BY <3>2 DEF ps, i
  <2>4. given' = [given EXCEPT ![e] = @ + 1]
    BY <1>22 DEF CallSend
  <2>5. /\ given' \in [End -> Nat]
        /\ \A f \in End : given'[f] <= Len(Payloads[f])
    <3> HIDE DEF e
    <3>1. given \in [End -> Nat] /\ \A f \in End : given[f] <= Len(Payloads[f])
      OBVIOUS
    <3> HIDE DEF TcpTyped, TcpTypeOK
    <3>2. given[e] + 1 <= Len(Payloads[e]) /\ given[e] + 1 \in Nat
      <4>1. Len(Payloads[e]) \in Nat
        BY <2>3
      <4> QED
        BY <2>1, <4>1
    <3> QED
      BY <2>1, <2>4, <3>1, <3>2
  <2>6. /\ sender' \in [Thread -> {"idle", "called", "sending"}]
        /\ packet' \in [Thread -> Seq(Byte)]
    BY <1>22, <2>3 DEF CallSend
  <2> QED
    BY <1>22, <2>5, <2>6 DEF CallSend
<1>23. ASSUME NEW t \in Thread, BeginFrame(t)
       PROVE  TcpTyped'
  <2>1. Frame(packet[t]) \in Seq(Byte) /\ <<>> \in Seq(Byte)
    BY <1>2, FrameType
  <2>2. \/ /\ sender' = [sender EXCEPT ![t] = "sending"]
           /\ left' = [left EXCEPT ![t] = Frame(packet[t])]
           /\ packet' = packet
        \/ /\ sender' = [sender EXCEPT ![t] = "idle"]
           /\ packet' = [packet EXCEPT ![t] = <<>>]
           /\ left' = [left EXCEPT ![t] = <<>>]
    BY <1>23 DEF BeginFrame, Returns
  <2>3. /\ sender' \in [Thread -> {"idle", "called", "sending"}]
        /\ packet' \in [Thread -> Seq(Byte)]
        /\ left' \in [Thread -> Seq(Byte)]
    <3>1. /\ sender \in [Thread -> {"idle", "called", "sending"}]
          /\ packet \in [Thread -> Seq(Byte)]
          /\ left \in [Thread -> Seq(Byte)]
      OBVIOUS
    <3> HIDE DEF TcpTyped, TcpTypeOK
    <3> QED
      BY <2>1, <2>2, <3>1
  <2> QED
    BY <1>23, <2>3 DEF BeginFrame
<1>24. ASSUME NEW t \in Thread, SendBytes(t)
       PROVE  TcpTyped'
  <2>1. left[t] \in Seq(Byte) /\ EndOf[t] \in End /\ wire[EndOf[t]] \in Seq(Byte)
    BY <1>2
  <2>2. PICK n \in 1..Len(left[t]) :
            /\ left' = [left EXCEPT ![t] = SubSeq(@, n + 1, Len(@))]
            /\ wire' = IF fd[Other(EndOf[t])] = "shut" THEN wire
                       ELSE [wire EXCEPT ![EndOf[t]] =
                                 @ \o SubSeq(left[t], 1, n)]
    BY <1>24 DEF SendBytes
  <2>3. /\ SubSeq(left[t], n + 1, Len(left[t])) \in Seq(Byte)
        /\ SubSeq(left[t], 1, n) \in Seq(Byte)
    <3> HIDE DEF TcpTyped, TcpTypeOK
    <3> QED
      BY <2>1, <2>2, CutInTwo
  <2>4. wire[EndOf[t]] \o SubSeq(left[t], 1, n) \in Seq(Byte)
    BY <2>1, <2>3
  <2>5. left' \in [Thread -> Seq(Byte)] /\ wire' \in [End -> Seq(Byte)]
    BY <2>1, <2>2, <2>3, <2>4
  <2> QED
    BY <1>24, <2>5 DEF SendBytes
<1>25. ASSUME NEW t \in Thread, EndFrame(t)
       PROVE  TcpTyped'
  <2>1. Append(sent[EndOf[t]], packet[t]) \in Seq(Seq(Byte))
    BY <1>2
  <2> QED
    BY <1>2, <1>25, <2>1 DEF EndFrame, Returns
<1>26. ASSUME NEW t \in Thread, SendFails(t)
       PROVE  TcpTyped'
  BY <1>2, <1>26 DEF SendFails, Returns
<1> QED
  <2> USE <1>3, <1>4, <1>5, <1>6, <1>7, <1>8, <1>9, <1>10, <1>11, <1>12,
          <1>13, <1>14, <1>15, <1>16, <1>17, <1>18, <1>19, <1>20, <1>21,
          <1>22, <1>23, <1>24, <1>25, <1>26
  <2> HIDE DEF TcpTyped
  <2> QED
    BY Zenon DEF TcpNext, ReaderSteps, DrainSteps, SendSteps, StopSteps

(* An interface is offline until its reader loops, and has no connection   *)
(* before its reader has accepted or made one.                             *)
ReaderKnows ==
    \A e \in End :
        /\ reader[e] \in {"none", "accept"} => fd[e] = "none" /\ ~data[e]
        /\ reader[e] \in {"none", "accept", "accepted", "attached", "done"}
               => ~online[e]

(* _write_mutex: one frame is written at a time.                           *)
OneWrites ==
    \A t, u \in Thread :
        EndOf[t] = EndOf[u] /\ sender[t] = "sending" /\ sender[u] = "sending"
            => t = u

(* The control parts of the invariant hold at first.                       *)
LEMMA ControlInit == TcpInit => ReaderKnows /\ OneWrites
  BY DEF TcpInit, ReaderKnows, OneWrites

(* Every step keeps what the reader knows of its end.                      *)
LEMMA ReaderStep ==
    ASSUME TcpTyped, ReaderKnows, [TcpNext]_tcpVars
    PROVE  ReaderKnows'
<1> USE DEF ReaderKnows, control, sending, receiving
<1>1. /\ online \in [End -> BOOLEAN] /\ data \in [End -> BOOLEAN]
      /\ fd \in [End -> {"none", "open", "shut"}]
      /\ reader \in [End -> {"none", "accept", "accepted", "attached", "loop",
                             "recv", "ending", "done"}]
  BY DEF TcpTyped, TcpTypeOK
<1>2. "server" \in End /\ "client" \in End
  BY DEF End
<1>3. CASE UNCHANGED tcpVars
  BY <1>3 DEF tcpVars
<1>4. CASE StartServer
  BY <1>1, <1>2, <1>4 DEF StartServer
<1>5. CASE StartClient
  BY <1>1, <1>2, <1>5 DEF StartClient
<1>6. CASE Break
  BY <1>6 DEF Break
<1>7. CASE Accept
  BY <1>1, <1>2, <1>7 DEF Accept
<1>8. CASE AcceptFails
  BY <1>1, <1>2, <1>8 DEF AcceptFails
<1>9. CASE AttachSocket
  BY <1>1, <1>2, <1>9 DEF AttachSocket
<1>10. CASE GoOnline
  BY <1>1, <1>2, <1>10 DEF GoOnline
<1>11. ASSUME NEW e \in End, ReaderLoops(e)
       PROVE  ReaderKnows'
  BY <1>1, <1>11 DEF ReaderLoops
<1>12. ASSUME NEW e \in End, Receive(e)
       PROVE  ReaderKnows'
  <2>1. /\ reader' = [reader EXCEPT ![e] = "loop"]
        /\ UNCHANGED <<online, fd, data>>
    BY <1>12 DEF Receive
  <2> QED
    BY <1>1, <2>1
<1>13. ASSUME NEW e \in End, ReceiveEnds(e)
       PROVE  ReaderKnows'
  BY <1>1, <1>13 DEF ReceiveEnds
<1>14. ASSUME NEW e \in End, ReaderEnds(e)
       PROVE  ReaderKnows'
  BY <1>1, <1>14 DEF ReaderEnds
<1>15. ASSUME NEW e \in End, DrainSteps(e)
       PROVE  ReaderKnows'
  <2>1. UNCHANGED control
    BY <1>15 DEF DrainSteps, DrainBegins, DrainOne, DrainEnds
  <2> QED
    BY <2>1
<1>16. ASSUME NEW e \in End, StopBegins(e)
       PROVE  ReaderKnows'
  BY <1>1, <1>16 DEF StopBegins
<1>17. ASSUME NEW e \in End, StopData(e)
       PROVE  ReaderKnows'
  BY <1>1, <1>17 DEF StopData
<1>18. ASSUME NEW e \in End, StopListen(e) \/ StopJoins(e)
       PROVE  ReaderKnows'
  BY <1>18 DEF StopListen, StopJoins
<1>19. ASSUME NEW t \in Thread,
              CallSend(t) \/ BeginFrame(t) \/ SendBytes(t) \/ EndFrame(t)
       PROVE  ReaderKnows'
  <2>1. UNCHANGED control
    BY <1>19 DEF CallSend, BeginFrame, SendBytes, EndFrame
  <2> QED
    BY <2>1
<1>20. ASSUME NEW t \in Thread, SendFails(t)
       PROVE  ReaderKnows'
  <2>1. EndOf[t] \in End
    BY TcpAssumption
  <2> QED
    BY <1>1, <1>20, <2>1 DEF SendFails
<1> QED
  <2> HIDE DEF ReaderKnows
  <2> QED
    BY <1>3, <1>4, <1>5, <1>6, <1>7, <1>8, <1>9, <1>10, <1>11, <1>12, <1>13,
       <1>14, <1>15, <1>16, <1>17, <1>18, <1>19, <1>20, Zenon
       DEF TcpNext, ReaderSteps, SendSteps, StopSteps

(* Every step keeps it that one thread writes to an end at a time.         *)
LEMMA WritersStep ==
    ASSUME TcpTyped, OneWrites, [TcpNext]_tcpVars
    PROVE  OneWrites'
<1> USE DEF OneWrites
<1>1. sender \in [Thread -> {"idle", "called", "sending"}]
  BY DEF TcpTyped, TcpTypeOK
<1>2. CASE UNCHANGED sender
  BY <1>2
<1>3. ASSUME NEW t \in Thread, CallSend(t)
      PROVE  OneWrites'
  BY <1>1, <1>3 DEF CallSend
<1>4. ASSUME NEW t \in Thread, BeginFrame(t)
      PROVE  OneWrites'
  BY <1>1, <1>4 DEF BeginFrame, WriteMutexFree, Returns
<1>5. ASSUME NEW t \in Thread, EndFrame(t) \/ SendFails(t)
      PROVE  OneWrites'
  BY <1>1, <1>5 DEF EndFrame, SendFails, Returns
<1>6. ASSUME NEW t \in Thread, SendBytes(t)
      PROVE  UNCHANGED sender
  BY <1>6 DEF SendBytes
<1>7. ASSUME NEW e \in End, ReaderSteps(e)
      PROVE  UNCHANGED sender
  BY <1>7 DEF ReaderSteps, ReaderLoops, Receive, ReceiveEnds, ReaderEnds,
     Accept, AcceptFails, AttachSocket, GoOnline, sending
<1>8. ASSUME NEW e \in End, DrainSteps(e) \/ StopBegins(e) \/ StopSteps(e)
      PROVE  UNCHANGED sender
  BY <1>8 DEF DrainSteps, DrainBegins, DrainOne, DrainEnds, StopBegins,
     StopSteps, StopData, StopListen, StopJoins, sending
<1>9. CASE StartServer \/ StartClient \/ Break \/ UNCHANGED tcpVars
  BY <1>2, <1>9 DEF StartServer, StartClient, Break, tcpVars, sending
<1> QED
  <2> HIDE DEF OneWrites
  <2> QED
    BY <1>2, <1>3, <1>4, <1>5, <1>6, <1>7, <1>8, <1>9, Zenon
       DEF TcpNext, SendSteps

(* The packets that end e has put on the wire whole: those sent, and the   *)
(* one of a thread that has nothing left to send of it.                    *)
EndedIn(done, snd, lf, pk, e) ==
    LET finished == {t \in Thread : /\ EndOf[t] = e /\ snd[t] = "sending"
                                    /\ lf[t] = <<>>}
    IN  done \o (IF finished = {} THEN <<>>
                 ELSE <<pk[CHOOSE t \in finished : TRUE]>>)

(* The same of the state.                                                  *)
Ended(e) == EndedIn(sent[e], sender, left, packet, e)

(* Without a thread that is done writing, nothing is added.                *)
LEMMA EndedNone ==
    ASSUME NEW done \in Seq(Seq(Byte)), NEW snd, NEW lf, NEW pk, NEW e,
           \A t \in Thread : EndOf[t] = e /\ snd[t] = "sending" => lf[t] # <<>>
    PROVE  EndedIn(done, snd, lf, pk, e) = done
<1>1. {t \in Thread : EndOf[t] = e /\ snd[t] = "sending" /\ lf[t] = <<>>} = {}
  OBVIOUS
<1>2. done \o <<>> = done
  OBVIOUS
<1> QED
  BY <1>1, <1>2, Zenon DEF EndedIn

(* One packet more.                                                        *)
With(s, x) == s \o <<x>>

(* t has sent the last byte of a frame at end e.                           *)
Finished(t, snd, lf, e) == EndOf[t] = e /\ snd[t] = "sending" /\ lf[t] = <<>>

(* With one thread that is done writing, its packet is added.              *)
LEMMA EndedOne ==
    ASSUME NEW done \in Seq(Seq(Byte)), NEW snd, NEW lf, NEW pk, NEW e,
           NEW t \in Thread, Finished(t, snd, lf, e),
           \A u \in Thread : EndOf[u] = e /\ snd[u] = "sending" => u = t
    PROVE  EndedIn(done, snd, lf, pk, e) = With(done, pk[t])
<1> DEFINE finished == {u \in Thread : /\ EndOf[u] = e /\ snd[u] = "sending"
                                       /\ lf[u] = <<>>}
<1>1. finished = {t}
  BY DEF Finished
<1>2. finished # {} /\ (CHOOSE u \in finished : TRUE) = t
  <2> HIDE DEF finished
  <2> QED
    BY <1>1
<1> QED
  BY <1>2, Zenon DEF EndedIn, With

(* What was ended depends on the sending threads of that end only.         *)
LEMMA EndedSame ==
    ASSUME NEW done, NEW snd, NEW lf, NEW pk, NEW e,
           NEW snd2, NEW lf2, NEW pk2,
           \A t \in Thread : EndOf[t] = e =>
               /\ snd2[t] = "sending" <=> snd[t] = "sending"
               /\ snd[t] = "sending" => lf2[t] = lf[t] /\ pk2[t] = pk[t]
    PROVE  EndedIn(done, snd2, lf2, pk2, e) = EndedIn(done, snd, lf, pk, e)
<1> DEFINE finished == {u \in Thread : /\ EndOf[u] = e /\ snd[u] = "sending"
                                       /\ lf[u] = <<>>}
           finished2 == {u \in Thread : /\ EndOf[u] = e /\ snd2[u] = "sending"
                                        /\ lf2[u] = <<>>}
           one == CHOOSE u \in finished : TRUE
<1>1. finished2 = finished
  OBVIOUS
<1>2. CASE finished = {}
  BY <1>1, <1>2, Zenon DEF EndedIn
<1>3. CASE finished # {}
  <2>1. one \in finished
    <3> HIDE DEF finished
    <3> QED
      BY <1>3
  <2>2. pk2[one] = pk[one]
    <3> HIDE DEF one
    <3> QED
      BY <2>1
  <2>3. EndedIn(done, snd, lf, pk, e) = done \o <<pk[one]>>
    BY <1>3, Zenon DEF EndedIn
  <2>4. EndedIn(done, snd2, lf2, pk2, e) =
            done \o <<pk2[CHOOSE u \in finished2 : TRUE]>>
    BY <1>1, <1>3, Zenon DEF EndedIn
  <2> HIDE DEF finished, finished2
  <2> QED
    BY <1>1, <2>2, <2>3, <2>4, Zenon
<1> QED
  BY <1>2, <1>3

(* Long enough packets are counted one by one.                             *)
LEMMA WholeCount ==
    ASSUME NEW s \in Seq(Seq(Byte)), NEW d \in Seq(Byte)
    PROVE  /\ Cardinality(Whole(s)) \in Nat
           /\ Cardinality(Whole(s \o <<d>>)) =
                  Cardinality(Whole(s)) + Len(Told(d))
<1> DEFINE long == s \o <<d>>
           n == Len(s) + 1
<1>1. /\ Len(s) \in Nat /\ DOMAIN s = 1..Len(s) /\ DOMAIN long = 1..n
      /\ \A i \in 1..Len(s) : long[i] = s[i]
      /\ long[n] = d
  OBVIOUS
<1> HIDE DEF long
<1>2. Whole(s) \subseteq 1..Len(s) /\ n \notin Whole(s)
  BY <1>1 DEF Whole
<1>3. IsFiniteSet(Whole(s)) /\ Cardinality(Whole(s)) \in Nat
  <2>1. IsFiniteSet(1..Len(s))
    BY <1>1, FS_Interval
  <2>2. IsFiniteSet(Whole(s))
    BY <1>2, <2>1, FS_Subset
  <2> QED
    BY <2>2, FS_CardinalityType
<1>4. CASE Packet(d)
  <2>1. Whole(long) = Whole(s) \cup {n}
    BY <1>1, <1>4 DEF Whole
  <2>2. Cardinality(Whole(s) \cup {n}) = Cardinality(Whole(s)) + 1
    BY <1>2, <1>3, FS_AddElement
  <2>3. Told(d) = <<d>> /\ Len(<<d>>) = 1
    BY <1>4 DEF Told
  <2> QED
    BY <1>3, <2>1, <2>2, <2>3 DEF long
<1>5. CASE ~Packet(d)
  <2>1. Whole(long) = Whole(s)
    BY <1>1, <1>5 DEF Whole
  <2>2. Told(d) = <<>> /\ Len(<<>>) = 0
    BY <1>5 DEF Told
  <2> QED
    BY <1>3, <2>1, <2>2 DEF long
<1> QED
  BY <1>4, <1>5

-----------------------------------------------------------------------------
(* The stream towards the end e, from the packets the other end has put on *)
(* the wire to those that have arrived.                                    *)

(* What the reader makes of the bytes that it keeps and that are on their  *)
(* way.                                                                    *)
Stream(e) == Read(buffer[e] \o wire[Other(e)])

(* Bytes sent to e still get on the wire.                                  *)
Intact(e) == ~broken /\ fd[e] # "shut"

(* What has arrived and what is on its way was put on the wire, in this    *)
(* order.                                                                  *)
InOrder(e) == Embeds(Arrived(e) \o Stream(e).packets, Ended(Other(e)))

(* Each packet that is not too short has arrived, was dropped, or is on its *)
(* way.                                                                    *)
Counted(e) ==
    Cardinality(Whole(Ended(Other(e)))) =
        Len(Arrived(e)) + dropped[e] + Len(Stream(e).packets)

(* The stream stops inside the frame that is being sent, and between       *)
(* frames when none is.                                                    *)
MidFrame(e) ==
    /\ \A t \in Thread : EndOf[t] = Other(e) /\ sender[t] = "sending" =>
                             Pending(packet[t], left[t], Stream(e))
    /\ (\A t \in Thread : EndOf[t] = Other(e) => sender[t] # "sending")
           => Stream(e).body = <<>>

(* The invariant of one direction.  An order of packets survives a break;  *)
(* their number and the boundary of frames do not.                         *)
StreamKept(e) ==
    /\ Packets(buffer[e]) = <<>>
    /\ InOrder(e)
    /\ Intact(e) => Counted(e) /\ MidFrame(e)

(* The types of the stream between two ends.                               *)
LEMMA StreamTyped ==
    ASSUME TcpTyped, NEW e \in End
    PROVE  /\ buffer[e] \in Seq(Byte) /\ wire[Other(e)] \in Seq(Byte)
           /\ buffer[e] \o wire[Other(e)] \in Seq(Byte)
           /\ Stream(e) \in Reading
           /\ Stream(e).packets \in Seq(Seq(Byte))
           /\ handled[e] \in Seq(Seq(Byte)) /\ incoming[e] \in Seq(Seq(Byte))
           /\ Arrived(e) \in Seq(Seq(Byte))
           /\ sent[Other(e)] \in Seq(Seq(Byte))
           /\ Other(e) \in End /\ dropped[e] \in Nat
<1>1. /\ buffer[e] \in Seq(Byte) /\ wire[Other(e)] \in Seq(Byte)
      /\ handled[e] \in Seq(Seq(Byte)) /\ incoming[e] \in Seq(Seq(Byte))
      /\ sent[Other(e)] \in Seq(Seq(Byte)) /\ Other(e) \in End
      /\ dropped[e] \in Nat
  BY OtherEnd DEF TcpTyped, TcpTypeOK
<1>2. buffer[e] \o wire[Other(e)] \in Seq(Byte)
  BY <1>1
<1>3. Stream(e) \in Reading
  BY <1>2, ClosedIsEmpty DEF Stream
<1>4. Stream(e).packets \in Seq(Seq(Byte))
  BY <1>3, ReadingFields
<1>5. Arrived(e) \in Seq(Seq(Byte))
  BY <1>1 DEF Arrived
<1> QED
  BY <1>1, <1>2, <1>3, <1>4, <1>5

(* At first nothing is in the stream.                                      *)
LEMMA StreamInit ==
    ASSUME TcpInit, NEW e \in End
    PROVE  StreamKept(e)
<1>1. /\ buffer[e] = <<>> /\ wire[Other(e)] = <<>> /\ handled[e] = <<>>
      /\ incoming[e] = <<>> /\ sent[Other(e)] = <<>> /\ dropped[e] = 0
      /\ \A t \in Thread : sender[t] # "sending"
  BY OtherEnd DEF TcpInit
<1>2. /\ <<>> \o <<>> = <<>> /\ <<>> \in Seq(Seq(Byte)) /\ Len(<<>>) = 0
      /\ DOMAIN <<>> = {}
  OBVIOUS
<1>3. Read(<<>>) = NothingRead
  BY NothingReadType, ReadOn DEF Read
<1>4. NothingRead.packets = <<>> /\ NothingRead.body = <<>>
  BY DEF NothingRead
<1>5. Stream(e) = NothingRead /\ Packets(buffer[e]) = <<>> /\ Arrived(e) = <<>>
  BY <1>1, <1>2, <1>3, <1>4 DEF Stream, Packets, Arrived
<1>6. Ended(Other(e)) = <<>>
  <2>1. sent[Other(e)] \in Seq(Seq(Byte))
    BY <1>1, <1>2
  <2>2. EndedIn(sent[Other(e)], sender, left, packet, Other(e)) = sent[Other(e)]
    <3>1. \A t \in Thread : sender[t] # "sending"
      BY <1>1
    <3> QED
      BY <2>1, <3>1, EndedNone
  <2> QED
    BY <1>1, <2>2 DEF Ended
<1>7. InOrder(e)
  BY <1>2, <1>4, <1>5, <1>6, EmbedsPrefix DEF InOrder
<1>8. Whole(<<>>) = {}
  BY <1>2 DEF Whole
<1>9. Counted(e)
  <2>1. Cardinality(Whole(Ended(Other(e)))) = 0
    BY <1>6, <1>8, FS_EmptySet
  <2>2. Len(Arrived(e)) = 0 /\ dropped[e] = 0 /\ Len(Stream(e).packets) = 0
    BY <1>1, <1>2, <1>4, <1>5
  <2> QED
    BY <2>1, <2>2 DEF Counted
<1>10. MidFrame(e)
  BY <1>1, <1>4, <1>5 DEF MidFrame
<1> QED
  BY <1>5, <1>7, <1>9, <1>10 DEF StreamKept

(* A step that leaves this stream alone.                                   *)
Quiet(e) ==
    /\ buffer'[e] = buffer[e] /\ wire'[Other(e)] = wire[Other(e)]
    /\ Arrived(e)' = Arrived(e) /\ dropped'[e] = dropped[e]
    /\ sent'[Other(e)] = sent[Other(e)]
    /\ \A t \in Thread : EndOf[t] = Other(e) =>
           /\ sender'[t] = "sending" <=> sender[t] = "sending"
           /\ sender[t] = "sending" => /\ left'[t] = left[t]
                                       /\ packet'[t] = packet[t]
    /\ Intact(e)' => Intact(e)

(* A step that leaves an end's stream alone keeps its invariant.           *)
LEMMA QuietKeeps ==
    ASSUME NEW e \in End, StreamKept(e), Quiet(e)
    PROVE  StreamKept(e)'
<1> USE DEF Quiet
<1>1. Stream(e)' = Stream(e)
  BY DEF Stream
<1>2. Ended(Other(e))' = Ended(Other(e))
  <2>1. EndedIn(sent[Other(e)], sender', left', packet', Other(e)) =
            EndedIn(sent[Other(e)], sender, left, packet, Other(e))
    BY EndedSame
  <2> QED
    BY <2>1 DEF Ended
<1>3. InOrder(e)'
  BY <1>1, <1>2 DEF StreamKept, InOrder
<1>4. Intact(e)' => Counted(e)' /\ MidFrame(e)'
  BY <1>1, <1>2 DEF StreamKept, Counted, MidFrame
<1> QED
  BY <1>3, <1>4 DEF StreamKept

(* The connection is lost, and with it what is on its way.                 *)
LEMMA LostKeeps ==
    ASSUME TcpTyped, NEW e \in End, StreamKept(e),
           wire'[Other(e)] = <<>>, ~Intact(e)', buffer'[e] = buffer[e],
           UNCHANGED <<handled, incoming, sending>>
    PROVE  StreamKept(e)'
<1>1. Stream(e)'.packets = <<>>
  <2>1. buffer[e] \o <<>> = buffer[e]
    BY StreamTyped
  <2>2. Stream(e)' = Read(buffer[e])
    BY <2>1 DEF Stream
  <2> QED
    BY <2>2 DEF StreamKept, Packets
<1>2. Arrived(e)' = Arrived(e) /\ Ended(Other(e))' = Ended(Other(e))
  BY DEF Arrived, Ended, sending
<1>3. Arrived(e) \o <<>> = Arrived(e)
  BY StreamTyped
<1>4. Embeds(Arrived(e), Arrived(e) \o Stream(e).packets)
  BY StreamTyped, EmbedsPrefix
<1>5. Embeds(Arrived(e), Ended(Other(e)))
  BY <1>4, EmbedsThrough DEF StreamKept, InOrder
<1>6. InOrder(e)'
  BY <1>1, <1>2, <1>3, <1>5 DEF InOrder
<1> QED
  BY <1>6 DEF StreamKept

(* The reader receives: packets move from the stream to the queue, but for *)
(* those that are dropped.                                                 *)
LEMMA ReceiveKeeps ==
    ASSUME TcpTyped, NEW e \in End, StreamKept(e), Receive(e)
    PROVE  StreamKept(e)'
<1> DEFINE w == wire[Other(e)]
           b == buffer[e]
<1>1. /\ w \in Seq(Byte) /\ b \in Seq(Byte) /\ Other(e) \in End
      /\ incoming[e] \in Seq(Seq(Byte)) /\ Len(incoming[e]) <= MAX_PENDING_INBOUND
      /\ handled[e] \in Seq(Seq(Byte)) /\ Arrived(e) \in Seq(Seq(Byte))
      /\ dropped[e] \in Nat
  BY StreamTyped DEF TcpTyped, TcpTypeOK
<1>2. PICK n \in 1..Len(w) :
          LET bytes == b \o SubSeq(w, 1, n)
              found == Packets(bytes)
              queue == Queued(incoming[e], found)
          IN  /\ wire' = [wire EXCEPT ![Other(e)] = SubSeq(w, n + 1, Len(w))]
              /\ buffer' = [buffer EXCEPT ![e] = Rest(bytes)]
              /\ incoming' = [incoming EXCEPT ![e] = queue]
              /\ dropped' = [dropped EXCEPT ![e] =
                     @ + Len(incoming[e]) + Len(found) - Len(queue)]
  BY DEF Receive
<1> DEFINE bytes == b \o SubSeq(w, 1, n)
           found == Packets(bytes)
           queue == Queued(incoming[e], found)
           old == Read(b \o w)
           new == Read(Rest(bytes) \o SubSeq(w, n + 1, Len(w)))
<1>3. /\ found \in Seq(Seq(Byte)) /\ new \in Reading
      /\ new.body = old.body /\ Bare(new) = Bare(old)
      /\ old.packets = found \o new.packets
      /\ Packets(Rest(bytes)) = <<>>
  BY <1>1, ReceivedInOrder
<1>4. Stream(e) = old
  BY DEF Stream
<1>5. /\ buffer'[e] = Rest(bytes) /\ incoming'[e] = queue
      /\ wire'[Other(e)] = SubSeq(w, n + 1, Len(w))
      /\ dropped'[e] = dropped[e] + Len(incoming[e]) + Len(found) - Len(queue)
  BY <1>1, <1>2 DEF TcpTyped, TcpTypeOK
<1>6. Stream(e)' = new
  BY <1>5 DEF Stream
<1> HIDE DEF w, b, bytes, found, queue, old, new
<1>7. new.packets \in Seq(Seq(Byte))
  BY <1>3, ReadingFields
<1>8. PICK k \in 0..Len(found) :
          /\ queue = incoming[e] \o SubSeq(found, 1, k)
          /\ Len(queue) = Len(incoming[e]) + k
  BY <1>1, <1>3, QueuedIs DEF queue
<1>9. handled'[e] = handled[e]
  BY DEF Receive
<1>10. UNCHANGED <<sending, broken, fd>>
  BY DEF Receive
<1> DEFINE part == SubSeq(found, 1, k)
<1>11. part \in Seq(Seq(Byte)) /\ Len(part) = k /\ k \in Nat /\ Len(found) \in Nat
  BY <1>3
<1> HIDE DEF part
<1>12. Arrived(e)' = Arrived(e) \o part
  <2>1. handled[e] \o (incoming[e] \o part) = (handled[e] \o incoming[e]) \o part
    <3>1. /\ handled[e] \in Seq(Seq(Byte)) /\ incoming[e] \in Seq(Seq(Byte))
          /\ part \in Seq(Seq(Byte))
      BY <1>1, <1>11
    <3> QED
      <4>1. Regroup(handled[e], incoming[e], part)
        BY <3>1, JoinsRegroup
      <4> QED
        BY <4>1, Zenon DEF Regroup
  <2>2. Arrived(e)' = handled[e] \o (incoming[e] \o part)
    BY <1>5, <1>8, <1>9 DEF Arrived, part
  <2> QED
    BY <2>1, <2>2, Zenon DEF Arrived
<1>13. Ended(Other(e))' = Ended(Other(e))
  BY <1>10 DEF Ended, sending
<1>14. InOrder(e)'
  <2>1. Embeds((Arrived(e) \o part) \o new.packets,
               Arrived(e) \o (found \o new.packets))
    BY <1>1, <1>3, <1>7, EmbedsWithout DEF part
  <2>2. Embeds(Arrived(e) \o (found \o new.packets), Ended(Other(e)))
    BY <1>3, <1>4, Zenon DEF StreamKept, InOrder
  <2>3. Embeds((Arrived(e) \o part) \o new.packets, Ended(Other(e)))
    BY <2>1, <2>2, EmbedsThrough, Zenon
  <2> QED
    BY <1>6, <1>12, <1>13, <2>3, Zenon DEF InOrder
<1>15. ASSUME Intact(e)'
       PROVE  Counted(e)' /\ MidFrame(e)'
  <2>1. Counted(e) /\ MidFrame(e)
    BY <1>10, <1>15 DEF Intact, StreamKept
  <2>2. Counted(e)'
    <3>1. Len(Arrived(e) \o part) = Len(Arrived(e)) + Len(part)
      <4>1. Arrived(e) \in Seq(Seq(Byte)) /\ part \in Seq(Seq(Byte))
        BY <1>1, <1>11
      <4> QED
        BY <4>1
    <3>2. Len(found \o new.packets) = Len(found) + Len(new.packets)
      BY <1>3, <1>7
    <3>3. /\ Len(Arrived(e)) \in Nat /\ Len(new.packets) \in Nat
          /\ Len(incoming[e]) \in Nat
      BY <1>1, <1>7
    <3>4. dropped'[e] = dropped[e] + Len(found) - k
      <4> DEFINE had == Len(incoming[e])
                 new2 == Len(found)
      <4>1. /\ dropped'[e] = dropped[e] + had + new2 - (had + k)
            /\ had \in Nat /\ new2 \in Nat /\ dropped[e] \in Nat /\ k \in Nat
        BY <1>1, <1>5, <1>8, <1>11, <3>3, Zenon
      <4> HIDE DEF had, new2
      <4>2. dropped'[e] = dropped[e] + new2 - k
        BY <4>1
      <4> QED
        BY <4>2 DEF new2
    <3>5. Cardinality(Whole(Ended(Other(e)))) =
              Len(Arrived(e)) + dropped[e] + (Len(found) + Len(new.packets))
      BY <1>3, <1>4, <2>1, <3>2 DEF Counted
    <3>6. Cardinality(Whole(Ended(Other(e)))) =
              Len(Arrived(e) \o part) + dropped'[e] + Len(new.packets)
      <4>1. Len(Arrived(e) \o part) = Len(Arrived(e)) + Len(part)
        BY <3>1
      <4> DEFINE all == Cardinality(Whole(Ended(Other(e))))
                 here == Len(Arrived(e))
                 read == Len(found)
                 lost == dropped[e]
                 ahead == Len(new.packets)
      <4>2. /\ all = here + lost + (read + ahead)
            /\ dropped'[e] = lost + read - k
            /\ Len(Arrived(e) \o part) = here + Len(part) /\ Len(part) = k
        BY <1>11, <3>1, <3>4, <3>5, <4>1
      <4>3. here \in Nat /\ read \in Nat /\ lost \in Nat /\ ahead \in Nat /\ k \in Nat
        BY <1>1, <1>5, <1>8, <3>3
      <4> HIDE DEF all, here, read, lost, ahead
      <4>4. all = Len(Arrived(e) \o part) + dropped'[e] + ahead
        BY <4>2, <4>3
      <4> QED
        BY <4>4 DEF all, ahead
    <3> QED
      BY <1>6, <1>12, <1>13, <3>6 DEF Counted
  <2>3. MidFrame(e)'
    <3>1. \A d, rest : Pending(d, rest, old) => Pending(d, rest, new)
      BY <1>3, Zenon DEF Pending
    <3>2. UNCHANGED <<sender, left, packet>>
      BY <1>10 DEF sending
    <3> QED
      BY <1>3, <1>4, <1>6, <2>1, <3>1, <3>2 DEF MidFrame
  <2> QED
    BY <2>2, <2>3
<1>16. Packets(buffer'[e]) = <<>>
  BY <1>3, <1>5
<1> QED
  BY <1>14, <1>15, <1>16 DEF StreamKept

(* Of the threads at an end, one is sending.                               *)
LEMMA SoleWriter ==
    ASSUME OneWrites, NEW t \in Thread, sender[t] = "sending"
    PROVE  \A u \in Thread : EndOf[u] = EndOf[t] /\ sender[u] = "sending" => u = t
  BY DEF OneWrites

(* A thread begins a frame: the one before is complete.                    *)
LEMMA BeginKeeps ==
    ASSUME TcpTyped, NEW e \in End, StreamKept(e), NEW t \in Thread,
           BeginFrame(t), EndOf[t] = Other(e), data[Other(e)]
    PROVE  StreamKept(e)'
<1> DEFINE from == Other(e)
<1>1. /\ sender \in [Thread -> {"idle", "called", "sending"}]
      /\ packet[t] \in Seq(Byte) /\ left \in [Thread -> Seq(Byte)]
      /\ sent[from] \in Seq(Seq(Byte)) /\ Stream(e) \in Reading
  BY StreamTyped DEF TcpTyped, TcpTypeOK
<1>2. /\ sender' = [sender EXCEPT ![t] = "sending"]
      /\ left' = [left EXCEPT ![t] = Frame(packet[t])]
      /\ UNCHANGED <<packet, control, receiving, given, sent, wire, broken>>
      /\ \A u \in Thread : EndOf[u] = from => sender[u] # "sending"
  BY DEF BeginFrame, WriteMutexFree
<1>3. Frame(packet[t]) # <<>>
  <2>1. Len(Frame(packet[t])) = Len(Escape(packet[t])) + 2
        /\ Len(Escape(packet[t])) \in Nat
    BY <1>1, FrameType, EscapeType
  <2>2. Len(<<>>) = 0
    OBVIOUS
  <2> QED
    BY <2>1, <2>2
<1>4. Ended(from) = sent[from]
  <2>1. EndedIn(sent[from], sender, left, packet, from) = sent[from]
    BY <1>1, <1>2, EndedNone
  <2> QED
    BY <2>1 DEF Ended
<1>5. Ended(from)' = sent[from]
  <2>1. \A u \in Thread : EndOf[u] = from /\ sender'[u] = "sending"
                              => left'[u] # <<>>
    BY <1>1, <1>2, <1>3
  <2>2. EndedIn(sent[from], sender', left', packet, from) = sent[from]
    BY <1>1, <2>1, EndedNone
  <2> QED
    BY <1>2, <2>2 DEF Ended
<1>6. Stream(e)' = Stream(e) /\ Arrived(e)' = Arrived(e)
      /\ dropped'[e] = dropped[e] /\ buffer' = buffer
      /\ (Intact(e)' => Intact(e))
  BY <1>2 DEF Stream, Arrived, Intact, receiving, control
<1>7. InOrder(e)'
  BY <1>4, <1>5, <1>6, Zenon DEF StreamKept, InOrder
<1>8. ASSUME Intact(e)'
      PROVE  Counted(e)' /\ MidFrame(e)'
  <2>1. Counted(e) /\ MidFrame(e)
    BY <1>6, <1>8 DEF StreamKept
  <2>2. Counted(e)'
    BY <1>4, <1>5, <1>6, <2>1 DEF Counted
  <2>3. Stream(e).body = <<>>
    BY <1>2, <2>1 DEF MidFrame
  <2>4. Pending(packet[t], Frame(packet[t]), Stream(e))
    BY <1>1, <2>3, PendingStarts
  <2>5. \A u \in Thread : EndOf[u] = from /\ sender'[u] = "sending" => u = t
    BY <1>1, <1>2
  <2>6. sender'[t] = "sending" /\ left'[t] = Frame(packet[t])
    BY <1>1, <1>2
  <2>7. MidFrame(e)'
    BY <1>2, <1>6, <2>4, <2>5, <2>6 DEF MidFrame
  <2> QED
    BY <2>2, <2>7
<1> QED
  BY <1>6, <1>7, <1>8 DEF StreamKept

(* A thread ends its frame: it had nothing left to send.                   *)
LEMMA EndKeeps ==
    ASSUME TcpTyped, OneWrites, NEW e \in End, StreamKept(e), NEW t \in Thread,
           EndFrame(t), EndOf[t] = Other(e)
    PROVE  StreamKept(e)'
<1> DEFINE from == Other(e)
<1>1. /\ sender \in [Thread -> {"idle", "called", "sending"}]
      /\ packet[t] \in Seq(Byte)
      /\ sent[from] \in Seq(Seq(Byte)) /\ from \in End
      /\ sent \in [End -> Seq(Seq(Byte))]
  BY StreamTyped DEF TcpTyped, TcpTypeOK
<1>2. /\ sender[t] = "sending" /\ left[t] = <<>>
      /\ sender' = [sender EXCEPT ![t] = "idle"]
      /\ sent' = [sent EXCEPT ![from] = Append(@, packet[t])]
      /\ UNCHANGED <<control, receiving, given, wire, broken>>
  BY DEF EndFrame, Returns
<1>3. \A u \in Thread : EndOf[u] = from /\ sender[u] = "sending" => u = t
  BY <1>2, SoleWriter
<1>4. Ended(from) = sent[from] \o <<packet[t]>>
  <2>1. EndedIn(sent[from], sender, left, packet, from) =
            With(sent[from], packet[t])
    <3>1. sent[from] \in Seq(Seq(Byte)) /\ Finished(t, sender, left, from)
      BY <1>1, <1>2 DEF Finished
    <3> QED
      BY <1>3, <3>1, EndedOne
  <2> QED
    BY <2>1, Zenon DEF Ended, With
<1>5. \A u \in Thread : EndOf[u] = from => sender'[u] # "sending"
  BY <1>1, <1>2, <1>3
<1>6. Ended(from)' = sent[from] \o <<packet[t]>>
  <2>1. Append(sent[from], packet[t]) \in Seq(Seq(Byte))
        /\ Append(sent[from], packet[t]) = sent[from] \o <<packet[t]>>
    BY <1>1
  <2>2. sent'[from] = Append(sent[from], packet[t])
    BY <1>1, <1>2
  <2>3. EndedIn(sent'[from], sender', left', packet', from) = sent'[from]
    <3>1. sent'[from] \in Seq(Seq(Byte))
      BY <2>1, <2>2
    <3> QED
      BY <1>5, <3>1, EndedNone
  <2> QED
    BY <2>1, <2>2, <2>3, Zenon DEF Ended
<1>7. Stream(e)' = Stream(e) /\ Arrived(e)' = Arrived(e)
      /\ dropped'[e] = dropped[e] /\ buffer' = buffer
      /\ (Intact(e)' => Intact(e))
  BY <1>2 DEF Stream, Arrived, Intact, receiving, control
<1>8. InOrder(e)'
  BY <1>4, <1>6, <1>7, Zenon DEF StreamKept, InOrder
<1>9. ASSUME Intact(e)'
      PROVE  Counted(e)' /\ MidFrame(e)'
  <2>1. Counted(e) /\ MidFrame(e)
    BY <1>7, <1>9 DEF StreamKept
  <2>2. Counted(e)'
    BY <1>4, <1>6, <1>7, <2>1 DEF Counted
  <2>3. Pending(packet[t], left[t], Stream(e))
    BY <1>2, <2>1 DEF MidFrame
  <2>4. Stream(e).body = <<>>
    BY <1>2, <2>3 DEF Pending
  <2>5. MidFrame(e)'
    BY <1>5, <1>7, <2>4 DEF MidFrame
  <2> QED
    BY <2>2, <2>5
<1> QED
  BY <1>7, <1>8, <1>9 DEF StreamKept

(* A thread gives up its frame: no byte of it, or of a later one, will     *)
(* arrive any more.                                                        *)
LEMMA FailKeeps ==
    ASSUME TcpTyped, OneWrites, NEW e \in End, StreamKept(e), NEW t \in Thread,
           SendFails(t), EndOf[t] = Other(e)
    PROVE  StreamKept(e)'
<1> DEFINE from == Other(e)
<1>1. /\ sender \in [Thread -> {"idle", "called", "sending"}]
      /\ sent[from] \in Seq(Seq(Byte)) /\ Other(from) = e
  BY StreamTyped, OtherEnd DEF TcpTyped, TcpTypeOK
<1>2. /\ sender[t] = "sending" /\ left[t] # <<>>
      /\ broken \/ fd[e] = "shut"
      /\ sender' = [sender EXCEPT ![t] = "idle"]
      /\ UNCHANGED <<fd, sent, receiving, wire, broken>>
  BY <1>1 DEF SendFails, Returns
<1>3. \A u \in Thread : EndOf[u] = from /\ sender[u] = "sending" => u = t
  BY <1>2, SoleWriter
<1>4. Ended(from) = sent[from]
  <2>1. EndedIn(sent[from], sender, left, packet, from) = sent[from]
    BY <1>1, <1>2, <1>3, EndedNone
  <2> QED
    BY <2>1 DEF Ended
<1>5. Ended(from)' = sent[from]
  <2>1. \A u \in Thread : EndOf[u] = from => sender'[u] # "sending"
    BY <1>1, <1>2, <1>3
  <2>2. EndedIn(sent[from], sender', left', packet', from) = sent[from]
    BY <1>1, <2>1, EndedNone
  <2> QED
    BY <1>2, <2>2 DEF Ended
<1>6. Stream(e)' = Stream(e) /\ Arrived(e)' = Arrived(e) /\ buffer' = buffer
  BY <1>2 DEF Stream, Arrived, receiving
<1>7. ~Intact(e)'
  BY <1>2 DEF Intact
<1>8. InOrder(e)'
  BY <1>4, <1>5, <1>6, Zenon DEF StreamKept, InOrder
<1> QED
  BY <1>6, <1>7, <1>8 DEF StreamKept

(* A thread sends some bytes: the last of a frame completes its packet, at *)
(* both ends of the stream.                                                *)
LEMMA SendKeeps ==
    ASSUME TcpTyped, OneWrites, NEW e \in End, StreamKept(e), NEW t \in Thread,
           SendBytes(t), EndOf[t] = Other(e)
    PROVE  StreamKept(e)'
<1> DEFINE from == Other(e)
           w == wire[from]
           p == packet[t]
           s == Stream(e)
<1>1. /\ left \in [Thread -> Seq(Byte)] /\ left[t] \in Seq(Byte)
      /\ p \in Seq(Byte) /\ wire \in [End -> Seq(Byte)]
      /\ sent[from] \in Seq(Seq(Byte)) /\ Other(from) = e /\ from \in End
      /\ s \in Reading /\ s.packets \in Seq(Seq(Byte))
      /\ Arrived(e) \in Seq(Seq(Byte)) /\ dropped[e] \in Nat
      /\ buffer[e] \in Seq(Byte) /\ w \in Seq(Byte)
      /\ buffer[e] \o w \in Seq(Byte)
  BY StreamTyped, OtherEnd DEF TcpTyped, TcpTypeOK
<1>2. /\ sender[t] = "sending" /\ left[t] # <<>> /\ ~broken
      /\ UNCHANGED <<control, receiving, sender, packet, given, sent, broken>>
  BY DEF SendBytes
<1>3. PICK n \in 1..Len(left[t]) :
          /\ left' = [left EXCEPT ![t] = SubSeq(@, n + 1, Len(@))]
          /\ wire' = IF fd[e] = "shut" THEN wire
                     ELSE [wire EXCEPT ![from] = @ \o SubSeq(left[t], 1, n)]
  BY <1>1 DEF SendBytes
<1> DEFINE chunk == SubSeq(left[t], 1, n)
           after == SubSeq(left[t], n + 1, Len(left[t]))
<1>4. chunk \in Seq(Byte) /\ after \in Seq(Byte) /\ left'[t] = after
  <2>1. chunk \in Seq(Byte) /\ after \in Seq(Byte)
    BY <1>1, <1>3, CutInTwo
  <2>2. left'[t] = after
    BY <1>1, <1>3, Zenon
  <2> QED
    BY <2>1, <2>2
<1>5. (n = Len(left[t]) => after = <<>>) /\ (n # Len(left[t]) => after # <<>>)
  <2>1. Len(after) = Len(left[t]) - n /\ Len(left[t]) \in Nat
    BY <1>1
  <2>2. Len(<<>>) = 0
    OBVIOUS
  <2>3. n = Len(left[t]) => after = <<>>
    BY <1>1
  <2> HIDE DEF after
  <2> QED
    BY <2>1, <2>2, <2>3
<1> HIDE DEF chunk, after, w, p, s
<1>6. \A u \in Thread : EndOf[u] = from /\ sender[u] = "sending" => u = t
  BY <1>2, SoleWriter
<1>7. Ended(from) = sent[from]
  <2>1. EndedIn(sent[from], sender, left, packet, from) = sent[from]
    <3>1. /\ sent[from] \in Seq(Seq(Byte))
          /\ \A u \in Thread : EndOf[u] = from /\ sender[u] = "sending"
                                 => left[u] # <<>>
      BY <1>1, <1>2, <1>6
    <3> QED
      BY <3>1, EndedNone
  <2> QED
    BY <2>1 DEF Ended
<1>8. Ended(from)' = IF n = Len(left[t]) THEN sent[from] \o <<p>> ELSE sent[from]
  <2>1. CASE n = Len(left[t])
    <3>1. Finished(t, sender, left', from)
      BY <1>2, <1>4, <1>5, <2>1 DEF Finished
    <3>2. sent[from] \in Seq(Seq(Byte))
      BY <1>1
    <3>3. EndedIn(sent[from], sender, left', packet, from) =
              With(sent[from], packet[t])
      BY <1>6, <3>1, <3>2, EndedOne
    <3>4. UNCHANGED <<sent, sender, packet>>
      BY <1>2
    <3> QED
      BY <2>1, <3>3, <3>4, Zenon DEF Ended, With, p
  <2>2. CASE n # Len(left[t])
    <3>1. \A u \in Thread : EndOf[u] = from /\ sender[u] = "sending"
                                => left'[u] # <<>>
      BY <1>4, <1>5, <1>6, <2>2
    <3>2. sent[from] \in Seq(Seq(Byte))
      BY <1>1
    <3>3. EndedIn(sent[from], sender, left', packet, from) = sent[from]
      BY <3>1, <3>2, EndedNone
    <3>4. UNCHANGED <<sent, sender, packet>>
      BY <1>2
    <3> QED
      BY <2>2, <3>3, <3>4, Zenon DEF Ended
  <2> QED
    BY <2>1, <2>2
<1>9. Arrived(e)' = Arrived(e) /\ dropped'[e] = dropped[e] /\ buffer' = buffer
      /\ (Intact(e)' <=> fd[e] # "shut") /\ (Intact(e) <=> fd[e] # "shut")
  BY <1>2 DEF Arrived, receiving, control, Intact
<1>10. Embeds(Arrived(e) \o s.packets, sent[from])
  BY <1>7, Zenon DEF StreamKept, InOrder, s
<1>11. Arrived(e) \o s.packets \in Seq(Seq(Byte)) /\ <<p>> \in Seq(Seq(Byte))
  <2>1. Arrived(e) \in Seq(Seq(Byte)) /\ s.packets \in Seq(Seq(Byte))
    BY <1>1
  <2> QED
    BY <1>1, <2>1
<1>12. Embeds(Arrived(e) \o s.packets, sent[from] \o <<p>>)
  <2>1. Embeds(sent[from], sent[from] \o <<p>>)
    BY <1>1, <1>11, EmbedsPrefix
  <2> QED
    BY <1>10, <2>1, EmbedsThrough, Zenon
<1>13. CASE fd[e] = "shut"
  <2>1. Stream(e)' = s
    BY <1>3, <1>9, <1>13 DEF Stream, s
  <2>2. InOrder(e)'
    <3>1. CASE n = Len(left[t])
      BY <1>8, <1>9, <1>12, <2>1, <3>1, Zenon DEF InOrder
    <3>2. CASE n # Len(left[t])
      BY <1>8, <1>9, <1>10, <2>1, <3>2, Zenon DEF InOrder
    <3> QED
      BY <3>1, <3>2
  <2> QED
    BY <1>9, <1>13, <2>2 DEF StreamKept
<1>14. CASE fd[e] # "shut"
  <2> DEFINE next == Folded(ReadByte, s, chunk)
  <2>1. Stream(e)' = next
    <3>1. wire'[from] = w \o chunk
      BY <1>1, <1>3, <1>14 DEF w, chunk
    <3>2. Stream(e)' = Read(buffer[e] \o (w \o chunk))
      BY <1>9, <3>1 DEF Stream
    <3>3. Regroup(buffer[e], w, chunk)
      BY <1>1, <1>4, JoinsRegroup
    <3>4. Joined(NothingRead, buffer[e] \o w, chunk)
      BY <1>1, <1>4, NothingReadType, ReadJoined
    <3>5. s = Read(buffer[e] \o w)
      BY DEF s, Stream, w
    <3> QED
      BY <3>2, <3>3, <3>4, <3>5, Zenon DEF Regroup, Joined, Read
  <2>2. Counted(e) /\ MidFrame(e)
    BY <1>9, <1>14 DEF StreamKept
  <2>3. Pending(p, left[t], s)
    BY <1>2, <2>2 DEF MidFrame, p, s
  <2>4. /\ next \in Reading /\ Pending(p, after, next)
        /\ n = Len(left[t]) => next.packets = s.packets \o Told(p)
        /\ n # Len(left[t]) => next.packets = s.packets
    BY <1>1, <2>3, PendingSteps DEF chunk, after
  <2> HIDE DEF next
  <2>5. MidFrame(e)'
    <3>1. UNCHANGED <<sender, packet>>
      BY <1>2
    <3> QED
      BY <1>2, <1>4, <1>6, <2>1, <2>4, <3>1 DEF MidFrame, p
  <2>6. CASE n # Len(left[t])
    <3>1. InOrder(e)'
      BY <1>8, <1>9, <1>10, <2>1, <2>4, <2>6, Zenon DEF InOrder
    <3>2. Counted(e)'
      BY <1>7, <1>8, <1>9, <2>1, <2>2, <2>4, <2>6 DEF Counted, s
    <3> QED
      BY <1>9, <2>5, <3>1, <3>2 DEF StreamKept
  <2>7. CASE n = Len(left[t])
    <3>1. next.packets = s.packets \o Told(p)
      BY <2>4, <2>7
    <3>2. InOrder(e)'
      <4>1. Embeds(Arrived(e) \o (s.packets \o Told(p)), sent[from] \o <<p>>)
        <5>1. CASE Packet(p)
          <6>1. Told(p) = <<p>>
            BY <5>1 DEF Told
          <6>2. Embeds((Arrived(e) \o s.packets) \o <<p>>, sent[from] \o <<p>>)
            BY <1>1, <1>10, <1>11, EmbedsBoth
          <6>3. Regroup(Arrived(e), s.packets, <<p>>)
            BY <1>1, <1>11, JoinsRegroup
          <6> QED
            BY <6>1, <6>2, <6>3, Zenon DEF Regroup
        <5>2. CASE ~Packet(p)
          <6>1. Told(p) = <<>>
            BY <5>2 DEF Told
          <6>2. s.packets \o <<>> = s.packets
            BY <1>1
          <6> QED
            BY <1>12, <6>1, <6>2, Zenon
        <5> QED
          BY <5>1, <5>2
      <4> QED
        BY <1>8, <1>9, <2>1, <2>7, <3>1, <4>1, Zenon DEF InOrder
    <3>3. Counted(e)'
      <4>1. /\ Cardinality(Whole(sent[from])) \in Nat
            /\ Cardinality(Whole(sent[from] \o <<p>>)) =
                   Cardinality(Whole(sent[from])) + Len(Told(p))
        BY <1>1, WholeCount
      <4>2. Told(p) \in Seq(Seq(Byte)) /\ s.packets \in Seq(Seq(Byte))
        BY <1>1, <1>11 DEF Told
      <4>3. Len(s.packets \o Told(p)) = Len(s.packets) + Len(Told(p))
        BY <4>2
      <4>4. /\ Len(Arrived(e)) \in Nat /\ Len(s.packets) \in Nat
            /\ Len(Told(p)) \in Nat
        BY <1>1, <4>2
      <4>5. Cardinality(Whole(sent[from])) =
                Len(Arrived(e)) + dropped[e] + Len(s.packets)
        BY <1>7, <2>2 DEF Counted, s
      <4>6. Cardinality(Whole(sent[from] \o <<p>>)) =
                Len(Arrived(e)) + dropped[e] + Len(s.packets \o Told(p))
        <5>1. dropped[e] \in Nat
          BY <1>1
        <5> DEFINE c == Cardinality(Whole(sent[from]))
                   d == Len(Told(p))
                   a == Len(Arrived(e))
                   f == Len(s.packets)
        <5>2. /\ Cardinality(Whole(sent[from] \o <<p>>)) = c + d
              /\ Len(s.packets \o Told(p)) = f + d
              /\ c = a + dropped[e] + f
              /\ a \in Nat /\ f \in Nat /\ d \in Nat
          BY <4>1, <4>3, <4>4, <4>5, Zenon
        <5> HIDE DEF c, d, a, f
        <5>3. c + d = a + dropped[e] + (f + d)
          BY <5>1, <5>2
        <5> QED
          BY <5>2, <5>3, Zenon DEF a
      <4> QED
        BY <1>8, <1>9, <2>1, <2>7, <3>1, <4>6, Zenon DEF Counted
    <3> QED
      BY <1>9, <2>5, <3>2, <3>3 DEF StreamKept
  <2> QED
    BY <2>6, <2>7
<1> QED
  BY <1>13, <1>14

(* Steps that touch neither bytes nor packets.                             *)
LEMMA ControlIsQuiet ==
    ASSUME NEW e \in End, UNCHANGED <<sending, receiving, wire>>,
           Intact(e)' => Intact(e)
    PROVE  Quiet(e)
  BY DEF Quiet, sending, receiving, Arrived

(* Steps of the sending threads of the end that receives.                  *)
LEMMA OwnSendsAreQuiet ==
    ASSUME TcpTyped, NEW e \in End, NEW t \in Thread, EndOf[t] # Other(e),
           SendSteps(t)
    PROVE  Quiet(e)
<1>1. /\ EndOf[t] \in End /\ EndOf[t] = e /\ Other(e) \in End /\ Other(e) # e
  BY OtherEnd, TcpAssumption
<1>2. /\ sender \in [Thread -> {"idle", "called", "sending"}]
      /\ left \in [Thread -> Seq(Byte)] /\ packet \in [Thread -> Seq(Byte)]
      /\ wire \in [End -> Seq(Byte)] /\ sent \in [End -> Seq(Seq(Byte))]
  BY DEF TcpTyped, TcpTypeOK
<1>3. CASE BeginFrame(t)
  <2>1. \A u \in Thread : u # t => /\ sender'[u] = sender[u]
                                   /\ left'[u] = left[u]
                                   /\ packet'[u] = packet[u]
    BY <1>2, <1>3 DEF BeginFrame, Returns
  <2>2. UNCHANGED <<control, receiving, sent, wire, broken>>
    BY <1>3 DEF BeginFrame
  <2> QED
    BY <1>1, <2>1, <2>2 DEF Quiet, receiving, control, Arrived, Intact
<1>4. CASE SendBytes(t)
  <2>1. /\ UNCHANGED <<control, receiving, sender, packet, sent, broken>>
        /\ \A u \in Thread : u # t => left'[u] = left[u]
        /\ wire'[Other(e)] = wire[Other(e)]
    BY <1>1, <1>2, <1>4 DEF SendBytes
  <2> QED
    BY <1>1, <2>1 DEF Quiet, receiving, control, Arrived, Intact
<1>5. CASE EndFrame(t)
  <2>1. \A u \in Thread : u # t => /\ sender'[u] = sender[u]
                                   /\ left'[u] = left[u]
                                   /\ packet'[u] = packet[u]
    BY <1>2, <1>5 DEF EndFrame, Returns
  <2>2. /\ UNCHANGED <<control, receiving, wire, broken>>
        /\ sent'[Other(e)] = sent[Other(e)]
    BY <1>1, <1>2, <1>5 DEF EndFrame
  <2> QED
    BY <1>1, <2>1, <2>2 DEF Quiet, receiving, control, Arrived, Intact
<1>6. CASE SendFails(t)
  <2>1. \A u \in Thread : u # t => /\ sender'[u] = sender[u]
                                   /\ left'[u] = left[u]
                                   /\ packet'[u] = packet[u]
    BY <1>2, <1>6 DEF SendFails, Returns
  <2>2. UNCHANGED <<fd, receiving, sent, wire, broken>>
    BY <1>6 DEF SendFails
  <2> QED
    BY <1>1, <2>1, <2>2 DEF Quiet, receiving, Arrived, Intact
<1> QED
  BY <1>3, <1>4, <1>5, <1>6 DEF SendSteps

(* Every step keeps the invariant of the stream.                           *)
LEMMA StreamStep ==
    ASSUME TcpTyped, ReaderKnows, OneWrites, [TcpNext]_tcpVars,
           NEW e \in End, StreamKept(e)
    PROVE  StreamKept(e)'
<1>1. /\ fd \in [End -> {"none", "open", "shut"}]
      /\ "server" \in End /\ "client" \in End
      /\ buffer \in [End -> Seq(Byte)] /\ wire \in [End -> Seq(Byte)]
      /\ incoming \in [End -> Seq(Seq(Byte))]
      /\ handled \in [End -> Seq(Seq(Byte))] /\ dropped \in [End -> Nat]
      /\ sender \in [Thread -> {"idle", "called", "sending"}]
      /\ packet \in [Thread -> Seq(Byte)]
      /\ left \in [Thread -> Seq(Byte)]
  BY DEF TcpTyped, TcpTypeOK, End
<1>2. Other(e) \in End /\ Other(e) # e /\ Other(Other(e)) = e
  BY OtherEnd
<1>3. Quiet(e) => StreamKept(e)'
  BY QuietKeeps
<1>4. CASE UNCHANGED tcpVars
  <2>1. UNCHANGED <<sending, receiving, wire, fd, broken>>
    BY <1>4 DEF tcpVars, control
  <2>2. Intact(e)' => Intact(e)
    BY <2>1 DEF Intact
  <2> QED
    BY <1>3, <2>1, <2>2, ControlIsQuiet
<1>5. CASE StartServer \/ AcceptFails \/ AttachSocket \/ GoOnline
  <2>1. UNCHANGED <<sending, receiving, wire, fd, broken>>
    BY <1>5 DEF StartServer, AcceptFails, AttachSocket, GoOnline
  <2>2. Intact(e)' => Intact(e)
    BY <2>1 DEF Intact
  <2> QED
    BY <1>3, <2>1, <2>2, ControlIsQuiet
<1>6. CASE StartClient
  <2>1. UNCHANGED <<sending, receiving, wire, broken>>
    BY <1>6 DEF StartClient
  <2>2. Intact(e)' => Intact(e)
    BY <1>1, <1>6 DEF Intact, StartClient, ReaderKnows
  <2> QED
    BY <1>3, <2>1, <2>2, ControlIsQuiet
<1>7. CASE Accept
  <2>1. UNCHANGED <<sending, receiving, wire, broken>>
    BY <1>7 DEF Accept
  <2>2. Intact(e)' => Intact(e)
    BY <1>1, <1>7 DEF Intact, Accept, ReaderKnows
  <2> QED
    BY <1>3, <2>1, <2>2, ControlIsQuiet
<1>8. CASE Break
  <2>1. /\ wire'[Other(e)] = <<>> /\ buffer' = buffer
        /\ UNCHANGED <<handled, incoming, sending>>
    BY <1>2, <1>8 DEF Break, receiving
  <2>2. ~Intact(e)'
    BY <1>8 DEF Break, Intact
  <2> QED
    BY <2>1, <2>2, LostKeeps
<1>9. ASSUME NEW f \in End, ReaderLoops(f) \/ ReceiveEnds(f) \/ ReaderEnds(f)
                            \/ StopBegins(f) \/ StopJoins(f)
      PROVE  StreamKept(e)'
  <2>1. UNCHANGED <<sending, receiving, wire, fd, broken>>
    BY <1>9 DEF ReaderLoops, ReceiveEnds, ReaderEnds, StopBegins, StopJoins
  <2>2. Intact(e)' => Intact(e)
    BY <2>1 DEF Intact
  <2> QED
    BY <1>3, <2>1, <2>2, ControlIsQuiet
<1>10. ASSUME NEW f \in End, StopListen(f)
       PROVE  StreamKept(e)'
  <2>1. UNCHANGED <<sending, receiving, wire, fd>>
    BY <1>10 DEF StopListen
  <2>2. Intact(e)' => Intact(e)
    BY <1>10, <2>1 DEF Intact, StopListen
  <2> QED
    BY <1>3, <2>1, <2>2, ControlIsQuiet
<1>11. ASSUME NEW f \in End, StopData(f)
       PROVE  StreamKept(e)'
  <2>1. UNCHANGED <<sending, receiving, broken>>
    BY <1>11 DEF StopData
  <2>2. CASE data[f] /\ f = e
    <3>1. wire'[Other(e)] = <<>> /\ fd'[e] = "shut"
      BY <1>1, <1>2, <1>11, <2>2 DEF StopData
    <3>2. ~Intact(e)'
      BY <3>1 DEF Intact
    <3>3. buffer' = buffer /\ UNCHANGED <<handled, incoming, sending>>
      BY <2>1 DEF receiving
    <3> QED
      BY <3>1, <3>2, <3>3, LostKeeps
  <2>3. CASE data[f] /\ f # e
    <3>1. Other(f) = e
      BY <2>3, OtherEnd
    <3>2. wire'[Other(e)] = wire[Other(e)] /\ fd'[e] = fd[e]
      BY <1>1, <1>2, <1>11, <2>3, <3>1 DEF StopData
    <3> QED
      BY <1>3, <2>1, <3>2 DEF Quiet, Intact, sending, receiving, Arrived
  <2>4. CASE ~data[f]
    <3>1. UNCHANGED <<fd, wire>>
      BY <1>11, <2>4 DEF StopData
    <3>2. Intact(e)' => Intact(e)
      BY <2>1, <3>1 DEF Intact
    <3> QED
      BY <1>3, <2>1, <3>1, <3>2, ControlIsQuiet
  <2> QED
    BY <2>2, <2>3, <2>4
<1>12. ASSUME NEW f \in End, Receive(f)
       PROVE  StreamKept(e)'
  <2>1. CASE f = e
    BY <1>12, <2>1, ReceiveKeeps
  <2>2. CASE f # e
    <3>1. Other(f) = e
      BY <2>2, OtherEnd
    <3>2. /\ buffer'[e] = buffer[e] /\ incoming'[e] = incoming[e]
          /\ dropped'[e] = dropped[e] /\ wire'[Other(e)] = wire[Other(e)]
      BY <1>1, <1>2, <1>12, <2>2, <3>1 DEF Receive
    <3>3. UNCHANGED <<sending, handled, fd, broken>>
      BY <1>12 DEF Receive
    <3> QED
      BY <1>3, <3>2, <3>3 DEF Quiet, Intact, sending, Arrived
  <2> QED
    BY <2>1, <2>2
<1>13. ASSUME NEW f \in End, DrainBegins(f) \/ DrainEnds(f)
       PROVE  StreamKept(e)'
  <2>1. UNCHANGED <<control, sending, buffer, incoming, handled, dropped, wire,
                    broken>>
    BY <1>13 DEF DrainBegins, DrainEnds
  <2> QED
    BY <1>3, <2>1 DEF Quiet, Intact, sending, control, Arrived
<1>14. ASSUME NEW f \in End, DrainOne(f)
       PROVE  StreamKept(e)'
  <2>1. UNCHANGED <<control, sending, buffer, dropped, wire, broken>>
    BY <1>14 DEF DrainOne
  <2>2. Arrived(e)' = Arrived(e)
    <3>1. CASE f = e
      <4> DEFINE h == handled[e]
                 q == incoming[e]
      <4>1. h \in Seq(Seq(Byte)) /\ q \in Seq(Seq(Byte)) /\ q # <<>>
        BY <1>1, <1>14, <3>1 DEF DrainOne
      <4>2. handled'[e] = Append(h, Head(q)) /\ incoming'[e] = Tail(q)
        BY <1>1, <1>14, <3>1 DEF DrainOne
      <4> HIDE DEF h, q
      <4>3. Append(h, Head(q)) \o Tail(q) = h \o q
        BY <4>1
      <4> QED
        BY <4>2, <4>3 DEF Arrived, h, q
    <3>2. CASE f # e
      BY <1>1, <1>14, <3>2 DEF DrainOne, Arrived
    <3> QED
      BY <3>1, <3>2
  <2> QED
    BY <1>3, <2>1, <2>2 DEF Quiet, Intact, sending, control
<1>15. ASSUME NEW t \in Thread, CallSend(t)
       PROVE  StreamKept(e)'
  <2>1. /\ UNCHANGED <<control, receiving, left, sent, wire, broken>>
        /\ sender[t] # "sending" /\ sender'[t] # "sending"
        /\ \A u \in Thread : u # t => /\ sender'[u] = sender[u]
                                      /\ packet'[u] = packet[u]
    BY <1>1, <1>15 DEF CallSend
  <2> QED
    BY <1>3, <2>1 DEF Quiet, Intact, control, receiving, Arrived
<1>16. ASSUME NEW t \in Thread, SendSteps(t)
       PROVE  StreamKept(e)'
  <2>1. CASE EndOf[t] # Other(e)
    BY <1>3, <1>16, <2>1, OwnSendsAreQuiet
  <2>2. CASE EndOf[t] = Other(e)
    <3>1. CASE BeginFrame(t) /\ data[Other(e)]
      BY <2>2, <3>1, BeginKeeps
    <3>2. CASE BeginFrame(t) /\ ~data[Other(e)]
      <4>1. /\ UNCHANGED <<control, receiving, sent, wire, broken>>
            /\ sender[t] # "sending" /\ sender'[t] # "sending"
            /\ \A u \in Thread : u # t => /\ sender'[u] = sender[u]
                                          /\ left'[u] = left[u]
                                          /\ packet'[u] = packet[u]
        BY <1>1, <2>2, <3>2 DEF BeginFrame, Returns
      <4> QED
        BY <1>3, <4>1 DEF Quiet, Intact, control, receiving, Arrived
    <3>3. CASE SendBytes(t)
      BY <2>2, <3>3, SendKeeps
    <3>4. CASE EndFrame(t)
      BY <2>2, <3>4, EndKeeps
    <3>5. CASE SendFails(t)
      BY <2>2, <3>5, FailKeeps
    <3> QED
      BY <1>16, <3>1, <3>2, <3>3, <3>4, <3>5 DEF SendSteps
  <2> QED
    BY <2>1, <2>2
<1> QED
  BY <1>4, <1>5, <1>6, <1>7, <1>8, <1>9, <1>10, <1>11, <1>12, <1>13, <1>14,
     <1>15, <1>16, Zenon
     DEF TcpNext, ReaderSteps, DrainSteps, StopSteps

-----------------------------------------------------------------------------
(* Theorems of the interface.                                              *)

(* The inductive invariant.                                                *)
TcpInv ==
    /\ TcpTyped
    /\ ReaderKnows
    /\ OneWrites
    /\ \A e \in End : StreamKept(e)

(* The inductive invariant holds throughout.                               *)
LEMMA TcpInvariant == TcpSpec => []TcpInv
<1>1. TcpInit => TcpInv
  BY TcpInitTyped, ControlInit, StreamInit DEF TcpInv
<1>2. TcpInv /\ [TcpNext]_tcpVars => TcpInv'
  <2> SUFFICES ASSUME TcpInv, [TcpNext]_tcpVars PROVE TcpInv'
    OBVIOUS
  <2>1. /\ TcpTyped /\ ReaderKnows /\ OneWrites
        /\ \A e \in End : StreamKept(e)
    BY DEF TcpInv
  <2>2. TcpTyped'
    BY <2>1, TcpStepTyped
  <2>3. ReaderKnows' /\ OneWrites'
    BY <2>1, ReaderStep, WritersStep
  <2>4. \A e \in End : StreamKept(e)'
    BY <2>1, StreamStep
  <2> QED
    BY <2>2, <2>3, <2>4 DEF TcpInv
<1> QED
  BY <1>1, <1>2, PTL DEF TcpSpec

(* The variables keep their types, for all threads, packets and limits.    *)
THEOREM TcpTypeCorrect == TcpSpec => []TcpTypeOK
<1>1. TcpInv => TcpTypeOK
  BY DEF TcpInv, TcpTyped
<1> QED
  BY <1>1, TcpInvariant, PTL

(* An interface whose reader thread has ended is offline, whatever the     *)
(* order in which the reader and stop_iface() came last.                   *)
THEOREM EndedReadersAreOffline == TcpSpec => []EndedIsOffline
<1>1. TcpInv => EndedIsOffline
  BY DEF TcpInv, ReaderKnows, EndedIsOffline
<1> QED
  BY <1>1, TcpInvariant, PTL

(* Whatever arrives at one end has been sent at the other, in this order,  *)
(* for all packets and however many threads send at once.                  *)
THEOREM ArrivalsWereSent == TcpSpec => []ArrivedWereSent
<1>1. TcpInv => ArrivedWereSent
  <2> SUFFICES ASSUME TcpInv, NEW e \in End
               PROVE  LET ending == {t \in Thread : EndOf[t] = Other(e) /\ sender[t] = "sending"}
                          all == sent[Other(e)] \o
                                     (IF ending = {} THEN <<>>
                                      ELSE <<packet[CHOOSE t \in ending : TRUE]>>)
                      IN  Embeds(Arrived(e), all)
    BY Zenon DEF ArrivedWereSent, Embeds
  <2> DEFINE from == Other(e)
             ending == {t \in Thread : EndOf[t] = from /\ sender[t] = "sending"}
             all == sent[from] \o (IF ending = {} THEN <<>>
                                   ELSE <<packet[CHOOSE t \in ending : TRUE]>>)
  <2>1. TcpTyped /\ OneWrites /\ StreamKept(e)
    BY DEF TcpInv
  <2>2. /\ sent[from] \in Seq(Seq(Byte)) /\ packet \in [Thread -> Seq(Byte)]
        /\ Arrived(e) \in Seq(Seq(Byte)) /\ Stream(e).packets \in Seq(Seq(Byte))
    BY <2>1, StreamTyped DEF TcpTyped
  <2>3. Embeds(Arrived(e), Ended(from))
    <3>1. Embeds(Arrived(e), Arrived(e) \o Stream(e).packets)
      BY <2>2, EmbedsPrefix
    <3> QED
      BY <2>1, <3>1, EmbedsThrough DEF StreamKept, InOrder
  <2>4. CASE ending = {}
    <3>1. \A t \in Thread : EndOf[t] = from /\ sender[t] = "sending" => left[t] # <<>>
      BY <2>4
    <3>2. EndedIn(sent[from], sender, left, packet, from) = sent[from]
      BY <2>2, <3>1, EndedNone
    <3>3. sent[from] \o <<>> = sent[from]
      BY <2>2
    <3>4. all = sent[from]
      BY <2>4, <3>3, Zenon
    <3> QED
      BY <2>3, <3>2, <3>4 DEF Ended
  <2>5. CASE ending # {}
    <3> DEFINE t == CHOOSE u \in ending : TRUE
    <3>1. t \in ending
      BY <2>5, Zenon
    <3>2. all = sent[from] \o <<packet[t]>>
      BY <2>5, Zenon
    <3> HIDE DEF t, all
    <3>3. /\ t \in Thread /\ EndOf[t] = from /\ sender[t] = "sending"
          /\ packet[t] \in Seq(Byte)
      BY <2>2, <3>1
    <3>4. \A u \in Thread : EndOf[u] = from /\ sender[u] = "sending" => u = t
      BY <2>1, <3>3, SoleWriter
    <3>5. CASE left[t] = <<>>
      <4>1. Finished(t, sender, left, from)
        BY <3>3, <3>5 DEF Finished
      <4>2. EndedIn(sent[from], sender, left, packet, from) =
                With(sent[from], packet[t])
        <5>1. sent[from] \in Seq(Seq(Byte)) /\ t \in Thread
          BY <2>2, <3>3
        <5> HIDE DEF ending
        <5> QED
          BY <3>4, <4>1, <5>1, EndedOne
      <4> QED
        BY <2>3, <3>2, <4>2, Zenon DEF Ended, With, all
    <3>6. CASE left[t] # <<>>
      <4>1. \A u \in Thread : EndOf[u] = from /\ sender[u] = "sending"
                                  => left[u] # <<>>
        BY <3>4, <3>6
      <4>2. EndedIn(sent[from], sender, left, packet, from) = sent[from]
        BY <2>2, <4>1, EndedNone
      <4>3. <<packet[t]>> \in Seq(Seq(Byte))
        BY <3>3
      <4>4. Embeds(sent[from], sent[from] \o <<packet[t]>>)
        BY <2>2, <4>3, EmbedsPrefix
      <4>5. Embeds(Arrived(e), sent[from])
        BY <2>3, <4>2, Zenon DEF Ended
      <4>6. Embeds(Arrived(e), sent[from] \o <<packet[t]>>)
        BY <4>4, <4>5, EmbedsThrough, Zenon
      <4> QED
        BY <3>2, <4>6, Zenon DEF all
    <3> QED
      BY <3>5, <3>6
  <2> QED
    BY <2>4, <2>5
<1> QED
  BY <1>1, TcpInvariant, PTL

(* What has been sent and is no longer on its way has arrived or was       *)
(* dropped from a full queue: none is lost, none arrives twice.            *)
THEOREM SendsAreAccounted == TcpSpec => []SentAreAccounted
<1>1. TcpInv => SentAreAccounted
  <2> SUFFICES ASSUME TcpInv, NEW e \in End,
                      ~broken, \A k \in End : fd[k] = "open",
                      wire[Other(e)] = <<>>,
                      \A t \in Thread : EndOf[t] = Other(e) => sender[t] # "sending"
               PROVE  Cardinality(Whole(sent[Other(e)])) =
                          Len(Arrived(e)) + dropped[e]
    BY Zenon DEF SentAreAccounted
  <2> DEFINE from == Other(e)
  <2>1. TcpTyped /\ StreamKept(e)
    BY DEF TcpInv
  <2>2. sent[from] \in Seq(Seq(Byte)) /\ buffer[e] \in Seq(Byte)
        /\ Arrived(e) \in Seq(Seq(Byte)) /\ dropped[e] \in Nat
    BY <2>1, StreamTyped
  <2>3. Intact(e)
    BY DEF Intact
  <2>4. Counted(e)
    BY <2>1, <2>3 DEF StreamKept
  <2>5. Stream(e).packets = <<>>
    <3>1. buffer[e] \o <<>> = buffer[e]
      BY <2>2
    <3>2. Stream(e) = Read(buffer[e])
      BY <3>1 DEF Stream
    <3> QED
      BY <2>1, <3>2 DEF StreamKept, Packets
  <2>6. Ended(from) = sent[from]
    <3>1. sent[from] \in Seq(Seq(Byte))
      BY <2>2
    <3>2. EndedIn(sent[from], sender, left, packet, from) = sent[from]
      BY <3>1, EndedNone
    <3> QED
      BY <3>2 DEF Ended
  <2>7. Len(<<>>) = 0 /\ Len(Arrived(e)) \in Nat
    BY <2>2
  <2> QED
    BY <2>2, <2>4, <2>5, <2>6, <2>7 DEF Counted
<1> QED
  BY <1>1, TcpInvariant, PTL

-----------------------------------------------------------------------------
(* SyncBridge.  The flag of the worker is read without the mutex, so the   *)
(* argument goes through the mutex: while the worker holds it no call can  *)
(* enter, and the request it has taken belongs to the call that is being   *)
(* served.                                                                 *)

USE BridgeAssumption

(* What a router step may do to the sync, whichever it is.                 *)
LEMMA RouterStepsAreTyped ==
    ASSUME phase \in Phase, heard \in 0..1, Begin \/ Fail \/ Complete \/ Resume
    PROVE  phase' \in Phase /\ heard' \in 0..1
  BY DEF Begin, Fail, Complete, Resume, Phase

(* A request to the router, made while a sync is under way or not.         *)
LEMMA RequestsAreTyped ==
    ASSUME phase \in Phase, heard \in 0..1, BeginUnlessBusy
    PROVE  phase' \in Phase /\ heard' \in 0..1
<1>1. CASE phase = "busy"
  BY <1>1 DEF BeginUnlessBusy, syncContractVars
<1>2. CASE phase # "busy"
  BY <1>2, RouterStepsAreTyped DEF BeginUnlessBusy
<1> QED
  BY <1>1, <1>2

(* The invariant holds at the start.                                       *)
LEMMA BridgeInitEstablishes == BridgeInit => BridgeInv
<1> SUFFICES ASSUME BridgeInit PROVE BridgeInv
  OBVIOUS
<1>1. BridgeTypeOK
  <2>1. 0 \in 0..MaxCalls /\ 0 \in 0..1
    OBVIOUS
  <2> QED
    BY <2>1, Zenon DEF BridgeInit, SyncContractInit, BridgeTypeOK, Phase
<1>2. CallbackIsOfThisCall /\ StartedIsOurs
  BY DEF BridgeInit, CallbackIsOfThisCall, StartedIsOurs
<1>3. HeldMeansTaken /\ AttachedMeansTaken
  BY DEF BridgeInit, HeldMeansTaken, AttachedMeansTaken
<1> QED
  BY <1>1, <1>2, <1>3 DEF BridgeInv

(* Every step of either thread keeps it.                                   *)
LEMMA BridgeStepKeeps == BridgeInv /\ [BridgeNext]_bridgeVars => BridgeInv'
<1> SUFFICES ASSUME BridgeInv, [BridgeNext]_bridgeVars PROVE BridgeInv'
  OBVIOUS
<1> USE DEF BridgeInv, BridgeTypeOK, CallbackIsOfThisCall, StartedIsOurs,
            HeldMeansTaken, AttachedMeansTaken
<1>1. CASE WorkerTakesRequest
  <2>1. phase' \in Phase /\ heard' \in 0..1
    BY <1>1, RequestsAreTyped DEF WorkerTakesRequest
  <2>2. /\ mutex' = "worker" /\ pending' = FALSE /\ taken' = TRUE
        /\ UNCHANGED <<started, callback, call, pc, attach, late, state,
                       completed, result, fresh>>
    BY <1>1 DEF WorkerTakesRequest
  <2>3. BridgeTypeOK'
    <3>1. BridgeTypeOK
      OBVIOUS
    <3>2. /\ mutex' = "worker" /\ pending' = FALSE /\ taken' = TRUE
          /\ started' = started /\ callback' = callback /\ call' = call
          /\ pc' = pc /\ attach' = attach /\ late' = late /\ state' = state
          /\ completed' = completed /\ result' = result /\ fresh' = fresh
      BY <2>2
    <3> HIDE DEF BridgeInv, CallbackIsOfThisCall, StartedIsOurs,
                 HeldMeansTaken, AttachedMeansTaken
    <3>3. /\ mutex' \in {"free", "worker"} /\ pending' \in BOOLEAN
          /\ started' \in BOOLEAN /\ callback' \in 0..MaxCalls
          /\ call' \in 0..MaxCalls
          /\ attach' \in BOOLEAN /\ late' \in BOOLEAN
      BY <3>1, <3>2
    <3>4. /\ pc' \in {"outside", "entered", "armed", "loop", "read",
                      "checked", "done"}
          /\ result' \in {"none", "complete", "failed", "timeout"}
      BY <3>1, <3>2, Zenon
    <3>5. /\ state' \in Phase /\ completed' \in BOOLEAN /\ fresh' \in BOOLEAN
          /\ taken' \in BOOLEAN
      BY <3>1, <3>2
    <3> QED
      BY <2>1, <3>3, <3>4, <3>5, Zenon
  <2>4. CallbackIsOfThisCall' /\ StartedIsOurs' /\ HeldMeansTaken'
        /\ AttachedMeansTaken'
    BY <2>2
  <2> QED
    BY <2>3, <2>4
<1>2. CASE WorkerThrows
  <2>1. phase' \in Phase /\ heard' \in 0..1
    BY <1>2, RequestsAreTyped DEF WorkerThrows
  <2>2. /\ mutex' = mutex /\ pending' = FALSE /\ taken' = TRUE
        /\ UNCHANGED <<started, callback, call, pc, attach, late, state,
                       completed, result, fresh>>
    BY <1>2 DEF WorkerThrows
  <2>3. BridgeTypeOK'
    <3>1. BridgeTypeOK
      OBVIOUS
    <3>2. /\ mutex' = mutex /\ pending' = FALSE /\ taken' = TRUE
          /\ started' = started /\ callback' = callback /\ call' = call
          /\ pc' = pc /\ attach' = attach /\ late' = late /\ state' = state
          /\ completed' = completed /\ result' = result /\ fresh' = fresh
      BY <2>2
    <3> HIDE DEF BridgeInv, CallbackIsOfThisCall, StartedIsOurs,
                 HeldMeansTaken, AttachedMeansTaken
    <3>3. /\ mutex' \in {"free", "worker"} /\ pending' \in BOOLEAN
          /\ started' \in BOOLEAN /\ callback' \in 0..MaxCalls
          /\ call' \in 0..MaxCalls
          /\ attach' \in BOOLEAN /\ late' \in BOOLEAN
      BY <3>1, <3>2
    <3>4. /\ pc' \in {"outside", "entered", "armed", "loop", "read",
                      "checked", "done"}
          /\ result' \in {"none", "complete", "failed", "timeout"}
      BY <3>1, <3>2, Zenon
    <3>5. /\ state' \in Phase /\ completed' \in BOOLEAN /\ fresh' \in BOOLEAN
          /\ taken' \in BOOLEAN
      BY <3>1, <3>2
    <3> QED
      BY <2>1, <3>3, <3>4, <3>5, Zenon
  <2>4. CallbackIsOfThisCall' /\ StartedIsOurs' /\ HeldMeansTaken'
        /\ AttachedMeansTaken'
    BY <2>2
  <2> QED
    BY <2>3, <2>4
<1>3. CASE WorkerMarksStarted
  BY <1>3 DEF WorkerMarksStarted, syncContractVars, callVars
<1>4. CASE RouterStep
  <2>1. phase' \in Phase /\ heard' \in 0..1
    BY <1>4, RouterStepsAreTyped DEF RouterStep
  <2>2. completed' \in BOOLEAN
    BY <1>4 DEF RouterStep
  <2> QED
    BY <1>4, <2>1, <2>2 DEF RouterStep, workerVars
<1>5. CASE Enter
  <2>1. attach' \in BOOLEAN /\ taken' \in BOOLEAN /\ (attach' => taken')
    BY <1>5 DEF Enter
  <2>2. mutex' = "free" /\ pc' = "entered" /\ call' = call + 1
        /\ callback' = call'
    BY <1>5 DEF Enter, workerVars
  <2>3. call' \in 0..MaxCalls
    BY <1>5 DEF Enter
  <2>4. /\ completed' = FALSE /\ late' = FALSE /\ fresh' = FALSE
        /\ result' = "none"
        /\ UNCHANGED <<phase, heard, pending, started, state>>
    BY <1>5 DEF Enter, syncContractVars, workerVars
  <2>5. BridgeTypeOK'
    BY <2>1, <2>2, <2>3, <2>4, Zenon
  <2>6. StartedIsOurs' /\ HeldMeansTaken'
    BY <2>2
  <2>7. CallbackIsOfThisCall'
    BY <2>2
  <2> QED
    BY <2>1, <2>5, <2>6, <2>7
<1>6. CASE Arm
  BY <1>6 DEF Arm, syncContractVars
<1>7. CASE Ask
  BY <1>7 DEF Ask, syncContractVars
<1>8. CASE ReadState
  BY <1>8 DEF ReadState, syncContractVars, workerVars
<1>9. CASE LookAtCallback
  BY <1>9 DEF LookAtCallback, Conclude, syncContractVars, workerVars
<1>10. CASE LookAtState
  <2>1. /\ pc' \in {"done", "loop"}
        /\ result' \in {"none", "complete", "failed", "timeout"}
        /\ UNCHANGED <<phase, heard, mutex, pending, started, callback, call,
                       attach, late, state, completed, taken, fresh>>
    BY <1>10 DEF LookAtState, Conclude, syncContractVars, workerVars
  <2>2. pc = "checked"
    BY <1>10 DEF LookAtState
  <2> QED
    BY <2>1, <2>2
<1>11. CASE TimeOut
  BY <1>11 DEF TimeOut, Conclude, syncContractVars, workerVars
<1>12. CASE Return
  <2>1. /\ callback' = 0
        /\ pc' = "outside"
        /\ started' \in BOOLEAN
        /\ UNCHANGED <<phase, heard, mutex, pending, call, attach, late, state,
                       completed, result, taken, fresh>>
    BY <1>12 DEF Return, syncContractVars
  <2>2. 0 \in 0..MaxCalls
    OBVIOUS
  <2>3. BridgeTypeOK'
    BY <2>1, <2>2, Zenon
  <2>4. CallbackIsOfThisCall' /\ StartedIsOurs' /\ HeldMeansTaken'
        /\ AttachedMeansTaken'
    BY <2>1
  <2> QED
    BY <2>3, <2>4
<1>13. CASE DeadlinePasses
  BY <1>13 DEF DeadlinePasses, syncContractVars, workerVars
<1>14. CASE UNCHANGED bridgeVars
  BY <1>14 DEF bridgeVars, syncContractVars, workerVars, callVars
<1> QED
  BY <1>1, <1>2, <1>3, <1>4, <1>5, <1>6, <1>7, <1>8, <1>9, <1>10, <1>11,
     <1>12, <1>13, <1>14 DEF BridgeNext, Work, Serve

(* The invariant holds in every reachable state.                           *)
LEMMA BridgeInvariance == BridgeSafeSpec => []BridgeInv
  BY BridgeInitEstablishes, BridgeStepKeeps, PTL DEF BridgeSafeSpec

(* No completion reaches the callback of a call that has returned.         *)
THEOREM NoCallbackOutlivesItsCall == BridgeSafeSpec => []CallbackIsOfThisCall
<1>1. BridgeInv => CallbackIsOfThisCall
  BY DEF BridgeInv
<1> QED
  BY <1>1, BridgeInvariance, PTL

(* The flag a call reads without the mutex is that of a request begun      *)
(* since the call entered.                                                 *)
THEOREM FlagIsOfThisCall == BridgeSafeSpec => []StartedIsOurs
<1>1. BridgeInv => StartedIsOurs
  BY DEF BridgeInv
<1> QED
  BY <1>1, BridgeInvariance, PTL
=============================================================================
