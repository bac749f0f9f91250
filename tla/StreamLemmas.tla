---------------------------- MODULE StreamLemmas ----------------------------
(***************************************************************************)
(* What a decoder can rely on in a stream of frames, whatever the frames   *)
(* are and wherever the stream is cut: Flow describes the bytes of one     *)
(* direction that their reader has not acted on, and the lemmas say what   *)
(* writing, losing and reading do to it.                                   *)
(***************************************************************************)
EXTENDS WireLink, SequenceTheorems, WellFoundedInduction, TLAPS

Byte == Nat \X Nat
IsData(b) == b \notin {LF, CR}
AreFrames(F) == \A f \in F : f.size \in Nat \ {0} /\ f.cr \in BOOLEAN

\* From `start` on, S is frame a of the log, as far as S goes.
Block(S, a, f, start) ==
    /\ start >= 0
    /\ \A j \in 1 .. Len(Bytes(a, f)) : start + j <= Len(S) => S[start + j] = Bytes(a, f)[j]

\* From `start` on, S holds the whole of frame a.
WholeAt(S, a, f, start) ==
    /\ start \in Nat /\ Len(Bytes(a, f)) \in Nat /\ start + Len(Bytes(a, f)) <= Len(S)
    /\ \A j \in 1 .. Len(Bytes(a, f)) : S[start + j] = Bytes(a, f)[j]

\* S is what is left of a log of which n frames are read, c being the first
\* frame its writer did not write whole (0: none).
InLog(S, log, n) ==
    \A i \in DOMAIN S : IsData(S[i]) =>
        S[i][1] \in n + 1 .. Len(log) /\ S[i][2] \in 1 .. log[S[i][1]].size

Ordered(S) ==
    \A i, j \in DOMAIN S : i < j /\ IsData(S[i]) /\ IsData(S[j]) =>
        S[i][1] < S[j][1] \/ (S[i][1] = S[j][1] /\ S[i][2] < S[j][2])

NoneLeftOut(S, n) ==
    \A i \in DOMAIN S : IsData(S[i]) /\ S[i][1] > n + 1 =>
        \E j \in 1 .. i - 1 : S[j] = <<S[i][1] - 1, 1>>

InBlocks(S, log, c) ==
    \A i \in DOMAIN S : IsData(S[i]) /\ (c = 0 \/ S[i][1] < c) =>
        Block(S, S[i][1], log[S[i][1]], i - S[i][2])

CRThenLF(S) == \A i \in DOMAIN S : S[i] = CR => i = Len(S) \/ S[i + 1] = LF

\* The cut frame is followed by no delimiter, even if only that was cut.
CutOpen(S, log, c) ==
    c # 0 => \A i \in DOMAIN S : S[i] = <<c, log[c].size>> => i = Len(S) \/ IsData(S[i + 1])

Flow(S, log, n, c) ==
    /\ InLog(S, log, n) /\ Ordered(S) /\ NoneLeftOut(S, n)
    /\ InBlocks(S, log, c) /\ CRThenLF(S) /\ CutOpen(S, log, c)

\* Nothing is lost: every unread frame begins in S, and one before the cut ends
\* in it, too.
Present(S, log, n, c) ==
    /\ \A a \in n + 1 .. Len(log) : \E i \in DOMAIN S :
         /\ S[i] = <<a, 1>>
         /\ c = 0 \/ a < c => i - 1 + Len(Bytes(a, log[a])) <= Len(S)
    /\ S # <<>> => S[Len(S)] # CR
-----------------------------------------------------------------------------
LEMMA DataBytes ==
    /\ LF \in Byte /\ CR \in Byte /\ LF # CR /\ ~IsData(LF) /\ ~IsData(CR)
    /\ \A a \in Nat \ {0}, k \in Nat : <<a, k>> \in Byte /\ IsData(<<a, k>>)
    /\ \A b \in Byte : /\ b[1] \in Nat /\ b[2] \in Nat /\ b = <<b[1], b[2]>>
                       /\ ~IsData(b) => b = LF \/ b = CR
  BY DEF Byte, IsData, LF, CR

\* The bytes of a frame, and its delimiter.
LEMMA BytesOf ==
    ASSUME NEW a \in Nat \ {0}, NEW f, f.size \in Nat \ {0}, f.cr \in BOOLEAN
    PROVE  /\ Bytes(a, f) \in Seq(Byte)
           /\ Len(Bytes(a, f)) = f.size + (IF f.cr THEN 2 ELSE 1)
           /\ \A j \in 1 .. f.size : Bytes(a, f)[j] = <<a, j>> /\ IsData(Bytes(a, f)[j])
           /\ f.cr => Bytes(a, f)[f.size + 1] = CR /\ Bytes(a, f)[f.size + 2] = LF
           /\ ~f.cr => Bytes(a, f)[f.size + 1] = LF
<1> DEFINE body == [k \in 1 .. f.size |-> <<a, k>>]
           delimiter == IF f.cr THEN <<CR, LF>> ELSE <<LF>>
<1>1. body \in Seq(Byte) /\ Len(body) = f.size /\ \A j \in 1 .. f.size : body[j] = <<a, j>>
  BY DataBytes, SMTT(30)
<1>2. /\ delimiter \in Seq(Byte) /\ Len(delimiter) = IF f.cr THEN 2 ELSE 1
      /\ f.cr => delimiter[1] = CR /\ delimiter[2] = LF
      /\ ~f.cr => delimiter[1] = LF
  BY DataBytes
<1>3. Bytes(a, f) = body \o delimiter
  BY DEF Bytes
<1> HIDE DEF body, delimiter
<1>4. /\ body \o delimiter \in Seq(Byte)
      /\ Len(body \o delimiter) = Len(body) + Len(delimiter)
      /\ \A i \in 1 .. Len(body) + Len(delimiter) :
           (body \o delimiter)[i] = IF i <= Len(body) THEN body[i] ELSE delimiter[i - Len(body)]
  <2>1. body \in Seq(Byte) /\ delimiter \in Seq(Byte)
    BY <1>1, <1>2
  <2> QED
    BY <2>1, ConcatProperties
<1>5. Len(Bytes(a, f)) = f.size + (IF f.cr THEN 2 ELSE 1)
  <2>1. Len(Bytes(a, f)) = f.size + Len(delimiter)
    BY <1>1, <1>3, <1>4
  <2> QED
    BY <2>1, <1>2
<1>6. \A j \in 1 .. f.size : Bytes(a, f)[j] = <<a, j>>
  <2>1. Len(delimiter) \in Nat
    BY <1>2
  <2> QED
    BY <1>1, <1>3, <1>4, <2>1
<1>7. \A j \in 1 .. f.size : IsData(Bytes(a, f)[j])
  BY <1>6, DataBytes
<1>8. ASSUME NEW d \in 1 .. Len(delimiter)
      PROVE  Bytes(a, f)[f.size + d] = delimiter[d]
  <2> DEFINE i == f.size + d
  <2>1. Len(delimiter) \in Nat /\ Len(body) = f.size
    BY <1>1, <1>2
  <2>2. i \in 1 .. Len(body) + Len(delimiter) /\ ~(i <= Len(body)) /\ i - Len(body) = d
    BY <2>1
  <2> HIDE DEF i
  <2>3. (body \o delimiter)[i] = delimiter[i - Len(body)]
    BY <1>4, <2>2
  <2> QED
    BY <1>3, <2>2, <2>3 DEF i
<1>9. ASSUME f.cr
      PROVE  Bytes(a, f)[f.size + 1] = CR /\ Bytes(a, f)[f.size + 2] = LF
  <2>1. Len(delimiter) = 2 /\ delimiter[1] = CR /\ delimiter[2] = LF
    BY <1>2, <1>9
  <2>2. 1 \in 1 .. Len(delimiter) /\ 2 \in 1 .. Len(delimiter)
    BY <2>1
  <2> QED
    BY <2>1, <2>2, <1>8
<1>10. ASSUME ~f.cr
       PROVE  Bytes(a, f)[f.size + 1] = LF
  <2>1. Len(delimiter) = 1 /\ delimiter[1] = LF
    BY <1>2, <1>10
  <2>2. 1 \in 1 .. Len(delimiter)
    BY <2>1
  <2> QED
    BY <2>1, <2>2, <1>8
<1>11. Bytes(a, f) \in Seq(Byte)
  BY <1>3, <1>4
<1>12. \A j \in 1 .. f.size : Bytes(a, f)[j] = <<a, j>> /\ IsData(Bytes(a, f)[j])
  BY <1>6, <1>7
<1> QED
  BY <1>5, <1>9, <1>10, <1>11, <1>12
LEMMA BytesEnds ==
    ASSUME NEW a \in Nat \ {0}, NEW f, f.size \in Nat \ {0}, f.cr \in BOOLEAN
    PROVE  /\ Len(Bytes(a, f)) \in Nat /\ Len(Bytes(a, f)) > f.size
           /\ Bytes(a, f)[1] = <<a, 1>>
           /\ Bytes(a, f)[Len(Bytes(a, f))] = LF
           /\ \A j \in 1 .. Len(Bytes(a, f)) - 1 : Bytes(a, f)[j] # LF
<1>1. CASE f.cr
  <2>1. Len(Bytes(a, f)) = f.size + 2
    BY <1>1, BytesOf
  <2>2. Bytes(a, f)[f.size + 1] = CR /\ Bytes(a, f)[f.size + 2] = LF
    BY <1>1, BytesOf
  <2>3. \A j \in 1 .. f.size : Bytes(a, f)[j] = <<a, j>> /\ IsData(Bytes(a, f)[j])
    BY BytesOf
  <2>4. \A j \in 1 .. f.size : Bytes(a, f)[j] # LF
    BY <2>3, DataBytes
  <2>5. ASSUME NEW j \in 1 .. Len(Bytes(a, f)) - 1
        PROVE  Bytes(a, f)[j] # LF
    <3>1. j \in 1 .. f.size \/ j = f.size + 1
      BY <2>1
    <3> QED
      BY <3>1, <2>2, <2>4, DataBytes
  <2>6. Bytes(a, f)[1] = <<a, 1>>
    BY <2>3
  <2> QED
    BY <2>1, <2>2, <2>5, <2>6
<1>2. CASE ~f.cr
  <2>1. Len(Bytes(a, f)) = f.size + 1
    BY <1>2, BytesOf
  <2>2. Bytes(a, f)[f.size + 1] = LF
    BY <1>2, BytesOf
  <2>3. \A j \in 1 .. f.size : Bytes(a, f)[j] = <<a, j>> /\ IsData(Bytes(a, f)[j])
    BY BytesOf
  <2>4. \A j \in 1 .. f.size : Bytes(a, f)[j] # LF
    BY <2>3, DataBytes
  <2>5. ASSUME NEW j \in 1 .. Len(Bytes(a, f)) - 1
        PROVE  Bytes(a, f)[j] # LF
    <3>1. j \in 1 .. f.size
      BY <2>1
    <3> QED
      BY <3>1, <2>4
  <2>6. Bytes(a, f)[1] = <<a, 1>>
    BY <2>3
  <2>7. Len(Bytes(a, f)) \in Nat /\ Len(Bytes(a, f)) > f.size
    BY <2>1
  <2>8. Bytes(a, f)[Len(Bytes(a, f))] = LF
    BY <2>1, <2>2
  <2> QED
    BY <2>5, <2>6, <2>7, <2>8
<1> QED
  BY <1>1, <1>2

\* What is left of S after its first m bytes.
LEMMA Rest ==
    ASSUME NEW T, NEW S \in Seq(T), NEW m \in 0 .. Len(S)
    PROVE  LET R == SubSeq(S, m + 1, Len(S))
           IN /\ R \in Seq(T) /\ Len(R) = Len(S) - m /\ DOMAIN R = 1 .. Len(S) - m
              /\ \A i \in 1 .. Len(S) - m : R[i] = S[m + i]
<1> DEFINE R == SubSeq(S, m + 1, Len(S))
<1>1. Len(S) \in Nat /\ m \in Nat /\ m <= Len(S)
  BY LenProperties
<1>2. \A i \in m + 1 .. Len(S) : S[i] \in T
  BY <1>1, ElementOfSeq
<1>3. m + 1 \in Int /\ Len(S) \in Int
  BY <1>1
<1>4. /\ R \in Seq(T)
      /\ Len(R) = IF m + 1 <= Len(S) THEN Len(S) - (m + 1) + 1 ELSE 0
      /\ \A i \in 1 .. Len(S) - (m + 1) + 1 : R[i] = S[m + 1 + i - 1]
  BY <1>2, <1>3, SubSeqProperties
<1> HIDE DEF R
<1>5. Len(R) = Len(S) - m
  BY <1>1, <1>4
<1>6. DOMAIN R = 1 .. Len(S) - m
  BY <1>4, <1>5, LenProperties
<1>7. \A i \in 1 .. Len(S) - m : R[i] = S[m + i]
  BY <1>1, <1>4
<1> QED
  BY <1>4, <1>5, <1>6, <1>7 DEF R

\* The first m bytes of S.
LEMMA Start ==
    ASSUME NEW T, NEW S \in Seq(T), NEW m \in 0 .. Len(S)
    PROVE  LET R == SubSeq(S, 1, m)
           IN /\ R \in Seq(T) /\ Len(R) = m /\ DOMAIN R = 1 .. m
              /\ \A i \in 1 .. m : R[i] = S[i]
<1> DEFINE R == SubSeq(S, 1, m)
<1>1. Len(S) \in Nat /\ m \in Nat /\ m <= Len(S)
  BY LenProperties
<1>2. \A i \in 1 .. m : S[i] \in T
  BY <1>1, ElementOfSeq
<1>3. /\ R \in Seq(T)
      /\ Len(R) = IF 1 <= m THEN m - 1 + 1 ELSE 0
      /\ \A i \in 1 .. m - 1 + 1 : R[i] = S[1 + i - 1]
  BY <1>1, <1>2, SubSeqProperties
<1> HIDE DEF R
<1>4. Len(R) = m
  BY <1>1, <1>3
<1>5. DOMAIN R = 1 .. m
  BY <1>3, <1>4, LenProperties
<1>6. \A i \in 1 .. m : R[i] = S[i]
  BY <1>1, <1>3
<1> QED
  BY <1>3, <1>4, <1>5, <1>6 DEF R

\* A byte of the stream.
LEMMA StreamBytes ==
    ASSUME NEW S \in Seq(Byte)
    PROVE  /\ Len(S) \in Nat /\ DOMAIN S = 1 .. Len(S)
           /\ \A i \in 1 .. Len(S) : /\ S[i] \in Byte /\ S[i][1] \in Nat /\ S[i][2] \in Nat
                                     /\ S[i] = <<S[i][1], S[i][2]>>
  BY LenProperties, ElementOfSeq, DataBytes

\* Reading m bytes, the last of frame n2 among them, if that is not n.
LEMMA FlowRest ==
    ASSUME NEW F, AreFrames(F), NEW log \in Seq(F), NEW c \in Nat,
           NEW S \in Seq(Byte), NEW m \in 0 .. Len(S), NEW n \in Nat, NEW n2 \in Nat,
           n <= n2, Flow(S, log, n, c),
           \A i \in m + 1 .. Len(S) : IsData(S[i]) => S[i][1] > n2,
           \A i \in 1 .. m : IsData(S[i]) => S[i][1] <= n2
    PROVE  LET R == SubSeq(S, m + 1, Len(S))
           IN Flow(R, log, n2, c) /\ (Present(S, log, n, c) => Present(R, log, n2, c))
<1> DEFINE R == SubSeq(S, m + 1, Len(S))
<1>1. R \in Seq(Byte) /\ Len(R) = Len(S) - m /\ DOMAIN R = 1 .. Len(S) - m
      /\ \A i \in 1 .. Len(S) - m : R[i] = S[m + i]
  BY Rest
<1> HIDE DEF R
<1>2. Len(S) \in Nat /\ m \in Nat /\ m <= Len(S) /\ DOMAIN S = 1 .. Len(S) /\ Len(log) \in Nat
  BY LenProperties
<1>3. ASSUME NEW i \in DOMAIN R
      PROVE  /\ m + i \in m + 1 .. Len(S) /\ m + i \in DOMAIN S /\ R[i] = S[m + i]
             /\ S[m + i][1] \in Nat /\ S[m + i][2] \in Nat
             /\ IsData(R[i]) => R[i][1] > n2 /\ R[i][1] > 0
             /\ i < Len(R) => i + 1 \in DOMAIN R /\ R[i + 1] = S[m + i + 1]
             /\ i = Len(R) <=> m + i = Len(S)
  <2>1. m + i \in m + 1 .. Len(S) /\ m + i \in 1 .. Len(S) /\ i \in Nat
    BY <1>1, <1>2
  <2>2. S[m + i][1] \in Nat /\ S[m + i][2] \in Nat
    BY <2>1, StreamBytes
  <2>3. R[i] = S[m + i]
    BY <1>1
  <2>4. IsData(R[i]) => R[i][1] > n2 /\ R[i][1] > 0
    BY <2>1, <2>2, <2>3
  <2>5. i < Len(R) => i + 1 \in DOMAIN R /\ R[i + 1] = S[m + i + 1]
    <3> SUFFICES ASSUME i < Len(R)
                 PROVE  i + 1 \in DOMAIN R /\ R[i + 1] = S[m + i + 1]
      OBVIOUS
    <3>1. i + 1 \in 1 .. Len(S) - m /\ m + (i + 1) = m + i + 1
      BY <1>1, <1>2, <2>1
    <3>2. R[i + 1] = S[m + (i + 1)]
      BY <3>1, <1>1
    <3> QED
      BY <3>1, <3>2, <1>1
  <2>6. i = Len(R) <=> m + i = Len(S)
    <3>1. Len(R) = Len(S) - m /\ i \in Nat /\ m \in Nat /\ Len(S) \in Nat
      BY <1>1, <1>2, <2>1
    <3> QED
      BY <3>1
  <2>7. m + i \in DOMAIN S
    BY <1>2, <2>1
  <2> QED
    BY <2>1, <2>2, <2>3, <2>4, <2>5, <2>6, <2>7
<1>4. ASSUME NEW j \in 1 .. Len(S), IsData(S[j]), S[j][1] > n2
      PROVE  j > m /\ j - m \in DOMAIN R /\ R[j - m] = S[j]
  <2>1. S[j][1] \in Nat
    BY StreamBytes
  <2>2. j > m
    <3> SUFFICES ASSUME j <= m
                 PROVE  FALSE
      BY <1>2
    <3>1. j \in 1 .. m
      BY <1>2
    <3>2. S[j][1] <= n2
      BY <3>1, <1>4
    <3> QED
      BY <3>2, <2>1, <1>4
  <2>3. j - m \in 1 .. Len(S) - m /\ m + (j - m) = j
    BY <1>2, <2>2
  <2> QED
    BY <1>1, <2>2, <2>3
<1>5. InLog(R, log, n2)
  BY <1>2, <1>3 DEF InLog, Flow
<1>6. Ordered(R)
  <2> SUFFICES ASSUME NEW i \in DOMAIN R, NEW j \in DOMAIN R, i < j,
                      IsData(R[i]), IsData(R[j])
               PROVE  R[i][1] < R[j][1] \/ (R[i][1] = R[j][1] /\ R[i][2] < R[j][2])
    BY DEF Ordered
  <2>1. m + i < m + j
    BY <1>1, <1>2
  <2>2. /\ m + i \in DOMAIN S /\ m + j \in DOMAIN S /\ R[i] = S[m + i] /\ R[j] = S[m + j]
    BY <1>3
  <2>3. Ordered(S)
    BY DEF Flow
  <2> QED
    BY <2>1, <2>2, <2>3 DEF Ordered
<1>7. NoneLeftOut(R, n2)
  <2> SUFFICES ASSUME NEW i \in DOMAIN R, IsData(R[i]), R[i][1] > n2 + 1
               PROVE  \E j \in 1 .. i - 1 : R[j] = <<R[i][1] - 1, 1>>
    BY DEF NoneLeftOut
  <2>1. R[i] = S[m + i] /\ m + i \in DOMAIN S /\ R[i][1] \in Nat /\ R[i][1] > n + 1
    BY <1>3
  <2>10. \E j \in 1 .. (m + i) - 1 : S[j] = <<S[m + i][1] - 1, 1>>
    <3>1. IsData(S[m + i]) /\ S[m + i][1] > n + 1 /\ m + i \in DOMAIN S
      BY <2>1
    <3>2. NoneLeftOut(S, n)
      BY DEF Flow
    <3> QED
      BY <3>1, <3>2 DEF NoneLeftOut
  <2>2. PICK j \in 1 .. (m + i) - 1 : S[j] = <<R[i][1] - 1, 1>>
    BY <2>1, <2>10
  <2>3. j \in 1 .. Len(S) /\ R[i][1] - 1 \in Nat \ {0} /\ R[i][1] - 1 > n2
    <3>1. m + i \in 1 .. Len(S) /\ i \in Nat
      BY <2>1, <1>1, <1>2
    <3>2. j \in 1 .. Len(S)
      BY <3>1, <1>2
    <3> QED
      BY <3>2, <2>1
  <2>4. IsData(S[j]) /\ S[j][1] > n2
    BY <2>2, <2>3, DataBytes
  <2>5. j - m \in DOMAIN R /\ R[j - m] = S[j]
    BY <2>3, <2>4, <1>4
  <2>6. j - m \in 1 .. i - 1
    BY <2>3, <2>5, <1>1, <1>2
  <2> QED
    BY <2>2, <2>5, <2>6
<1>8. InBlocks(R, log, c)
  <2> SUFFICES ASSUME NEW i \in DOMAIN R, IsData(R[i]), c = 0 \/ R[i][1] < c
               PROVE  Block(R, R[i][1], log[R[i][1]], i - R[i][2])
    BY DEF InBlocks
  <2> DEFINE a == R[i][1]
             B == Bytes(a, log[a])
             start == (m + i) - R[i][2]
  <2>1. /\ R[i] = S[m + i] /\ m + i \in DOMAIN S /\ a \in Nat \ {0} /\ R[i][2] \in Nat /\ a > n2
    BY <1>3
  <2>2. a \in DOMAIN log /\ R[i][2] \in 1 .. log[a].size
    <3>1. a \in n + 1 .. Len(log) /\ R[i][2] \in 1 .. log[a].size
      BY <2>1 DEF Flow, InLog
    <3> QED
      BY <3>1, LenProperties
  <2>3. log[a].size \in Nat \ {0} /\ log[a].cr \in BOOLEAN
    BY <2>2 DEF AreFrames
  <2>4. Len(B) \in Nat /\ Len(B) >= 1 /\ B[1] = <<a, 1>>
    <3>1. Len(B) \in Nat /\ Len(B) > log[a].size /\ B[1] = <<a, 1>>
      BY <2>1, <2>3, BytesEnds
    <3> QED
      BY <3>1, <2>3
  <2>5. Block(S, a, log[a], start)
    <3>1. InBlocks(S, log, c)
      BY DEF Flow
    <3>2. Block(S, S[m + i][1], log[S[m + i][1]], (m + i) - S[m + i][2])
      BY <2>1, <3>1 DEF InBlocks
    <3>3. S[m + i] = R[i] /\ (m + i) - R[i][2] = start
      BY <2>1
    <3>4. Block(S, R[i][1], log[R[i][1]], start)
      <4> HIDE DEF start
      <4> QED
        BY <3>2, <3>3
    <3> QED
      BY <3>4
  <2> HIDE DEF a, B
  <2>6. start \in Nat /\ start + 1 <= m + i /\ m + i <= Len(S)
    <3>1. start >= 0
      BY <2>5 DEF Block
    <3>2. R[i][2] \in Nat /\ R[i][2] >= 1 /\ i \in Nat /\ m + i \in 1 .. Len(S)
      <4>1. R[i][2] \in 1 .. log[a].size /\ log[a].size \in Nat
        BY <2>2, <2>3
      <4> QED
        BY <4>1, <2>1, <1>1, <1>2
    <3> QED
      BY <3>1, <3>2, <1>2
  <2>7. \A j \in 1 .. Len(B) : start + j <= Len(S) => S[start + j] = B[j]
    BY <2>5 DEF Block, B
  <2>8. start + 1 \in 1 .. Len(S) /\ S[start + 1] = <<a, 1>>
    BY <2>4, <2>6, <2>7, <1>1, <1>2, SMTT(30)
  <2>9. start + 1 > m
    <3>1. IsData(S[start + 1]) /\ S[start + 1][1] > n2
      BY <2>1, <2>8, DataBytes
    <3> QED
      BY <2>8, <3>1, <1>4
  <2>10. i - R[i][2] = start - m /\ start - m >= 0
    <3>1. start \in Nat /\ start + 1 > m /\ R[i][2] \in Nat /\ i \in Nat /\ m \in Nat
      BY <2>6, <2>9, <2>1, <1>1, <1>2
    <3> QED
      BY <3>1
  <2> HIDE DEF start
  <2>11. ASSUME NEW j \in 1 .. Len(B), start - m + j <= Len(R)
         PROVE  R[start - m + j] = B[j]
    <3>1. start + j <= Len(S) /\ start - m + j \in 1 .. Len(S) - m /\ m + (start - m + j) = start + j
      BY <2>4, <2>6, <2>10, <2>11, <1>1, <1>2
    <3> QED
      BY <3>1, <2>7, <1>1
  <2> QED
    BY <2>10, <2>11 DEF Block, a, B
<1>9. CRThenLF(R)
  <2> SUFFICES ASSUME NEW i \in DOMAIN R, R[i] = CR, i # Len(R)
               PROVE  R[i + 1] = LF
    BY DEF CRThenLF
  <2>1. S[m + i] = CR /\ m + i \in DOMAIN S /\ m + i # Len(S)
    BY <1>3
  <2>2. S[m + i + 1] = LF
    BY <2>1 DEF Flow, CRThenLF
  <2>3. i < Len(R)
    BY <1>1, <1>2
  <2> QED
    BY <2>2, <2>3, <1>3
<1>10. CutOpen(R, log, c)
  <2> SUFFICES ASSUME c # 0, NEW i \in DOMAIN R, R[i] = <<c, log[c].size>>, i # Len(R)
               PROVE  IsData(R[i + 1])
    BY DEF CutOpen
  <2>1. S[m + i] = <<c, log[c].size>> /\ m + i \in DOMAIN S /\ m + i # Len(S)
    BY <1>3
  <2>2. IsData(S[m + i + 1])
    BY <2>1 DEF Flow, CutOpen
  <2>3. i < Len(R)
    BY <1>1, <1>2
  <2> QED
    BY <2>2, <2>3, <1>3
<1>11. ASSUME Present(S, log, n, c)
       PROVE  Present(R, log, n2, c)
  <2>1. ASSUME NEW a \in n2 + 1 .. Len(log)
        PROVE  \E i \in DOMAIN R : /\ R[i] = <<a, 1>>
                                   /\ c = 0 \/ a < c => i - 1 + Len(Bytes(a, log[a])) <= Len(R)
    <3> DEFINE size == Len(Bytes(a, log[a]))
    <3>1. a \in n + 1 .. Len(log) /\ a \in Nat \ {0} /\ a \in DOMAIN log
      BY <1>2, LenProperties
    <3>2. PICK i \in DOMAIN S : S[i] = <<a, 1>> /\ (c = 0 \/ a < c => i - 1 + size <= Len(S))
      BY <3>1, <1>11 DEF Present
    <3>3. IsData(S[i]) /\ S[i][1] > n2
      BY <3>1, <3>2, DataBytes, SMTT(30)
    <3>4. i - m \in DOMAIN R /\ R[i - m] = <<a, 1>>
      BY <3>2, <3>3, <1>2, <1>4
    <3>5. size \in Nat
      <4>1. log[a].size \in Nat \ {0} /\ log[a].cr \in BOOLEAN
        BY <3>1 DEF AreFrames
      <4> QED
        BY <3>1, <4>1, BytesOf, LenProperties
    <3> HIDE DEF size
    <3>6. i - 1 + size <= Len(S) => (i - m) - 1 + size <= Len(R)
      BY <3>5, <1>1, <1>2, SMTT(30)
    <3> QED
      BY <3>2, <3>4, <3>6 DEF size
  <2>2. ASSUME R # <<>>
        PROVE  R[Len(R)] # CR
    <3>1. Len(R) \in DOMAIN R /\ m + Len(R) = Len(S)
      BY <2>2, <1>1, <1>2, EmptySeq
    <3>2. R[Len(R)] = S[Len(S)] /\ S # <<>>
      BY <3>1, <1>1, <1>2, EmptySeq
    <3> QED
      BY <3>2, <1>11 DEF Present
  <2> QED
    BY <2>1, <2>2 DEF Present
<1> QED
  BY <1>5, <1>6, <1>7, <1>8, <1>9, <1>10, <1>11 DEF Flow, R

\* The end of the stream is lost.
LEMMA FlowStart ==
    ASSUME NEW F, NEW log \in Seq(F), NEW c \in Nat,
           NEW S \in Seq(Byte), NEW m \in 0 .. Len(S), NEW n \in Nat, Flow(S, log, n, c)
    PROVE  Flow(SubSeq(S, 1, m), log, n, c)
<1> DEFINE R == SubSeq(S, 1, m)
<1>1. Len(R) = m /\ DOMAIN R = 1 .. m /\ \A i \in 1 .. m : R[i] = S[i]
  BY Start
<1> HIDE DEF R
<1>2. Len(S) \in Nat /\ m \in Nat /\ m <= Len(S) /\ DOMAIN S = 1 .. Len(S)
  BY LenProperties
<1>3. ASSUME NEW i \in DOMAIN R
      PROVE  /\ i \in DOMAIN S /\ R[i] = S[i] /\ i \in Nat /\ i <= m
             /\ i # Len(R) => i # Len(S) /\ R[i + 1] = S[i + 1]
  BY <1>1, <1>2
<1>4. InLog(R, log, n)
  BY <1>3 DEF InLog, Flow
<1>5. Ordered(R)
  <2> SUFFICES ASSUME NEW i \in DOMAIN R, NEW j \in DOMAIN R, i < j,
                      IsData(R[i]), IsData(R[j])
               PROVE  R[i][1] < R[j][1] \/ (R[i][1] = R[j][1] /\ R[i][2] < R[j][2])
    BY DEF Ordered
  <2>1. i \in DOMAIN S /\ j \in DOMAIN S /\ R[i] = S[i] /\ R[j] = S[j]
    BY <1>3
  <2>2. Ordered(S)
    BY DEF Flow
  <2> QED
    BY <2>1, <2>2 DEF Ordered
<1>6. NoneLeftOut(R, n)
  <2> SUFFICES ASSUME NEW i \in DOMAIN R, IsData(R[i]), R[i][1] > n + 1
               PROVE  \E j \in 1 .. i - 1 : R[j] = <<R[i][1] - 1, 1>>
    BY DEF NoneLeftOut
  <2>1. \E j \in 1 .. i - 1 : S[j] = <<R[i][1] - 1, 1>>
    <3>1. R[i] = S[i] /\ i \in DOMAIN S
      BY <1>3
    <3> QED
      BY <3>1 DEF Flow, NoneLeftOut
  <2>2. PICK j \in 1 .. i - 1 : S[j] = <<R[i][1] - 1, 1>>
    BY <2>1
  <2>3. j \in 1 .. m
    BY <1>1, <1>2
  <2> QED
    BY <2>2, <2>3, <1>1
<1>7. InBlocks(R, log, c)
  <2> SUFFICES ASSUME NEW i \in DOMAIN R, IsData(R[i]), c = 0 \/ R[i][1] < c
               PROVE  Block(R, R[i][1], log[R[i][1]], i - R[i][2])
    BY DEF InBlocks
  <2> DEFINE start == i - R[i][2]
             a == R[i][1]
  <2>1. Block(S, a, log[a], start)
    <3>1. R[i] = S[i] /\ i \in DOMAIN S /\ InBlocks(S, log, c)
      BY <1>3 DEF Flow
    <3> QED
      BY <3>1 DEF InBlocks
  <2>2. start \in Int
    <3>1. R[i] = S[i] /\ S[i][2] \in Nat /\ i \in Nat
      BY <1>2, <1>3, StreamBytes
    <3> QED
      BY <3>1
  <2> HIDE DEF start, a
  <2>3. ASSUME NEW j \in 1 .. Len(Bytes(a, log[a])), start + j <= Len(R)
        PROVE  R[start + j] = Bytes(a, log[a])[j]
    <3>1. start >= 0 /\ j \in Nat /\ j >= 1
      BY <2>1 DEF Block
    <3>2. start + j \in 1 .. m /\ start + j <= Len(S)
      BY <2>2, <2>3, <3>1, <1>1, <1>2
    <3> QED
      BY <2>1, <3>2, <1>1 DEF Block
  <2>4. Block(R, a, log[a], start)
    BY <2>1, <2>3 DEF Block
  <2> QED
    BY <2>4 DEF a, start
<1>8. CRThenLF(R) /\ CutOpen(R, log, c)
  BY <1>3 DEF CRThenLF, CutOpen, Flow
<1> QED
  BY <1>4, <1>5, <1>6, <1>7, <1>8 DEF Flow, R

\* A frame of the log that is all there ends where Present says.
LEMMA BlockEnds ==
    ASSUME NEW F, AreFrames(F), NEW log \in Seq(F), NEW c \in Nat,
           NEW S \in Seq(Byte), NEW n \in Nat, Flow(S, log, n, c), Present(S, log, n, c),
           NEW i \in DOMAIN S, IsData(S[i]), c = 0 \/ S[i][1] < c
    PROVE  WholeAt(S, S[i][1], log[S[i][1]], i - S[i][2])
<1> DEFINE a == S[i][1]
           B == Bytes(a, log[a])
           start == i - S[i][2]
<1>1. /\ Len(S) \in Nat /\ DOMAIN S = 1 .. Len(S) /\ i \in Nat /\ i <= Len(S)
      /\ a \in Nat /\ S[i][2] \in Nat
  <2>1. Len(S) \in Nat /\ DOMAIN S = 1 .. Len(S)
    BY StreamBytes
  <2>2. i \in 1 .. Len(S)
    BY <2>1
  <2>3. S[i][1] \in Nat /\ S[i][2] \in Nat
    BY <2>2, StreamBytes
  <2> QED
    BY <2>1, <2>2, <2>3
<1>2. a \in n + 1 .. Len(log) /\ S[i][2] \in 1 .. log[a].size
  BY DEF Flow, InLog
<1>3. a \in DOMAIN log /\ a \in Nat \ {0}
  BY <1>2, LenProperties
<1>4. log[a].size \in Nat \ {0} /\ log[a].cr \in BOOLEAN
  BY <1>3 DEF AreFrames
<1>5. Len(B) \in Nat /\ Len(B) > log[a].size /\ B[1] = <<a, 1>>
  BY <1>3, <1>4, BytesEnds
<1>6. Block(S, a, log[a], start)
  BY DEF Flow, InBlocks
<1>7. start \in Nat /\ start + 1 <= i
  <2>1. start >= 0
    BY <1>6 DEF Block
  <2>2. S[i][2] >= 1
    BY <1>2, <1>4
  <2> QED
    BY <1>1, <2>1, <2>2
<1> HIDE DEF start
<1>8. S[start + 1] = <<a, 1>> /\ start + 1 \in DOMAIN S
  <2>1. start + 1 <= Len(S) /\ 1 \in 1 .. Len(B) /\ start + 1 \in 1 .. Len(S)
    BY <1>1, <1>4, <1>5, <1>7
  <2> QED
    BY <1>1, <1>5, <1>6, <2>1 DEF Block
<1>9. PICK k \in DOMAIN S : S[k] = <<a, 1>> /\ (c = 0 \/ a < c => k - 1 + Len(B) <= Len(S))
  BY <1>2 DEF Present
<1>10. k = start + 1
  <2> SUFFICES ASSUME k # start + 1
               PROVE  FALSE
    OBVIOUS
  <2>1. IsData(S[k]) /\ IsData(S[start + 1])
    BY <1>3, <1>8, <1>9, DataBytes
  <2>2. /\ S[k][1] = a /\ S[k][2] = 1
        /\ S[start + 1][1] = a /\ S[start + 1][2] = 1
    BY <1>8, <1>9
  <2>3. Ordered(S)
    BY DEF Flow
  <2>4. CASE k < start + 1
    <3>1. \/ S[k][1] < S[start + 1][1]
          \/ S[k][1] = S[start + 1][1] /\ S[k][2] < S[start + 1][2]
      BY <1>8, <1>9, <2>1, <2>3, <2>4 DEF Ordered
    <3> QED
      BY <1>1, <2>2, <3>1
  <2>5. CASE start + 1 < k
    <3>1. \/ S[start + 1][1] < S[k][1]
          \/ S[start + 1][1] = S[k][1] /\ S[start + 1][2] < S[k][2]
      BY <1>8, <1>9, <2>1, <2>3, <2>5 DEF Ordered
    <3> QED
      BY <1>1, <2>2, <3>1
  <2> QED
    BY <1>1, <1>7, <2>4, <2>5
<1>11. start + Len(B) <= Len(S)
  <2>1. k - 1 + Len(B) <= Len(S)
    BY <1>9
  <2> QED
    BY <2>1, <1>1, <1>5, <1>7, <1>10
<1>12. \A j \in 1 .. Len(B) : S[start + j] = B[j]
  <2> SUFFICES ASSUME NEW j \in 1 .. Len(B)
               PROVE  S[start + j] = B[j]
    OBVIOUS
  <2>1. start + j <= Len(S)
    BY <1>1, <1>5, <1>7, <1>11
  <2> QED
    BY <2>1, <1>6 DEF Block
<1> QED
  BY <1>5, <1>7, <1>11, <1>12 DEF start, WholeAt

LEMMA BeforeEnd ==
    ASSUME NEW x \in Nat, NEW l \in Nat, NEW i \in x + 1 .. x + l, NEW s \in Nat,
           i # x + l, i - x = s
    PROVE  l > s
  OBVIOUS

\* A frame is written, or a part of it: then it is the cut one, unless one was
\* before it.
LEMMA FlowExtend ==
    ASSUME NEW F, AreFrames(F), NEW log \in Seq(F), NEW c \in 0 .. Len(log),
           NEW S \in Seq(Byte), NEW n \in 0 .. Len(log),
           Flow(S, log, n, c), Present(S, log, n, c),
           NEW f \in F, NEW l \in 1 .. Len(Bytes(Len(log) + 1, f)), NEW c2 \in Nat,
           c # 0 => c2 = c,
           c = 0 => c2 = IF l = Len(Bytes(Len(log) + 1, f)) THEN 0 ELSE Len(log) + 1,
           c2 # 0 => f.cr = FALSE
    PROVE  LET W == S \o SubSeq(Bytes(Len(log) + 1, f), 1, l)
           IN W \in Seq(Byte) /\ Flow(W, Append(log, f), n, c2) /\ Present(W, Append(log, f), n, c2)
<1> DEFINE m == Len(log)
           B == Bytes(m + 1, f)
           R == SubSeq(B, 1, l)
           W == S \o R
           log2 == Append(log, f)
<1>1. /\ m \in Nat /\ Len(S) \in Nat /\ DOMAIN S = 1 .. Len(S) /\ n \in Nat /\ n <= m
      /\ c \in Nat /\ c <= m /\ DOMAIN log = 1 .. m
  BY LenProperties
<1>2. f.size \in Nat \ {0} /\ f.cr \in BOOLEAN
  BY DEF AreFrames
<1>3. m + 1 \in Nat \ {0}
  BY <1>1
<1>4. /\ B \in Seq(Byte) /\ Len(B) \in Nat /\ Len(B) > f.size /\ B[Len(B)] = LF
      /\ \A j \in 1 .. f.size : B[j] = <<m + 1, j>> /\ IsData(B[j])
  BY <1>2, <1>3, BytesOf, BytesEnds
<1>5. /\ log2 \in Seq(F) /\ Len(log2) = m + 1 /\ log2[m + 1] = f
      /\ \A a \in 1 .. m : log2[a] = log[a]
  BY AppendProperties
<1> HIDE DEF B, log2
<1>6. l \in Nat /\ l >= 1 /\ l <= Len(B)
  BY <1>4 DEF B
<1>7. R \in Seq(Byte) /\ Len(R) = l /\ \A j \in 1 .. l : R[j] = B[j]
  BY <1>4, <1>6, Start
<1> HIDE DEF R
<1>8. /\ W \in Seq(Byte) /\ Len(W) = Len(S) + l /\ DOMAIN W = 1 .. Len(S) + l
      /\ \A i \in 1 .. Len(S) : W[i] = S[i]
      /\ \A j \in 1 .. l : W[Len(S) + j] = B[j]
  <2>1. /\ W \in Seq(Byte) /\ Len(W) = Len(S) + Len(R)
        /\ \A i \in 1 .. Len(S) + Len(R) :
             W[i] = IF i <= Len(S) THEN S[i] ELSE R[i - Len(S)]
    BY <1>7, ConcatProperties
  <2> HIDE DEF W
  <2>2. DOMAIN W = 1 .. Len(S) + l
    BY <2>1, <1>7, LenProperties
  <2>3. \A i \in 1 .. Len(S) : W[i] = S[i]
    BY <2>1, <1>1, <1>6, <1>7
  <2>4. ASSUME NEW j \in 1 .. l
        PROVE  W[Len(S) + j] = B[j]
    <3>1. Len(S) + j \in 1 .. Len(S) + Len(R) /\ ~(Len(S) + j <= Len(S)) /\ Len(S) + j - Len(S) = j
      BY <1>1, <1>6, <1>7
    <3> QED
      BY <2>1, <3>1, <1>7
  <2> QED
    BY <2>1, <2>2, <2>3, <2>4, <1>7
<1> HIDE DEF W
\* The two parts of the stream.
<1>9. ASSUME NEW i \in 1 .. Len(S)
      PROVE  /\ i \in DOMAIN S /\ i \in DOMAIN W /\ W[i] = S[i]
             /\ S[i] \in Byte /\ S[i][1] \in Nat /\ S[i][2] \in Nat
             /\ IsData(S[i]) => /\ S[i][1] \in n + 1 .. m /\ S[i][1] \in 1 .. m
                                /\ S[i][2] \in 1 .. log[S[i][1]].size
  <2>1. i \in DOMAIN S /\ i \in DOMAIN W /\ W[i] = S[i]
    BY <1>1, <1>6, <1>8
  <2>2. S[i] \in Byte /\ S[i][1] \in Nat /\ S[i][2] \in Nat
    BY StreamBytes
  <2>3. ASSUME IsData(S[i])
        PROVE  S[i][1] \in n + 1 .. m /\ S[i][2] \in 1 .. log[S[i][1]].size
    BY <2>1, <2>3 DEF Flow, InLog
  <2> QED
    BY <2>1, <2>2, <2>3, <1>1
<1>10. ASSUME NEW i \in Len(S) + 1 .. Len(S) + l
       PROVE  /\ i - Len(S) \in 1 .. l /\ W[i] = B[i - Len(S)] /\ i \in DOMAIN W
              /\ IsData(W[i]) =>
                   i - Len(S) \in 1 .. f.size /\ W[i] = <<m + 1, i - Len(S)>>
                   /\ W[i][1] = m + 1 /\ W[i][2] = i - Len(S)
  <2> DEFINE j == i - Len(S)
  <2>1. j \in 1 .. l /\ Len(S) + j = i /\ i \in 1 .. Len(S) + l
    BY <1>1, <1>6
  <2>2. W[i] = B[j]
    BY <2>1, <1>8
  <2>3. IsData(B[j]) => j \in 1 .. f.size
    <3> SUFFICES ASSUME j > f.size
                 PROVE  ~IsData(B[j])
      BY <2>1, <1>2, <1>6
    <3>1. CASE f.cr
      <4>1. j = f.size + 1 \/ j = f.size + 2
        <5>1. Len(B) = f.size + 2
          BY <3>1, <1>2, <1>3, BytesOf DEF B
        <5> QED
          BY <5>1, <2>1, <1>2, <1>6, SMTT(30)
      <4>2. B[f.size + 1] = CR /\ B[f.size + 2] = LF
        BY <3>1, <1>2, <1>3, BytesOf DEF B
      <4> QED
        BY <4>1, <4>2, DataBytes
    <3>2. CASE ~f.cr
      <4>1. j = f.size + 1
        <5>1. Len(B) = f.size + 1
          BY <3>2, <1>2, <1>3, BytesOf DEF B
        <5> QED
          BY <5>1, <2>1, <1>2, <1>6, SMTT(30)
      <4>2. B[f.size + 1] = LF
        BY <3>2, <1>2, <1>3, BytesOf DEF B
      <4> QED
        BY <4>1, <4>2, DataBytes
    <3> QED
      BY <3>1, <3>2, <1>2
  <2> HIDE DEF j
  <2>4. IsData(W[i]) => j \in 1 .. f.size /\ W[i] = <<m + 1, j>> /\ W[i][1] = m + 1 /\ W[i][2] = j
    BY <2>2, <2>3, <1>4
  <2> QED
    BY <2>1, <2>2, <2>4, <1>8 DEF j
<1>11. \A i \in DOMAIN W : i \in 1 .. Len(S) \/ i \in Len(S) + 1 .. Len(S) + l
  BY <1>1, <1>6, <1>8
<1>12. W[Len(S) + 1] = <<m + 1, 1>> /\ IsData(W[Len(S) + 1]) /\ Len(S) + 1 \in DOMAIN W
  <2>1. 1 \in 1 .. l /\ 1 \in 1 .. f.size
    BY <1>2, <1>6
  <2>2. Len(S) + 1 \in DOMAIN W
    BY <1>1, <1>6, <1>8
  <2> QED
    BY <2>1, <2>2, <1>4, <1>8
<1>13. InLog(W, log2, n)
  <2> SUFFICES ASSUME NEW i \in DOMAIN W, IsData(W[i])
               PROVE  W[i][1] \in n + 1 .. Len(log2) /\ W[i][2] \in 1 .. log2[W[i][1]].size
    BY DEF InLog
  <2>1. CASE i \in 1 .. Len(S)
    <3>1. /\ W[i] = S[i] /\ S[i][1] \in n + 1 .. m /\ S[i][1] \in 1 .. m
          /\ S[i][2] \in 1 .. log[S[i][1]].size
      BY <2>1, <1>9
    <3>2. log2[S[i][1]] = log[S[i][1]]
      BY <3>1, <1>5
    <3>3. S[i][1] \in n + 1 .. m + 1
      BY <3>1, <1>1
    <3> QED
      BY <3>1, <3>2, <3>3, <1>5
  <2>2. CASE i \in Len(S) + 1 .. Len(S) + l
    <3>1. W[i][1] = m + 1 /\ W[i][2] \in 1 .. f.size
      BY <2>2, <1>10
    <3>2. m + 1 \in n + 1 .. m + 1
      BY <1>1
    <3> QED
      BY <3>1, <3>2, <1>5
  <2> QED
    BY <2>1, <2>2, <1>11
<1>14. Ordered(W)
  <2> SUFFICES ASSUME NEW i \in DOMAIN W, NEW j \in DOMAIN W, i < j,
                      IsData(W[i]), IsData(W[j])
               PROVE  W[i][1] < W[j][1] \/ (W[i][1] = W[j][1] /\ W[i][2] < W[j][2])
    BY DEF Ordered
  <2>1. CASE j \in 1 .. Len(S)
    <3>1. i \in 1 .. Len(S)
      BY <2>1, <1>1, <1>8
    <3>2. W[i] = S[i] /\ W[j] = S[j] /\ i \in DOMAIN S /\ j \in DOMAIN S /\ Ordered(S)
      BY <2>1, <3>1, <1>9 DEF Flow
    <3> QED
      BY <3>2 DEF Ordered
  <2>2. CASE j \in Len(S) + 1 .. Len(S) + l /\ i \in 1 .. Len(S)
    <3>1. W[j][1] = m + 1 /\ W[i][1] \in 1 .. m
      BY <2>2, <1>9, <1>10
    <3> QED
      BY <3>1, <1>1
  <2>3. CASE j \in Len(S) + 1 .. Len(S) + l /\ i \in Len(S) + 1 .. Len(S) + l
    <3>1. /\ W[j][1] = m + 1 /\ W[i][1] = m + 1
          /\ W[i][2] = i - Len(S) /\ W[j][2] = j - Len(S)
      BY <2>3, <1>10
    <3>2. i - Len(S) < j - Len(S)
      BY <1>1, <1>8
    <3> QED
      BY <3>1, <3>2
  <2> QED
    BY <2>1, <2>2, <2>3, <1>11
<1>15. NoneLeftOut(W, n)
  <2> SUFFICES ASSUME NEW i \in DOMAIN W, IsData(W[i]), W[i][1] > n + 1
               PROVE  \E j \in 1 .. i - 1 : W[j] = <<W[i][1] - 1, 1>>
    BY DEF NoneLeftOut
  <2>1. CASE i \in 1 .. Len(S)
    <3>1. W[i] = S[i] /\ i \in DOMAIN S
      BY <2>1, <1>9
    <3>2. PICK j \in 1 .. i - 1 : S[j] = <<W[i][1] - 1, 1>>
      BY <3>1 DEF Flow, NoneLeftOut
    <3>3. j \in 1 .. Len(S)
      BY <2>1, <3>2, <1>1
    <3> QED
      BY <3>2, <3>3, <1>8
  <2>2. CASE i \in Len(S) + 1 .. Len(S) + l
    <3>1. W[i][1] = m + 1
      BY <2>2, <1>10
    <3>2. m \in n + 1 .. m
      BY <3>1, <1>1
    <3>3. PICK j \in DOMAIN S : S[j] = <<m, 1>>
      BY <3>2 DEF Present
    <3>4. j \in 1 .. Len(S) /\ j \in 1 .. i - 1 /\ W[i][1] - 1 = m
      BY <2>2, <3>1, <1>1
    <3> QED
      BY <3>3, <3>4, <1>8
  <2> QED
    BY <2>1, <2>2, <1>11
<1>16. c2 = 0 => c = 0 /\ l = Len(B)
  BY <1>1, <1>6 DEF B
<1>17. ASSUME NEW a \in 1 .. m, c2 = 0 \/ a < c2
       PROVE  c = 0 \/ a < c
  <2>1. c # 0 => c2 = c
    OBVIOUS
  <2>2. CASE c # 0
    <3>1. c2 = c
      BY <2>1, <2>2
    <3> QED
      BY <2>2, <3>1, <1>17
  <2> QED
    BY <2>2
<1>18. ASSUME c2 = 0 \/ m + 1 < c2
       PROVE  c2 = 0 /\ l = Len(B)
  <2>1. c2 # 0 => c2 <= m + 1
    BY <1>1
  <2> QED
    BY <2>1, <1>1, <1>16, <1>18
<1>19. InBlocks(W, log2, c2)
  <2> SUFFICES ASSUME NEW i \in DOMAIN W, IsData(W[i]), c2 = 0 \/ W[i][1] < c2
               PROVE  Block(W, W[i][1], log2[W[i][1]], i - W[i][2])
    BY DEF InBlocks
  <2>1. CASE i \in 1 .. Len(S)
    <3>1. W[i] = S[i] /\ S[i][1] \in 1 .. m /\ i \in DOMAIN S
      BY <2>1, <1>9
    <3>2. c = 0 \/ S[i][1] < c
      BY <3>1, <1>17
    <3> DEFINE a == S[i][1]
               Ba == Bytes(a, log[a])
               start == i - S[i][2]
    <3>9. WholeAt(S, S[i][1], log[S[i][1]], i - S[i][2])
      <4>1. IsData(S[i]) /\ i \in DOMAIN S
        BY <3>1
      <4>2. n \in Nat /\ c \in Nat
        BY <1>1
      <4> HIDE DEF W, log2, a, Ba, start
      <4> QED
        BY <3>2, <4>1, <4>2, BlockEnds
    <3>3. /\ start \in Nat /\ start + Len(Ba) <= Len(S) /\ Len(Ba) \in Nat
          /\ \A j \in 1 .. Len(Ba) : S[start + j] = Ba[j]
      BY <3>9 DEF WholeAt
    <3>4. log2[a] = log[a]
      BY <3>1, <1>5
    <3> HIDE DEF start, Ba
    <3>5. \A j \in 1 .. Len(Ba) : start + j \in 1 .. Len(S)
      BY <3>3, <1>1
    <3>6. \A j \in 1 .. Len(Ba) : W[start + j] = Ba[j]
      BY <3>3, <3>5, <1>8
    <3>7. Block(W, a, log[a], start)
      BY <3>3, <3>6 DEF Block, Ba
    <3> QED
      BY <3>1, <3>4, <3>7 DEF start
  <2>2. CASE i \in Len(S) + 1 .. Len(S) + l
    <3>1. W[i][1] = m + 1 /\ W[i][2] = i - Len(S)
      BY <2>2, <1>10
    <3>2. i - W[i][2] = Len(S) /\ l = Len(B)
      BY <2>2, <3>1, <1>1, <1>6, <1>18
    <3>3. Block(W, m + 1, f, Len(S))
      BY <3>2, <1>1, <1>8 DEF Block, B
    <3> QED
      BY <3>1, <3>2, <3>3, <1>5
  <2> QED
    BY <2>1, <2>2, <1>11
<1>20. c2 # 0 => Len(B) = f.size + 1
  BY <1>2, <1>3, BytesOf DEF B
<1>21. CRThenLF(W)
  <2> SUFFICES ASSUME NEW i \in DOMAIN W, W[i] = CR, i # Len(W)
               PROVE  W[i + 1] = LF
    BY DEF CRThenLF
  <2>1. CASE i \in 1 .. Len(S)
    <3>1. W[i] = S[i] /\ i \in DOMAIN S
      BY <2>1, <1>9
    <3>2. i # Len(S)
      <4>1. S # <<>>
        BY <2>1, <1>1, EmptySeq
      <4> QED
        BY <3>1, <4>1 DEF Present
    <3>3. S[i + 1] = LF
      BY <3>1, <3>2 DEF Flow, CRThenLF
    <3>4. i + 1 \in 1 .. Len(S)
      BY <2>1, <3>2, <1>1
    <3> QED
      BY <3>3, <3>4, <1>8
  <2>2. CASE i \in Len(S) + 1 .. Len(S) + l
    <3> DEFINE j == i - Len(S)
    <3>1. j \in 1 .. l /\ B[j] = CR /\ i = Len(S) + j
      BY <2>2, <1>1, <1>10
    <3> HIDE DEF j
    <3>2. j > f.size
      <4>1. j \in 1 .. f.size => B[j] # CR
        BY <1>4, DataBytes
      <4> QED
        BY <3>1, <4>1, <1>2, <1>6
    <3>3. f.cr
      <4> SUFFICES ASSUME ~f.cr
                   PROVE  FALSE
        OBVIOUS
      <4>1. Len(B) = f.size + 1 /\ B[f.size + 1] = LF
        BY <1>2, <1>3, BytesOf DEF B
      <4>2. j = f.size + 1
        BY <3>1, <3>2, <4>1, <1>2, <1>6
      <4> QED
        BY <3>1, <4>1, <4>2, DataBytes
    <3>4. Len(B) = f.size + 2 /\ B[f.size + 2] = LF
      BY <3>3, <1>2, <1>3, BytesOf DEF B
    <3>5. j = f.size + 1
      <4>1. j # f.size + 2
        BY <3>1, <3>4, DataBytes
      <4> QED
        BY <3>1, <3>2, <3>4, <4>1, <1>2, <1>6, SMTT(30)
    <3>6. l = Len(B)
      <4>1. c2 = 0
        BY <3>3
      <4> QED
        BY <4>1, <1>16
    <3>7. W[Len(S) + (j + 1)] = B[j + 1] /\ i + 1 = Len(S) + (j + 1) /\ j + 1 = f.size + 2
      <4>1. j + 1 \in 1 .. l /\ j + 1 = f.size + 2 /\ i + 1 = Len(S) + (j + 1)
        <5>1. j + 1 = f.size + 2 /\ l = f.size + 2 /\ f.size \in Nat
          BY <3>4, <3>5, <3>6, <1>2
        <5>2. j + 1 \in 1 .. l
          BY <5>1
        <5>3. i + 1 = Len(S) + (j + 1)
          BY <3>1, <1>1, <5>1
        <5> QED
          BY <5>1, <5>2, <5>3
      <4> QED
        BY <4>1, <1>8
    <3> QED
      BY <3>4, <3>7
  <2> QED
    BY <2>1, <2>2, <1>11
<1>22. CutOpen(W, log2, c2)
  <2> SUFFICES ASSUME c2 # 0, NEW i \in DOMAIN W, W[i] = <<c2, log2[c2].size>>, i # Len(W)
               PROVE  IsData(W[i + 1])
    BY DEF CutOpen
  <2>1. c2 \in 1 .. m + 1 /\ (c # 0 => c2 = c) /\ (c = 0 => c2 = m + 1)
    BY <1>1
  <2>2. log2[c2].size \in Nat
    <3>1. c2 \in DOMAIN log2
      BY <2>1, <1>5, LenProperties
    <3>2. log2[c2] \in F
      BY <3>1, <1>5, LenProperties, ElementOfSeq
    <3> QED
      BY <3>2 DEF AreFrames
  <2>3. IsData(W[i]) /\ W[i][1] = c2 /\ W[i][2] = log2[c2].size
    BY <2>1, <2>2, DataBytes
  <2>4. CASE i \in 1 .. Len(S)
    <3>1. W[i] = S[i] /\ i \in DOMAIN S /\ c2 \in 1 .. m
      BY <2>3, <2>4, <1>9
    <3>2. c2 = c /\ c # 0 /\ log2[c2] = log[c2]
      BY <2>1, <3>1, <1>1, <1>5
    <3>3. i = Len(S) \/ IsData(S[i + 1])
      BY <3>1, <3>2 DEF Flow, CutOpen
    <3>4. CASE i = Len(S)
      BY <3>4, <1>12
    <3>5. CASE i # Len(S)
      <4>1. i + 1 \in 1 .. Len(S)
        BY <2>4, <3>5, <1>1
      <4> QED
        BY <3>3, <3>5, <4>1, <1>8
    <3> QED
      BY <3>4, <3>5
  <2>5. CASE i \in Len(S) + 1 .. Len(S) + l
    <3>1. c2 = m + 1 /\ i - Len(S) = f.size
      BY <2>3, <2>5, <1>5, <1>10
    <3>2. c = 0 /\ l # Len(B)
      BY <2>1, <3>1, <1>1 DEF B
    <3>3. l > f.size
      <4>1. i # Len(S) + l /\ i \in Len(S) + 1 .. Len(S) + l
        BY <2>5, <1>8
      <4> QED
        <5>1. f.size \in Nat
          BY <1>2
        <5>2. i - Len(S) = f.size
          BY <3>1
        <5> HIDE DEF W, log2
        <5> QED
          BY <4>1, <5>1, <5>2, <1>1, <1>6, BeforeEnd
    <3> QED
      BY <3>2, <3>3, <1>2, <1>6, <1>20
  <2> QED
    BY <2>4, <2>5, <1>11
<1>23. Present(W, log2, n, c2)
  <2>1. ASSUME NEW a \in n + 1 .. Len(log2)
        PROVE  \E i \in DOMAIN W : /\ W[i] = <<a, 1>>
                                   /\ c2 = 0 \/ a < c2 => i - 1 + Len(Bytes(a, log2[a])) <= Len(W)
    <3>1. CASE a = m + 1
      <4>1. c2 = 0 \/ a < c2 => Len(S) + 1 - 1 + Len(Bytes(a, log2[a])) <= Len(W)
        <5> SUFFICES ASSUME c2 = 0 \/ m + 1 < c2
                     PROVE  Len(S) + 1 - 1 + Len(B) <= Len(W)
          BY <3>1, <1>5 DEF B
        <5>1. l = Len(B)
          BY <1>18
        <5> QED
          BY <5>1, <1>1, <1>4, <1>8
      <4> QED
        BY <3>1, <4>1, <1>12, SMTT(30)
    <3>2. CASE a # m + 1
      <4>1. a \in n + 1 .. m /\ a \in 1 .. m
        BY <3>2, <1>1, <1>5
      <4> DEFINE size == Len(Bytes(a, log[a]))
      <4>2. PICK i \in DOMAIN S : S[i] = <<a, 1>> /\ (c = 0 \/ a < c => i - 1 + size <= Len(S))
        BY <4>1 DEF Present
      <4>3. W[i] = <<a, 1>> /\ i \in DOMAIN W /\ i \in Nat
        BY <4>2, <1>1, <1>9, SMTT(30)
      <4>4. log2[a] = log[a]
        BY <4>1, <1>5
      <4>5. size \in Nat
        <5>1. a \in Nat \ {0} /\ a \in DOMAIN log
          BY <4>1, <1>1
        <5>2. log[a].size \in Nat \ {0} /\ log[a].cr \in BOOLEAN
          BY <5>1 DEF AreFrames
        <5> QED
          BY <5>1, <5>2, BytesEnds
      <4> HIDE DEF size
      <4>6. c2 = 0 \/ a < c2 => i - 1 + size <= Len(W)
        <5> SUFFICES ASSUME c2 = 0 \/ a < c2
                     PROVE  i - 1 + size <= Len(W)
          OBVIOUS
        <5>1. c = 0 \/ a < c
          BY <4>1, <1>17
        <5>2. i - 1 + size <= Len(S)
          BY <4>2, <5>1
        <5> QED
          BY <5>2, <4>3, <4>5, <1>1, <1>6, <1>8, SMTT(30)
      <4> QED
        BY <4>3, <4>4, <4>6 DEF size
    <3> QED
      BY <3>1, <3>2
  <2>2. W[Len(W)] # CR
    <3>1. W[Len(W)] = B[l]
      BY <1>6, <1>8
    <3>2. CASE l = Len(B)
      BY <3>1, <3>2, <1>4, DataBytes
    <3>3. CASE l # Len(B)
      <4>1. c2 # 0
        BY <3>3, <1>16
      <4>2. l \in 1 .. f.size
        BY <3>3, <4>1, <1>2, <1>6, <1>20
      <4> QED
        BY <3>1, <4>2, <1>4, DataBytes
    <3> QED
      BY <3>2, <3>3
  <2> QED
    BY <2>1, <2>2 DEF Present
<1> QED
  BY <1>8, <1>13, <1>14, <1>15, <1>19, <1>21, <1>22, <1>23 DEF Flow, W, R, B, log2

\* An empty line is written.
LEMMA FlowEmptyLine ==
    ASSUME NEW F, AreFrames(F), NEW log \in Seq(F), NEW S \in Seq(Byte), NEW n \in Nat,
           Flow(S, log, n, 0), Present(S, log, n, 0), NEW line \in {<<LF>>, <<CR, LF>>}
    PROVE  LET W == S \o line
           IN W \in Seq(Byte) /\ Flow(W, log, n, 0) /\ Present(W, log, n, 0)
<1> DEFINE W == S \o line
           l == Len(line)
<1>1. Len(S) \in Nat /\ DOMAIN S = 1 .. Len(S) /\ 0 \in Nat
  BY LenProperties
<1>2. /\ line \in Seq(Byte) /\ l \in {1, 2} /\ line[l] = LF
      /\ \A j \in 1 .. l : ~IsData(line[j])
      /\ line[1] = CR => l = 2
  <2>1. CASE line = <<LF>>
    BY <2>1, DataBytes
  <2>2. CASE line = <<CR, LF>>
    BY <2>2, DataBytes
  <2> QED
    BY <2>1, <2>2
<1> HIDE DEF l
<1>3. /\ W \in Seq(Byte) /\ Len(W) = Len(S) + l /\ DOMAIN W = 1 .. Len(S) + l
      /\ \A i \in 1 .. Len(S) : W[i] = S[i]
      /\ \A j \in 1 .. l : W[Len(S) + j] = line[j]
  <2>1. /\ W \in Seq(Byte) /\ Len(W) = Len(S) + l
        /\ \A i \in 1 .. Len(S) + l : W[i] = IF i <= Len(S) THEN S[i] ELSE line[i - Len(S)]
    BY <1>2, ConcatProperties DEF l
  <2> HIDE DEF W
  <2>2. DOMAIN W = 1 .. Len(S) + l
    BY <2>1, LenProperties
  <2>3. \A i \in 1 .. Len(S) : W[i] = S[i]
    BY <2>1, <1>1, <1>2
  <2>4. ASSUME NEW j \in 1 .. l
        PROVE  W[Len(S) + j] = line[j]
    <3>1. Len(S) + j \in 1 .. Len(S) + l /\ ~(Len(S) + j <= Len(S)) /\ Len(S) + j - Len(S) = j
      BY <1>1, <1>2
    <3> QED
      BY <2>1, <3>1
  <2> QED
    BY <2>1, <2>2, <2>3, <2>4
<1> HIDE DEF W
<1>4. ASSUME NEW i \in DOMAIN W, IsData(W[i])
      PROVE  i \in DOMAIN S /\ i \in 1 .. Len(S) /\ W[i] = S[i] /\ IsData(S[i])
  <2>1. i \in 1 .. Len(S)
    <3> SUFFICES ASSUME i \notin 1 .. Len(S)
                 PROVE  FALSE
      OBVIOUS
    <3>1. i - Len(S) \in 1 .. l /\ Len(S) + (i - Len(S)) = i
      BY <1>1, <1>2, <1>3
    <3>2. ~IsData(W[i])
      BY <3>1, <1>2, <1>3
    <3> QED
      BY <3>2, <1>4
  <2> QED
    BY <2>1, <1>1, <1>3, <1>4
<1>5. InLog(W, log, n)
  BY <1>4 DEF InLog, Flow
<1>6. Ordered(W)
  <2> SUFFICES ASSUME NEW i \in DOMAIN W, NEW j \in DOMAIN W, i < j,
                      IsData(W[i]), IsData(W[j])
               PROVE  W[i][1] < W[j][1] \/ (W[i][1] = W[j][1] /\ W[i][2] < W[j][2])
    BY DEF Ordered
  <2>1. /\ i \in DOMAIN S /\ j \in DOMAIN S /\ W[i] = S[i] /\ W[j] = S[j]
        /\ IsData(S[i]) /\ IsData(S[j])
    BY <1>4
  <2>2. Ordered(S)
    BY DEF Flow
  <2> QED
    BY <2>1, <2>2 DEF Ordered
<1>7. NoneLeftOut(W, n)
  <2> SUFFICES ASSUME NEW i \in DOMAIN W, IsData(W[i]), W[i][1] > n + 1
               PROVE  \E j \in 1 .. i - 1 : W[j] = <<W[i][1] - 1, 1>>
    BY DEF NoneLeftOut
  <2>1. i \in DOMAIN S /\ i \in 1 .. Len(S) /\ W[i] = S[i] /\ IsData(S[i])
    BY <1>4
  <2>2. \E j \in 1 .. i - 1 : S[j] = <<S[i][1] - 1, 1>>
    <3>1. S[i][1] > n + 1 /\ NoneLeftOut(S, n)
      BY <2>1 DEF Flow
    <3> QED
      BY <2>1, <3>1 DEF NoneLeftOut
  <2>3. PICK j \in 1 .. i - 1 : S[j] = <<S[i][1] - 1, 1>>
    BY <2>2
  <2>4. j \in 1 .. Len(S)
    BY <2>1, <1>1
  <2> QED
    BY <2>1, <2>3, <2>4, <1>3
<1>8. InBlocks(W, log, 0)
  <2> SUFFICES ASSUME NEW i \in DOMAIN W, IsData(W[i])
               PROVE  Block(W, W[i][1], log[W[i][1]], i - W[i][2])
    BY DEF InBlocks
  <2>1. i \in DOMAIN S /\ W[i] = S[i] /\ IsData(S[i])
    BY <1>4
  <2>2. WholeAt(S, S[i][1], log[S[i][1]], i - S[i][2])
    BY <2>1, <1>1, BlockEnds
  <2> DEFINE a == S[i][1]
             B == Bytes(a, log[a])
             start == i - S[i][2]
  <2>3. /\ start \in Nat /\ Len(B) \in Nat /\ start + Len(B) <= Len(S)
        /\ \A j \in 1 .. Len(B) : S[start + j] = B[j]
    BY <2>2 DEF WholeAt
  <2> HIDE DEF start, B
  <2>4. \A j \in 1 .. Len(B) : start + j \in 1 .. Len(S)
    BY <2>3, <1>1
  <2>5. \A j \in 1 .. Len(B) : W[start + j] = B[j]
    BY <2>3, <2>4, <1>3
  <2>6. Block(W, a, log[a], start)
    BY <2>3, <2>5 DEF Block, B
  <2> QED
    BY <2>1, <2>6 DEF start
<1>9. CRThenLF(W)
  <2> SUFFICES ASSUME NEW i \in DOMAIN W, W[i] = CR, i # Len(W)
               PROVE  W[i + 1] = LF
    BY DEF CRThenLF
  <2>1. CASE i \in 1 .. Len(S)
    <3>1. W[i] = S[i] /\ i \in DOMAIN S
      BY <2>1, <1>1, <1>3
    <3>2. i # Len(S)
      <4>1. S # <<>>
        BY <2>1, <1>1, EmptySeq
      <4> QED
        BY <3>1, <4>1 DEF Present
    <3>3. S[i + 1] = LF
      BY <3>1, <3>2 DEF Flow, CRThenLF
    <3>4. i + 1 \in 1 .. Len(S)
      BY <2>1, <3>2, <1>1
    <3> QED
      BY <3>3, <3>4, <1>3
  <2>2. CASE i \notin 1 .. Len(S)
    <3>1. i - Len(S) \in 1 .. l /\ Len(S) + (i - Len(S)) = i /\ i - Len(S) # l
      BY <2>2, <1>1, <1>2, <1>3
    <3>2. i - Len(S) = 1 /\ l = 2 /\ i + 1 = Len(S) + 2
      BY <3>1, <1>1, <1>2
    <3> QED
      BY <3>2, <1>2, <1>3, SMTT(30)
  <2> QED
    BY <2>1, <2>2
<1>10. Flow(W, log, n, 0)
  BY <1>5, <1>6, <1>7, <1>8, <1>9 DEF Flow, CutOpen
<1>11. Present(W, log, n, 0)
  <2>1. ASSUME NEW a \in n + 1 .. Len(log)
        PROVE  \E i \in DOMAIN W : W[i] = <<a, 1>> /\ i - 1 + Len(Bytes(a, log[a])) <= Len(W)
    <3> DEFINE size == Len(Bytes(a, log[a]))
    <3>1. PICK i \in DOMAIN S : S[i] = <<a, 1>> /\ i - 1 + size <= Len(S)
      BY DEF Present
    <3>2. size \in Nat
      <4>1. a \in Nat \ {0} /\ a \in DOMAIN log
        BY LenProperties
      <4>2. log[a].size \in Nat \ {0} /\ log[a].cr \in BOOLEAN
        BY <4>1 DEF AreFrames
      <4> QED
        BY <4>1, <4>2, BytesEnds
    <3> HIDE DEF size
    <3>3. i \in DOMAIN W /\ W[i] = <<a, 1>> /\ i - 1 + size <= Len(W)
      <4>1. i \in 1 .. Len(S) /\ l \in Nat /\ i \in 1 .. Len(S) + l
        BY <1>1, <1>2
      <4>2. i - 1 + size <= Len(S) + l
        BY <3>1, <3>2, <4>1, <1>1
      <4> QED
        BY <3>1, <4>1, <4>2, <1>3
    <3> QED
      BY <3>3 DEF size
  <2>2. W[Len(W)] # CR
    <3>1. l \in 1 .. l
      BY <1>2
    <3> QED
      BY <3>1, <1>2, <1>3, DataBytes
  <2> QED
    BY <2>1, <2>2 DEF Present
<1> QED
  BY <1>3, <1>10, <1>11 DEF W
-----------------------------------------------------------------------------
(* The first line of a stream.                                             *)

\* The line is what S has before its first LF.
IsLine(S, line) ==
    /\ line \in Seq(Byte) /\ Len(line) + 1 <= Len(S) /\ S[Len(line) + 1] = LF
    /\ \A j \in 1 .. Len(line) : line[j] = S[j] /\ S[j] # LF

AfterLine(S, line) == SubSeq(S, Len(line) + 1 + 1, Len(S))

LEMMA WithoutCRIs ==
    ASSUME NEW line \in Seq(Byte)
    PROVE  /\ WithoutCR(line) \in Seq(Byte) /\ Len(line) \in Nat /\ Len(WithoutCR(line)) \in Nat
           /\ \A j \in 1 .. Len(WithoutCR(line)) : WithoutCR(line)[j] = line[j]
           /\ \/ WithoutCR(line) = line /\ (line = <<>> \/ line[Len(line)] # CR)
              \/ /\ line # <<>> /\ line[Len(line)] = CR
                 /\ Len(line) = Len(WithoutCR(line)) + 1
<1>1. Len(line) \in Nat /\ (line # <<>> => Len(line) >= 1)
  BY LenProperties, EmptySeq
<1>2. CASE line # <<>> /\ Last(line) = CR
  <2>1. WithoutCR(line) = SubSeq(line, 1, Len(line) - 1)
    BY <1>2 DEF WithoutCR, Front
  <2>2. line[Len(line)] = CR
    BY <1>2 DEF Last
  <2>3. Len(line) - 1 \in 0 .. Len(line)
    BY <1>1, <1>2
  <2>4. /\ SubSeq(line, 1, Len(line) - 1) \in Seq(Byte)
        /\ Len(SubSeq(line, 1, Len(line) - 1)) = Len(line) - 1
        /\ \A i \in 1 .. Len(line) - 1 : SubSeq(line, 1, Len(line) - 1)[i] = line[i]
    BY <2>3, Start
  <2>5. Len(WithoutCR(line)) \in Nat /\ Len(line) = Len(WithoutCR(line)) + 1
    BY <2>1, <2>3, <2>4, <1>1
  <2> QED
    BY <1>1, <1>2, <2>1, <2>2, <2>4, <2>5
<1>3. CASE ~(line # <<>> /\ Last(line) = CR)
  <2>1. WithoutCR(line) = line
    BY <1>3 DEF WithoutCR
  <2>2. line = <<>> \/ line[Len(line)] # CR
    BY <1>3 DEF Last
  <2> QED
    BY <2>1, <2>2, <1>1
<1> QED
  BY <1>2, <1>3

\* Nothing but an empty line.
LEMMA EmptyLineIsNone ==
    ASSUME NEW F, AreFrames(F), NEW log \in Seq(F), NEW c \in Nat,
           NEW S \in Seq(Byte), NEW n \in Nat, Flow(S, log, n, c),
           NEW line, IsLine(S, line), WithoutCR(line) = <<>>
    PROVE  /\ Flow(AfterLine(S, line), log, n, c)
           /\ Present(S, log, n, c) => Present(AfterLine(S, line), log, n, c)
<1> DEFINE m == Len(line) + 1
<1>1. /\ line \in Seq(Byte) /\ Len(line) \in Nat /\ Len(S) \in Nat /\ m \in 0 .. Len(S) /\ S[m] = LF
      /\ \A j \in 1 .. Len(line) : line[j] = S[j]
  <2>1. line \in Seq(Byte) /\ Len(line) + 1 <= Len(S)
    BY DEF IsLine
  <2>2. Len(line) \in Nat /\ Len(S) \in Nat
    BY <2>1, LenProperties
  <2> QED
    BY <2>1, <2>2 DEF IsLine
<1>2. Len(line) = 0 \/ (Len(line) = 1 /\ line[1] = CR)
  <2>1. Len(WithoutCR(line)) = 0
    BY EmptySeq
  <2>2. CASE WithoutCR(line) = line
    BY <2>1, <2>2
  <2>3. CASE Len(line) = Len(WithoutCR(line)) + 1 /\ line[Len(line)] = CR
    <3>1. Len(line) = 1
      BY <2>1, <2>3
    <3> QED
      BY <2>3, <3>1
  <2> QED
    BY <2>2, <2>3, <1>1, WithoutCRIs
<1> HIDE DEF m
<1>3. \A i \in 1 .. m : ~IsData(S[i])
  <2> SUFFICES ASSUME NEW i \in 1 .. m
               PROVE  ~IsData(S[i])
    OBVIOUS
  <2>1. CASE i = m
    BY <2>1, <1>1, DataBytes
  <2>2. CASE i # m
    <3>1. i = 1 /\ Len(line) = 1 /\ 1 \in 1 .. Len(line)
      BY <2>2, <1>1, <1>2 DEF m
    <3>2. S[1] = CR
      BY <3>1, <1>1, <1>2
    <3> QED
      BY <3>1, <3>2, DataBytes
  <2> QED
    BY <2>1, <2>2
<1>4. \A i \in m + 1 .. Len(S) : IsData(S[i]) => S[i][1] > n
  <2> SUFFICES ASSUME NEW i \in m + 1 .. Len(S), IsData(S[i])
               PROVE  S[i][1] > n
    OBVIOUS
  <2>1. i \in DOMAIN S
    BY <1>1, LenProperties
  <2>2. S[i][1] \in n + 1 .. Len(log)
    BY <2>1 DEF Flow, InLog
  <2> QED
    BY <2>2, LenProperties
<1>5. /\ Flow(SubSeq(S, m + 1, Len(S)), log, n, c)
      /\ Present(S, log, n, c) => Present(SubSeq(S, m + 1, Len(S)), log, n, c)
  <2>1. n <= n
    OBVIOUS
  <2>2. \A i \in 1 .. m : IsData(S[i]) => S[i][1] <= n
    BY <1>3
  <2> QED
    BY <2>1, <2>2, <1>1, <1>4, FlowRest
<1> QED
  BY <1>5 DEF m, AfterLine

\* Bytes that hold more than an empty line begin the next frame, and stop
\* before its LF if there is none among them.
LEMMA FirstFrame ==
    ASSUME NEW F, AreFrames(F), NEW log \in Seq(F), NEW S \in Seq(Byte), NEW n \in Nat,
           Flow(S, log, n, 0), NEW q \in 1 .. Len(S), \A j \in 1 .. q : S[j] # LF,
           q >= 2 \/ S[1] # CR
    PROVE  /\ n + 1 \in DOMAIN log /\ n + 1 <= Len(log) /\ log[n + 1] \in F
           /\ log[n + 1].size \in Nat \ {0} /\ log[n + 1].cr \in BOOLEAN
           /\ Block(S, n + 1, log[n + 1], 0)
           /\ q < Len(Bytes(n + 1, log[n + 1]))
<1>1. /\ Len(S) \in Nat /\ DOMAIN S = 1 .. Len(S) /\ 1 \in DOMAIN S /\ 1 \in 1 .. q
      /\ Len(log) \in Nat /\ DOMAIN log = 1 .. Len(log)
  BY LenProperties
<1>2. S[1] \in Byte /\ S[1][1] \in Nat /\ S[1][2] \in Nat /\ S[1] = <<S[1][1], S[1][2]>>
  BY <1>1, StreamBytes
<1>3. S[1] # CR
  <2> SUFFICES ASSUME S[1] = CR
               PROVE  FALSE
    OBVIOUS
  <2>1. q >= 2
    OBVIOUS
  <2>2. 2 \in 1 .. q /\ 1 # Len(S)
    BY <2>1, <1>1
  <2>3. S[1 + 1] = LF
    BY <1>1, <2>2 DEF Flow, CRThenLF
  <2> QED
    BY <2>2, <2>3
<1>4. IsData(S[1])
  <2>1. S[1] # LF
    BY <1>1
  <2> QED
    BY <2>1, <1>3 DEF IsData
<1>5. S[1][1] \in n + 1 .. Len(log) /\ S[1][2] \in 1 .. log[S[1][1]].size
  BY <1>1, <1>4 DEF Flow, InLog
<1>6. S[1][1] = n + 1
  <2> SUFFICES ASSUME S[1][1] > n + 1
               PROVE  FALSE
    BY <1>2, <1>5
  <2>1. \E j \in 1 .. 1 - 1 : S[j] = <<S[1][1] - 1, 1>>
    BY <1>1, <1>4 DEF Flow, NoneLeftOut
  <2> QED
    BY <2>1
<1>7. n + 1 \in DOMAIN log /\ n + 1 <= Len(log)
  BY <1>1, <1>5, <1>6
<1>8. log[n + 1] \in F /\ log[n + 1].size \in Nat \ {0} /\ log[n + 1].cr \in BOOLEAN
  <2>1. log[n + 1] \in F
    BY <1>1, <1>7, ElementOfSeq
  <2> QED
    BY <2>1 DEF AreFrames
<1>9. Block(S, n + 1, log[n + 1], 1 - S[1][2])
  <2>1. Block(S, S[1][1], log[S[1][1]], 1 - S[1][2])
    BY <1>1, <1>4 DEF Flow, InBlocks
  <2> QED
    BY <2>1, <1>6
<1>10. 1 - S[1][2] = 0
  <2>1. 1 - S[1][2] >= 0
    BY <1>9 DEF Block
  <2>2. S[1][2] >= 1
    BY <1>2, <1>5, <1>6, <1>8
  <2> QED
    BY <2>1, <2>2, <1>2
<1>11. Block(S, n + 1, log[n + 1], 0)
  BY <1>9, <1>10
<1> DEFINE B == Bytes(n + 1, log[n + 1])
<1>12. Len(B) \in Nat /\ Len(B) > log[n + 1].size /\ B[Len(B)] = LF
  <2>1. n + 1 \in Nat \ {0}
    OBVIOUS
  <2> QED
    BY <2>1, <1>8, BytesEnds
<1>13. q < Len(B)
  <2> SUFFICES ASSUME q >= Len(B)
               PROVE  FALSE
    BY <1>12
  <2>1. Len(B) >= 1
    BY <1>8, <1>12
  <2> HIDE DEF B
  <2>2. Len(B) \in 1 .. Len(B) /\ 0 + Len(B) <= Len(S) /\ Len(B) \in 1 .. q /\ 0 + Len(B) = Len(B)
    BY <2>1, <1>1, <1>12
  <2>3. S[Len(B)] = B[Len(B)]
    BY <2>2, <1>11 DEF Block, B
  <2> QED
    BY <2>2, <2>3, <1>12
<1> QED
  BY <1>7, <1>8, <1>11, <1>13

\* A line that is not empty is the next frame, if no frame is cut.
LEMMA LineIsFrame ==
    ASSUME NEW F, AreFrames(F), NEW log \in Seq(F), NEW S \in Seq(Byte), NEW n \in Nat,
           Flow(S, log, n, 0), NEW line, IsLine(S, line), WithoutCR(line) # <<>>
    PROVE  /\ n + 1 \in DOMAIN log /\ n + 1 <= Len(log) /\ log[n + 1] \in F
           /\ WithoutCR(line)[1][1] = n + 1
           /\ IsWhole(WithoutCR(line), log)
           /\ Len(WithoutCR(line)) = log[n + 1].size
           /\ Len(line) = log[n + 1].size + (IF log[n + 1].cr THEN 1 ELSE 0)
<1> DEFINE q == Len(line)
           f == log[n + 1]
           B == Bytes(n + 1, f)
           w == WithoutCR(line)
<1>1. /\ line \in Seq(Byte) /\ q + 1 <= Len(S) /\ S[q + 1] = LF
      /\ \A j \in 1 .. q : line[j] = S[j] /\ S[j] # LF
  BY DEF IsLine
<1>2. q \in Nat /\ Len(S) \in Nat
  BY <1>1, LenProperties
<1>3. /\ w \in Seq(Byte) /\ Len(w) \in Nat /\ Len(w) >= 1
      /\ \A j \in 1 .. Len(w) : w[j] = line[j]
      /\ \/ w = line /\ line[q] # CR
         \/ line[q] = CR /\ q = Len(w) + 1
  <2>1. w \in Seq(Byte) /\ Len(w) >= 1
    BY <1>1, WithoutCRIs, EmptySeq
  <2> HIDE DEF w
  <2>2. w # <<>>
    BY DEF w
  <2> QED
    BY <2>1, <2>2, <1>1, WithoutCRIs DEF w
<1> HIDE DEF w
<1>4. q >= 1 /\ (q >= 2 \/ line[1] # CR)
  <2>1. CASE w = line /\ line[q] # CR
    <3>1. q = Len(w)
      BY <2>1
    <3>2. Len(w) \in Nat /\ Len(w) >= 1
      BY <1>3
    <3>3. q = 1 \/ q >= 2
      BY <3>1, <3>2
    <3>4. q >= 1
      BY <3>1, <3>2
    <3> QED
      BY <2>1, <3>3, <3>4
  <2>2. CASE line[q] = CR /\ q = Len(w) + 1
    BY <2>2, <1>3
  <2> QED
    BY <2>1, <2>2, <1>3
<1>5. /\ q \in 1 .. Len(S) /\ (q >= 2 \/ S[1] # CR) /\ \A j \in 1 .. q : S[j] # LF
  <2>1. q \in 1 .. Len(S) /\ 1 \in 1 .. q
    BY <1>1, <1>2, <1>4
  <2>2. line[1] = S[1]
    BY <2>1, <1>1
  <2> QED
    BY <2>1, <2>2, <1>1, <1>4
<1> HIDE DEF q
<1>6. /\ n + 1 \in DOMAIN log /\ n + 1 <= Len(log) /\ f \in F
      /\ f.size \in Nat \ {0} /\ f.cr \in BOOLEAN
      /\ Block(S, n + 1, f, 0) /\ q < Len(B)
  BY <1>5, FirstFrame
<1>7. n + 1 \in Nat \ {0} /\ f.size \in Nat
  BY <1>6
<1>8. Len(B) \in Nat /\ \A j \in 1 .. Len(B) - 1 : B[j] # LF
  BY <1>6, <1>7, BytesEnds
<1>9. \A j \in 1 .. f.size : B[j] = <<n + 1, j>> /\ IsData(B[j])
  BY <1>6, <1>7, BytesOf
<1>10. /\ f.cr => Len(B) = f.size + 2 /\ B[f.size + 1] = CR
       /\ ~f.cr => Len(B) = f.size + 1
  BY <1>6, <1>7, BytesOf
<1>11. \A j \in 1 .. Len(B) : j <= Len(S) => S[j] = B[j]
  <2> SUFFICES ASSUME NEW j \in 1 .. Len(B), j <= Len(S)
               PROVE  S[j] = B[j]
    OBVIOUS
  <2>1. 0 + j = j
    BY <1>8
  <2> QED
    BY <2>1, <1>6 DEF Block
<1> HIDE DEF B, f
<1>12. q + 1 = Len(B)
  <2>1. q + 1 \in 1 .. Len(B) /\ q + 1 <= Len(S)
    BY <1>1, <1>2, <1>6, <1>8 DEF q
  <2>2. B[q + 1] = LF
    BY <2>1, <1>1, <1>11 DEF q
  <2>3. q + 1 \notin 1 .. Len(B) - 1
    BY <2>2, <1>8
  <2> QED
    BY <2>1, <2>3, <1>8
<1>13. \A j \in 1 .. q : line[j] = B[j]
  <2> SUFFICES ASSUME NEW j \in 1 .. q
               PROVE  line[j] = B[j]
    OBVIOUS
  <2>1. j \in 1 .. Len(B) /\ j <= Len(S)
    BY <1>5, <1>8, <1>12, <1>2
  <2> QED
    BY <2>1, <1>1, <1>11 DEF q
<1>14. q = f.size + (IF f.cr THEN 1 ELSE 0) /\ Len(w) = f.size
  <2>1. CASE f.cr
    <3>1. Len(B) = f.size + 2 /\ B[f.size + 1] = CR
      BY <2>1, <1>10
    <3>2. q = f.size + 1
      BY <3>1, <1>2, <1>7, <1>12 DEF q
    <3>3. q \in 1 .. q
      BY <3>2, <1>7
    <3>4. line[q] = CR
      BY <3>1, <3>2, <3>3, <1>13
    <3>5. q = Len(w) + 1
      BY <3>4, <1>3 DEF q
    <3>6. Len(w) = f.size
      BY <3>2, <3>5, <1>3, <1>7
    <3> QED
      BY <2>1, <3>2, <3>6
  <2>2. CASE ~f.cr
    <3>1. Len(B) = f.size + 1
      BY <2>2, <1>10
    <3>2. q = f.size
      BY <3>1, <1>2, <1>7, <1>12 DEF q
    <3>3. q \in 1 .. q /\ q \in 1 .. f.size
      BY <3>2, <1>5
    <3>4. line[q] # CR
      BY <3>3, <1>9, <1>13, DataBytes
    <3>5. w = line
      BY <3>4, <1>3 DEF q
    <3> QED
      BY <2>2, <3>2, <3>5, <1>7 DEF q
  <2> QED
    BY <2>1, <2>2
<1>15. \A j \in 1 .. f.size : w[j] = <<n + 1, j>>
  <2> SUFFICES ASSUME NEW j \in 1 .. f.size
               PROVE  w[j] = <<n + 1, j>>
    OBVIOUS
  <2>1. f.size <= q
    <3>1. q = f.size + 1 \/ q = f.size
      BY <1>14
    <3> QED
      BY <3>1, <1>7
  <2>2. j \in 1 .. q /\ j \in 1 .. Len(w)
    BY <2>1, <1>7, <1>14, <1>2 DEF q
  <2>3. w[j] = line[j] /\ line[j] = B[j]
    BY <2>2, <1>3, <1>13
  <2> QED
    BY <2>3, <1>9
<1>16. 1 \in 1 .. f.size
  BY <1>6 DEF f
<1>17. w[1] = <<n + 1, 1>> /\ w[1][1] = n + 1
  BY <1>15, <1>16
<1>18. w = [k \in 1 .. f.size |-> <<n + 1, k>>]
  <2>1. w \in [1 .. f.size -> Byte]
    BY <1>3, <1>14, LenProperties
  <2> QED
    BY <2>1, <1>15
<1>19. IsWhole(w, log)
  <2>1. w # <<>> /\ w[1][1] \in DOMAIN log
    BY <1>6, <1>17 DEF w
  <2> QED
    BY <2>1, <1>17, <1>18 DEF IsWhole, f
<1> QED
  BY <1>6, <1>14, <1>17, <1>19 DEF w, f, q

\* A line that is a whole frame is the next one, and not the cut one.
LEMMA WholeIsNext ==
    ASSUME NEW F, AreFrames(F), NEW log \in Seq(F), NEW c \in Nat,
           NEW S \in Seq(Byte), NEW n \in Nat, Flow(S, log, n, c),
           NEW line, IsLine(S, line), IsWhole(WithoutCR(line), log)
    PROVE  /\ WithoutCR(line)[1][1] = n + 1
           /\ n + 1 \in DOMAIN log /\ n + 1 <= Len(log) /\ c # n + 1
           /\ Flow(AfterLine(S, line), log, n + 1, c)
           /\ Present(S, log, n, c) => Present(AfterLine(S, line), log, n + 1, c)
<1> DEFINE w == WithoutCR(line)
           a == w[1][1]
           size == log[a].size
           p == Len(line) + 1
<1>1. /\ line \in Seq(Byte) /\ Len(line) \in Nat /\ Len(S) \in Nat /\ DOMAIN S = 1 .. Len(S)
      /\ p \in 1 .. Len(S) /\ S[p] = LF
      /\ \A j \in 1 .. Len(line) : line[j] = S[j]
  <2>1. line \in Seq(Byte) /\ Len(line) + 1 <= Len(S)
    BY DEF IsLine
  <2>2. Len(line) \in Nat /\ Len(S) \in Nat /\ DOMAIN S = 1 .. Len(S)
    BY <2>1, LenProperties
  <2> QED
    BY <2>1, <2>2 DEF IsLine
<1>2. /\ w \in Seq(Byte) /\ Len(w) \in Nat
      /\ \A j \in 1 .. Len(w) : w[j] = line[j]
      /\ \/ w = line
         \/ line[Len(line)] = CR /\ Len(line) = Len(w) + 1
  BY <1>1, WithoutCRIs
<1> HIDE DEF w
<1>3. a \in DOMAIN log /\ w = [k \in 1 .. size |-> <<a, k>>]
  BY DEF IsWhole, w
<1> HIDE DEF a
<1>4. /\ Len(log) \in Nat /\ DOMAIN log = 1 .. Len(log) /\ a \in 1 .. Len(log) /\ a \in Nat \ {0}
      /\ log[a].size \in Nat \ {0}
  <2>1. Len(log) \in Nat /\ DOMAIN log = 1 .. Len(log)
    BY LenProperties
  <2>2. a \in 1 .. Len(log) /\ a \in Nat \ {0}
    BY <2>1, <1>3
  <2>3. log[a] \in F
    BY <2>2, ElementOfSeq
  <2> QED
    BY <2>1, <2>2, <2>3 DEF AreFrames
<1>5. size \in Nat /\ size >= 1
  BY <1>4
<1> HIDE DEF size
<1>6. Len(w) = size
  <2>1. DOMAIN w = 1 .. Len(w) /\ DOMAIN w = 1 .. size
    BY <1>2, <1>3, LenProperties
  <2>2. 1 .. Len(w) = 1 .. size
    BY <2>1
  <2> QED
    BY <2>2, <1>2, <1>5
<1>7. p = size + 1 \/ (p = size + 2 /\ line[size + 1] = CR)
  <2>1. CASE w = line
    BY <2>1, <1>6
  <2>2. CASE line[Len(line)] = CR /\ Len(line) = Len(w) + 1
    BY <2>2, <1>5, <1>6
  <2> QED
    BY <2>1, <2>2, <1>2
<1>8. size <= Len(line) /\ size + 1 <= p
  <2>1. p = size + 1 \/ p = size + 2
    BY <1>7
  <2> QED
    BY <2>1, <1>1, <1>5
<1>9. \A j \in 1 .. size : S[j] = <<a, j>>
  <2> SUFFICES ASSUME NEW j \in 1 .. size
               PROVE  S[j] = <<a, j>>
    OBVIOUS
  <2>1. j \in 1 .. Len(line) /\ j \in 1 .. Len(w)
    BY <1>1, <1>5, <1>6, <1>8
  <2>2. S[j] = w[j]
    BY <2>1, <1>1, <1>2
  <2>3. w[j] = <<a, j>>
    BY <1>3
  <2> QED
    BY <2>2, <2>3
<1>10. \A j \in size + 1 .. p : S[j] \in {LF, CR}
  <2> SUFFICES ASSUME NEW j \in size + 1 .. p
               PROVE  S[j] \in {LF, CR}
    OBVIOUS
  <2>1. CASE j = p
    BY <2>1, <1>1
  <2>2. CASE j # p
    <3>1. p # size + 1 /\ p \in Nat
      BY <2>2, <1>1, <1>5
    <3>2. p = size + 2 /\ line[size + 1] = CR
      BY <3>1, <1>7
    <3>3. j = size + 1 /\ j \in 1 .. Len(line)
      BY <2>2, <3>2, <1>1, <1>5, SMTT(30)
    <3> QED
      BY <3>2, <3>3, <1>1
  <2> QED
    BY <2>1, <2>2
<1>11. 1 \in 1 .. size /\ 1 \in DOMAIN S /\ size \in DOMAIN S /\ size # Len(S)
       /\ size \in 1 .. size /\ size + 1 \in size + 1 .. p
  <2>0. /\ Len(S) \in Nat /\ p \in 1 .. Len(S) /\ size \in Nat /\ size >= 1 /\ size + 1 <= p
    BY <1>1, <1>5, <1>8
  <2>1. size <= Len(S) - 1 /\ Len(S) >= 2
    BY <2>0
  <2>2. 1 \in 1 .. Len(S) /\ size \in 1 .. Len(S) /\ size # Len(S)
    BY <2>0, <2>1
  <2>3. 1 \in 1 .. size /\ size \in 1 .. size /\ size + 1 \in size + 1 .. p
    BY <2>0
  <2> QED
    BY <2>2, <2>3, <1>1, ZenonT(30)
<1>12. /\ S[1] = <<a, 1>> /\ S[1][1] = a /\ S[1][2] = 1 /\ IsData(S[1])
       /\ S[size] = <<a, size>> /\ S[size][1] = a /\ S[size][2] = size /\ IsData(S[size])
       /\ ~IsData(S[size + 1])
  <2>1. S[1] = <<a, 1>> /\ S[size] = <<a, size>> /\ S[size + 1] \in {LF, CR}
    BY <1>9, <1>10, <1>11
  <2>2. IsData(<<a, 1>>) /\ IsData(<<a, size>>)
    BY <1>4, <1>5, DataBytes
  <2>3. ~IsData(S[size + 1])
    BY <2>1, DataBytes
  <2> QED
    BY <2>1, <2>2, <2>3
<1>13. a = n + 1
  <2>1. a \in n + 1 .. Len(log)
    BY <1>11, <1>12 DEF Flow, InLog
  <2>2. ~(a > n + 1)
    <3> SUFFICES ASSUME a > n + 1
                 PROVE  FALSE
      OBVIOUS
    <3>1. \E j \in 1 .. 1 - 1 : S[j] = <<S[1][1] - 1, 1>>
      BY <1>11, <1>12 DEF Flow, NoneLeftOut
    <3> QED
      BY <3>1
  <2> QED
    BY <2>1, <2>2, <1>4
<1>14. c # n + 1
  <2> SUFFICES ASSUME c = n + 1
               PROVE  FALSE
    OBVIOUS
  <2>1. c # 0 /\ S[size] = <<c, log[c].size>> /\ size \in DOMAIN S
    BY <1>11, <1>12, <1>13 DEF size
  <2>2. size = Len(S) \/ IsData(S[size + 1])
    BY <2>1 DEF Flow, CutOpen
  <2> QED
    BY <2>2, <1>11, <1>12
<1>15. \A i \in 1 .. p : IsData(S[i]) => S[i][1] <= n + 1
  <2> SUFFICES ASSUME NEW i \in 1 .. p, IsData(S[i])
               PROVE  S[i][1] <= n + 1
    OBVIOUS
  <2>1. i \notin size + 1 .. p
    BY <1>10, DataBytes
  <2>2. i \in 1 .. size
    BY <2>1, <1>1, <1>5
  <2>3. S[i] = <<n + 1, i>>
    BY <2>2, <1>9, <1>13
  <2> QED
    BY <2>3
<1>16. \A i \in p + 1 .. Len(S) : IsData(S[i]) => S[i][1] > n + 1
  <2> SUFFICES ASSUME NEW i \in p + 1 .. Len(S), IsData(S[i])
               PROVE  S[i][1] > n + 1
    OBVIOUS
  <2>1. i \in DOMAIN S /\ size < i /\ i \in 1 .. Len(S)
    BY <1>1, <1>5, <1>8
  <2>2. S[size][1] < S[i][1] \/ (S[size][1] = S[i][1] /\ S[size][2] < S[i][2])
    <3>1. Ordered(S)
      BY DEF Flow
    <3> QED
      BY <2>1, <3>1, <1>11, <1>12 DEF Ordered
  <2>3. S[i][1] \in Nat /\ S[i][2] \in Nat
    BY <2>1, StreamBytes
  <2>4. S[i][2] \in 1 .. log[S[i][1]].size
    BY <2>1 DEF Flow, InLog
  <2>5. S[i][1] # a
    <3> SUFFICES ASSUME S[i][1] = a
                 PROVE  FALSE
      OBVIOUS
    <3>1. S[i][2] \in 1 .. size
      BY <2>4 DEF size
    <3>2. size < S[i][2]
      BY <2>2, <1>4, <1>12
    <3> QED
      BY <3>1, <3>2, <1>5, <2>3
  <2>6. a < S[i][1]
    BY <2>2, <2>5, <1>12
  <2> QED
    BY <2>6, <1>13
<1>17. /\ Flow(SubSeq(S, p + 1, Len(S)), log, n + 1, c)
       /\ Present(S, log, n, c) => Present(SubSeq(S, p + 1, Len(S)), log, n + 1, c)
  <2>1. p \in 0 .. Len(S) /\ n <= n + 1 /\ n + 1 \in Nat
    BY <1>1
  <2> HIDE DEF p
  <2> QED
    BY <2>1, <1>15, <1>16, FlowRest
<1>18. a \in DOMAIN log /\ a <= Len(log)
  BY <1>3, <1>4
<1> QED
  BY <1>13, <1>14, <1>17, <1>18 DEF p, AfterLine, a, w
-----------------------------------------------------------------------------
(* Sequences cut and joined.                                               *)

LEMMA PrefixSplit ==
    ASSUME NEW T, NEW s \in Seq(T), NEW part \in Prefixes(s)
    PROVE  /\ part \in Seq(T) /\ Len(part) \in 0 .. Len(s)
           /\ part = SubSeq(s, 1, Len(part))
           /\ SubSeq(s, Len(part) + 1, Len(s)) \in Seq(T)
           /\ part \o SubSeq(s, Len(part) + 1, Len(s)) = s
<1>1. PICK l \in 0 .. Len(s) : part = SubSeq(s, 1, l)
  BY DEF Prefixes
<1>2. part \in Seq(T) /\ Len(part) = l
  BY <1>1, Start
<1>3. SubSeq(s, Len(part) + 1, Len(s)) \in Seq(T)
  BY <1>2, Rest
<1>4. SubSeq(s, 1, l) \o SubSeq(s, l + 1, Len(s)) = SubSeq(s, 1, Len(s))
  <2>1. 1 \in 1 .. Len(s) + 1 /\ l \in 1 - 1 .. Len(s) /\ Len(s) \in l .. Len(s)
    BY LenProperties
  <2> QED
    BY <2>1, ConcatAdjacentSubSeq
<1>5. SubSeq(s, 1, Len(s)) = s
  BY SubSeqFull
<1> QED
  BY <1>1, <1>2, <1>3, <1>4, <1>5, ZenonT(30)

\* The first m elements are those of the first sequence.
LEMMA RestOfConcat ==
    ASSUME NEW T, NEW u \in Seq(T), NEW v \in Seq(T), NEW m \in 0 .. Len(u)
    PROVE  SubSeq(u \o v, m + 1, Len(u \o v)) = SubSeq(u, m + 1, Len(u)) \o v
<1> DEFINE W == u \o v
           R == SubSeq(u, m + 1, Len(u))
           A == SubSeq(W, m + 1, Len(W))
           B == R \o v
<1>1. Len(u) \in Nat /\ Len(v) \in Nat /\ m \in Nat /\ m <= Len(u)
  BY LenProperties
<1>2. /\ W \in Seq(T) /\ Len(W) = Len(u) + Len(v)
      /\ \A i \in 1 .. Len(u) + Len(v) : W[i] = IF i <= Len(u) THEN u[i] ELSE v[i - Len(u)]
  BY ConcatProperties
<1>3. /\ R \in Seq(T) /\ Len(R) = Len(u) - m /\ \A i \in 1 .. Len(u) - m : R[i] = u[m + i]
  BY Rest
<1> HIDE DEF W, R
<1>4. m \in 0 .. Len(W)
  BY <1>1, <1>2
<1>5. /\ A \in Seq(T) /\ Len(A) = Len(W) - m /\ \A i \in 1 .. Len(W) - m : A[i] = W[m + i]
  BY <1>2, <1>4, Rest
<1>6. /\ B \in Seq(T) /\ Len(B) = Len(R) + Len(v)
      /\ \A i \in 1 .. Len(R) + Len(v) : B[i] = IF i <= Len(R) THEN R[i] ELSE v[i - Len(R)]
  BY <1>3, ConcatProperties
<1> HIDE DEF A, B
<1>7. Len(A) = Len(B)
  BY <1>1, <1>2, <1>3, <1>5, <1>6
<1>8. ASSUME NEW i \in 1 .. Len(A)
      PROVE  A[i] = B[i]
  <2>1. i \in 1 .. Len(W) - m /\ i \in 1 .. Len(R) + Len(v) /\ m + i \in 1 .. Len(u) + Len(v)
    BY <1>1, <1>2, <1>3, <1>5
  <2>2. A[i] = W[m + i]
    BY <2>1, <1>5
  <2>3. CASE i <= Len(R)
    <3>1. m + i <= Len(u) /\ i \in 1 .. Len(u) - m
      BY <2>1, <2>3, <1>1, <1>3
    <3> QED
      BY <2>1, <2>2, <2>3, <3>1, <1>2, <1>3, <1>6
  <2>4. CASE ~(i <= Len(R))
    <3>1. ~(m + i <= Len(u)) /\ (m + i) - Len(u) = i - Len(R)
      BY <2>1, <2>4, <1>1, <1>3
    <3>2. W[m + i] = v[(m + i) - Len(u)]
      BY <2>1, <3>1, <1>2
    <3>3. B[i] = v[i - Len(R)]
      BY <2>1, <2>4, <1>6
    <3> QED
      BY <2>2, <3>1, <3>2, <3>3
  <2> QED
    BY <2>3, <2>4
<1>9. A = B
  BY <1>5, <1>6, <1>7, <1>8, SeqEqual
<1> QED
  BY <1>9 DEF A, B, W, R

\* One element moved from the second sequence to the first.
LEMMA MoveOne ==
    ASSUME NEW T, NEW u \in Seq(T), NEW v \in Seq(T), v # <<>>
    PROVE  /\ Head(v) \in T /\ Tail(v) \in Seq(T) /\ Len(v) \in Nat \ {0}
           /\ Head(v) = v[1] /\ Len(Tail(v)) = Len(v) - 1
           /\ Append(u, Head(v)) \in Seq(T) /\ Append(u, Head(v)) \o Tail(v) = u \o v
<1>1. /\ Head(v) \in T /\ Tail(v) \in Seq(T) /\ Len(v) \in Nat \ {0} /\ Head(v) = v[1]
      /\ Len(Tail(v)) = Len(v) - 1
  BY HeadTailProperties, EmptySeq
<1>2. <<Head(v)>> \in Seq(T) /\ Append(u, Head(v)) = u \o <<Head(v)>>
  BY <1>1, AppendIsConcat
<1>3. <<Head(v)>> \o Tail(v) = v
  <2>1. SubSeq(v, 1, Len(v)) = <<v[1]>> \o SubSeq(v, 1 + 1, Len(v))
    <3>1. 1 \in 1 .. Len(v) /\ Len(v) \in 1 .. Len(v)
      BY <1>1
    <3> QED
      BY <3>1, SubSeqRecursiveFirst
  <2>2. Tail(v) = SubSeq(v, 1 + 1, Len(v))
    BY TailIsSubSeq
  <2> QED
    BY <1>1, <2>1, <2>2, SubSeqFull
<1>4. (u \o <<Head(v)>>) \o Tail(v) = u \o (<<Head(v)>> \o Tail(v))
  BY <1>1, <1>2, ConcatAssociative
<1>5. Append(u, Head(v)) \in Seq(T)
  BY <1>1, AppendProperties
<1> QED
  BY <1>1, <1>2, <1>3, <1>4, <1>5
=============================================================================
