---------------------------- MODULE WatchLoopProofs ----------------------------
(***************************************************************************)
(* For every frame size, read size, host and number of events: the         *)
(* decoders of both sides hand on the frames of the other side whole and   *)
(* in order, and refuse none that is legal.                                *)
(*                                                                         *)
(* The inductive invariant says of each direction that what its reader     *)
(* holds, followed by what is under way, is what is left of the writer's   *)
(* frames (Flow of StreamLemmas), and that nothing of it is missing while  *)
(* the connection stands (Present).                                        *)
(***************************************************************************)
EXTENDS WatchLoop, StreamLemmas

LEMMA RequiredByHost ==
    \A t \in {"hello", "sync_request", "action", "command_result"} :
        t \in DOMAIN HostRequires /\ HostRequires[t] = RequiredFields(t)
  BY DEF HostRequires, MessageTypes

\* The frames of the watch are as the host wants them.
LEMMA OwnFrames ==
    /\ AreFrames(WatchFrames) /\ Hello.size = 1 /\ SyncRequest.size = 1
    /\ \A f \in WatchFrames : f.sound /\ Valid(f) /\ f.size <= MaxFrame /\ f.cr = FALSE
<1>1. MaxFrame \in Nat \ {0}
  BY LinkAssumption
<1>2. Valid(Hello) /\ Valid(SyncRequest)
  <2>1. RequiredFields("hello") = Hello.fields
    BY DEF RequiredFields, Hello, Frame
  <2>2. RequiredFields("sync_request") = SyncRequest.fields
    BY DEF RequiredFields, SyncRequest, Frame
  <2> QED
    BY <2>1, <2>2, RequiredByHost DEF Valid, Hello, SyncRequest, Frame
<1>3. Valid(SetPlaying) /\ Valid(Unsupported)
  <2>1. RequiredFields("action") = SetPlaying.fields
    BY DEF RequiredFields, SetPlaying, Frame
  <2>2. RequiredFields("command_result") = Unsupported.fields
    BY DEF RequiredFields, Unsupported, Frame
  <2> QED
    BY <2>1, <2>2, RequiredByHost DEF Valid, SetPlaying, Unsupported, Frame
<1>4. \A f \in WatchFrames : f.size \in {1, MaxFrame} /\ f.cr = FALSE /\ f.sound = TRUE
  BY DEF WatchFrames, Hello, SyncRequest, SetPlaying, Unsupported, Frame
<1>5. Hello.size = 1 /\ SyncRequest.size = 1
  BY DEF Hello, SyncRequest, Frame
<1>6. \A f \in WatchFrames : f.size \in Nat \ {0} /\ f.size <= MaxFrame
  BY <1>1, <1>4
<1>7. AreFrames(WatchFrames)
  BY <1>4, <1>6 DEF AreFrames
<1>8. \A f \in WatchFrames : Valid(f)
  BY <1>2, <1>3 DEF WatchFrames
<1> QED
  BY <1>4, <1>5, <1>6, <1>7, <1>8

LEMMA HostFramesAreFrames == AreFrames(HostFrames)
  BY FramesAssumption DEF AreFrames

LEMMA BytesOnWire == WireBytes = Byte
  BY DataBytes DEF WireBytes, Byte
-----------------------------------------------------------------------------
(* The invariant.                                                          *)

\* What the reader has not acted on: held by it, or under way.
WatchStream == decoder \o (chunk \o toWatch)
HostStream == buffered \o toHost
Read == served \o decoded

WatchTypes ==
    /\ socket \in BOOLEAN
    /\ toWatch \in Seq(Byte) /\ decoder \in Seq(Byte) /\ chunk \in Seq(Byte)
    /\ Len(decoder) <= MaxFrame /\ Len(chunk) <= WatchChunk
    /\ hostLog \in Seq(HostFrames) /\ handled \in Seq(Nat)
    /\ watchError \in {"", "frame", "handler"}

RefusesIllegal ==
    watchError = "frame" => Len(handled) < Len(hostLog) /\ ~Legal(hostLog[Len(handled) + 1])

WatchOpen ==
    /\ \A j \in 1 .. Len(decoder) : decoder[j] # LF
    /\ ~socket => decoder = <<>> /\ chunk = <<>>
    /\ socket => watchError = ""
    /\ socket => Flow(WatchStream, hostLog, Len(handled), 0)
    /\ socket /\ serving => Present(WatchStream, hostLog, Len(handled), 0)

WatchEnd == WatchTypes /\ WatchReadsInOrder /\ RefusesIllegal /\ WatchOpen

HostTypes ==
    /\ serving \in BOOLEAN
    /\ toHost \in Seq(Byte) /\ buffered \in Seq(Byte)
    /\ Len(buffered) <= MaxFrame + HostChunk
    /\ phase \in {"read", "push", "serve"} /\ (phase # "push" => Len(buffered) <= MaxFrame)
    /\ watchLog \in Seq(WatchFrames) /\ cut \in 0 .. Len(watchLog)
    /\ decoded \in Seq(Nat) /\ served \in Seq(Nat)
    /\ hostError \in {"", "frame", "io"}

HostOpen ==
    /\ hostError = "frame" => cut # 0
    /\ ~serving => toHost = <<>> /\ buffered = <<>> /\ decoded = <<>> /\ phase = "read"
    /\ serving => Flow(HostStream, watchLog, Len(Read), cut)
    /\ socket /\ serving => Present(HostStream, watchLog, Len(Read), cut)

HostEnd == HostTypes /\ HostReadsInOrder /\ HostOpen

LoopTypes ==
    /\ pc \in {"connect", "receive", "push", "activate", "button", "handle", "timers"}
    /\ pendingButton \in BOOLEAN /\ pendingActivate \in BOOLEAN
    /\ event \in {"none", "button", "activate"}
    /\ waiting \subseteq {"button", "activate"}
    /\ screen \in 0 .. ScreenCount - 1
    /\ events \in 0 .. MaxEvents

Ends == WatchEnd /\ HostEnd

IInv == LoopTypes /\ Ends
-----------------------------------------------------------------------------
(* The numbers of the frames read so far.                                  *)

LEMMA CountIs ==
    ASSUME NEW n \in Nat
    PROVE  Count(n) \in Seq(Nat) /\ Len(Count(n)) = n /\ \A k \in 1 .. n : Count(n)[k] = k
  BY DEF Count

LEMMA CountAppend ==
    ASSUME NEW h \in Seq(Nat), h = Count(Len(h))
    PROVE  /\ Append(h, Len(h) + 1) \in Seq(Nat) /\ Len(Append(h, Len(h) + 1)) = Len(h) + 1
           /\ Append(h, Len(h) + 1) = Count(Len(h) + 1)
<1> DEFINE n == Len(h)
           g == Append(h, n + 1)
<1>1. n \in Nat
  BY LenProperties
<1> HIDE DEF n
<1>2. /\ g \in Seq(Nat) /\ Len(g) = n + 1 /\ g[n + 1] = n + 1
      /\ \A i \in 1 .. n : g[i] = h[i]
  BY <1>1, AppendProperties DEF n
<1>3. /\ Count(n + 1) \in Seq(Nat) /\ Len(Count(n + 1)) = n + 1
      /\ \A k \in 1 .. n + 1 : Count(n + 1)[k] = k
  BY <1>1, CountIs
<1>4. \A k \in 1 .. n : h[k] = k
  BY <1>1, CountIs DEF n
<1> HIDE DEF g
<1>5. \A k \in 1 .. n + 1 : g[k] = Count(n + 1)[k]
  <2> SUFFICES ASSUME NEW k \in 1 .. n + 1 PROVE g[k] = k
    BY <1>3
  <2>1. k \in 1 .. n \/ k = n + 1
    BY <1>1
  <2> QED
    BY <2>1, <1>2, <1>4
<1>6. g = Count(n + 1)
  BY <1>2, <1>3, <1>5, SeqEqual
<1> QED
  BY <1>2, <1>6 DEF g, n

LEMMA CountPrefix ==
    ASSUME NEW u \in Seq(Nat), NEW v \in Seq(Nat), u \o v = Count(Len(u \o v))
    PROVE  u = Count(Len(u)) /\ Len(u) <= Len(u \o v) /\ u \o <<>> = u
<1> DEFINE n == Len(u)
           m == Len(u \o v)
<1>1. n \in Nat /\ Len(v) \in Nat /\ u \o v \in Seq(Nat) /\ m = n + Len(v)
      /\ \A i \in 1 .. n + Len(v) : (u \o v)[i] = IF i <= n THEN u[i] ELSE v[i - n]
  BY LenProperties, ConcatProperties
<1>2. m \in Nat /\ n <= m
  BY <1>1
<1>3. \A i \in 1 .. n : u[i] = i
  <2> SUFFICES ASSUME NEW i \in 1 .. n PROVE u[i] = i
    OBVIOUS
  <2>1. i \in 1 .. m /\ i \in 1 .. n + Len(v) /\ i <= n
    BY <1>1, <1>2
  <2>2. (u \o v)[i] = i
    BY <2>1, <1>2, CountIs
  <2> QED
    BY <2>1, <2>2, <1>1
<1> HIDE DEF m, n
<1>4. Count(n) \in Seq(Nat) /\ Len(Count(n)) = n /\ \A k \in 1 .. n : Count(n)[k] = k
  BY <1>1, CountIs
<1>5. u = Count(n)
  BY <1>3, <1>4, SeqEqual DEF n
<1>6. u \o <<>> = u
  BY ConcatEmptySeq
<1> QED
  BY <1>2, <1>5, <1>6 DEF m, n
-----------------------------------------------------------------------------
(* Steps that do not touch one of the two directions.                      *)

LEMMA WatchEndKept ==
    ASSUME WatchEnd, UNCHANGED <<watchSide, toWatch, hostLog>>, serving' => serving
    PROVE  WatchEnd'
<1>1. WatchTypes' /\ WatchReadsInOrder' /\ RefusesIllegal'
  BY DEF WatchEnd, WatchTypes, WatchReadsInOrder, RefusesIllegal, watchSide
<1>2. WatchStream' = WatchStream
  BY DEF WatchStream, watchSide
<1>3. WatchOpen'
  BY <1>2 DEF WatchEnd, WatchOpen, watchSide
<1> QED
  BY <1>1, <1>3 DEF WatchEnd

LEMMA HostEndKept ==
    ASSUME HostEnd, UNCHANGED <<hostSide, toHost, watchLog, cut>>, socket' => socket
    PROVE  HostEnd'
<1>1. HostTypes' /\ HostReadsInOrder'
  BY DEF HostEnd, HostTypes, HostReadsInOrder, hostSide
<1>2. HostStream' = HostStream /\ Read' = Read
  BY DEF HostStream, Read, hostSide
<1>3. HostOpen'
  BY <1>2 DEF HostEnd, HostOpen, hostSide
<1> QED
  BY <1>1, <1>3 DEF HostEnd
-----------------------------------------------------------------------------
(* The watch writes.                                                       *)

LEMMA Joined ==
    ASSUME NEW s \in Seq(Byte), NEW t \in Seq(Byte), NEW u \in Seq(Byte)
    PROVE  /\ s \o (t \o u) = (s \o t) \o u
           /\ s \o t \in Seq(Byte) /\ s \o (t \o u) \in Seq(Byte)
<1>1. (s \o t) \o u = s \o (t \o u)
  BY ConcatAssociative
<1>2. s \o t \in Seq(Byte) /\ t \o u \in Seq(Byte)
  BY ConcatProperties
<1>3. s \o (t \o u) \in Seq(Byte)
  BY <1>2, ConcatProperties
<1> QED
  BY <1>1, <1>2, <1>3

LEMMA HostReadIs ==
    ASSUME HostEnd
    PROVE  /\ Read \in Seq(Nat) /\ Len(Read) \in Nat /\ Read = Count(Len(Read))
           /\ Len(Read) <= Len(watchLog) /\ Len(watchLog) \in Nat /\ cut \in Nat
           /\ Len(Read) \in 0 .. Len(watchLog)
           /\ cut # 0 => Len(Read) < cut
           /\ HostStream \in Seq(Byte)
<1>1. served \in Seq(Nat) /\ decoded \in Seq(Nat) /\ watchLog \in Seq(WatchFrames)
      /\ cut \in 0 .. Len(watchLog) /\ buffered \in Seq(Byte) /\ toHost \in Seq(Byte)
  BY DEF HostEnd, HostTypes
<1>2. Read \in Seq(Nat) /\ HostStream \in Seq(Byte)
  BY <1>1, ConcatProperties DEF Read, HostStream
<1>3. Len(Read) \in Nat /\ Len(watchLog) \in Nat
  BY <1>1, <1>2, LenProperties
<1>4. Read = Count(Len(Read)) /\ Len(Read) <= Len(watchLog) /\ (cut # 0 => Len(Read) < cut)
  BY DEF HostEnd, HostReadsInOrder, Read
<1> QED
  BY <1>1, <1>2, <1>3, <1>4

\* A frame, or its first l bytes.
LEMMA WritingKeepsHostEnd ==
    ASSUME HostEnd, socket, UNCHANGED hostSide, NEW f \in WatchFrames,
           NEW l \in 1 .. Len(Bytes(Len(watchLog) + 1, f)),
           watchLog' = Append(watchLog, f),
           toHost' = IF serving THEN toHost \o SubSeq(Bytes(Len(watchLog) + 1, f), 1, l)
                     ELSE toHost,
           cut' = IF cut # 0 THEN cut
                  ELSE IF l = Len(Bytes(Len(watchLog) + 1, f)) THEN 0 ELSE Len(watchLog) + 1
    PROVE  HostEnd'
<1> DEFINE log == watchLog
           B == Bytes(Len(watchLog) + 1, f)
           part == SubSeq(B, 1, l)
<1>1. /\ serving \in BOOLEAN /\ toHost \in Seq(Byte) /\ buffered \in Seq(Byte)
      /\ log \in Seq(WatchFrames) /\ cut \in 0 .. Len(log)
  BY DEF HostEnd, HostTypes
<1>2. /\ Read \in Seq(Nat) /\ Len(Read) \in Nat /\ Len(Read) <= Len(log) /\ Len(log) \in Nat
      /\ cut \in Nat /\ Len(Read) \in 0 .. Len(log) /\ HostStream \in Seq(Byte)
      /\ cut # 0 => Len(Read) < cut
  BY HostReadIs
<1>3. AreFrames(WatchFrames) /\ f.size \in Nat \ {0} /\ f.cr \in BOOLEAN /\ f.cr = FALSE
  <2>1. AreFrames(WatchFrames) /\ f.cr = FALSE
    BY OwnFrames
  <2> QED
    BY <2>1 DEF AreFrames
<1>4. B \in Seq(Byte) /\ part \in Seq(Byte)
  <2>1. Len(log) + 1 \in Nat \ {0}
    BY <1>2
  <2>2. B \in Seq(Byte)
    BY <2>1, <1>3, BytesOf
  <2> HIDE DEF B
  <2>3. Len(B) \in Nat
    BY <2>2, LenProperties
  <2>4. l \in 0 .. Len(B)
    BY <2>3 DEF B
  <2> QED
    BY <2>2, <2>4, Start
<1>5. cut' \in Nat
  BY <1>2
<1>6. log' \in Seq(WatchFrames) /\ Len(log') = Len(log) + 1
  BY <1>1, AppendProperties
<1>7. HostTypes'
  <2>1. cut' \in 0 .. Len(log')
    BY <1>1, <1>2, <1>6
  <2>2. toHost' \in Seq(Byte)
    <3> HIDE DEF part
    <3> QED
      BY <1>1, <1>4, ConcatProperties DEF part
  <2> QED
    BY <2>1, <2>2, <1>6 DEF HostEnd, HostTypes, hostSide
<1>8. Read' = Read
  BY DEF Read, hostSide
<1>9. HostReadsInOrder'
  <2>1. Len(Read) <= Len(log') /\ (cut' # 0 => Len(Read) < cut')
    BY <1>2, <1>6
  <2>2. Read' = Count(Len(Read'))
    BY <1>8, HostReadIs
  <2>3. Len(Read') <= Len(log') /\ (cut' # 0 => Len(Read') < cut')
    BY <2>1, <1>8
  <2> QED
    BY <2>2, <2>3 DEF HostReadsInOrder, Read
<1>10. ASSUME serving
       PROVE  /\ HostStream' = HostStream \o part
              /\ Flow(HostStream', log', Len(Read), cut') /\ Present(HostStream', log', Len(Read), cut')
  <2>1. Flow(HostStream, log, Len(Read), cut) /\ Present(HostStream, log, Len(Read), cut)
    BY <1>10 DEF HostEnd, HostOpen
  <2>2. buffered \o (toHost \o part) = (buffered \o toHost) \o part
    BY <1>1, <1>4, Joined
  <2>3. HostStream' = HostStream \o part
    BY <2>2, <1>10 DEF HostStream, hostSide
  <2>4. /\ cut # 0 => cut' = cut
        /\ cut = 0 => cut' = IF l = Len(Bytes(Len(log) + 1, f)) THEN 0 ELSE Len(log) + 1
        /\ cut' # 0 => f.cr = FALSE
    BY <1>3
  <2> DEFINE c2 == cut'
             n == Len(Read)
             S == HostStream
             c == cut
  <2>5. c2 \in Nat /\ c \in 0 .. Len(log) /\ n \in 0 .. Len(log) /\ S \in Seq(Byte)
    BY <1>1, <1>2, <1>5
  <2>6. /\ c # 0 => c2 = c
        /\ c = 0 => c2 = IF l = Len(Bytes(Len(log) + 1, f)) THEN 0 ELSE Len(log) + 1
        /\ c2 # 0 => f.cr = FALSE
    BY <2>4
  <2>7. Flow(S, log, n, c) /\ Present(S, log, n, c)
    BY <2>1
  <2>8. log \in Seq(WatchFrames)
    BY <1>1
  <2> HIDE DEF c2, n, S, c, log
  <2>9. LET W == S \o SubSeq(Bytes(Len(log) + 1, f), 1, l)
        IN W \in Seq(Byte) /\ Flow(W, Append(log, f), n, c2) /\ Present(W, Append(log, f), n, c2)
    <3>1. l \in 1 .. Len(Bytes(Len(log) + 1, f))
      BY DEF log
    <3> QED
      BY <3>1, <2>5, <2>6, <2>7, <2>8, <1>3, FlowExtend
  <2> QED
    BY <2>3, <2>9 DEF c2, n, S, c, log
<1>11. HostOpen'
  <2>1. hostError' = "frame" => cut' # 0
    BY DEF HostEnd, HostOpen, hostSide
  <2>2. serving' = serving
    BY DEF hostSide
  <2>3. ~serving' => toHost' = <<>> /\ buffered' = <<>> /\ decoded' = <<>> /\ phase' = "read"
    BY DEF HostEnd, HostOpen, hostSide
  <2> QED
    BY <2>1, <2>2, <2>3, <1>8, <1>10 DEF HostOpen
<1> QED
  BY <1>7, <1>9, <1>11 DEF HostEnd

LEMMA SendKeepsHostEnd ==
    ASSUME HostEnd, socket, UNCHANGED hostSide, NEW f \in WatchFrames, Send(f)
    PROVE  HostEnd'
<1> DEFINE B == Bytes(Len(watchLog) + 1, f)
           l == Len(B)
<1>1. Len(watchLog) + 1 \in Nat \ {0} /\ f.size \in Nat \ {0} /\ f.cr \in BOOLEAN
  <2>1. Len(watchLog) \in Nat
    BY HostReadIs
  <2>2. f.size \in Nat \ {0} /\ f.cr \in BOOLEAN
    BY OwnFrames DEF AreFrames
  <2> QED
    BY <2>1, <2>2
<1>2. B \in Seq(Byte) /\ Len(B) \in Nat /\ Len(B) > f.size
  BY <1>1, BytesOf, BytesEnds
<1>3. l \in 1 .. Len(B) /\ SubSeq(B, 1, l) = B
  <2> HIDE DEF B
  <2>1. Len(B) \in Nat /\ Len(B) >= 1
    BY <1>1, <1>2
  <2> QED
    BY <2>1, <1>2, SubSeqFull
<1>4. /\ watchLog' = Append(watchLog, f)
      /\ toHost' = IF serving THEN toHost \o B ELSE toHost
      /\ cut' = cut
  BY DEF Send
<1>5. cut' = IF cut # 0 THEN cut ELSE IF l = Len(B) THEN 0 ELSE Len(watchLog) + 1
  BY <1>4
<1>6. toHost' = IF serving THEN toHost \o SubSeq(B, 1, l) ELSE toHost
  BY <1>3, <1>4
<1> HIDE DEF l
<1> QED
  BY <1>3, <1>4, <1>5, <1>6, WritingKeepsHostEnd

LEMMA SendCutKeepsHostEnd ==
    ASSUME HostEnd, socket, UNCHANGED hostSide, NEW f \in WatchFrames, SendCut(f)
    PROVE  HostEnd'
<1> DEFINE n == Len(watchLog) + 1
           B == Bytes(n, f)
<1>1. n \in Nat \ {0} /\ f.size \in Nat \ {0} /\ f.cr \in BOOLEAN
  <2>1. Len(watchLog) \in Nat
    BY HostReadIs
  <2>2. f.size \in Nat \ {0} /\ f.cr \in BOOLEAN
    BY OwnFrames DEF AreFrames
  <2> QED
    BY <2>1, <2>2
<1>2. B \in Seq(Byte) /\ Len(B) \in Nat
  BY <1>1, BytesOf, BytesEnds
<1>3. PICK part \in Prefixes(B) \ {B} :
         /\ toHost' = IF serving THEN toHost \o part ELSE toHost
         /\ IF part = <<>> THEN UNCHANGED <<watchLog, cut>>
            ELSE /\ watchLog' = Append(watchLog, f)
                 /\ cut' = IF cut = 0 THEN n ELSE cut
  BY DEF SendCut
<1> DEFINE l == Len(part)
<1>4. part \in Seq(Byte) /\ l \in 0 .. Len(B) /\ part = SubSeq(B, 1, l)
  <2> HIDE DEF B
  <2> QED
    BY <1>2, <1>3, PrefixSplit
<1>5. CASE part = <<>>
  <2>1. toHost' = toHost
    <3>1. toHost \o <<>> = toHost
      BY ConcatEmptySeq DEF HostEnd, HostTypes
    <3> QED
      BY <3>1, <1>3, <1>5
  <2> QED
    BY <2>1, <1>3, <1>5, HostEndKept
<1>6. CASE part # <<>>
  <2>1. l \in 1 .. Len(B) /\ l # Len(B)
    <3> HIDE DEF B
    <3>1. l # 0
      BY <1>4, <1>6, EmptySeq, SMTT(30)
    <3>2. l # Len(B)
      <4>1. SubSeq(B, 1, Len(B)) = B
        BY <1>2, SubSeqFull
      <4> QED
        BY <4>1, <1>3, <1>4
    <3> QED
      BY <3>1, <3>2, <1>2, <1>4
  <2>2. watchLog' = Append(watchLog, f)
    BY <1>3, <1>6
  <2>3. cut' = IF cut # 0 THEN cut ELSE IF l = Len(B) THEN 0 ELSE n
    BY <2>1, <1>3, <1>6
  <2>4. toHost' = IF serving THEN toHost \o SubSeq(B, 1, l) ELSE toHost
    BY <1>3, <1>4
  <2> HIDE DEF l
  <2> QED
    BY <2>1, <2>2, <2>3, <2>4, WritingKeepsHostEnd DEF n
<1> QED
  BY <1>5, <1>6
-----------------------------------------------------------------------------
(* The watch reads.                                                        *)

LEMMA WatchReadIs ==
    ASSUME WatchEnd
    PROVE  /\ toWatch \in Seq(Byte) /\ decoder \in Seq(Byte) /\ chunk \in Seq(Byte)
           /\ hostLog \in Seq(HostFrames) /\ handled \in Seq(Nat)
           /\ Len(handled) \in Nat /\ Len(hostLog) \in Nat /\ Len(handled) <= Len(hostLog)
           /\ Len(decoder) \in Nat /\ Len(toWatch) \in Nat
           /\ handled = Count(Len(handled)) /\ WatchStream \in Seq(Byte)
<1>1. /\ toWatch \in Seq(Byte) /\ decoder \in Seq(Byte) /\ chunk \in Seq(Byte)
      /\ hostLog \in Seq(HostFrames) /\ handled \in Seq(Nat)
  BY DEF WatchEnd, WatchTypes
<1>2. /\ Len(handled) \in Nat /\ Len(hostLog) \in Nat
      /\ Len(decoder) \in Nat /\ Len(toWatch) \in Nat
  BY <1>1, LenProperties
<1>3. handled = Count(Len(handled)) /\ Len(handled) <= Len(hostLog)
  BY DEF WatchEnd, WatchReadsInOrder
<1>4. WatchStream \in Seq(Byte)
  BY <1>1, Joined DEF WatchStream
<1> QED
  BY <1>1, <1>2, <1>3, <1>4

LEMMA ReceiveKeepsWatchEnd ==
    ASSUME WatchEnd, Receive
    PROVE  WatchEnd'
<1>1. toWatch \in Seq(Byte) /\ chunk = <<>>
  BY WatchReadIs DEF Receive
<1>2. PICK part \in Prefixes(toWatch) :
         /\ Len(part) \in 1 .. WatchChunk
         /\ chunk' = part
         /\ toWatch' = SubSeq(toWatch, Len(part) + 1, Len(toWatch))
  BY DEF Receive
<1>3. /\ chunk' \in Seq(Byte) /\ toWatch' \in Seq(Byte) /\ Len(chunk') <= WatchChunk
      /\ chunk' \o toWatch' = toWatch
  <2>1. /\ part \in Seq(Byte) /\ SubSeq(toWatch, Len(part) + 1, Len(toWatch)) \in Seq(Byte)
        /\ part \o SubSeq(toWatch, Len(part) + 1, Len(toWatch)) = toWatch
    BY <1>1, PrefixSplit
  <2>2. Len(part) <= WatchChunk
    BY <1>2, LinkAssumption
  <2> QED
    BY <2>1, <2>2, <1>2
<1>4. UNCHANGED <<socket, decoder, handled, watchError, serving, hostLog>>
  BY DEF Receive, hostSide, logs
<1>5. WatchTypes' /\ WatchReadsInOrder' /\ RefusesIllegal'
  BY <1>3, <1>4 DEF WatchEnd, WatchTypes, WatchReadsInOrder, RefusesIllegal
<1>6. WatchStream' = WatchStream
  <2>1. <<>> \o toWatch = toWatch
    BY <1>1, ConcatEmptySeq
  <2> QED
    BY <2>1, <1>1, <1>3, <1>4 DEF WatchStream
<1>7. WatchOpen'
  <2>1. socket
    BY DEF Receive
  <2> QED
    BY <2>1, <1>4, <1>6 DEF WatchEnd, WatchOpen
<1> QED
  BY <1>5, <1>7 DEF WatchEnd

LEMMA EmptyFits ==
    /\ Len(<<>>) <= MaxFrame /\ Len(<<>>) <= WatchChunk
    /\ \A s : \A j \in 1 .. Len(<<>>) : s[j] # LF
  BY LinkAssumption

\* Whatever ends the connection on the watch's side.
LEMMA DisconnectKeepsWatchEnd ==
    ASSUME WatchEnd, Disconnect, toWatch' \in Seq(Byte), hostLog' \in Seq(HostFrames),
           handled' \in Seq(Nat), watchError' \in {"", "frame", "handler"},
           WatchReadsInOrder', RefusesIllegal'
    PROVE  WatchEnd'
<1>1. socket' = FALSE /\ decoder' = <<>> /\ chunk' = <<>>
  BY DEF Disconnect
<1>2. <<>> \in Seq(Byte) /\ Len(<<>>) = 0
  BY EmptySeq
<1>3. WatchTypes'
  <2>1. socket' \in BOOLEAN /\ decoder' \in Seq(Byte) /\ chunk' \in Seq(Byte)
    BY <1>1, <1>2
  <2> QED
    BY <1>1, <2>1, EmptyFits DEF WatchTypes
<1>4. WatchOpen'
  <2>1. ~socket' /\ decoder' = <<>> /\ chunk' = <<>>
    BY <1>1
  <2> QED
    BY <2>1, EmptyFits DEF WatchOpen
<1> QED
  BY <1>3, <1>4 DEF WatchEnd

LEMMA ReceiveEndKeepsWatchEnd ==
    ASSUME WatchEnd, ReceiveEnd
    PROVE  WatchEnd'
<1>1. UNCHANGED <<handled, watchError, toWatch, hostLog>> /\ Disconnect
  BY DEF ReceiveEnd, wires, logs
<1>2. WatchReadsInOrder' /\ RefusesIllegal'
  BY <1>1 DEF WatchEnd, WatchReadsInOrder, RefusesIllegal
<1>3. /\ toWatch' \in Seq(Byte) /\ hostLog' \in Seq(HostFrames)
      /\ handled' \in Seq(Nat) /\ watchError' \in {"", "frame", "handler"}
  BY <1>1 DEF WatchEnd, WatchTypes
<1> QED
  BY <1>1, <1>2, <1>3, DisconnectKeepsWatchEnd

\* The next byte of the stream.
LEMMA NextByte ==
    ASSUME WatchEnd, chunk # <<>>
    PROVE  /\ socket /\ Flow(WatchStream, hostLog, Len(handled), 0)
           /\ Head(chunk) \in Byte /\ Tail(chunk) \in Seq(Byte)
           /\ Len(chunk) \in Nat \ {0} /\ Len(Tail(chunk)) = Len(chunk) - 1
           /\ Append(decoder, Head(chunk)) \in Seq(Byte)
           /\ Len(Append(decoder, Head(chunk))) = Len(decoder) + 1
           /\ Append(decoder, Head(chunk)) \o (Tail(chunk) \o toWatch) = WatchStream
           /\ WatchStream[Len(decoder) + 1] = Head(chunk)
           /\ Len(decoder) + 1 \in 1 .. Len(WatchStream)
           /\ \A j \in 1 .. Len(decoder) : WatchStream[j] = decoder[j]
<1> DEFINE u == Append(decoder, Head(chunk))
           R == Tail(chunk) \o toWatch
<1>1. decoder \in Seq(Byte) /\ chunk \in Seq(Byte) /\ toWatch \in Seq(Byte)
      /\ Len(decoder) \in Nat /\ WatchStream \in Seq(Byte)
  BY WatchReadIs
<1>2. /\ Head(chunk) \in Byte /\ Tail(chunk) \in Seq(Byte)
      /\ Len(chunk) \in Nat \ {0} /\ Len(Tail(chunk)) = Len(chunk) - 1
      /\ u \in Seq(Byte) /\ u \o Tail(chunk) = decoder \o chunk
  BY <1>1, MoveOne
<1>3. Len(u) = Len(decoder) + 1 /\ u[Len(decoder) + 1] = Head(chunk)
      /\ \A j \in 1 .. Len(decoder) : u[j] = decoder[j]
  BY <1>1, <1>2, AppendProperties
<1> HIDE DEF u
<1>4. R \in Seq(Byte)
  BY <1>1, <1>2, ConcatProperties
<1>5. u \o R = WatchStream
  <2>1. u \o R = (u \o Tail(chunk)) \o toWatch
    BY <1>1, <1>2, Joined, SMTT(30)
  <2>2. (decoder \o chunk) \o toWatch = WatchStream
    BY <1>1, Joined DEF WatchStream
  <2> QED
    BY <2>1, <2>2, <1>2
<1>6. socket /\ Flow(WatchStream, hostLog, Len(handled), 0)
  BY DEF WatchEnd, WatchOpen, WatchTypes
<1> HIDE DEF R
<1>7. /\ Len(WatchStream) = Len(u) + Len(R) /\ Len(R) \in Nat
      /\ \A i \in 1 .. Len(u) + Len(R) : WatchStream[i] = IF i <= Len(u) THEN u[i] ELSE R[i - Len(u)]
  <2>1. /\ Len(u \o R) = Len(u) + Len(R)
        /\ \A i \in 1 .. Len(u) + Len(R) : (u \o R)[i] = IF i <= Len(u) THEN u[i] ELSE R[i - Len(u)]
    BY <1>2, <1>4, ConcatProperties
  <2>2. Len(R) \in Nat
    BY <1>4, LenProperties
  <2> QED
    BY <2>1, <2>2, <1>5
<1>8. \A j \in 1 .. Len(decoder) + 1 : WatchStream[j] = u[j]
  BY <1>1, <1>3, <1>7
<1>9. Len(decoder) + 1 \in 1 .. Len(WatchStream)
  BY <1>1, <1>3, <1>7
<1>10. WatchStream[Len(decoder) + 1] = Head(chunk)
       /\ \A j \in 1 .. Len(decoder) : WatchStream[j] = decoder[j]
  BY <1>1, <1>3, <1>8
<1> QED
  BY <1>2, <1>3, <1>5, <1>6, <1>9, <1>10 DEF u, R

LEMMA PushByteKeepsWatchEnd ==
    ASSUME WatchEnd, PushByte
    PROVE  WatchEnd'
<1>1. /\ chunk # <<>> /\ Head(chunk) # LF /\ Len(decoder) < MaxFrame
      /\ decoder' = Append(decoder, Head(chunk)) /\ chunk' = Tail(chunk)
      /\ UNCHANGED <<socket, handled, watchError, serving, toWatch, hostLog>>
  BY DEF PushByte, hostSide, wires, logs
<1>2. /\ decoder' \in Seq(Byte) /\ chunk' \in Seq(Byte)
      /\ Len(decoder') = Len(decoder) + 1 /\ Len(chunk') = Len(chunk) - 1
      /\ Len(chunk) \in Nat /\ Len(decoder) \in Nat
      /\ WatchStream' = WatchStream /\ socket
  BY <1>1, NextByte, WatchReadIs DEF WatchStream
<1>3. WatchTypes'
  <2>1. Len(decoder') <= MaxFrame
    BY <1>1, <1>2, LinkAssumption
  <2>2. Len(chunk) <= WatchChunk
    BY DEF WatchEnd, WatchTypes
  <2>3. Len(chunk') <= WatchChunk
    BY <2>2, <1>2, LinkAssumption
  <2> QED
    BY <2>1, <2>3, <1>1, <1>2 DEF WatchEnd, WatchTypes
<1>4. WatchReadsInOrder' /\ RefusesIllegal'
  BY <1>1 DEF WatchEnd, WatchReadsInOrder, RefusesIllegal
<1>5. ASSUME NEW j \in 1 .. Len(decoder')
      PROVE  decoder'[j] # LF
  <2>1. /\ Append(decoder, Head(chunk))[Len(decoder) + 1] = Head(chunk)
        /\ \A i \in 1 .. Len(decoder) : Append(decoder, Head(chunk))[i] = decoder[i]
    BY <1>1, NextByte, WatchReadIs, AppendProperties
  <2>2. \A i \in 1 .. Len(decoder) : decoder[i] # LF
    BY DEF WatchEnd, WatchOpen
  <2>3. j \in 1 .. Len(decoder) \/ j = Len(decoder) + 1
    BY <1>2
  <2> QED
    BY <2>1, <2>2, <2>3, <1>1
<1>6. WatchOpen'
  BY <1>1, <1>2, <1>5 DEF WatchEnd, WatchOpen
<1> QED
  BY <1>3, <1>4, <1>6 DEF WatchEnd

\* An LF ends a line of the stream.
LEMMA LineOfWatch ==
    ASSUME WatchEnd, chunk # <<>>, Head(chunk) = LF
    PROVE  /\ IsLine(WatchStream, decoder)
           /\ AfterLine(WatchStream, decoder) = <<>> \o (Tail(chunk) \o toWatch)
<1> DEFINE u == Append(decoder, Head(chunk))
           R == Tail(chunk) \o toWatch
<1>1. /\ u \in Seq(Byte) /\ Len(u) = Len(decoder) + 1
      /\ u \o R = WatchStream
      /\ WatchStream[Len(decoder) + 1] = LF /\ Len(decoder) + 1 \in 1 .. Len(WatchStream)
      /\ \A j \in 1 .. Len(decoder) : WatchStream[j] = decoder[j]
      /\ Tail(chunk) \in Seq(Byte)
  BY NextByte
<1>2. decoder \in Seq(Byte) /\ toWatch \in Seq(Byte) /\ WatchStream \in Seq(Byte)
  BY WatchReadIs
<1>3. Len(decoder) \in Nat /\ Len(WatchStream) \in Nat /\ Len(u) \in Nat
  BY <1>1, <1>2, LenProperties
<1>4. \A j \in 1 .. Len(decoder) : decoder[j] # LF
  BY DEF WatchEnd, WatchOpen
<1>5. IsLine(WatchStream, decoder)
  <2>1. Len(decoder) + 1 <= Len(WatchStream)
    BY <1>1, <1>3
  <2>2. \A j \in 1 .. Len(decoder) : decoder[j] = WatchStream[j] /\ WatchStream[j] # LF
    BY <1>1, <1>4
  <2> QED
    BY <2>1, <2>2, <1>1, <1>2 DEF IsLine
<1>6. R \in Seq(Byte)
  BY <1>1, <1>2, ConcatProperties
<1>7. SubSeq(WatchStream, Len(u) + 1, Len(WatchStream)) = <<>> \o R
  <2> HIDE DEF u, R
  <2>1. Len(u) \in 0 .. Len(u)
    BY <1>3
  <2>2. SubSeq(u \o R, Len(u) + 1, Len(u \o R)) = SubSeq(u, Len(u) + 1, Len(u)) \o R
    BY <2>1, <1>1, <1>6, RestOfConcat
  <2>3. SubSeq(u, Len(u) + 1, Len(u)) = <<>>
    BY <1>3, SubSeqEmpty
  <2> QED
    BY <2>2, <2>3, <1>1
<1> QED
  BY <1>1, <1>5, <1>7 DEF AfterLine

LEMMA PushEmptyKeepsWatchEnd ==
    ASSUME WatchEnd, PushEmpty
    PROVE  WatchEnd'
<1>1. /\ chunk # <<>> /\ Head(chunk) = LF /\ WithoutCR(decoder) = <<>>
      /\ decoder' = <<>> /\ chunk' = Tail(chunk)
      /\ UNCHANGED <<socket, handled, watchError, serving, toWatch, hostLog>>
  BY DEF PushEmpty, hostSide, wires, logs
<1>2. /\ socket /\ Flow(WatchStream, hostLog, Len(handled), 0)
      /\ chunk' \in Seq(Byte) /\ Len(chunk') = Len(chunk) - 1 /\ Len(chunk) \in Nat
  BY <1>1, NextByte
<1>3. WatchStream' = AfterLine(WatchStream, decoder)
  BY <1>1, LineOfWatch DEF WatchStream
<1>4. /\ Flow(WatchStream', hostLog, Len(handled), 0)
      /\ Present(WatchStream, hostLog, Len(handled), 0)
           => Present(WatchStream', hostLog, Len(handled), 0)
  <2>1. IsLine(WatchStream, decoder)
    BY <1>1, LineOfWatch
  <2>2. hostLog \in Seq(HostFrames) /\ Len(handled) \in Nat /\ WatchStream \in Seq(Byte)
    BY WatchReadIs
  <2>3. 0 \in Nat
    OBVIOUS
  <2>4. /\ Flow(AfterLine(WatchStream, decoder), hostLog, Len(handled), 0)
        /\ Present(WatchStream, hostLog, Len(handled), 0)
             => Present(AfterLine(WatchStream, decoder), hostLog, Len(handled), 0)
    BY <2>1, <2>2, <2>3, <1>1, <1>2, HostFramesAreFrames, EmptyLineIsNone
  <2> QED
    BY <2>4, <1>3
<1>5. WatchTypes'
  <2>1. Len(chunk) <= WatchChunk
    BY DEF WatchEnd, WatchTypes
  <2>2. Len(chunk') <= WatchChunk
    BY <2>1, <1>2, LinkAssumption
  <2>3. decoder' \in Seq(Byte) /\ Len(decoder') <= MaxFrame
    BY <1>1, EmptyFits
  <2> QED
    BY <2>2, <2>3, <1>1, <1>2 DEF WatchEnd, WatchTypes
<1>6. WatchReadsInOrder' /\ RefusesIllegal'
  BY <1>1 DEF WatchEnd, WatchReadsInOrder, RefusesIllegal
<1>7. WatchOpen'
  <2>1. \A j \in 1 .. Len(decoder') : decoder'[j] # LF
    BY <1>1, EmptyFits
  <2> QED
    BY <2>1, <1>1, <1>2, <1>4 DEF WatchEnd, WatchOpen
<1> QED
  BY <1>5, <1>6, <1>7 DEF WatchEnd

\* What the watch takes for a message the host's table takes for one, too.
LEMMA DecodedIsValid ==
    ASSUME NEW bytes, WatchDecodes(bytes)
    PROVE  /\ IsWhole(bytes, hostLog)
           /\ hostLog[bytes[1][1]].sound /\ Valid(hostLog[bytes[1][1]])
  BY TablesAgree DEF WatchDecodes, Valid

LEMMA HandlingIsInOrder ==
    ASSUME WatchEnd, chunk # <<>>, Head(chunk) = LF, WatchDecodes(WithoutCR(decoder)),
           handled' = Append(handled, WithoutCR(decoder)[1][1]), hostLog' = hostLog
    PROVE  /\ handled' \in Seq(Nat) /\ Len(handled') = Len(handled) + 1 /\ WatchReadsInOrder'
           /\ Flow(AfterLine(WatchStream, decoder), hostLog, Len(handled'), 0)
           /\ Present(WatchStream, hostLog, Len(handled), 0)
                => Present(AfterLine(WatchStream, decoder), hostLog, Len(handled'), 0)
<1> DEFINE n == Len(handled)
           S == WatchStream
           R == AfterLine(WatchStream, decoder)
<1>1. /\ hostLog \in Seq(HostFrames) /\ n \in Nat /\ S \in Seq(Byte) /\ 0 \in Nat
      /\ handled \in Seq(Nat) /\ handled = Count(n)
  BY WatchReadIs
<1>2. /\ IsWhole(WithoutCR(decoder), hostLog)
      /\ hostLog[WithoutCR(decoder)[1][1]].sound /\ Valid(hostLog[WithoutCR(decoder)[1][1]])
  BY DecodedIsValid
<1>3. Flow(S, hostLog, n, 0) /\ IsLine(S, decoder)
  BY NextByte, LineOfWatch
<1>4. /\ WithoutCR(decoder)[1][1] = n + 1
      /\ n + 1 \in DOMAIN hostLog /\ n + 1 <= Len(hostLog)
      /\ Flow(R, hostLog, n + 1, 0)
      /\ Present(S, hostLog, n, 0) => Present(R, hostLog, n + 1, 0)
  <2> HIDE DEF n, S
  <2> QED
    BY <1>1, <1>2, <1>3, HostFramesAreFrames, WholeIsNext DEF S
<1>5. /\ handled' = Append(handled, n + 1) /\ handled' \in Seq(Nat) /\ Len(handled') = n + 1
      /\ handled' = Count(n + 1)
  <2>1. handled' = Append(handled, n + 1)
    BY <1>4
  <2> QED
    BY <2>1, <1>1, CountAppend
<1>6. \A k \in DOMAIN handled' : hostLog[k].sound /\ Valid(hostLog[k])
  <2> SUFFICES ASSUME NEW k \in DOMAIN handled'
               PROVE  hostLog[k].sound /\ Valid(hostLog[k])
    OBVIOUS
  <2>1. DOMAIN handled' = 1 .. n + 1 /\ DOMAIN handled = 1 .. n
    BY <1>1, <1>5, LenProperties
  <2>2. k \in DOMAIN handled \/ k = n + 1
    BY <2>1, <1>1, SMTT(30)
  <2>3. \A i \in DOMAIN handled : hostLog[i].sound /\ Valid(hostLog[i])
    BY DEF WatchEnd, WatchReadsInOrder
  <2>4. hostLog[n + 1].sound /\ Valid(hostLog[n + 1])
    BY <1>2, <1>4
  <2> QED
    BY <2>2, <2>3, <2>4
<1>7. WatchReadsInOrder'
  <2>1. handled' = Count(Len(handled')) /\ Len(handled') <= Len(hostLog)
    BY <1>4, <1>5
  <2> QED
    BY <2>1, <1>6 DEF WatchReadsInOrder
<1> QED
  BY <1>4, <1>5, <1>7

\* What a message's handler may do to the host's side of the link.
LEMMA PushMessageParts ==
    ASSUME PushMessage
    PROVE  /\ chunk # <<>> /\ Head(chunk) = LF /\ WatchDecodes(WithoutCR(decoder))
           /\ handled' = Append(handled, WithoutCR(decoder)[1][1])
           /\ decoder' = <<>> /\ chunk' = Tail(chunk)
           /\ UNCHANGED <<socket, watchError, hostSide, toWatch, hostLog>>
           /\ \/ \E f \in WatchFrames : Send(f)
              \/ UNCHANGED <<toHost, watchLog, cut>>
<1>1. \/ Send(Unsupported)
      \/ Send(SyncRequest)
      \/ UNCHANGED <<wires, logs>>
  BY DEF PushMessage
<1>2. UNCHANGED <<toWatch, hostLog>>
  BY <1>1 DEF Send, wires, logs
<1>3. \/ \E f \in WatchFrames : Send(f)
      \/ UNCHANGED <<toHost, watchLog, cut>>
  BY <1>1 DEF WatchFrames, wires, logs
<1> QED
  BY <1>2, <1>3 DEF PushMessage

LEMMA PushMessageKeepsWatchEnd ==
    ASSUME WatchEnd, PushMessage
    PROVE  WatchEnd'
<1>1. /\ chunk # <<>> /\ Head(chunk) = LF /\ WatchDecodes(WithoutCR(decoder))
      /\ handled' = Append(handled, WithoutCR(decoder)[1][1])
      /\ decoder' = <<>> /\ chunk' = Tail(chunk)
      /\ UNCHANGED <<socket, watchError, serving, toWatch, hostLog>>
  BY PushMessageParts DEF hostSide
<1>2. /\ socket /\ chunk' \in Seq(Byte) /\ Len(chunk') = Len(chunk) - 1 /\ Len(chunk) \in Nat
  BY <1>1, NextByte
<1>3. WatchStream' = AfterLine(WatchStream, decoder)
  BY <1>1, LineOfWatch DEF WatchStream
<1>4. /\ handled' \in Seq(Nat) /\ WatchReadsInOrder'
      /\ Flow(WatchStream', hostLog, Len(handled'), 0)
      /\ Present(WatchStream, hostLog, Len(handled), 0)
           => Present(WatchStream', hostLog, Len(handled'), 0)
  <2>1. /\ handled' \in Seq(Nat) /\ WatchReadsInOrder'
        /\ Flow(AfterLine(WatchStream, decoder), hostLog, Len(handled'), 0)
        /\ Present(WatchStream, hostLog, Len(handled), 0)
             => Present(AfterLine(WatchStream, decoder), hostLog, Len(handled'), 0)
    BY <1>1, HandlingIsInOrder
  <2> QED
    BY <2>1, <1>3
<1>5. WatchTypes'
  <2>1. Len(chunk) <= WatchChunk
    BY DEF WatchEnd, WatchTypes
  <2>2. Len(chunk') <= WatchChunk
    BY <2>1, <1>2, LinkAssumption
  <2>3. decoder' \in Seq(Byte) /\ Len(decoder') <= MaxFrame
    BY <1>1, EmptyFits
  <2> QED
    BY <2>2, <2>3, <1>1, <1>2, <1>4 DEF WatchEnd, WatchTypes
<1>6. watchError' = ""
  BY <1>1, <1>2 DEF WatchEnd, WatchOpen
<1>7. RefusesIllegal'
  BY <1>6 DEF RefusesIllegal
<1>8. WatchOpen'
  <2>1. \A j \in 1 .. Len(decoder') : decoder'[j] # LF
    BY <1>1, EmptyFits
  <2> QED
    BY <2>1, <1>1, <1>2, <1>4, <1>6 DEF WatchEnd, WatchOpen
<1> QED
  BY <1>4, <1>5, <1>7, <1>8 DEF WatchEnd

LEMMA PushFailsParts ==
    ASSUME PushFails
    PROVE  /\ chunk # <<>> /\ Head(chunk) = LF /\ WatchDecodes(WithoutCR(decoder))
           /\ handled' = Append(handled, WithoutCR(decoder)[1][1])
           /\ watchError' = "handler" /\ Disconnect
           /\ UNCHANGED <<hostSide, toWatch, hostLog>>
           /\ \/ \E f \in WatchFrames : SendCut(f)
              \/ UNCHANGED <<toHost, watchLog, cut>>
<1>1. \/ SendCut(Unsupported)
      \/ SendCut(SyncRequest)
      \/ UNCHANGED <<wires, logs>>
  BY DEF PushFails
<1>2. UNCHANGED <<toWatch, hostLog>>
  BY <1>1 DEF SendCut, wires, logs
<1>3. \/ \E f \in WatchFrames : SendCut(f)
      \/ UNCHANGED <<toHost, watchLog, cut>>
  BY <1>1 DEF WatchFrames, wires, logs
<1> QED
  BY <1>2, <1>3 DEF PushFails

LEMMA PushFailsKeepsWatchEnd ==
    ASSUME WatchEnd, PushFails
    PROVE  WatchEnd'
<1>1. /\ chunk # <<>> /\ Head(chunk) = LF /\ WatchDecodes(WithoutCR(decoder))
      /\ handled' = Append(handled, WithoutCR(decoder)[1][1])
      /\ watchError' = "handler" /\ Disconnect
      /\ UNCHANGED <<toWatch, hostLog>>
  BY PushFailsParts
<1>2. handled' \in Seq(Nat) /\ WatchReadsInOrder'
  BY <1>1, HandlingIsInOrder
<1>3. RefusesIllegal' /\ watchError' \in {"", "frame", "handler"}
  BY <1>1 DEF RefusesIllegal
<1>4. toWatch' \in Seq(Byte) /\ hostLog' \in Seq(HostFrames)
  BY <1>1, WatchReadIs
<1> QED
  BY <1>1, <1>2, <1>3, <1>4, DisconnectKeepsWatchEnd

\* A full decoder and no LF: the frame was too long; a line that is no message:
\* so was its frame, or it was no legal one.
LEMMA PushRefusedKeepsWatchEnd ==
    ASSUME WatchEnd, PushRefused
    PROVE  WatchEnd'
<1> DEFINE n == Len(handled)
           S == WatchStream
           f == hostLog[n + 1]
<1>1. chunk # <<>> /\ watchError' = "frame" /\ Disconnect
      /\ UNCHANGED <<handled, toWatch, hostLog>>
  BY DEF PushRefused, wires, logs
<1>2. /\ hostLog \in Seq(HostFrames) /\ n \in Nat /\ S \in Seq(Byte)
      /\ Flow(S, hostLog, n, 0) /\ AreFrames(HostFrames)
      /\ decoder \in Seq(Byte) /\ Len(decoder) \in Nat
  BY <1>1, NextByte, WatchReadIs, HostFramesAreFrames
<1>3. ASSUME Head(chunk) # LF, Len(decoder) >= MaxFrame
      PROVE  n < Len(hostLog) /\ ~Legal(f)
  <2> DEFINE q == Len(decoder) + 1
  <2>1. q \in 1 .. Len(S) /\ S[q] # LF /\ \A j \in 1 .. Len(decoder) : S[j] = decoder[j]
    BY <1>1, <1>3, NextByte
  <2>2. \A j \in 1 .. Len(decoder) : decoder[j] # LF
    BY DEF WatchEnd, WatchOpen
  <2>3. \A j \in 1 .. q : S[j] # LF
    <3> SUFFICES ASSUME NEW j \in 1 .. q
                 PROVE  S[j] # LF
      OBVIOUS
    <3>1. j \in 1 .. Len(decoder) \/ j = q
      BY <1>2
    <3> QED
      BY <3>1, <2>1, <2>2
  <2>4. q >= 2 /\ q >= MaxFrame + 1 /\ q \in Nat
    BY <1>2, <1>3, LinkAssumption
  <2> HIDE DEF q, S, n
  <2>5. /\ n + 1 \in DOMAIN hostLog /\ n + 1 <= Len(hostLog)
        /\ f.size \in Nat \ {0} /\ f.cr \in BOOLEAN
        /\ q < Len(Bytes(n + 1, f))
    BY <1>2, <2>1, <2>3, <2>4, FirstFrame
  <2>6. Len(Bytes(n + 1, f)) = f.size + (IF f.cr THEN 2 ELSE 1)
    <3>1. n + 1 \in Nat \ {0}
      BY <1>2
    <3> HIDE DEF f
    <3> QED
      BY <3>1, <2>5, BytesOf
  <2> HIDE DEF f
  <2> DEFINE e == IF f.cr THEN 1 ELSE 0
  <2>7. e \in Nat /\ Len(Bytes(n + 1, f)) = f.size + (e + 1)
    BY <2>6
  <2> HIDE DEF e
  <2>8. f.size + e > MaxFrame
    BY <2>4, <2>5, <2>7, LinkAssumption
  <2>9. ~(f.size + e <= MaxFrame)
    BY <2>5, <2>7, <2>8, LinkAssumption
  <2>10. ~Legal(f)
    BY <2>9 DEF Legal, e
  <2>11. n < Len(hostLog)
    <3>1. Len(hostLog) \in Nat
      BY <1>2, LenProperties
    <3> QED
      BY <3>1, <1>2, <2>5
  <2> QED
    BY <2>10, <2>11
<1>4. ASSUME Head(chunk) = LF, WithoutCR(decoder) # <<>>, ~WatchDecodes(WithoutCR(decoder))
      PROVE  n < Len(hostLog) /\ ~Legal(f)
  <2> DEFINE w == WithoutCR(decoder)
  <2>1. IsLine(S, decoder)
    BY <1>1, <1>4, LineOfWatch
  <2>2. /\ n + 1 \in DOMAIN hostLog /\ n + 1 <= Len(hostLog)
        /\ w[1][1] = n + 1 /\ IsWhole(w, hostLog) /\ Len(w) = f.size /\ f.size \in Nat
        /\ f \in HostFrames
    <3> HIDE DEF S, n
    <3>1. /\ n + 1 \in DOMAIN hostLog /\ n + 1 <= Len(hostLog) /\ f \in HostFrames
          /\ w[1][1] = n + 1 /\ IsWhole(w, hostLog) /\ Len(w) = f.size
      BY <1>2, <1>4, <2>1, LineIsFrame
    <3> QED
      BY <3>1, HostFramesAreFrames DEF AreFrames
  <2> HIDE DEF w, f, n
  <2>3. ASSUME Legal(f)
        PROVE  WatchDecodes(w)
    <3>1. f.sound /\ Valid(f) /\ f.size + (IF f.cr THEN 1 ELSE 0) <= MaxFrame
      BY <2>3 DEF Legal
    <3> DEFINE e == IF f.cr THEN 1 ELSE 0
    <3>2. e \in Nat /\ f.size + e <= MaxFrame
      BY <3>1
    <3> HIDE DEF e
    <3>3. f.size <= MaxFrame
      BY <3>2, <2>2, LinkAssumption
    <3>4. hostLog[w[1][1]] = f
      BY <2>2 DEF f
    <3> QED
      BY <3>1, <3>3, <3>4, <2>2, TablesAgree DEF WatchDecodes, Valid
  <2>4. ~Legal(f)
    BY <1>4, <2>3 DEF w
  <2>5. n < Len(hostLog)
    <3>1. Len(hostLog) \in Nat
      BY <1>2, LenProperties
    <3> QED
      BY <3>1, <1>2, <2>2
  <2> QED
    BY <2>4, <2>5
<1>5. Len(handled) < Len(hostLog) /\ ~Legal(f)
  BY <1>3, <1>4 DEF PushRefused
<1>6. RefusesIllegal' /\ watchError' \in {"", "frame", "handler"}
  BY <1>1, <1>5 DEF RefusesIllegal
<1>7. WatchReadsInOrder'
  BY <1>1 DEF WatchEnd, WatchReadsInOrder
<1>8. toWatch' \in Seq(Byte) /\ hostLog' \in Seq(HostFrames) /\ handled' \in Seq(Nat)
  BY <1>1, WatchReadIs
<1> QED
  BY <1>1, <1>6, <1>7, <1>8, DisconnectKeepsWatchEnd
-----------------------------------------------------------------------------
(* A connection begins; the host writes; the connection is lost.           *)

LEMMA NothingFlows == Flow(<<>>, <<>>, Len(<<>>), 0) /\ Present(<<>>, <<>>, Len(<<>>), 0)
<1>1. DOMAIN <<>> = {}
  OBVIOUS
<1>2. \A a \in Len(<<>>) + 1 .. Len(<<>>) : FALSE
  OBVIOUS
<1>3. Flow(<<>>, <<>>, Len(<<>>), 0)
  <2> DEFINE e == <<>>
             n == Len(<<>>)
  <2>1. DOMAIN e = {}
    BY <1>1
  <2> HIDE DEF e, n
  <2>2. Flow(e, e, n, 0)
    BY <2>1 DEF Flow, InLog, Ordered, NoneLeftOut, InBlocks, CRThenLF, CutOpen
  <2> QED
    BY <2>2 DEF e, n
<1>4. Present(<<>>, <<>>, Len(<<>>), 0)
  BY <1>2 DEF Present
<1> QED
  BY <1>3, <1>4

LEMMA NothingRead ==
    /\ <<>> \in Seq(Nat) /\ <<>> = Count(Len(<<>>)) /\ Len(<<>>) <= Len(<<>>)
    /\ DOMAIN <<>> = {} /\ <<>> \in Seq(Byte) /\ <<>> \in Seq(HostFrames)
    /\ <<>> \o (<<>> \o <<>>) = <<>>
<1>1. <<>> \in Seq(Nat) /\ <<>> \in Seq(Byte) /\ <<>> \in Seq(HostFrames)
  BY EmptySeq
<1>2. <<>> = Count(Len(<<>>))
  BY DEF Count
<1>3. <<>> \o <<>> = <<>>
  BY <1>1, ConcatEmptySeq
<1> QED
  BY <1>1, <1>2, <1>3

LEMMA ConnectKeepsWatchEnd ==
    ASSUME WatchEnd, Connect
    PROVE  WatchEnd'
<1>1. /\ socket' = TRUE /\ toWatch' = <<>> /\ hostLog' = <<>> /\ handled' = <<>>
      /\ watchError' = "" /\ decoder' = <<>> /\ chunk' = <<>>
  BY DEF Connect, WatchEnd, WatchOpen
<1>2. WatchTypes'
  BY <1>1, NothingRead, EmptyFits DEF WatchTypes
<1>3. WatchReadsInOrder' /\ RefusesIllegal'
  BY <1>1, NothingRead DEF WatchReadsInOrder, RefusesIllegal
<1>4. WatchStream' = <<>>
  BY <1>1, NothingRead DEF WatchStream
<1>5. WatchOpen'
  BY <1>1, <1>4, NothingFlows, EmptyFits DEF WatchOpen
<1> QED
  BY <1>2, <1>3, <1>5 DEF WatchEnd

LEMMA ConnectCutKeepsWatchEnd ==
    ASSUME WatchEnd, ConnectCut
    PROVE  WatchEnd'
<1>1. Disconnect /\ toWatch' = <<>> /\ hostLog' = <<>> /\ handled' = <<>> /\ watchError' = ""
  BY DEF ConnectCut
<1>2. WatchReadsInOrder' /\ RefusesIllegal'
  BY <1>1, NothingRead DEF WatchReadsInOrder, RefusesIllegal
<1>3. /\ toWatch' \in Seq(Byte) /\ hostLog' \in Seq(HostFrames)
      /\ handled' \in Seq(Nat) /\ watchError' \in {"", "frame", "handler"}
  BY <1>1, NothingRead
<1> QED
  BY <1>1, <1>2, <1>3, DisconnectKeepsWatchEnd

\* More bytes under way.
LEMMA StreamGrows ==
    ASSUME WatchEnd, NEW bytes \in Seq(Byte), toWatch' = toWatch \o bytes,
           UNCHANGED <<decoder, chunk>>
    PROVE  toWatch' \in Seq(Byte) /\ WatchStream' = WatchStream \o bytes
<1>1. toWatch \in Seq(Byte) /\ decoder \in Seq(Byte) /\ chunk \in Seq(Byte)
  BY WatchReadIs
<1>2. toWatch' \in Seq(Byte)
  BY <1>1, Joined
<1>3. chunk \o (toWatch \o bytes) = (chunk \o toWatch) \o bytes /\ chunk \o toWatch \in Seq(Byte)
  BY <1>1, Joined, SMTT(30)
<1>4. decoder \o ((chunk \o toWatch) \o bytes) = (decoder \o (chunk \o toWatch)) \o bytes
  <2> DEFINE rest == chunk \o toWatch
  <2>1. rest \in Seq(Byte)
    BY <1>3
  <2>2. decoder \o (rest \o bytes) = (decoder \o rest) \o bytes
    <3> HIDE DEF rest
    <3> QED
      BY <1>1, <2>1, Joined, SMTT(30)
  <2> QED
    BY <2>2
<1>5. WatchStream' = decoder \o (chunk \o (toWatch \o bytes))
  BY DEF WatchStream
<1>6. WatchStream' = WatchStream \o bytes
  BY <1>3, <1>4, <1>5 DEF WatchStream
<1> QED
  BY <1>2, <1>6

LEMMA HostWritesKeepsWatchEnd ==
    ASSUME WatchEnd, HostWrites
    PROVE  WatchEnd'
<1> DEFINE log == hostLog
           n == Len(handled)
           S == WatchStream
<1>1. PICK f \in HostFrames :
         /\ log' = Append(log, f)
         /\ toWatch' = toWatch \o Bytes(Len(log) + 1, f)
  BY DEF HostWrites
<1> DEFINE B == Bytes(Len(log) + 1, f)
<1>2. UNCHANGED <<socket, decoder, chunk, handled, watchError, serving>>
  BY DEF HostWrites, watchSide, hostSide
<1>3. /\ log \in Seq(HostFrames) /\ n \in Nat /\ Len(log) \in Nat /\ n <= Len(log)
      /\ handled \in Seq(Nat) /\ handled = Count(n) /\ S \in Seq(Byte)
  BY WatchReadIs
<1>4. /\ AreFrames(HostFrames) /\ f.size \in Nat \ {0} /\ f.cr \in BOOLEAN
      /\ Len(log) + 1 \in Nat \ {0}
  BY <1>3, HostFramesAreFrames DEF AreFrames
<1>5. B \in Seq(Byte) /\ Len(B) \in Nat /\ Len(B) > f.size
  BY <1>4, BytesOf, BytesEnds
<1>6. Len(B) \in 1 .. Len(B) /\ SubSeq(B, 1, Len(B)) = B
  <2> HIDE DEF B
  <2>1. Len(B) \in Nat /\ Len(B) >= 1
    BY <1>4, <1>5
  <2> QED
    BY <2>1, <1>5, SubSeqFull
<1>7. toWatch' \in Seq(Byte) /\ WatchStream' = S \o B
  <2> HIDE DEF B
  <2>1. toWatch' = toWatch \o B
    BY <1>1 DEF B
  <2> QED
    BY <2>1, <1>2, <1>5, StreamGrows DEF S
<1>8. /\ log' \in Seq(HostFrames) /\ Len(log') = Len(log) + 1
      /\ \A i \in 1 .. Len(log) : log'[i] = log[i]
  BY <1>1, <1>3, AppendProperties
<1>9. WatchTypes'
  BY <1>2, <1>7, <1>8 DEF WatchEnd, WatchTypes
<1>10. WatchReadsInOrder'
  <2>1. DOMAIN handled = 1 .. n
    BY <1>3, LenProperties
  <2>2. \A k \in DOMAIN handled : log'[k] = log[k]
    BY <2>1, <1>3, <1>8
  <2>3. n <= Len(log')
    BY <1>3, <1>8
  <2>4. \A k \in DOMAIN handled : log[k].sound /\ Valid(log[k])
    BY DEF WatchEnd, WatchReadsInOrder
  <2> QED
    BY <2>2, <2>3, <2>4, <1>2, <1>3 DEF WatchReadsInOrder
<1>11. RefusesIllegal'
  <2> SUFFICES ASSUME watchError = "frame"
               PROVE  n < Len(log') /\ ~Legal(log'[n + 1])
    BY <1>2 DEF RefusesIllegal
  <2>1. n < Len(log) /\ ~Legal(log[n + 1])
    BY DEF WatchEnd, RefusesIllegal
  <2>2. n + 1 \in 1 .. Len(log) /\ n < Len(log')
    BY <2>1, <1>3, <1>8
  <2> QED
    BY <2>1, <2>2, <1>8
<1>12. ASSUME socket
       PROVE  Flow(WatchStream', log', n, 0) /\ Present(WatchStream', log', n, 0)
  <2>1. Flow(S, log, n, 0) /\ Present(S, log, n, 0)
    BY <1>12 DEF WatchEnd, WatchOpen, HostWrites
  <2>2. n \in 0 .. Len(log) /\ 0 \in 0 .. Len(log) /\ 0 \in Nat
    BY <1>3
  <2>3. 0 # 0 => f.cr = FALSE
    OBVIOUS
  <2>4. 0 = IF Len(B) = Len(Bytes(Len(log) + 1, f)) THEN 0 ELSE Len(log) + 1
    OBVIOUS
  <2> DEFINE l == Len(B)
             W == S \o SubSeq(Bytes(Len(log) + 1, f), 1, l)
  <2>5. l \in 1 .. Len(Bytes(Len(log) + 1, f))
    BY <1>6
  <2> HIDE DEF S, n, log, l
  <2>6. Flow(W, Append(log, f), n, 0) /\ Present(W, Append(log, f), n, 0)
    BY <2>1, <2>2, <2>3, <2>4, <2>5, <1>3, <1>4, FlowExtend DEF l
  <2>7. W = WatchStream' /\ Append(log, f) = log'
    BY <1>1, <1>6, <1>7 DEF l, log
  <2> QED
    BY <2>6, <2>7 DEF log
<1>13. WatchOpen'
  BY <1>2, <1>12 DEF WatchEnd, WatchOpen
<1> QED
  BY <1>9, <1>10, <1>11, <1>13 DEF WatchEnd

LEMMA HostWritesEmptyKeepsWatchEnd ==
    ASSUME WatchEnd, HostWritesEmpty
    PROVE  WatchEnd'
<1> DEFINE n == Len(handled)
           S == WatchStream
<1>1. PICK line \in {<<LF>>, <<CR, LF>>} : toWatch' = toWatch \o line
  BY DEF HostWritesEmpty
<1>2. UNCHANGED <<socket, decoder, chunk, handled, watchError, serving, hostLog>>
  BY DEF HostWritesEmpty, watchSide, hostSide, logs
<1>3. line \in Seq(Byte)
  <2>1. LF \in Byte /\ CR \in Byte
    BY DataBytes
  <2>2. <<LF>> \in Seq(Byte) /\ <<CR, LF>> \in Seq(Byte)
    BY <2>1
  <2> QED
    BY <2>2
<1>4. toWatch' \in Seq(Byte) /\ WatchStream' = S \o line
  BY <1>1, <1>2, <1>3, StreamGrows
<1>5. WatchTypes' /\ WatchReadsInOrder' /\ RefusesIllegal'
  BY <1>2, <1>4 DEF WatchEnd, WatchTypes, WatchReadsInOrder, RefusesIllegal
<1>6. ASSUME socket
      PROVE  Flow(WatchStream', hostLog, n, 0) /\ Present(WatchStream', hostLog, n, 0)
  <2>1. Flow(S, hostLog, n, 0) /\ Present(S, hostLog, n, 0)
    BY <1>6 DEF WatchEnd, WatchOpen, HostWritesEmpty
  <2>2. n \in Nat /\ hostLog \in Seq(HostFrames) /\ S \in Seq(Byte)
    BY WatchReadIs
  <2> HIDE DEF S, n
  <2>3. Flow(S \o line, hostLog, n, 0) /\ Present(S \o line, hostLog, n, 0)
    BY <2>1, <2>2, HostFramesAreFrames, FlowEmptyLine
  <2> QED
    BY <2>3, <1>4
<1>7. WatchOpen'
  BY <1>2, <1>6 DEF WatchEnd, WatchOpen
<1> QED
  BY <1>5, <1>7 DEF WatchEnd

LEMMA PrefixOfConcat ==
    ASSUME NEW u \in Seq(Byte), NEW v \in Seq(Byte)
    PROVE  Len(u) \in 0 .. Len(u \o v) /\ SubSeq(u \o v, 1, Len(u)) = u
<1> DEFINE W == u \o v
           A == SubSeq(W, 1, Len(u))
<1>1. /\ W \in Seq(Byte) /\ Len(W) = Len(u) + Len(v) /\ Len(u) \in Nat /\ Len(v) \in Nat
      /\ \A i \in 1 .. Len(u) + Len(v) : W[i] = IF i <= Len(u) THEN u[i] ELSE v[i - Len(u)]
  BY ConcatProperties, LenProperties
<1> HIDE DEF W
<1>2. Len(u) \in 0 .. Len(W)
  BY <1>1
<1>3. A \in Seq(Byte) /\ Len(A) = Len(u) /\ \A i \in 1 .. Len(u) : A[i] = W[i]
  BY <1>1, <1>2, Start
<1> HIDE DEF A
<1>4. \A i \in 1 .. Len(u) : A[i] = u[i]
  BY <1>1, <1>3
<1>5. A = u
  BY <1>3, <1>4, SeqEqual
<1> QED
  BY <1>2, <1>5 DEF A, W

LEMMA LinkBreaksKeepsWatchEnd ==
    ASSUME WatchEnd, LinkBreaks
    PROVE  WatchEnd'
<1>1. UNCHANGED <<socket, decoder, chunk, handled, watchError, hostLog>>
      /\ toWatch' \in Prefixes(toWatch) /\ serving' = FALSE
  BY DEF LinkBreaks, HostEnds, watchSide, logs
<1>2. /\ toWatch \in Seq(Byte) /\ decoder \in Seq(Byte) /\ chunk \in Seq(Byte)
      /\ hostLog \in Seq(HostFrames) /\ Len(handled) \in Nat /\ WatchStream \in Seq(Byte)
  BY WatchReadIs
<1>3. PICK rest \in Seq(Byte) : toWatch' \in Seq(Byte) /\ toWatch' \o rest = toWatch
  BY <1>1, <1>2, PrefixSplit
<1>4. WatchStream' \in Seq(Byte) /\ WatchStream' \o rest = WatchStream
  <2> DEFINE t == toWatch'
  <2>1. t \in Seq(Byte) /\ t \o rest = toWatch
    BY <1>3
  <2>2. WatchStream' = decoder \o (chunk \o t)
    BY <1>1 DEF WatchStream
  <2> HIDE DEF t
  <2>3. chunk \in Seq(Byte) /\ decoder \in Seq(Byte) /\ t \in Seq(Byte)
    BY <1>2, <2>1
  <2> DEFINE v == chunk \o t
  <2>4. v \in Seq(Byte) /\ decoder \o v \in Seq(Byte)
    BY <2>3, Joined
  <2>5. v \o rest = chunk \o (t \o rest)
    BY <2>3, ConcatAssociative
  <2>6. (decoder \o v) \o rest = decoder \o (v \o rest)
    <3> HIDE DEF v
    <3> QED
      BY <2>3, <2>4, ConcatAssociative, SMTT(30)
  <2> QED
    BY <2>1, <2>2, <2>4, <2>5, <2>6 DEF WatchStream
<1>5. WatchTypes' /\ WatchReadsInOrder' /\ RefusesIllegal'
  BY <1>1, <1>3 DEF WatchEnd, WatchTypes, WatchReadsInOrder, RefusesIllegal
<1>6. ASSUME socket
      PROVE  Flow(WatchStream', hostLog, Len(handled), 0)
  <2> DEFINE V == WatchStream'
             S == WatchStream
             n == Len(handled)
  <2>1. V \in Seq(Byte) /\ S \in Seq(Byte) /\ V \o rest = S /\ n \in Nat
    BY <1>2, <1>4
  <2>2. Flow(S, hostLog, n, 0)
    BY <1>6 DEF WatchEnd, WatchOpen
  <2> HIDE DEF V, S, n
  <2>3. Len(V) \in 0 .. Len(S) /\ SubSeq(S, 1, Len(V)) = V
    BY <2>1, PrefixOfConcat
  <2>4. Flow(SubSeq(S, 1, Len(V)), hostLog, n, 0)
    <3> DEFINE m == Len(V)
    <3>1. m \in 0 .. Len(S) /\ 0 \in Nat
      BY <2>3
    <3> HIDE DEF m
    <3>2. Flow(SubSeq(S, 1, m), hostLog, n, 0)
      BY <3>1, <2>1, <2>2, <1>2, FlowStart
    <3> QED
      BY <3>2 DEF m
  <2> QED
    BY <2>3, <2>4 DEF V, n
<1>7. WatchOpen'
  BY <1>1, <1>6 DEF WatchEnd, WatchOpen
<1> QED
  BY <1>5, <1>7 DEF WatchEnd
-----------------------------------------------------------------------------
(* The host reads.                                                         *)

LEMMA Through ==
    ASSUME NEW a \in Nat, NEW b \in Nat, NEW c \in Nat, a <= b
    PROVE  (b <= c => a <= c) /\ (b < c => a < c)
  OBVIOUS

LEMMA EmptyBuffer == Len(<<>>) <= MaxFrame /\ Len(<<>>) <= MaxFrame + HostChunk
  BY LinkAssumption

\* Whatever ends the connection on the host's side.
LEMMA HostEndsKeepsHostEnd ==
    ASSUME HostEnd, HostEnds, UNCHANGED <<served, watchLog, cut>>,
           hostError' \in {"", "frame", "io"}, hostError' = "frame" => cut # 0
    PROVE  HostEnd'
<1>1. serving' = FALSE /\ buffered' = <<>> /\ phase' = "read" /\ decoded' = <<>> /\ toHost' = <<>>
  BY DEF HostEnds
<1>2. served \in Seq(Nat) /\ decoded \in Seq(Nat)
  BY DEF HostEnd, HostTypes
<1>3. /\ Read = Count(Len(Read)) /\ Len(Read) <= Len(watchLog) /\ Len(watchLog) \in Nat
      /\ cut \in Nat /\ Len(Read) \in Nat /\ (cut # 0 => Len(Read) < cut)
  BY HostReadIs
<1>4. served = Count(Len(served)) /\ Len(served) <= Len(Read) /\ served \o <<>> = served
  BY <1>2, <1>3, CountPrefix DEF Read
<1>5. Len(served) \in Nat
  BY <1>2, LenProperties
<1>6. Len(served) <= Len(watchLog) /\ (cut # 0 => Len(served) < cut)
  BY <1>3, <1>4, <1>5, Through
<1>7. HostReadsInOrder'
  BY <1>1, <1>4, <1>6 DEF HostReadsInOrder
<1>8. HostTypes'
  <2>1. <<>> \in Seq(Nat) /\ <<>> \in Seq(Byte)
    BY EmptySeq
  <2> QED
    BY <2>1, <1>1, EmptyBuffer DEF HostEnd, HostTypes
<1>9. HostOpen'
  BY <1>1 DEF HostOpen
<1> QED
  BY <1>7, <1>8, <1>9 DEF HostEnd

LEMMA HostSeesEndKeepsHostEnd ==
    ASSUME HostEnd, HostSeesEnd
    PROVE  HostEnd'
<1>1. HostEnds /\ UNCHANGED <<served, hostError, watchLog, cut>>
  BY DEF HostSeesEnd, logs
<1>2. hostError' \in {"", "frame", "io"} /\ (hostError' = "frame" => cut # 0)
  BY <1>1 DEF HostEnd, HostTypes, HostOpen
<1> QED
  BY <1>1, <1>2, HostEndsKeepsHostEnd

LEMMA LinkBreaksKeepsHostEnd ==
    ASSUME HostEnd, LinkBreaks
    PROVE  HostEnd'
<1>1. HostEnds /\ hostError' = "io" /\ UNCHANGED <<served, watchLog, cut>>
  BY DEF LinkBreaks, logs
<1>2. hostError' \in {"", "frame", "io"} /\ (hostError' = "frame" => cut # 0)
  BY <1>1
<1> QED
  BY <1>1, <1>2, HostEndsKeepsHostEnd

LEMMA HostReadsKeepsHostEnd ==
    ASSUME HostEnd, HostReads
    PROVE  HostEnd'
<1>1. PICK part \in Prefixes(toHost) :
         /\ Len(part) \in 1 .. HostChunk
         /\ buffered' = buffered \o part
         /\ toHost' = SubSeq(toHost, Len(part) + 1, Len(toHost))
  BY DEF HostReads
<1>2. /\ serving /\ phase = "read" /\ phase' = "push"
      /\ UNCHANGED <<socket, serving, decoded, served, hostError, watchLog, cut>>
  BY DEF HostReads, watchSide, logs
<1>3. toHost \in Seq(Byte) /\ buffered \in Seq(Byte) /\ Len(buffered) <= MaxFrame
  BY <1>2 DEF HostEnd, HostTypes
<1>4. part \in Seq(Byte) /\ toHost' \in Seq(Byte) /\ part \o toHost' = toHost
  BY <1>1, <1>3, PrefixSplit
<1>5. buffered' \in Seq(Byte) /\ Len(buffered') = Len(buffered) + Len(part)
  BY <1>1, <1>3, <1>4, ConcatProperties
<1>6. Len(buffered') <= MaxFrame + HostChunk
  <2>1. Len(buffered) \in Nat
    BY <1>3, LenProperties
  <2> QED
    BY <2>1, <1>1, <1>3, <1>5, LinkAssumption
<1>7. HostTypes'
  BY <1>2, <1>4, <1>5, <1>6 DEF HostEnd, HostTypes
<1>8. HostStream' = HostStream /\ Read' = Read
  <2> DEFINE t == toHost'
  <2>1. t \in Seq(Byte) /\ part \o t = toHost
    BY <1>4
  <2>2. HostStream' = (buffered \o part) \o t
    BY <1>1 DEF HostStream
  <2> HIDE DEF t
  <2>3. (buffered \o part) \o t = buffered \o (part \o t)
    <3>1. buffered \in Seq(Byte) /\ part \in Seq(Byte) /\ t \in Seq(Byte)
      BY <1>3, <1>4, <2>1
    <3> QED
      BY <3>1, ConcatAssociative
  <2>4. Read' = Read
    BY <1>2 DEF Read
  <2> QED
    BY <2>1, <2>2, <2>3, <2>4 DEF HostStream
<1>9. HostReadsInOrder'
  BY <1>2 DEF HostEnd, HostReadsInOrder
<1>10. HostOpen'
  BY <1>2, <1>8 DEF HostEnd, HostOpen
<1> QED
  BY <1>7, <1>9, <1>10 DEF HostEnd

LEMMA HostPushedKeepsHostEnd ==
    ASSUME HostEnd, HostPushed
    PROVE  HostEnd'
<1>1. /\ phase = "push" /\ Len(buffered) <= MaxFrame /\ phase' = "serve"
      /\ UNCHANGED <<socket, serving, buffered, decoded, served, hostError, toHost, watchLog, cut>>
  BY DEF HostPushed, watchSide, wires, logs
<1>2. HostTypes' /\ HostReadsInOrder'
  BY <1>1 DEF HostEnd, HostTypes, HostReadsInOrder
<1>3. HostStream' = HostStream /\ Read' = Read
  BY <1>1 DEF HostStream, Read
<1>4. serving
  BY <1>1 DEF HostEnd, HostTypes, HostOpen
<1>5. HostOpen'
  BY <1>1, <1>3, <1>4 DEF HostEnd, HostOpen
<1> QED
  BY <1>2, <1>5 DEF HostEnd

LEMMA HostServesKeepsHostEnd ==
    ASSUME HostEnd, HostServes
    PROVE  HostEnd'
<1>1. /\ phase = "serve" /\ UNCHANGED <<socket, serving, buffered, hostError, toHost, watchLog, cut>>
      /\ phase' \in {"read", "serve"}
  BY DEF HostServes, watchSide, wires, logs
<1>2. served \in Seq(Nat) /\ decoded \in Seq(Nat)
  BY DEF HostEnd, HostTypes
<1>3. served' \in Seq(Nat) /\ decoded' \in Seq(Nat) /\ served' \o decoded' = served \o decoded
  <2>1. CASE decoded = <<>>
    BY <2>1, <1>2 DEF HostServes
  <2>2. CASE decoded # <<>>
    <3>1. served' = Append(served, Head(decoded)) /\ decoded' = Tail(decoded)
      BY <2>2 DEF HostServes
    <3>2. /\ Tail(decoded) \in Seq(Nat) /\ Append(served, Head(decoded)) \in Seq(Nat)
          /\ Append(served, Head(decoded)) \o Tail(decoded) = served \o decoded
      BY <2>2, <1>2, MoveOne, SMTT(30)
    <3> QED
      BY <3>1, <3>2
  <2> QED
    BY <2>1, <2>2
<1>4. HostTypes'
  BY <1>1, <1>3 DEF HostEnd, HostTypes
<1>5. HostReadsInOrder'
  BY <1>1, <1>3 DEF HostEnd, HostReadsInOrder
<1>6. HostStream' = HostStream /\ Read' = Read
  BY <1>1, <1>3 DEF HostStream, Read
<1>7. serving
  BY <1>1 DEF HostEnd, HostTypes, HostOpen
<1>8. HostOpen'
  BY <1>1, <1>6, <1>7 DEF HostEnd, HostOpen
<1> QED
  BY <1>4, <1>5, <1>8 DEF HostEnd

LEMMA FirstLFIs ==
    ASSUME buffered \in Seq(Byte), HasLF
    PROVE  /\ FirstLF \in 1 .. Len(buffered) /\ buffered[FirstLF] = LF
           /\ \A j \in 1 .. FirstLF - 1 : buffered[j] # LF
<1> DEFINE Less == {ss \in Nat \X Nat : ss[1] < ss[2]}
           Breaks == {k \in Nat : k \in DOMAIN buffered /\ buffered[k] = LF}
<1>1. IsWellFoundedOn(Less, Nat)
  BY NatLessThanWellFounded DEF OpToRel
<1>2. DOMAIN buffered = 1 .. Len(buffered) /\ Len(buffered) \in Nat
  BY LenProperties
<1>3. Breaks \subseteq Nat /\ Breaks # {}
  BY <1>2 DEF HasLF
<1>4. \E k \in Breaks : \A j \in Breaks : ~ (<<j, k>> \in Less)
  <2> HIDE DEF Less, Breaks
  <2> QED
    BY <1>1, <1>3, WFMin
<1>5. PICK k \in Breaks : \A j \in Breaks : ~ (j < k)
  BY <1>4
<1>6. k \in DOMAIN buffered /\ buffered[k] = LF
  OBVIOUS
<1>7. \A j \in 1 .. k - 1 : buffered[j] # LF
  <2> SUFFICES ASSUME NEW j \in 1 .. k - 1, buffered[j] = LF
               PROVE  FALSE
    OBVIOUS
  <2>1. j \in Nat /\ j \in DOMAIN buffered /\ j < k
    BY <1>2, <1>6
  <2> QED
    BY <2>1, <1>5
<1>8. FirstLF \in DOMAIN buffered /\ buffered[FirstLF] = LF
      /\ \A j \in 1 .. FirstLF - 1 : buffered[j] # LF
  BY <1>6, <1>7 DEF FirstLF
<1> QED
  BY <1>2, <1>8

\* An LF in what is buffered ends a line of the stream.
LEMMA LineOfHost ==
    ASSUME HostEnd, HasLF
    PROVE  /\ IsLine(HostStream, Complete)
           /\ SubSeq(buffered, FirstLF + 1, Len(buffered)) \in Seq(Byte)
           /\ Len(SubSeq(buffered, FirstLF + 1, Len(buffered))) <= Len(buffered)
           /\ AfterLine(HostStream, Complete)
                = SubSeq(buffered, FirstLF + 1, Len(buffered)) \o toHost
<1> DEFINE k == FirstLF
<1>1. buffered \in Seq(Byte) /\ toHost \in Seq(Byte)
  BY DEF HostEnd, HostTypes
<1>2. Len(buffered) \in Nat /\ Len(toHost) \in Nat
  BY <1>1, LenProperties
<1>3. k \in 1 .. Len(buffered) /\ buffered[k] = LF /\ \A j \in 1 .. k - 1 : buffered[j] # LF
  BY <1>1, FirstLFIs
<1> HIDE DEF k
<1>4. k \in Nat /\ k - 1 \in 0 .. Len(buffered) /\ k \in 0 .. Len(buffered)
  BY <1>2, <1>3
<1>5. /\ Complete \in Seq(Byte) /\ Len(Complete) = k - 1
      /\ \A j \in 1 .. k - 1 : Complete[j] = buffered[j]
  BY <1>1, <1>4, Start DEF Complete, k
<1>6. /\ HostStream \in Seq(Byte) /\ Len(HostStream) = Len(buffered) + Len(toHost)
      /\ \A i \in 1 .. Len(buffered) + Len(toHost) :
           HostStream[i] = IF i <= Len(buffered) THEN buffered[i] ELSE toHost[i - Len(buffered)]
  BY <1>1, ConcatProperties DEF HostStream
<1>7. \A j \in 1 .. k : HostStream[j] = buffered[j]
  BY <1>2, <1>3, <1>6
<1>8. Len(Complete) + 1 = k /\ k <= Len(HostStream)
  BY <1>2, <1>3, <1>5, <1>6
<1>9. IsLine(HostStream, Complete)
  <2>1. \A j \in 1 .. Len(Complete) : Complete[j] = HostStream[j] /\ HostStream[j] # LF
    BY <1>3, <1>4, <1>5, <1>7
  <2>2. k \in 1 .. k
    BY <1>3
  <2>3. HostStream[k] = LF
    BY <2>2, <1>3, <1>7
  <2> QED
    BY <2>1, <2>3, <1>5, <1>8 DEF IsLine
<1>10. /\ SubSeq(buffered, k + 1, Len(buffered)) \in Seq(Byte)
       /\ Len(SubSeq(buffered, k + 1, Len(buffered))) = Len(buffered) - k
  BY <1>1, <1>4, Rest
<1>11. Len(SubSeq(buffered, k + 1, Len(buffered))) <= Len(buffered)
  BY <1>2, <1>4, <1>10
<1>12. SubSeq(HostStream, k + 1, Len(HostStream)) = SubSeq(buffered, k + 1, Len(buffered)) \o toHost
  BY <1>1, <1>4, RestOfConcat DEF HostStream
<1>13. AfterLine(HostStream, Complete) = SubSeq(HostStream, k + 1, Len(HostStream))
  BY <1>8 DEF AfterLine
<1> QED
  BY <1>9, <1>10, <1>11, <1>12, <1>13 DEF k

LEMMA AppendLast ==
    ASSUME NEW u \in Seq(Nat), NEW v \in Seq(Nat), NEW y \in Nat
    PROVE  u \o Append(v, y) = Append(u \o v, y)
<1>1. <<y>> \in Seq(Nat) /\ u \o v \in Seq(Nat)
  BY ConcatProperties
<1>2. Append(v, y) = v \o <<y>>
  BY AppendIsConcat
<1>3. Append(u \o v, y) = (u \o v) \o <<y>>
  BY <1>1, AppendIsConcat
<1>4. (u \o v) \o <<y>> = u \o (v \o <<y>>)
  BY <1>1, ConcatAssociative
<1> QED
  BY <1>2, <1>3, <1>4

LEMMA HostPushesKeepsHostEnd ==
    ASSUME HostEnd, HostPushes
    PROVE  HostEnd'
<1> DEFINE S == HostStream
           n == Len(Read)
           R == AfterLine(HostStream, Complete)
           log == watchLog
<1>1. /\ phase = "push" /\ HasLF
      /\ buffered' = SubSeq(buffered, FirstLF + 1, Len(buffered))
      /\ UNCHANGED <<socket, serving, phase, served, hostError, toHost, watchLog, cut>>
      /\ \/ WithoutCR(Complete) = <<>> /\ UNCHANGED decoded
         \/ HostDecodes(Complete) /\ decoded' = Append(decoded, Complete[1][1])
  BY DEF HostPushes, watchSide, wires, logs
<1>2. serving /\ Flow(S, log, n, cut)
  BY <1>1 DEF HostEnd, HostTypes, HostOpen
<1>3. /\ Read \in Seq(Nat) /\ n \in Nat /\ Read = Count(n) /\ n <= Len(log) /\ Len(log) \in Nat
      /\ cut \in Nat /\ (cut # 0 => n < cut) /\ S \in Seq(Byte)
  BY HostReadIs
<1>4. /\ served \in Seq(Nat) /\ decoded \in Seq(Nat) /\ log \in Seq(WatchFrames)
      /\ buffered \in Seq(Byte) /\ Len(buffered) <= MaxFrame + HostChunk
  BY DEF HostEnd, HostTypes
<1>5. /\ IsLine(S, Complete) /\ buffered' \in Seq(Byte)
      /\ HostStream' = R
  BY <1>1, LineOfHost DEF HostStream
<1>6. Len(buffered') <= MaxFrame + HostChunk
  <2>1. Len(buffered') \in Nat /\ Len(buffered) \in Nat
    BY <1>4, <1>5, LenProperties
  <2>2. Len(buffered') <= Len(buffered)
    BY <1>1, LineOfHost
  <2> QED
    BY <2>1, <2>2, <1>4, LinkAssumption
<1>7. AreFrames(WatchFrames)
  BY OwnFrames
<1>8. ASSUME NEW m \in Nat, decoded' \in Seq(Nat), Read' = Count(m), Len(Read') = m,
             m <= Len(log), cut # 0 => m < cut, Flow(R, log, m, cut),
             Present(S, log, n, cut) => Present(R, log, m, cut)
      PROVE  HostEnd'
  <2>1. HostTypes'
    BY <1>1, <1>5, <1>6, <1>8 DEF HostEnd, HostTypes
  <2>2. HostReadsInOrder'
    BY <1>1, <1>8 DEF HostReadsInOrder, Read
  <2>3. HostOpen'
    <3>1. Flow(HostStream', watchLog', Len(Read'), cut')
      BY <1>1, <1>5, <1>8
    <3>2. socket /\ serving => Present(HostStream', watchLog', Len(Read'), cut')
      BY <1>1, <1>5, <1>8 DEF HostEnd, HostOpen
    <3> QED
      BY <3>1, <3>2, <1>1, <1>2 DEF HostEnd, HostOpen
  <2> QED
    BY <2>1, <2>2, <2>3 DEF HostEnd
<1>9. CASE WithoutCR(Complete) = <<>> /\ UNCHANGED decoded
  <2>1. Read' = Read /\ decoded' \in Seq(Nat)
    BY <1>1, <1>4, <1>9 DEF Read
  <2>2. Flow(R, log, n, cut) /\ (Present(S, log, n, cut) => Present(R, log, n, cut))
    <3> HIDE DEF S, n
    <3> QED
      BY <1>2, <1>3, <1>4, <1>5, <1>7, <1>9, EmptyLineIsNone DEF S
  <2> QED
    BY <2>1, <2>2, <1>3, <1>8
<1>10. CASE HostDecodes(Complete) /\ decoded' = Append(decoded, Complete[1][1])
  <2> DEFINE w == WithoutCR(Complete)
  <2>1. IsWhole(w, log)
    BY <1>10 DEF HostDecodes
  <2>2. /\ w[1][1] = n + 1 /\ n + 1 \in DOMAIN log /\ n + 1 <= Len(log) /\ cut # n + 1
        /\ Flow(R, log, n + 1, cut) /\ (Present(S, log, n, cut) => Present(R, log, n + 1, cut))
    <3> HIDE DEF S, n
    <3> QED
      BY <2>1, <1>2, <1>3, <1>4, <1>5, <1>7, WholeIsNext DEF S
  <2>3. Complete[1][1] = n + 1
    <3>1. /\ w \in Seq(Byte) /\ Len(w) \in Nat
          /\ \A j \in 1 .. Len(w) : w[j] = Complete[j]
      BY <1>5, WithoutCRIs DEF IsLine
    <3>2. w # <<>>
      BY <2>1 DEF IsWhole
    <3> HIDE DEF w
    <3>3. 1 \in 1 .. Len(w)
      BY <3>1, <3>2, EmptySeq
    <3>4. w[1] = Complete[1]
      BY <3>1, <3>3
    <3> QED
      BY <3>4, <2>2
  <2>4. decoded' = Append(decoded, n + 1)
    BY <2>3, <1>10
  <2>5. n + 1 \in Nat
    BY <1>3
  <2>6. /\ decoded' \in Seq(Nat)
        /\ Append(Read, n + 1) \in Seq(Nat) /\ Len(Append(Read, n + 1)) = n + 1
        /\ Append(Read, n + 1) = Count(n + 1)
    BY <2>4, <2>5, <1>3, <1>4, CountAppend, AppendProperties
  <2>7. Read' = Append(Read, n + 1)
    <3> DEFINE y == n + 1
    <3>1. y \in Nat /\ decoded' = Append(decoded, y)
      BY <2>4, <2>5
    <3> HIDE DEF y
    <3>2. served \o Append(decoded, y) = Append(served \o decoded, y)
      BY <3>1, <1>4, AppendLast
    <3>3. Read' = Append(Read, y)
      BY <3>1, <3>2, <1>1 DEF Read
    <3> QED
      BY <3>3 DEF y
  <2>8. cut # 0 => n + 1 < cut
    BY <2>2, <1>3
  <2> QED
    BY <2>2, <2>5, <2>6, <2>7, <2>8, <1>8
<1> QED
  BY <1>1, <1>9, <1>10

\* As long as no frame was cut, nothing is refused.
LEMMA HostRefusesOnlyCut ==
    ASSUME HostEnd, HostRefuses
    PROVE  cut # 0
<1> SUFFICES ASSUME cut = 0
             PROVE  FALSE
  OBVIOUS
<1> DEFINE S == HostStream
           n == Len(Read)
           log == watchLog
           f == watchLog[n + 1]
<1>1. phase = "push"
  BY DEF HostRefuses
<1>2. Flow(S, log, n, 0)
  BY <1>1 DEF HostEnd, HostTypes, HostOpen
<1>3. n \in Nat /\ log \in Seq(WatchFrames) /\ S \in Seq(Byte) /\ AreFrames(WatchFrames)
  BY HostReadIs, OwnFrames DEF HostEnd, HostTypes
<1>4. buffered \in Seq(Byte) /\ toHost \in Seq(Byte)
  BY DEF HostEnd, HostTypes
<1>5. ASSUME HasLF, WithoutCR(Complete) # <<>>
      PROVE  HostDecodes(Complete)
  <2> DEFINE w == WithoutCR(Complete)
  <2>1. IsLine(S, Complete)
    BY <1>5, LineOfHost
  <2>2. f \in WatchFrames /\ w[1][1] = n + 1 /\ IsWhole(w, log) /\ Len(w) = f.size
    <3> HIDE DEF S, n
    <3> QED
      BY <2>1, <1>2, <1>3, <1>5, LineIsFrame
  <2> HIDE DEF w
  <2>3. f.sound /\ Valid(f) /\ f.size <= MaxFrame
    BY <2>2, OwnFrames
  <2>4. log[w[1][1]] = f
    BY <2>2
  <2>5. Len(w) <= MaxFrame
    BY <2>2, <2>3
  <2> QED
    BY <2>2, <2>3, <2>4, <2>5 DEF HostDecodes, w
<1>6. ASSUME ~HasLF, Len(buffered) > MaxFrame
      PROVE  FALSE
  <2> DEFINE q == Len(buffered)
  <2>1. q \in Nat /\ q >= 2
    <3>1. q \in Nat
      BY <1>4, LenProperties
    <3> QED
      BY <3>1, <1>6, LinkAssumption
  <2>2. DOMAIN buffered = 1 .. q
    BY <1>4, LenProperties
  <2>3. /\ Len(S) = q + Len(toHost) /\ Len(toHost) \in Nat
        /\ \A i \in 1 .. q + Len(toHost) : S[i] = IF i <= q THEN buffered[i] ELSE toHost[i - q]
    BY <1>4, LenProperties, ConcatProperties DEF HostStream
  <2>4. \A j \in 1 .. q : S[j] # LF
    <3> SUFFICES ASSUME NEW j \in 1 .. q
                 PROVE  S[j] # LF
      OBVIOUS
    <3>1. S[j] = buffered[j]
      BY <2>1, <2>3
    <3>2. buffered[j] # LF
      BY <2>2, <1>6 DEF HasLF
    <3> QED
      BY <3>1, <3>2
  <2>5. q \in 1 .. Len(S)
    BY <2>1, <2>3
  <2>6. q > MaxFrame
    BY <1>6
  <2> HIDE DEF q, S, n
  <2>7. /\ f \in WatchFrames /\ f.size \in Nat \ {0} /\ f.cr \in BOOLEAN
        /\ q < Len(Bytes(n + 1, f))
    BY <2>1, <2>4, <2>5, <1>2, <1>3, FirstFrame
  <2>8. f.cr = FALSE /\ f.size <= MaxFrame
    BY <2>7, OwnFrames
  <2>9. Len(Bytes(n + 1, f)) = f.size + 1
    <3>1. n + 1 \in Nat \ {0}
      BY <1>3
    <3> HIDE DEF f
    <3>2. Len(Bytes(n + 1, f)) = f.size + (IF f.cr THEN 2 ELSE 1)
      BY <3>1, <2>7, BytesOf
    <3> QED
      BY <3>2, <2>8
  <2> QED
    <3> DEFINE z == f.size
    <3>1. z \in Nat /\ z <= MaxFrame /\ q < z + 1
      BY <2>7, <2>8, <2>9
    <3> HIDE DEF z
    <3> QED
      BY <3>1, <2>1, <2>6, LinkAssumption
<1> QED
  BY <1>5, <1>6 DEF HostRefuses

LEMMA HostRefusesKeepsHostEnd ==
    ASSUME HostEnd, HostRefuses
    PROVE  HostEnd'
<1>1. HostEnds /\ hostError' = "frame" /\ UNCHANGED <<served, watchLog, cut>>
  BY DEF HostRefuses, logs
<1>2. hostError' \in {"", "frame", "io"} /\ (hostError' = "frame" => cut # 0)
  BY <1>1, HostRefusesOnlyCut
<1> QED
  BY <1>1, <1>2, HostEndsKeepsHostEnd
-----------------------------------------------------------------------------
(* The bootstrap of a connection.                                          *)

Bootstrap == Bytes(1, Hello) \o Bytes(2, SyncRequest)

LEMMA SmallFrame ==
    ASSUME NEW a \in Nat \ {0}, NEW f, f.size = 1, f.cr = FALSE
    PROVE  /\ Bytes(a, f) \in Seq(Byte) /\ Len(Bytes(a, f)) = 2
           /\ Bytes(a, f)[1] = <<a, 1>> /\ Bytes(a, f)[2] = LF
<1>0. f.size \in Nat \ {0}
  OBVIOUS
<1>1. f.cr \in BOOLEAN
  OBVIOUS
<1> DEFINE B == Bytes(a, f)
<1>2. /\ B \in Seq(Byte) /\ Len(B) = f.size + (IF f.cr THEN 2 ELSE 1)
      /\ (\A j \in 1 .. f.size : B[j] = <<a, j>>) /\ (~f.cr => B[f.size + 1] = LF)
  BY <1>0, <1>1, BytesOf
<1> HIDE DEF B
<1>3. Len(B) = f.size + 1 /\ B[f.size + 1] = LF
  BY <1>2
<1>4. 1 \in 1 .. f.size /\ f.size + 1 = 2
  OBVIOUS
<1>5. Len(B) = 2 /\ B[2] = LF /\ B[1] = <<a, 1>>
  BY <1>2, <1>3, <1>4
<1> QED
  BY <1>2, <1>5 DEF B

LEMMA BootstrapIs ==
    /\ Bootstrap \in Seq(Byte) /\ Len(Bootstrap) = 4
    /\ Bootstrap[1] = <<1, 1>> /\ Bootstrap[2] = LF
    /\ Bootstrap[3] = <<2, 1>> /\ Bootstrap[4] = LF
    /\ Len(Bytes(1, Hello)) = 2 /\ Len(Bytes(2, SyncRequest)) = 2
    /\ Bytes(1, Hello) \in Seq(Byte) /\ Bytes(2, SyncRequest) \in Seq(Byte)
<1>1. /\ Hello.size = 1 /\ Hello.cr = FALSE /\ SyncRequest.size = 1 /\ SyncRequest.cr = FALSE
  BY OwnFrames DEF WatchFrames
<1> DEFINE A == Bytes(1, Hello)
           B == Bytes(2, SyncRequest)
<1>2. 1 \in Nat \ {0} /\ 2 \in Nat \ {0}
  OBVIOUS
<1>3. A \in Seq(Byte) /\ Len(A) = 2 /\ A[1] = <<1, 1>> /\ A[2] = LF
  BY <1>1, <1>2, SmallFrame
<1>4. B \in Seq(Byte) /\ Len(B) = 2 /\ B[1] = <<2, 1>> /\ B[2] = LF
  BY <1>1, <1>2, SmallFrame
<1>5. Bootstrap = A \o B
  BY DEF Bootstrap
<1> HIDE DEF A, B
<1>6. /\ A \o B \in Seq(Byte) /\ Len(A \o B) = 4
      /\ \A i \in 1 .. 4 : (A \o B)[i] = IF i <= 2 THEN A[i] ELSE B[i - 2]
  <2>1. /\ A \o B \in Seq(Byte) /\ Len(A \o B) = Len(A) + Len(B)
        /\ \A i \in 1 .. Len(A) + Len(B) :
             (A \o B)[i] = IF i <= Len(A) THEN A[i] ELSE B[i - Len(A)]
    BY <1>3, <1>4, ConcatProperties
  <2>2. Len(A) = 2 /\ Len(A) + Len(B) = 4
    BY <1>3, <1>4
  <2> QED
    BY <2>1, <2>2
<1>7. /\ (A \o B)[1] = A[1] /\ (A \o B)[2] = A[2] /\ (A \o B)[3] = B[1] /\ (A \o B)[4] = B[2]
  BY <1>6
<1>8. Bootstrap \in Seq(Byte) /\ Len(Bootstrap) = 4
  BY <1>5, <1>6
<1>9. /\ Bootstrap[1] = <<1, 1>> /\ Bootstrap[2] = LF
      /\ Bootstrap[3] = <<2, 1>> /\ Bootstrap[4] = LF
  BY <1>3, <1>4, <1>5, <1>7
<1> QED
  BY <1>3, <1>4, <1>8, <1>9 DEF A, B

LEMMA TwoFrames ==
    ASSUME NEW x \in WatchFrames, NEW y \in WatchFrames
    PROVE  Append(<<x>>, y) = <<x, y>>
<1> DEFINE e == <<x>>
           p == <<x, y>>
<1>1. e \in Seq(WatchFrames) /\ Len(e) = 1 /\ e[1] = x
  OBVIOUS
<1>2. p \in Seq(WatchFrames) /\ Len(p) = 2 /\ p[1] = x /\ p[2] = y
  OBVIOUS
<1> HIDE DEF e, p
<1>3. /\ Append(e, y) \in Seq(WatchFrames) /\ Len(Append(e, y)) = Len(e) + 1
      /\ \A i \in 1 .. Len(e) : Append(e, y)[i] = e[i]
      /\ Append(e, y)[Len(e) + 1] = y
  <2>1. e \in Seq(WatchFrames)
    BY <1>1
  <2> QED
    BY <2>1, AppendProperties
<1>4. Len(Append(e, y)) = 2 /\ Append(e, y)[1] = x /\ Append(e, y)[2] = y
  BY <1>1, <1>3
<1>5. \A i \in 1 .. 2 : Append(e, y)[i] = p[i]
  <2> SUFFICES ASSUME NEW i \in 1 .. 2 PROVE Append(e, y)[i] = p[i]
    OBVIOUS
  <2>1. i = 1 \/ i = 2
    OBVIOUS
  <2> QED
    BY <2>1, <1>2, <1>4
<1>6. Append(e, y) = p
  BY <1>2, <1>3, <1>4, <1>5, SeqEqual
<1> QED
  BY <1>6 DEF e, p

LEMMA BootstrapFlows ==
    Flow(Bootstrap, <<Hello, SyncRequest>>, 0, 0) /\ Present(Bootstrap, <<Hello, SyncRequest>>, 0, 0)
<1> DEFINE A == Bytes(1, Hello)
           B == Bytes(2, SyncRequest)
<1>1. Hello \in WatchFrames /\ SyncRequest \in WatchFrames /\ AreFrames(WatchFrames)
  BY OwnFrames DEF WatchFrames
<1>2. A \in Seq(Byte) /\ B \in Seq(Byte) /\ Len(A) = 2 /\ Len(B) = 2 /\ Bootstrap = A \o B
  BY BootstrapIs DEF Bootstrap
<1>3. Flow(<<>>, <<>>, 0, 0) /\ Present(<<>>, <<>>, 0, 0)
  BY NothingFlows
<1>4. SubSeq(A, 1, Len(A)) = A /\ SubSeq(B, 1, Len(B)) = B
  <2> HIDE DEF A, B
  <2> QED
    BY <1>2, SubSeqFull
<1>5. Flow(A, <<Hello>>, 0, 0) /\ Present(A, <<Hello>>, 0, 0)
  <2> DEFINE e == <<>>
             l == Len(A)
             W == e \o SubSeq(Bytes(Len(e) + 1, Hello), 1, l)
  <2>1. e \in Seq(WatchFrames) /\ e \in Seq(Byte) /\ Len(e) = 0 /\ Bytes(Len(e) + 1, Hello) = A
    OBVIOUS
  <2>2. Flow(e, e, 0, 0) /\ Present(e, e, 0, 0)
    BY <1>3
  <2>3. Append(e, Hello) = <<Hello>>
    OBVIOUS
  <2>4. W = A
    <3>1. <<>> \o A = A
      BY <1>2, ConcatEmptySeq
    <3> QED
      BY <3>1, <1>4, <2>1
  <2>5. l \in 1 .. Len(Bytes(Len(e) + 1, Hello))
    BY <1>2, <2>1
  <2>6. 0 = IF l = Len(Bytes(Len(e) + 1, Hello)) THEN 0 ELSE Len(e) + 1
    BY <2>1
  <2>7. 0 \in 0 .. Len(e) /\ 0 \in Nat
    BY <2>1
  <2> HIDE DEF e, l
  <2>8. Flow(W, Append(e, Hello), 0, 0) /\ Present(W, Append(e, Hello), 0, 0)
    BY <1>1, <2>1, <2>2, <2>5, <2>6, <2>7, FlowExtend
  <2> QED
    BY <2>3, <2>4, <2>8
<1>6. Flow(A \o B, <<Hello, SyncRequest>>, 0, 0) /\ Present(A \o B, <<Hello, SyncRequest>>, 0, 0)
  <2> DEFINE e == <<Hello>>
             l == Len(B)
             W == A \o SubSeq(Bytes(Len(e) + 1, SyncRequest), 1, l)
  <2>0. e \in Seq(WatchFrames) /\ Len(e) = 1 /\ Len(e) + 1 = 2
    BY <1>1
  <2>1. Bytes(Len(e) + 1, SyncRequest) = B
    <3> HIDE DEF e
    <3> QED
      BY <2>0
  <2>2. Append(e, SyncRequest) = <<Hello, SyncRequest>>
    BY <1>1, TwoFrames
  <2>3. W = A \o B
    <3> HIDE DEF e, B
    <3> QED
      BY <1>4, <2>1
  <2>4. l \in 1 .. Len(Bytes(Len(e) + 1, SyncRequest))
    <3>1. Len(B) = 2
      BY <1>2
    <3> HIDE DEF e, B
    <3>2. Len(B) \in 1 .. Len(B)
      BY <3>1
    <3> QED
      BY <3>2, <2>1
  <2>5. 0 = IF l = Len(Bytes(Len(e) + 1, SyncRequest)) THEN 0 ELSE Len(e) + 1
    <3> HIDE DEF e, B
    <3> QED
      BY <2>1
  <2>6. 0 \in 0 .. Len(e) /\ 0 \in Nat
    BY <2>0
  <2>7. Flow(A, e, 0, 0) /\ Present(A, e, 0, 0)
    BY <1>5
  <2> HIDE DEF e, l, A
  <2>8. Flow(W, Append(e, SyncRequest), 0, 0) /\ Present(W, Append(e, SyncRequest), 0, 0)
    BY <1>1, <1>2, <2>0, <2>4, <2>5, <2>6, <2>7, FlowExtend
  <2> QED
    BY <2>2, <2>3, <2>8
<1> QED
  BY <1>2, <1>6

LEMMA ConnectKeepsHostEnd ==
    ASSUME HostEnd, Connect
    PROVE  HostEnd'
<1> DEFINE log == <<Hello, SyncRequest>>
<1>1. /\ serving' = TRUE /\ watchLog' = log /\ toHost' = Bootstrap
      /\ cut' = 0 /\ served' = <<>> /\ hostError' = "" /\ buffered' = <<>> /\ decoded' = <<>>
      /\ phase' = "read"
  BY DEF Connect, HostEnd, HostOpen, Bootstrap
<1>2. log \in Seq(WatchFrames) /\ Len(log) = 2 /\ Bootstrap \in Seq(Byte)
  BY BootstrapIs DEF WatchFrames
<1>3. <<>> \o Bootstrap = Bootstrap /\ <<>> \in Seq(Byte) /\ <<>> \in Seq(Nat) /\ <<>> \o <<>> = <<>>
  BY <1>2, ConcatEmptySeq, EmptySeq
<1>4. HostStream' = Bootstrap /\ Read' = <<>>
  BY <1>1, <1>3 DEF HostStream, Read
<1> HIDE DEF log
<1>5. HostTypes'
  <2>1. 0 \in 0 .. Len(log)
    BY <1>2
  <2> QED
    BY <2>1, <1>1, <1>2, <1>3, EmptyBuffer DEF HostTypes
<1>6. HostReadsInOrder'
  <2>1. <<>> = Count(Len(<<>>))
    BY NothingRead
  <2>2. Len(<<>>) <= Len(log)
    BY <1>2
  <2> QED
    BY <2>1, <2>2, <1>1, <1>3 DEF HostReadsInOrder
<1>7. Len(<<>>) = 0
  OBVIOUS
<1>8. Flow(Bootstrap, log, 0, 0) /\ Present(Bootstrap, log, 0, 0)
  BY BootstrapFlows DEF log
<1>9. HostOpen'
  BY <1>1, <1>4, <1>7, <1>8 DEF HostOpen
<1> QED
  BY <1>5, <1>6, <1>9 DEF HostEnd

\* A part of the bootstrap, seen as what is left of a log cut there.
LEMMA PartFlows ==
    ASSUME NEW part \in Seq(Byte), NEW c \in {1, 2}, Len(part) \in 0 .. 3,
           part = SubSeq(Bootstrap, 1, Len(part)), c = 1 => Len(part) <= 1
    PROVE  Flow(part, <<Hello, SyncRequest>>, 0, c)
<1> DEFINE log == <<Hello, SyncRequest>>
           m == Len(part)
<1>1. log \in Seq(WatchFrames) /\ log[1].size = 1 /\ log[2].size = 1
  BY OwnFrames DEF WatchFrames
<1>2. Bootstrap \in Seq(Byte) /\ Len(Bootstrap) = 4
  BY BootstrapIs
<1>3. m \in Nat /\ m \in 0 .. 3 /\ m \in 0 .. Len(Bootstrap) /\ DOMAIN part = 1 .. m
  BY <1>2, LenProperties
<1>4. Flow(part, log, 0, 0)
  <2>1. Flow(Bootstrap, log, 0, 0) /\ 0 \in Nat
    BY BootstrapFlows
  <2> HIDE DEF m, log
  <2>2. Flow(SubSeq(Bootstrap, 1, m), log, 0, 0)
    BY <1>1, <1>2, <1>3, <2>1, FlowStart
  <2> QED
    BY <2>2 DEF m
<1>5. \A i \in 1 .. m : part[i] = Bootstrap[i]
  <2> HIDE DEF m
  <2>1. \A i \in 1 .. m : SubSeq(Bootstrap, 1, m)[i] = Bootstrap[i]
    BY <1>2, <1>3, Start
  <2> QED
    BY <2>1 DEF m
<1>6. /\ Bootstrap[1] = <<1, 1>> /\ Bootstrap[2] = LF /\ Bootstrap[3] = <<2, 1>>
  BY BootstrapIs
<1>7. ASSUME NEW i \in DOMAIN part, part[i] = <<c, log[c].size>>
      PROVE  i = m \/ IsData(part[i + 1])
  <2>1. part[i] = <<c, 1>>
    BY <1>1, <1>7
  <2>2. i \in 1 .. m /\ (i = 1 \/ i = 2 \/ i = 3) /\ part[i] = Bootstrap[i]
    BY <1>3, <1>5
  <2>3. i # 2
    BY <2>1, <2>2, <1>6 DEF LF
  <2>4. CASE c = 1
    <3>1. m <= 1
      BY <2>4
    <3> QED
      BY <3>1, <2>2, <1>3
  <2>5. CASE c = 2
    <3>1. i # 1
      BY <2>1, <2>2, <2>5, <1>6
    <3>2. i = 3
      BY <3>1, <2>2, <2>3
    <3> QED
      BY <3>2, <2>2, <1>3
  <2> QED
    BY <2>4, <2>5
<1> HIDE DEF log
<1>8. CutOpen(part, log, c)
  BY <1>7 DEF CutOpen
<1>9. InBlocks(part, log, c)
  BY <1>4 DEF Flow, InBlocks
<1> QED
  BY <1>4, <1>8, <1>9 DEF Flow, log

LEMMA ConnectCutKeepsHostEnd ==
    ASSUME HostEnd, ConnectCut
    PROVE  HostEnd'
<1> DEFINE log == <<Hello, SyncRequest>>
<1>1. /\ serving' = TRUE /\ socket' = FALSE /\ watchLog' = log
      /\ served' = <<>> /\ hostError' = "" /\ buffered' = <<>> /\ decoded' = <<>>
      /\ phase' = "read"
  BY DEF ConnectCut, Disconnect, HostEnd, HostOpen
<1>2. PICK part \in Prefixes(Bootstrap) \ {Bootstrap} :
         /\ toHost' = part
         /\ cut' = IF Len(part) <= Hello.size THEN 1 ELSE 2
  BY DEF ConnectCut, Bootstrap
<1>3. log \in Seq(WatchFrames) /\ Len(log) = 2
  BY DEF WatchFrames
<1>4. Bootstrap \in Seq(Byte) /\ Len(Bootstrap) = 4 /\ Hello.size = 1
  BY BootstrapIs, OwnFrames
<1>5. part \in Seq(Byte) /\ Len(part) \in 0 .. Len(Bootstrap) /\ part = SubSeq(Bootstrap, 1, Len(part))
  BY <1>2, <1>4, PrefixSplit
<1>6. Len(part) \in 0 .. 3
  <2>1. SubSeq(Bootstrap, 1, Len(Bootstrap)) = Bootstrap
    BY <1>4, SubSeqFull, SMTT(30)
  <2>2. Len(part) # Len(Bootstrap)
    BY <2>1, <1>2, <1>5
  <2> QED
    BY <2>2, <1>4, <1>5
<1>7. cut' \in {1, 2} /\ (cut' = 1 => Len(part) <= 1)
  BY <1>2, <1>4
<1>8. Flow(part, log, 0, cut')
  <2> DEFINE c == cut'
  <2>1. c \in {1, 2} /\ (c = 1 => Len(part) <= 1)
    BY <1>7
  <2> HIDE DEF c
  <2>2. Flow(part, log, 0, c)
    BY <2>1, <1>5, <1>6, PartFlows
  <2> QED
    BY <2>2 DEF c
<1>9. /\ <<>> \o part = part /\ <<>> \in Seq(Byte) /\ <<>> \in Seq(Nat) /\ <<>> \o <<>> = <<>>
      /\ Len(<<>>) = 0
  BY <1>5, ConcatEmptySeq, EmptySeq
<1>10. HostStream' = part /\ Read' = <<>>
  BY <1>1, <1>2, <1>9 DEF HostStream, Read
<1> HIDE DEF log
<1>11. HostTypes'
  <2>1. 1 \in 0 .. Len(log) /\ 2 \in 0 .. Len(log)
    BY <1>3
  <2>2. cut' \in 0 .. Len(log)
    BY <2>1, <1>7
  <2> QED
    BY <2>2, <1>1, <1>2, <1>3, <1>5, <1>9, EmptyBuffer DEF HostTypes
<1>12. HostReadsInOrder'
  <2>1. <<>> = Count(Len(<<>>))
    BY NothingRead
  <2>2. Len(<<>>) <= Len(log) /\ Len(<<>>) < 1 /\ Len(<<>>) < 2
    BY <1>3
  <2>3. cut' # 0 => Len(<<>>) < cut'
    BY <2>2, <1>7
  <2> QED
    BY <2>1, <2>2, <2>3, <1>1, <1>9 DEF HostReadsInOrder
<1>13. HostOpen'
  BY <1>1, <1>8, <1>9, <1>10 DEF HostOpen
<1> QED
  BY <1>11, <1>12, <1>13 DEF HostEnd
-----------------------------------------------------------------------------
(* Both ends, over every step of the link.                                 *)

\* Steps of the watch that write nothing.
LEMMA QuietWatchKeepsEnds ==
    ASSUME Ends, Receive \/ ReceiveEnd \/ PushByte \/ PushEmpty \/ PushRefused
    PROVE  Ends'
<1>1. UNCHANGED <<hostSide, toHost, watchLog, cut>>
  BY DEF Receive, ReceiveEnd, PushByte, PushEmpty, PushRefused, wires, logs
<1>2. socket' => socket
  BY DEF Receive, ReceiveEnd, PushByte, PushEmpty, PushRefused, Disconnect
<1>3. HostEnd'
  BY <1>1, <1>2, HostEndKept DEF Ends
<1>4. WatchEnd'
  BY ReceiveKeepsWatchEnd, ReceiveEndKeepsWatchEnd, PushByteKeepsWatchEnd,
     PushEmptyKeepsWatchEnd, PushRefusedKeepsWatchEnd DEF Ends
<1> QED
  BY <1>3, <1>4 DEF Ends

LEMMA PushMessageKeepsEnds ==
    ASSUME Ends, PushMessage
    PROVE  Ends'
<1>1. WatchEnd'
  BY PushMessageKeepsWatchEnd DEF Ends
<1>2. /\ chunk # <<>> /\ UNCHANGED <<socket, hostSide>>
      /\ (\E f \in WatchFrames : Send(f)) \/ UNCHANGED <<toHost, watchLog, cut>>
  BY PushMessageParts
<1>3. socket
  BY <1>2, NextByte DEF Ends
<1>4. ASSUME \E f \in WatchFrames : Send(f)
      PROVE  HostEnd'
  BY <1>2, <1>3, <1>4, SendKeepsHostEnd DEF Ends
<1>5. ASSUME UNCHANGED <<toHost, watchLog, cut>>
      PROVE  HostEnd'
  BY <1>2, <1>5, HostEndKept DEF Ends
<1>6. HostEnd'
  BY <1>2, <1>4, <1>5
<1> QED
  BY <1>1, <1>6 DEF Ends

LEMMA PushFailsKeepsEnds ==
    ASSUME Ends, PushFails
    PROVE  Ends'
<1>1. WatchEnd'
  BY PushFailsKeepsWatchEnd DEF Ends
<1>2. /\ chunk # <<>> /\ UNCHANGED hostSide /\ Disconnect
      /\ (\E f \in WatchFrames : SendCut(f)) \/ UNCHANGED <<toHost, watchLog, cut>>
  BY PushFailsParts
<1>3. socket /\ socket' = FALSE
  BY <1>2, NextByte DEF Ends, Disconnect
<1>4. ASSUME \E f \in WatchFrames : SendCut(f)
      PROVE  HostEnd'
  BY <1>2, <1>3, <1>4, SendCutKeepsHostEnd DEF Ends
<1>5. ASSUME UNCHANGED <<toHost, watchLog, cut>>
      PROVE  HostEnd'
  BY <1>2, <1>3, <1>5, HostEndKept DEF Ends
<1>6. HostEnd'
  BY <1>2, <1>4, <1>5
<1> QED
  BY <1>1, <1>6 DEF Ends

LEMMA ActivateKeepsEnds ==
    ASSUME Ends, NEW page, Activate(page) \/ UNCHANGED <<wires, logs>>, UNCHANGED <<watchSide, hostSide>>
    PROVE  Ends'
<1>1. SetPlaying \in WatchFrames
  BY DEF WatchFrames
<1>2. UNCHANGED <<toWatch, hostLog, serving, socket>>
  BY DEF Activate, Send, SendCut, wires, logs, watchSide, hostSide
<1>3. WatchEnd'
  BY <1>2, WatchEndKept DEF Ends
<1>4. \/ socket /\ (Send(SetPlaying) \/ SendCut(SetPlaying))
      \/ UNCHANGED <<toHost, watchLog, cut>>
  BY DEF Activate, wires, logs
<1>5. HostEnd'
  BY <1>1, <1>2, <1>4, SendKeepsHostEnd, SendCutKeepsHostEnd, HostEndKept DEF Ends
<1> QED
  BY <1>3, <1>5 DEF Ends

LEMMA ConnectingKeepsEnds ==
    ASSUME Ends, Connect \/ ConnectCut
    PROVE  Ends'
  BY ConnectKeepsWatchEnd, ConnectCutKeepsWatchEnd, ConnectKeepsHostEnd, ConnectCutKeepsHostEnd
     DEF Ends

LEMMA HostKeepsEnds ==
    ASSUME Ends,
           HostReads \/ HostSeesEnd \/ HostPushes \/ HostRefuses \/ HostPushed \/ HostServes
    PROVE  Ends'
<1>1. UNCHANGED <<watchSide, toWatch, hostLog>>
  BY DEF HostReads, HostSeesEnd, HostPushes, HostRefuses, HostPushed, HostServes, wires, logs
<1>2. serving' => serving
  BY DEF HostReads, HostSeesEnd, HostPushes, HostRefuses, HostPushed, HostServes, HostEnds
<1>3. WatchEnd'
  BY <1>1, <1>2, WatchEndKept DEF Ends
<1>4. HostEnd'
  BY HostReadsKeepsHostEnd, HostSeesEndKeepsHostEnd, HostPushesKeepsHostEnd,
     HostRefusesKeepsHostEnd, HostPushedKeepsHostEnd, HostServesKeepsHostEnd DEF Ends
<1> QED
  BY <1>3, <1>4 DEF Ends

LEMMA OutsideKeepsEnds ==
    ASSUME Ends, HostWrites \/ HostWritesEmpty \/ LinkBreaks
    PROVE  Ends'
<1>1. WatchEnd'
  BY HostWritesKeepsWatchEnd, HostWritesEmptyKeepsWatchEnd, LinkBreaksKeepsWatchEnd DEF Ends
<1>2. ASSUME HostWrites \/ HostWritesEmpty
      PROVE  HostEnd'
  <2>1. UNCHANGED <<hostSide, toHost, watchLog, cut, socket>>
    BY <1>2 DEF HostWrites, HostWritesEmpty, watchSide, logs
  <2> QED
    BY <2>1, HostEndKept DEF Ends
<1>3. HostEnd'
  BY <1>2, LinkBreaksKeepsHostEnd DEF Ends
<1> QED
  BY <1>1, <1>3 DEF Ends

LEMMA StillKeepsEnds ==
    ASSUME Ends, UNCHANGED linkVars
    PROVE  Ends'
<1>1. UNCHANGED <<watchSide, hostSide, toWatch, toHost, hostLog, watchLog, cut>>
  BY DEF linkVars, wires, logs
<1>2. UNCHANGED <<socket, serving>>
  BY <1>1 DEF watchSide, hostSide
<1> QED
  BY <1>1, <1>2, WatchEndKept, HostEndKept DEF Ends
-----------------------------------------------------------------------------
(* Every step of the loop, the host and the environment.                   *)

LEMMA EventsCounted ==
    ASSUME events \in 0 .. MaxEvents, Happens \/ UNCHANGED events
    PROVE  events' \in 0 .. MaxEvents
<1>1. MaxEvents \in Nat
  BY LoopAssumption
<1> QED
  BY <1>1 DEF Happens

LEMMA PagesStay ==
    ASSUME screen \in 0 .. ScreenCount - 1
    PROVE  NextScreen \in 0 .. ScreenCount - 1 /\ PreviousScreen \in 0 .. ScreenCount - 1
  BY LoopAssumption DEF NextScreen, PreviousScreen

LEMMA InitIsIInv == Init => IInv
<1> SUFFICES ASSUME Init PROVE IInv
  OBVIOUS
<1>1. LoopTypes
  <2>1. 0 \in 0 .. MaxEvents
    BY LoopAssumption
  <2> QED
    BY <2>1 DEF Init, LoopTypes
<1>2. WatchEnd
  BY NothingRead, EmptyFits
     DEF Init, LinkInit, WatchEnd, WatchTypes, WatchReadsInOrder, RefusesIllegal, WatchOpen
<1>3. HostEnd
  <2>1. /\ serving = FALSE /\ toHost = <<>> /\ buffered = <<>> /\ phase = "read"
        /\ watchLog = <<>> /\ cut = 0 /\ decoded = <<>> /\ served = <<>> /\ hostError = ""
    BY DEF Init, LinkInit
  <2>2. <<>> \in Seq(WatchFrames) /\ 0 \in 0 .. Len(<<>>) /\ <<>> \o <<>> = <<>>
    OBVIOUS
  <2>3. HostTypes
    BY <2>1, <2>2, NothingRead, EmptyBuffer DEF HostTypes
  <2>4. HostReadsInOrder
    BY <2>1, <2>2, NothingRead DEF HostReadsInOrder
  <2>5. HostOpen
    BY <2>1 DEF HostOpen
  <2> QED
    BY <2>3, <2>4, <2>5 DEF HostEnd
<1> QED
  BY <1>1, <1>2, <1>3 DEF IInv, Ends

LEMMA GotoKeepsLoop ==
    ASSUME LoopTypes, NEW from,
           NEW to \in {"connect", "receive", "push", "activate", "button", "handle", "timers"},
           Goto(from, to), Happens \/ UNCHANGED events
    PROVE  LoopTypes'
<1>1. events' \in 0 .. MaxEvents
  BY EventsCounted DEF LoopTypes
<1> QED
  BY <1>1 DEF LoopTypes, Goto, inputVars

LEMMA PollConnectKeepsIInv == IInv /\ PollConnect => IInv'
<1> SUFFICES ASSUME IInv, PollConnect PROVE IInv'
  OBVIOUS
<1>1. LoopTypes'
  BY GotoKeepsLoop DEF IInv, PollConnect
<1>2. Connect \/ ConnectCut \/ UNCHANGED linkVars
  BY DEF PollConnect
<1>3. Ends'
  BY <1>2, ConnectingKeepsEnds, StillKeepsEnds DEF IInv
<1> QED
  BY <1>1, <1>3 DEF IInv

LEMMA PollReceiveKeepsIInv == IInv /\ PollReceive => IInv'
<1> SUFFICES ASSUME IInv, PollReceive PROVE IInv'
  OBVIOUS
<1>1. LoopTypes'
  BY GotoKeepsLoop DEF IInv, PollReceive
<1>2. Receive \/ ReceiveEnd \/ UNCHANGED linkVars
  BY DEF PollReceive
<1>3. Ends'
  BY <1>2, QuietWatchKeepsEnds, StillKeepsEnds DEF IInv
<1> QED
  BY <1>1, <1>3 DEF IInv

LEMMA PollPushKeepsIInv == IInv /\ PollPush => IInv'
<1> SUFFICES ASSUME IInv, PollPush PROVE IInv'
  OBVIOUS
<1>1. LoopTypes'
  BY GotoKeepsLoop DEF IInv, PollPush
<1>2. PushByte \/ PushEmpty \/ PushMessage \/ PushRefused \/ PushFails \/ UNCHANGED linkVars
  BY DEF PollPush
<1>3. Ends'
  BY <1>2, QuietWatchKeepsEnds, PushMessageKeepsEnds, PushFailsKeepsEnds, StillKeepsEnds DEF IInv
<1> QED
  BY <1>1, <1>3 DEF IInv

LEMMA PollsKeepIInv == IInv /\ (PollActivate \/ PollButton) => IInv'
<1> SUFFICES ASSUME IInv, PollActivate \/ PollButton PROVE IInv'
  OBVIOUS
<1>1. LoopTypes'
  BY DEF IInv, LoopTypes, PollActivate, PollButton
<1>2. Ends'
  BY StillKeepsEnds DEF IInv, PollActivate, PollButton
<1> QED
  BY <1>1, <1>2 DEF IInv

LEMMA HandleKeepsIInv == IInv /\ Handle => IInv'
<1> SUFFICES ASSUME IInv, Handle PROVE IInv'
  OBVIOUS
<1>1. screen' \in 0 .. ScreenCount - 1
  BY PagesStay DEF IInv, LoopTypes, Handle
<1>2. pc' = "timers" /\ event' = "none" /\ waiting' \subseteq waiting
      /\ UNCHANGED <<pendingButton, pendingActivate, events>>
  BY DEF Handle
<1>3. LoopTypes'
  BY <1>1, <1>2 DEF IInv, LoopTypes
<1>4. (Activate(screen) \/ UNCHANGED <<wires, logs>>) /\ UNCHANGED <<watchSide, hostSide>>
  BY DEF Handle
<1>5. Ends'
  BY <1>4, ActivateKeepsEnds DEF IInv
<1> QED
  BY <1>3, <1>5 DEF IInv

LEMMA TimersKeepsIInv == IInv /\ Timers => IInv'
<1> SUFFICES ASSUME IInv, Timers PROVE IInv'
  OBVIOUS
<1>1. screen' \in 0 .. ScreenCount - 1
  BY PagesStay DEF IInv, LoopTypes, Timers, Touch
<1>2. events' \in 0 .. MaxEvents
  BY EventsCounted DEF IInv, LoopTypes, Timers
<1>3. pc' = "connect" /\ UNCHANGED <<inputVars, watchSide, hostSide>>
  BY DEF Timers
<1>4. LoopTypes'
  BY <1>1, <1>2, <1>3 DEF IInv, LoopTypes, inputVars
<1>5. \E page : Activate(page) \/ UNCHANGED <<wires, logs>>
  BY DEF Timers, Touch
<1>6. Ends'
  BY <1>3, <1>5, ActivateKeepsEnds DEF IInv
<1> QED
  BY <1>4, <1>6 DEF IInv

LEMMA HostKeepsIInv == IInv /\ Host => IInv'
<1> SUFFICES ASSUME IInv, Host PROVE IInv'
  OBVIOUS
<1>1. LoopTypes'
  BY DEF IInv, LoopTypes, Host, loopVars, inputVars
<1>2. Ends'
  BY HostKeepsEnds DEF IInv, Host
<1> QED
  BY <1>1, <1>2 DEF IInv

LEMMA EnvironmentKeepsIInv == IInv /\ Environment => IInv'
<1> SUFFICES ASSUME IInv, Environment PROVE IInv'
  OBVIOUS
<1>1. events' \in 0 .. MaxEvents
  BY EventsCounted DEF IInv, LoopTypes, Environment
<1>2. CASE ButtonISR \/ ActivateISR
  <2>1. LoopTypes'
    BY <1>1, <1>2 DEF IInv, LoopTypes, ButtonISR, ActivateISR
  <2>2. UNCHANGED linkVars
    BY <1>2 DEF ButtonISR, ActivateISR
  <2> QED
    BY <2>1, <2>2, StillKeepsEnds DEF IInv
<1>3. CASE (HostWrites \/ HostWritesEmpty \/ LinkBreaks) /\ UNCHANGED loopVars
  <2>1. LoopTypes'
    BY <1>1, <1>3 DEF IInv, LoopTypes, loopVars, inputVars
  <2> QED
    BY <2>1, <1>3, OutsideKeepsEnds DEF IInv
<1> QED
  BY <1>2, <1>3 DEF Environment

LEMMA NextKeepsIInv == IInv /\ [Next]_vars => IInv'
<1> SUFFICES ASSUME IInv, [Next]_vars PROVE IInv'
  OBVIOUS
<1>1. CASE Loop
  BY <1>1, PollConnectKeepsIInv, PollReceiveKeepsIInv, PollPushKeepsIInv, PollsKeepIInv,
     HandleKeepsIInv, TimersKeepsIInv DEF Loop
<1>2. CASE Host
  BY <1>2, HostKeepsIInv
<1>3. CASE Environment
  BY <1>3, EnvironmentKeepsIInv
<1>4. CASE UNCHANGED vars
  <2>1. LoopTypes'
    BY <1>4 DEF IInv, LoopTypes, vars, loopVars, inputVars
  <2>2. Ends'
    BY <1>4, StillKeepsEnds DEF IInv, vars
  <2> QED
    BY <2>1, <2>2 DEF IInv
<1> QED
  BY <1>1, <1>2, <1>3, <1>4 DEF Next

LEMMA Invariance == Spec => []IInv
  BY InitIsIInv, NextKeepsIInv, PTL DEF Spec
-----------------------------------------------------------------------------
(* The theorems.                                                           *)

\* Every variable of the loop and the link keeps its type; above all, neither
\* decoder ever holds more than its buffer.
THEOREM TypeCorrect == Spec => []TypeOK
<1>1. IInv => TypeOK
  <2> SUFFICES ASSUME IInv PROVE TypeOK
    OBVIOUS
  <2>1. LoopTypes /\ WatchTypes /\ HostTypes
    BY DEF IInv, Ends, WatchEnd, HostEnd
  <2>2. watchLog \in Seq(Frames)
    <3>1. WatchFrames \subseteq Frames
      BY DEF WatchFrames, Frames
    <3> QED
      BY <2>1, <3>1, SeqMonotonic DEF HostTypes
  <2> QED
    BY <2>1, <2>2, BytesOnWire DEF LoopTypes, WatchTypes, HostTypes, TypeOK
<1> QED
  BY <1>1, Invariance, PTL

\* The watch handles the host's frames whole, in order, none twice and none left
\* out, and only sound ones.
THEOREM WatchHandlesInOrder == Spec => []WatchReadsInOrder
<1>1. IInv => WatchReadsInOrder
  BY DEF IInv, Ends, WatchEnd
<1> QED
  BY <1>1, Invariance, PTL

\* So does the host, and it acts on nothing from a cut frame on.
THEOREM HostHandlesInOrder == Spec => []HostReadsInOrder
<1>1. IInv => HostReadsInOrder
  BY DEF IInv, Ends, HostEnd
<1> QED
  BY <1>1, Invariance, PTL

\* Neither side refuses a legal frame that was written whole.
THEOREM LegalIsAccepted == Spec => []LegalFramesAreAccepted
<1>1. IInv => LegalFramesAreAccepted
  BY DEF IInv, Ends, WatchEnd, RefusesIllegal, HostEnd, HostOpen, LegalFramesAreAccepted
<1> QED
  BY <1>1, Invariance, PTL
-----------------------------------------------------------------------------
(* The keys.                                                               *)

\* An event is one between the poll and its handler only.
KeysInv == NoPressIsLost /\ (event # "none" => pc = "handle")

LEMMA WhatIsFlagged ==
    /\ "activate" \in Flagged <=> pendingActivate
    /\ "button" \in Flagged <=> pendingButton
    /\ \A k \in Flagged : k \in {"button", "activate"}
  BY DEF Flagged

LEMMA StillKeepsKeys ==
    ASSUME KeysInv, UNCHANGED inputVars, event # "none" => pc' = pc
    PROVE  KeysInv'
<1>1. Flagged' = Flagged /\ waiting' = waiting /\ event' = event
  BY DEF Flagged, inputVars
<1> QED
  BY <1>1 DEF KeysInv, NoPressIsLost

LEMMA PollsKeepKeys ==
    ASSUME LoopTypes, KeysInv, PollActivate \/ PollButton
    PROVE  KeysInv'
<1>1. event = "none" /\ waiting' = waiting /\ waiting \subseteq Flagged
  <2>1. pc \in {"activate", "button"} /\ waiting' = waiting
    BY DEF PollActivate, PollButton
  <2>2. event = "none"
    BY <2>1 DEF KeysInv
  <2>3. \A k \in waiting : k \in {"button", "activate"} /\ (k \in Flagged \/ k = event)
    BY DEF KeysInv, NoPressIsLost, LoopTypes
  <2> QED
    BY <2>1, <2>2, <2>3
<1>2. event' # "none" => pc' = "handle"
  BY DEF PollActivate, PollButton
<1>3. \A k \in Flagged : k \in Flagged' \/ k = event'
  BY DEF PollActivate, PollButton, Flagged
<1> QED
  BY <1>1, <1>2, <1>3 DEF KeysInv, NoPressIsLost

LEMMA HandleKeepsKeys ==
    ASSUME KeysInv, Handle
    PROVE  KeysInv'
<1>1. event' = "none" /\ Flagged' = Flagged
  BY DEF Handle, Flagged
<1>2. \A k \in waiting' : k \in waiting /\ (k # event \/ k \in Flagged)
  BY DEF Handle
<1> QED
  BY <1>1, <1>2 DEF KeysInv, NoPressIsLost

LEMMA InterruptsKeepKeys ==
    ASSUME KeysInv, ButtonISR \/ ActivateISR
    PROVE  KeysInv'
<1>1. event' = event /\ pc' = pc /\ \A k \in Flagged : k \in Flagged'
  BY DEF ButtonISR, ActivateISR, Flagged
<1>2. \A k \in waiting' : k \in waiting \/ k \in Flagged'
  BY DEF ButtonISR, ActivateISR, Flagged
<1> QED
  BY <1>1, <1>2 DEF KeysInv, NoPressIsLost

LEMMA NextKeepsKeys == LoopTypes /\ KeysInv /\ [Next]_vars => KeysInv'
<1> SUFFICES ASSUME LoopTypes, KeysInv, [Next]_vars
             PROVE  KeysInv'
  OBVIOUS
<1>1. CASE PollConnect \/ PollReceive \/ PollPush
  <2>1. UNCHANGED inputVars /\ pc \in {"connect", "receive", "push"}
    BY <1>1 DEF PollConnect, PollReceive, PollPush, Goto
  <2>2. event = "none"
    BY <2>1 DEF KeysInv
  <2> QED
    BY <2>1, <2>2, StillKeepsKeys
<1>2. CASE PollActivate \/ PollButton
  BY <1>2, PollsKeepKeys
<1>3. CASE Handle
  BY <1>3, HandleKeepsKeys
<1>4. CASE Timers
  <2>1. UNCHANGED inputVars /\ pc = "timers"
    BY <1>4 DEF Timers
  <2>2. event = "none"
    BY <2>1 DEF KeysInv
  <2> QED
    BY <2>1, <2>2, StillKeepsKeys
<1>5. CASE Host
  BY <1>5, StillKeepsKeys DEF Host, loopVars
<1>6. CASE Environment
  <2>1. CASE ButtonISR \/ ActivateISR
    BY <2>1, InterruptsKeepKeys
  <2>2. CASE UNCHANGED loopVars
    BY <2>2, StillKeepsKeys DEF loopVars
  <2> QED
    BY <1>6, <2>1, <2>2 DEF Environment
<1>7. CASE UNCHANGED vars
  BY <1>7, StillKeepsKeys DEF vars, loopVars
<1> QED
  BY <1>1, <1>2, <1>3, <1>4, <1>5, <1>6, <1>7 DEF Next, Loop

\* A press is on record until it is acted on, whenever its interrupt comes: the
\* tests of the two flags and the interrupts never erase one between them.
THEOREM PressesAreKept == Spec => []NoPressIsLost
<1>1. Init => KeysInv
  BY DEF Init, KeysInv, NoPressIsLost
<1>2. IInv /\ KeysInv /\ [Next]_vars => KeysInv'
  BY NextKeepsKeys DEF IInv
<1>3. KeysInv => NoPressIsLost
  BY DEF KeysInv
<1> QED
  BY <1>1, <1>2, <1>3, Invariance, PTL DEF Spec
-----------------------------------------------------------------------------
(* The link on whole frames.                                               *)

\* A queue that is the rest of a log: its first element, and a log that grows.
LEMMA RestOfLog ==
    ASSUME NEW F, NEW log \in Seq(F), NEW n \in Nat, NEW m \in Nat, n < m, m <= Len(log)
    PROVE  /\ SubSeq(log, n + 1, m) # <<>>
           /\ Head(SubSeq(log, n + 1, m)) = log[n + 1]
           /\ Tail(SubSeq(log, n + 1, m)) = SubSeq(log, n + 1 + 1, m)
<1>1. Len(log) \in Nat
  BY LenProperties
<1>2. n + 1 \in 1 .. Len(log) /\ m \in n + 1 .. Len(log)
  BY <1>1
<1>3. SubSeq(log, n + 1, m) = <<log[n + 1]>> \o SubSeq(log, n + 1 + 1, m)
  BY <1>2, SubSeqRecursiveFirst
<1>4. \A i \in n + 1 .. m : log[i] \in F
  BY <1>1, ElementOfSeq
<1>5. Len(SubSeq(log, n + 1, m)) = m - (n + 1) + 1
  BY <1>4, SubSeqProperties
<1>6. SubSeq(log, n + 1, m) # <<>>
  BY <1>5
<1> QED
  BY <1>2, <1>6, HeadTailOfSubSeq

LEMMA LogGrows ==
    ASSUME NEW F, NEW log \in Seq(F), NEW f \in F, NEW n \in Nat, n <= Len(log)
    PROVE  /\ SubSeq(Append(log, f), n + 1, Len(log) + 1)
                = Append(SubSeq(log, n + 1, Len(log)), f)
           /\ \A m \in 0 .. Len(log) :
                SubSeq(Append(log, f), n + 1, m) = SubSeq(log, n + 1, m)
<1> DEFINE grown == Append(log, f)
<1>1. /\ grown \in Seq(F) /\ Len(grown) = Len(log) + 1 /\ Len(log) \in Nat
      /\ \A i \in 1 .. Len(log) : grown[i] = log[i] /\ log[i] \in F
      /\ grown[Len(log) + 1] = f
  BY AppendProperties, LenProperties, ElementOfSeq
<1>2. ASSUME NEW m \in 0 .. Len(log)
      PROVE  SubSeq(grown, n + 1, m) = SubSeq(log, n + 1, m)
  <2> HIDE DEF grown
  <2>1. \A i \in n + 1 .. m : i \in 1 .. Len(log)
    BY <1>1, <1>2
  <2>2. \A i \in n + 1 .. m : grown[i] \in F /\ log[i] \in F /\ grown[i] = log[i]
    BY <1>1, <2>1
  <2>3. m \in Int /\ n + 1 \in Int
    BY <1>1, <1>2
  <2>4. /\ SubSeq(grown, n + 1, m) \in Seq(F) /\ SubSeq(log, n + 1, m) \in Seq(F)
        /\ Len(SubSeq(grown, n + 1, m)) = Len(SubSeq(log, n + 1, m))
        /\ Len(SubSeq(grown, n + 1, m)) = IF n + 1 <= m THEN m - (n + 1) + 1 ELSE 0
        /\ \A i \in 1 .. m - (n + 1) + 1 : SubSeq(grown, n + 1, m)[i] = grown[n + 1 + i - 1]
        /\ \A i \in 1 .. m - (n + 1) + 1 : SubSeq(log, n + 1, m)[i] = log[n + 1 + i - 1]
    BY <2>2, <2>3, SubSeqProperties
  <2>5. \A i \in 1 .. Len(SubSeq(grown, n + 1, m)) :
           SubSeq(grown, n + 1, m)[i] = SubSeq(log, n + 1, m)[i]
    <3> SUFFICES ASSUME NEW i \in 1 .. Len(SubSeq(grown, n + 1, m))
                 PROVE  SubSeq(grown, n + 1, m)[i] = SubSeq(log, n + 1, m)[i]
      OBVIOUS
    <3>1. i \in 1 .. m - (n + 1) + 1 /\ n + 1 + i - 1 \in n + 1 .. m
      BY <2>3, <2>4
    <3> QED
      BY <2>2, <2>4, <3>1
  <2> QED
    BY <2>4, <2>5, SeqEqual
<1>3. SubSeq(grown, n + 1, Len(log) + 1) = Append(SubSeq(log, n + 1, Len(log)), f)
  <2>1. n + 1 \in 1 .. Len(grown) /\ Len(log) + 1 \in n + 1 .. Len(grown)
    BY <1>1
  <2> HIDE DEF grown
  <2> DEFINE top == Len(log) + 1
  <2>2. top \in n + 1 .. Len(grown) /\ top - 1 = Len(log) /\ grown[top] = f
    BY <1>1, <2>1
  <2> HIDE DEF top
  <2>3. SubSeq(grown, n + 1, top) = SubSeq(grown, n + 1, top - 1) \o <<grown[top]>>
    BY <1>1, <2>1, <2>2, SubSeqRecursiveSecond
  <2>4. SubSeq(grown, n + 1, Len(log)) = SubSeq(log, n + 1, Len(log))
    <3>1. Len(log) \in 0 .. Len(log)
      BY <1>1
    <3> QED
      BY <1>2, <3>1
  <2>5. SubSeq(log, n + 1, Len(log)) \in Seq(F)
    <3>1. \A i \in n + 1 .. Len(log) : log[i] \in F
      BY <1>1
    <3> QED
      BY <1>1, <3>1, SubSeqProperties
  <2>6. SubSeq(grown, n + 1, top) = Append(SubSeq(log, n + 1, Len(log)), f)
    BY <2>2, <2>3, <2>4, <2>5, AppendIsConcat
  <2> QED
    BY <2>6 DEF top
<1> QED
  BY <1>2, <1>3

LEMMA LinkStays ==
    ASSUME UNCHANGED <<socket, serving, cut, watchError, hostError>>,
           UNCHANGED <<Unhandled, Unserved>>
    PROVE  UNCHANGED Link!linkVars
  BY DEF Link!linkVars

LEMMA ServedIs ==
    ASSUME HostEnd
    PROVE  /\ Len(served) \in Nat /\ Len(watchLog) \in Nat /\ cut \in 0 .. Len(watchLog)
           /\ Len(served) <= Len(Read) /\ Len(served) <= Len(watchLog)
           /\ cut # 0 => Len(served) <= cut - 1
           /\ served \in Seq(Nat) /\ decoded \in Seq(Nat) /\ watchLog \in Seq(WatchFrames)
<1>1. /\ served \in Seq(Nat) /\ decoded \in Seq(Nat) /\ watchLog \in Seq(WatchFrames)
      /\ cut \in 0 .. Len(watchLog)
  BY DEF HostEnd, HostTypes
<1>2. /\ Len(served) \in Nat /\ Len(decoded) \in Nat /\ Len(Read) = Len(served) + Len(decoded)
  BY <1>1, LenProperties, ConcatProperties DEF Read
<1>3. /\ Len(Read) \in Nat /\ Len(Read) <= Len(watchLog) /\ Len(watchLog) \in Nat
      /\ cut # 0 => Len(Read) < cut
  BY HostReadIs
<1> QED
  BY <1>1, <1>2, <1>3

\* The watch begins a frame: written whole it joins the queue, cut it does not, and
\* after a frame that was cut none does.
LEMMA BegunFrame ==
    ASSUME HostEnd, UNCHANGED <<serving, served>>, NEW f \in WatchFrames,
           watchLog' = Append(watchLog, f)
    PROVE  /\ cut = 0 /\ cut' = 0
                => Unserved' = IF serving THEN Append(Unserved, f) ELSE Unserved
           /\ cut' = (IF cut = 0 THEN Len(watchLog) + 1 ELSE cut) => Unserved' = Unserved
<1> DEFINE n == Len(served)
           log == watchLog
           grown == Append(watchLog, f)
<1>1. /\ n \in Nat /\ Len(log) \in Nat /\ n <= Len(log) /\ log \in Seq(WatchFrames)
      /\ cut \in 0 .. Len(log) /\ (cut # 0 => n <= cut - 1)
  BY ServedIs
<1>2. /\ SubSeq(grown, n + 1, Len(log) + 1) = Append(SubSeq(log, n + 1, Len(log)), f)
      /\ \A m \in 0 .. Len(log) : SubSeq(grown, n + 1, m) = SubSeq(log, n + 1, m)
      /\ Len(grown) = Len(log) + 1
  <2>1. Len(grown) = Len(log) + 1
    BY <1>1, AppendProperties
  <2> HIDE DEF n
  <2> QED
    BY <2>1, <1>1, LogGrows
<1>3. /\ Unserved = IF serving THEN SubSeq(log, n + 1, IF cut = 0 THEN Len(log) ELSE cut - 1)
                    ELSE <<>>
      /\ Unserved' = IF serving
                     THEN SubSeq(grown, n + 1, IF cut' = 0 THEN Len(grown) ELSE cut' - 1)
                     ELSE <<>>
  BY DEF Unserved
<1> HIDE DEF n, log, grown
<1>4. ASSUME cut = 0, cut' = 0
      PROVE  Unserved' = IF serving THEN Append(Unserved, f) ELSE Unserved
  BY <1>2, <1>3, <1>4
<1>5. ASSUME cut' = IF cut = 0 THEN Len(log) + 1 ELSE cut
      PROVE  Unserved' = Unserved
  <2>1. CASE cut = 0
    <3>1. cut' # 0 /\ cut' - 1 = Len(log) /\ Len(log) \in 0 .. Len(log)
      BY <2>1, <1>1, <1>5
    <3> QED
      BY <3>1, <2>1, <1>2, <1>3
  <2>2. CASE cut # 0
    <3>1. cut' = cut /\ cut - 1 \in 0 .. Len(log)
      BY <2>2, <1>1, <1>5
    <3> QED
      BY <3>1, <2>2, <1>2, <1>3
  <2> QED
    BY <2>1, <2>2
<1> QED
  BY <1>4, <1>5 DEF log

LEMMA SendMaps ==
    ASSUME HostEnd, UNCHANGED <<serving, served>>, NEW f \in WatchFrames, Send(f)
    PROVE  Link!Send(f)
<1>1. watchLog' = Append(watchLog, f) /\ cut' = cut
  BY DEF Send, logs
<1>2. CASE cut = 0
  BY <1>1, <1>2, BegunFrame DEF Link!Send
<1>3. CASE cut # 0
  BY <1>1, <1>3, BegunFrame DEF Link!Send
<1> QED
  BY <1>2, <1>3

LEMMA SendCutMaps ==
    ASSUME HostEnd, UNCHANGED <<serving, served>>, NEW f \in WatchFrames, SendCut(f)
    PROVE  Link!Tear
<1>1. \/ UNCHANGED <<watchLog, cut>>
      \/ /\ watchLog' = Append(watchLog, f)
         /\ cut' = IF cut = 0 THEN Len(watchLog) + 1 ELSE cut
  BY DEF SendCut
<1>2. CASE UNCHANGED <<watchLog, cut>>
  BY <1>2 DEF Link!Tear, Unserved
<1>3. CASE /\ watchLog' = Append(watchLog, f)
           /\ cut' = IF cut = 0 THEN Len(watchLog) + 1 ELSE cut
  <2>1. Unserved' = Unserved
    BY <1>3, BegunFrame
  <2>2. Len(watchLog) \in Nat
    BY ServedIs
  <2>3. cut' # 0
    BY <1>3, <2>2
  <2> QED
    BY <2>1, <2>3 DEF Link!Tear
<1> QED
  BY <1>1, <1>2, <1>3

LEMMA WritingMaps ==
    ASSUME HostEnd, socket, UNCHANGED <<socket, serving, served, hostError>>,
           UNCHANGED <<hostLog, handled, watchError>>,
           NEW f \in WatchFrames, Send(f) \/ SendCut(f)
    PROVE  Link!WatchSends
<1>1. Unhandled' = Unhandled
  BY DEF Unhandled
<1>2. Link!Send(f) \/ Link!Tear
  BY SendMaps, SendCutMaps
<1> QED
  BY <1>1, <1>2 DEF Link!WatchSends

\* The watch takes a frame from the front of what the host has written.
LEMMA HandledIs ==
    ASSUME WatchEnd, Len(handled) < Len(hostLog), socket
    PROVE  /\ Unhandled # <<>> /\ Head(Unhandled) = hostLog[Len(handled) + 1]
           /\ hostLog[Len(handled) + 1] \in HostFrames
           /\ Tail(Unhandled) = SubSeq(hostLog, Len(handled) + 1 + 1, Len(hostLog))
<1> DEFINE n == Len(handled)
           m == Len(hostLog)
<1>1. n \in Nat /\ m \in Nat /\ n < m /\ hostLog \in Seq(HostFrames)
  BY WatchReadIs, LenProperties
<1>2. n + 1 \in 1 .. m
  BY <1>1
<1>3. hostLog[n + 1] \in HostFrames
  BY <1>1, <1>2, ElementOfSeq
<1>4. Unhandled = SubSeq(hostLog, n + 1, m)
  BY DEF Unhandled
<1> HIDE DEF n, m
<1>5. /\ SubSeq(hostLog, n + 1, m) # <<>>
      /\ Head(SubSeq(hostLog, n + 1, m)) = hostLog[n + 1]
      /\ Tail(SubSeq(hostLog, n + 1, m)) = SubSeq(hostLog, n + 1 + 1, m)
  <2>1. m <= Len(hostLog)
    BY <1>1 DEF m
  <2> QED
    BY <2>1, <1>1, RestOfLog
<1> QED
  BY <1>3, <1>4, <1>5 DEF n, m

LEMMA TakenIsNext ==
    ASSUME WatchEnd, chunk # <<>>, Head(chunk) = LF, WatchDecodes(WithoutCR(decoder)),
           handled' = Append(handled, WithoutCR(decoder)[1][1]), hostLog' = hostLog
    PROVE  /\ socket /\ Len(handled) < Len(hostLog) /\ Len(handled') = Len(handled) + 1
           /\ hostLog[Len(handled) + 1].sound /\ Valid(hostLog[Len(handled) + 1])
<1>1. Len(handled') = Len(handled) + 1 /\ WatchReadsInOrder' /\ handled' \in Seq(Nat)
  BY HandlingIsInOrder
<1>2. Len(handled) \in Nat /\ Len(hostLog) \in Nat
  BY WatchReadIs, LenProperties
<1>3. Len(handled') <= Len(hostLog)
      /\ \A n \in DOMAIN handled' : hostLog[n].sound /\ Valid(hostLog[n])
  BY <1>1 DEF WatchReadsInOrder
<1>4. Len(handled) + 1 \in DOMAIN handled'
  <2>1. DOMAIN handled' = 1 .. Len(handled')
    BY <1>1, LenProperties
  <2> QED
    BY <2>1, <1>1, <1>2
<1>5. socket
  BY NextByte
<1> QED
  BY <1>1, <1>2, <1>3, <1>4, <1>5

LEMMA PushMessageMaps ==
    ASSUME Ends, PushMessage
    PROVE  Link!WatchTakes
<1>1. /\ chunk # <<>> /\ Head(chunk) = LF /\ WatchDecodes(WithoutCR(decoder))
      /\ handled' = Append(handled, WithoutCR(decoder)[1][1])
      /\ UNCHANGED <<socket, watchError, serving, served, hostError, hostLog>>
      /\ \/ \E f \in WatchFrames : Send(f)
         \/ UNCHANGED <<watchLog, cut>>
  BY PushMessageParts DEF hostSide
<1>2. WatchEnd /\ HostEnd
  BY DEF Ends
<1>3. /\ socket /\ Len(handled) < Len(hostLog) /\ Len(handled') = Len(handled) + 1
      /\ hostLog[Len(handled) + 1].sound /\ Valid(hostLog[Len(handled) + 1])
  BY <1>1, <1>2, TakenIsNext
<1>4. /\ Unhandled # <<>> /\ Head(Unhandled) \in {f \in HostFrames : f.sound /\ Valid(f)}
      /\ Tail(Unhandled) = SubSeq(hostLog, Len(handled) + 1 + 1, Len(hostLog))
  BY <1>2, <1>3, HandledIs
<1>5. Unhandled' = Tail(Unhandled)
  BY <1>1, <1>3, <1>4 DEF Unhandled
<1>6. (\E f \in WatchFrames : Link!Send(f)) \/ UNCHANGED <<Unserved, cut # 0>>
  <2>1. CASE \E f \in WatchFrames : Send(f)
    BY <2>1, <1>1, <1>2, SendMaps
  <2>2. CASE UNCHANGED <<watchLog, cut>>
    BY <2>2, <1>1 DEF Unserved
  <2> QED
    BY <2>1, <2>2, <1>1
<1> QED
  BY <1>1, <1>3, <1>4, <1>5, <1>6 DEF Link!WatchTakes

LEMMA PushFailsMaps ==
    ASSUME Ends, PushFails
    PROVE  Link!WatchTakes
<1>1. /\ chunk # <<>> /\ Head(chunk) = LF /\ WatchDecodes(WithoutCR(decoder))
      /\ handled' = Append(handled, WithoutCR(decoder)[1][1])
      /\ socket' = FALSE /\ watchError' = "handler"
      /\ UNCHANGED <<serving, served, hostError, hostLog>>
      /\ \/ \E f \in WatchFrames : SendCut(f)
         \/ UNCHANGED <<watchLog, cut>>
  BY PushFailsParts DEF hostSide, Disconnect
<1>2. WatchEnd /\ HostEnd
  BY DEF Ends
<1>3. /\ socket /\ Len(handled) < Len(hostLog)
      /\ hostLog[Len(handled) + 1].sound /\ Valid(hostLog[Len(handled) + 1])
  BY <1>1, <1>2, TakenIsNext
<1>4. Unhandled # <<>> /\ Head(Unhandled) \in {f \in HostFrames : f.sound /\ Valid(f)}
  BY <1>2, <1>3, HandledIs
<1>5. Link!WatchCloses
  BY <1>1 DEF Link!WatchCloses, Unhandled
<1>6. Link!Tear
  <2>1. CASE \E f \in WatchFrames : SendCut(f)
    BY <2>1, <1>1, <1>2, SendCutMaps
  <2>2. CASE UNCHANGED <<watchLog, cut>>
    BY <2>2, <1>1 DEF Link!Tear, Unserved
  <2> QED
    BY <2>1, <2>2, <1>1
<1> QED
  BY <1>1, <1>3, <1>4, <1>5, <1>6 DEF Link!WatchTakes

LEMMA PushRefusedMaps ==
    ASSUME Ends, PushRefused
    PROVE  Link!WatchRefuses
<1>1. /\ chunk # <<>> /\ watchError' = "frame" /\ socket' = FALSE
      /\ UNCHANGED <<handled, hostLog, serving, served, hostError, watchLog, cut>>
  BY DEF PushRefused, Disconnect, hostSide, logs
<1>2. WatchEnd /\ WatchEnd'
  BY PushRefusedKeepsWatchEnd DEF Ends
<1>3. Len(handled) < Len(hostLog) /\ ~Legal(hostLog[Len(handled) + 1]) /\ socket
  BY <1>1, <1>2, NextByte DEF WatchEnd, RefusesIllegal
<1>4. Unhandled # <<>> /\ Head(Unhandled) \notin {f \in HostFrames : Legal(f)}
  BY <1>2, <1>3, HandledIs
<1>5. Link!WatchCloses /\ UNCHANGED <<Unserved, cut # 0>>
  BY <1>1 DEF Link!WatchCloses, Unhandled, Unserved
<1> QED
  BY <1>1, <1>3, <1>4, <1>5 DEF Link!WatchRefuses

\* The host takes a frame.
LEMMA HostServesMaps ==
    ASSUME HostEnd, HostServes
    PROVE  Link!HostTakes \/ UNCHANGED Link!linkVars
<1>1. /\ phase = "serve"
      /\ UNCHANGED <<socket, watchError, handled, serving, hostError, hostLog, watchLog, cut>>
  BY DEF HostServes, watchSide, logs
<1>2. serving /\ Unhandled' = Unhandled
  BY <1>1 DEF HostEnd, HostTypes, HostOpen, Unhandled
<1>3. CASE decoded = <<>>
  <2>1. served' = served
    BY <1>3 DEF HostServes
  <2>2. Unserved' = Unserved
    BY <2>1, <1>1 DEF Unserved
  <2> QED
    BY <2>2, <1>1, <1>2, LinkStays
<1>4. CASE decoded # <<>>
  <2> DEFINE n == Len(served)
             top == IF cut = 0 THEN Len(watchLog) ELSE cut - 1
  <2>1. /\ served \in Seq(Nat) /\ decoded \in Seq(Nat) /\ watchLog \in Seq(WatchFrames)
        /\ n \in Nat /\ Len(watchLog) \in Nat /\ cut \in 0 .. Len(watchLog)
    BY ServedIs
  <2>2. served' = Append(served, Head(decoded))
    BY <1>4 DEF HostServes
  <2>3. Len(served') = n + 1
    <3>1. Head(decoded) \in Nat
      BY <2>1, <1>4, MoveOne
    <3> QED
      BY <3>1, <2>1, <2>2, AppendProperties
  <2>4. Len(Read) = n + Len(decoded) /\ Len(decoded) \in Nat \ {0}
    <3>1. Len(decoded) \in Nat \ {0}
      BY <2>1, <1>4, EmptySeq, LenProperties
    <3> QED
      BY <3>1, <2>1, ConcatProperties DEF Read
  <2>5. Len(Read) <= Len(watchLog) /\ (cut # 0 => Len(Read) < cut)
    BY HostReadIs
  <2>6. n < top /\ top \in Nat /\ top <= Len(watchLog)
    BY <2>1, <2>4, <2>5
  <2>7. Unserved = SubSeq(watchLog, n + 1, top) /\ Unserved' = SubSeq(watchLog, n + 1 + 1, top)
    BY <2>3, <1>1, <1>2 DEF Unserved
  <2> HIDE DEF n, top
  <2>8. Unserved # <<>> /\ Unserved' = Tail(Unserved)
    BY <2>1, <2>6, <2>7, RestOfLog
  <2> QED
    BY <2>8, <1>1, <1>2 DEF Link!HostTakes
<1> QED
  BY <1>3, <1>4

LEMMA HostEndsMaps ==
    ASSUME HostEnds, UNCHANGED <<socket, watchError, handled, hostLog, cut>>
    PROVE  Link!HostCloses /\ UNCHANGED <<Unhandled, cut # 0>>
  BY DEF HostEnds, Link!HostCloses, Unserved, Unhandled

LEMMA HostWritesMaps ==
    ASSUME WatchEnd, HostWrites
    PROVE  Link!HostSends
<1>1. /\ serving /\ UNCHANGED <<socket, watchError, handled, serving, served, hostError>>
      /\ UNCHANGED <<watchLog, cut>>
  BY DEF HostWrites, watchSide, hostSide
<1>2. PICK f \in HostFrames : hostLog' = Append(hostLog, f)
  BY DEF HostWrites
<1> DEFINE n == Len(handled)
           grown == Append(hostLog, f)
<1>3. n \in Nat /\ n <= Len(hostLog) /\ hostLog \in Seq(HostFrames)
  BY WatchReadIs, LenProperties DEF WatchEnd, WatchReadsInOrder
<1>4. Len(grown) = Len(hostLog) + 1
  BY <1>3, AppendProperties
<1>5. SubSeq(grown, n + 1, Len(hostLog) + 1) = Append(SubSeq(hostLog, n + 1, Len(hostLog)), f)
  <2> HIDE DEF n
  <2> QED
    BY <1>3, LogGrows
<1> HIDE DEF grown
<1>6. Unhandled' = IF socket THEN Append(Unhandled, f) ELSE Unhandled
  BY <1>1, <1>2, <1>4, <1>5 DEF Unhandled, grown
<1>7. Unserved' = Unserved
  BY <1>1 DEF Unserved
<1> QED
  BY <1>1, <1>6, <1>7 DEF Link!HostSends

LEMMA HostMaps ==
    ASSUME Ends, Host
    PROVE  [Link!Next]_(Link!linkVars)
<1> DEFINE Still == UNCHANGED <<socket, watchError, handled, hostLog, watchLog, cut>>
<1>0. WatchEnd /\ HostEnd
  BY DEF Ends
<1>1. CASE HostReads \/ HostPushes \/ HostPushed
  <2>1. Still /\ UNCHANGED <<serving, served, hostError>>
    BY <1>1 DEF HostReads, HostPushes, HostPushed, watchSide, logs
  <2> QED
    BY <2>1, LinkStays DEF Unhandled, Unserved
<1>2. CASE HostSeesEnd
  <2>1. HostEnds /\ Still /\ serving /\ ~socket /\ hostError' = hostError
    BY <1>2 DEF HostSeesEnd, watchSide, logs
  <2>2. Link!HostSeesEnd
    BY <2>1, HostEndsMaps DEF Link!HostSeesEnd
  <2> QED
    BY <2>2 DEF Link!Next
<1>3. CASE HostRefuses
  <2>1. HostEnds /\ Still /\ phase = "push" /\ hostError' = "frame"
    BY <1>3 DEF HostRefuses, watchSide, logs
  <2>2. serving /\ cut # 0
    BY <2>1, <1>0, <1>3, HostRefusesOnlyCut DEF HostEnd, HostTypes, HostOpen
  <2>3. Link!HostRefuses
    BY <2>1, <2>2, HostEndsMaps DEF Link!HostRefuses
  <2> QED
    BY <2>3 DEF Link!Next
<1>4. CASE HostServes
  BY <1>0, <1>4, HostServesMaps DEF Link!Next
<1> QED
  BY <1>1, <1>2, <1>3, <1>4 DEF Host

\* What comes from outside the two programs.
LEMMA EnvironmentMaps ==
    ASSUME Ends, Environment
    PROVE  [Link!Next]_(Link!linkVars)
<1>0. WatchEnd /\ HostEnd
  BY DEF Ends
<1>1. CASE ButtonISR \/ ActivateISR
  <2>1. UNCHANGED linkVars
    BY <1>1 DEF ButtonISR, ActivateISR
  <2> QED
    BY <2>1, LinkStays DEF linkVars, watchSide, hostSide, logs, Unhandled, Unserved
<1>2. CASE HostWrites
  BY <1>0, <1>2, HostWritesMaps DEF Link!Next
<1>3. CASE HostWritesEmpty
  BY <1>3, LinkStays DEF HostWritesEmpty, watchSide, hostSide, logs, Unhandled, Unserved
<1>4. CASE LinkBreaks
  <2>1. /\ HostEnds /\ serving /\ hostError' = "io"
        /\ UNCHANGED <<socket, watchError, handled, hostLog, cut>>
    BY <1>4 DEF LinkBreaks, watchSide, logs
  <2>2. Link!LinkBreaks
    BY <2>1, HostEndsMaps DEF Link!LinkBreaks
  <2> QED
    BY <2>2 DEF Link!Next
<1> QED
  BY <1>1, <1>2, <1>3, <1>4 DEF Environment

\* A connection opens.
LEMMA ConnectMaps ==
    ASSUME Connect \/ ConnectCut
    PROVE  Link!Open
<1> DEFINE log == <<Hello, SyncRequest>>
<1>1. log \in Seq(WatchFrames) /\ Len(log) = 2
  BY DEF WatchFrames
<1>2. /\ ~socket /\ ~serving /\ serving' = TRUE /\ hostLog' = <<>> /\ handled' = <<>>
      /\ watchLog' = log /\ served' = <<>> /\ watchError' = "" /\ hostError' = ""
  BY DEF Connect, ConnectCut
<1>3. Len(<<>>) = 0 /\ 0 + 1 = 1 /\ <<>> \in Seq(HostFrames) /\ SubSeq(<<>>, 1, 0) = <<>>
  BY EmptySeq, SubSeqEmpty
<1>4. Unhandled' = <<>>
  BY <1>2, <1>3 DEF Unhandled
<1> DEFINE top == IF cut' = 0 THEN Len(watchLog') ELSE cut' - 1
<1>5. Unserved' = SubSeq(log, 1, top)
  <2>1. Unserved' = SubSeq(watchLog', Len(served') + 1, top)
    BY <1>2 DEF Unserved
  <2>2. Len(served') + 1 = 1
    BY <1>2, <1>3
  <2> HIDE DEF top, log
  <2> QED
    BY <2>1, <2>2, <1>2
<1>6. SubSeq(log, 1, 2) = log
  BY <1>1, SubSeqFull
<1>7. CASE Connect
  <2>1. socket' = TRUE /\ cut' = 0
    BY <1>7 DEF Connect
  <2>2. top = 2
    BY <2>1, <1>1, <1>2
  <2> HIDE DEF top, log
  <2>3. Unserved' = log
    BY <2>2, <1>5, <1>6
  <2> QED
    BY <2>1, <2>3, <1>2, <1>4 DEF Link!Open, log
<1>8. CASE ConnectCut
  <2>1. socket' = FALSE /\ cut' \in {1, 2}
    BY <1>8 DEF ConnectCut, Disconnect
  <2>2. cut' # 0 /\ top = cut' - 1
    BY <2>1
  <2>3. cut' - 1 \in 0 .. 1 /\ Len(log) - 1 = 1
    BY <2>1, <1>1
  <2> HIDE DEF top, log
  <2>4. top \in 0 .. Len(log) - 1
    BY <2>2, <2>3
  <2> QED
    BY <2>1, <2>2, <2>4, <1>2, <1>4, <1>5 DEF Link!Open, log
<1> QED
  BY <1>7, <1>8

LEMMA ReceiveEndMaps ==
    ASSUME ReceiveEnd
    PROVE  Link!WatchSeesEnd
<1>1. /\ socket /\ ~serving /\ socket' = FALSE
      /\ UNCHANGED <<watchError, serving, served, hostError, watchLog, cut>>
  BY DEF ReceiveEnd, Disconnect, hostSide, logs
<1>2. Link!WatchCloses /\ UNCHANGED <<Unserved, cut # 0>>
  BY <1>1 DEF Link!WatchCloses, Unhandled, Unserved
<1> QED
  BY <1>1, <1>2 DEF Link!WatchSeesEnd

\* A key or a touch, which may send the music action.
LEMMA ActivateMaps ==
    ASSUME HostEnd, NEW page, Activate(page) \/ UNCHANGED <<wires, logs>>,
           UNCHANGED <<watchSide, hostSide>>
    PROVE  [Link!Next]_(Link!linkVars)
<1>1. UNCHANGED <<socket, serving, served, hostError, handled, watchError>>
  BY DEF watchSide, hostSide
<1>2. CASE socket /\ (Send(SetPlaying) \/ SendCut(SetPlaying))
  <2>1. SetPlaying \in WatchFrames
    BY DEF WatchFrames
  <2>2. hostLog' = hostLog
    BY <1>2 DEF Send, SendCut
  <2>3. Link!WatchSends
    BY <2>1, <2>2, <1>1, <1>2, WritingMaps
  <2> QED
    BY <2>3 DEF Link!Next
<1>3. CASE UNCHANGED <<wires, logs>>
  BY <1>1, <1>3, LinkStays DEF logs, Unhandled, Unserved
<1> QED
  BY <1>2, <1>3 DEF Activate

LEMMA LoopMaps ==
    ASSUME Ends, Loop
    PROVE  [Link!Next]_(Link!linkVars)
<1>0. HostEnd
  BY DEF Ends
<1>1. CASE UNCHANGED linkVars
  BY <1>1, LinkStays DEF linkVars, watchSide, hostSide, logs, Unhandled, Unserved
<1>2. CASE Connect \/ ConnectCut
  BY <1>2, ConnectMaps DEF Link!Next
<1>3. CASE Receive \/ PushByte \/ PushEmpty
  BY <1>3, LinkStays
     DEF Receive, PushByte, PushEmpty, hostSide, logs, Unhandled, Unserved
<1>4. CASE ReceiveEnd
  BY <1>4, ReceiveEndMaps DEF Link!Next
<1>5. CASE PushMessage \/ PushFails
  BY <1>5, PushMessageMaps, PushFailsMaps DEF Link!Next
<1>6. CASE PushRefused
  BY <1>6, PushRefusedMaps DEF Link!Next
<1>7. CASE Handle
  <2>1. Activate(screen) \/ UNCHANGED <<wires, logs>>
    BY <1>7 DEF Handle
  <2>2. UNCHANGED <<watchSide, hostSide>>
    BY <1>7 DEF Handle
  <2> QED
    BY <2>1, <2>2, <1>0, ActivateMaps
<1>8. CASE Timers
  <2>1. \E page : Activate(page) \/ UNCHANGED <<wires, logs>>
    BY <1>8 DEF Timers, Touch
  <2>2. UNCHANGED <<watchSide, hostSide>>
    BY <1>8 DEF Timers
  <2> QED
    BY <2>1, <2>2, <1>0, ActivateMaps
<1>9. CASE PollConnect
  BY <1>9, <1>1, <1>2 DEF PollConnect
<1>10. CASE PollReceive
  BY <1>10, <1>1, <1>3, <1>4 DEF PollReceive
<1>11. CASE PollPush
  BY <1>11, <1>1, <1>3, <1>5, <1>6 DEF PollPush
<1>12. CASE PollActivate \/ PollButton
  BY <1>12, <1>1 DEF PollActivate, PollButton
<1> QED
  BY <1>7, <1>8, <1>9, <1>10, <1>11, <1>12 DEF Loop

LEMMA InitMaps == Init => Link!Init
<1> SUFFICES ASSUME Init PROVE Link!Init
  OBVIOUS
<1>1. /\ socket = FALSE /\ serving = FALSE /\ cut = 0 /\ watchError = "" /\ hostError = ""
  BY DEF Init, LinkInit
<1> QED
  BY <1>1 DEF Link!Init, Unhandled, Unserved

\* The link implements its promise.  The byte streams, the two decoders and every
\* place where a read can end come down to two queues of whole frames: a frame is
\* acted on once, in the order of the writing, from a connection that begins with
\* hello and sync_request and nothing old; one that was cut, or came after it, is
\* never acted on; and no side ends the connection over a frame that is legal.
THEOREM LinkKeepsItsPromise == Spec => ImplementsLink
<1>1. Init => Link!Init
  BY InitMaps
<1>2. IInv /\ [Next]_vars => [Link!Next]_(Link!linkVars)
  <2> SUFFICES ASSUME IInv, [Next]_vars PROVE [Link!Next]_(Link!linkVars)
    OBVIOUS
  <2>1. Ends
    BY DEF IInv
  <2>2. CASE UNCHANGED vars
    <3>1. UNCHANGED linkVars
      BY <2>2 DEF vars
    <3> QED
      BY <3>1, LinkStays DEF linkVars, watchSide, hostSide, logs, Unhandled, Unserved
  <2> QED
    BY <2>1, <2>2, LoopMaps, HostMaps, EnvironmentMaps DEF Next
<1> QED
  BY <1>1, <1>2, Invariance, PTL DEF Spec, ImplementsLink, Link!Spec
=============================================================================
