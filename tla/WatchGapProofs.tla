----------------------------- MODULE WatchGapProofs -----------------------------
(***************************************************************************)
(* With the real host a snapshot closes every gap, for every capacity of   *)
(* the buffer and number of presses, losses and restarts; so the watch     *)
(* needs no third sync_request, and what it shows, saves and draws is in   *)
(* step while it synchronizes, too.                                        *)
(*                                                                         *)
(* WatchSystemProofs looks at the messages under way one by one.  Here     *)
(* their order counts: which patch comes before which, and before the      *)
(* snapshot.                                                               *)
(***************************************************************************)
EXTENDS WatchSystemProofs

IsPatch(m, r) == m.type = "patch" /\ m.revision = r

\* After position i, a patch above k + 1 follows the one before it.
NoGap(q, i, k) ==
    \A j \in i + 1 .. Len(q) : q[j].type = "patch" /\ q[j].revision > k + 1 =>
        \E h \in i + 1 .. j - 1 : IsPatch(q[h], q[j].revision - 1)

\* Patch r comes after position i.
Has(q, i, r) == \E h \in i + 1 .. Len(q) : IsPatch(q[h], r)

\* The revisions above v of the first n messages.
Newer(q, n, v) ==
    {q[h].revision : h \in {g \in 1 .. n : q[g].type = "patch" /\ q[g].revision > v}}

Closed(W, k) == \A r \in W : r > k => r - 1 \in W
-----------------------------------------------------------------------------
(* Queues.                                                                 *)

LEMMA PatchRevision ==
    ASSUME NEW m \in Answers, m.type = "patch"
    PROVE  m.revision \in Nat \ {0}
<1>1. m.revision \in 1 .. 4 + MaxActions /\ MaxActions \in Nat
  BY AnswerKinds, SystemAssumption
<1> QED
  BY <1>1

LEMMA QueueIs ==
    ASSUME NEW q \in Seq(Answers)
    PROVE  /\ Len(q) \in Nat /\ \A i \in 1 .. Len(q) : q[i] \in Answers
           /\ \A i \in 1 .. Len(q) : q[i].type = "patch" => q[i].revision \in Nat \ {0}
<1>1. Len(q) \in Nat /\ \A i \in 1 .. Len(q) : q[i] \in Answers
  BY LenProperties, ElementOfSeq
<1> QED
  BY <1>1, PatchRevision

LEMMA TailIs ==
    ASSUME NEW q \in Seq(Answers), q # <<>>
    PROVE  /\ Tail(q) \in Seq(Answers) /\ Head(q) = q[1] /\ Head(q) \in Answers
           /\ Len(q) \in Nat \ {0} /\ Len(Tail(q)) = Len(q) - 1
           /\ \A i \in 1 .. Len(q) - 1 : Tail(q)[i] = q[i + 1]
  BY HeadTailProperties, LenProperties, EmptySeq

LEMMA AppendIs ==
    ASSUME NEW q \in Seq(Answers), NEW m \in Answers
    PROVE  /\ Append(q, m) \in Seq(Answers) /\ Len(q) \in Nat
           /\ Len(Append(q, m)) = Len(q) + 1 /\ Append(q, m)[Len(q) + 1] = m
           /\ \A i \in 1 .. Len(q) : Append(q, m)[i] = q[i]
  BY AppendProperties, LenProperties

LEMMA NoGapTail ==
    ASSUME NEW q \in Seq(Answers), q # <<>>, NEW i \in Nat, NEW k \in Nat, NoGap(q, i + 1, k)
    PROVE  NoGap(Tail(q), i, k)
<1> DEFINE t == Tail(q)
<1>1. /\ Len(q) \in Nat \ {0} /\ Len(t) = Len(q) - 1
      /\ \A j \in 1 .. Len(q) - 1 : t[j] = q[j + 1]
  BY TailIs
<1> HIDE DEF t
<1>2. ASSUME NEW j \in i + 1 .. Len(t), t[j].type = "patch", t[j].revision > k + 1
      PROVE  \E h \in i + 1 .. j - 1 : IsPatch(t[h], t[j].revision - 1)
  <2>1. j + 1 \in i + 1 + 1 .. Len(q) /\ t[j] = q[j + 1]
    BY <1>1
  <2>2. PICK h \in i + 1 + 1 .. j + 1 - 1 : IsPatch(q[h], q[j + 1].revision - 1)
    BY <1>2, <2>1 DEF NoGap
  <2>3. h - 1 \in i + 1 .. j - 1 /\ h - 1 \in 1 .. Len(q) - 1 /\ h - 1 + 1 = h
    BY <1>1, <2>1
  <2>4. t[h - 1] = q[h]
    BY <1>1, <2>3
  <2> QED
    BY <2>1, <2>2, <2>3, <2>4
<1> QED
  BY <1>2 DEF NoGap, t

LEMMA NoGapHead ==
    ASSUME NEW q \in Seq(Answers), q # <<>>, NEW k \in Nat, NEW l \in Nat, k <= l,
           NoGap(q, 0, k), Head(q).type = "patch" => Head(q).revision <= l
    PROVE  NoGap(Tail(q), 0, l)
<1> DEFINE t == Tail(q)
<1>1. /\ Len(q) \in Nat \ {0} /\ Len(t) = Len(q) - 1 /\ Head(q) = q[1]
      /\ \A j \in 1 .. Len(q) - 1 : t[j] = q[j + 1]
  BY TailIs
<1>2. \A j \in 1 .. Len(q) : q[j].type = "patch" => q[j].revision \in Nat \ {0}
  BY QueueIs
<1> HIDE DEF t
<1>3. ASSUME NEW j \in 0 + 1 .. Len(t), t[j].type = "patch", t[j].revision > l + 1
      PROVE  \E h \in 0 + 1 .. j - 1 : IsPatch(t[h], t[j].revision - 1)
  <2>1. j + 1 \in 0 + 1 .. Len(q) /\ j + 1 \in 1 .. Len(q) /\ t[j] = q[j + 1]
    BY <1>1
  <2>2. q[j + 1].revision \in Nat
    BY <1>2, <1>3, <2>1
  <2>3. q[j + 1].revision > k + 1
    BY <1>3, <2>1, <2>2
  <2>4. PICK h \in 0 + 1 .. j + 1 - 1 : IsPatch(q[h], q[j + 1].revision - 1)
    BY <1>3, <2>1, <2>3 DEF NoGap
  <2>5. h # 1
    BY <1>1, <1>3, <2>1, <2>2, <2>4 DEF IsPatch
  <2>6. h - 1 \in 0 + 1 .. j - 1 /\ h - 1 \in 1 .. Len(q) - 1 /\ h - 1 + 1 = h
    BY <1>1, <2>1, <2>5
  <2>7. t[h - 1] = q[h]
    BY <1>1, <2>6
  <2> QED
    BY <2>1, <2>4, <2>6, <2>7
<1> QED
  BY <1>3 DEF NoGap, t

LEMMA NoGapAppend ==
    ASSUME NEW q \in Seq(Answers), NEW m \in Answers, NEW i \in Nat, NEW k \in Nat,
           i <= Len(q), NoGap(q, i, k),
           m.type = "patch" => m.revision <= k + 1 \/ Has(q, i, m.revision - 1)
    PROVE  NoGap(Append(q, m), i, k)
<1> DEFINE a == Append(q, m)
           n == Len(q)
<1>1. /\ n \in Nat /\ Len(a) = n + 1 /\ a[n + 1] = m
      /\ \A j \in 1 .. n : a[j] = q[j]
  BY AppendIs
<1>2. m.type = "patch" => m.revision \in Nat
  BY PatchRevision
<1>3. ASSUME NEW j \in i + 1 .. Len(a), a[j].type = "patch", a[j].revision > k + 1
      PROVE  \E h \in i + 1 .. j - 1 : IsPatch(a[h], a[j].revision - 1)
  <2> HIDE DEF a
  <2>1. CASE j <= n
    <3>1. j \in i + 1 .. n /\ j \in 1 .. n /\ a[j] = q[j]
      BY <2>1, <1>1
    <3>2. PICK h \in i + 1 .. j - 1 : IsPatch(q[h], q[j].revision - 1)
      BY <1>3, <3>1 DEF NoGap
    <3>3. h \in 1 .. n
      BY <3>1
    <3> QED
      BY <1>1, <3>1, <3>2, <3>3
  <2>2. CASE ~(j <= n)
    <3>1. j = n + 1
      BY <2>2, <1>1
    <3>2. a[j] = m
      BY <3>1, <1>1
    <3>3. Has(q, i, m.revision - 1)
      BY <1>2, <1>3, <3>2
    <3>4. PICK h \in i + 1 .. n : IsPatch(q[h], m.revision - 1)
      BY <3>3 DEF Has
    <3>5. h \in 1 .. n /\ h \in i + 1 .. j - 1
      BY <3>1, <1>1
    <3>6. a[h] = q[h]
      BY <1>1, <3>5
    <3> QED
      BY <3>2, <3>4, <3>5, <3>6
  <2> QED
    BY <2>1, <2>2
<1> QED
  BY <1>3 DEF NoGap

LEMMA HasTail ==
    ASSUME NEW q \in Seq(Answers), q # <<>>, NEW i \in Nat, NEW r
    PROVE  /\ Has(q, i + 1, r) => Has(Tail(q), i, r)
           /\ Has(q, 0, r) => IsPatch(Head(q), r) \/ Has(Tail(q), 0, r)
<1> DEFINE t == Tail(q)
<1>1. /\ Len(q) \in Nat \ {0} /\ Len(t) = Len(q) - 1 /\ Head(q) = q[1]
      /\ \A j \in 1 .. Len(q) - 1 : t[j] = q[j + 1]
  BY TailIs
<1> HIDE DEF t
<1>2. ASSUME Has(q, i + 1, r) PROVE Has(t, i, r)
  <2>1. PICK h \in i + 1 + 1 .. Len(q) : IsPatch(q[h], r)
    BY <1>2 DEF Has
  <2>2. h - 1 \in i + 1 .. Len(t) /\ h - 1 \in 1 .. Len(q) - 1 /\ h - 1 + 1 = h
    BY <1>1
  <2>3. t[h - 1] = q[h]
    BY <1>1, <2>2
  <2> QED
    BY <2>1, <2>2, <2>3 DEF Has
<1>3. ASSUME Has(q, 0, r), ~IsPatch(Head(q), r) PROVE Has(t, 0, r)
  <2>1. PICK h \in 0 + 1 .. Len(q) : IsPatch(q[h], r)
    BY <1>3 DEF Has
  <2>2. h # 1
    BY <1>1, <1>3, <2>1
  <2>3. h - 1 \in 0 + 1 .. Len(t) /\ h - 1 \in 1 .. Len(q) - 1 /\ h - 1 + 1 = h
    BY <1>1, <2>2
  <2>4. t[h - 1] = q[h]
    BY <1>1, <2>3
  <2> QED
    BY <2>1, <2>3, <2>4 DEF Has
<1> QED
  BY <1>2, <1>3 DEF t

LEMMA HasAppend ==
    ASSUME NEW q \in Seq(Answers), NEW m \in Answers, NEW i \in Nat, i <= Len(q), NEW r
    PROVE  /\ Has(q, i, r) => Has(Append(q, m), i, r)
           /\ IsPatch(m, r) => Has(Append(q, m), i, r)
<1> DEFINE a == Append(q, m)
           n == Len(q)
<1>1. /\ n \in Nat /\ Len(a) = n + 1 /\ a[n + 1] = m
      /\ \A j \in 1 .. n : a[j] = q[j]
  BY AppendIs
<1> HIDE DEF a
<1>2. ASSUME Has(q, i, r) PROVE Has(a, i, r)
  <2>1. PICK h \in i + 1 .. n : IsPatch(q[h], r)
    BY <1>2 DEF Has
  <2>2. h \in i + 1 .. Len(a) /\ h \in 1 .. n
    BY <1>1
  <2>3. a[h] = q[h]
    BY <1>1, <2>2
  <2> QED
    BY <2>1, <2>2, <2>3 DEF Has
<1>3. ASSUME IsPatch(m, r) PROVE Has(a, i, r)
  <2>1. n + 1 \in i + 1 .. Len(a)
    BY <1>1
  <2> QED
    BY <1>1, <1>3, <2>1 DEF Has
<1> QED
  BY <1>2, <1>3 DEF a

LEMMA NewerTail ==
    ASSUME NEW q \in Seq(Answers), q # <<>>, NEW n \in Nat, n < Len(q), NEW v
    PROVE  Newer(q, n + 1, v)
              = Newer(Tail(q), n, v)
                \cup {r \in {Head(q).revision} : Head(q).type = "patch" /\ r > v}
<1> DEFINE t == Tail(q)
           A == {g \in 1 .. n + 1 : q[g].type = "patch" /\ q[g].revision > v}
           B == {g \in 1 .. n : t[g].type = "patch" /\ t[g].revision > v}
           H == {r \in {Head(q).revision} : Head(q).type = "patch" /\ r > v}
<1>1. /\ Len(q) \in Nat \ {0} /\ Len(t) = Len(q) - 1 /\ Head(q) = q[1]
      /\ \A j \in 1 .. Len(q) - 1 : t[j] = q[j + 1]
  BY TailIs
<1> HIDE DEF t
<1>2. \A j \in 1 .. n : j + 1 \in 1 .. n + 1 /\ t[j] = q[j + 1]
  BY <1>1
<1>3. \A j \in 1 .. n + 1 : j = 1 \/ (j - 1 \in 1 .. n /\ t[j - 1] = q[j])
  <2> SUFFICES ASSUME NEW j \in 1 .. n + 1, j # 1 PROVE j - 1 \in 1 .. n /\ t[j - 1] = q[j]
    OBVIOUS
  <2>1. j - 1 \in 1 .. n /\ j - 1 + 1 = j
    OBVIOUS
  <2> QED
    BY <2>1, <1>2
<1>4. ASSUME NEW g \in A PROVE q[g].revision \in {t[h].revision : h \in B} \cup H
  <2>1. CASE g = 1
    BY <2>1, <1>1, <1>4
  <2>2. CASE g # 1
    <3>1. g - 1 \in 1 .. n /\ t[g - 1] = q[g]
      BY <2>2, <1>3, <1>4
    <3>2. g - 1 \in B
      BY <3>1, <1>4
    <3> QED
      BY <3>1, <3>2
  <2> QED
    BY <2>1, <2>2
<1>5. ASSUME NEW g \in B PROVE t[g].revision \in {q[h].revision : h \in A}
  <2>1. g + 1 \in A
    BY <1>2, <1>5
  <2> QED
    BY <2>1, <1>2, <1>5
<1>6. H \subseteq {q[h].revision : h \in A}
  <2>1. 1 \in 1 .. n + 1
    OBVIOUS
  <2> QED
    BY <2>1, <1>1
<1> HIDE DEF A, B, H
<1>7. {q[h].revision : h \in A} = {t[h].revision : h \in B} \cup H
  BY <1>4, <1>5, <1>6
<1> QED
  BY <1>7 DEF Newer, A, B, H, t

LEMMA NewerAppend ==
    ASSUME NEW q \in Seq(Answers), NEW m \in Answers, NEW v
    PROVE  /\ \A n \in 0 .. Len(q) : Newer(Append(q, m), n, v) = Newer(q, n, v)
           /\ Newer(Append(q, m), Len(q) + 1, v)
                 = Newer(q, Len(q), v)
                   \cup {r \in {m.revision} : m.type = "patch" /\ r > v}
<1> DEFINE a == Append(q, m)
           A(n) == {g \in 1 .. n : a[g].type = "patch" /\ a[g].revision > v}
           B(n) == {g \in 1 .. n : q[g].type = "patch" /\ q[g].revision > v}
           M == {r \in {m.revision} : m.type = "patch" /\ r > v}
<1>1. /\ Len(q) \in Nat /\ Len(a) = Len(q) + 1 /\ a[Len(q) + 1] = m
      /\ \A j \in 1 .. Len(q) : a[j] = q[j]
  BY AppendIs
<1> HIDE DEF a
<1>2. ASSUME NEW n \in 0 .. Len(q)
      PROVE  A(n) = B(n) /\ \A g \in A(n) : a[g] = q[g]
  <2>1. \A g \in 1 .. n : g \in 1 .. Len(q)
    BY <1>1
  <2> QED
    BY <2>1, <1>1
<1>3. \A n \in 0 .. Len(q) : Newer(a, n, v) = Newer(q, n, v)
  <2> SUFFICES ASSUME NEW n \in 0 .. Len(q) PROVE Newer(a, n, v) = Newer(q, n, v)
    OBVIOUS
  <2>1. A(n) = B(n) /\ \A g \in A(n) : a[g] = q[g]
    BY <1>2
  <2>2. Newer(a, n, v) = {a[h].revision : h \in A(n)} /\ Newer(q, n, v) = {q[h].revision : h \in B(n)}
    BY DEF Newer
  <2> HIDE DEF A, B
  <2> QED
    BY <2>1, <2>2
<1>4. Newer(a, Len(q) + 1, v) = Newer(q, Len(q), v) \cup M
  <2> DEFINE l == Len(q)
             Al == A(l + 1)
             Bl == B(l)
  <2>1. \A g \in 1 .. l + 1 : g = l + 1 \/ g \in 1 .. l
    BY <1>1
  <2>2. \A g \in Al : a[g].revision \in {q[h].revision : h \in Bl} \cup M
    BY <2>1, <1>1
  <2>3. \A g \in Bl : g \in Al /\ a[g] = q[g]
    BY <1>1
  <2>4. M \subseteq {a[h].revision : h \in Al}
    <3>1. l + 1 \in 1 .. l + 1
      BY <1>1
    <3> QED
      BY <3>1, <1>1
  <2>5. Newer(a, l + 1, v) = {a[h].revision : h \in Al} /\ Newer(q, l, v) = {q[h].revision : h \in Bl}
    BY DEF Newer
  <2> HIDE DEF Al, Bl, M
  <2> QED
    BY <2>2, <2>3, <2>4, <2>5
<1> QED
  BY <1>3, <1>4 DEF a

LEMMA CountTailOther ==
    ASSUME NEW S, NEW q \in Seq(S), q # <<>>, NEW type, Head(q).type # type
    PROVE  Count(Tail(q), type) = Count(q, type)
<1>1. Count(q, type) \in Nat
  BY CountIsNat
<1>2. Count(Tail(q), type) = Count(q, type) - 0
  BY CountTail
<1> QED
  BY <1>1, <1>2

LEMMA NewerIs ==
    ASSUME NEW q \in Seq(Answers), NEW v, NEW r
    PROVE  r \in Newer(q, Len(q), v) <=> Has(q, 0, r) /\ r > v
  BY DEF Newer, Has, IsPatch
-----------------------------------------------------------------------------
(* The invariant of gaps.                                                  *)

\* The patches in the queue follow v; when v is 0, patch 1 may be missing, for a
\* watch that kept a revision has passed over it.
Follows(q, v) == NoGap(q, 0, IF v = 0 THEN 1 ELSE v)

\* When the snapshot at position i comes, what is buffered by then (B and what the
\* queue brings) has no gap above 1, and neither have the patches behind it.
Closes(q, i, B, v) == Closed(B \cup Newer(q, i - 1, v), 1) /\ NoGap(q, i, 1)

\* What is kept while a snapshot is asked for: nothing on a new connection, and
\* otherwise a run that ends at the host's revision and begins at 1 or 2.
Awaits(K, r, v) == (r = 0 /\ K = {}) \/ (v = 0 /\ r \in K /\ Closed(K, 2))

ClosedIsIdle == link = "closed" => ~syncing

AtMostOneSnapshot ==
    link # "closed" => Count(toWatch, "snapshot") <= (IF syncing THEN 1 ELSE 0)

InStep ==
    link # "closed" /\ ~syncing =>
        /\ Follows(toWatch, revision)
        /\ link = "open" => hostRevision <= revision \/ Has(toWatch, 0, hostRevision)

SnapshotComing ==
    link # "closed" /\ syncing =>
        \A i \in 1 .. Len(toWatch) : toWatch[i].type = "snapshot" =>
            /\ Closes(toWatch, i, Sync!BufferedRevisions, revision)
            /\ link = "open" => Has(toWatch, i, hostRevision)

SnapshotAsked ==
    link = "open" /\ syncing /\ Count(toWatch, "snapshot") = 0 =>
        Awaits(Sync!BufferedRevisions \cup Newer(toWatch, Len(toWatch), revision),
               hostRevision, revision)

GapInv == ClosedIsIdle /\ AtMostOneSnapshot /\ InStep /\ SnapshotComing /\ SnapshotAsked
-----------------------------------------------------------------------------
(* The first message is taken, or a message is added.                      *)

LEMMA FollowsTail ==
    ASSUME NEW q \in Seq(Answers), q # <<>>, NEW v \in Nat, NEW w \in Nat, v <= w,
           Follows(q, v), Head(q).type = "patch" => Head(q).revision <= w,
           NEW r \in Nat, r <= v \/ Has(q, 0, r)
    PROVE  Follows(Tail(q), w) /\ (r <= w \/ Has(Tail(q), 0, r))
<1> DEFINE k == IF v = 0 THEN 1 ELSE v
           l == IF w = 0 THEN 1 ELSE w
<1>1. k \in Nat /\ l \in Nat /\ k <= l /\ w <= l
  OBVIOUS
<1>2. Head(q).type = "patch" => Head(q).revision <= l
  <2> SUFFICES ASSUME Head(q).type = "patch" PROVE Head(q).revision <= l
    OBVIOUS
  <2>1. Head(q).revision \in Nat
    BY TailIs, PatchRevision
  <2> QED
    BY <1>1, <2>1
<1>3. NoGap(q, 0, k)
  BY DEF Follows
<1> HIDE DEF k, l
<1>4. NoGap(Tail(q), 0, l)
  BY <1>1, <1>2, <1>3, NoGapHead
<1>5. r <= w \/ Has(Tail(q), 0, r)
  <2>1. CASE r <= v
    BY <2>1
  <2>2. CASE Has(q, 0, r)
    BY <2>2, HasTail DEF IsPatch
  <2> QED
    BY <2>1, <2>2
<1> QED
  BY <1>4, <1>5 DEF Follows, l

\* A message the watch ignores, or one it buffers.
LEMMA ClosesTail ==
    ASSUME NEW q \in Seq(Answers), q # <<>>, NEW B, NEW v, NEW i \in 1 .. Len(Tail(q)),
           Closes(q, i + 1, B, v)
    PROVE  Closes(Tail(q), i, B \cup {r \in {Head(q).revision} : Head(q).type = "patch" /\ r > v}, v)
<1> DEFINE H == {r \in {Head(q).revision} : Head(q).type = "patch" /\ r > v}
<1>1. i - 1 \in Nat /\ i - 1 < Len(q) /\ i \in Nat /\ i - 1 + 1 = i /\ i + 1 - 1 = i
  BY TailIs
<1>2. Newer(q, i, v) = Newer(Tail(q), i - 1, v) \cup H
  BY <1>1, NewerTail
<1>3. NoGap(Tail(q), i, 1)
  BY <1>1, NoGapTail DEF Closes
<1>4. Closed(B \cup Newer(q, i, v), 1)
  BY <1>1 DEF Closes
<1> HIDE DEF H
<1>5. B \cup Newer(q, i, v) = (B \cup H) \cup Newer(Tail(q), i - 1, v)
  BY <1>2
<1>6. Closed((B \cup H) \cup Newer(Tail(q), i - 1, v), 1)
  BY <1>4, <1>5
<1> QED
  BY <1>3, <1>6 DEF Closes, H

LEMMA AwaitedTail ==
    ASSUME NEW q \in Seq(Answers), q # <<>>, NEW B, NEW v
    PROVE  B \cup Newer(q, Len(q), v)
              = (B \cup {r \in {Head(q).revision} : Head(q).type = "patch" /\ r > v})
                \cup Newer(Tail(q), Len(Tail(q)), v)
<1> DEFINE H == {r \in {Head(q).revision} : Head(q).type = "patch" /\ r > v}
           n == Len(q) - 1
<1>1. n \in Nat /\ n < Len(q) /\ n + 1 = Len(q) /\ Len(Tail(q)) = n
  BY TailIs
<1>2. Newer(q, n + 1, v) = Newer(Tail(q), n, v) \cup H
  BY <1>1, NewerTail
<1> HIDE DEF H, n
<1> QED
  BY <1>1, <1>2 DEF H

LEMMA ClosesAppend ==
    ASSUME NEW q \in Seq(Answers), NEW m \in Answers, NEW B, NEW v, NEW i \in 1 .. Len(q),
           Closes(q, i, B, v),
           m.type = "patch" => m.revision <= 2 \/ Has(q, i, m.revision - 1)
    PROVE  Closes(Append(q, m), i, B, v)
<1>1. i - 1 \in 0 .. Len(q) /\ i \in Nat /\ i <= Len(q)
  BY AppendIs
<1>2. Newer(Append(q, m), i - 1, v) = Newer(q, i - 1, v)
  BY <1>1, NewerAppend
<1>3. m.type = "patch" => m.revision <= 1 + 1 \/ Has(q, i, m.revision - 1)
  OBVIOUS
<1>4. NoGap(Append(q, m), i, 1)
  BY <1>1, <1>3, NoGapAppend DEF Closes
<1> QED
  BY <1>2, <1>4 DEF Closes

LEMMA FollowsAppend ==
    ASSUME NEW q \in Seq(Answers), NEW m \in Answers, NEW v \in Nat, Follows(q, v),
           m.type = "patch" => m.revision - 1 <= v \/ Has(q, 0, m.revision - 1)
    PROVE  Follows(Append(q, m), v)
<1> DEFINE k == IF v = 0 THEN 1 ELSE v
<1>1. k \in Nat /\ v <= k /\ 0 <= Len(q) /\ NoGap(q, 0, k)
  BY LenProperties DEF Follows
<1>2. m.type = "patch" => m.revision <= k + 1 \/ Has(q, 0, m.revision - 1)
  <2> SUFFICES ASSUME m.type = "patch", m.revision - 1 <= v PROVE m.revision <= k + 1
    OBVIOUS
  <2>1. m.revision \in Nat
    BY PatchRevision
  <2> HIDE DEF k
  <2> QED
    BY <1>1, <2>1
<1> HIDE DEF k
<1>3. NoGap(Append(q, m), 0, k)
  BY <1>1, <1>2, NoGapAppend
<1> QED
  BY <1>3 DEF Follows, k
-----------------------------------------------------------------------------
(* The steps that touch no queue, and those that end the connection.       *)

\* The socket may turn out to be broken; nothing else of the invariant changes.
LEMMA QuietKeepsGapInv ==
    ASSUME GapInv, link' = link \/ (link = "open" /\ link' = "broken"),
           UNCHANGED <<toWatch, hostRevision, revision, syncing, buffered>>
    PROVE  GapInv'
<1>1. Sync!BufferedRevisions' = Sync!BufferedRevisions
  BY DEF Sync!BufferedRevisions
<1>2. ClosedIsIdle' /\ AtMostOneSnapshot' /\ InStep'
  BY DEF GapInv, ClosedIsIdle, AtMostOneSnapshot, InStep
<1>3. SnapshotComing'
  BY <1>1 DEF GapInv, SnapshotComing
<1>4. SnapshotAsked'
  BY <1>1 DEF GapInv, SnapshotAsked
<1> QED
  BY <1>2, <1>3, <1>4 DEF GapInv

LEMMA ClosedKeepsGapInv ==
    ASSUME link' = "closed", syncing' = FALSE
    PROVE  GapInv'
  BY
     DEF GapInv, ClosedIsIdle, AtMostOneSnapshot, InStep, SnapshotComing, SnapshotAsked

LEMMA ConnectKeepsGapInv ==
    ASSUME IInv, GapInv, Connect
    PROVE  GapInv'
<1>1. /\ link = "closed" /\ toWatch' = <<>> /\ hostRevision' = 0 /\ syncing' = TRUE
      /\ buffered' = buffered
  BY DEF Connect
<1>2. buffered = {}
  BY <1>1 DEF GapInv, ClosedIsIdle, IInv, WatchInv, BufferIsBounded
<1>3. Len(toWatch') = 0 /\ Count(toWatch', "snapshot") = 0
  BY <1>1, EmptyQueue
<1>4. Sync!BufferedRevisions' = {}
  BY <1>1, <1>2 DEF Sync!BufferedRevisions
<1>5. Newer(toWatch', Len(toWatch'), revision') = {}
  <2>1. 1 .. Len(toWatch') = {}
    BY <1>3
  <2> QED
    BY <2>1 DEF Newer
<1>6. SnapshotAsked'
  BY <1>1, <1>4, <1>5 DEF SnapshotAsked, Awaits
<1>7. SnapshotComing'
  BY <1>3 DEF SnapshotComing
<1>8. ClosedIsIdle' /\ AtMostOneSnapshot' /\ InStep'
  BY <1>1, <1>3 DEF ClosedIsIdle, AtMostOneSnapshot, InStep, Connect
<1> QED
  BY <1>6, <1>7, <1>8 DEF GapInv
-----------------------------------------------------------------------------
(* The watch takes a message that ends no synchronization and begins none. *)

\* While it synchronizes: the message is ignored, or its revision is kept.
LEMMA TakenWhileSyncing ==
    ASSUME IInv, GapInv, toWatch # <<>>, Head(toWatch).type # "snapshot", syncing,
           toWatch' = Tail(toWatch), UNCHANGED <<link, hostRevision, revision, syncing>>,
           Sync!BufferedRevisions' = Sync!BufferedRevisions \cup
               {r \in {Head(toWatch).revision} : Head(toWatch).type = "patch" /\ r > revision}
    PROVE  GapInv'
<1> DEFINE H == {r \in {Head(toWatch).revision} : Head(toWatch).type = "patch" /\ r > revision}
           B == Sync!BufferedRevisions
<1>1. toWatch \in Seq(Answers)
  BY Numbers
<1>2. /\ Len(toWatch) \in Nat \ {0} /\ Len(Tail(toWatch)) = Len(toWatch) - 1
      /\ \A i \in 1 .. Len(toWatch) - 1 : Tail(toWatch)[i] = toWatch[i + 1]
  BY <1>1, TailIs
<1>3. Count(toWatch', "snapshot") = Count(toWatch, "snapshot")
  BY <1>1, CountTailOther
<1>4. ClosedIsIdle' /\ AtMostOneSnapshot' /\ InStep'
  BY <1>3 DEF GapInv, ClosedIsIdle, AtMostOneSnapshot, InStep
<1>5. SnapshotComing'
  <2> SUFFICES ASSUME link # "closed", NEW i \in 1 .. Len(Tail(toWatch)),
                      Tail(toWatch)[i].type = "snapshot"
               PROVE  /\ Closes(Tail(toWatch), i, B \cup H, revision)
                      /\ link = "open" => Has(Tail(toWatch), i, hostRevision)
    BY DEF SnapshotComing
  <2> HIDE DEF B, H
  <2>1. i \in 1 .. Len(toWatch) - 1 /\ i + 1 \in 1 .. Len(toWatch) /\ i \in Nat
    BY <1>2
  <2>2. toWatch[i + 1].type = "snapshot"
    BY <1>2, <2>1
  <2>3. /\ Closes(toWatch, i + 1, B, revision)
        /\ link = "open" => Has(toWatch, i + 1, hostRevision)
    BY <2>1, <2>2 DEF GapInv, SnapshotComing, B
  <2>4. Closes(Tail(toWatch), i, B \cup H, revision)
    BY <1>1, <2>3, ClosesTail DEF H
  <2>5. link = "open" => Has(Tail(toWatch), i, hostRevision)
    BY <1>1, <2>1, <2>3, HasTail
  <2> QED
    BY <2>4, <2>5
<1>6. SnapshotAsked'
  <2> SUFFICES ASSUME link = "open", Count(toWatch, "snapshot") = 0
               PROVE  Awaits((B \cup H) \cup Newer(Tail(toWatch), Len(Tail(toWatch)), revision),
                             hostRevision, revision)
    BY <1>3 DEF SnapshotAsked
  <2>1. B \cup Newer(toWatch, Len(toWatch), revision)
           = (B \cup H) \cup Newer(Tail(toWatch), Len(Tail(toWatch)), revision)
    BY <1>1, AwaitedTail
  <2>2. Awaits(B \cup Newer(toWatch, Len(toWatch), revision), hostRevision, revision)
    BY DEF GapInv, SnapshotAsked
  <2> HIDE DEF B, H
  <2> QED
    BY <2>1, <2>2
<1> QED
  BY <1>4, <1>5, <1>6 DEF GapInv

\* While it does not: the watch's revision reaches that of the message.
LEMMA TakenInStep ==
    ASSUME IInv, GapInv, link # "closed", toWatch # <<>>, Head(toWatch).type # "snapshot", ~syncing,
           toWatch' = Tail(toWatch), UNCHANGED <<link, hostRevision, syncing>>,
           revision' \in Nat, revision <= revision',
           Head(toWatch).type = "patch" => Head(toWatch).revision <= revision'
    PROVE  GapInv'
<1>1. toWatch \in Seq(Answers) /\ hostRevision \in Nat /\ revision \in Nat
  BY Numbers
<1>2. Count(toWatch', "snapshot") = Count(toWatch, "snapshot")
  BY <1>1, CountTailOther
<1>3. Follows(toWatch, revision)
      /\ (link = "open" => hostRevision <= revision \/ Has(toWatch, 0, hostRevision))
  BY DEF GapInv, InStep
<1>4. Follows(toWatch', revision')
  <2>1. 0 \in Nat /\ 0 <= revision
    BY <1>1
  <2> QED
    BY <1>1, <1>3, <2>1, FollowsTail
<1>5. link = "open" => hostRevision <= revision' \/ Has(toWatch', 0, hostRevision)
  BY <1>1, <1>3, FollowsTail
<1>6. ClosedIsIdle' /\ AtMostOneSnapshot' /\ SnapshotComing' /\ SnapshotAsked'
  BY <1>2 DEF GapInv, ClosedIsIdle, AtMostOneSnapshot, SnapshotComing, SnapshotAsked
<1>7. InStep'
  BY <1>4, <1>5 DEF InStep
<1> QED
  BY <1>6, <1>7 DEF GapInv
-----------------------------------------------------------------------------
(* What the host writes.                                                   *)

\* A message that is no snapshot moves none.
LEMMA SnapshotStaysPut ==
    ASSUME NEW q \in Seq(Answers), NEW m \in Answers, m.type # "snapshot",
           NEW i \in 1 .. Len(Append(q, m)), Append(q, m)[i].type = "snapshot"
    PROVE  i \in 1 .. Len(q) /\ q[i].type = "snapshot"
<1>1. /\ Len(q) \in Nat /\ Len(Append(q, m)) = Len(q) + 1 /\ Append(q, m)[Len(q) + 1] = m
      /\ \A j \in 1 .. Len(q) : Append(q, m)[j] = q[j]
  BY AppendIs
<1>2. i # Len(q) + 1
  BY <1>1
<1>3. i \in 1 .. Len(q)
  BY <1>1, <1>2
<1> QED
  BY <1>1, <1>3

\* The host's message m at the end of the queue, its revision now r: a result, or
\* the patch of an action.
LEMMA AnswerAdded ==
    ASSUME NEW q \in Seq(Answers), NEW m \in Answers, m.type # "snapshot", NEW r \in Nat \ {0},
           NEW B, NEW v \in Nat, NEW s \in Nat,
           (m.type # "patch" /\ s = r) \/ (IsPatch(m, s) /\ s = r + 1)
    PROVE  /\ Follows(q, v) /\ (r <= v \/ Has(q, 0, r)) =>
                Follows(Append(q, m), v) /\ (s <= v \/ Has(Append(q, m), 0, s))
           /\ \A i \in 1 .. Len(q) : Closes(q, i, B, v) /\ Has(q, i, r) =>
                Closes(Append(q, m), i, B, v) /\ Has(Append(q, m), i, s)
           /\ Awaits(B \cup Newer(q, Len(q), v), r, v) =>
                Awaits(B \cup Newer(Append(q, m), Len(Append(q, m)), v), s, v)
<1> DEFINE a == Append(q, m)
<1>1. /\ Len(q) \in Nat /\ Len(a) = Len(q) + 1 /\ a \in Seq(Answers)
      /\ m.type = "patch" => m.revision = s /\ m.revision - 1 = r /\ s = r + 1
  BY AppendIs DEF IsPatch
<1>2. ASSUME NEW i \in Nat, i <= Len(q), Has(q, i, r)
      PROVE  Has(a, i, s)
  BY <1>2, HasAppend
<1>3. ASSUME Follows(q, v), r <= v \/ Has(q, 0, r)
      PROVE  Follows(a, v) /\ (s <= v \/ Has(a, 0, s))
  <2>1. Follows(a, v)
    BY <1>1, <1>3, FollowsAppend
  <2>2. 0 \in Nat /\ 0 <= Len(q)
    BY <1>1
  <2>3. s <= v \/ Has(a, 0, s)
    <3>1. CASE m.type = "patch"
      BY <3>1, <2>2, HasAppend DEF IsPatch
    <3>2. CASE m.type # "patch"
      BY <3>2, <1>1, <1>2, <1>3, <2>2 DEF IsPatch
    <3> QED
      BY <3>1, <3>2
  <2> QED
    BY <2>1, <2>3
<1>4. ASSUME NEW i \in 1 .. Len(q), Closes(q, i, B, v), Has(q, i, r)
      PROVE  Closes(a, i, B, v) /\ Has(a, i, s)
  <2>1. i \in Nat /\ i <= Len(q)
    BY <1>1
  <2>2. Has(a, i, s)
    BY <1>2, <1>4, <2>1
  <2>3. Closes(a, i, B, v)
    BY <1>1, <1>4, ClosesAppend
  <2> QED
    BY <2>2, <2>3
<1>5. ASSUME Awaits(B \cup Newer(q, Len(q), v), r, v)
      PROVE  Awaits(B \cup Newer(a, Len(a), v), s, v)
  <2> DEFINE K == B \cup Newer(q, Len(q), v)
             M == {x \in {m.revision} : m.type = "patch" /\ x > v}
  <2>1. v = 0 /\ r \in K /\ Closed(K, 2)
    BY <1>5 DEF Awaits
  <2>2. Newer(a, Len(a), v) = Newer(q, Len(q), v) \cup M
    <3>1. Newer(a, Len(q) + 1, v) = Newer(q, Len(q), v) \cup M
      BY NewerAppend
    <3> HIDE DEF a, M
    <3> QED
      BY <1>1, <3>1
  <2>3. CASE m.type = "patch"
    <3>1. M = {s}
      BY <2>1, <2>3, <1>1
    <3> HIDE DEF M
    <3>2. B \cup Newer(a, Len(a), v) = K \cup {s}
      BY <2>2, <3>1
    <3>3. s - 1 = r
      BY <1>1, <2>3
    <3> HIDE DEF K
    <3>4. Closed(K \cup {s}, 2)
      BY <2>1, <3>3 DEF Closed
    <3> QED
      BY <2>1, <3>2, <3>4 DEF Awaits
  <2>4. CASE m.type # "patch"
    <3>1. M = {} /\ s = r
      BY <2>4 DEF IsPatch
    <3> HIDE DEF M
    <3>2. B \cup Newer(a, Len(a), v) = K
      BY <2>2, <3>1
    <3> QED
      BY <2>1, <3>1, <3>2 DEF Awaits
  <2> QED
    BY <2>3, <2>4
<1> QED
  BY <1>3, <1>4, <1>5

\* The same for every snapshot of the queue.
LEMMA AnswerBehindSnapshots ==
    ASSUME NEW q \in Seq(Answers), NEW m \in Answers, m.type # "snapshot",
           NEW r \in Nat \ {0}, NEW s \in Nat,
           (m.type # "patch" /\ s = r) \/ (IsPatch(m, s) /\ s = r + 1),
           NEW B, NEW v \in Nat
    PROVE  /\ (\A i \in 1 .. Len(q) : q[i].type = "snapshot" =>
                 Closes(q, i, B, v) /\ Has(q, i, r))
              => \A i \in 1 .. Len(Append(q, m)) : Append(q, m)[i].type = "snapshot" =>
                   Closes(Append(q, m), i, B, v) /\ Has(Append(q, m), i, s)
           /\ Count(Append(q, m), "snapshot") = Count(q, "snapshot")
<1>1. ASSUME \A i \in 1 .. Len(q) : q[i].type = "snapshot" => Closes(q, i, B, v) /\ Has(q, i, r),
             NEW i \in 1 .. Len(Append(q, m)), Append(q, m)[i].type = "snapshot"
      PROVE  Closes(Append(q, m), i, B, v) /\ Has(Append(q, m), i, s)
  <2>1. i \in 1 .. Len(q) /\ q[i].type = "snapshot"
    BY <1>1, SnapshotStaysPut
  <2> QED
    BY <1>1, <2>1, AnswerAdded
<1>2. Count(Append(q, m), "snapshot") = Count(q, "snapshot")
  BY CountAppendOther
<1> QED
  BY <1>1, <1>2

LEMMA HostAnswersKeepsGapInv ==
    ASSUME IInv, GapInv, HostAnswers
    PROVE  GapInv'
<1> DEFINE action == Head(toHost)
           B == Sync!BufferedRevisions
           result == Result(action.id, ~rejecting)
           patch == Patch(hostRevision + 1, "playing", action.value)
<1>1. /\ toHost # <<>> /\ action.type = "action" /\ link = "open" /\ link' = "open"
      /\ UNCHANGED <<revision, syncing, buffered>>
      /\ \/ toWatch' = Append(toWatch, Result(action.id, FALSE)) /\ rejecting
            /\ hostRevision' = hostRevision
         \/ toWatch' = toWatch \o <<Result(action.id, TRUE), patch>> /\ ~rejecting
            /\ hostRevision' = hostRevision + 1
  BY DEF HostAnswers, syncVars
<1>2. toWatch \in Seq(Answers) /\ hostRevision \in Nat /\ revision \in Nat /\ rejecting \in BOOLEAN
  BY Numbers, TypeParts DEF IInv, HostTyped
<1>3. /\ action.id \in 1 .. MaxActions /\ action.value \in {"on", "off"}
      /\ hostRevision >= 4 /\ hostRevision + 1 \in 1 .. 4 + MaxActions
  BY <1>1, HeadIsAction
<1> HIDE DEF action
<1>4. /\ result \in Answers /\ result.type = "result"
      /\ patch \in Answers /\ IsPatch(patch, hostRevision + 1)
  <2>1. "playing" \in Leaves /\ action.value \in LeafValues
    BY <1>3 DEF Leaves, LeafValues
  <2>2. result \in Answers /\ result.type = "result"
    BY <1>2, <1>3, FramesAreTyped
  <2>3. patch \in Answers /\ patch.type = "patch" /\ patch.revision = hostRevision + 1
    BY <1>3, <2>1, FramesAreTyped
  <2> QED
    BY <2>2, <2>3 DEF IsPatch
<1>5. \/ toWatch' = Append(toWatch, result) /\ hostRevision' = hostRevision
      \/ toWatch' = Append(Append(toWatch, result), patch) /\ hostRevision' = hostRevision + 1
  <2>1. CASE rejecting
    BY <1>1, <2>1
  <2>2. CASE ~rejecting
    <3>1. toWatch \o <<result, patch>> = Append(Append(toWatch, result), patch)
      BY <1>2, <1>4, TwoAppends
    <3> QED
      BY <1>1, <2>2, <3>1
  <2> QED
    BY <2>1, <2>2
<1> HIDE DEF result, patch
<1> DEFINE q1 == Append(toWatch, result)
           q2 == Append(q1, patch)
           Fits(q, r) ==
             /\ Count(q, "snapshot") = Count(toWatch, "snapshot")
             /\ ~syncing => Follows(q, revision) /\ (r <= revision \/ Has(q, 0, r))
             /\ syncing => \A i \in 1 .. Len(q) : q[i].type = "snapshot" =>
                             Closes(q, i, B, revision) /\ Has(q, i, r)
             /\ syncing /\ Count(toWatch, "snapshot") = 0 =>
                  Awaits(B \cup Newer(q, Len(q), revision), r, revision)
<1>6. Fits(toWatch, hostRevision)
  BY <1>1 DEF GapInv, InStep, SnapshotComing, SnapshotAsked
<1>7. ASSUME NEW q \in Seq(Answers), NEW m \in Answers, m.type # "snapshot",
             NEW r \in Nat \ {0}, NEW s \in Nat, Fits(q, r),
             (m.type # "patch" /\ s = r) \/ (IsPatch(m, s) /\ s = r + 1)
      PROVE  Fits(Append(q, m), s)
  <2> HIDE DEF B
  <2>1. /\ Follows(q, revision) /\ (r <= revision \/ Has(q, 0, r)) =>
             Follows(Append(q, m), revision) /\ (s <= revision \/ Has(Append(q, m), 0, s))
        /\ Awaits(B \cup Newer(q, Len(q), revision), r, revision) =>
             Awaits(B \cup Newer(Append(q, m), Len(Append(q, m)), revision), s, revision)
    BY <1>2, <1>7, AnswerAdded
  <2>2. /\ (\A i \in 1 .. Len(q) : q[i].type = "snapshot" =>
              Closes(q, i, B, revision) /\ Has(q, i, r))
           => \A i \in 1 .. Len(Append(q, m)) : Append(q, m)[i].type = "snapshot" =>
                Closes(Append(q, m), i, B, revision) /\ Has(Append(q, m), i, s)
        /\ Count(Append(q, m), "snapshot") = Count(q, "snapshot")
    BY <1>2, <1>7, AnswerBehindSnapshots
  <2> QED
    BY <1>7, <2>1, <2>2
<1>8. Fits(q1, hostRevision) /\ q1 \in Seq(Answers)
  <2>1. result.type # "snapshot" /\ result.type # "patch" /\ hostRevision \in Nat \ {0}
    BY <1>2, <1>3, <1>4
  <2>2. q1 \in Seq(Answers)
    BY <1>2, <1>4, AppendIs
  <2> HIDE DEF Fits
  <2> QED
    BY <1>2, <1>4, <1>6, <1>7, <2>1, <2>2
<1>9. Fits(q2, hostRevision + 1)
  <2>1. patch.type # "snapshot" /\ hostRevision \in Nat \ {0} /\ hostRevision + 1 \in Nat
    BY <1>2, <1>3, <1>4 DEF IsPatch
  <2> HIDE DEF Fits, q1
  <2> QED
    BY <1>2, <1>4, <1>7, <1>8, <2>1
<1>10. Fits(toWatch', hostRevision')
  <2> HIDE DEF Fits
  <2> QED
    BY <1>5, <1>8, <1>9
<1>11. Sync!BufferedRevisions' = B
  BY <1>1 DEF Sync!BufferedRevisions
<1> HIDE DEF B
<1>12. ClosedIsIdle' /\ AtMostOneSnapshot' /\ InStep'
  BY <1>1, <1>10 DEF GapInv, ClosedIsIdle, AtMostOneSnapshot, InStep
<1>13. SnapshotComing' /\ SnapshotAsked'
  BY <1>1, <1>10, <1>11 DEF SnapshotComing, SnapshotAsked
<1> QED
  BY <1>12, <1>13 DEF GapInv

LEMMA RevisionsAreNat ==
    ASSUME IInv
    PROVE  \A r \in Sync!BufferedRevisions : r \in Nat \ {0}
<1>1. \A b \in buffered : b.revision \in 1 .. 4 + MaxActions
  BY DEF IInv, WatchInv, BufferIsBounded
<1>2. MaxActions \in Nat
  BY SystemAssumption
<1> QED
  BY <1>1, <1>2 DEF Sync!BufferedRevisions

\* Patch 1, the snapshot of revision 0, patches 2 to 4.
LEMMA HostSyncsKeepsGapInv ==
    ASSUME IInv, GapInv, HostSyncs
    PROVE  GapInv'
<1> DEFINE B == Sync!BufferedRevisions
           v == revision
           K == B \cup Newer(toWatch, Len(toWatch), v)
           q1 == Append(toWatch, Updates[1])
           q2 == Append(q1, Snapshot)
           q3 == Append(q2, Updates[2])
           q4 == Append(q3, Updates[3])
           q5 == Append(q4, Updates[4])
           n == Len(toWatch)
<1>1. /\ link = "open" /\ link' = "open" /\ toHost # <<>> /\ Head(toHost) = SyncRequest
      /\ toWatch' = toWatch \o <<Updates[1], Snapshot, Updates[2], Updates[3], Updates[4]>>
      /\ hostRevision' = 4
      /\ UNCHANGED <<revision, syncing, buffered>>
  BY DEF HostSyncs, syncVars
<1>2. toHost \in Seq(Requests) /\ toWatch \in Seq(Answers) /\ v \in Nat
  BY Numbers
<1>3. syncing /\ Count(toWatch, "snapshot") = 0
  <2>1. Count(Tail(toHost), "sync") = Count(toHost, "sync") - 1
    BY <1>1, <1>2, FramesAreTyped, CountTail
  <2>2. Count(Tail(toHost), "sync") \in Nat /\ Count(toHost, "sync") \in Nat
        /\ Count(toWatch, "snapshot") \in Nat
    <3>1. Tail(toHost) \in Seq(Requests)
      BY <1>1, <1>2, QueueTail
    <3> QED
      BY <1>2, <3>1, CountIsNat
  <2>3. Count(toHost, "sync") + Count(toWatch, "snapshot") = (IF syncing THEN 1 ELSE 0)
    BY <1>1 DEF IInv, NetInv, OneSnapshot
  <2> QED
    BY <2>1, <2>2, <2>3
<1>4. Awaits(K, hostRevision, v)
  BY <1>1, <1>3 DEF GapInv, SnapshotAsked
<1>5. /\ \A i \in 1 .. 4 : Updates[i] \in Answers /\ Updates[i].type = "patch"
                           /\ Updates[i].type # "snapshot" /\ Updates[i].revision = i
      /\ Snapshot \in Answers /\ Snapshot.type = "snapshot"
  BY UpdatesAreTyped, FramesAreTyped
<1>6. toWatch' = q5
  <2>1. toWatch \o <<Updates[1], Snapshot, Updates[2], Updates[3], Updates[4]>> = q5
    <3>1. /\ Updates[1] \in Answers /\ Updates[2] \in Answers /\ Updates[3] \in Answers
          /\ Updates[4] \in Answers
      BY <1>5
    <3>2. toWatch \in Seq(Answers) /\ Snapshot \in Answers
      BY <1>2, <1>5
    <3> DEFINE written(a, b, c, d, e) == toWatch \o <<a, b, c, d, e>>
               added(a, b, c, d, e) ==
                 Append(Append(Append(Append(Append(toWatch, a), b), c), d), e)
    <3>3. \A a, b, c, d, e \in Answers : written(a, b, c, d, e) = added(a, b, c, d, e)
      BY <3>2, FiveAppends
    <3> HIDE DEF written, added
    <3>4. written(Updates[1], Snapshot, Updates[2], Updates[3], Updates[4])
            = added(Updates[1], Snapshot, Updates[2], Updates[3], Updates[4])
      BY <3>1, <3>2, <3>3
    <3> QED
      BY <3>4 DEF written, added
  <2> HIDE DEF q5
  <2> QED
    BY <1>1, <2>1
<1>7. /\ q1 \in Seq(Answers) /\ Len(q1) = n + 1 /\ n \in Nat
      /\ \A i \in 1 .. n : q1[i] = toWatch[i]
      /\ Count(q1, "snapshot") = 0
  BY <1>2, <1>3, <1>5, AppendIs, CountAppendOther
<1>8. Closed(B \cup Newer(q1, n + 1, v), 1)
  <2> DEFINE M == {x \in {Updates[1].revision} : Updates[1].type = "patch" /\ x > v}
  <2>1. Newer(q1, n + 1, v) = Newer(toWatch, n, v) \cup M
    <3>1. Updates[1] \in Answers
      BY <1>5
    <3> QED
      BY <1>2, <3>1, NewerAppend
  <2>2. M \subseteq {1} /\ (v = 0 => 1 \in M)
    BY <1>5
  <2> HIDE DEF M, q1
  <2>3. B \cup Newer(q1, n + 1, v) = K \cup M
    BY <2>1
  <2> HIDE DEF K
  <2>4. CASE K = {}
    <3>1. \A r \in K \cup M : r = 1
      BY <2>2, <2>4
    <3>2. Closed(K \cup M, 1)
      BY <3>1 DEF Closed
    <3> QED
      BY <2>3, <3>2
  <2>5. CASE v = 0 /\ Closed(K, 2)
    <3>1. \A r \in K \cup M : r > 1 => r = 2 \/ (r > 2 /\ r \in K)
      <4> SUFFICES ASSUME NEW r \in K \cup M, r > 1, r # 2 PROVE r > 2 /\ r \in K
        OBVIOUS
      <4>1. r \in K
        <5>1. r \notin {1}
          OBVIOUS
        <5> QED
          BY <2>2, <5>1
      <4>2. r \in Nat
        BY <4>1, <1>2, QueueIs, RevisionsAreNat DEF K, B, Newer
      <4> QED
        BY <4>1, <4>2
    <3>2. Closed(K \cup M, 1)
      BY <2>2, <2>5, <3>1 DEF Closed
    <3> QED
      BY <2>3, <3>2
  <2> QED
    BY <1>4, <2>4, <2>5 DEF Awaits
<1> HIDE DEF q1
<1>9. /\ q2 \in Seq(Answers) /\ Len(q2) = n + 2
      /\ Closes(q2, n + 2, B, v) /\ Count(q2, "snapshot") = 1
      /\ \A i \in 1 .. n + 2 : q2[i].type = "snapshot" => i = n + 2
  <2>1. /\ q2 \in Seq(Answers) /\ Len(q2) = n + 2 /\ \A i \in 1 .. n + 1 : q2[i] = q1[i]
    BY <1>5, <1>7, AppendIs
  <2>2. Count(q2, "snapshot") = 1
    BY <1>5, <1>7, CountAppend
  <2>3. Newer(q2, n + 1, v) = Newer(q1, n + 1, v)
    <3>1. n + 1 \in 0 .. Len(q1)
      BY <1>7
    <3> QED
      BY <1>5, <1>7, <3>1, NewerAppend
  <2> HIDE DEF q2, n
  <2>4. NoGap(q2, n + 2, 1)
    BY <1>7, <2>1 DEF NoGap
  <2>5. (n + 2) - 1 = n + 1
    BY <1>7
  <2>6. Closes(q2, n + 2, B, v)
    <3>1. Newer(q2, (n + 2) - 1, v) = Newer(q1, n + 1, v)
      BY <2>3, <2>5
    <3> QED
      BY <1>8, <2>4, <3>1 DEF Closes
  <2>7. ASSUME NEW i \in 1 .. n + 2, q2[i].type = "snapshot"
        PROVE  i = n + 2
    <3> SUFFICES ASSUME i \in 1 .. n + 1 PROVE FALSE
      BY <1>7
    <3>1. q1[i].type = "snapshot" /\ i \in DOMAIN q1
      BY <1>7, <2>1, <2>7, LenProperties
    <3>2. q1[i] \in Members(q1)
      BY <3>1 DEF Members
    <3> QED
      BY <1>7, <3>1, <3>2, CountZero
  <2> QED
    BY <2>1, <2>2, <2>6, <2>7
<1> HIDE DEF q2
<1> DEFINE Fits(q, r) == /\ q \in Seq(Answers) /\ n + 2 \in 1 .. Len(q) /\ Count(q, "snapshot") = 1
                         /\ Closes(q, n + 2, B, v)
                         /\ \A i \in 1 .. Len(q) : q[i].type = "snapshot" => i = n + 2
                         /\ r = 1 \/ Has(q, n + 2, r)
<1>10. ASSUME NEW q, NEW i \in 2 .. 4, Fits(q, i - 1)
       PROVE  Fits(Append(q, Updates[i]), i)
  <2> DEFINE m == Updates[i]
             a == Append(q, m)
  <2>1. /\ m \in Answers /\ m.type = "patch" /\ m.revision = i /\ m.type # "snapshot"
    BY <1>5
  <2> HIDE DEF m, B
  <2>2. /\ a \in Seq(Answers) /\ Len(q) \in Nat /\ Len(a) = Len(q) + 1
        /\ n + 2 \in 1 .. Len(a) /\ n + 2 \in Nat /\ n + 2 <= Len(q)
    <3>1. a \in Seq(Answers) /\ Len(q) \in Nat /\ Len(a) = Len(q) + 1
      BY <1>10, <2>1, AppendIs
    <3> QED
      BY <1>10, <3>1
  <2>3. Count(a, "snapshot") = 1
    BY <1>10, <2>1, CountAppendOther
  <2>4. m.revision <= 2 \/ Has(q, n + 2, m.revision - 1)
    BY <1>10, <2>1
  <2>5. Closes(a, n + 2, B, v)
    BY <1>10, <2>1, <2>4, ClosesAppend
  <2>6. \A j \in 1 .. Len(a) : a[j].type = "snapshot" => j = n + 2
    BY <1>10, <2>1, SnapshotStaysPut
  <2>7. Has(a, n + 2, i)
    BY <1>10, <2>1, <2>2, HasAppend DEF IsPatch
  <2> QED
    BY <2>2, <2>3, <2>5, <2>6, <2>7 DEF m
<1>11. Fits(q2, 1)
  BY <1>7, <1>9
<1>12. Fits(q5, 4)
  <2> HIDE DEF Fits
  <2>1. Fits(q3, 2)
    <3>1. 2 \in 2 .. 4 /\ 2 - 1 = 1
      OBVIOUS
    <3> QED
      BY <1>10, <1>11, <3>1
  <2> HIDE DEF q3
  <2>2. Fits(q4, 3)
    <3>1. 3 \in 2 .. 4 /\ 3 - 1 = 2
      OBVIOUS
    <3> QED
      BY <1>10, <2>1, <3>1
  <2> HIDE DEF q4
  <2>3. 4 \in 2 .. 4 /\ 4 - 1 = 3
    OBVIOUS
  <2> QED
    BY <1>10, <2>2, <2>3
<1> HIDE DEF q5, n, B, K
<1>13. /\ Count(toWatch', "snapshot") = 1
       /\ \A i \in 1 .. Len(toWatch') : toWatch'[i].type = "snapshot" =>
             Closes(toWatch', i, B, v) /\ Has(toWatch', i, 4)
  BY <1>6, <1>12
<1>14. Sync!BufferedRevisions' = B
  BY <1>1 DEF Sync!BufferedRevisions, B
<1>15. ClosedIsIdle' /\ AtMostOneSnapshot' /\ InStep'
  BY <1>1, <1>3, <1>13 DEF ClosedIsIdle, AtMostOneSnapshot, InStep
<1>16. SnapshotComing'
  BY <1>1, <1>13, <1>14 DEF SnapshotComing
<1>17. SnapshotAsked'
  BY <1>13 DEF SnapshotAsked
<1> QED
  BY <1>15, <1>16, <1>17 DEF GapInv
-----------------------------------------------------------------------------
(* The watch asks for a snapshot, keeps a patch, takes a snapshot.         *)

\* Only patch 2 can be ahead of a watch in step: one that kept the revision of an
\* earlier connection passed over patch 1, and the snapshot took it back to 0.
LEMMA AheadIsSecond ==
    ASSUME IInv, GapInv, link # "closed", toWatch # <<>>, ~syncing,
           Head(toWatch).type = "patch", Head(toWatch).revision > revision + 1
    PROVE  revision = 0 /\ Head(toWatch).revision = 2
<1> DEFINE k == IF revision = 0 THEN 1 ELSE revision
           r == Head(toWatch).revision
<1>1. toWatch \in Seq(Answers) /\ revision \in Nat
  BY Numbers
<1>2. Head(toWatch) = toWatch[1] /\ Head(toWatch) \in Answers /\ Len(toWatch) \in Nat \ {0}
  BY <1>1, TailIs
<1>3. r \in Nat
  BY <1>2, PatchRevision
<1>4. NoGap(toWatch, 0, k)
  BY DEF GapInv, InStep, Follows
<1>5. ~(r > k + 1)
  <2> SUFFICES ASSUME r > k + 1 PROVE FALSE
    OBVIOUS
  <2>1. 1 \in 0 + 1 .. Len(toWatch) /\ 0 + 1 .. 1 - 1 = {}
    BY <1>2
  <2>2. toWatch[1].type = "patch" /\ toWatch[1].revision > k + 1
    BY <1>2
  <2> HIDE DEF k, r
  <2> QED
    BY <1>4, <2>1, <2>2 DEF NoGap
<1> QED
  BY <1>1, <1>3, <1>5

LEMMA PatchAheadKeepsGapInv ==
    ASSUME IInv, GapInv, PatchAhead
    PROVE  GapInv'
<1> DEFINE m == Head(toWatch)
           N == Newer(toWatch, Len(toWatch), 0)
<1>1. /\ link # "closed" /\ toWatch # <<>> /\ m.type = "patch" /\ m.revision > revision + 1
      /\ ~syncing
  BY DEF PatchAhead, Received
<1>2. toWatch \in Seq(Answers) /\ hostRevision \in Nat /\ toHost \in Seq(Requests)
  BY Numbers
<1>3. revision = 0 /\ m.revision = 2
  BY <1>1, AheadIsSecond
<1>4. CASE GoOffline(data, pendingShown, feedback)
  BY <1>4, ClosedKeepsGapInv DEF GoOffline
<1>5. CASE /\ RequestSync /\ syncing' = TRUE
           /\ buffered' = Sync!BufferWith(Mutation(m))
           /\ toWatch' = Tail(toWatch)
           /\ UNCHANGED <<hostVars, revision>>
  <2>1. link' = link /\ hostRevision' = hostRevision /\ revision' = 0
    BY <1>3, <1>5 DEF RequestSync, hostVars
  <2>2. Sync!BufferedRevisions' = {2}
    <3>1. buffered = {}
      BY <1>1 DEF IInv, WatchInv, BufferIsBounded
    <3>2. Mutation(m).revision = 2
      BY <1>3 DEF Mutation
    <3>3. buffered' = {Mutation(m)}
      BY <1>5, <3>1 DEF Sync!BufferWith, Sync!BufferedRevisions
    <3> QED
      BY <3>2, <3>3 DEF Sync!BufferedRevisions
  <2>3. Count(toWatch, "snapshot") = 0 /\ Count(toWatch', "snapshot") = 0
    <3>1. Count(toWatch, "snapshot") \in Nat /\ Count(toWatch, "snapshot") <= 0
      BY <1>1, Numbers DEF GapInv, AtMostOneSnapshot
    <3>2. Count(toWatch', "snapshot") = Count(toWatch, "snapshot")
      BY <1>1, <1>2, <1>5, CountTailOther
    <3> QED
      BY <3>1, <3>2
  <2>4. ClosedIsIdle' /\ AtMostOneSnapshot' /\ InStep'
    BY <1>1, <1>5, <2>1, <2>3 DEF ClosedIsIdle, AtMostOneSnapshot, InStep
  <2>5. SnapshotComing'
    <3>1. toWatch' \in Seq(Answers) /\ Len(toWatch') \in Nat
      BY <1>1, <1>2, <1>5, TailIs
    <3>2. \A i \in 1 .. Len(toWatch') : toWatch'[i] \in Members(toWatch')
      BY <3>1, LenProperties DEF Members
    <3> QED
      BY <2>3, <3>1, <3>2, CountZero DEF SnapshotComing
  <2>6. {2} \cup Newer(toWatch', Len(toWatch'), 0) = N
    <3>1. Newer(toWatch, Len(toWatch), 0)
             = {r \in {m.revision} : m.type = "patch" /\ r > 0}
               \cup Newer(Tail(toWatch), Len(Tail(toWatch)), 0)
      <4>1. {} \cup Newer(toWatch, Len(toWatch), 0)
               = ({} \cup {r \in {m.revision} : m.type = "patch" /\ r > 0})
                 \cup Newer(Tail(toWatch), Len(Tail(toWatch)), 0)
        BY <1>1, <1>2, AwaitedTail
      <4> HIDE DEF m
      <4> QED
        BY <4>1
    <3>2. {r \in {m.revision} : m.type = "patch" /\ r > 0} = {2}
      BY <1>1, <1>3
    <3> QED
      BY <1>5, <3>1, <3>2
  <2>7. \A r : r \in N <=> Has(toWatch, 0, r) /\ r > 0
    BY <1>2, NewerIs
  <2>8. Closed(N, 2)
    <3> SUFFICES ASSUME NEW r \in N, r > 2 PROVE r - 1 \in N
      BY DEF Closed
    <3>1. PICK j \in 0 + 1 .. Len(toWatch) : IsPatch(toWatch[j], r)
      BY <2>7 DEF Has
    <3>2. NoGap(toWatch, 0, 1)
      BY <1>1, <1>3 DEF GapInv, InStep, Follows
    <3> HIDE DEF N
    <3>3. PICK h \in 0 + 1 .. j - 1 : IsPatch(toWatch[h], r - 1)
      BY <3>1, <3>2 DEF NoGap, IsPatch
    <3>4. h \in 0 + 1 .. Len(toWatch)
      BY <1>2, LenProperties
    <3>5. r \in Nat
      <4>1. j \in 1 .. Len(toWatch)
        OBVIOUS
      <4> QED
        BY <1>2, <3>1, <4>1, QueueIs DEF IsPatch
    <3>6. Has(toWatch, 0, r - 1) /\ r - 1 > 0
      BY <3>3, <3>4, <3>5 DEF Has
    <3> QED
      BY <2>7, <3>6
  <2>9. link = "open" => hostRevision \in N
    <3> SUFFICES ASSUME link = "open" PROVE Has(toWatch, 0, hostRevision) /\ hostRevision > 0
      BY <2>7
    <3>1. hostRevision # 0
      <4> SUFFICES ASSUME hostRevision = 0 PROVE FALSE
        OBVIOUS
      <4>1. toHost # <<>> /\ Head(toHost) = SyncRequest
        BY DEF IInv, NetInv, SyncComesFirst
      <4>2. Count(Tail(toHost), "sync") = Count(toHost, "sync") - 1
        BY <1>2, <4>1, FramesAreTyped, CountTail
      <4>3. Tail(toHost) \in Seq(Requests)
        BY <1>2, <4>1, QueueTail
      <4>4. Count(Tail(toHost), "sync") \in Nat /\ Count(toHost, "sync") \in Nat
        BY <1>2, <4>3, CountIsNat
      <4>5. Count(toHost, "sync") + Count(toWatch, "snapshot") = 0
        BY <1>1 DEF IInv, NetInv, OneSnapshot
      <4> QED
        BY <2>3, <4>2, <4>4, <4>5
    <3>2. hostRevision <= 0 \/ Has(toWatch, 0, hostRevision)
      BY <1>1, <1>3 DEF GapInv, InStep
    <3> QED
      BY <1>2, <3>1, <3>2
  <2>10. SnapshotAsked'
    <3> HIDE DEF N
    <3>1. Sync!BufferedRevisions' \cup Newer(toWatch', Len(toWatch'), revision') = N
      BY <2>1, <2>2, <2>6
    <3> QED
      BY <2>1, <2>8, <2>9, <3>1 DEF SnapshotAsked, Awaits
  <2> QED
    BY <2>4, <2>5, <2>10 DEF GapInv
<1> QED
  BY <1>4, <1>5 DEF PatchAhead

LEMMA PatchBufferedKeepsGapInv ==
    ASSUME IInv, GapInv, PatchBuffered
    PROVE  GapInv'
<1> DEFINE m == Head(toWatch)
<1>1. /\ link # "closed" /\ toWatch # <<>> /\ m.type = "patch" /\ m.revision > revision /\ syncing
  BY DEF PatchBuffered, Received
<1>2. CASE GoOffline(data, pendingShown, feedback)
  BY <1>2, ClosedKeepsGapInv DEF GoOffline
<1>3. CASE /\ buffered' = Sync!BufferWith(Mutation(m)) /\ toWatch' = Tail(toWatch)
           /\ UNCHANGED <<link, hostVars, revision, syncing>>
  <2>1. Sync!BufferedRevisions' = Sync!BufferedRevisions \cup {m.revision}
    <3>1. Mutation(m).revision = m.revision
      BY DEF Mutation
    <3>2. CASE m.revision \in Sync!BufferedRevisions
      <4>1. buffered' = buffered
        BY <1>3, <3>1, <3>2 DEF Sync!BufferWith
      <4> QED
        BY <3>2, <4>1 DEF Sync!BufferedRevisions
    <3>3. CASE m.revision \notin Sync!BufferedRevisions
      <4>1. buffered' = buffered \cup {Mutation(m)}
        BY <1>3, <3>1, <3>3 DEF Sync!BufferWith
      <4> QED
        BY <3>1, <4>1 DEF Sync!BufferedRevisions
    <3> QED
      BY <3>2, <3>3
  <2>2. {r \in {m.revision} : m.type = "patch" /\ r > revision} = {m.revision}
    BY <1>1
  <2>3. m.type # "snapshot" /\ hostRevision' = hostRevision
    BY <1>1, <1>3 DEF hostVars
  <2> QED
    BY <1>1, <1>3, <2>1, <2>2, <2>3, TakenWhileSyncing
<1> QED
  BY <1>2, <1>3 DEF PatchBuffered

\* The buffer has no gap above 1, so the replay takes everything.
LEMMA NothingLeft ==
    ASSUME IInv, NEW end \in 0 .. 0 + Capacity, Sync!ReplayEndsAt(0, end),
           Closed(Sync!BufferedRevisions, 1)
    PROVE  Sync!Ahead(end) = {}
<1> DEFINE Less == {ss \in Nat \X Nat : ss[1] < ss[2]}
           Left == {r \in Sync!BufferedRevisions : r > end}
<1>1. end \in Nat
  BY Numbers
<1>2. Left \subseteq Nat
  BY RevisionsAreNat
<1>3. end + 1 \notin Sync!BufferedRevisions
  BY DEF Sync!ReplayEndsAt
<1>4. ASSUME Left # {} PROVE FALSE
  <2>1. IsWellFoundedOn(Less, Nat)
    BY NatLessThanWellFounded DEF OpToRel
  <2>2. \E n \in Left : \A x \in Left : ~(<<x, n>> \in Less)
    <3> HIDE DEF Less, Left
    <3> QED
      BY <1>2, <1>4, <2>1, WFMin
  <2>3. PICK n \in Left : \A x \in Left : ~(x < n)
    BY <1>2, <2>2
  <2>4. n \in Nat /\ n > end /\ n \in Sync!BufferedRevisions
    BY <1>2
  <2>5. n # end + 1
    BY <1>3, <2>4
  <2>6. n > 1 /\ n - 1 > end /\ n - 1 < n
    BY <1>1, <2>4, <2>5
  <2>7. n - 1 \in Left
    BY <2>4, <2>6 DEF Closed
  <2> QED
    BY <2>3, <2>6, <2>7
<1>5. Left = {}
  BY <1>4
<1> QED
  BY <1>5 DEF Sync!Ahead, Sync!BufferedRevisions

\* A snapshot leaves nothing in the buffer.
LEMMA SnapshotCloses ==
    ASSUME IInv, GapInv, ReceiveSnapshot
    PROVE  /\ link # "closed" /\ toWatch # <<>> /\ Head(toWatch).type = "snapshot" /\ syncing
           /\ syncing' = FALSE /\ buffered' = {} /\ toWatch' = Tail(toWatch)
           /\ Closes(toWatch, 1, Sync!BufferedRevisions, revision)
           /\ link = "open" => Has(toWatch, 1, hostRevision)
           /\ UNCHANGED <<link, hostRevision>> /\ revision' \in Nat
<1> DEFINE n == Head(toWatch).revision
           d == Head(toWatch).state
<1>1. link # "closed" /\ toWatch # <<>> /\ Head(toWatch).type = "snapshot"
  BY DEF ReceiveSnapshot, Received
<1>2. /\ toWatch \in Seq(Answers) /\ Count(toWatch, "snapshot") \in Nat /\ revision \in Nat
      /\ Capacity \in Nat
  BY Numbers
<1>3. Head(toWatch) \in Answers /\ Head(toWatch) = toWatch[1] /\ 1 \in 1 .. Len(toWatch)
  BY <1>1, <1>2, TailIs
<1>4. n = 0 /\ d = HostDefault
  BY <1>1, <1>3, AnswerKinds
<1>5. syncing
  <2>1. Count(Tail(toWatch), "snapshot") = Count(toWatch, "snapshot") - 1
    BY <1>1, <1>2, CountTail
  <2>2. Count(Tail(toWatch), "snapshot") \in Nat
    <3>1. Tail(toWatch) \in Seq(Answers)
      BY <1>1, <1>2, TailIs
    <3> QED
      BY <3>1, CountIsNat
  <2>3. Count(toWatch, "snapshot") <= (IF syncing THEN 1 ELSE 0)
    BY <1>1 DEF GapInv, AtMostOneSnapshot
  <2> QED
    BY <1>2, <2>1, <2>2, <2>3
<1>6. /\ Closes(toWatch, 1, Sync!BufferedRevisions, revision)
      /\ link = "open" => Has(toWatch, 1, hostRevision)
  BY <1>1, <1>3, <1>5 DEF GapInv, SnapshotComing
<1>7. Closed(Sync!BufferedRevisions, 1)
  <2>1. Newer(toWatch, 1 - 1, revision) = {}
    <3>1. 1 .. 1 - 1 = {}
      OBVIOUS
    <3> QED
      BY <3>1 DEF Newer
  <2>2. Closed(Sync!BufferedRevisions \cup Newer(toWatch, 1 - 1, revision), 1)
    BY <1>6 DEF Closes
  <2>3. Sync!BufferedRevisions \cup Newer(toWatch, 1 - 1, revision) = Sync!BufferedRevisions
    BY <2>1
  <2> QED
    BY <2>2, <2>3
<1>8. PICK end \in n .. n + Capacity :
        LET shown == Sync!Replayed(d, n, end)
            rest == Sync!Ahead(end)
        IN /\ Sync!ReplayEndsAt(n, end)
           /\ revision' = end
           /\ \/ /\ rest = {}
                 /\ data' = shown /\ pendingShown' = FALSE /\ feedback' = ""
                 /\ syncing' = FALSE /\ buffered' = {}
                 /\ Changed
                 /\ toWatch' = Tail(toWatch)
                 /\ UNCHANGED <<link, toHost, hostVars, actionVars, bounds>>
                 /\ Draw
              \/ /\ rest # {}
                 /\ RequestSync
                 /\ data' = shown /\ pendingShown' = FALSE /\ feedback' = ""
                 /\ stale' = FALSE
                 /\ syncing' = TRUE /\ buffered' = rest
                 /\ toWatch' = Tail(toWatch)
                 /\ UNCHANGED <<hostVars, connection, drawn, actionVars, cache, bounds>>
              \/ /\ rest # {} /\ link = "broken"
                 /\ GoOffline(shown, FALSE, "")
  BY DEF ReceiveSnapshot
<1> HIDE DEF n, d
<1>9. end \in 0 .. 0 + Capacity /\ Sync!ReplayEndsAt(0, end)
  BY <1>4, <1>8
<1>10. Sync!Ahead(end) = {}
  BY <1>7, <1>9, NothingLeft
<1>11. /\ revision' = end /\ syncing' = FALSE /\ buffered' = {} /\ toWatch' = Tail(toWatch)
       /\ UNCHANGED <<link, hostVars>>
  BY <1>8, <1>10
<1> QED
  BY <1>1, <1>2, <1>5, <1>6, <1>9, <1>11 DEF hostVars

LEMMA SnapshotKeepsGapInv ==
    ASSUME IInv, GapInv, ReceiveSnapshot
    PROVE  GapInv'
<1>1. /\ link # "closed" /\ toWatch # <<>> /\ Head(toWatch).type = "snapshot" /\ syncing
      /\ syncing' = FALSE /\ toWatch' = Tail(toWatch)
      /\ Closes(toWatch, 1, Sync!BufferedRevisions, revision)
      /\ link = "open" => Has(toWatch, 1, hostRevision)
      /\ UNCHANGED <<link, hostRevision>> /\ revision' \in Nat
  BY SnapshotCloses
<1>2. toWatch \in Seq(Answers) /\ Count(toWatch, "snapshot") \in Nat
  BY Numbers
<1>3. Follows(toWatch', revision')
  <2>1. NoGap(toWatch, 0 + 1, 1)
    BY <1>1 DEF Closes
  <2>2. NoGap(Tail(toWatch), 0, 1)
    BY <1>1, <1>2, <2>1, NoGapTail
  <2>3. \A k \in Nat \ {0} : NoGap(toWatch', 0, k)
    <3> SUFFICES ASSUME NEW k \in Nat \ {0}, NEW j \in 0 + 1 .. Len(toWatch'),
                        toWatch'[j].type = "patch", toWatch'[j].revision > k + 1
                 PROVE  \E h \in 0 + 1 .. j - 1 : IsPatch(toWatch'[h], toWatch'[j].revision - 1)
      BY DEF NoGap
    <3>1. toWatch' \in Seq(Answers) /\ j \in 1 .. Len(toWatch')
      BY <1>1, <1>2, TailIs
    <3>2. toWatch'[j].revision \in Nat
      BY <3>1, QueueIs
    <3>3. toWatch'[j].revision > 1 + 1
      BY <3>2
    <3> QED
      BY <1>1, <2>2, <3>3 DEF NoGap
  <2> QED
    BY <1>1, <2>3 DEF Follows
<1>4. link = "open" => Has(toWatch', 0, hostRevision)
  <2>1. link = "open" => Has(toWatch, 0 + 1, hostRevision)
    BY <1>1
  <2> QED
    BY <1>1, <1>2, <2>1, HasTail
<1>5. Count(toWatch', "snapshot") <= 0
  <2>1. Count(Tail(toWatch), "snapshot") = Count(toWatch, "snapshot") - 1
    BY <1>1, <1>2, CountTail
  <2>2. Count(toWatch, "snapshot") <= 1
    BY <1>1 DEF GapInv, AtMostOneSnapshot
  <2> QED
    BY <1>1, <1>2, <2>1, <2>2
<1>6. ClosedIsIdle' /\ AtMostOneSnapshot' /\ SnapshotComing' /\ SnapshotAsked'
  BY <1>1, <1>5 DEF ClosedIsIdle, AtMostOneSnapshot, SnapshotComing, SnapshotAsked
<1>7. InStep'
  BY <1>1, <1>3, <1>4 DEF InStep
<1> QED
  BY <1>6, <1>7 DEF GapInv
-----------------------------------------------------------------------------
(* The invariant, and what it says.                                        *)

LEMMA IgnoredKeepsGapInv ==
    ASSUME IInv, GapInv, PatchIgnored \/ ResultIgnored \/ ResultSettles
    PROVE  GapInv'
<1> DEFINE H == {r \in {Head(toWatch).revision} : Head(toWatch).type = "patch" /\ r > revision}
<1>1. /\ link # "closed" /\ toWatch # <<>> /\ toWatch' = Tail(toWatch)
      /\ UNCHANGED <<link, hostRevision, revision, syncing, buffered>>
      /\ Head(toWatch).type # "snapshot"
      /\ Head(toWatch).type = "patch" => Head(toWatch).revision <= revision
  BY DEF PatchIgnored, ResultIgnored, ResultSettles, Received, hostVars, syncVars
<1>2. toWatch \in Seq(Answers) /\ revision \in Nat
  BY Numbers
<1>3. H = {}
  <2> SUFFICES ASSUME Head(toWatch).type = "patch", Head(toWatch).revision > revision PROVE FALSE
    OBVIOUS
  <2>1. Head(toWatch).revision \in Nat
    BY <1>1, <1>2, TailIs, PatchRevision
  <2> QED
    BY <1>1, <1>2, <2>1
<1>4. CASE syncing
  <2>1. Sync!BufferedRevisions' = Sync!BufferedRevisions \cup H
    BY <1>1, <1>3 DEF Sync!BufferedRevisions
  <2> QED
    BY <1>1, <1>4, <2>1, TakenWhileSyncing
<1>5. CASE ~syncing
  <2>1. revision' = revision /\ revision <= revision
    BY <1>1, <1>2
  <2> QED
    BY <1>1, <1>2, <1>5, <2>1, TakenInStep
<1> QED
  BY <1>4, <1>5

LEMMA PatchNextKeepsGapInv ==
    ASSUME IInv, GapInv, PatchNext
    PROVE  GapInv'
<1>1. /\ link # "closed" /\ toWatch # <<>> /\ toWatch' = Tail(toWatch) /\ ~syncing
      /\ UNCHANGED <<link, hostRevision, syncing>>
      /\ Head(toWatch).type # "snapshot"
      /\ revision' = revision + 1 /\ Head(toWatch).revision = revision + 1
  BY DEF PatchNext, Received, hostVars
<1>2. revision \in Nat
  BY Numbers
<1>3. revision' \in Nat /\ revision <= revision' /\ Head(toWatch).revision <= revision'
  BY <1>1, <1>2
<1> QED
  BY <1>1, <1>3, TakenInStep

LEMMA InitIsGapInv == Init => GapInv
<1> SUFFICES ASSUME Init PROVE GapInv
  OBVIOUS
<1>1. link = "closed" /\ syncing = FALSE
  BY DEF Init
<1> QED
  BY <1>1 DEF GapInv, ClosedIsIdle, AtMostOneSnapshot, InStep, SnapshotComing, SnapshotAsked

LEMMA NextKeepsGapInv == IInv /\ GapInv /\ [Next]_vars => GapInv'
<1> SUFFICES ASSUME IInv, GapInv, [Next]_vars PROVE GapInv'
  OBVIOUS
<1>1. CASE HostSyncs
  BY <1>1, HostSyncsKeepsGapInv
<1>2. CASE HostAnswers
  BY <1>2, HostAnswersKeepsGapInv
<1>3. CASE LinkBreaks
  <2>1. /\ link = "open" /\ link' = "broken"
        /\ UNCHANGED <<toWatch, hostRevision, revision, syncing, buffered>>
    BY <1>3 DEF LinkBreaks, hostVars, syncVars
  <2> QED
    BY <2>1, QuietKeepsGapInv
<1>4. CASE Connect
  BY <1>4, ConnectKeepsGapInv
<1>5. CASE NoticeClosed \/ Restart
  BY <1>5, ClosedKeepsGapInv DEF NoticeClosed, GoOffline, Restart
<1>6. CASE WatchReceives
  BY <1>6, IgnoredKeepsGapInv, PatchBufferedKeepsGapInv, PatchAheadKeepsGapInv,
     PatchNextKeepsGapInv, SnapshotKeepsGapInv DEF WatchReceives
<1>7. CASE ActivateSent \/ ActivateFails \/ TurnPage \/ Timeout \/ Idle \/ UNCHANGED vars
  <2>1. UNCHANGED <<link, toWatch, hostRevision, revision, syncing, buffered>>
    BY <1>7
       DEF ActivateSent, ActivateFails, TurnPage, Timeout, Idle, vars, netVars, hostVars,
           syncVars
  <2> QED
    BY <2>1, QuietKeepsGapInv
<1> QED
  BY <1>1, <1>2, <1>3, <1>4, <1>5, <1>6, <1>7 DEF Next

LEMMA GapInvariance == Spec => [](SystemInv /\ IInv /\ GapInv)
<1>1. SystemInv => IInv
  BY DEF SystemInv
<1> QED
  BY <1>1, InitIsInv, NextKeepsInv, InitIsGapInv, NextKeepsGapInv, PTL DEF Spec

\* What the host writes makes the queue longer.
LEMMA WrittenIsLonger ==
    ASSUME NEW S, NEW q \in Seq(S), NEW a, NEW b, NEW c, NEW d, NEW e
    PROVE  /\ Len(Append(q, a)) > Len(q)
           /\ Len(q \o <<a, b>>) > Len(q)
           /\ Len(q \o <<a, b, c, d, e>>) > Len(q)
<1>1. Len(q) \in Nat
  BY LenProperties
<1>2. Len(Append(q, a)) = Len(q) + 1
  BY <1>1
<1>3. Len(q \o <<a, b>>) = Len(q) + 2
  BY <1>1
<1>4. Len(q \o <<a, b, c, d, e>>) = Len(q) + 5
  BY <1>1
<1> QED
  BY <1>1, <1>2, <1>3, <1>4

\* What is shown, recorded and drawn.
ShownInv == OnlineLeavesAreHosts /\ RecordIsShown /\ ScreenIsCurrent

\* A step that leaves a watch synchronizing changes no leaf but the optimistic one.
LEMMA LeavesStay ==
    ASSUME OnlineLeavesAreHosts, UNCHANGED <<connection, revision>>,
           \A p \in Leaves \ {"playing"} : data'[p] = data[p]
    PROVE  OnlineLeavesAreHosts'
  BY DEF OnlineLeavesAreHosts

LEMMA NextKeepsShownInv == SystemInv /\ GapInv /\ ShownInv /\ [Next]_vars => ShownInv'
<1> SUFFICES ASSUME SystemInv, GapInv, ShownInv, [Next]_vars PROVE ShownInv'
  OBVIOUS
<1>0. IInv
  BY DEF SystemInv
<1>1. IInv'
  BY NextKeepsIInv
<1>2. CASE syncing' = FALSE
  BY <1>1, <1>2
     DEF IInv, WatchInv, LeavesUnlessSyncing, SavedUnlessSyncing, DrawnUnlessSyncing, ShownInv
<1>3. CASE UNCHANGED <<stateVars, revision, cache>>
  <2>1. OnlineLeavesAreHosts'
    BY <1>3, LeavesStay DEF ShownInv, stateVars
  <2>2. RecordIsShown' /\ ScreenIsCurrent'
    BY <1>3 DEF ShownInv, RecordIsShown, ScreenIsCurrent, View, stateVars
  <2> QED
    BY <2>1, <2>2 DEF ShownInv
<1>4. ASSUME \A p \in Leaves \ {"playing"} : data'[p] = data[p],
             UNCHANGED <<connection, revision>>, drawn' = View',
             cache' = [known |-> TRUE, data |-> data'] \/ feedback' = "ACTION TIMEOUT"
      PROVE  ShownInv'
  <2>1. OnlineLeavesAreHosts'
    BY <1>4, LeavesStay DEF ShownInv
  <2>2. ScreenIsCurrent'
    BY <1>4 DEF ScreenIsCurrent
  <2>3. cache' = [known |-> TRUE, data |-> data'] => cache'.known /\ cache'.data = data'
    OBVIOUS
  <2>4. RecordIsShown'
    BY <1>4, <2>3 DEF RecordIsShown
  <2> QED
    BY <2>1, <2>2, <2>4 DEF ShownInv
<1>5. data \in [Leaves -> LeafValues] /\ syncing' \in BOOLEAN
  BY <1>0, <1>1, TypeParts DEF IInv, StateTyped, SyncTyped
<1>6. CASE HostSyncs \/ HostAnswers \/ LinkBreaks \/ Idle \/ UNCHANGED vars
  BY <1>3, <1>6 DEF HostSyncs, HostAnswers, LinkBreaks, Idle, vars, syncVars
<1>7. CASE Connect
  <2>1. connection' = "connecting" /\ drawn' = View'
    BY <1>7 DEF Connect, Draw
  <2> QED
    BY <2>1 DEF ShownInv, OnlineLeavesAreHosts, RecordIsShown, ScreenIsCurrent
<1>8. CASE NoticeClosed \/ Restart
  BY <1>2, <1>8 DEF NoticeClosed, GoOffline, Restart
<1>9. CASE PatchIgnored \/ ResultIgnored
  BY <1>3, <1>9 DEF PatchIgnored, ResultIgnored, syncVars
<1>10. CASE PatchBuffered \/ PatchAhead
  BY <1>2, <1>3, <1>10 DEF PatchBuffered, PatchAhead, GoOffline
<1>11. CASE PatchNext
  BY <1>2, <1>5, <1>11 DEF PatchNext
<1>12. CASE ReceiveSnapshot
  BY <1>0, <1>2, <1>12, SnapshotCloses
<1>13. CASE ResultSettles \/ ActivateSent \/ ActivateFails \/ Timeout
  <2>1. /\ UNCHANGED <<connection, revision>> /\ drawn' = View'
        /\ cache' = [known |-> TRUE, data |-> data'] \/ feedback' = "ACTION TIMEOUT"
    BY <1>13
       DEF ResultSettles, ActivateSent, ActivateFails, Timeout, CaptureSync, Draw, syncVars
  <2>2. \/ data' = data \/ data' = [data EXCEPT !["playing"] = previous]
        \/ data' = [data EXCEPT !["playing"] = Toggle(@)]
    BY <1>13 DEF ResultSettles, ActivateSent, ActivateFails, Timeout
  <2>3. \A p \in Leaves \ {"playing"} : data'[p] = data[p]
    BY <1>5, <2>2
  <2> QED
    BY <1>4, <2>1, <2>3
<1>14. CASE TurnPage
  <2>1. UNCHANGED <<data, connection, feedback, revision, cache>> /\ drawn' = View'
    BY <1>14 DEF TurnPage, Draw, syncVars
  <2>2. OnlineLeavesAreHosts'
    BY <2>1, LeavesStay DEF ShownInv
  <2>3. RecordIsShown' /\ ScreenIsCurrent'
    BY <2>1 DEF ShownInv, RecordIsShown, ScreenIsCurrent
  <2> QED
    BY <2>2, <2>3 DEF ShownInv
<1> QED
  BY <1>6, <1>7, <1>8, <1>9, <1>10, <1>11, <1>12, <1>13, <1>14 DEF Next, WatchReceives

LEMMA ShownInvariance == Spec => [](SystemInv /\ IInv /\ GapInv /\ ShownInv)
<1>1. Init => ShownInv
  BY DEF Init, ShownInv, OnlineLeavesAreHosts, RecordIsShown, ScreenIsCurrent
<1> QED
  BY <1>1, GapInvariance, NextKeepsShownInv, PTL DEF Spec

\* An online watch shows the leaves of the host at its revision, while it closes a
\* gap, too.
THEOREM OnlineShowsHost == Spec => []OnlineLeavesAreHosts
<1>1. ShownInv => OnlineLeavesAreHosts
  BY DEF ShownInv
<1> QED
  BY <1>1, ShownInvariance, PTL

\* The record of an online watch is what it shows, but for the rollback of a timeout,
\* and the file is the record unless the last save of this process failed: however
\* many saves failed before it, one that succeeds leaves nothing to make up for.
THEOREM ShownIsSaved == Spec => []SavedIsShown
<1>1. SystemInv /\ ShownInv => SavedIsShown
  BY DEF SystemInv, DiskInv, ShownInv, RecordIsShown, SavedIsShown
<1> QED
  BY <1>1, ShownInvariance, PTL

\* The display shows the state after every step of every handler.
THEOREM ScreenKeepsUp == Spec => []ScreenIsCurrent
<1>1. ShownInv => ScreenIsCurrent
  BY DEF ShownInv
<1> QED
  BY <1>1, ShownInvariance, PTL

\* Every snapshot the host sends ends the synchronization it answers, with nothing
\* left in the buffer: the handler's second request is never needed.
THEOREM SnapshotsClose == Spec => SnapshotClosesGap
<1> DEFINE Taken == Received("snapshot") /\ toWatch' = Tail(toWatch)
<1>1. ASSUME IInv, GapInv, Next, Taken
      PROVE  ~syncing' /\ buffered' = {}
  <2>1. /\ link # "closed" /\ toWatch # <<>> /\ Head(toWatch).type = "snapshot"
        /\ toWatch' = Tail(toWatch) /\ toWatch \in Seq(Answers)
    BY <1>1, Numbers DEF Received
  <2>2. Len(toWatch) \in Nat \ {0} /\ Len(toWatch') = Len(toWatch) - 1
    BY <2>1, TailIs
  <2>3. toWatch' # toWatch
    BY <2>2
  <2>4. CASE HostSyncs \/ HostAnswers
    <3>1. Len(toWatch') > Len(toWatch)
      BY <2>1, <2>4, WrittenIsLonger DEF HostSyncs, HostAnswers
    <3> QED
      BY <2>2, <3>1
  <2>5. CASE LinkBreaks \/ ActivateSent \/ ActivateFails \/ TurnPage \/ Timeout \/ Idle
    BY <2>3, <2>5
       DEF LinkBreaks, ActivateSent, ActivateFails, TurnPage, Timeout, Idle, vars, netVars
  <2>6. CASE Connect
    BY <2>1, <2>6 DEF Connect
  <2>7. CASE NoticeClosed \/ Restart
    BY <2>7 DEF NoticeClosed, GoOffline, Restart
  <2>8. CASE ReceiveSnapshot
    BY <1>1, <2>8, SnapshotCloses
  <2>9. CASE PatchIgnored \/ PatchBuffered \/ PatchAhead \/ PatchNext \/ ResultIgnored
             \/ ResultSettles
    BY <2>1, <2>9
       DEF PatchIgnored, PatchBuffered, PatchAhead, PatchNext, ResultIgnored, ResultSettles,
           Received
  <2> QED
    BY <1>1, <2>4, <2>5, <2>6, <2>7, <2>8, <2>9 DEF Next, WatchReceives
<1>2. IInv /\ GapInv /\ [Next]_vars => [Taken => ~syncing' /\ buffered' = {}]_vars
  <2> HIDE DEF Taken
  <2> QED
    BY <1>1
<1> QED
  BY <1>2, GapInvariance, PTL DEF Spec, SnapshotClosesGap
-----------------------------------------------------------------------------
(* Refinement: the composed system implements SyncPromise.                 *)

\* The states of the leaves that follow the host.
HostStates == {Followed(WatchDefault)} \cup {HostLeaves(n) : n \in 0 .. 4 + MaxActions}

\* What the watch shows, has recorded or has saved is one of them, not a mixture of
\* two.
StatesInv == /\ Followed(data) \in HostStates /\ Followed(cache.data) \in HostStates
             /\ Followed(file.data) \in HostStates

LEMMA FollowedIs ==
    /\ \A d \in [Leaves -> LeafValues] : Followed(d) \in [Leaves \ {"playing"} -> LeafValues]
    /\ \A n \in Nat : HostLeaves(n) \in [Leaves \ {"playing"} -> LeafValues]
    /\ \A d, e : (\A p \in Leaves \ {"playing"} : d[p] = e[p]) => Followed(d) = Followed(e)
  BY Defaults DEF Followed, HostLeaves

LEMMA UpdatesAre ==
    /\ Updates[1].path = "temperature" /\ Updates[1].value = Synchronized["temperature"]
    /\ Updates[2].path = "steps" /\ Updates[2].value = Synchronized["steps"]
    /\ Updates[3].path = "title" /\ Updates[3].value = Synchronized["title"]
    /\ Updates[4].path = "playing"
<1>1. /\ Synchronized["temperature"] = "24" /\ Synchronized["steps"] = "9632"
      /\ Synchronized["title"] = "Localhost Radio"
  BY DEF Synchronized, Leaf, Leaves
<1> QED
  BY <1>1 DEF Updates, Patch

\* OnlineLeavesAreHosts says that the leaves are those of the revision.
LEMMA LeavesOfRevision ==
    ASSUME NEW d, NEW n \in Nat,
           \A p \in Leaves \ {"playing"} : \A i \in 1 .. 4 :
              Updates[i].path = p => d[p] = (IF i <= n THEN Updates[i].value ELSE HostDefault[p])
    PROVE  Followed(d) = HostLeaves(n)
<1> DEFINE host(p) == IF \E i \in 1 .. 4 : i <= n /\ Updates[i].path = p
                      THEN Synchronized[p] ELSE HostDefault[p]
<1>1. ASSUME NEW p \in Leaves \ {"playing"} PROVE d[p] = host(p)
  <2>0. p = "temperature" \/ p = "steps" \/ p = "title"
    BY <1>1 DEF Leaves
  <2>1. PICK i \in 1 .. 3 : /\ Updates[i].path = p /\ Updates[i].value = Synchronized[p]
                            /\ \A j \in 1 .. 4 : Updates[j].path = p => j = i
    <3>1. \A j \in 1 .. 4 : j = 1 \/ j = 2 \/ j = 3 \/ j = 4
      OBVIOUS
    <3>2. 1 \in 1 .. 3 /\ 2 \in 1 .. 3 /\ 3 \in 1 .. 3
      OBVIOUS
    <3>3. CASE p = "temperature"
      <4>1. \A j \in 1 .. 4 : Updates[j].path = p => j = 1
        BY <3>1, <3>3, UpdatesAre
      <4> QED
        BY <3>2, <3>3, <4>1, UpdatesAre
    <3>4. CASE p = "steps"
      <4>1. \A j \in 1 .. 4 : Updates[j].path = p => j = 2
        BY <3>1, <3>4, UpdatesAre
      <4> QED
        BY <3>2, <3>4, <4>1, UpdatesAre
    <3>5. CASE p = "title"
      <4>1. \A j \in 1 .. 4 : Updates[j].path = p => j = 3
        BY <3>1, <3>5, UpdatesAre
      <4> QED
        BY <3>2, <3>5, <4>1, UpdatesAre
    <3> QED
      BY <2>0, <3>3, <3>4, <3>5
  <2>2. i \in 1 .. 4
    OBVIOUS
  <2>4. d[p] = (IF i <= n THEN Updates[i].value ELSE HostDefault[p])
    BY <1>1, <2>1, <2>2
  <2>5. (\E j \in 1 .. 4 : j <= n /\ Updates[j].path = p) <=> i <= n
    BY <2>1, <2>2
  <2> QED
    BY <2>1, <2>4, <2>5
<1>2. HostLeaves(n) = [p \in Leaves \ {"playing"} |-> host(p)]
  BY DEF HostLeaves, Followed
<1> HIDE DEF host
<1> QED
  BY <1>1, <1>2 DEF Followed

\* A step after which the watch is synchronized shows the state of its revision.
LEMMA SyncedShowsRevision ==
    ASSUME IInv', ShownInv', connection' = "online"
    PROVE  /\ Followed(data') = HostLeaves(revision')
           /\ revision' \in 0 .. 4 + MaxActions
           /\ Followed(data') \in HostStates
<1>1. revision' \in 0 .. 4 + MaxActions /\ MaxActions \in Nat
  BY SystemAssumption, TypeParts DEF IInv, SyncTyped
<1>2. revision' \in Nat
  BY <1>1
<1>3. \A p \in Leaves \ {"playing"} : \A i \in 1 .. 4 :
        Updates[i].path = p => data'[p] = (IF i <= revision' THEN Updates[i].value
                                           ELSE HostDefault[p])
  BY DEF ShownInv, OnlineLeavesAreHosts
<1>4. Followed(data') = HostLeaves(revision')
  BY <1>2, <1>3, LeavesOfRevision
<1> QED
  BY <1>1, <1>4 DEF HostStates

\* An action changes none of the leaves that follow the host.
LEMMA FollowedStays ==
    ASSUME IInv,
           \/ data' = data
           \/ data' = [data EXCEPT !["playing"] = previous]
           \/ data' = [data EXCEPT !["playing"] = Toggle(@)]
    PROVE  Followed(data') = Followed(data)
  BY PlayingChanges, FollowedIs

\* Nor does the end of the connection.
LEMMA FollowedOffline ==
    ASSUME IInv, GoOffline(data, pendingShown, feedback)
    PROVE  Followed(data') = Followed(data) /\ UNCHANGED cache
  BY FollowedStays DEF GoOffline

\* A snapshot is captured when it has been installed.
LEMMA SnapshotIsSaved ==
    ASSUME IInv, GapInv, ReceiveSnapshot
    PROVE  connection' = "online" /\ cache' = [known |-> TRUE, data |-> data']
<1>1. syncing' = FALSE /\ toWatch' = Tail(toWatch) /\ link' = link /\ link # "closed"
  BY SnapshotCloses
<1> QED
  BY <1>1 DEF ReceiveSnapshot, GoOffline, Changed, CaptureSync

\* A step leaves the file as it is or makes it the record.
LEMMA FileIsWhole ==
    ASSUME [Next]_vars
    PROVE  file' = file \/ file' = cache'
  BY DiskSteps DEF Save, Restart, diskVars, vars

LEMMA NextKeepsStatesInv ==
    IInv /\ GapInv /\ StatesInv /\ [Next]_vars /\ IInv' /\ ShownInv' => StatesInv'
<1> SUFFICES ASSUME IInv, GapInv, StatesInv, [Next]_vars, IInv', ShownInv' PROVE StatesInv'
  OBVIOUS
<1>0. HostStates' = HostStates
  BY DEF HostStates, Followed, HostLeaves
<1>10. Followed(file.data) \in HostStates /\ (file' = file \/ file' = cache')
  BY FileIsWhole DEF StatesInv
<1>1. CASE UNCHANGED <<data, cache>>
  BY <1>0, <1>1, <1>10 DEF StatesInv
<1>2. ASSUME Followed(data') = Followed(data), cache' = cache \/ cache'.data = data'
      PROVE  StatesInv'
  BY <1>0, <1>2, <1>10 DEF StatesInv
<1>3. ASSUME connection' = "online", cache' = [known |-> TRUE, data |-> data']
      PROVE  StatesInv'
  <2>1. Followed(data') \in HostStates /\ cache'.data = data'
    BY <1>3, SyncedShowsRevision
  <2> QED
    BY <1>0, <1>10, <2>1 DEF StatesInv
<1>4. CASE HostSyncs \/ HostAnswers \/ LinkBreaks \/ Idle \/ Connect \/ TurnPage
           \/ PatchIgnored \/ ResultIgnored \/ UNCHANGED vars
  BY <1>1, <1>4
     DEF HostSyncs, HostAnswers, LinkBreaks, Idle, Connect, TurnPage, PatchIgnored, ResultIgnored,
         vars, stateVars
<1>5. CASE NoticeClosed \/ PatchBuffered \/ PatchAhead
  <2>1. GoOffline(data, pendingShown, feedback) \/ UNCHANGED <<data, cache>>
    BY <1>5 DEF NoticeClosed, PatchBuffered, PatchAhead, stateVars
  <2> QED
    BY <1>1, <1>2, <2>1, FollowedOffline
<1>6. CASE PatchNext
  BY <1>3, <1>6 DEF PatchNext, Changed, CaptureSync
<1>7. CASE ReceiveSnapshot
  BY <1>3, <1>7, SnapshotIsSaved
<1>8. CASE ResultSettles \/ ActivateSent \/ ActivateFails \/ Timeout
  <2>1. \/ data' = data \/ data' = [data EXCEPT !["playing"] = previous]
        \/ data' = [data EXCEPT !["playing"] = Toggle(@)]
    BY <1>8 DEF ResultSettles, ActivateSent, ActivateFails, Timeout
  <2>2. cache' = cache \/ cache' = [known |-> TRUE, data |-> data']
    BY <1>8 DEF ResultSettles, ActivateSent, ActivateFails, Timeout, CaptureSync
  <2> QED
    BY <1>2, <2>1, <2>2, FollowedStays
<1>9. CASE Restart
  <2>1. /\ cache' \in {file, NoRecord} /\ data' = IF cache'.known THEN cache'.data ELSE WatchDefault
        /\ file' = file
    BY <1>9 DEF Restart
  <2>2. Followed(WatchDefault) \in HostStates /\ NoRecord.data = WatchDefault
    BY DEF HostStates, NoRecord
  <2> QED
    BY <1>0, <1>10, <2>1, <2>2 DEF StatesInv
<1> QED
  BY <1>4, <1>5, <1>6, <1>7, <1>8, <1>9 DEF Next, WatchReceives

LEMMA InitIsPromised == Init => Promise!Init /\ StatesInv
<1> SUFFICES ASSUME Init PROVE Promise!Init /\ StatesInv
  OBVIOUS
<1>1. /\ link = "closed" /\ syncing = FALSE /\ connection = "offline" /\ revision = 0
      /\ data = WatchDefault /\ cache.data = WatchDefault /\ file.data = WatchDefault
  BY DEF Init, NoRecord
<1>2. 4 + MaxActions \in Nat
  BY SystemAssumption
<1>3. [n \in 0 .. 4 + MaxActions |-> HostLeaves(n)]
        \in [0 .. 4 + MaxActions -> [Leaves \ {"playing"} -> LeafValues]]
  BY <1>2, FollowedIs
<1>4. Followed(data) \in [Leaves \ {"playing"} -> LeafValues]
  BY <1>1, Defaults, FollowedIs
<1>5. Promise!Init
  BY <1>1, <1>2, <1>3, <1>4 DEF Promise!Init
<1> QED
  BY <1>1, <1>5 DEF StatesInv, HostStates

\* A connection that ends is one the promise may lose.
LEMMA OfflineIsLost ==
    ASSUME IInv, GoOffline(data, pendingShown, feedback), UNCHANGED revision, link # "closed"
    PROVE  Promise!Lose
<1>1. /\ link' = "closed" /\ syncing' = FALSE /\ connection' = "offline"
  BY DEF GoOffline
<1>2. Followed(data') = Followed(data)
  BY FollowedOffline
<1> QED
  BY <1>1, <1>2 DEF Promise!Lose, Promise!Unlink, Promise!hostVars

\* Every step of the system is a step of SyncPromise or leaves it unchanged.
LEMMA StepIsPromised ==
    ASSUME IInv, GapInv, StatesInv, [Next]_vars, IInv', ShownInv'
    PROVE  [Promise!Next]_(Promise!promiseVars)
<1>1. ASSUME Followed(data') = Followed(data), UNCHANGED <<syncing, connection, revision>>,
             link' = "closed" <=> link = "closed"
      PROVE  UNCHANGED Promise!promiseVars
  BY <1>1 DEF Promise!promiseVars
<1>2. CASE HostSyncs \/ HostAnswers \/ LinkBreaks \/ Idle \/ TurnPage \/ PatchIgnored
           \/ ResultIgnored \/ UNCHANGED vars
  BY <1>1, <1>2
     DEF HostSyncs, HostAnswers, LinkBreaks, Idle, TurnPage, PatchIgnored, ResultIgnored,
         vars, netVars, syncVars, stateVars
<1>3. CASE ResultSettles \/ ActivateSent \/ ActivateFails \/ Timeout
  <2>1. \/ data' = data \/ data' = [data EXCEPT !["playing"] = previous]
        \/ data' = [data EXCEPT !["playing"] = Toggle(@)]
    BY <1>3 DEF ResultSettles, ActivateSent, ActivateFails, Timeout
  <2>2. UNCHANGED <<link, syncing, connection, revision>>
    BY <1>3 DEF ResultSettles, ActivateSent, ActivateFails, Timeout, netVars, syncVars
  <2> QED
    BY <1>1, <2>1, <2>2, FollowedStays
<1>4. CASE Connect
  <2>1. link = "closed" /\ link' = "open" /\ syncing' = TRUE /\ UNCHANGED <<data, revision>>
        /\ connection' = "connecting"
    BY <1>4 DEF Connect
  <2>2. connection = "offline"
    BY <2>1 DEF IInv, WatchInv, ShownConnectionIsReal
  <2>3. Promise!Link
    BY <2>1, <2>2 DEF Promise!Link
  <2> QED
    BY <2>3 DEF Promise!Next
<1>5. CASE NoticeClosed \/ PatchBuffered \/ PatchAhead
  <2>1. link # "closed"
    BY <1>5 DEF NoticeClosed, PatchBuffered, PatchAhead, Received
  <2>2. CASE GoOffline(data, pendingShown, feedback) /\ UNCHANGED revision
    BY <2>1, <2>2, OfflineIsLost DEF Promise!Next
  <2>3. CASE /\ PatchBuffered
             /\ UNCHANGED <<link, syncing, connection, revision, data>>
    BY <1>1, <2>3
  <2>4. CASE /\ ~syncing /\ syncing' = TRUE
             /\ UNCHANGED <<link, connection, revision, data>>
    <3>1. Promise!Ask
      BY <2>1, <2>4 DEF Promise!Ask
    <3> QED
      BY <3>1 DEF Promise!Next
  <2> QED
    BY <1>5, <2>2, <2>3, <2>4
       DEF NoticeClosed, PatchBuffered, PatchAhead, RequestSync, stateVars
<1>6. CASE PatchNext
  <2>1. /\ link # "closed" /\ ~syncing /\ revision' = revision + 1
        /\ connection' = "online" /\ UNCHANGED <<link, syncing>>
    BY <1>6 DEF PatchNext, Received, Changed
  <2>2. connection = "online"
    BY <2>1 DEF IInv, WatchInv, OnlineOnceSynced
  <2>3. revision' \in 0 .. 4 + MaxActions /\ Followed(data') = HostLeaves(revision')
    BY <2>1, SyncedShowsRevision
  <2>4. revision < 4 + MaxActions
    BY <2>1, <2>3, Numbers
  <2>5. Followed(data') = [n \in 0 .. 4 + MaxActions |-> HostLeaves(n)][revision']
    BY <2>3
  <2>6. Promise!Advance
    BY <2>1, <2>2, <2>4, <2>5 DEF Promise!Advance
  <2> QED
    BY <2>6 DEF Promise!Next
<1>7. CASE ReceiveSnapshot
  <2>1. /\ link # "closed" /\ syncing /\ syncing' = FALSE /\ link' = link
        /\ connection' = "online"
    BY <1>7, SnapshotCloses, SnapshotIsSaved
  <2>2. revision' \in 0 .. 4 + MaxActions /\ Followed(data') = HostLeaves(revision')
    BY <2>1, SyncedShowsRevision
  <2>3. Followed(data') = [n \in 0 .. 4 + MaxActions |-> HostLeaves(n)][revision']
    BY <2>2
  <2>4. Promise!Move
    BY <2>1, <2>2, <2>3 DEF Promise!Move
  <2>5. Promise!Install
    BY <2>1, <2>4 DEF Promise!Install
  <2> QED
    BY <2>5 DEF Promise!Next
<1>8. CASE Restart
  <2>1. /\ link' = "closed" /\ syncing' = FALSE /\ connection' = "offline" /\ revision' = 0
        /\ cache' = file \/ cache' = NoRecord
        /\ data' = cache'.data \/ data' = WatchDefault
    BY <1>8 DEF Restart
  <2>2. data' = file.data \/ data' = WatchDefault
    BY <2>1 DEF NoRecord
  <2>3. Followed(data') \in HostStates
    BY <2>2 DEF StatesInv, HostStates
  <2>4. Promise!Restart
    BY <2>1, <2>3 DEF Promise!Restart, Promise!Unlink, Promise!hostVars, HostStates
  <2> QED
    BY <2>4 DEF Promise!Next
<1> QED
  BY <1>2, <1>3, <1>4, <1>5, <1>6, <1>7, <1>8 DEF Next, WatchReceives

\* The watch and its host together are an implementation of the abstract service, on
\* the leaves that follow the host: the watch shows, and starts again with, the state
\* of one revision as a whole.
THEOREM SystemKeepsPromise == Spec => ImplementsPromise
<1>1. Init => Promise!Init /\ StatesInv
  BY InitIsPromised
<1>2. IInv /\ GapInv /\ StatesInv /\ [Next]_vars /\ IInv' /\ ShownInv' => StatesInv'
  BY NextKeepsStatesInv
<1>3. IInv /\ GapInv /\ StatesInv /\ [Next]_vars /\ IInv' /\ ShownInv'
        => [Promise!Next]_(Promise!promiseVars)
  BY StepIsPromised
<1> QED
  BY <1>1, <1>2, <1>3, ShownInvariance, PTL
     DEF Spec, ImplementsPromise, Promise!Spec
-----------------------------------------------------------------------------
(* Nobody waits in vain.                                                   *)

\* Host data that is shown online is fresh.
OnlineIsFresh == connection = "online" => ~stale

LEMMA NextKeepsFresh == OnlineIsFresh /\ [Next]_vars => OnlineIsFresh'
<1> SUFFICES ASSUME OnlineIsFresh, [Next]_vars PROVE OnlineIsFresh'
  OBVIOUS
<1>1. CASE UNCHANGED <<connection, stale>>
  BY <1>1 DEF OnlineIsFresh
<1>2. CASE connection' # "online" \/ stale' = FALSE
  BY <1>2 DEF OnlineIsFresh
<1>3. CASE HostSyncs \/ HostAnswers \/ LinkBreaks \/ Idle \/ PatchIgnored \/ ResultIgnored
           \/ ResultSettles \/ ActivateSent \/ ActivateFails \/ TurnPage \/ Timeout
           \/ UNCHANGED vars
  BY <1>1, <1>3
     DEF HostSyncs, HostAnswers, LinkBreaks, Idle, PatchIgnored, ResultIgnored, ResultSettles,
         ActivateSent, ActivateFails, TurnPage, Timeout, vars, stateVars
<1>4. CASE Connect \/ NoticeClosed \/ Restart
  BY <1>2, <1>4 DEF Connect, NoticeClosed, GoOffline, Restart
<1>5. CASE PatchBuffered \/ PatchAhead
  BY <1>1, <1>2, <1>5 DEF PatchBuffered, PatchAhead, GoOffline, stateVars
<1>6. CASE PatchNext
  BY <1>2, <1>6 DEF PatchNext, Changed
<1>7. CASE ReceiveSnapshot
  BY <1>2, <1>7 DEF ReceiveSnapshot, Changed, GoOffline
<1> QED
  BY <1>3, <1>4, <1>5, <1>6, <1>7 DEF Next, WatchReceives

\* With nothing under way there is no snapshot to come, no result, and no patch the
\* watch has not had: it is settled.  So a pair that has come to rest is one that
\* agrees, whatever was lost, ignored or asked for twice on the way.
THEOREM QuietMeansSettled == Spec => []QuietIsSettled
<1>1. ASSUME IInv, GapInv, OnlineIsFresh, link = "open", toHost = <<>>, toWatch = <<>>
      PROVE  Settled /\ hostRevision <= revision
  <2>1. Len(toWatch) = 0 /\ DOMAIN toWatch = {} /\ DOMAIN toHost = {}
    BY <1>1
  <2>2. Count(toHost, "sync") = 0 /\ Count(toWatch, "snapshot") = 0
    BY <1>1, EmptyQueue
  <2>3. ~syncing
    BY <1>1, <2>2 DEF IInv, NetInv, OneSnapshot
  <2>4. connection = "online" /\ ~stale
    BY <1>1, <2>3 DEF IInv, WatchInv, OnlineOnceSynced, OnlineIsFresh
  <2>5. ~pending
    BY <1>1, <2>1 DEF IInv, NetInv, AnswerComes, Members
  <2>6. ~Has(toWatch, 0, hostRevision)
    <3>1. 0 + 1 .. 0 = {}
      OBVIOUS
    <3> QED
      BY <2>1, <3>1 DEF Has
  <2>7. hostRevision <= revision
    BY <1>1, <2>3, <2>6 DEF GapInv, InStep
  <2>8. ~(hostRevision < 4)
    BY <1>1 DEF IInv, NetInv, SyncComesFirst
  <2>9. revision >= 4
    BY <1>1, <2>7, <2>8, Numbers
  <2> QED
    BY <1>1, <2>3, <2>4, <2>5, <2>7, <2>9 DEF Settled
<1>2. IInv /\ GapInv /\ OnlineIsFresh => QuietIsSettled
  BY <1>1 DEF QuietIsSettled
<1>3. Init => OnlineIsFresh
  BY DEF Init, OnlineIsFresh
<1> QED
  BY <1>2, <1>3, NextKeepsFresh, GapInvariance, PTL DEF Spec
=============================================================================
